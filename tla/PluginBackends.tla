--------------------------- MODULE PluginBackends ---------------------------
(***************************************************************************)
(* The backend process of one plugin: the host's supervisor                *)
(* (plugins/supervisor.rs) and the contained Node.js process it drives     *)
(* (piui-runtime/plugin_backend.rs).  Calls start the backend on first use *)
(* under a start lock, hold it until their answer, and end its whole       *)
(* process tree when they time out; crashes are counted, delay the next    *)
(* start and after a limit stop it.  Commands of Settings stop or restart  *)
(* it, or disable or remove the plugin, beside the calls.                  *)
(* Time is a choice: a back-off may end, a crash may leave the window and  *)
(* a timeout may strike at any step.  What Settings shows of a backend     *)
(* (its log, restarts and why Node.js is missing) is left out.             *)
(***************************************************************************)
EXTENDS Naturals, FiniteSets

CONSTANTS
  Calls,      \* requests for the backend, each made at most once
  Projects,   \* project folders
  NoProject,  \* a request that names none
  Host,       \* the task of a Settings command
  MaxProc,    \* bound on the processes started
  MaxCommand, \* bound on the Settings commands
  CrashLimit, \* CRASH_LOOP_LIMIT
  Commands,   \* the Settings commands taken
  Trusted     \* the permission sets considered

Tasks == Calls \cup {Host}
Nobody == "nobody"
Proc == 1..MaxProc

VARIABLES
  off,      \* "no", or the command that made the plugin inactive
  perms,    \* the permissions the user trusted
  shutting, \* the application is exiting
  slot,     \* SlotState of the plugin
  lock,     \* holder of the slot's start lock
  procs,    \* the processes started so far
  task,     \* each call and command: its step, process, folders and answer
  watched,  \* the generation each process's watcher was given; 0: none or over
  held,     \* calls admitted before the last stop took the backend
  command,  \* the Settings command in progress
  commands  \* how many began

vars == <<off, perms, shutting, slot, lock, procs, task, watched, held, command, commands>>
host == <<off, perms, shutting, held, command, commands>>

NoProc == [alive |-> FALSE, exit |-> "none", stopping |-> FALSE, pending |-> {},
           reader |-> FALSE, read |-> {}, write |-> {}, by |-> Nobody]
Idle == [pc |-> "idle", on |-> 0, project |-> NoProject, wanted |-> {}, answer |-> "none"]
Done == [Idle EXCEPT !.pc = "done"]
Starting == {"spawn", "init", "unstart"}
Replacing == {"ask", "asked"}
Holding == {"send", "write", "wait", "reap"}
Admitted == {"lock", "check", "probe"} \cup Replacing \cup Starting

\* Every variable has its type.
TypeOK ==
  /\ off \in Commands \cup {"no"} /\ perms \in Trusted /\ shutting \in BOOLEAN
  /\ slot \in [backend : 0..MaxProc, generation : 0..MaxProc, starting : BOOLEAN,
               crashes : 0..CrashLimit, wait : BOOLEAN, loop : BOOLEAN,
               projects : SUBSET Projects, inUse : 0..Cardinality(Calls)]
  /\ lock \in Calls \cup {Nobody}
  /\ procs \in [Proc -> [alive : BOOLEAN, exit : {"none", "stopped", "crashed"}, stopping : BOOLEAN,
                         pending : SUBSET Tasks, reader : BOOLEAN,
                         read : SUBSET (Projects \cup {"package", "data"}),
                         write : SUBSET (Projects \cup {"data"}), by : Calls \cup {Nobody}]]
  /\ task \in [Tasks -> [pc : Admitted \cup Holding \cup {"idle", "done"}, on : 0..MaxProc,
                         project : Projects \cup {NoProject}, wanted : SUBSET Projects,
                         answer : {"none", "answer", "lost", "ended"}]]
  /\ watched \in [Proc -> 0..MaxProc] /\ held \subseteq Calls
  /\ command \in Commands \cup {"none"} /\ commands \in 0..MaxCommand

Init ==
  /\ off = "no" /\ perms \in Trusted /\ shutting = FALSE
  /\ slot = [backend |-> 0, generation |-> 0, starting |-> FALSE, crashes |-> 0,
             wait |-> FALSE, loop |-> FALSE, projects |-> {}, inUse |-> 0]
  /\ lock = Nobody /\ procs = [n \in Proc |-> NoProc] /\ task = [t \in Tasks |-> Idle]
  /\ watched = [n \in Proc |-> 0] /\ held = {} /\ command = "none" /\ commands = 0
-----------------------------------------------------------------------------
(* One process.                                                            *)

Running(n) == n > 0 /\ procs[n].exit = "none"

\* A crash and a protocol violation count as crashes; a timeout and a
\* cancellation are the host's doing.
ExitOf(reason) == IF reason \in {"crashed", "protocol"} THEN "crashed" ELSE "stopped"

\* Shared::end: the tree is terminated and only the first reason is kept.
Ended(p, reason) ==
  [p EXCEPT !.alive = FALSE, !.stopping = TRUE, !.pending = {},
            !.exit = IF @ = "none" THEN ExitOf(reason) ELSE @]
End(n, reason) == procs' = [procs EXCEPT ![n] = Ended(@, reason)]

\* fail_pending: every request still waiting for process n is told the
\* reason; "ended" stands for a timeout or a cancellation.
Told(n, reason) ==
  [t \in Tasks |->
     IF t \in procs[n].pending
     THEN [task[t] EXCEPT !.answer = IF reason \in {"timedout", "cancelled"} THEN "ended" ELSE "lost"]
     ELSE task[t]]

\* What Node's permission model lets the process reach.
Given(folders) == IF perms = {} THEN {} ELSE folders
Reads(folders) == {"package", "data"} \cup Given(folders)
Writes(folders) == {"data"} \cup IF "project.write" \in perms THEN Given(folders) ELSE {}

\* The backend answers one of its pending requests.
Respond(n) ==
  /\ procs[n].reader /\ procs[n].alive
  /\ \E t \in procs[n].pending : /\ procs' = [procs EXCEPT ![n].pending = @ \ {t}]
                                 /\ task' = [task EXCEPT ![t].answer = "answer"]
  /\ UNCHANGED <<host, slot, lock, watched>>

\* read_frames ends: a frame that is no answer to a pending request, or the
\* end of the output, which the host expects once it is stopping the process.
ReaderEnds(n) ==
  /\ procs[n].reader
  /\ \E reason \in {"protocol", IF procs[n].stopping THEN "stopped" ELSE "crashed"} :
       /\ procs' = [procs EXCEPT ![n] = [Ended(@, reason) EXCEPT !.reader = FALSE]]
       /\ task' = Told(n, reason)
  /\ UNCHANGED <<host, slot, lock, watched>>

\* A settings/changed notification that cannot be written.
NotifyFails ==
  /\ Running(slot.backend) /\ End(slot.backend, "crashed") /\ task' = Told(slot.backend, "crashed")
  /\ UNCHANGED <<host, slot, lock, watched>>
-----------------------------------------------------------------------------
(* Crash accounting.                                                       *)

\* crash(): kept of the earlier crashes are still in the window.  The length
\* of the back-off, 1, 2, 4 ... 60 seconds, is left out.
Crashed(s, kept) ==
  IF kept + 1 >= CrashLimit THEN [s EXCEPT !.crashes = kept + 1, !.loop = TRUE]
  ELSE [s EXCEPT !.crashes = kept + 1, !.wait = TRUE]
\* Crashes past the limit make no difference until a restart.
Kept(s) == 0..IF s.crashes < CrashLimit THEN s.crashes ELSE CrashLimit - 1

BackoffPasses ==
  /\ slot.wait /\ slot' = [slot EXCEPT !.wait = FALSE]
  /\ UNCHANGED <<host, lock, procs, task, watched>>

\* watch(): the exit counts only for the generation that is still the newest.
Watch(n) ==
  /\ watched[n] > 0 /\ procs[n].exit # "none"
  /\ watched' = [watched EXCEPT ![n] = 0]
  /\ LET cleared == IF slot.backend > 0 /\ ~Running(slot.backend)
                    THEN [slot EXCEPT !.backend = 0] ELSE slot
     IN \/ slot.generation # watched[n] /\ UNCHANGED slot
        \/ slot.generation = watched[n] /\ procs[n].exit = "stopped" /\ slot' = cleared
        \/ /\ slot.generation = watched[n] /\ procs[n].exit = "crashed"
           /\ \E kept \in Kept(slot) : slot' = Crashed(cleared, kept)
  /\ UNCHANGED <<host, lock, procs, task>>
-----------------------------------------------------------------------------
(* One call.                                                               *)

At(t, step) == task[t].pc = step
Own(c) == {task[c].project} \ {NoProject}

\* plugin_command_v1 and node runs: an active plugin's backend is asked for.
Begin(c) ==
  /\ At(c, "idle") /\ off = "no"
  /\ \E p \in Given(Projects) \cup {NoProject} :
       task' = [task EXCEPT ![c] = IF shutting THEN Done ELSE [Idle EXCEPT !.pc = "lock", !.project = p]]
  /\ UNCHANGED <<host, slot, lock, procs, watched>>

Suits(c) == Running(slot.backend) /\ Own(c) \subseteq slot.projects
Busy == slot.inUse > 0 \/ procs[slot.backend].pending # {}

Free == lock = Nobody

\* ensure(): use the running backend, refuse, replace it or start one.
Ensure(c) ==
  /\ At(c, "lock") /\ Free
  /\ \/ /\ Suits(c)
        /\ slot' = [slot EXCEPT !.inUse = @ + 1]
        /\ task' = [task EXCEPT ![c].pc = "send", ![c].on = slot.backend] /\ UNCHANGED lock
     \/ /\ Running(slot.backend) /\ ~Suits(c) /\ Busy
        /\ task' = [task EXCEPT ![c] = Done] /\ UNCHANGED <<slot, lock>>
     \/ /\ Running(slot.backend) /\ ~Suits(c) /\ ~Busy
        /\ slot' = [slot EXCEPT !.backend = 0] /\ lock' = c
        /\ task' = [task EXCEPT ![c].pc = "ask", ![c].on = slot.backend,
                                ![c].wanted = slot.projects \cup Own(c)]
     \/ /\ ~Running(slot.backend) /\ lock' = c
        /\ task' = [task EXCEPT ![c].pc = "check", ![c].wanted = Own(c)] /\ UNCHANGED slot
  /\ UNCHANGED <<host, procs, watched>>

\* shutdown(): a running backend is asked to end, then its tree is ended.
Ask(t) ==
  /\ At(t, "ask")
  /\ LET n == task[t].on
     IN \/ /\ Running(n)
           /\ procs' = [procs EXCEPT ![n].stopping = TRUE, ![n].pending = @ \cup {t}]
           /\ task' = [task EXCEPT ![t].pc = "asked"]
        \/ Running(n) /\ End(n, "crashed") /\ task' = [Told(n, "crashed") EXCEPT ![t].pc = "asked"]
        \/ ~Running(n) /\ task' = [task EXCEPT ![t].pc = "asked"] /\ UNCHANGED procs
  /\ UNCHANGED <<host, slot, lock, watched>>

\* The grace may pass inside the request, which then ends the process itself.
AskEnds(t) ==
  /\ At(t, "asked")
  /\ \E reason \in {"stopped"} \cup IF t \in procs[task[t].on].pending THEN {"timedout"} ELSE {} :
       /\ End(task[t].on, reason)
       /\ task' = [Told(task[t].on, reason) EXCEPT ![t].answer = "none",
                     ![t].pc = IF t = Host THEN "reap" ELSE "check"]
  /\ UNCHANGED <<host, slot, lock, watched>>

Gives(c) == task' = [task EXCEPT ![c] = Done] /\ lock' = Nobody

\* A crash loop and the back-off refuse; so does a missing or old Node.js.
Check(c) ==
  /\ At(c, "check")
  /\ IF slot.loop \/ slot.wait THEN Gives(c) ELSE task' = [task EXCEPT ![c].pc = "probe"] /\ UNCHANGED lock
  /\ UNCHANGED <<host, slot, procs, watched>>
Probe(c) ==
  /\ At(c, "probe")
  /\ \/ Gives(c) /\ UNCHANGED slot
     \/ /\ slot' = [slot EXCEPT !.starting = TRUE]
        /\ task' = [task EXCEPT ![c].pc = "spawn"] /\ UNCHANGED lock
  /\ UNCHANGED <<host, procs, watched>>

StartFails(c) == \E kept \in Kept(slot) : slot' = [Crashed(slot, kept) EXCEPT !.starting = FALSE]

\* start(): a contained process and its initialize request.
Spawn(c) ==
  /\ At(c, "spawn")
  /\ \/ StartFails(c) /\ Gives(c) /\ UNCHANGED procs
     \/ \E n \in Proc :
          /\ procs[n] = NoProc /\ \A k \in 1..(n - 1) : procs[k] # NoProc
          /\ procs' = [procs EXCEPT ![n] =
                         [alive |-> TRUE, exit |-> "none", stopping |-> FALSE, pending |-> {c},
                          reader |-> TRUE, read |-> Reads(task[c].wanted),
                          write |-> Writes(task[c].wanted), by |-> c]]
          /\ task' = [task EXCEPT ![c].pc = "init", ![c].on = n] /\ UNCHANGED <<slot, lock>>
  /\ UNCHANGED <<host, watched>>

\* The backend accepted protocol 1: it is installed and watched.
Install(c) ==
  /\ At(c, "init") /\ task[c].answer = "answer"
  /\ slot' = [slot EXCEPT !.starting = FALSE, !.generation = @ + 1, !.backend = task[c].on,
                          !.projects = task[c].wanted, !.inUse = @ + 1]
  /\ watched' = [watched EXCEPT ![task[c].on] = slot.generation + 1]
  /\ lock' = Nobody
  /\ task' = [task EXCEPT ![c].pc = "send", ![c].answer = "none", ![c].wanted = {}]
  /\ UNCHANGED <<host, procs>>

\* It refused, answered something else, ended or did not answer in time.
Rejected(c) ==
  /\ At(c, "init")
  /\ \E reason \in IF task[c].answer = "none" THEN {"timedout"} ELSE {"stopped"} :
       /\ End(task[c].on, reason)
       /\ task' = [Told(task[c].on, reason) EXCEPT ![c].pc = "unstart", ![c].answer = "none"]
  /\ UNCHANGED <<host, slot, lock, watched>>
Unstart(c) ==
  /\ At(c, "unstart") /\ StartFails(c) /\ Gives(c)
  /\ UNCHANGED <<host, procs, watched>>

\* Drop of InUse.
\* Mutant: a call that gave up keeps its hold.
ReleasedUnlessReaped(c) == slot' = IF At(c, "reap") THEN slot ELSE [slot EXCEPT !.inUse = @ - 1]
Released(c) == slot' = [slot EXCEPT !.inUse = @ - 1]

\* request(): the running check, then the pending entry and the write, which
\* may fail or, for a tree that just ended, vanish in the pipe.
Send(c) ==
  /\ At(c, "send")
  /\ IF Running(task[c].on) THEN task' = [task EXCEPT ![c].pc = "write"] /\ UNCHANGED slot
     ELSE task' = [task EXCEPT ![c] = Done] /\ Released(c)
  /\ UNCHANGED <<host, lock, procs, watched>>
Write(c) ==
  /\ At(c, "write")
  /\ LET n == task[c].on
     IN \/ /\ procs' = [procs EXCEPT ![n].pending = @ \cup {c}]
           /\ task' = [task EXCEPT ![c].pc = "wait"] /\ UNCHANGED slot
        \/ End(n, "crashed") /\ task' = [Told(n, "crashed") EXCEPT ![c] = Done] /\ Released(c)
  /\ UNCHANGED <<host, lock, watched>>

\* The answer, or the reason there is none.
Takes(c) ==
  /\ At(c, "wait") /\ task[c].answer # "none"
  /\ task' = [task EXCEPT ![c] = Done] /\ Released(c)
  /\ UNCHANGED <<host, lock, procs, watched>>

GivesUp(c) ==
  /\ At(c, "wait")
  /\ End(task[c].on, "timedout")
  /\ task' = [Told(task[c].on, "timedout") EXCEPT ![c].pc = "reap", ![c].answer = "ended"]
  /\ UNCHANGED <<host, slot, lock, watched>>
Reap(c) ==
  /\ At(c, "reap")
  /\ task' = [task EXCEPT ![c] = Done] /\ Released(c)
  /\ UNCHANGED <<host, lock, procs, watched>>
-----------------------------------------------------------------------------
(* Commands of Settings, and the exit of the application.                  *)

Taken == slot.backend

\* A disabled plugin is recorded first; the others act on a stopped backend.
Begins(k) ==
  /\ k \in Commands \ {"enable", "quit"} /\ At(Host, "idle") /\ commands < MaxCommand
  /\ k \in {"disable", "restart"} => off = "no"
  /\ command' = k /\ commands' = commands + 1
  /\ off' = IF k = "disable" THEN k ELSE off
  /\ held' = {c \in Calls : task[c].pc \in Admitted}
  /\ slot' = IF Taken = 0 THEN slot ELSE [slot EXCEPT !.backend = 0]
  /\ task' = [task EXCEPT ![Host].pc = IF Taken = 0 THEN "reap" ELSE "ask", ![Host].on = Taken]
  /\ UNCHANGED <<perms, shutting, lock, procs, watched>>

\* restart() forgets the crash history; a removed plugin is gone, a reloaded
\* one may have changed what the user trusted.
Completes ==
  /\ At(Host, "reap") /\ task' = [task EXCEPT ![Host] = Idle] /\ command' = "none"
  /\ slot' = IF command = "restart" THEN [slot EXCEPT !.loop = FALSE, !.crashes = 0, !.wait = FALSE] ELSE slot
  /\ off' \in CASE command = "remove" -> {"remove"}
                [] command = "reload" /\ off = "no" -> {"no", "reload"}
                [] OTHER -> {off}
  /\ UNCHANGED <<perms, shutting, held, commands, lock, procs, watched>>
Enable ==
  /\ "enable" \in Commands /\ At(Host, "idle") /\ commands < MaxCommand /\ off # "no"
  /\ off' = "no" /\ commands' = commands + 1
  /\ UNCHANGED <<perms, shutting, held, command, slot, lock, procs, task, watched>>

\* shutdown_all(): no new calls, and the installed backend's tree ends at once.
Quit ==
  /\ "quit" \in Commands /\ ~shutting /\ shutting' = TRUE
  /\ slot' = [slot EXCEPT !.backend = 0]
  /\ IF slot.backend = 0 THEN UNCHANGED <<procs, task>>
     ELSE End(slot.backend, "stopped") /\ task' = Told(slot.backend, "stopped")
  /\ UNCHANGED <<perms, off, held, command, commands, lock, watched>>

Next ==
  \/ \E c \in Calls : \/ Begin(c) \/ Ensure(c) \/ Check(c) \/ Probe(c) \/ Spawn(c) \/ Install(c)
                      \/ Rejected(c) \/ Unstart(c) \/ Send(c) \/ Write(c) \/ Takes(c)
                      \/ GivesUp(c) \/ Reap(c)
  \/ \E t \in Tasks : Ask(t) \/ AskEnds(t)
  \/ \E n \in Proc : Respond(n) \/ ReaderEnds(n) \/ Watch(n)
  \/ BackoffPasses \/ NotifyFails \/ Completes \/ Enable \/ Quit
  \/ \E k \in Commands : Begins(k)
Spec == Init /\ [][Next]_vars

-----------------------------------------------------------------------------
\* The holds on the backend are exactly the calls between ensure() and the
\* drop of their guard, whichever process they were given (SlotState::in_use).
HoldsCounted == slot.inUse = Cardinality({c \in Calls : task[c].pc \in Holding})

\* "a restart for another project never cuts one off": the process that a call
\* replaces is one no other call holds.
ReplacementCutsNobody ==
  \A c, d \in Calls : task[c].pc \in Replacing /\ task[d].pc \in Holding => task[d].on # task[c].on

\* A request is written only to a process that may read the folder it names,
\* however often the backend was replaced for other folders.
InProject == \A c \in Calls : At(c, "wait") => Own(c) \subseteq procs[task[c].on].read

\* Besides processes some task is shutting down, at most one tree is alive:
\* the start lock covers the whole start, the stops of Settings take no lock.
OneTree ==
  Cardinality({n \in Proc : procs[n].alive /\ \A t \in Tasks : task[t].on = n => task[t].pc \notin Replacing}) <= 1

\* "A timeout or a cancellation stops the whole backend": a call told of
\* either left no process of its own alive.
TimeoutEndsTree ==
  \A c \in Calls : task[c].answer = "ended" => ~procs[task[c].on].alive

\* After a disable returned, what still lives was started by a call admitted
\* before the stop, or is being replaced by one (the stop takes no start lock).
DisabledIsStopped ==
  off = "disable" /\ At(Host, "idle") =>
    \A n \in Proc : procs[n].alive =>
      procs[n].by \in held \/ \E c \in held : task[c].on = n /\ task[c].pc \in Replacing

=============================================================================
