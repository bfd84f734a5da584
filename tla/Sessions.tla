------------------------------ MODULE Sessions ------------------------------
(***************************************************************************)
(* The sessions of one workspace (workspace_api.rs): how a native runtime  *)
(* is started, published, used, closed and deleted while trust may be      *)
(* withdrawn, and how its events reach the catalog.  Native initialization *)
(* runs without the operation gate, under a per-session reservation; an    *)
(* explicit close takes no gate at all.  Prompts, models, titles and the   *)
(* tools of a start are left out; a status stands for the status and the   *)
(* approvals a session shows.  Registry writes do not fail here (see       *)
(* GenerationStore).                                                       *)
(***************************************************************************)
EXTENDS Naturals, Sequences, FiniteSets

CONSTANTS
  Op,        \* commands in progress; each also names the runtime it starts
  Sess,      \* session ids
  Kinds,     \* the commands taken
  Old,       \* sessions recorded before this host opened
  BindsLate, \* TRUE: the harness is bound by its first turn, not its start
  MaxTurn,   \* bound on the turns of one runtime
  MaxQueue,  \* events its queue holds
  NoOp

Status == {"idle", "running", "asking", "failed"}
Event == {"idle", "running", "asking", "usage", "done", "bind"}
Calls == {"send", "snapshot", "respond"}

VARIABLES
  op,       \* each command: kind, step, session, start waited for, rest to close
  gate,     \* holder of live_runtime_operation_gate
  trusted,  \* the workspace is trusted and its folder verified
  quiet,    \* a shutdown of the workspace ended and trust has not come back
  rec,      \* registry rows
  dirty,    \* sessions with usage receipts that are only cached
  live,     \* published runtimes
  start,    \* start slots: owner and cancel flag
  run,      \* each runtime: process, native status, shown status, revision, forwarder
  shown,    \* highest revision published for a session
  overlap   \* sessions started again before a close of them had ended

registry == <<rec, dirty>>
vars == <<op, gate, trusted, quiet, rec, dirty, live, start, run, shown, overlap>>

Idle == [kind |-> "none", pc |-> "idle", s |-> CHOOSE s \in Sess : TRUE, on |-> NoOp,
         rest |-> {}, base |-> 0, seen |-> "idle"]
Done == [Idle EXCEPT !.pc = "done"]
NoRow == [here |-> FALSE, used |-> FALSE, bound |-> FALSE, managed |-> FALSE, rev |-> 0]
NoStart == [by |-> NoOp, cancel |-> FALSE]
NoRun == [s |-> CHOOSE s \in Sess : TRUE, proc |-> "none", status |-> "idle", view |-> "idle", rev |-> 0, fw |-> "none",
          queue |-> << >>, owed |-> FALSE, turns |-> 0]

\* Every variable has its type; an event queue never outgrows its bound.
TypeOK ==
  /\ op \in [Op -> [kind : Kinds \cup {"none"},
                    pc : {"idle", "await", "ready", "spawn", "first", "publish", "abandon",
                          "call", "store", "drain", "wait", "stop", "save", "done"},
                    s : Sess, on : Op \cup {NoOp}, rest : SUBSET Sess, base : Nat, seen : Status]]
  /\ gate \in Op \cup {NoOp} /\ trusted \in BOOLEAN /\ quiet \in BOOLEAN
  /\ rec \in [Sess -> [here : BOOLEAN, used : BOOLEAN, bound : BOOLEAN, managed : BOOLEAN, rev : Nat]]
  /\ dirty \subseteq Sess /\ overlap \subseteq Sess
  /\ live \in [Sess -> Op \cup {NoOp}]
  /\ start \in [Sess -> [by : Op \cup {NoOp}, cancel : BOOLEAN]]
  /\ shown \in [Sess -> Nat]
  /\ \A o \in Op : /\ run[o].proc \in {"none", "running", "gone"}
                   /\ run[o].status \in Status /\ run[o].view \in Status
                   /\ run[o].rev \in Nat /\ run[o].owed \in BOOLEAN
                   /\ run[o].fw \in {"none", "on", "closing", "ending", "off"}
                   /\ run[o].queue \in Seq(Event) /\ Len(run[o].queue) <= MaxQueue

Init ==
  /\ op = [o \in Op |-> Idle] /\ gate = NoOp /\ trusted = TRUE /\ quiet = FALSE
  /\ rec = [s \in Sess |-> IF s \in Old THEN [NoRow EXCEPT !.here = TRUE, !.used = TRUE, !.bound = TRUE] ELSE NoRow]
  /\ dirty = {} /\ live = [s \in Sess |-> NoOp] /\ start = [s \in Sess |-> NoStart]
  /\ run = [o \in Op |-> NoRun] /\ shown = [s \in Sess |-> 0] /\ overlap = {}

---------------------------------------------------------------------------
(* Starts.                                                                 *)

Maximum(a, b) == IF a > b THEN a ELSE b
Released(o) == IF gate = o THEN NoOp ELSE gate
Begins(o, k) == op[o].pc = "idle" /\ k \in Kinds

\* A close of the session still runs: it holds a runtime or its last row write.
ClosingNow(s) == \E c \in Op : op[c].pc \in {"stop", "save"} /\ op[c].s = s

\* Mutant: it forgets that a start of the session may be under way.
ReservesAgain(o, s) ==
  /\ live[s] = NoOp
  /\ start' = [start EXCEPT ![s] = [by |-> o, cancel |-> FALSE]]
  /\ overlap' = IF ClosingNow(s) THEN overlap \cup {s} ELSE overlap

\* reserve_start: one start per session, and none while it is live.
Reserves(o, s) ==
  /\ start[s] = NoStart /\ live[s] = NoOp
  /\ start' = [start EXCEPT ![s] = [by |-> o, cancel |-> FALSE]]
  /\ overlap' = IF ClosingNow(s) THEN overlap \cup {s} ELSE overlap

\* prepare_launch under the gate: reserve, then record the row.  A managed
\* launch keeps the gate of its scheduler until the start has ended.
Launch(o, s, k) ==
  /\ Begins(o, k) /\ k \in {"create", "launch"}
  /\ gate = NoOp /\ trusted /\ ~rec[s].used
  /\ Reserves(o, s)
  /\ rec' = [rec EXCEPT ![s] = [NoRow EXCEPT !.here = TRUE, !.used = TRUE, !.managed = k = "launch"]]
  /\ dirty' = {}
  /\ gate' = IF k = "launch" THEN o ELSE NoOp
  /\ op' = [op EXCEPT ![o] = [Idle EXCEPT !.kind = k, !.pc = "spawn", !.s = s]]
  /\ UNCHANGED <<trusted, quiet, live, run, shown>>

\* A command for a session that is starting waits for that start first.
Command(o, s, k) ==
  /\ Begins(o, k) /\ k \in Calls
  /\ op' = [op EXCEPT ![o] = [Idle EXCEPT !.kind = k, !.s = s, !.on = start[s].by,
                              !.pc = IF start[s] = NoStart THEN "ready" ELSE "await"]]
  /\ UNCHANGED <<gate, trusted, quiet, registry, live, start, run, shown, overlap>>

Open(o, s) ==
  /\ Begins(o, "open")
  /\ op' = [op EXCEPT ![o] = [Idle EXCEPT !.kind = "open", !.pc = "ready", !.s = s]]
  /\ UNCHANGED <<gate, trusted, quiet, registry, live, start, run, shown, overlap>>

StartEnded(o) == start[op[o].s].by # op[o].on \/ op[o].on = NoOp
Awaits(o) ==
  /\ op[o].pc = "await" /\ StartEnded(o)
  /\ op' = [op EXCEPT ![o].pc = "ready", ![o].on = NoOp]
  /\ UNCHANGED <<gate, trusted, quiet, registry, live, start, run, shown, overlap>>

\* open_session under the gate: refused, joined to the live runtime, waiting
\* for another start, or reserved with the row it read.
Opens(o) ==
  LET s == op[o].s IN
  /\ op[o].pc = "ready" /\ op[o].kind = "open" /\ gate = NoOp
  /\ \/ /\ ~rec[s].here \/ ~trusted \/ (live[s] = NoOp /\ rec[s].managed)
        /\ op' = [op EXCEPT ![o] = Done] /\ UNCHANGED <<gate, start, overlap>>
     \/ /\ rec[s].here /\ trusted /\ live[s] # NoOp
        /\ op' = [op EXCEPT ![o] = [@ EXCEPT !.pc = "call", !.on = live[s]]]
        /\ gate' = o /\ UNCHANGED <<start, overlap>>
     \/ /\ rec[s].here /\ trusted /\ live[s] = NoOp /\ ~rec[s].managed /\ start[s] # NoStart
        /\ op' = [op EXCEPT ![o].pc = "await", ![o].on = start[s].by]
        /\ UNCHANGED <<gate, start, overlap>>
     \/ /\ rec[s].here /\ trusted /\ ~rec[s].managed
        /\ Reserves(o, s)
        /\ op' = [op EXCEPT ![o].pc = "spawn", ![o].base = rec[s].rev]
        /\ UNCHANGED gate
  /\ UNCHANGED <<trusted, quiet, registry, live, run, shown>>

\* A start that ends without a published runtime: a new row without a native
\* binding goes, then the reservation is released.
Undone(o) ==
  LET s == op[o].s
      drop == op[o].kind \in {"create", "launch"} /\ ~rec[s].bound IN
  /\ rec' = IF drop THEN [rec EXCEPT ![s].here = FALSE] ELSE rec
  /\ dirty' = IF op[o].kind = "open" THEN dirty ELSE {}
  /\ start' = [start EXCEPT ![s] = IF @.by = o THEN NoStart ELSE @]
  /\ gate' = Released(o)
  /\ op' = [op EXCEPT ![o] = Done]

Cancelled(o) == start[op[o].s].cancel

\* The native spawn ends: running, failed, or dropped because it was withdrawn.
Spawn(o) ==
  /\ op[o].pc = "spawn"
  /\ \/ /\ run' = [run EXCEPT ![o].proc = "running", ![o].s = op[o].s]
        /\ op' = [op EXCEPT ![o].pc = "first"]
        /\ UNCHANGED <<gate, registry, start>>
     \/ Undone(o) /\ UNCHANGED run
  /\ UNCHANGED <<trusted, quiet, live, shown, overlap>>

\* The first snapshot: a withdrawn start and a failed one are retired; else
\* the row takes the binding a harness has from its start.
First(o) ==
  /\ op[o].pc = "first"
  /\ \/ /\ run[o].proc = "running" /\ ~Cancelled(o) /\ rec[op[o].s].here
        /\ rec' = [rec EXCEPT ![op[o].s].bound = @ \/ ~BindsLate]
        /\ dirty' = {}
        /\ op' = [op EXCEPT ![o].pc = "publish", ![o].seen = run[o].status]
        /\ UNCHANGED <<gate, start, run>>
     \/ /\ Cancelled(o) \/ run[o].proc = "gone" \/ ~rec[op[o].s].here
        /\ run' = [run EXCEPT ![o].proc = "gone"]
        /\ Undone(o)
  /\ UNCHANGED <<trusted, quiet, live, shown, overlap>>

\* Under the gate again: authorize once more.
Reauthorized == trusted
\* commit_spawned: publish the runtime, then release the reservation.
Commits(o) ==
  LET s == op[o].s IN
  /\ live' = [live EXCEPT ![s] = o]
  /\ run' = [run EXCEPT ![o].fw = "on", ![o].view = op[o].seen, ![o].rev = op[o].base + 1]
  /\ shown' = [shown EXCEPT ![s] = Maximum(@, op[o].base + 1)]
  /\ start' = [start EXCEPT ![s] = IF @.by = o THEN NoStart ELSE @]
  /\ gate' = Released(o)
  /\ op' = [op EXCEPT ![o] = Done]

Publish(o) ==
  LET s == op[o].s IN
  /\ op[o].pc = "publish"
  /\ \/ /\ Cancelled(o)
        /\ op' = [op EXCEPT ![o].pc = "abandon"] /\ UNCHANGED <<gate, live, start, run, shown>>
     \/ /\ ~Cancelled(o) /\ gate = NoOp /\ ~Reauthorized
        /\ op' = [op EXCEPT ![o].pc = "abandon"] /\ UNCHANGED <<gate, live, start, run, shown>>
     \/ /\ ~Cancelled(o)
        /\ gate = o \/ (gate = NoOp /\ Reauthorized)
        /\ IF live[s] = NoOp
             THEN Commits(o)
             ELSE op' = [op EXCEPT ![o].pc = "abandon"] /\ UNCHANGED <<gate, live, start, run, shown>>
  /\ UNCHANGED <<trusted, quiet, registry, overlap>>

\* abandon: retire the unpublished runtime, then undo the start.
Abandon(o) ==
  /\ op[o].pc = "abandon"
  /\ run' = [run EXCEPT ![o].proc = "gone"]
  /\ Undone(o)
  /\ UNCHANGED <<trusted, quiet, live, shown, overlap>>

---------------------------------------------------------------------------
(* Commands of a live session hold the gate across their native call.      *)

Ready(o) ==
  LET s == op[o].s
      i == live[s]
      admitted == /\ rec[s].here /\ trusted /\ i # NoOp
                  /\ ~(op[o].kind = "send" /\ rec[s].managed)
                  /\ op[o].kind = "respond" => run[i].view = "asking" IN
  /\ op[o].pc = "ready" /\ op[o].kind \in Calls /\ gate = NoOp
  /\ IF admitted
       THEN op' = [op EXCEPT ![o].pc = "call", ![o].on = i] /\ gate' = o
       ELSE op' = [op EXCEPT ![o] = Done] /\ UNCHANGED gate
  /\ UNCHANGED <<trusted, quiet, registry, live, start, run, shown, overlap>>

\* What a native runtime reports when it takes a prompt or an answer.
Runs(i) ==
  LET first == IF run[i].turns = 0 /\ BindsLate THEN <<"bind">> ELSE << >> IN
  [run EXCEPT ![i].status = "running", ![i].queue = @ \o first \o <<"running">>, ![i].turns = @ + 1]

\* deliver_event waits for room in the bounded queue.
Room(i, n) == Len(run[i].queue) + n <= MaxQueue

\* The native call: its answer, or an error when the process is gone.
Call(o) ==
  LET i == op[o].on IN
  /\ op[o].pc = "call"
  /\ \/ /\ run[i].proc # "running"
        /\ op' = [op EXCEPT ![o] = Done] /\ gate' = Released(o) /\ UNCHANGED run
     \/ /\ run[i].proc = "running" /\ op[o].kind = "send" /\ Room(i, 2)
        /\ run' = IF run[i].status = "idle" /\ run[i].turns < MaxTurn THEN Runs(i) ELSE run
        /\ op' = [op EXCEPT ![o] = Done] /\ gate' = Released(o)
     \/ /\ run[i].proc = "running" /\ op[o].kind \in {"snapshot", "open"}
        /\ op' = [op EXCEPT ![o].pc = "store", ![o].seen = run[i].status]
        /\ UNCHANGED <<gate, run>>
     \/ /\ run[i].proc = "running" /\ op[o].kind = "respond" /\ Room(i, 1)
        /\ run' = IF run[i].status = "asking"
                    THEN [run EXCEPT ![i].status = "running", ![i].queue = Append(@, "running")] ELSE run
        /\ op' = [op EXCEPT ![o].pc = "store"]
        /\ UNCHANGED gate
  /\ UNCHANGED <<trusted, quiet, registry, live, start, shown, overlap>>

\* snapshot stores what it read, after a registry write; respond removes the
\* approval it answered.
Store(o) ==
  LET i == op[o].on
      s == op[o].s IN
  /\ op[o].pc = "store"
  /\ run' = [run EXCEPT ![i].view =
               IF op[o].kind = "respond" THEN (IF @ = "asking" THEN "running" ELSE @)
               ELSE IF rec[s].here THEN op[o].seen ELSE @]
  /\ dirty' = IF op[o].kind # "respond" /\ rec[s].here THEN {} ELSE dirty
  /\ op' = [op EXCEPT ![o] = Done] /\ gate' = Released(o)
  /\ UNCHANGED <<trusted, quiet, rec, live, start, shown, overlap>>

---------------------------------------------------------------------------
(* Closing: by command (no gate), by deletion, by a shutdown.              *)

\* cancel_starts of one session.
Withdraws(s) == start' = [start EXCEPT ![s].cancel = @ \/ start[s] # NoStart]

Close(o, s) ==
  /\ Begins(o, "close")
  /\ Withdraws(s)
  /\ op' = [op EXCEPT ![o] = [Idle EXCEPT !.kind = "close", !.pc = "wait", !.s = s, !.on = start[s].by]]
  /\ UNCHANGED <<gate, trusted, quiet, registry, live, run, shown, overlap>>

\* delete_session_command: not a managed session, not starting, not working.
Delete(o, s) ==
  /\ Begins(o, "delete") /\ gate = NoOp
  /\ rec[s].here /\ ~rec[s].managed /\ start[s] = NoStart
  /\ live[s] # NoOp => run[live[s]].proc = "running" /\ run[live[s]].status \in {"idle", "failed"}
  /\ gate' = o
  /\ op' = [op EXCEPT ![o] = [Idle EXCEPT !.kind = "delete", !.pc = "wait", !.s = s]]
  /\ UNCHANGED <<trusted, quiet, registry, live, start, run, shown, overlap>>

\* shutdown_workspace (trust withdrawn first) and shutdown_all: cancel every
\* start, wait for each, then close session by session under the gate.
Shutdown(o, k) ==
  /\ Begins(o, k) /\ k \in {"revoke", "exit"} /\ gate = NoOp
  /\ gate' = o
  /\ trusted' = (trusted /\ k = "exit")
  /\ start' = [s \in Sess |-> [start[s] EXCEPT !.cancel = start[s] # NoStart]]
  /\ op' = [op EXCEPT ![o] = [Idle EXCEPT !.kind = k, !.pc = "drain"]]
  /\ UNCHANGED <<quiet, registry, live, run, shown, overlap>>

\* wait_for_starts: the slots that were cancelled are gone.
StartsEnded == \A s \in Sess : ~start[s].cancel

ToClose(k) == {s \in Sess : IF k = "revoke" THEN rec[s].here ELSE live[s] # NoOp}

\* close_session of the next session, or the end of the shutdown.
NextClose(o, rest) ==
  IF rest = {}
    THEN /\ op' = [op EXCEPT ![o] = Done] /\ gate' = Released(o)
         /\ quiet' = (quiet \/ ~trusted)
    ELSE \E s \in rest :
         /\ op' = [op EXCEPT ![o].pc = "wait", ![o].s = s, ![o].rest = rest \ {s}]
         /\ UNCHANGED <<gate, quiet>>

Drained(o) ==
  /\ op[o].pc = "drain" /\ StartsEnded
  /\ NextClose(o, ToClose(op[o].kind))
  /\ UNCHANGED <<trusted, registry, live, start, run, shown, overlap>>

\* What follows the close of one session.
Closed(o) ==
  CASE op[o].kind = "close" ->
         op' = [op EXCEPT ![o] = Done] /\ UNCHANGED <<gate, quiet, start>>
    [] op[o].kind = "delete" ->
         op' = [op EXCEPT ![o] = Done] /\ gate' = Released(o) /\ UNCHANGED <<quiet, start>>
    [] OTHER -> NextClose(o, op[o].rest) /\ UNCHANGED start

\* Row after a close: gone when the close belongs to a deletion.
Kept(o, row) == [row EXCEPT !.here = @ /\ op[o].kind # "delete"]

\* The slot leaves the live map, or there is nothing to stop.
TakesSlot(o) ==
  LET s == op[o].s IN
  /\ op[o].pc = "wait" /\ StartEnded(o)
  /\ IF live[s] = NoOp
       THEN /\ Closed(o)
            /\ rec' = [rec EXCEPT ![s] = Kept(o, @)]
            /\ dirty' = IF op[o].kind = "delete" THEN {} ELSE dirty
            /\ UNCHANGED live
       ELSE /\ op' = [op EXCEPT ![o].pc = "stop", ![o].on = live[s]]
            /\ live' = [live EXCEPT ![s] = NoOp]
            /\ UNCHANGED <<gate, quiet, registry, start>>
  /\ UNCHANGED <<trusted, run, shown, overlap>>

\* Retirement, the end of the forwarder, disposal of the process.  A forwarder
\* that is ending has no point at which it can be aborted.
Stops(o) ==
  LET i == op[o].on IN
  /\ op[o].pc = "stop" /\ run[i].fw \in {"on", "off"}
  /\ run' = [run EXCEPT ![i].proc = "gone", ![i].fw = "off", ![i].queue = << >>]
  /\ op' = [op EXCEPT ![o].pc = "save"]
  /\ UNCHANGED <<gate, trusted, quiet, registry, live, start, shown, overlap>>

\* The revision a closed session keeps.
SavedRevision(row, r) == Maximum(row.rev, r + 1)
\* The final row write, which also writes every cached receipt.
Saves(o) ==
  LET s == op[o].s
      i == op[o].on IN
  /\ op[o].pc = "save"
  /\ rec' = [rec EXCEPT ![s] = IF @.here THEN Kept(o, [@ EXCEPT !.rev = SavedRevision(rec[s], run[i].rev)]) ELSE @]
  /\ dirty' = IF rec[s].here THEN {} ELSE dirty
  /\ Closed(o)
  /\ run' = [run EXCEPT ![i].rev = @ + 1]
  /\ UNCHANGED <<trusted, live, shown, overlap>>

---------------------------------------------------------------------------
(* The event forwarder of a published runtime.                             *)

\* publish: the next revision of the runtime's state.
Shows(i) == shown' = [shown EXCEPT ![run[i].s] = Maximum(@, run[i].rev + 1)]

\* A status event, whatever the snapshots did meanwhile.
ForwardStatus(i, e) ==
  /\ e \in Status
  /\ run' = [run EXCEPT ![i].queue = Tail(@), ![i].rev = @ + 1, ![i].view = e]
  /\ Shows(i) /\ UNCHANGED registry

\* A usage receipt is cached at once and owed to the disk.
ForwardUsage(i, e) ==
  /\ e = "usage"
  /\ LET kept == rec[run[i].s].here IN
     /\ run' = [run EXCEPT ![i].queue = Tail(@), ![i].rev = @ + 1, ![i].owed = @ \/ kept]
     /\ dirty' = IF kept THEN dirty \cup {run[i].s} ELSE dirty
  /\ Shows(i) /\ UNCHANGED rec

\* The end of a turn: its receipts are written before the outcome is told.
ForwardDone(i, e) ==
  /\ e = "done"
  /\ run' = [run EXCEPT ![i].queue = Tail(@), ![i].owed = FALSE]
  /\ dirty' = IF run[i].owed THEN {} ELSE dirty
  /\ UNCHANGED <<shown, rec>>

\* A late binding is written at once; when its row is gone the runtime is
\* retired and the stream ends.
ForwardBind(i, e) ==
  LET s == run[i].s IN
  /\ e = "bind"
  /\ IF rec[s].here
       THEN /\ rec' = [rec EXCEPT ![s].bound = TRUE]
            /\ dirty' = IF rec[s].bound THEN dirty ELSE {}
            /\ run' = [run EXCEPT ![i].queue = Tail(@)]
            /\ UNCHANGED shown
       ELSE /\ run' = [run EXCEPT ![i].proc = "gone", ![i].queue = << >>, ![i].rev = @ + 1,
                                  ![i].view = "failed", ![i].fw = "closing"]
            /\ Shows(i) /\ UNCHANGED registry

Forward(i) ==
  /\ run[i].fw = "on" /\ run[i].queue # << >>
  /\ LET e == Head(run[i].queue) IN
     ForwardStatus(i, e) \/ ForwardUsage(i, e) \/ ForwardDone(i, e) \/ ForwardBind(i, e)
  /\ UNCHANGED <<op, gate, trusted, quiet, live, start, overlap>>

\* USAGE_PERSIST_DELAY has passed.
Flush(i) ==
  /\ run[i].fw = "on" /\ run[i].owed
  /\ dirty' = {}
  /\ run' = [run EXCEPT ![i].owed = FALSE]
  /\ UNCHANGED <<op, gate, trusted, quiet, rec, live, start, shown, overlap>>

\* The stream ended: the row takes the revision ...
StreamEnds(i) ==
  LET s == run[i].s IN
  /\ run[i].fw = "closing" \/ (run[i].fw = "on" /\ run[i].queue = << >> /\ run[i].proc = "gone")
  /\ rec' = IF rec[s].here THEN [rec EXCEPT ![s].rev = run[i].rev] ELSE rec
  /\ dirty' = {}
  /\ run' = [run EXCEPT ![i].fw = "ending"]
  /\ UNCHANGED <<op, gate, trusted, quiet, live, start, shown, overlap>>

\* ... and the slot goes, if it is still this runtime's.
LeavesLive(i) ==
  LET s == run[i].s IN
  /\ run[i].fw = "ending"
  /\ live' = [live EXCEPT ![s] = IF @ = i THEN NoOp ELSE @]
  /\ run' = [run EXCEPT ![i].fw = "off"]
  /\ UNCHANGED <<op, gate, trusted, quiet, registry, start, shown, overlap>>

---------------------------------------------------------------------------
(* The native runtime and the workspace folder, as this code meets them.   *)

\* A queued message starts a turn without the operation gate (see Composer).
QueuedTurn(i) ==
  /\ run[i].proc = "running" /\ run[i].fw = "on" /\ run[i].status = "idle"
  /\ run[i].turns < MaxTurn /\ Room(i, 2)
  /\ run' = Runs(i)
  /\ UNCHANGED <<op, gate, trusted, quiet, registry, live, start, shown, overlap>>
Asks(i) ==
  /\ run[i].proc = "running" /\ run[i].status = "running" /\ run[i].turns = 1 /\ Room(i, 1)
  /\ run' = [run EXCEPT ![i].status = "asking", ![i].queue = Append(@, "asking")]
  /\ UNCHANGED <<op, gate, trusted, quiet, registry, live, start, shown, overlap>>
TurnEnds(i) ==
  /\ run[i].proc = "running" /\ run[i].status = "running" /\ Room(i, 3)
  /\ run' = [run EXCEPT ![i].status = "idle", ![i].queue = @ \o <<"usage", "done", "idle">>]
  /\ UNCHANGED <<op, gate, trusted, quiet, registry, live, start, shown, overlap>>
Dies(i) ==
  /\ run[i].proc = "running"
  /\ run' = [run EXCEPT ![i].proc = "gone"]
  /\ UNCHANGED <<op, gate, trusted, quiet, registry, live, start, shown, overlap>>

\* The folder is replaced: the next verification fails.  Trust comes back
\* under the gate.
LosesFolder ==
  /\ trusted
  /\ trusted' = FALSE
  /\ UNCHANGED <<op, gate, quiet, registry, live, start, run, shown, overlap>>
Grant ==
  /\ ~trusted /\ gate = NoOp /\ quiet
  /\ trusted' = TRUE /\ quiet' = FALSE
  /\ UNCHANGED <<op, gate, registry, live, start, run, shown, overlap>>

Ends == (\A o \in Op : op[o].pc = "done") /\ UNCHANGED vars

Step(o) ==
  Awaits(o) \/ Opens(o) \/ Spawn(o) \/ First(o) \/ Publish(o) \/ Abandon(o) \/ Ready(o) \/ Call(o)
  \/ Store(o) \/ Drained(o) \/ TakesSlot(o) \/ Stops(o) \/ Saves(o)
Forwarder(i) == Forward(i) \/ Flush(i) \/ StreamEnds(i) \/ LeavesLive(i)
Native(i) == QueuedTurn(i) \/ Asks(i) \/ TurnEnds(i) \/ Dies(i)
Arrives(o) ==
  \/ \E s \in Sess, k \in {"create", "launch"} : Launch(o, s, k)
  \/ \E s \in Sess, k \in Calls : Command(o, s, k)
  \/ \E s \in Sess : Open(o, s) \/ Close(o, s) \/ Delete(o, s)
  \/ \E k \in {"revoke", "exit"} : Shutdown(o, k)

Next ==
  \/ \E o \in Op : Step(o) \/ Forwarder(o) \/ Native(o) \/ Arrives(o)
  \/ LosesFolder \/ Grant \/ Ends

Spec == Init /\ [][Next]_vars

---------------------------------------------------------------------------
(* Properties.                                                             *)

Starting(o) == op[o].pc \in {"spawn", "first", "publish", "abandon"}

\* At any time a session has at most one start under way, the one its slot
\* names (reserve_start, StartReservation::drop), and its row is recorded.
OneStart ==
  \A o \in Op : Starting(o) => start[op[o].s].by = o /\ rec[op[o].s].here

\* A native process that runs is owned: published, being started, or in the
\* hands of a close that will dispose it.
NoOrphan ==
  \A i \in Op : run[i].proc = "running" =>
     \/ live[run[i].s] = i \/ Starting(i)
     \/ \E c \in Op : op[c].pc = "stop" /\ op[c].on = i

\* Once a withdrawal of trust has ended, no session of the workspace is live
\* or starting until trust comes back; what still runs is being closed by a
\* command that was there first.
WithdrawnIsQuiet ==
  quiet => \A s \in Sess : live[s] = NoOp /\ start[s] = NoStart

\* A published runtime continues the revisions of its session, so an event is
\* never taken for one the view has seen, unless a start overlapped a close.
RevisionsContinue ==
  \A s \in Sess : live[s] # NoOp /\ s \notin overlap => run[live[s]].rev >= shown[s]

\* A cached receipt always has a write to come: a deadline, the end of the
\* stream, or the last write of a close.
ReceiptsAreOwed ==
  \A s \in dirty : rec[s].here =>
     \/ \E i \in Op : run[i].s = s /\ ((run[i].fw = "on" /\ run[i].owed) \/ run[i].fw = "closing")
     \/ \E c \in Op : op[c].pc \in {"stop", "save"} /\ op[c].s = s

\* A chat's runtime is published only while the workspace is trusted, however
\* long its start took; a managed start relies on the gate its run holds.
PublishedInTrust ==
  [][\A s \in Sess : live'[s] \notin {live[s], NoOp} => trusted \/ rec[s].managed]_vars

=============================================================================
