---------------------------- MODULE ScriptRunner ----------------------------
(***************************************************************************)
(* Running a script on the host: script_runner.rs with the containment of  *)
(* its process tree (a Windows job or a Unix process group), for steps of  *)
(* a run and for tests started in the editor (orchestration_script_test).  *)
(* The tree, the person, trust changes, the polls and shutdown interleave  *)
(* with the steps of the host.                                             *)
(***************************************************************************)
EXTENDS Naturals, FiniteSets

CONSTANTS
  Test,        \* test commands
  Step,        \* executions of script steps
  Key,         \* test ids
  None,
  MaxTests,    \* MAX_CONCURRENT_SCRIPT_TESTS
  MaxFault,    \* failed system calls
  MaxWorld     \* trust changes

VARIABLES
  windows,     \* the platform
  key,         \* the id each test was given
  ex,          \* each execution: where it is, its answer, whether it is cancelled, whether its
               \* output was cut and whether deleting its folder failed
  proc,        \* its processes: root, descendants in and outside the containment
  job,         \* state of its containment
  dirs,        \* private folders on disk
  active,      \* the registered test of each id
  host,        \* the project is trusted; the host is not shutting down
  faults, world

vars == <<windows, key, ex, proc, job, dirs, active, host, faults, world>>

Exec == Test \cup Step
Fault == faults < MaxFault /\ faults' = faults + 1
NoFault == UNCHANGED faults
Allowed == host.trust /\ host.up
At(e, pc) == ex[e].pc = pc
Goes(e, pc) == [ex EXCEPT ![e].pc = pc]
Ends(e, pc, answer) == [ex EXCEPT ![e].pc = pc, ![e].answer = answer]
Registered == {k \in Key : active[k] # None}

----------------------------------------------------------------------------
(* Admission.                                                              *)

\* register: the id is not in use and there is room.
Free(k) == active[k] = None /\ Cardinality(Registered) < MaxTests

\* run_script_test, under the gate trust changes take; launch_script for a step.
Admit(e) ==
  /\ At(e, "idle")
  /\ IF Allowed /\ (e \in Test => Free(key[e]))
     THEN /\ ex' = Goes(e, "admitted")
          /\ active' = IF e \in Test THEN [active EXCEPT ![key[e]] = e] ELSE active
     ELSE ex' = Ends(e, "done", "refused") /\ UNCHANGED active
  /\ UNCHANGED <<windows, key, proc, job, dirs, host, faults, world>>

\* Drop of the registration.
Unregistered(e) == IF e \in Test THEN [active EXCEPT ![key[e]] = None] ELSE active

\* resolve_interpreter finds nothing.
NoInterpreter(e) ==
  /\ At(e, "admitted") /\ Fault
  /\ ex' = Ends(e, "done", "unavailable") /\ active' = Unregistered(e)
  /\ UNCHANGED <<windows, key, proc, job, dirs, host, world>>

----------------------------------------------------------------------------
(* One script.                                                             *)

\* prepare_work_dir; a failure may leave the folder.
Prepare(e) ==
  /\ At(e, "admitted")
  /\ \/ ex' = Goes(e, "prepared") /\ dirs' = dirs \cup {e} /\ NoFault
     \/ Fault /\ ex' = Ends(e, "clean", "not started") /\ dirs' \in {dirs, dirs \cup {e}}
  /\ UNCHANGED <<windows, key, proc, job, active, host, world>>

\* spawn_contained: the process starts suspended on Windows, and as the leader of a
\* group of its own on Unix.
Spawn(e) ==
  /\ At(e, "prepared")
  /\ \/ /\ NoFault
        /\ IF windows
           THEN /\ ex' = Goes(e, "suspended") /\ proc' = [proc EXCEPT ![e].root = "suspended"]
                /\ job' = [job EXCEPT ![e] = "prepared"]
           ELSE /\ ex' = Goes(e, "running") /\ proc' = [proc EXCEPT ![e].root = "running", ![e].ran = TRUE]
                /\ job' = [job EXCEPT ![e] = "running"]
     \/ Fault /\ ex' = Ends(e, "clean", "not started") /\ UNCHANGED <<proc, job>>
  /\ UNCHANGED <<windows, key, dirs, active, host, world>>

Killed(e) == [proc EXCEPT ![e].root = "dead", ![e].kid = FALSE]
RootKilled(e) == [proc EXCEPT ![e].root = "dead"]

\* The process runs: its outcome is unknown.
NoGroup == "unobserved"

\* The id of a Unix process cannot be read any more.
Untracked(e) ==
  /\ ~windows /\ At(e, "running") /\ job[e] = "running" /\ proc[e].root = "running" /\ Fault
  /\ ex' = Ends(e, "clean", NoGroup) /\ proc' = RootKilled(e) /\ job' = [job EXCEPT ![e] = "none"]
  /\ UNCHANGED <<windows, key, dirs, active, host, world>>

\* assign_before_resume.
Assign(e) ==
  /\ At(e, "suspended") /\ job[e] = "prepared"
  /\ \/ job' = [job EXCEPT ![e] = "assigned"] /\ NoFault /\ UNCHANGED <<ex, proc>>
     \/ /\ Fault /\ job' = [job EXCEPT ![e] = "closed"]
        /\ ex' = Ends(e, "clean", "not started") /\ proc' = RootKilled(e)
  /\ UNCHANGED <<windows, key, dirs, active, host, world>>

\* resume_assigned.
Resume(e) ==
  /\ At(e, "suspended") /\ job[e] = "assigned"
  /\ \/ /\ NoFault /\ job' = [job EXCEPT ![e] = "running"] /\ ex' = Goes(e, "running")
        /\ proc' = [proc EXCEPT ![e].root = "running", ![e].ran = TRUE]
     \/ /\ Fault /\ job' = [job EXCEPT ![e] = "closed"]
        /\ ex' = Ends(e, "clean", "not started") /\ proc' = Killed(e)
  /\ UNCHANGED <<windows, key, dirs, active, host, world>>

\* The script starts a process, which may leave a Unix group, or ends.
Tree(e) ==
  /\ \/ proc[e].root = "running" /\ ~proc[e].kid /\ proc' = [proc EXCEPT ![e].kid = TRUE]
     \/ proc[e].kid /\ ~windows /\ ~proc[e].away /\ proc' = [proc EXCEPT ![e].kid = FALSE, ![e].away = TRUE]
     \/ proc[e].root = "running" /\ proc' = RootKilled(e)
     \/ proc[e].kid /\ proc' = [proc EXCEPT ![e].kid = FALSE]
     \/ proc[e].away /\ proc' = [proc EXCEPT ![e].away = FALSE]
  /\ UNCHANGED <<windows, key, ex, job, dirs, active, host, faults, world>>

\* Mutant: a script that ended by itself is not terminated.
TerminatedUnlessExited(e, how) == IF how = "exited" THEN proc ELSE Killed(e)

\* terminate: every process of the containment, however the script ended.
Terminated(e, how) == Killed(e)

\* cancellation: only a value that was sent, at whatever time.
CancelSeen(e) == ex[e].cancel

\* run_prepared: the first of exit, timeout and cancellation ends the whole tree; when
\* that fails the outcome is unknown.
Select(e, how) ==
  /\ At(e, "running") /\ job[e] = "running"
  /\ how = "exited" => proc[e].root = "dead"
  /\ how = "cancelled" => CancelSeen(e)
  /\ \/ NoFault /\ proc' = Terminated(e, how) /\ ex' = Ends(e, "drain", how)
     \/ /\ Fault /\ proc' = IF how = "exited" THEN proc ELSE RootKilled(e)
        /\ ex' = Ends(e, "drain", "unobserved")
  /\ job' = [job EXCEPT ![e] = "closed"]
  /\ UNCHANGED <<windows, key, dirs, active, host, world>>

Held(e) == proc[e].away \/ proc[e].kid

\* The readers reach the end of the pipes, or are stopped after PIPE_DRAIN_TIMEOUT
\* because a process still holds them.
Drain(e) ==
  /\ At(e, "drain")
  /\ ex' = [ex EXCEPT ![e].pc = "clean", ![e].cut = Held(e)]
  /\ UNCHANGED <<windows, key, proc, job, dirs, active, host, faults, world>>

Removed(e) == dirs \ {e}

\* remove_work_dir, up to twenty times, and the answer.
Clean(e) ==
  /\ At(e, "clean")
  /\ active' = Unregistered(e)
  /\ \/ dirs' = Removed(e) /\ NoFault /\ ex' = Goes(e, "done")
     \/ Fault /\ UNCHANGED dirs /\ ex' = [ex EXCEPT ![e].pc = "done", ![e].left = TRUE]
  /\ UNCHANGED <<windows, key, proc, job, host, world>>

----------------------------------------------------------------------------
(* Cancellation.                                                           *)

\* cancel by test id, or stop_script for a step.
Cancel(e) ==
  /\ IF e \in Test THEN \E k \in Key : active[k] = e ELSE ex[e].pc \notin {"idle", "done"}
  /\ ex' = [ex EXCEPT ![e].cancel = TRUE]
  /\ UNCHANGED <<windows, key, proc, job, dirs, active, host, faults, world>>

\* authorize fails.
Refused == ~Allowed

\* The poll of a running test or step.
Poll(e) ==
  /\ ex[e].pc \notin {"idle", "done"} /\ Refused /\ ~ex[e].cancel
  /\ ex' = [ex EXCEPT ![e].cancel = TRUE]
  /\ UNCHANGED <<windows, key, proc, job, dirs, active, host, faults, world>>

TrustChanges ==
  /\ world < MaxWorld /\ world' = world + 1
  /\ host' = [host EXCEPT !.trust = ~@]
  /\ UNCHANGED <<windows, key, ex, proc, job, dirs, active, faults>>

\* begin_shutdown cancels every script of a run at once.
Shutdown ==
  /\ host.up /\ host' = [host EXCEPT !.up = FALSE]
  /\ ex' = [e \in Exec |-> [ex[e] EXCEPT !.cancel = @ \/ (e \in Step /\ ex[e].pc \notin {"idle", "done"})]]
  /\ UNCHANGED <<windows, key, proc, job, dirs, active, faults, world>>

Init ==
  /\ windows \in BOOLEAN /\ key \in [Test -> Key]
  /\ ex = [e \in Exec |-> [pc |-> "idle", answer |-> "none", cancel |-> FALSE, cut |-> FALSE, left |-> FALSE]]
  /\ proc = [e \in Exec |-> [root |-> "none", kid |-> FALSE, away |-> FALSE, ran |-> FALSE]]
  /\ job = [e \in Exec |-> "none"] /\ dirs = {} /\ active = [k \in Key |-> None]
  /\ host = [trust |-> TRUE, up |-> TRUE] /\ faults = 0 /\ world = 0

HostStep(e) ==
  \/ Prepare(e) \/ Spawn(e) \/ Assign(e) \/ Resume(e) \/ Select(e, "exited") \/ Select(e, "cancelled")
  \/ Drain(e) \/ Clean(e)

Next ==
  \/ \E e \in Exec :
       \/ Admit(e) \/ NoInterpreter(e) \/ Untracked(e) \/ Tree(e) \/ Cancel(e) \/ Poll(e)
       \/ HostStep(e) \/ Select(e, "timed out")
  \/ TrustChanges \/ Shutdown

Spec == Init /\ [][Next]_vars

----------------------------------------------------------------------------
\* A process runs only inside its containment, and the folders belong to executions.
TypeOK ==
  /\ dirs \subseteq Exec
  /\ \A e \in Exec :
       /\ proc[e].root = "running" => job[e] \in {"running", "closed"}
       /\ ex[e].answer = "cancelled" => ex[e].cancel

\* Once a script is answered, with anything but an unknown outcome, no process of its
\* tree runs any more, a descendant of a script that ended by itself included.
TreeEnds ==
  \A e \in Exec : (ex[e].pc = "done" /\ ex[e].answer # "unobserved") => proc[e].root \notin {"suspended", "running"} /\ ~proc[e].kid

\* A script reported as not started ran no code, so that the step can be started again.
NotStartedRanNothing ==
  \A e \in Exec : ex[e].answer \in {"refused", "unavailable", "not started"} => ~proc[e].ran

\* An output is taken as complete only when nothing can write to it any more.
CompleteIsClosed ==
  \A e \in Exec : (ex[e].pc = "done" /\ ex[e].answer = "exited" /\ ~ex[e].cut) => ~proc[e].kid /\ ~proc[e].away

\* The registry names exactly the tests that run, one for each id and never more than
\* the limit, so that a cancellation reaches the test it names.
RegistryExact ==
  /\ Cardinality(Registered) <= MaxTests
  /\ \A e \in Test : ex[e].pc \notin {"idle", "done"} <=> active[key[e]] = e

\* A finished execution leaves no folder behind, unless deleting it failed.
FoldersGo == \A e \in dirs : ex[e].pc \in {"prepared", "suspended", "running", "drain", "clean"} \/ ex[e].left

\* A script's answer is about a process tree that is over, and what was not started
\* did nothing; its output and its folder are settled with it.
ScriptsEnd ==
  /\ TypeOK
  /\ TreeEnds
  /\ NotStartedRanNothing
  /\ CompleteIsClosed
  /\ FoldersGo

=============================================================================
