------------------------------- MODULE RunHost -------------------------------
(***************************************************************************)
(* The desktop host around the coordinator (orchestration_scheduler.rs,    *)
(* orchestration_plugin_steps.rs, orchestration_subpipeline_steps.rs,      *)
(* subpipelines.rs and the commands of orchestration_api.rs): one run of   *)
(* one pipeline in a host process that may end at any time.                *)
(*                                                                         *)
(* The journal is the state of Coordinator; a host action that writes it   *)
(* conjoins the coordinator's action.  The rest is volatile: scheduling    *)
(* passes (serialised by the run's gate), launches (each a section of the  *)
(* operation gate with awaits inside), native turns and their watchers,    *)
(* and one cancellation.  An execution is <<s, n>>, launch n of step s.    *)
(* Native work is external; it is modelled by what the host observes.      *)
(***************************************************************************)
EXTENDS Coordinator

CONSTANTS
  Script,     \* steps the host executes itself: scripts and plugin nodes
  MaxCancel   \* bound on the cancellations a person requests

ASSUME HostType == Script \subseteq Step \ Pipeline /\ MaxCancel \in Nat

Exec == Step \X Launch
Native(s) == s \notin Script /\ s \notin Pipeline

\* started: spawned without its prompt; live: prompted and not ended.
Turn == {"none", "started", "live", "succeeded", "failed", "interrupted", "lost", "closed"}
Ended == {"succeeded", "failed", "interrupted", "lost"}
Watch == {"none", "waiting", "succeeded", "failed", "lost"}
Idle == <<0, 0, "none">>
Doing == {"pass", "spawn", "pass lost", "spawn lost"}
Phase == {"none", "begun", "planned", "marking", "committed"}
Proof == {"interrupted", "ended", "none"}

VARIABLES
  up,         \* admits_work: no shutdown has begun
  trust,      \* the project: "trusted", "revoked", "regained" after a revocation
  gate,       \* holder of the run's gate: "free", "pass" or "cancel"
  op,         \* launch inside the operation gate: <<s, n, phase>>, or Idle
  launching,  \* <<s, n, why>>: leases whose launch, or whose loss, is still to handle
  wakes,      \* schedule_run calls that have not taken the gate yet
  turn,       \* native turn, script process or child run of each execution
  watch,      \* watcher of each execution, with the outcome it has read
  active,     \* executions in the active maps
  flagged,    \* executions whose cancelling flag or cancel channel is set
  phase,      \* of the cancellation; the run is cancelling unless "none"
  scope,      \* the cancelled step, or 0 for the whole run
  plan,       \* executions the cancellation has to stop
  proof,      \* <<execution, evidence>> gathered so far
  cancels     \* bound: cancellations so far

work == <<gate, op, launching, wakes>>
turns == <<turn, watch, active>>
cancellation == <<flagged, phase, scope, plan, proof, cancels>>
hvars == <<vars, up, trust, work, turns, cancellation>>

HostTypeOK ==
  /\ up \in BOOLEAN /\ trust \in {"trusted", "revoked", "regained"}
  /\ gate \in {"free", "pass", "cancel"}
  /\ op \in {Idle} \cup (Step \X Launch \X {"commit", "prompt"})
  /\ launching \subseteq Step \X Launch \X Doing
  /\ wakes \in Nat
  /\ turn \in [Exec -> Turn] /\ watch \in [Exec -> Watch]
  /\ active \subseteq Exec /\ flagged \subseteq Exec
  /\ phase \in Phase /\ scope \in Step \cup {0}
  /\ plan \subseteq Exec /\ proof \subseteq Exec \X Proof
  /\ cancels \in 0..MaxCancel

Live == trust # "revoked"             \* authorize_live_workspace succeeds
Cancelling == phase # "none"          \* is_run_cancelling
OpFree == op = Idle /\ ~advancing     \* the operation gate can be taken
Disturb == disturbed < MaxDisturb /\ disturbed' = disturbed + 1
Calm == UNCHANGED disturbed
Journal == <<status, paused, st, lease, exec, data, attempts, issued, advancing, pending, rounds>>

Holds(e) == st[e[1]] = "Ready" /\ lease[e[1]] = e[2]          \* the task still has this lease
Runs(e) == st[e[1]] = "Running" /\ exec[e[1]] = e[2]          \* ... or runs this execution

-----------------------------------------------------------------------------
(***************************************************************************)
(* Scheduling passes: schedule_run.                                        *)
(***************************************************************************)

\* A call that meets a cancellation, or a shutdown, returns an error.
PassRefused ==
  /\ wakes > 0
  /\ Cancelling \/ ~up
  /\ wakes' = wakes - 1
  /\ UNCHANGED <<Journal, up, trust, gate, op, launching, turns, cancellation>> /\ Calm

PassBegins ==
  /\ wakes > 0 /\ gate = "free" /\ ~Cancelling /\ up
  /\ gate' = "pass" /\ wakes' = wakes - 1
  /\ UNCHANGED <<Journal, up, trust, op, launching, turns, cancellation>> /\ Calm

Passing == {l \in launching : l[3] \in {"pass", "pass lost"}}

\* advance_automatic_steps, at the start of every turn of the loop.
PassAdvances ==
  /\ gate = "pass" /\ Passing = {} /\ op = Idle /\ ~Cancelling /\ Live
  /\ Automatic
  /\ UNCHANGED <<up, trust, work, turns, cancellation>> /\ Calm

\* The lexically first ready step is leased; its launch is a later section.
PassLeases(s) ==
  /\ gate = "pass" /\ Passing = {} /\ op = Idle /\ ~Cancelling /\ Live
  /\ LeaseNext(s)
  /\ launching' = launching \cup {<<s, lease'[s], "pass">>}
  /\ UNCHANGED <<up, trust, gate, op, wakes, turns, cancellation>> /\ Calm

\* Missing interpreter, plugin or profile policy: the step fails, the pass ends.
PassRejects(s) ==
  /\ gate = "pass" /\ Passing = {} /\ op = Idle /\ ~Cancelling /\ Live
  /\ RejectReadyTask(s)
  /\ gate' = "free"
  /\ UNCHANGED <<up, trust, op, launching, wakes, turns, cancellation>> /\ Disturb

PassEnds ==
  /\ gate = "pass" /\ Passing = {} /\ op = Idle
  /\ \/ Cancelling \/ ~Live
     \/ ~advancing /\ RoutersReady = {} /\ ReadyTasks = {}
  /\ gate' = "free"
  /\ UNCHANGED <<Journal, up, trust, op, launching, wakes, turns, cancellation>> /\ Calm

-----------------------------------------------------------------------------
(***************************************************************************)
(* Launches: launch_lease, launch_script, launch_plugin_step and           *)
(* launch_pipeline_step.                                                   *)
(***************************************************************************)
\* An error of the launch ends the pass that asked for it.
Left(l) ==
  /\ launching' = launching \ {l}
  /\ gate' = IF l[3] = "pass" THEN "free" ELSE gate

\* The launch failed at or after the native boundary: it is recorded as
\* uncertain in a section of its own, before the pass ends.
LeftUncertain(l) ==
  /\ launching' = (launching \ {l}) \cup {<<l[1], l[2], IF l[3] = "pass" THEN "pass lost" ELSE "spawn lost">>}
  /\ UNCHANGED gate

\* The launch passes its checks under the operation gate.
LaunchAdmitted(l) ==
  /\ OpFree /\ l \in launching /\ l[3] \in {"pass", "spawn"} /\ Native(l[1])
  /\ up /\ Live /\ ~Cancelling

\* The native session starts, without a prompt.
NativeStarts(l) ==
  /\ LaunchAdmitted(l)
  /\ turn' = [turn EXCEPT ![<<l[1], l[2]>>] = "started"]
  /\ op' = <<l[1], l[2], "commit">>
  /\ UNCHANGED <<Journal, up, trust, gate, launching, wakes, watch, active, cancellation>> /\ Calm

\* A refused login is certain: a scheduled step fails, a spawned one is released.
NativeRefused(l) ==
  /\ LaunchAdmitted(l) /\ Holds(l)
  /\ Left(l)
  /\ IF l[3] = "pass" THEN RejectLeased(l[1]) ELSE ReleaseLease(l[1])
  /\ UNCHANGED <<up, trust, op, wakes, turns, cancellation>> /\ Disturb

\* The session may or may not exist.
NativeFails(l) ==
  /\ LaunchAdmitted(l)
  /\ LeftUncertain(l)
  /\ UNCHANGED <<Journal, up, trust, op, wakes, turns, cancellation>> /\ Disturb


\* Shutdown, lost trust or a cancellation stops the launch.  A native lease is
\* released for a cancellation only; the lease of a host-executed step always.
LaunchStops(l) ==
  /\ OpFree /\ l \in launching /\ l[3] \in {"pass", "spawn"}
  /\ ~up \/ ~Live \/ Cancelling
  /\ Left(l)
  /\ IF Holds(l) /\ (~Native(l[1]) \/ (up /\ Live))
     THEN ReleaseLease(l[1])
     ELSE UNCHANGED Journal
  /\ UNCHANGED <<up, trust, op, wakes, turns, cancellation>> /\ Calm

LaunchOf(s, n) == CHOOSE l \in launching : l[1] = s /\ l[2] = n

CanCommit(s, n) == Holds(<<s, n>>) /\ status = "Running"

\* commit_launch_lease and insert_active.
LaunchCommits(s, n) ==
  /\ op = <<s, n, "commit">>
  /\ CanCommit(s, n)
  /\ DispatchLeased(s)
  /\ op' = <<s, n, "prompt">>
  /\ active' = active \cup {<<s, n>>}
  /\ UNCHANGED <<up, trust, gate, launching, wakes, turn, watch, cancellation>> /\ Calm

\* The task no longer has the lease: the native session is closed unused.
LaunchConflicts(s, n) ==
  /\ op = <<s, n, "commit">>
  /\ ~CanCommit(s, n)
  /\ op' = Idle
  /\ turn' = [turn EXCEPT ![<<s, n>>] = "closed"]
  /\ LeftUncertain(LaunchOf(s, n))
  /\ UNCHANGED <<Journal, up, trust, wakes, watch, active, cancellation>> /\ Calm

PromptSent(s, n) ==
  /\ op = <<s, n, "prompt">>
  /\ op' = Idle
  /\ turn' = [turn EXCEPT ![<<s, n>>] = "live"]
  /\ watch' = [watch EXCEPT ![<<s, n>>] = "waiting"]
  /\ launching' = {l \in launching : l[1] # s \/ l[2] # n}
  /\ UNCHANGED <<Journal, up, trust, gate, wakes, active, cancellation>> /\ Calm

PromptFails(s, n) ==
  /\ op = <<s, n, "prompt">>
  /\ op' = Idle
  /\ active' = active \ {<<s, n>>}
  /\ LeftUncertain(LaunchOf(s, n))
  /\ UNCHANGED <<Journal, up, trust, wakes, turn, watch, cancellation>> /\ Disturb

\* mark_lease_uncertain, mark_execution_uncertain.
LossRecorded(l) ==
  /\ OpFree /\ l \in launching /\ l[3] \in {"pass lost", "spawn lost"}
  /\ launching' = launching \ {l}
  /\ gate' = IF l[3] = "pass lost" THEN "free" ELSE gate
  /\ IF Live /\ (Holds(l) \/ Runs(l)) THEN MarkTaskUncertain(l[1]) ELSE UNCHANGED Journal
  /\ UNCHANGED <<up, trust, op, wakes, turns, cancellation>> /\ Calm

\* commit_script_lease.
ScriptCommitted(l) == CanCommit(l[1], l[2]) /\ DispatchLeased(l[1])

\* start_pipeline_child: one transaction creates the child and dispatches its step.
ChildCreated(l) ==
  /\ CanCommit(l[1], l[2]) /\ DispatchLeased(l[1])
  /\ turn' = [turn EXCEPT ![<<l[1], l[2]>>] = "live"]

\* A script or plugin node is committed as running just before it starts.
ScriptStarts(l) ==
  /\ OpFree /\ l \in launching /\ l[1] \in Script
  /\ up /\ Live /\ ~Cancelling
  /\ ScriptCommitted(l)
  /\ launching' = launching \ {l}
  /\ turn' = [turn EXCEPT ![<<l[1], l[2]>>] = "live"]
  /\ watch' = [watch EXCEPT ![<<l[1], l[2]>>] = "waiting"]
  /\ active' = active \cup {<<l[1], l[2]>>}
  /\ UNCHANGED <<up, trust, gate, op, wakes, cancellation>> /\ Calm

\* A child run is scheduled like any other; nothing waits for it here.
ChildStarts(l) ==
  /\ OpFree /\ l \in launching /\ l[1] \in Pipeline
  /\ up /\ Live /\ ~Cancelling
  /\ ChildCreated(l)
  /\ launching' = launching \ {l}
  /\ UNCHANGED <<up, trust, gate, op, wakes, watch, active, cancellation>> /\ Calm

\* An input that cannot be read, or a child that may not start, fails the step.
HostStepRejected(l) ==
  /\ OpFree /\ l \in launching /\ ~Native(l[1])
  /\ up /\ Live /\ ~Cancelling /\ Holds(l)
  /\ RejectLeased(l[1])
  /\ Left(l)
  /\ UNCHANGED <<up, trust, op, wakes, turns, cancellation>> /\ Disturb

\* The commit conflicts with a change of the run: the lease is released if it is there.
HostStepConflicts(l) ==
  /\ OpFree /\ l \in launching /\ ~Native(l[1])
  /\ up /\ Live /\ ~Cancelling /\ ~CanCommit(l[1], l[2])
  /\ Left(l)
  /\ IF Holds(l) THEN ReleaseLease(l[1]) ELSE UNCHANGED Journal
  /\ UNCHANGED <<up, trust, op, wakes, turns, cancellation>> /\ Calm

\* handle_agent_request for Spawn and SpawnAgent, from the running agent of step a.
SpawnLeased(a, s) == LeaseControlledSpawn(a, s) \/ AddSpawnedAgent(a, s)

\* handle_coordinator_request: a running agent spawns a role.  The lease is
\* taken in one section; its launch does not wait for the run's gate.
AgentSpawns(s) ==
  /\ OpFree /\ up /\ Live /\ ~Cancelling
  /\ \E a \in Step : /\ <<a, exec[a]>> \in active /\ turn[<<a, exec[a]>>] = "live"
                     /\ SpawnLeased(a, s)
  /\ launching' = launching \cup {<<s, lease'[s], "spawn">>}
  /\ UNCHANGED <<up, trust, gate, op, wakes, turns, cancellation>> /\ Calm

-----------------------------------------------------------------------------
(***************************************************************************)
(* Native turns, scripts and child runs end by themselves.  A script is    *)
(* stopped only by its cancel channel (a cancellation, a shutdown or lost  *)
(* trust); whoever sits at the native session may interrupt it.            *)
(***************************************************************************)
TurnEnds(e, outcome) ==
  /\ turn[e] = "live"
  /\ e[1] \in Script /\ outcome = "interrupted" => e \in flagged \/ ~Live \/ ~up
  /\ e[1] \in Pipeline => outcome # "lost"
  /\ turn' = [turn EXCEPT ![e] = outcome]
  /\ UNCHANGED <<Journal, up, trust, work, watch, active, cancellation>> /\ Calm

\* What a watcher makes of an outcome: a missing artifact makes a success a
\* failure, a missing result or an unobserved process an unknown outcome.
Reads(e, seen) ==
  /\ turn[e] # "succeeded" => seen = IF turn[e] = "lost" THEN "lost" ELSE "failed"
  /\ watch' = [watch EXCEPT ![e] = seen]
  /\ UNCHANGED active

\* watch_execution: an interruption of a flagged execution belongs to the
\* cancelling path.
WatcherReads(e) ==
  /\ watch[e] = "waiting" /\ turn[e] \in Ended /\ Native(e[1])
  /\ IF turn[e] = "interrupted" /\ e \in flagged
     THEN watch' = [watch EXCEPT ![e] = "none"] /\ UNCHANGED active
     ELSE \E seen \in {"succeeded", "failed", "lost"} : Reads(e, seen)
  /\ UNCHANGED <<Journal, up, trust, work, turn, cancellation>> /\ Calm

\* watch_script, watch_plugin_step: so does every stopped script.
ScriptWatcherReads(e) ==
  /\ watch[e] = "waiting" /\ turn[e] \in Ended /\ e[1] \in Script
  /\ IF turn[e] = "interrupted"
     THEN watch' = [watch EXCEPT ![e] = "none"] /\ active' = active \ {e}
     ELSE \E seen \in {"succeeded", "failed", "lost"} : Reads(e, seen)
  /\ UNCHANGED <<Journal, up, trust, work, turn, cancellation>> /\ Calm

\* record_terminal_event and record_script_outcome accept the execution only
\* while its task runs it; a recorded outcome asks for another pass.
WatcherRecords(e) ==
  /\ OpFree /\ watch[e] \in {"succeeded", "failed"}
  /\ watch' = [watch EXCEPT ![e] = "none"]
  /\ active' = IF Native(e[1]) /\ (~Live \/ exec[e[1]] # e[2]) THEN active ELSE active \ {e}
  /\ IF ~Live \/ ~Runs(e) THEN UNCHANGED <<Journal, wakes>>
     ELSE /\ \/ CompleteFailed(e[1])
             \/ watch[e] = "succeeded" /\ \E d \in Result[e[1]] : CompleteAccepted(e[1], d)
          /\ wakes' = wakes + 1
  /\ UNCHANGED <<up, trust, gate, op, launching, turn, cancellation>> /\ Calm

\* mark_execution_uncertain, mark_script_uncertain.
WatcherGivesUp(e) ==
  /\ OpFree /\ watch[e] = "lost"
  /\ watch' = [watch EXCEPT ![e] = "none"]
  /\ active' = active \ {e}
  /\ IF Live /\ Runs(e) THEN MarkTaskUncertain(e[1]) ELSE UNCHANGED Journal
  /\ UNCHANGED <<up, trust, work, turn, cancellation>> /\ Calm

\* pending_subpipeline_ends: a running step whose child run has ended.
ChildEnded(e) == e[1] \in Pipeline /\ Runs(e) /\ turn[e] \in Ended

\* SubpipelineEngine::observe and finish: the end of a child run completes its
\* step unless the parent is being cancelled.
ChildEndRecorded(e) ==
  /\ OpFree /\ Live /\ up /\ ~Cancelling
  /\ ChildEnded(e)
  /\ \/ CompleteFailed(e[1])
     \/ turn[e] = "succeeded" /\ \E d \in Result[e[1]] : CompleteAccepted(e[1], d)
  /\ wakes' = wakes + 1
  /\ UNCHANGED <<up, trust, gate, op, launching, turns, cancellation>> /\ Calm

-----------------------------------------------------------------------------
(***************************************************************************)
(* Cancellation: cancel_scope and cancel_held_run.                         *)
(***************************************************************************)
InScope(e) == scope = 0 \/ e[1] = scope

CancelBegins(s) ==
  /\ up /\ ~Cancelling
  /\ cancels < MaxCancel /\ cancels' = cancels + 1
  /\ phase' = "begun" /\ scope' = s
  /\ UNCHANGED <<Journal, up, trust, work, turns, flagged, plan, proof>> /\ Calm

\* Child runs below the scope are cancelled first; each ends cancelled, ends by
\* itself or stays as it is, which TurnEnds covers.  Then the executions to stop
\* are read.
CancelPlans ==
  /\ phase = "begun" /\ gate = "free" /\ OpFree /\ Live
  /\ gate' = "cancel" /\ phase' = "planned"
  /\ plan' = {e \in Exec : Runs(e) /\ InScope(e)}
  /\ UNCHANGED <<Journal, up, trust, op, launching, wakes, turns, flagged, scope, proof, cancels>> /\ Calm

\* The project is not trusted, or the caller's run revision is old.
CancelRefused ==
  /\ phase = "begun" /\ gate = "free" /\ OpFree
  /\ phase' = "none" /\ scope' = 0
  /\ UNCHANGED <<Journal, up, trust, work, turns, flagged, plan, proof, cancels>> /\ Calm

Proved == {p[1] : p \in proof}

\* The cancelling flag, or the script's cancel channel.  An execution that is
\* not active, or whose turn has ended before the host listens, gives no proof.
StopAsked(e) ==
  /\ phase = "planned" /\ OpFree /\ e \in plan \ (Proved \cup flagged) /\ e[1] \notin Pipeline
  /\ flagged' = IF e \in active THEN flagged \cup {e} ELSE flagged
  /\ proof' = IF e \notin active \/ (Native(e[1]) /\ (turn[e] # "live" \/ ~Live))
              THEN proof \cup {<<e, "none">>} ELSE proof
  /\ UNCHANGED <<Journal, up, trust, work, turns, phase, scope, plan, cancels>> /\ Calm

\* Mutant: a turn that did not end in time counts as interrupted.
StopAssumed(e) ==
  /\ phase = "planned" /\ e \in plan \ Proved
  /\ e \in flagged \/ e[1] \in Pipeline
  /\ proof' = proof \cup {<<e, "interrupted">>}
  /\ UNCHANGED <<Journal, up, trust, work, turns, flagged, phase, scope, plan, cancels>> /\ Calm

\* What the host saw within the proof timeout.
StopProved(e) ==
  /\ phase = "planned" /\ e \in plan \ Proved
  /\ e \in flagged \/ e[1] \in Pipeline
  /\ \E o \in Proof :
       /\ o = "interrupted" => turn[e] = "interrupted"
       /\ o = "ended" => turn[e] \in {"succeeded", "failed"}
       /\ e[1] \in Pipeline /\ turn[e] \in Ended => o # "none"
       /\ proof' = proof \cup {<<e, o>>}
  /\ UNCHANGED <<Journal, up, trust, work, turns, flagged, phase, scope, plan, cancels>> /\ Calm

Commit == IF scope = 0 THEN CancelRun ELSE CancelTask(scope)
CanCancel ==
  IF scope = 0 THEN status = "Running" ELSE st[scope] \in {"Ready", "Running", "AwaitingApproval"}

\* Every execution is known to be interrupted: the cancellation is committed.
CancelCommits ==
  /\ phase = "planned" /\ Proved = plan /\ OpFree /\ Live
  /\ \A p \in proof : p[2] = "interrupted"
  /\ CanCancel /\ Commit
  /\ phase' = "committed"
  /\ active' = active \ plan
  /\ UNCHANGED <<up, trust, work, turn, watch, flagged, scope, plan, proof, cancels>> /\ Calm

\* Some execution is not, or the commit conflicts.  Without trust nothing is marked.
CancelFallsThrough ==
  /\ phase = "planned" /\ Proved = plan /\ OpFree
  /\ \/ \E p \in proof : p[2] # "interrupted"
     \/ ~Live \/ ~CanCancel
  /\ phase' = "marking"
  /\ plan' = IF Live THEN plan ELSE {}
  /\ UNCHANGED <<Journal, up, trust, work, turns, flagged, scope, proof, cancels>> /\ Calm

\* A set that stopped only partly is not cancelled: every execution without an
\* end of its own becomes uncertain.
CancelMarks(e) ==
  /\ phase = "marking" /\ OpFree /\ e \in plan
  /\ plan' = plan \ {e}
  /\ IF Live /\ <<e, "ended">> \notin proof /\ Runs(e)
     THEN MarkTaskUncertain(e[1]) /\ active' = active \ {e}
     ELSE UNCHANGED <<Journal, active>>
  /\ UNCHANGED <<up, trust, work, turn, watch, flagged, phase, scope, proof, cancels>> /\ Calm

\* The gate and the admission are dropped; orchestration_cancel_task_v6 asks for
\* a pass when the run goes on after a committed cancellation.
CancelEnds ==
  /\ phase = "committed" \/ (phase = "marking" /\ plan = {})
  /\ gate' = "free" /\ phase' = "none" /\ scope' = 0 /\ plan' = {} /\ proof' = {}
  /\ wakes' = IF phase = "committed" /\ scope # 0 /\ status = "Running" /\ ~paused
              THEN wakes + 1 ELSE wakes
  /\ UNCHANGED <<Journal, up, trust, op, launching, turns, flagged, cancels>> /\ Calm

-----------------------------------------------------------------------------
(***************************************************************************)
(* Commands of a person, each one section of the operation gate, and the   *)
(* faults of the host.                                                     *)
(***************************************************************************)
Wake == IF status' = "Running" /\ ~paused' THEN wakes' = wakes + 1 ELSE UNCHANGED wakes

\* orchestration_control_flow_v6, and the two commands for uncertain tasks.
Commanded(s) ==
  /\ OpFree /\ Live /\ Disturb
  /\ \/ Repeat(s) /\ Wake
     \/ \E approved \in BOOLEAN : Decide(s, approved) /\ Wake
     \/ RetryUncertain(s) /\ wakes' = wakes + 1
     \/ ReconcileSucceeded(s) /\ wakes' = wakes + 1
     \/ \E outcome \in {"Failed", "Cancelled"} : ReconcileStopped(s, outcome) /\ UNCHANGED wakes
  /\ UNCHANGED <<up, trust, gate, op, launching, turns, cancellation>>

PausedOrResumed(p) ==
  /\ OpFree /\ Live /\ paused # p
  /\ SetPaused(p) /\ Wake
  /\ UNCHANGED <<up, trust, gate, op, launching, turns, cancellation>>
  /\ IF p THEN Disturb ELSE Calm

TrustChanges ==
  /\ OpFree /\ trust' = IF Live THEN "revoked" ELSE "regained"
  /\ UNCHANGED <<Journal, up, work, turns, cancellation>> /\ Disturb

\* begin_shutdown stops new work; the scripts' cancel channels are set.
ShutdownBegins ==
  /\ up /\ up' = FALSE
  /\ UNCHANGED <<Journal, trust, work, turns, cancellation>> /\ Disturb

\* resumable_after_restart.
Resumable ==
  /\ status' = "Running"
  /\ \E s \in Step : st'[s] = "Ready" /\ lease'[s] = NoLaunch
  /\ \A s \in Step : /\ st'[s] = "Uncertain" => FALSE
                    /\ st'[s] = "Running" => s \in Pipeline
                    /\ lease'[s] = NoLaunch

\* The process ends anywhere, taking every native turn with it, and a new one
\* opens the journal: recover_interrupted_runs, then recoverable_runs.
Restart ==
  /\ LeaseOnlyOnReady /\ ~advancing
  /\ IF Interrupted = {} THEN UNCHANGED Journal ELSE Restore
  /\ up' = TRUE /\ gate' = "free" /\ op' = Idle /\ launching' = {}
  /\ wakes' = IF Resumable THEN 1 ELSE 0
  /\ turn' = [e \in Exec |-> IF e[1] \in Pipeline \/ turn[e] # "live" THEN turn[e] ELSE "lost"]
  /\ watch' = [e \in Exec |-> "none"] /\ active' = {} /\ flagged' = {}
  /\ phase' = "none" /\ scope' = 0 /\ plan' = {} /\ proof' = {}
  /\ UNCHANGED <<trust, cancels>> /\ Disturb

-----------------------------------------------------------------------------
\* orchestration_start_run_v6: the run is created and a pass is asked for.
HostInit ==
  /\ Init
  /\ up = TRUE /\ trust = "trusted" /\ gate = "free" /\ op = Idle /\ launching = {} /\ wakes = 1
  /\ turn = [e \in Exec |-> "none"] /\ watch = [e \in Exec |-> "none"]
  /\ active = {} /\ flagged = {}
  /\ phase = "none" /\ scope = 0 /\ plan = {} /\ proof = {} /\ cancels = 0

Schedule ==
  \/ PassRefused \/ PassBegins \/ PassAdvances \/ PassEnds
  \/ \E s \in Step : PassLeases(s)

Launches ==
  \/ \E l \in launching : \/ NativeStarts(l) \/ LaunchStops(l) \/ LossRecorded(l)
                          \/ ScriptStarts(l) \/ ChildStarts(l) \/ HostStepConflicts(l)
  \/ \E s \in Step, n \in Launch : LaunchCommits(s, n) \/ LaunchConflicts(s, n) \/ PromptSent(s, n)

LaunchFaults ==
  \/ \E l \in launching : HostStepRejected(l) \/ NativeRefused(l) \/ NativeFails(l)
  \/ \E s \in Step, n \in Launch : PromptFails(s, n)
  \/ \E s \in Step : PassRejects(s)

Outcomes(e) ==
  \/ WatcherReads(e) \/ ScriptWatcherReads(e) \/ WatcherRecords(e) \/ WatcherGivesUp(e)
  \/ ChildEndRecorded(e)

TurnsEnd(e) == \E outcome \in Ended : TurnEnds(e, outcome)

Cancel ==
  \/ CancelPlans \/ CancelRefused \/ CancelCommits \/ CancelFallsThrough \/ CancelEnds
  \/ \E e \in Exec : StopAsked(e) \/ StopProved(e) \/ CancelMarks(e)

HostNext ==
  \/ Schedule \/ Launches \/ LaunchFaults \/ Cancel
  \/ \E e \in Exec : Outcomes(e) \/ TurnsEnd(e)
  \/ \E s \in Step : AgentSpawns(s) \/ Commanded(s)
  \/ \E s \in Step \cup {0} : CancelBegins(s)
  \/ \E p \in BOOLEAN : PausedOrResumed(p)
  \/ TrustChanges \/ ShutdownBegins \/ Restart

HostSpec == HostInit /\ [][HostNext]_hvars

-----------------------------------------------------------------------------
(***************************************************************************)
(* Properties.                                                             *)
(***************************************************************************)
\* The journal knows every execution that had a side effect: a prompted turn,
\* a script process or a child run is the task's current execution or one of
\* its archived attempts, whatever fails or restarts between lease, launch
\* and record (launch_lease commits before it prompts).
SideEffectsAreRecorded ==
  \A e \in Exec : turn[e] \in Ended \cup {"live"} =>
    \/ exec[e[1]] = e[2]
    \/ \E i \in DOMAIN attempts[e[1]] : attempts[e[1]][i].launch = e[2]

\* A running task leaves that state for a final one only with proof: it is
\* cancelled when its turn was interrupted, succeeds or waits for approval when
\* its turn succeeded, fails when its turn ended.  A cancellation that
\* cannot prove it leaves the task uncertain (cancel_held_run).
FinalStateHasProof ==
  [][\A s \in Step : st[s] = "Running" /\ st'[s] # "Running" =>
       LET t == turn[<<s, exec[s]>>]
       IN  /\ st'[s] = "Cancelled" => t = "interrupted"
           /\ st'[s] \in {"Succeeded", "AwaitingApproval"} => t = "succeeded"
           /\ st'[s] = "Failed" => t \in Ended]_hvars

\* A running native or host-executed task has somebody who will record its end:
\* a watcher, the launch under way, the loss still to record or a cancellation
\* that has it in its plan.  Lost trust and shutdown may abandon it; the next
\* start then makes it uncertain.
RunningIsOwned ==
  up /\ trust = "trusted" =>
    \A s \in Step \ Pipeline : st[s] = "Running" =>
      LET e == <<s, exec[s]>>
      IN  \/ watch[e] # "none" \/ op = <<e[1], e[2], "prompt">>
          \/ <<e[1], e[2], "pass lost">> \in launching \/ <<e[1], e[2], "spawn lost">> \in launching
          \/ e \in plan

\* A lease is held by the launch that will use or release it; only a launch
\* that met a shutdown or lost trust leaves one behind.
LeaseIsOwned ==
  up /\ trust = "trusted" =>
    \A s \in Step : Leased(s) => \E l \in launching : l[1] = s /\ l[2] = lease[s]


\* A cancelled run stays stopped: once a whole-run cancellation has committed,
\* no turn of the run is prompted or started.
CancelledRunStaysStopped ==
  [][status = "Cancelled" => \A e \in Exec : turn'[e] = "live" => turn[e] = "live"]_hvars

\* Tasks end with proof, and a cancelled run for good.
EndsAreProven ==
  /\ FinalStateHasProof
  /\ CancelledRunStaysStopped

=============================================================================
