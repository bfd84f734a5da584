----------------------------- MODULE Coordinator -----------------------------
(***************************************************************************)
(* The pure run coordinator of crates/piui-orchestration: one run of one   *)
(* pipeline.  A pipeline is a DAG of steps; the run keeps one task record  *)
(* per step.  The coordinator leases a task before any side effect, marks  *)
(* it running once the native execution exists, settles its result, and    *)
(* handles reviews, conditions, routers, pinned results, spawned agents,   *)
(* restarts and the user's commands.                                       *)
(*                                                                         *)
(* Every public operation runs inside one journal transaction on the       *)
(* current run (OrchestrationStore::transact holds the writer mutex), so   *)
(* one operation is one step.  Run revisions are compared with the current *)
(* revision inside that transaction; a caller with an old revision gets an *)
(* error and changes nothing, so they are not state here.  A task revision *)
(* always travels with a lease or execution id; a launch identity stands   *)
(* for the pair.                                                           *)
(***************************************************************************)
EXTENDS Integers, Sequences, FiniteSets

CONSTANTS
  Step,       \* step ids; their order is the lexical order of the ids
  Deps,       \* dependency_step_ids of each step
  Callable,   \* steps with execution_mode Callable: run only when spawned
  Extra,      \* ids that add_spawned_agent may add to the definition
  Pipeline,   \* sub-pipeline steps (their executor is a child run)
  MaySpawn,   \* <<actor, step>>: the actor's profile may spawn the step
  Data,       \* structured results (JSON objects)
  NoData,     \* no structured result
  Result,     \* results of a step that satisfy its result contract
  Cond,       \* conditions of a step: [source, accepts] records
  Gate,       \* route gates of a step, one per router: [router, selected]
  Route,      \* per program router: input data -> selection (NoData: error)
  Review,     \* per reviewing step: [from, max], max = 0 for no limit
  Rejects,    \* results whose review verdict is false
  Approval,   \* steps with require_approval
  Pin,        \* per pinned step of this run: the pinned result, or Invalid
  Invalid,    \* pinned data that violates the step's result contract
  MaxLaunch,  \* bound on the launches of one step
  MaxDisturb  \* bound on the disturbances of the run

NoLaunch == 0
Launch == 1..MaxLaunch

\* TaskStatus, and Absent for a step that is not in the definition yet.
TaskStatus == {"Absent", "AwaitingApproval", "Skipped", "Ready", "Running",
               "Succeeded", "Failed", "Cancelled", "Uncertain"}
RunStatus == {"Running", "Succeeded", "Failed", "Cancelled", "Uncertain"}
Value == Data \cup {NoData}

(***************************************************************************)
(* The least set that contains A and every step of W with a dependency in  *)
(* the set: what the fixpoint loops of repeat_from, cancel_task and        *)
(* advance_conditions compute.                                             *)
(***************************************************************************)
Downstream(A, W) ==
  {s \in Step : \A D \in SUBSET Step :
      (A \subseteq D /\ \A w \in W : Deps[w] \cap D # {} => w \in D) => s \in D}

Affected == [s \in Step |-> Downstream({s}, Step)]

(***************************************************************************)
(* What validate_pipeline and pinning_refusal admit.  NoData is in the     *)
(* result contract of exactly the steps that declare no result fields.     *)
(***************************************************************************)
Structured(s) == NoData \notin Result[s]

ValidPipeline ==
  /\ Step \ (Callable \cup Extra) # {}
  /\ \A s \in Callable \cup Extra :
       Deps[s] = {} /\ \A t \in Step : s \notin Deps[t]
  /\ \A s \in Step : \A d \in Deps[s] : s # d /\ d \notin Affected[s]
  /\ \A s \in Step : \A c \in Cond[s] :
       c.source \in Deps[s] /\ Structured(c.source)
  /\ \A s \in Step : \A g \in Gate[s] :
       g.router \in Deps[s] /\ (g.router \in DOMAIN Route \/ Structured(g.router))
  /\ \A r \in DOMAIN Route : Cardinality(Deps[r]) = 1 /\ Gate[r] = {}
  /\ \A r \in DOMAIN Review : Structured(r) /\ r \in Affected[Review[r].from] \ {Review[r].from}
  /\ DOMAIN Pin \cap (Callable \cup Extra \cup DOMAIN Route \cup DOMAIN Review) = {}

ASSUME DefinitionType ==
  /\ Step \subseteq Nat
  /\ Deps \in [Step -> SUBSET Step]
  /\ Callable \subseteq Step /\ Extra \subseteq Step /\ Pipeline \subseteq Step
  /\ MaySpawn \subseteq Step \X Step
  /\ NoData \notin Data /\ Invalid \notin Value
  /\ Result \in [Step -> SUBSET Value]
  /\ Cond \in [Step -> SUBSET [source : Step, accepts : SUBSET Data]]
  /\ Gate \in [Step -> SUBSET [router : Step, selected : SUBSET Data]]
  /\ DOMAIN Route \subseteq Step
  /\ \A r \in DOMAIN Route : Route[r] \in [Value -> Value]
  /\ DOMAIN Review \subseteq Step
  /\ \A r \in DOMAIN Review : Review[r] \in [from : Step, max : Nat]
  /\ Rejects \subseteq Data
  /\ Approval \subseteq Step
  /\ DOMAIN Pin \subseteq Step
  /\ \A p \in DOMAIN Pin : Pin[p] \in Value \cup {Invalid}
  /\ MaxLaunch \in Nat /\ MaxDisturb \in Nat

ASSUME DefinitionValid == ValidPipeline

VARIABLES
  status,     \* run.status
  paused,     \* run.paused
  st,         \* status of each task
  lease,      \* lease_id of each task
  exec,       \* native execution of each task
  data,       \* result_data of each task
  attempts,   \* run.attempts, kept per step
  issued,     \* launch identities handed out for each step so far
  advancing,  \* advance_automatic is in its loop: the transaction is open
  pending,    \* pinned steps still to admit in the pass of admit_pinned_steps
  rounds,     \* observation: repeats each reviewer has started by itself
  disturbed   \* bound: commands, interruptions and lost outcomes so far

loop == <<advancing, pending>>
vars == <<status, paused, st, lease, exec, data, attempts, issued,
          advancing, pending, rounds, disturbed>>

Attempt == [launch : Launch \cup {NoLaunch}, status : TaskStatus, data : Value]

TypeOK ==
  /\ status \in RunStatus
  /\ paused \in BOOLEAN
  /\ st \in [Step -> TaskStatus]
  /\ lease \in [Step -> Launch \cup {NoLaunch}]
  /\ exec \in [Step -> Launch \cup {NoLaunch}]
  /\ data \in [Step -> Value]
  /\ attempts \in [Step -> Seq(Attempt)]
  /\ issued \in [Step -> 0..MaxLaunch]
  /\ advancing \in BOOLEAN
  /\ pending \in SUBSET Step
  /\ rounds \in [Step -> Nat]
  /\ disturbed \in 0..MaxDisturb

-----------------------------------------------------------------------------
(***************************************************************************)
(* Readiness, conditions and the run status.                               *)
(***************************************************************************)
DependenciesSucceeded(t, s) == \A d \in Deps[s] : t[d] = "Succeeded"

ConditionMet(dt, s) == \A c \in Cond[s] : dt[c.source] \in c.accepts

RouteGateSatisfied(t, dt, s) ==
  \A g \in Gate[s] : t[g.router] = "Succeeded" /\ dt[g.router] \in g.selected

\* ready_task_ids: the tasks the scheduler may start.
ReadyTasks ==
  {s \in Step :
     /\ status = "Running" /\ ~paused
     /\ st[s] = "Ready" /\ lease[s] = NoLaunch
     /\ s \notin Callable /\ s \notin DOMAIN Route
     /\ DependenciesSucceeded(st, s)
     /\ ConditionMet(data, s)
     /\ RouteGateSatisfied(st, data, s)}

First(S, s) == s \in S /\ \A t \in S : s <= t

\* Mutant: a route that was not selected does not count.
UnmetIgnoringRoutes(t, l, dt) ==
  {s \in Step :
     /\ t[s] = "Ready" /\ l[s] = NoLaunch
     /\ \/ \E d \in Deps[s] : t[d] = "Skipped"
        \/ \E c \in Cond[s] : t[c.source] = "Succeeded" /\ dt[c.source] \notin c.accepts}

\* Ready tasks without a lease whose condition or routes are known to be unmet.
Unmet(t, l, dt) ==
  {s \in Step :
     /\ t[s] = "Ready" /\ l[s] = NoLaunch
     /\ \/ \E d \in Deps[s] : t[d] = "Skipped"
        \/ \E c \in Cond[s] : t[c.source] = "Succeeded" /\ dt[c.source] \notin c.accepts
        \/ /\ Gate[s] # {}
           /\ \A g \in Gate[s] : t[g.router] = "Succeeded"
           /\ ~RouteGateSatisfied(t, dt, s)}


\* advance_conditions: unmet steps and everything ready below them are skipped.
AdvanceConditions(t, l, dt) ==
  LET skipped == Downstream(Unmet(t, l, dt),
                            {s \in Step : t[s] = "Ready" /\ l[s] = NoLaunch})
  IN  [s \in Step |-> IF s \in skipped THEN "Skipped" ELSE t[s]]

Some(t, S) == \E s \in Step : t[s] \in S

\* Mutant: a callable role counts as unused although it is leased.
RefreshStatusIgnoringLeases(t, l) ==
  IF Some(t, {"Uncertain"}) THEN "Uncertain"
  ELSE IF Some(t, {"Running", "AwaitingApproval"}) THEN "Running"
  ELSE IF Some(t, {"Failed"}) THEN "Failed"
  ELSE IF \A s \in Step : \/ t[s] \in {"Succeeded", "Skipped", "Absent"}
                          \/ t[s] = "Ready" /\ s \in Callable
       THEN "Succeeded"
  ELSE IF Some(t, {"Ready"}) THEN "Running" ELSE "Cancelled"

\* refresh_status.
RefreshStatus(t, l) ==
  IF Some(t, {"Uncertain"}) THEN "Uncertain"
  ELSE IF Some(t, {"Running", "AwaitingApproval"}) THEN "Running"
  ELSE IF Some(t, {"Failed"}) THEN "Failed"
  ELSE IF \A s \in Step : \/ t[s] \in {"Succeeded", "Skipped", "Absent"}
                          \/ t[s] = "Ready" /\ l[s] = NoLaunch /\ s \in Callable
       THEN "Succeeded"
  ELSE IF Some(t, {"Ready"}) THEN "Running" ELSE "Cancelled"

\* Fail-fast: ready work stops.  A lease on a stopped task stays on it.
FailFast(t) == [s \in Step |-> IF t[s] = "Ready" THEN "Cancelled" ELSE t[s]]

-----------------------------------------------------------------------------
(***************************************************************************)
(* repeat_from: everything downstream of a step is archived and made ready *)
(* again, unless some of it is active, uncertain or leased.                *)
(***************************************************************************)
\* Mutants: leased work, or active work, does not stop a repeat.
RepeatAllowedWhenLeased(s, t) == \A x \in Affected[s] : t[x] \notin {"Running", "Uncertain"}

RepeatAllowedWhenActive(s, t) == \A x \in Affected[s] : lease[x] = NoLaunch

RepeatAllowed(s, t) ==
  \A x \in Affected[s] : t[x] \notin {"Running", "Uncertain"} /\ lease[x] = NoLaunch

Archived(S, t, dt) ==
  [x \in Step |->
     IF x \in S /\ exec[x] # NoLaunch
     THEN Append(attempts[x], [launch |-> exec[x], status |-> t[x], data |-> dt[x]])
     ELSE attempts[x]]

RepeatFrom(s, t, dt) ==
  LET S  == Affected[s]
      dn == [x \in Step |-> IF x \in S THEN NoData ELSE dt[x]]
      tn == [x \in Step |-> IF x \in S THEN "Ready" ELSE t[x]]
  IN  /\ attempts' = Archived(S, t, dt)
      /\ exec' = [x \in Step |-> IF x \in S THEN NoLaunch ELSE exec[x]]
      /\ data' = dn
      /\ st' = AdvanceConditions(tn, lease, dn)
      /\ status' = RefreshStatus(st', lease)

-----------------------------------------------------------------------------
(***************************************************************************)
(* advance_automatic: program routers and pinned steps are settled by the  *)
(* coordinator itself, routers first, until neither admits anything.  The  *)
(* loop runs inside one transaction: one pass is one step, and advancing   *)
(* keeps every other operation out until the loop ends.                    *)
(***************************************************************************)
RoutersReady ==
  {r \in DOMAIN Route : st[r] = "Ready" /\ lease[r] = NoLaunch /\ DependenciesSucceeded(st, r)}

PinnedReady == ReadyTasks \cap DOMAIN Pin

AutomaticWork == pending # {} \/ RoutersReady # {} \/ PinnedReady # {}

Selection(r) == Route[r][data[CHOOSE d \in Deps[r] : TRUE]]

\* One pass of advance_program_routers.
AdvanceProgramRouters ==
  /\ pending = {}
  /\ RoutersReady # {}
  /\ LET dn == [s \in Step |-> IF s \in RoutersReady THEN Selection(s) ELSE data[s]]
         tn == [s \in Step |-> IF s \notin RoutersReady THEN st[s]
                               ELSE IF dn[s] = NoData THEN "Failed" ELSE "Succeeded"]
     IN  /\ data' = dn
         /\ st' = AdvanceConditions(tn, lease, dn)
  /\ status' = RefreshStatus(st', lease)
  /\ UNCHANGED <<paused, lease, exec, attempts, issued, pending, rounds>>
  /\ advancing' = AutomaticWork'

\* Mutant: a candidate is admitted although an earlier admission stopped it.
AdmitPinnedStopped(s) ==
  LET batch == IF pending # {} THEN pending ELSE PinnedReady
      dn    == [data EXCEPT ![s] = IF Pin[s] = Invalid THEN @ ELSE Pin[s]]
      tn    == [st EXCEPT ![s] = IF Pin[s] = Invalid THEN "Failed" ELSE "Succeeded"]
  IN  /\ RoutersReady = {} \/ pending # {}
      /\ First(batch, s)
      /\ data' = dn
      /\ st' = AdvanceConditions(IF Pin[s] = Invalid THEN FailFast(tn) ELSE tn, lease, dn)
      /\ status' = RefreshStatus(st', lease)
      /\ pending' = batch \ {s}
      /\ UNCHANGED <<paused, lease, exec, attempts, issued, rounds>>
      /\ advancing' = AutomaticWork'

\* One admission of admit_pinned_steps; the candidates of a pass are fixed at its start.
AdmitPinned(s) ==
  LET batch == IF pending # {} THEN pending ELSE PinnedReady
  IN  /\ RoutersReady = {} \/ pending # {}
      /\ First(batch, s)
      /\ IF Pin[s] = Invalid
         THEN /\ st' = FailFast([st EXCEPT ![s] = "Failed"])
              /\ UNCHANGED data
         ELSE LET dn == [data EXCEPT ![s] = Pin[s]]
                  tn == [st EXCEPT ![s] = IF s \in Approval THEN "AwaitingApproval" ELSE "Succeeded"]
              IN  /\ data' = dn
                  /\ st' = AdvanceConditions(tn, lease, dn)
      /\ status' = RefreshStatus(st', lease)
      /\ pending' = {x \in batch \ {s} : st'[x] = "Ready"}
      /\ UNCHANGED <<paused, lease, exec, attempts, issued, rounds>>
      /\ advancing' = AutomaticWork'

-----------------------------------------------------------------------------
(***************************************************************************)
(* Leasing and dispatch.                                                   *)
(***************************************************************************)
TakeLease(s) ==
  /\ issued[s] < MaxLaunch
  /\ issued' = [issued EXCEPT ![s] = @ + 1]
  /\ lease' = [lease EXCEPT ![s] = issued[s] + 1]

\* lease_next_task, lease_next_script, lease_next_plugin_step, lease_next_pipeline_step.
LeaseNext(s) ==
  /\ ~advancing /\ RoutersReady = {} /\ PinnedReady = {}
  /\ First(ReadyTasks, s)
  /\ TakeLease(s)
  /\ UNCHANGED <<status, paused, st, exec, data, attempts, loop, rounds>>

\* lease_controlled_spawn, called by the running agent of step a.
LeaseControlledSpawn(a, s) ==
  /\ ~advancing
  /\ status = "Running" /\ ~paused
  /\ <<a, s>> \in MaySpawn /\ st[a] = "Running"
  /\ s \notin DOMAIN Pin
  /\ st[s] = "Ready" /\ lease[s] = NoLaunch
  /\ DependenciesSucceeded(st, s)
  /\ TakeLease(s)
  /\ UNCHANGED <<status, paused, st, exec, data, attempts, loop, rounds>>

\* add_spawned_agent and the lease taken in the same transaction.
AddSpawnedAgent(a, s) ==
  /\ ~advancing
  /\ status = "Running" /\ ~paused
  /\ <<a, s>> \in MaySpawn /\ st[a] = "Running"
  /\ s \in Extra /\ st[s] = "Absent"
  /\ TakeLease(s)
  /\ st' = [st EXCEPT ![s] = "Ready"]
  /\ UNCHANGED <<status, paused, exec, data, attempts, loop, rounds>>

Leased(s) == st[s] = "Ready" /\ lease[s] # NoLaunch

\* dispatch_leased_task, dispatch_leased_script.
DispatchLeased(s) ==
  /\ ~advancing
  /\ status = "Running"
  /\ Leased(s)
  /\ st' = [st EXCEPT ![s] = "Running"]
  /\ exec' = [exec EXCEPT ![s] = lease[s]]
  /\ lease' = [lease EXCEPT ![s] = NoLaunch]
  /\ UNCHANGED <<status, paused, data, attempts, issued, loop, rounds>>

\* release_task_lease: the host stopped before any side effect.
ReleaseLease(s) ==
  /\ ~advancing
  /\ Leased(s)
  /\ lease' = [lease EXCEPT ![s] = NoLaunch]
  /\ UNCHANGED <<status, paused, st, exec, data, attempts, issued, loop, rounds>>

\* reject_ready_task: a refusal before launch.
RejectReadyTask(s) ==
  /\ ~advancing
  /\ First(ReadyTasks, s)
  /\ st' = FailFast([st EXCEPT ![s] = "Failed"])
  /\ status' = RefreshStatus(st', lease)
  /\ UNCHANGED <<paused, lease, exec, data, attempts, issued, loop, rounds>>

\* reject_leased_task, reject_leased_script: release and reject in one transaction.
RejectLeased(s) ==
  /\ ~advancing
  /\ Leased(s)
  /\ lease' = [lease EXCEPT ![s] = NoLaunch]
  /\ st' = FailFast([st EXCEPT ![s] = "Failed"])
  /\ status' = RefreshStatus(st', lease')
  /\ UNCHANGED <<paused, exec, data, attempts, issued, loop, rounds>>

-----------------------------------------------------------------------------
(***************************************************************************)
(* Completion of a running task: complete_checked_task (native work),      *)
(* complete_script_task and complete_pipeline_task, each followed by       *)
(* settle_result.  d ranges over the results that satisfy the contract; a  *)
(* result that does not is a failure.                                      *)
(***************************************************************************)
RejectedBy(s, d) == s \in DOMAIN Review /\ d \in Rejects

\* review_limit_reached counts the reviewer's archived results and this one.
Rounds(s) ==
  Cardinality({i \in DOMAIN attempts[s] : attempts[s][i].status \in {"Succeeded", "AwaitingApproval"}})

ReviewHold(s) ==
  \/ Review[s].max # 0 /\ Rounds(s) + 1 >= Review[s].max
  \/ Review[s].from \in DOMAIN Pin

\* The same rejection twice in a row pauses the run.
SameAsLastAttempt(s, d) ==
  attempts[s] # <<>> /\ attempts[s][Len(attempts[s])].data = d

CompleteFailed(s) ==
  /\ ~advancing
  /\ st[s] = "Running"
  /\ data' = [data EXCEPT ![s] = NoData]
  /\ st' = AdvanceConditions(FailFast([st EXCEPT ![s] = "Failed"]), lease, data')
  /\ status' = RefreshStatus(st', lease)
  /\ UNCHANGED <<paused, lease, exec, attempts, issued, loop, rounds>>

CompleteAccepted(s, d) ==
  /\ ~advancing
  /\ st[s] = "Running" /\ d \in Result[s] /\ ~RejectedBy(s, d)
  /\ data' = [data EXCEPT ![s] = d]
  /\ LET outcome == IF s \in Approval THEN "AwaitingApproval" ELSE "Succeeded"
     IN  st' = AdvanceConditions([st EXCEPT ![s] = outcome], lease, data')
  /\ status' = RefreshStatus(st', lease)
  /\ UNCHANGED <<paused, lease, exec, attempts, issued, loop, rounds>>

\* A rejection that may not start another round waits for a person.
CompleteHeld(s, d) ==
  /\ ~advancing
  /\ st[s] = "Running" /\ d \in Result[s] /\ RejectedBy(s, d) /\ ReviewHold(s)
  /\ data' = [data EXCEPT ![s] = d]
  /\ st' = AdvanceConditions([st EXCEPT ![s] = "AwaitingApproval"], lease, data')
  /\ status' = RefreshStatus(st', lease)
  /\ UNCHANGED <<paused, lease, exec, attempts, issued, loop, rounds>>

\* A rejection that starts another round from the correction step.
CompleteRepeat(s, d) ==
  LET tn == [st EXCEPT ![s] = "Succeeded"]
  IN  /\ ~advancing
      /\ st[s] = "Running" /\ d \in Result[s] /\ RejectedBy(s, d) /\ ~ReviewHold(s)
      /\ RepeatAllowed(Review[s].from, tn)
      /\ RepeatFrom(Review[s].from, tn, [data EXCEPT ![s] = d])
      /\ paused' = (paused \/ SameAsLastAttempt(s, d))
      /\ rounds' = [rounds EXCEPT ![s] = @ + 1]
      /\ UNCHANGED <<lease, issued, loop>>

\* review-retry-conflict: work downstream of the correction step is active.
CompleteConflict(s, d) ==
  /\ ~advancing
  /\ st[s] = "Running" /\ d \in Result[s] /\ RejectedBy(s, d) /\ ~ReviewHold(s)
  /\ ~RepeatAllowed(Review[s].from, [st EXCEPT ![s] = "Succeeded"])
  /\ data' = [data EXCEPT ![s] = d]
  /\ st' = AdvanceConditions([st EXCEPT ![s] = "Failed"], lease, data')
  /\ status' = RefreshStatus(st', lease)
  /\ paused' = (paused \/ SameAsLastAttempt(s, d))
  /\ UNCHANGED <<lease, exec, attempts, issued, loop, rounds>>

-----------------------------------------------------------------------------
(***************************************************************************)
(* Lost outcomes, restarts and their resolution by the user.               *)
(***************************************************************************)
MarkTaskUncertain(s) ==
  /\ ~advancing
  /\ st[s] = "Running" \/ Leased(s)
  /\ st' = [st EXCEPT ![s] = "Uncertain"]
  /\ lease' = [lease EXCEPT ![s] = NoLaunch]
  /\ status' = "Uncertain"
  /\ UNCHANGED <<paused, exec, data, attempts, issued, loop, rounds>>

\* validate_run_data on load: "only ready tasks may hold a lease".
LeaseOnlyOnReady == \A s \in Step : lease[s] # NoLaunch => st[s] = "Ready"

\* interrupted_by_restart.
Interrupted == {s \in Step : Leased(s) \/ (st[s] = "Running" /\ s \notin Pipeline)}

\* restore, on the valid journal a new host process loads.
Restore ==
  /\ ~advancing
  /\ LeaseOnlyOnReady
  /\ Interrupted # {}
  /\ st' = [s \in Step |-> IF s \in Interrupted THEN "Uncertain" ELSE st[s]]
  /\ lease' = [s \in Step |-> IF s \in Interrupted THEN NoLaunch ELSE lease[s]]
  /\ status' = "Uncertain"
  /\ UNCHANGED <<paused, exec, data, attempts, issued, loop, rounds>>

ReconcileSucceeded(s) ==
  /\ ~advancing
  /\ st[s] = "Uncertain"
  /\ ~Structured(s) /\ s \notin Approval /\ s \notin DOMAIN Review
  /\ st' = [st EXCEPT ![s] = "Succeeded"]
  /\ status' = RefreshStatus(st', lease)
  /\ UNCHANGED <<paused, lease, exec, data, attempts, issued, loop, rounds>>

ReconcileStopped(s, outcome) ==
  /\ ~advancing
  /\ st[s] = "Uncertain"
  /\ st' = FailFast([st EXCEPT ![s] = outcome])
  /\ status' = RefreshStatus(st', lease)
  /\ UNCHANGED <<paused, lease, exec, data, attempts, issued, loop, rounds>>

\* retry_uncertain_task: the run is running again whatever the other tasks are.
RetryUncertain(s) ==
  /\ ~advancing
  /\ st[s] = "Uncertain"
  /\ attempts' = [attempts EXCEPT ![s] = Append(@,
                    [launch |-> exec[s], status |-> "Uncertain", data |-> data[s]])]
  /\ st' = [st EXCEPT ![s] = "Ready"]
  /\ lease' = [lease EXCEPT ![s] = NoLaunch]
  /\ exec' = [exec EXCEPT ![s] = NoLaunch]
  /\ data' = [data EXCEPT ![s] = NoData]
  /\ status' = "Running"
  /\ UNCHANGED <<paused, issued, loop, rounds>>

-----------------------------------------------------------------------------
(***************************************************************************)
(* The user's commands: cancel_run, cancel_task and control_flow.          *)
(***************************************************************************)
CancelRun ==
  LET stopped == {s \in Step : st[s] \in {"Running", "Ready", "AwaitingApproval"}}
  IN  /\ ~advancing
      /\ status = "Running"
      /\ st' = [s \in Step |-> IF s \in stopped THEN "Cancelled" ELSE st[s]]
      /\ lease' = [s \in Step |-> IF s \in stopped THEN NoLaunch ELSE lease[s]]
      /\ status' = "Cancelled"
      /\ UNCHANGED <<paused, exec, data, attempts, issued, loop, rounds>>

\* Ready work below any cancelled step is cancelled too; its leases stay.
CancelTask(s) ==
  LET tn      == [st EXCEPT ![s] = "Cancelled"]
      ready   == {x \in Step : tn[x] = "Ready"}
      blocked == Downstream({x \in ready : \E d \in Deps[x] : tn[d] = "Cancelled"}, ready)
  IN  /\ ~advancing
      /\ st[s] \in {"Ready", "Running", "AwaitingApproval"}
      /\ st' = [x \in Step |-> IF x \in blocked THEN "Cancelled" ELSE tn[x]]
      /\ lease' = [lease EXCEPT ![s] = NoLaunch]
      /\ status' = RefreshStatus(st', lease')
      /\ UNCHANGED <<paused, exec, data, attempts, issued, loop, rounds>>

\* FlowAction::Pause and FlowAction::Resume.
SetPaused(p) ==
  /\ ~advancing
  /\ status = "Running"
  /\ paused' = p
  /\ st' = AdvanceConditions(st, lease, data)
  /\ status' = RefreshStatus(st', lease)
  /\ UNCHANGED <<lease, exec, data, attempts, issued, loop, rounds>>

\* FlowAction::Decide.
Decide(s, approved) ==
  /\ ~advancing
  /\ st[s] = "AwaitingApproval"
  /\ st' = AdvanceConditions([st EXCEPT ![s] = IF approved THEN "Succeeded" ELSE "Failed"],
                             lease, data)
  /\ status' = RefreshStatus(st', lease)
  /\ UNCHANGED <<paused, lease, exec, data, attempts, issued, loop, rounds>>

\* FlowAction::Repeat.
Repeat(s) ==
  /\ ~advancing
  /\ st[s] \in {"Succeeded", "Failed", "Cancelled", "AwaitingApproval"}
  /\ RepeatAllowed(s, st)
  /\ RepeatFrom(s, st, data)
  /\ UNCHANGED <<paused, lease, issued, loop, rounds>>

-----------------------------------------------------------------------------
\* new_started_run: every step of the definition is ready.
Init ==
  /\ status = "Running" /\ paused = FALSE
  /\ st = [s \in Step |-> IF s \in Extra THEN "Absent" ELSE "Ready"]
  /\ lease = [s \in Step |-> NoLaunch]
  /\ exec = [s \in Step |-> NoLaunch]
  /\ data = [s \in Step |-> NoData]
  /\ attempts = [s \in Step |-> <<>>]
  /\ issued = [s \in Step |-> 0]
  /\ advancing = FALSE /\ pending = {}
  /\ rounds = [s \in Step |-> 0]
  /\ disturbed = 0

Automatic == AdvanceProgramRouters \/ \E s \in DOMAIN Pin : AdmitPinned(s)

Complete(s) ==
  \/ CompleteFailed(s)
  \/ \E d \in Value : \/ CompleteAccepted(s, d) \/ CompleteHeld(s, d)
                      \/ CompleteRepeat(s, d)   \/ CompleteConflict(s, d)

Launching(s) == LeaseNext(s) \/ DispatchLeased(s)

Spawn(s) == \E a \in Step : LeaseControlledSpawn(a, s) \/ AddSpawnedAgent(a, s)

\* What happens to a run that nobody interrupts, retries, repeats or stops.
Undisturbed ==
  \/ Automatic
  \/ \E s \in Step : \/ Launching(s) \/ Spawn(s) \/ Complete(s) \/ RejectReadyTask(s)
                     \/ \E approved \in BOOLEAN : Decide(s, approved)

Disturbance ==
  \/ \E s \in Step :
       \/ ReleaseLease(s) \/ RejectLeased(s) \/ MarkTaskUncertain(s)
       \/ ReconcileSucceeded(s) \/ RetryUncertain(s) \/ CancelTask(s) \/ Repeat(s)
       \/ \E outcome \in {"Failed", "Cancelled"} : ReconcileStopped(s, outcome)
  \/ \E p \in BOOLEAN : SetPaused(p)
  \/ Restore \/ CancelRun

Next ==
  \/ Undisturbed /\ UNCHANGED disturbed
  \/ Disturbance /\ disturbed < MaxDisturb /\ disturbed' = disturbed + 1

Spec == Init /\ [][Next]_vars

\* The scheduler wakes after every change of the run, native work ends, and
\* the loop of advance_automatic runs to its end.  Nothing makes a person decide.
Fairness ==
  /\ WF_vars(Automatic /\ UNCHANGED disturbed)
  /\ \A s \in Step : /\ WF_vars(Launching(s) /\ UNCHANGED disturbed)
                     /\ WF_vars(Complete(s) /\ UNCHANGED disturbed)
UndisturbedSpec == Init /\ [][Undisturbed /\ UNCHANGED disturbed]_vars /\ Fairness

-----------------------------------------------------------------------------
(***************************************************************************)
(* Properties.                                                             *)
(***************************************************************************)
\* Work that was handed out, is under way or is done.
Started(s) ==
  lease[s] # NoLaunch \/ st[s] \in {"Running", "Uncertain", "AwaitingApproval", "Succeeded"}

\* A step is leased, running, uncertain, waiting for approval or succeeded
\* only while every dependency is succeeded: whatever is repeated, retried,
\* reviewed or cancelled meanwhile, no work rests on a withdrawn result
\* (dependencies_succeeded, repeat_from).
DependenciesHold == \A s \in Step : Started(s) => DependenciesSucceeded(st, s)

\* A step whose condition is false or whose route was not selected is never
\* leased or run, also not by an agent that spawns it: lease_controlled_spawn
\* checks neither and relies on advance_conditions having skipped the step.
BranchesRespected ==
  \A s \in Step : Started(s) => ConditionMet(data, s) /\ RouteGateSatisfied(st, data, s)

\* A finished run has no running or undecided task, and a succeeded run has
\* nothing left but unused callable roles (refresh_status against every
\* operation that sets run.status by itself).
FinishedRunIsQuiet ==
  /\ status \in {"Succeeded", "Failed", "Cancelled"} => ~Some(st, {"Running", "AwaitingApproval"})
  /\ status = "Succeeded" =>
       \A s \in Step : \/ st[s] \in {"Succeeded", "Skipped", "Absent"}
                       \/ st[s] = "Ready" /\ lease[s] = NoLaunch /\ s \in Callable

\* A reviewer with a limit starts fewer rounds by itself than the limit, over
\* the whole run, whatever the user repeats in between (review_limit_reached).
ReviewsBounded ==
  \A r \in DOMAIN Review : Review[r].max # 0 => rounds[r] < Review[r].max

\* A pinned step's result is its pinned data: it is never leased or executed
\* (admitted_from_pin; lease_next_* admit pinned steps first).
PinnedNeverLaunched ==
  \A s \in DOMAIN Pin : lease[s] = NoLaunch /\ exec[s] = NoLaunch /\ attempts[s] = <<>>

\* Only selected steps run, and pinned ones never do.
BranchesSound ==
  /\ TypeOK
  /\ BranchesRespected
  /\ PinnedNeverLaunched

\* The pinned steps still to admit in a pass are ready, without a lease and
\* with succeeded dependencies, also after an earlier admission of the same
\* pass failed the run or skipped steps; nothing else happens during a pass.
PinnedPassSound ==
  /\ pending # {} => advancing
  /\ \A s \in pending : st[s] = "Ready" /\ lease[s] = NoLaunch /\ DependenciesSucceeded(st, s)

\* No launch identity of a task is used twice: not by its lease and its
\* execution, not by an archived attempt, so a late answer can only complete
\* the execution it belongs to.
LaunchesUnique ==
  \A s \in Step :
    LET archived == {i \in DOMAIN attempts[s] : attempts[s][i].launch # NoLaunch}
    IN  /\ lease[s] # NoLaunch => lease[s] # exec[s]
        /\ \A i \in archived : attempts[s][i].launch \notin {lease[s], exec[s]}
        /\ \A i, j \in archived : attempts[s][i].launch = attempts[s][j].launch => i = j

\* What a run claims about itself: a finished run is quiet, automatic reviews are
\* bounded, and no two executions share an identity.
RunSound ==
  /\ FinishedRunIsQuiet
  /\ ReviewsBounded
  /\ LaunchesUnique

\* The history only grows, and an execution leaves its task record only into
\* the history (repeat_from, retry_uncertain_task).
HistoryKept ==
  [][\A s \in Step :
       /\ Len(attempts[s]) <= Len(attempts'[s])
       /\ SubSeq(attempts'[s], 1, Len(attempts[s])) = attempts[s]
       /\ exec[s] # NoLaunch /\ exec'[s] # exec[s] =>
            \E i \in DOMAIN attempts'[s] : attempts'[s][i].launch = exec[s]]_vars

\* While an execution runs, or its outcome is unknown, the results it was
\* given stay as they are; only its own rejecting verdict withdraws them
\* (repeat_from refuses when anything downstream is active).
InputsFrozen ==
  [][\A s \in Step :
       st[s] \in {"Running", "Uncertain"} /\ rounds'[s] = rounds[s] =>
         \A d \in Deps[s] : st'[d] = "Succeeded" /\ data'[d] = data[d]]_vars

\* The past stays: archived attempts, and the results a running execution was given.
PastKept ==
  /\ HistoryKept
  /\ InputsFrozen

\* An undisturbed run never hangs: it ends, or it waits for a person.
RunSettles ==
  status = "Running" ~> (status # "Running" \/ paused \/ Some(st, {"AwaitingApproval"}))

=============================================================================
