-------------------------- MODULE CoordinatorProofs --------------------------
(***************************************************************************)
(* Theorems about Coordinator for every valid pipeline and every bound.    *)
(***************************************************************************)
EXTENDS Coordinator, FiniteSetTheorems, TLAPS

(***************************************************************************)
(* The fixpoint loops.                                                     *)
(***************************************************************************)

\* A fixpoint loop changes only steps it starts from or may extend to.
LEMMA DownstreamWithin ==
  ASSUME NEW A \in SUBSET Step, NEW W \in SUBSET Step
  PROVE  Downstream(A, W) \subseteq A \cup W
<1>1. A \cup W \in SUBSET Step
  OBVIOUS
<1> QED
  BY <1>1 DEF Downstream

\* What a fixpoint loop reaches is closed under dependents that it may extend to.
LEMMA DownstreamClosed ==
  ASSUME NEW A \in SUBSET Step, NEW W \in SUBSET Step, NEW w \in W,
         NEW d \in Deps[w], d \in Downstream(A, W)
  PROVE  w \in Downstream(A, W)
<1> SUFFICES ASSUME NEW D \in SUBSET Step, A \subseteq D,
                    \A v \in W : Deps[v] \cap D # {} => v \in D
             PROVE  w \in D
  BY DEF Downstream
<1>1. d \in D
  BY DEF Downstream
<1> QED
  BY <1>1

\* A repeat affects the step itself and is closed under dependents.
LEMMA AffectedClosed ==
  ASSUME NEW s \in Step
  PROVE  /\ Affected[s] \in SUBSET Step
         /\ s \in Affected[s]
         /\ \A x \in Step : \A d \in Deps[x] : d \in Affected[s] => x \in Affected[s]
<1>1. Affected[s] = Downstream({s}, Step)
  BY DEF Affected
<1>2. s \in Downstream({s}, Step) /\ Downstream({s}, Step) \in SUBSET Step
  BY DEF Downstream
<1>3. \A x \in Step : \A d \in Deps[x] :
        d \in Downstream({s}, Step) => x \in Downstream({s}, Step)
  BY DownstreamClosed
<1> QED
  BY <1>1, <1>2, <1>3

(***************************************************************************)
(* The helpers on task statuses.                                           *)
(***************************************************************************)
\* advance_conditions only turns ready tasks without a lease into skipped ones.
LEMMA AdvanceConditionsEffect ==
  ASSUME NEW t \in [Step -> TaskStatus], NEW l, NEW dt
  PROVE  /\ AdvanceConditions(t, l, dt) \in [Step -> TaskStatus]
         /\ \A s \in Step :
              \/ AdvanceConditions(t, l, dt)[s] = t[s]
              \/ /\ t[s] = "Ready" /\ l[s] = NoLaunch
                 /\ AdvanceConditions(t, l, dt)[s] = "Skipped"
<1> DEFINE W == {s \in Step : t[s] = "Ready" /\ l[s] = NoLaunch}
           K == Downstream(Unmet(t, l, dt), W)
<1>1. Unmet(t, l, dt) \subseteq W
  BY DEF Unmet
<1>2. K \subseteq W
  <2>1. Unmet(t, l, dt) \in SUBSET Step /\ W \in SUBSET Step
    BY <1>1
  <2> HIDE DEF W
  <2> QED
    BY <1>1, <2>1, DownstreamWithin
<1>3. AdvanceConditions(t, l, dt) = [s \in Step |-> IF s \in K THEN "Skipped" ELSE t[s]]
  BY DEF AdvanceConditions
<1> HIDE DEF K
<1> QED
  BY <1>2, <1>3 DEF TaskStatus

\* refresh_status yields a run status.
LEMMA RefreshStatusType ==
  ASSUME NEW t, NEW l
  PROVE  RefreshStatus(t, l) \in RunStatus
BY DEF RefreshStatus, RunStatus

\* Failing the other ready tasks keeps statuses statuses.
LEMMA FailFastType ==
  ASSUME NEW t \in [Step -> TaskStatus]
  PROVE  FailFast(t) \in [Step -> TaskStatus]
BY DEF FailFast, TaskStatus

\* Archiving the results of the affected steps keeps every history a sequence.
LEMMA ArchivedType ==
  ASSUME TypeOK, NEW S, NEW t \in [Step -> TaskStatus], NEW dt \in [Step -> Value]
  PROVE  Archived(S, t, dt) \in [Step -> Seq(Attempt)]
<1> SUFFICES ASSUME NEW x \in Step
             PROVE  Archived(S, t, dt)[x] \in Seq(Attempt)
  BY DEF Archived
<1>1. [launch |-> exec[x], status |-> t[x], data |-> dt[x]] \in Attempt
  BY DEF TypeOK, Attempt
<1>2. attempts[x] \in Seq(Attempt)
  BY DEF TypeOK
<1> QED
  BY <1>1, <1>2 DEF Archived

\* repeat_from keeps every task record well formed.
LEMMA RepeatFromType ==
  ASSUME TypeOK, NEW s \in Step, NEW t \in [Step -> TaskStatus], NEW dt \in [Step -> Value],
         RepeatFrom(s, t, dt)
  PROVE  /\ status' \in RunStatus
         /\ st' \in [Step -> TaskStatus]
         /\ exec' \in [Step -> Launch \cup {NoLaunch}]
         /\ data' \in [Step -> Value]
         /\ attempts' \in [Step -> Seq(Attempt)]
<1> DEFINE dn == [x \in Step |-> IF x \in Affected[s] THEN NoData ELSE dt[x]]
           tn == [x \in Step |-> IF x \in Affected[s] THEN "Ready" ELSE t[x]]
<1>1. tn \in [Step -> TaskStatus] /\ dn \in [Step -> Value]
  BY DEF TaskStatus, Value
<1>2. st' = AdvanceConditions(tn, lease, dn)
  BY DEF RepeatFrom
<1>3. status' \in RunStatus
  BY RefreshStatusType DEF RepeatFrom
<1>4. attempts' \in [Step -> Seq(Attempt)]
  BY ArchivedType DEF RepeatFrom
<1>5. exec' \in [Step -> Launch \cup {NoLaunch}] /\ data' \in [Step -> Value]
  BY <1>1 DEF RepeatFrom, TypeOK
<1> HIDE DEF tn, dn
<1> QED
  BY <1>1, <1>2, <1>3, <1>4, <1>5, AdvanceConditionsEffect

-----------------------------------------------------------------------------
(***************************************************************************)
(* Type correctness.                                                       *)
(***************************************************************************)
\* A new run is well formed (new_started_run).
LEMMA TypeInit == Init => TypeOK
<1> SUFFICES ASSUME Init
             PROVE  TypeOK
  OBVIOUS
<1>1. attempts \in [Step -> Seq(Attempt)]
  BY DEF Init
<1>2. st \in [Step -> TaskStatus] /\ status \in RunStatus
  BY DEF Init, TaskStatus, RunStatus
<1>3. /\ lease \in [Step -> Launch \cup {NoLaunch}]
      /\ exec \in [Step -> Launch \cup {NoLaunch}]
      /\ data \in [Step -> Value]
  BY DEF Init, Value
<1>4. /\ issued \in [Step -> 0..MaxLaunch]
      /\ rounds \in [Step -> Nat]
      /\ disturbed \in 0..MaxDisturb
  BY DefinitionType DEF Init
<1> QED
  BY <1>1, <1>2, <1>3, <1>4 DEF Init, TypeOK

\* Every operation of the coordinator keeps a run well formed.
LEMMA TypeNext == TypeOK /\ [Next]_vars => TypeOK'
<1> SUFFICES ASSUME TypeOK, [Next]_vars
             PROVE  TypeOK'
  OBVIOUS
<1> USE DefinitionType, RefreshStatusType
<1>1. CASE UNCHANGED vars
  BY <1>1 DEF vars, TypeOK
<1>2. CASE Next
  <2>1. disturbed' \in 0..MaxDisturb
    BY <1>2 DEF Next, TypeOK
  <2>2. CASE AdvanceProgramRouters
    <3> DEFINE dn == [s \in Step |-> IF s \in RoutersReady THEN Selection(s) ELSE data[s]]
               tn == [s \in Step |-> IF s \notin RoutersReady THEN st[s]
                               ELSE IF dn[s] = NoData THEN "Failed" ELSE "Succeeded"]
    <3>1. dn \in [Step -> Value]
      <4> SUFFICES ASSUME NEW s \in RoutersReady
                   PROVE  Selection(s) \in Value
        BY DEF TypeOK
      <4>1. s \in DOMAIN Route /\ Cardinality(Deps[s]) = 1 /\ Deps[s] \in SUBSET Step
        BY DefinitionValid DEF ValidPipeline, RoutersReady
      <4>2. (CHOOSE d \in Deps[s] : TRUE) \in Step
        <5>1. Deps[s] # {}
          <6> SUFFICES ASSUME Deps[s] = {}
                       PROVE  FALSE
            OBVIOUS
          <6> QED
            BY <4>1, FS_EmptySet
        <5>2. (CHOOSE d \in Deps[s] : TRUE) \in Deps[s]
          BY <5>1
        <5> QED
          BY <4>1, <5>2
      <4>3. Route[s] \in [Value -> Value]
        BY <4>1
      <4>4. data[CHOOSE d \in Deps[s] : TRUE] \in Value
        BY <4>2 DEF TypeOK
      <4> QED
        BY <4>3, <4>4 DEF Selection
    <3>2. tn \in [Step -> TaskStatus]
      BY DEF TypeOK, TaskStatus
    <3>3. st' = AdvanceConditions(tn, lease, dn) /\ data' = dn
      BY <2>2 DEF AdvanceProgramRouters
    <3> HIDE DEF tn, dn
    <3>4. st' \in [Step -> TaskStatus]
      BY <3>2, <3>3, AdvanceConditionsEffect
    <3>5. advancing' \in BOOLEAN
      BY <2>2 DEF AdvanceProgramRouters, AutomaticWork
    <3> QED
      BY <2>1, <2>2, <3>1, <3>3, <3>4, <3>5 DEF AdvanceProgramRouters, TypeOK
  <2>3. ASSUME NEW s \in DOMAIN Pin, AdmitPinned(s)
       PROVE  TypeOK'
    <3> DEFINE dn == [data EXCEPT ![s] = Pin[s]]
               tn == [st EXCEPT ![s] = IF s \in Approval THEN "AwaitingApproval" ELSE "Succeeded"]
               tf == [st EXCEPT ![s] = "Failed"]
    <3>1. tn \in [Step -> TaskStatus] /\ tf \in [Step -> TaskStatus]
      BY DEF TypeOK, TaskStatus
    <3>2. \/ st' = FailFast(tf) /\ data' = data
          \/ Pin[s] # Invalid /\ st' = AdvanceConditions(tn, lease, dn) /\ data' = dn
      BY <2>3 DEF AdmitPinned
    <3>3. Pin[s] # Invalid => dn \in [Step -> Value]
      BY DEF TypeOK
    <3>4. data' \in [Step -> Value]
      BY <3>2, <3>3 DEF TypeOK
    <3> HIDE DEF tn, tf, dn
    <3>5. st' \in [Step -> TaskStatus]
      BY <3>1, <3>2, AdvanceConditionsEffect, FailFastType
    <3>6. pending' \in SUBSET Step /\ advancing' \in BOOLEAN
      BY <2>3 DEF AdmitPinned, AutomaticWork, PinnedReady, ReadyTasks, TypeOK
    <3>7. status' \in RunStatus
      BY <2>3 DEF AdmitPinned
    <3> QED
      BY <2>1, <2>3, <3>4, <3>5, <3>6, <3>7 DEF AdmitPinned, TypeOK
  <2>4. ASSUME NEW s \in Step, TakeLease(s)
       PROVE  /\ issued' \in [Step -> 0..MaxLaunch]
              /\ lease' \in [Step -> Launch \cup {NoLaunch}]
    BY <2>4 DEF TakeLease, TypeOK, Launch
  <2>5. ASSUME NEW s \in Step, LeaseNext(s)
       PROVE  TypeOK'
    BY <2>1, <2>4, <2>5 DEF LeaseNext, loop, TypeOK
  <2>6. ASSUME NEW s \in Step, NEW a \in Step, LeaseControlledSpawn(a, s)
       PROVE  TypeOK'
    BY <2>1, <2>4, <2>6 DEF LeaseControlledSpawn, loop, TypeOK
  <2>7. ASSUME NEW s \in Step, NEW a \in Step, AddSpawnedAgent(a, s)
       PROVE  TypeOK'
    BY <2>1, <2>4, <2>7 DEF AddSpawnedAgent, loop, TypeOK, TaskStatus
  <2>8. ASSUME NEW s \in Step, DispatchLeased(s)
       PROVE  TypeOK'
    BY <2>1, <2>8 DEF DispatchLeased, loop, TypeOK, TaskStatus
  <2>9. ASSUME NEW s \in Step, ReleaseLease(s)
       PROVE  TypeOK'
    BY <2>1, <2>9 DEF ReleaseLease, loop, TypeOK
  <2>10. ASSUME NEW s \in Step
         PROVE  \A o \in TaskStatus : /\ [st EXCEPT ![s] = o] \in [Step -> TaskStatus]
                                      /\ FailFast([st EXCEPT ![s] = o]) \in [Step -> TaskStatus]
    BY FailFastType DEF TypeOK
  <2>11. {"Failed", "Cancelled", "AwaitingApproval", "Succeeded", "Uncertain", "Ready"}
           \subseteq TaskStatus
    BY DEF TaskStatus
  <2>12. ASSUME NEW s \in Step, RejectReadyTask(s)
       PROVE  TypeOK'
    BY <2>1, <2>10, <2>11, <2>12 DEF RejectReadyTask, loop, TypeOK
  <2>13. ASSUME NEW s \in Step, RejectLeased(s)
       PROVE  TypeOK'
    BY <2>1, <2>10, <2>11, <2>13 DEF RejectLeased, loop, TypeOK
  <2>14. ASSUME NEW s \in Step, CompleteFailed(s)
       PROVE  TypeOK'
    <3>1. data' \in [Step -> Value]
      BY <2>14 DEF CompleteFailed, TypeOK, Value
    <3>2. st' \in [Step -> TaskStatus]
      BY <2>10, <2>11, <2>14, AdvanceConditionsEffect DEF CompleteFailed
    <3> QED
      BY <2>1, <2>14, <3>1, <3>2 DEF CompleteFailed, loop, TypeOK
  <2>15. ASSUME NEW s \in Step, NEW d \in Value, NEW o \in TaskStatus,
                data' = [data EXCEPT ![s] = d],
                st' = AdvanceConditions([st EXCEPT ![s] = o], lease, data')
         PROVE  data' \in [Step -> Value] /\ st' \in [Step -> TaskStatus]
    <3>1. data' \in [Step -> Value]
      BY <2>15 DEF TypeOK
    <3>2. st' \in [Step -> TaskStatus]
      BY <2>10, <2>15, AdvanceConditionsEffect
    <3> QED
      BY <3>1, <3>2
  <2>16. ASSUME NEW s \in Step, NEW d \in Value, CompleteAccepted(s, d)
         PROVE  TypeOK'
    <3>1. data' \in [Step -> Value] /\ st' \in [Step -> TaskStatus]
      BY <2>11, <2>15, <2>16 DEF CompleteAccepted
    <3> QED
      BY <2>1, <2>16, <3>1 DEF CompleteAccepted, loop, TypeOK
  <2>17. ASSUME NEW s \in Step, NEW d \in Value, CompleteHeld(s, d)
         PROVE  TypeOK'
    <3>1. data' \in [Step -> Value] /\ st' \in [Step -> TaskStatus]
      BY <2>11, <2>15, <2>17 DEF CompleteHeld
    <3> QED
      BY <2>1, <2>17, <3>1 DEF CompleteHeld, loop, TypeOK
  <2>18. ASSUME NEW s \in Step, NEW d \in Value, CompleteRepeat(s, d)
         PROVE  TypeOK'
    <3>1. Review[s].from \in Step /\ [data EXCEPT ![s] = d] \in [Step -> Value]
      BY <2>18 DEF CompleteRepeat, RejectedBy, TypeOK
    <3>2. RepeatFrom(Review[s].from, [st EXCEPT ![s] = "Succeeded"], [data EXCEPT ![s] = d])
      BY <2>18 DEF CompleteRepeat
    <3>3. /\ status' \in RunStatus
          /\ st' \in [Step -> TaskStatus]
          /\ exec' \in [Step -> Launch \cup {NoLaunch}]
          /\ data' \in [Step -> Value]
          /\ attempts' \in [Step -> Seq(Attempt)]
      BY <2>10, <2>11, <3>1, <3>2, RepeatFromType
    <3>4. paused' \in BOOLEAN /\ rounds' \in [Step -> Nat]
      BY <2>18 DEF CompleteRepeat, TypeOK
    <3> QED
      BY <2>1, <2>18, <3>3, <3>4 DEF CompleteRepeat, loop, TypeOK
  <2>19. ASSUME NEW s \in Step, NEW d \in Value, CompleteConflict(s, d)
         PROVE  TypeOK'
    <3>1. data' \in [Step -> Value] /\ st' \in [Step -> TaskStatus]
      BY <2>11, <2>15, <2>19 DEF CompleteConflict
    <3>2. paused' \in BOOLEAN
      BY <2>19 DEF CompleteConflict
    <3> QED
      BY <2>1, <2>19, <3>1, <3>2 DEF CompleteConflict, loop, TypeOK
  <2>20. ASSUME NEW s \in Step, MarkTaskUncertain(s)
         PROVE  TypeOK'
    BY <2>1, <2>20 DEF MarkTaskUncertain, loop, TypeOK, TaskStatus, RunStatus
  <2>21. CASE Restore
    BY <2>1, <2>21 DEF Restore, loop, TypeOK, TaskStatus, RunStatus
  <2>22. ASSUME NEW s \in Step, ReconcileSucceeded(s)
         PROVE  TypeOK'
    BY <2>1, <2>10, <2>11, <2>22 DEF ReconcileSucceeded, loop, TypeOK
  <2>23. ASSUME NEW s \in Step, NEW o \in {"Failed", "Cancelled"}, ReconcileStopped(s, o)
         PROVE  TypeOK'
    BY <2>1, <2>10, <2>11, <2>23 DEF ReconcileStopped, loop, TypeOK
  <2>24. ASSUME NEW s \in Step, RetryUncertain(s)
         PROVE  TypeOK'
    <3> DEFINE a == [launch |-> exec[s], status |-> "Uncertain", data |-> data[s]]
    <3>1. a \in Attempt
      BY DEF TypeOK, Attempt, TaskStatus
    <3>2. attempts' \in [Step -> Seq(Attempt)]
      <4>1. Append(attempts[s], a) \in Seq(Attempt)
        BY <3>1 DEF TypeOK
      <4> HIDE DEF a
      <4>2. attempts' = [attempts EXCEPT ![s] = Append(attempts[s], a)]
        BY <2>24 DEF RetryUncertain, a
      <4> QED
        BY <4>1, <4>2 DEF TypeOK
    <3>3. st' \in [Step -> TaskStatus] /\ status' \in RunStatus /\ data' \in [Step -> Value]
      BY <2>24 DEF RetryUncertain, TypeOK, TaskStatus, RunStatus, Value
    <3> QED
      BY <2>1, <2>24, <3>2, <3>3 DEF RetryUncertain, loop, TypeOK
  <2>25. CASE CancelRun
    BY <2>1, <2>25 DEF CancelRun, loop, TypeOK, TaskStatus, RunStatus
  <2>26. ASSUME NEW s \in Step, CancelTask(s)
         PROVE  TypeOK'
    <3>1. st' \in [Step -> TaskStatus]
      BY <2>26 DEF CancelTask, TypeOK, TaskStatus
    <3> QED
      BY <2>1, <2>26, <3>1 DEF CancelTask, loop, TypeOK
  <2>27. ASSUME NEW p \in BOOLEAN, SetPaused(p)
         PROVE  TypeOK'
    <3>1. st' \in [Step -> TaskStatus]
      BY <2>27, AdvanceConditionsEffect DEF SetPaused, TypeOK
    <3> QED
      BY <2>1, <2>27, <3>1 DEF SetPaused, loop, TypeOK
  <2>28. ASSUME NEW s \in Step, NEW approved \in BOOLEAN, Decide(s, approved)
         PROVE  TypeOK'
    <3>1. st' \in [Step -> TaskStatus]
      BY <2>10, <2>11, <2>28, AdvanceConditionsEffect DEF Decide
    <3> QED
      BY <2>1, <2>28, <3>1 DEF Decide, loop, TypeOK
  <2>29. ASSUME NEW s \in Step, Repeat(s)
         PROVE  TypeOK'
    <3>1. RepeatFrom(s, st, data)
      BY <2>29 DEF Repeat
    <3>2. /\ status' \in RunStatus
          /\ st' \in [Step -> TaskStatus]
          /\ exec' \in [Step -> Launch \cup {NoLaunch}]
          /\ data' \in [Step -> Value]
          /\ attempts' \in [Step -> Seq(Attempt)]
      BY <3>1, RepeatFromType DEF TypeOK
    <3> QED
      BY <2>1, <2>29, <3>2 DEF Repeat, loop, TypeOK
  <2> QED
    BY <1>2, <2>2, <2>3, <2>5, <2>6, <2>7, <2>8, <2>9, <2>12, <2>13, <2>14, <2>16, <2>17,
       <2>18, <2>19, <2>20, <2>21, <2>22, <2>23, <2>24, <2>25, <2>26, <2>27, <2>28, <2>29
       DEF Next, Undisturbed, Disturbance, Automatic, Launching, Spawn, Complete
<1> QED
  BY <1>1, <1>2

\* Every task, result and archived attempt is well formed in every state of
\* every run of every pipeline.
THEOREM TypeCorrect == Spec => []TypeOK
BY TypeInit, TypeNext, PTL DEF Spec

-----------------------------------------------------------------------------
(***************************************************************************)
(* Work rests only on succeeded dependencies.  DependenciesHold is         *)
(* inductive together with TypeOK; Rests states it for given statuses and  *)
(* leases, so that each helper can be shown to keep it.                    *)
(***************************************************************************)
StartedStatus == {"Running", "Uncertain", "AwaitingApproval", "Succeeded"}

Rests(t, l) ==
  \A s \in Step : l[s] # NoLaunch \/ t[s] \in StartedStatus => DependenciesSucceeded(t, s)

\* DependenciesHold in terms of the statuses and leases alone.
LEMMA RestsIsDependenciesHold == DependenciesHold <=> Rests(st, lease)
BY DEF DependenciesHold, Rests, Started, StartedStatus

\* The same after a step.
LEMMA RestsIsDependenciesHoldPrime == DependenciesHold' <=> Rests(st', lease')
BY DEF DependenciesHold, Rests, Started, StartedStatus, DependenciesSucceeded

\* Turning ready tasks into stopped or skipped ones withdraws no result.
LEMMA RestsStopped ==
  ASSUME NEW t, NEW l, NEW u, Rests(t, l),
         \A s \in Step : u[s] = t[s] \/ (t[s] = "Ready" /\ u[s] \in {"Skipped", "Cancelled"})
  PROVE  Rests(u, l)
<1> SUFFICES ASSUME NEW s \in Step, l[s] # NoLaunch \/ u[s] \in StartedStatus, NEW d \in Deps[s]
             PROVE  u[d] = "Succeeded"
  BY DEF Rests, DependenciesSucceeded
<1>1. l[s] # NoLaunch \/ t[s] \in StartedStatus
  BY DEF StartedStatus
<1>2. t[d] = "Succeeded" /\ d \in Step
  BY <1>1, DefinitionType DEF Rests, DependenciesSucceeded
<1> QED
  BY <1>2

\* Skipping unselected steps (advance_conditions) withdraws no result.
LEMMA RestsAdvanced ==
  ASSUME NEW t \in [Step -> TaskStatus], NEW l, NEW dt, Rests(t, l)
  PROVE  Rests(AdvanceConditions(t, l, dt), l)
<1> DEFINE u == AdvanceConditions(t, l, dt)
<1>1. \A s \in Step : u[s] = t[s] \/ (t[s] = "Ready" /\ u[s] \in {"Skipped", "Cancelled"})
  BY AdvanceConditionsEffect
<1> HIDE DEF u
<1> QED
  BY <1>1, RestsStopped DEF u

\* Cancelling ready tasks after a failure withdraws no result.
LEMMA RestsFailFast ==
  ASSUME NEW t \in [Step -> TaskStatus], NEW l, Rests(t, l)
  PROVE  Rests(FailFast(t), l)
<1> DEFINE u == FailFast(t)
<1>1. \A s \in Step : u[s] = t[s] \/ (t[s] = "Ready" /\ u[s] \in {"Skipped", "Cancelled"})
  BY DEF FailFast
<1> HIDE DEF u
<1> QED
  BY <1>1, RestsStopped DEF u

\* A started task that ends, or changes its state of being started, carries
\* no result away that others rest on.
LEMMA RestsSettled ==
  ASSUME NEW t \in [Step -> TaskStatus], NEW l, Rests(t, l), NEW s \in Step, NEW o,
         t[s] # "Succeeded", t[s] \in StartedStatus \/ o \notin StartedStatus
  PROVE  Rests([t EXCEPT ![s] = o], l)
<1> DEFINE u == [t EXCEPT ![s] = o]
<1> SUFFICES ASSUME NEW x \in Step, l[x] # NoLaunch \/ u[x] \in StartedStatus, NEW d \in Deps[x]
             PROVE  u[d] = "Succeeded"
  BY DEF Rests, DependenciesSucceeded
<1>1. l[x] # NoLaunch \/ t[x] \in StartedStatus
  OBVIOUS
<1>2. t[d] = "Succeeded" /\ d \in Step
  BY <1>1, DefinitionType DEF Rests, DependenciesSucceeded
<1> QED
  BY <1>2

\* repeat_from resets everything that rests on the repeated step.
LEMMA RestsRepeated ==
  ASSUME NEW t \in [Step -> TaskStatus], NEW l, Rests(t, l), NEW s \in Step,
         \A x \in Affected[s] : l[x] = NoLaunch
  PROVE  Rests([x \in Step |-> IF x \in Affected[s] THEN "Ready" ELSE t[x]], l)
<1> DEFINE u == [x \in Step |-> IF x \in Affected[s] THEN "Ready" ELSE t[x]]
<1> SUFFICES ASSUME NEW x \in Step, l[x] # NoLaunch \/ u[x] \in StartedStatus, NEW d \in Deps[x]
             PROVE  u[d] = "Succeeded"
  BY DEF Rests, DependenciesSucceeded
<1>1. x \notin Affected[s] /\ (l[x] # NoLaunch \/ t[x] \in StartedStatus)
  BY DEF StartedStatus
<1>2. t[d] = "Succeeded" /\ d \in Step
  BY <1>1, DefinitionType DEF Rests, DependenciesSucceeded
<1>3. d \notin Affected[s]
  BY <1>1, AffectedClosed
<1> QED
  BY <1>2, <1>3

\* Giving leases back keeps what the others rest on.
LEMMA RestsReleased ==
  ASSUME NEW t, NEW l, Rests(t, l), NEW k, \A x \in Step : k[x] = l[x] \/ k[x] = NoLaunch
  PROVE  Rests(t, k)
BY DEF Rests

\* A lease is taken only when the dependencies succeeded.
LEMMA RestsLeased ==
  ASSUME TypeOK, Rests(st, lease), NEW s \in Step, DependenciesSucceeded(st, s), TakeLease(s)
  PROVE  Rests(st, lease')
BY DEF Rests, TakeLease, TypeOK

\* The inductive invariant of the dependency argument.
DependencyInv == TypeOK /\ DependenciesHold /\ PinnedPassSound

\* A new run has started nothing and has no pass open.
LEMMA DependencyInit == Init => DependencyInv
<1> SUFFICES ASSUME Init
             PROVE  DependenciesHold /\ PinnedPassSound
  BY TypeInit DEF DependencyInv
<1> QED
  BY DEF Init, DependenciesHold, Started, PinnedPassSound

\* Every operation keeps what started tasks rest on, and the open pass sound.
LEMMA DependencyNext == DependencyInv /\ [Next]_vars => DependencyInv'
<1> SUFFICES ASSUME TypeOK, DependenciesHold, PinnedPassSound, [Next]_vars
             PROVE  DependenciesHold' /\ PinnedPassSound'
  BY TypeNext DEF DependencyInv
<1>1. TypeOK'
  BY TypeNext
<1>2. Rests(st, lease) /\ st \in [Step -> TaskStatus] /\ lease \in [Step -> Launch \cup {NoLaunch}]
  BY RestsIsDependenciesHold DEF TypeOK
<1>3. ASSUME Rests(st', lease'), pending' = {}
      PROVE  DependenciesHold' /\ PinnedPassSound'
  BY <1>3, RestsIsDependenciesHoldPrime DEF PinnedPassSound
<1>4. ~advancing => pending = {}
  BY DEF PinnedPassSound
<1>5. CASE UNCHANGED vars
  BY <1>5 DEF vars, DependenciesHold, PinnedPassSound, Started, DependenciesSucceeded
<1>6. CASE AdvanceProgramRouters
  <2> DEFINE dn == [s \in Step |-> IF s \in RoutersReady THEN Selection(s) ELSE data[s]]
             tn == [s \in Step |-> IF s \notin RoutersReady THEN st[s]
                             ELSE IF dn[s] = NoData THEN "Failed" ELSE "Succeeded"]
  <2>1. tn \in [Step -> TaskStatus]
    BY <1>2 DEF TaskStatus
  <2>2. Rests(tn, lease)
    <3> SUFFICES ASSUME NEW s \in Step, lease[s] # NoLaunch \/ tn[s] \in StartedStatus,
                        NEW d \in Deps[s]
                 PROVE  tn[d] = "Succeeded"
      BY DEF Rests, DependenciesSucceeded
    <3>1. st[d] = "Succeeded" /\ d \in Step
      BY <1>2, DefinitionType DEF Rests, DependenciesSucceeded, RoutersReady
    <3>2. d \notin RoutersReady
      BY <3>1 DEF RoutersReady
    <3> QED
      BY <3>1, <3>2
  <2>3. st' = AdvanceConditions(tn, lease, dn) /\ lease' = lease /\ pending' = {}
    BY <1>6 DEF AdvanceProgramRouters
  <2> HIDE DEF tn, dn
  <2> QED
    BY <1>3, <2>1, <2>2, <2>3, RestsAdvanced
<1>7. ASSUME NEW s \in DOMAIN Pin, AdmitPinned(s)
      PROVE  DependenciesHold' /\ PinnedPassSound'
  <2> DEFINE batch == IF pending # {} THEN pending ELSE PinnedReady
             dn == [data EXCEPT ![s] = Pin[s]]
             tn == [st EXCEPT ![s] = IF s \in Approval THEN "AwaitingApproval" ELSE "Succeeded"]
             tf == [st EXCEPT ![s] = "Failed"]
  <2>1. \A x \in batch : /\ x \in Step /\ st[x] = "Ready" /\ lease[x] = NoLaunch
                         /\ DependenciesSucceeded(st, x)
    BY DEF PinnedPassSound, PinnedReady, ReadyTasks, TypeOK
  <2>2. s \in batch /\ lease' = lease
    BY <1>7 DEF AdmitPinned, First
  <2>3. /\ pending' = {x \in batch \ {s} : st'[x] = "Ready"}
        /\ advancing' = AutomaticWork'
        /\ \/ st' = FailFast(tf)
           \/ st' = AdvanceConditions(tn, lease, dn)
    BY <1>7 DEF AdmitPinned
  <2> HIDE DEF batch, dn
  <2>4. tn \in [Step -> TaskStatus] /\ tf \in [Step -> TaskStatus]
    BY <1>2 DEF TaskStatus
  <2>5. \A x \in Step : /\ x # s => tn[x] = st[x] /\ tf[x] = st[x]
                        /\ tn[s] # "Ready" /\ tf[s] = "Failed"
    BY <1>2, <2>1, <2>2
  <2>6. Rests(tf, lease)
    BY <1>2, <2>1, <2>2, RestsSettled DEF StartedStatus
  <2>7. Rests(tn, lease)
    <3> SUFFICES ASSUME NEW x \in Step, lease[x] # NoLaunch \/ tn[x] \in StartedStatus,
                        NEW d \in Deps[x]
                 PROVE  tn[d] = "Succeeded"
      BY DEF Rests, DependenciesSucceeded
    <3>1. st[d] = "Succeeded" /\ d \in Step
      BY <1>2, <2>1, <2>2, <2>5, DefinitionType DEF Rests, DependenciesSucceeded
    <3>2. d # s
      BY <2>1, <2>2, <3>1
    <3> QED
      BY <2>5, <3>1, <3>2
  <2> HIDE DEF tn, tf
  <2>8. Rests(st', lease')
    BY <2>2, <2>3, <2>4, <2>6, <2>7, RestsAdvanced, RestsFailFast
  <2>9. \A x \in Step : st[x] = "Succeeded" => st'[x] = "Succeeded"
    <3>1. \A x \in Step : st[x] = "Succeeded" => tn[x] = "Succeeded" /\ tf[x] = "Succeeded"
      BY <2>1, <2>2, <2>5
    <3>2. \A x \in Step : tf[x] = "Succeeded" => FailFast(tf)[x] = "Succeeded"
      BY DEF FailFast
    <3>3. \A x \in Step : tn[x] = "Succeeded" => AdvanceConditions(tn, lease, dn)[x] = "Succeeded"
      BY <2>4, AdvanceConditionsEffect
    <3> QED
      BY <2>3, <3>1, <3>2, <3>3
  <2>10. \A x \in pending' : /\ x \in batch /\ st'[x] = "Ready" /\ lease'[x] = NoLaunch
                             /\ DependenciesSucceeded(st', x)
    BY <2>1, <2>2, <2>3, <2>9, DefinitionType DEF DependenciesSucceeded
  <2>11. pending' # {} => advancing'
    BY <2>3 DEF AutomaticWork
  <2>12. PinnedPassSound'
    BY <2>10, <2>11 DEF PinnedPassSound, DependenciesSucceeded
  <2> QED
    BY <2>8, <2>12, RestsIsDependenciesHoldPrime
<1>8. ASSUME NEW s \in Step, LeaseNext(s)
      PROVE  DependenciesHold' /\ PinnedPassSound'
  <2>1. DependenciesSucceeded(st, s) /\ TakeLease(s) /\ st' = st /\ pending' = {}
    BY <1>4, <1>8 DEF LeaseNext, First, ReadyTasks, loop
  <2> QED
    BY <1>2, <1>3, <2>1, RestsLeased
<1>9. ASSUME NEW s \in Step, NEW a \in Step, LeaseControlledSpawn(a, s)
      PROVE  DependenciesHold' /\ PinnedPassSound'
  <2>1. DependenciesSucceeded(st, s) /\ TakeLease(s) /\ st' = st /\ pending' = {}
    BY <1>4, <1>9 DEF LeaseControlledSpawn, loop
  <2> QED
    BY <1>2, <1>3, <2>1, RestsLeased
<1>10. ASSUME NEW s \in Step, NEW a \in Step, AddSpawnedAgent(a, s)
       PROVE  DependenciesHold' /\ PinnedPassSound'
  <2>1. /\ st[s] = "Absent" /\ st' = [st EXCEPT ![s] = "Ready"]
        /\ TakeLease(s) /\ s \in Extra /\ pending' = {}
    BY <1>4, <1>10 DEF AddSpawnedAgent, loop
  <2>2. Deps[s] = {}
    BY <2>1, DefinitionValid DEF ValidPipeline
  <2>3. Rests(st, lease')
    BY <1>2, <2>1, <2>2, RestsLeased DEF DependenciesSucceeded
  <2>4. Rests(st', lease')
    BY <1>2, <2>1, <2>3, RestsSettled DEF StartedStatus
  <2> QED
    BY <1>3, <2>1, <2>4
<1>11. ASSUME NEW s \in Step, st[s] # "Succeeded", lease[s] # NoLaunch
       PROVE  \A o \in TaskStatus : Rests([st EXCEPT ![s] = o], lease)
  <2> SUFFICES ASSUME NEW o \in TaskStatus, NEW x \in Step,
                      lease[x] # NoLaunch \/ [st EXCEPT ![s] = o][x] \in StartedStatus,
                      NEW d \in Deps[x]
               PROVE  [st EXCEPT ![s] = o][d] = "Succeeded"
    BY DEF Rests, DependenciesSucceeded
  <2>1. lease[x] # NoLaunch \/ st[x] \in StartedStatus
    BY <1>2, <1>11
  <2>2. st[d] = "Succeeded" /\ d \in Step
    BY <1>2, <2>1, DefinitionType DEF Rests, DependenciesSucceeded
  <2> QED
    BY <1>2, <1>11, <2>2
<1>12. ASSUME NEW s \in Step, DispatchLeased(s)
       PROVE  DependenciesHold' /\ PinnedPassSound'
  <2>1. /\ st[s] = "Ready" /\ lease[s] # NoLaunch /\ st' = [st EXCEPT ![s] = "Running"]
        /\ lease' = [lease EXCEPT ![s] = NoLaunch] /\ pending' = {}
    BY <1>4, <1>12 DEF DispatchLeased, Leased, loop
  <2>2. Rests(st', lease)
    BY <1>11, <2>1 DEF TaskStatus
  <2> QED
    BY <1>2, <1>3, <2>1, <2>2, RestsReleased
<1>13. ASSUME NEW s \in Step, ReleaseLease(s)
       PROVE  DependenciesHold' /\ PinnedPassSound'
  <2>1. st' = st /\ lease' = [lease EXCEPT ![s] = NoLaunch] /\ pending' = {}
    BY <1>4, <1>13 DEF ReleaseLease, loop
  <2> QED
    BY <1>2, <1>3, <2>1, RestsReleased
<1>14. ASSUME NEW s \in Step, RejectReadyTask(s)
       PROVE  DependenciesHold' /\ PinnedPassSound'
  <2>1. /\ st[s] = "Ready" /\ st' = FailFast([st EXCEPT ![s] = "Failed"])
        /\ lease' = lease /\ pending' = {}
    BY <1>4, <1>14 DEF RejectReadyTask, First, ReadyTasks, loop
  <2>2. [st EXCEPT ![s] = "Failed"] \in [Step -> TaskStatus]
    BY <1>2 DEF TaskStatus
  <2>3. Rests([st EXCEPT ![s] = "Failed"], lease)
    BY <1>2, <2>1, RestsSettled DEF StartedStatus
  <2> QED
    BY <1>3, <2>1, <2>2, <2>3, RestsFailFast
<1>15. ASSUME NEW s \in Step, RejectLeased(s)
       PROVE  DependenciesHold' /\ PinnedPassSound'
  <2>1. /\ st[s] = "Ready" /\ st' = FailFast([st EXCEPT ![s] = "Failed"])
        /\ lease' = [lease EXCEPT ![s] = NoLaunch] /\ pending' = {}
    BY <1>4, <1>15 DEF RejectLeased, Leased, loop
  <2>2. [st EXCEPT ![s] = "Failed"] \in [Step -> TaskStatus]
    BY <1>2 DEF TaskStatus
  <2>3. Rests([st EXCEPT ![s] = "Failed"], lease)
    BY <1>2, <2>1, RestsSettled DEF StartedStatus
  <2>4. Rests(st', lease)
    BY <2>1, <2>2, <2>3, RestsFailFast
  <2> QED
    BY <1>2, <1>3, <2>1, <2>4, RestsReleased
<1>16. ASSUME NEW s \in Step, CompleteFailed(s)
       PROVE  DependenciesHold' /\ PinnedPassSound'
  <2> DEFINE tf == [st EXCEPT ![s] = "Failed"]
  <2>1. /\ st[s] = "Running" /\ st' = AdvanceConditions(FailFast(tf), lease, data')
        /\ lease' = lease /\ pending' = {}
    BY <1>4, <1>16 DEF CompleteFailed, loop
  <2>2. tf \in [Step -> TaskStatus]
    BY <1>2 DEF TaskStatus
  <2>3. Rests(tf, lease)
    BY <1>2, <2>1, RestsSettled DEF StartedStatus
  <2> HIDE DEF tf
  <2>4. FailFast(tf) \in [Step -> TaskStatus] /\ Rests(FailFast(tf), lease)
    BY <2>2, <2>3, RestsFailFast, FailFastType
  <2> QED
    BY <1>3, <2>1, <2>4, RestsAdvanced
<1>17. ASSUME NEW s \in Step, NEW o \in TaskStatus, NEW dt,
              st[s] \in StartedStatus \ {"Succeeded"},
              st' = AdvanceConditions([st EXCEPT ![s] = o], lease, dt),
              lease' = lease, pending' = {}
       PROVE  DependenciesHold' /\ PinnedPassSound'
  <2> DEFINE tn == [st EXCEPT ![s] = o]
  <2>1. tn \in [Step -> TaskStatus]
    BY <1>2
  <2>2. Rests(tn, lease)
    BY <1>2, <1>17, RestsSettled
  <2> HIDE DEF tn
  <2> QED
    BY <1>3, <1>17, <2>1, <2>2, RestsAdvanced DEF tn
<1>18. ASSUME NEW s \in Step, NEW d \in Value, CompleteAccepted(s, d)
       PROVE  DependenciesHold' /\ PinnedPassSound'
  <2>1. /\ st[s] = "Running" /\ lease' = lease /\ pending' = {}
        /\ \E o \in {"AwaitingApproval", "Succeeded"} :
             st' = AdvanceConditions([st EXCEPT ![s] = o], lease, data')
    BY <1>4, <1>18 DEF CompleteAccepted, loop
  <2> QED
    BY <1>17, <2>1 DEF StartedStatus, TaskStatus
<1>19. ASSUME NEW s \in Step, NEW d \in Value, CompleteHeld(s, d)
       PROVE  DependenciesHold' /\ PinnedPassSound'
  <2>1. /\ st[s] = "Running" /\ lease' = lease /\ pending' = {}
        /\ st' = AdvanceConditions([st EXCEPT ![s] = "AwaitingApproval"], lease, data')
    BY <1>4, <1>19 DEF CompleteHeld, loop
  <2> QED
    BY <1>17, <2>1 DEF StartedStatus, TaskStatus
<1>20. ASSUME NEW s \in Step, NEW d \in Value, CompleteConflict(s, d)
       PROVE  DependenciesHold' /\ PinnedPassSound'
  <2>1. /\ st[s] = "Running" /\ lease' = lease /\ pending' = {}
        /\ st' = AdvanceConditions([st EXCEPT ![s] = "Failed"], lease, data')
    BY <1>4, <1>20 DEF CompleteConflict, loop
  <2> QED
    BY <1>17, <2>1 DEF StartedStatus, TaskStatus
<1>21. ASSUME NEW s \in Step, NEW t \in [Step -> TaskStatus], NEW dt, Rests(t, lease),
              RepeatAllowed(s, t), RepeatFrom(s, t, dt), lease' = lease, pending' = {}
       PROVE  DependenciesHold' /\ PinnedPassSound'
  <2> DEFINE dn == [x \in Step |-> IF x \in Affected[s] THEN NoData ELSE dt[x]]
             tn == [x \in Step |-> IF x \in Affected[s] THEN "Ready" ELSE t[x]]
  <2>1. tn \in [Step -> TaskStatus]
    BY DEF TaskStatus
  <2>2. Rests(tn, lease)
    BY <1>21, RestsRepeated DEF RepeatAllowed
  <2>3. st' = AdvanceConditions(tn, lease, dn)
    BY <1>21 DEF RepeatFrom
  <2> HIDE DEF tn, dn
  <2> QED
    BY <1>3, <1>21, <2>1, <2>2, <2>3, RestsAdvanced
<1>22. ASSUME NEW s \in Step, NEW d \in Value, CompleteRepeat(s, d)
       PROVE  DependenciesHold' /\ PinnedPassSound'
  <2> DEFINE tn == [st EXCEPT ![s] = "Succeeded"]
  <2>1. /\ st[s] = "Running" /\ lease' = lease /\ pending' = {} /\ Review[s].from \in Step
        /\ RepeatAllowed(Review[s].from, tn)
        /\ RepeatFrom(Review[s].from, tn, [data EXCEPT ![s] = d])
    BY <1>4, <1>22, DefinitionType DEF CompleteRepeat, RejectedBy, loop
  <2>2. tn \in [Step -> TaskStatus]
    BY <1>2 DEF TaskStatus
  <2>3. Rests(tn, lease)
    BY <1>2, <2>1, RestsSettled DEF StartedStatus
  <2> HIDE DEF tn
  <2> QED
    BY <1>21, <2>1, <2>2, <2>3
<1>23. ASSUME NEW s \in Step, Repeat(s)
       PROVE  DependenciesHold' /\ PinnedPassSound'
  BY <1>2, <1>4, <1>21, <1>23 DEF Repeat, loop
<1>24. ASSUME NEW s \in Step, MarkTaskUncertain(s)
       PROVE  DependenciesHold' /\ PinnedPassSound'
  <2>1. /\ st[s] = "Running" \/ (st[s] = "Ready" /\ lease[s] # NoLaunch)
        /\ st' = [st EXCEPT ![s] = "Uncertain"]
        /\ lease' = [lease EXCEPT ![s] = NoLaunch] /\ pending' = {}
    BY <1>4, <1>24 DEF MarkTaskUncertain, Leased, loop
  <2>2. Rests(st', lease)
    <3>1. CASE st[s] = "Running"
      BY <1>2, <2>1, <3>1, RestsSettled DEF StartedStatus
    <3>2. CASE st[s] = "Ready" /\ lease[s] # NoLaunch
      BY <1>11, <2>1, <3>2 DEF TaskStatus
    <3> QED
      BY <2>1, <3>1, <3>2
  <2> QED
    BY <1>2, <1>3, <2>1, <2>2, RestsReleased
<1>25. CASE Restore
  <2>1. /\ st' = [s \in Step |-> IF s \in Interrupted THEN "Uncertain" ELSE st[s]]
        /\ lease' = [s \in Step |-> IF s \in Interrupted THEN NoLaunch ELSE lease[s]]
        /\ pending' = {}
    BY <1>4, <1>25 DEF Restore, loop
  <2>2. \A s \in Interrupted : /\ st[s] # "Succeeded"
                               /\ lease[s] # NoLaunch \/ st[s] \in StartedStatus
    BY DEF Interrupted, Leased, StartedStatus
  <2>3. Rests(st', lease)
    <3> SUFFICES ASSUME NEW x \in Step, lease[x] # NoLaunch \/ st'[x] \in StartedStatus,
                        NEW d \in Deps[x]
                 PROVE  st'[d] = "Succeeded"
      BY DEF Rests, DependenciesSucceeded
    <3>1. lease[x] # NoLaunch \/ st[x] \in StartedStatus
      BY <2>1, <2>2
    <3>2. st[d] = "Succeeded" /\ d \in Step
      BY <1>2, <3>1, DefinitionType DEF Rests, DependenciesSucceeded
    <3> QED
      BY <2>1, <2>2, <3>2
  <2> QED
    BY <1>3, <2>1, <2>3, RestsReleased
<1>26. ASSUME NEW s \in Step, ReconcileSucceeded(s)
       PROVE  DependenciesHold' /\ PinnedPassSound'
  <2>1. /\ st[s] = "Uncertain" /\ st' = [st EXCEPT ![s] = "Succeeded"]
        /\ lease' = lease /\ pending' = {}
    BY <1>4, <1>26 DEF ReconcileSucceeded, loop
  <2> QED
    BY <1>2, <1>3, <2>1, RestsSettled DEF StartedStatus
<1>27. ASSUME NEW s \in Step, NEW o \in {"Failed", "Cancelled"}, ReconcileStopped(s, o)
       PROVE  DependenciesHold' /\ PinnedPassSound'
  <2>1. /\ st[s] = "Uncertain" /\ st' = FailFast([st EXCEPT ![s] = o])
        /\ lease' = lease /\ pending' = {}
    BY <1>4, <1>27 DEF ReconcileStopped, loop
  <2>2. [st EXCEPT ![s] = o] \in [Step -> TaskStatus]
    BY <1>2 DEF TaskStatus
  <2>3. Rests([st EXCEPT ![s] = o], lease)
    BY <1>2, <2>1, RestsSettled DEF StartedStatus
  <2> QED
    BY <1>3, <2>1, <2>2, <2>3, RestsFailFast
<1>28. ASSUME NEW s \in Step, RetryUncertain(s)
       PROVE  DependenciesHold' /\ PinnedPassSound'
  <2>1. /\ st[s] = "Uncertain" /\ st' = [st EXCEPT ![s] = "Ready"]
        /\ lease' = [lease EXCEPT ![s] = NoLaunch] /\ pending' = {}
    BY <1>4, <1>28 DEF RetryUncertain, loop
  <2>2. Rests(st', lease)
    BY <1>2, <2>1, RestsSettled DEF StartedStatus
  <2> QED
    BY <1>2, <1>3, <2>1, <2>2, RestsReleased
<1>29. CASE CancelRun
  <2> DEFINE stopped == {s \in Step : st[s] \in {"Running", "Ready", "AwaitingApproval"}}
  <2>1. /\ st' = [s \in Step |-> IF s \in stopped THEN "Cancelled" ELSE st[s]]
        /\ lease' = [s \in Step |-> IF s \in stopped THEN NoLaunch ELSE lease[s]]
        /\ pending' = {}
    BY <1>4, <1>29 DEF CancelRun, loop
  <2>2. Rests(st', lease')
    <3> SUFFICES ASSUME NEW x \in Step, lease'[x] # NoLaunch \/ st'[x] \in StartedStatus,
                        NEW d \in Deps[x]
                 PROVE  st'[d] = "Succeeded"
      BY DEF Rests, DependenciesSucceeded
    <3>1. lease[x] # NoLaunch \/ st[x] \in StartedStatus
      BY <2>1 DEF StartedStatus
    <3>2. st[d] = "Succeeded" /\ d \in Step
      BY <1>2, <3>1, DefinitionType DEF Rests, DependenciesSucceeded
    <3> QED
      BY <2>1, <3>2
  <2> QED
    BY <1>3, <2>1, <2>2
<1>30. ASSUME NEW s \in Step, CancelTask(s)
       PROVE  DependenciesHold' /\ PinnedPassSound'
  <2> DEFINE tn      == [st EXCEPT ![s] = "Cancelled"]
             ready   == {x \in Step : tn[x] = "Ready"}
             first   == {x \in ready : \E d \in Deps[x] : tn[d] = "Cancelled"}
             blocked == Downstream(first, ready)
  <2>1. /\ st[s] \in {"Ready", "Running", "AwaitingApproval"}
        /\ st' = [x \in Step |-> IF x \in blocked THEN "Cancelled" ELSE tn[x]]
        /\ lease' = [lease EXCEPT ![s] = NoLaunch] /\ pending' = {}
    BY <1>4, <1>30 DEF CancelTask, loop
  <2>2. Rests(tn, lease)
    BY <1>2, <2>1, RestsSettled DEF StartedStatus
  <2>3. blocked \subseteq ready
    <3>1. first \in SUBSET Step /\ ready \in SUBSET Step /\ first \subseteq ready
      OBVIOUS
    <3> HIDE DEF first, ready
    <3> QED
      BY <3>1, DownstreamWithin
  <2>4. \A x \in Step : st'[x] = tn[x] \/ (tn[x] = "Ready" /\ st'[x] \in {"Skipped", "Cancelled"})
    <3> HIDE DEF blocked
    <3> QED
      BY <2>1, <2>3
  <2> HIDE DEF tn
  <2>5. Rests(st', lease)
    BY <2>2, <2>4, RestsStopped
  <2> QED
    BY <1>2, <1>3, <2>1, <2>5, RestsReleased
<1>31. ASSUME NEW p \in BOOLEAN, SetPaused(p)
       PROVE  DependenciesHold' /\ PinnedPassSound'
  <2>1. st' = AdvanceConditions(st, lease, data) /\ lease' = lease /\ pending' = {}
    BY <1>4, <1>31 DEF SetPaused, loop
  <2> QED
    BY <1>2, <1>3, <2>1, RestsAdvanced
<1>32. ASSUME NEW s \in Step, NEW approved \in BOOLEAN, Decide(s, approved)
       PROVE  DependenciesHold' /\ PinnedPassSound'
  <2>1. /\ st[s] = "AwaitingApproval" /\ lease' = lease /\ pending' = {}
        /\ \E o \in {"Succeeded", "Failed"} :
             st' = AdvanceConditions([st EXCEPT ![s] = o], lease, data)
    BY <1>4, <1>32 DEF Decide, loop
  <2> QED
    BY <1>17, <2>1 DEF StartedStatus, TaskStatus
<1> QED
  BY <1>5, <1>6, <1>7, <1>8, <1>9, <1>10, <1>12, <1>13, <1>14, <1>15, <1>16, <1>18, <1>19,
     <1>20, <1>22, <1>23, <1>24, <1>25, <1>26, <1>27, <1>28, <1>29, <1>30, <1>31, <1>32
     DEF Next, Undisturbed, Disturbance, Automatic, Launching, Spawn, Complete

\* In every run of every valid pipeline, a step is leased, running, uncertain,
\* waiting for approval or succeeded only while all its dependencies are
\* succeeded, whatever is repeated, reviewed, retried, cancelled or restored.
THEOREM DependenciesAlwaysHold == Spec => []DependenciesHold
<1>1. DependencyInv => DependenciesHold
  BY DEF DependencyInv
<1> QED
  BY <1>1, DependencyInit, DependencyNext, PTL DEF Spec

\* A pass over the pinned steps admits only steps that are still ready with
\* succeeded dependencies.
THEOREM PinnedPassAlwaysSound == Spec => []PinnedPassSound
<1>1. DependencyInv => PinnedPassSound
  BY DEF DependencyInv
<1> QED
  BY <1>1, DependencyInit, DependencyNext, PTL DEF Spec

=============================================================================
