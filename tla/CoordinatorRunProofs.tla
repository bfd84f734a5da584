------------------------ MODULE CoordinatorRunProofs ------------------------
(***************************************************************************)
(* Theorems about whole runs of the Coordinator, for every valid pipeline  *)
(* and every bound: launch identities, the history, automatic reviews, the *)
(* frozen inputs of running work and the branches routers choose.          *)
(***************************************************************************)
EXTENDS CoordinatorProofs

(***************************************************************************)
(* What one step of the run does to the launch, the execution and the      *)
(* history of a task: it keeps them, hands out a new launch identity,      *)
(* turns the lease into an execution, or archives the execution.           *)
(***************************************************************************)
Ended == {"AwaitingApproval", "Succeeded", "Failed", "Cancelled"}

Keeps(x) ==
  /\ exec'[x] = exec[x] /\ attempts'[x] = attempts[x] /\ issued'[x] = issued[x]
  /\ lease'[x] \in {lease[x], NoLaunch}
  /\ \/ st'[x] = st[x]
     \/ st'[x] \in Ended
     \/ st'[x] = "Skipped" /\ st[x] = "Ready"
     \/ st'[x] = "Uncertain" /\ (st[x] = "Running" \/ lease[x] # NoLaunch)

GetsLease(x) ==
  /\ exec'[x] = exec[x] /\ attempts'[x] = attempts[x]
  /\ issued'[x] = issued[x] + 1 /\ lease'[x] = issued[x] + 1
  /\ st[x] \in {"Ready", "Absent"} /\ st'[x] = "Ready" /\ x \notin DOMAIN Pin
  /\ x \in DOMAIN Route => \E a \in Step : <<a, x>> \in MaySpawn

Dispatches(x) ==
  /\ attempts'[x] = attempts[x] /\ issued'[x] = issued[x]
  /\ st[x] = "Ready" /\ lease[x] # NoLaunch
  /\ st'[x] = "Running" /\ exec'[x] = lease[x] /\ lease'[x] = NoLaunch

Archives(x) ==
  /\ issued'[x] = issued[x] /\ lease'[x] = NoLaunch /\ exec'[x] = NoLaunch
  /\ st'[x] \in {"Ready", "Skipped"}
  /\ \/ exec[x] = NoLaunch /\ attempts'[x] = attempts[x]
     \/ /\ exec[x] # NoLaunch \/ st[x] = "Uncertain"
        /\ \E a \in Attempt : a.launch = exec[x] /\ attempts'[x] = Append(attempts[x], a)

RecordStep(x) == Keeps(x) \/ GetsLease(x) \/ Dispatches(x) \/ Archives(x)

\* Statuses that settle or end keep the launch and the history of every task.
LEMMA KeepsSettled ==
  ASSUME TypeOK, UNCHANGED <<exec, attempts, issued>>,
         \A x \in Step : lease'[x] \in {lease[x], NoLaunch},
         NEW t, \A x \in Step : t[x] = st[x] \/ t[x] \in Ended,
         \A x \in Step : st'[x] = t[x] \/ (t[x] = "Ready" /\ st'[x] = "Skipped")
  PROVE  \A x \in Step : RecordStep(x)
BY DEF RecordStep, Keeps, Ended

\* So does skipping what is not selected.
LEMMA KeepsAdvanced ==
  ASSUME TypeOK, UNCHANGED <<exec, attempts, issued>>,
         \A x \in Step : lease'[x] \in {lease[x], NoLaunch},
         NEW t \in [Step -> TaskStatus], \A x \in Step : t[x] = st[x] \/ t[x] \in Ended,
         NEW l, NEW dt, st' = AdvanceConditions(t, l, dt)
  PROVE  \A x \in Step : RecordStep(x)
<1>1. \A x \in Step : st'[x] = t[x] \/ (t[x] = "Ready" /\ st'[x] = "Skipped")
  BY AdvanceConditionsEffect
<1> QED
  BY <1>1, KeepsSettled

\* repeat_from archives what it affects.
LEMMA RepeatArchives ==
  ASSUME TypeOK, NEW s \in Step, NEW t \in [Step -> TaskStatus], NEW dt \in [Step -> Value],
         \A x \in Step : t[x] = st[x] \/ t[x] \in Ended,
         RepeatAllowed(s, t), RepeatFrom(s, t, dt), UNCHANGED <<lease, issued>>
  PROVE  \A x \in Step : RecordStep(x)
<1> DEFINE dn == [x \in Step |-> IF x \in Affected[s] THEN NoData ELSE dt[x]]
           tn == [x \in Step |-> IF x \in Affected[s] THEN "Ready" ELSE t[x]]
<1>1. tn \in [Step -> TaskStatus]
  BY DEF TaskStatus
<1>2. /\ st' = AdvanceConditions(tn, lease, dn)
      /\ attempts' = Archived(Affected[s], t, dt)
      /\ exec' = [x \in Step |-> IF x \in Affected[s] THEN NoLaunch ELSE exec[x]]
  BY DEF RepeatFrom
<1>3. \A x \in Step : st'[x] = tn[x] \/ (tn[x] = "Ready" /\ st'[x] = "Skipped")
  <2> HIDE DEF tn, dn
  <2> DEFINE u == AdvanceConditions(tn, lease, dn)
  <2>1. \A x \in Step : u[x] = tn[x] \/ (tn[x] = "Ready" /\ u[x] = "Skipped")
    BY <1>1, AdvanceConditionsEffect
  <2>2. st' = u
    BY <1>2
  <2> HIDE DEF u
  <2> QED
    BY <2>1, <2>2
<1>4. ASSUME NEW x \in Step, x \notin Affected[s] PROVE Keeps(x)
  BY <1>2, <1>3, <1>4 DEF Keeps, Archived, Ended
<1>5. ASSUME NEW x \in Step, x \in Affected[s] PROVE Archives(x)
  <2> DEFINE a == [launch |-> exec[x], status |-> t[x], data |-> dt[x]]
  <2>1. a \in Attempt /\ a.launch = exec[x]
    BY DEF TypeOK, Attempt
  <2>2. lease[x] = NoLaunch
    BY <1>5 DEF RepeatAllowed
  <2>3. attempts'[x] = IF exec[x] # NoLaunch THEN Append(attempts[x], a) ELSE attempts[x]
    BY <1>2, <1>5 DEF Archived
  <2>4. exec'[x] = NoLaunch /\ st'[x] \in {"Ready", "Skipped"}
    BY <1>2, <1>3, <1>5
  <2> HIDE DEF a
  <2> QED
    BY <2>1, <2>2, <2>3, <2>4 DEF Archives
<1> QED
  BY <1>4, <1>5 DEF RecordStep

\* Every operation is such a step for every task.
LEMMA RecordSteps == TypeOK /\ [Next]_vars => \A x \in Step : RecordStep(x)
<1> SUFFICES ASSUME TypeOK, [Next]_vars PROVE \A x \in Step : RecordStep(x)
  OBVIOUS
<1> DEFINE All == \A x \in Step : RecordStep(x)
<1>a. /\ st \in [Step -> TaskStatus] /\ data \in [Step -> Value]
      /\ lease \in [Step -> Launch \cup {NoLaunch}] /\ exec \in [Step -> Launch \cup {NoLaunch}]
      /\ issued \in [Step -> 0..MaxLaunch] /\ attempts \in [Step -> Seq(Attempt)]
  BY DEF TypeOK
<1>b. ASSUME NEW s \in Step, NEW o \in Ended
      PROVE  /\ [st EXCEPT ![s] = o] \in [Step -> TaskStatus]
             /\ \A x \in Step : [st EXCEPT ![s] = o][x] = st[x] \/ [st EXCEPT ![s] = o][x] \in Ended
             /\ FailFast([st EXCEPT ![s] = o]) \in [Step -> TaskStatus]
             /\ \A x \in Step : \/ FailFast([st EXCEPT ![s] = o])[x] = st[x]
                               \/ FailFast([st EXCEPT ![s] = o])[x] \in Ended
  BY <1>a, <1>b DEF Ended, TaskStatus, FailFast
<1>c. "Failed" \in Ended /\ "Succeeded" \in Ended /\ "AwaitingApproval" \in Ended /\ "Cancelled" \in Ended
  BY DEF Ended
<1>d. UNCHANGED lease => \A x \in Step : lease'[x] \in {lease[x], NoLaunch}
  OBVIOUS
<1>1. CASE UNCHANGED vars
  BY <1>1 DEF vars, RecordStep, Keeps
<1>2. CASE AdvanceProgramRouters
  <2> DEFINE dn == [s \in Step |-> IF s \in RoutersReady THEN Selection(s) ELSE data[s]]
             tn == [s \in Step |-> IF s \notin RoutersReady THEN st[s]
                             ELSE IF dn[s] = NoData THEN "Failed" ELSE "Succeeded"]
  <2>1. tn \in [Step -> TaskStatus] /\ \A x \in Step : tn[x] = st[x] \/ tn[x] \in Ended
    BY <1>a DEF TaskStatus, Ended
  <2>2. st' = AdvanceConditions(tn, lease, dn) /\ UNCHANGED <<lease, exec, attempts, issued>>
    BY <1>2 DEF AdvanceProgramRouters
  <2> HIDE DEF tn, dn
  <2> QED
    BY <2>1, <2>2, <1>d, KeepsAdvanced
<1>3. ASSUME NEW s \in DOMAIN Pin, AdmitPinned(s) PROVE All
  <2>0. s \in Step
    BY DefinitionType
  <2>1. UNCHANGED <<lease, exec, attempts, issued>>
    BY <1>3 DEF AdmitPinned
  <2>2. CASE st' = FailFast([st EXCEPT ![s] = "Failed"])
    BY <2>0, <2>1, <2>2, <1>b, <1>c, <1>d, KeepsSettled
  <2>3. ASSUME NEW o \in Ended, NEW dn, st' = AdvanceConditions([st EXCEPT ![s] = o], lease, dn) PROVE All
    BY <2>0, <2>1, <2>3, <1>b, <1>d, KeepsAdvanced
  <2> QED
    BY <1>3, <1>c, <2>2, <2>3 DEF AdmitPinned
<1>4. ASSUME NEW s \in Step, TakeLease(s), UNCHANGED <<exec, attempts>>, st[s] \in {"Ready", "Absent"},
             s \notin DOMAIN Pin, st' = [st EXCEPT ![s] = "Ready"],
             s \in DOMAIN Route => \E a \in Step : <<a, s>> \in MaySpawn
      PROVE  All
  <2>1. GetsLease(s)
    BY <1>a, <1>4 DEF GetsLease, TakeLease
  <2>2. \A x \in Step : x # s => Keeps(x)
    BY <1>a, <1>4 DEF Keeps, TakeLease
  <2> QED
    BY <2>1, <2>2 DEF RecordStep
<1>5. ASSUME NEW s \in Step, LeaseNext(s) PROVE All
  <2>1. s \in ReadyTasks /\ PinnedReady = {} /\ TakeLease(s) /\ UNCHANGED <<exec, attempts, st>>
    BY <1>5 DEF LeaseNext, First
  <2>2. st[s] = "Ready" /\ s \notin DOMAIN Pin /\ s \notin DOMAIN Route
    BY <2>1 DEF ReadyTasks, PinnedReady
  <2>3. st' = [st EXCEPT ![s] = "Ready"]
    BY <1>a, <2>1, <2>2
  <2> QED
    BY <1>4, <2>1, <2>2, <2>3
<1>6. ASSUME NEW a \in Step, NEW s \in Step, LeaseControlledSpawn(a, s) PROVE All
  <2>1. /\ st[s] = "Ready" /\ s \notin DOMAIN Pin /\ TakeLease(s) /\ UNCHANGED <<exec, attempts, st>>
        /\ <<a, s>> \in MaySpawn
    BY <1>6 DEF LeaseControlledSpawn
  <2>2. st' = [st EXCEPT ![s] = "Ready"]
    BY <1>a, <2>1
  <2> QED
    BY <1>4, <2>1, <2>2
<1>7. ASSUME NEW a \in Step, NEW s \in Step, AddSpawnedAgent(a, s) PROVE All
  <2>1. s \notin DOMAIN Pin
    BY <1>7, DefinitionValid DEF AddSpawnedAgent, ValidPipeline
  <2> QED
    BY <1>4, <1>7, <2>1 DEF AddSpawnedAgent
<1>8. ASSUME NEW s \in Step, DispatchLeased(s) PROVE All
  <2>1. Dispatches(s)
    BY <1>a, <1>8 DEF DispatchLeased, Leased, Dispatches
  <2>2. \A x \in Step : x # s => Keeps(x)
    BY <1>a, <1>8 DEF DispatchLeased, Keeps
  <2> QED
    BY <2>1, <2>2 DEF RecordStep
<1>9. ASSUME NEW s \in Step, ReleaseLease(s) PROVE All
  BY <1>a, <1>9 DEF ReleaseLease, RecordStep, Keeps
<1>10. ASSUME NEW s \in Step, RejectReadyTask(s) PROVE All
  BY <1>10, <1>b, <1>c, <1>d, KeepsSettled DEF RejectReadyTask
<1>11. ASSUME NEW s \in Step, RejectLeased(s) PROVE All
  <2>1. \A x \in Step : lease'[x] \in {lease[x], NoLaunch}
    BY <1>a, <1>11 DEF RejectLeased
  <2> QED
    BY <1>11, <1>b, <1>c, <2>1, KeepsSettled DEF RejectLeased
<1>12. ASSUME NEW s \in Step, CompleteFailed(s) PROVE All
  BY <1>12, <1>b, <1>c, <1>d, KeepsAdvanced DEF CompleteFailed
<1>13. ASSUME NEW s \in Step, NEW o \in Ended, UNCHANGED <<lease, exec, attempts, issued>>, NEW dn,
              st' = AdvanceConditions([st EXCEPT ![s] = o], lease, dn)
       PROVE  All
  BY <1>13, <1>b, <1>d, KeepsAdvanced
<1>14. ASSUME NEW s \in Step, NEW d \in Value,
              CompleteAccepted(s, d) \/ CompleteHeld(s, d) \/ CompleteConflict(s, d)
       PROVE  All
  BY <1>13, <1>14, <1>c DEF CompleteAccepted, CompleteHeld, CompleteConflict
<1>15. ASSUME NEW s \in Step, NEW d \in Value, CompleteRepeat(s, d) PROVE All
  <2>1. Review[s].from \in Step /\ [data EXCEPT ![s] = d] \in [Step -> Value]
    BY <1>a, <1>15, DefinitionType DEF CompleteRepeat, RejectedBy
  <2> DEFINE tn == [st EXCEPT ![s] = "Succeeded"]
             dn == [data EXCEPT ![s] = d]
  <2>2. tn \in [Step -> TaskStatus] /\ \A x \in Step : tn[x] = st[x] \/ tn[x] \in Ended
    BY <1>b, <1>c
  <2>3. /\ RepeatAllowed(Review[s].from, tn) /\ RepeatFrom(Review[s].from, tn, dn)
        /\ UNCHANGED <<lease, issued>>
    BY <1>15 DEF CompleteRepeat
  <2>4. dn \in [Step -> Value]
    BY <2>1
  <2> HIDE DEF tn, dn
  <2> QED
    BY <2>1, <2>2, <2>3, <2>4, RepeatArchives
<1>16. ASSUME NEW s \in Step, MarkTaskUncertain(s) PROVE All
  BY <1>a, <1>16 DEF MarkTaskUncertain, Leased, RecordStep, Keeps
<1>17. CASE Restore
  BY <1>a, <1>17 DEF Restore, Interrupted, Leased, RecordStep, Keeps
<1>18. ASSUME NEW s \in Step, ReconcileSucceeded(s) PROVE All
  BY <1>18, <1>b, <1>c, <1>d, KeepsSettled DEF ReconcileSucceeded
<1>19. ASSUME NEW s \in Step, NEW o \in {"Failed", "Cancelled"}, ReconcileStopped(s, o) PROVE All
  BY <1>19, <1>b, <1>c, <1>d, KeepsSettled DEF ReconcileStopped
<1>20. ASSUME NEW s \in Step, RetryUncertain(s) PROVE All
  <2> DEFINE a == [launch |-> exec[s], status |-> "Uncertain", data |-> data[s]]
  <2>1. a \in Attempt /\ a.launch = exec[s]
    BY <1>a DEF Attempt, TaskStatus
  <2>2. attempts'[s] = Append(attempts[s], a)
    BY <1>a, <1>20 DEF RetryUncertain
  <2> HIDE DEF a
  <2>3. Archives(s)
    BY <1>a, <1>20, <2>1, <2>2 DEF RetryUncertain, Archives
  <2>4. \A x \in Step : x # s => Keeps(x)
    BY <1>a, <1>20 DEF RetryUncertain, Keeps
  <2> QED
    BY <2>3, <2>4 DEF RecordStep
<1>21. CASE CancelRun
  BY <1>a, <1>21 DEF CancelRun, RecordStep, Keeps, Ended
<1>22. ASSUME NEW s \in Step, CancelTask(s) PROVE All
  BY <1>a, <1>22 DEF CancelTask, RecordStep, Keeps, Ended
<1>23. ASSUME NEW p \in BOOLEAN, SetPaused(p) PROVE All
  BY <1>a, <1>23, <1>d, KeepsAdvanced DEF SetPaused
<1>24. ASSUME NEW s \in Step, NEW approved \in BOOLEAN, Decide(s, approved) PROVE All
  BY <1>13, <1>24, <1>c DEF Decide
<1>25. ASSUME NEW s \in Step, Repeat(s) PROVE All
  BY <1>a, <1>25, RepeatArchives DEF Repeat
<1> QED
  BY <1>1, <1>2, <1>3, <1>5, <1>6, <1>7, <1>8, <1>9, <1>10, <1>11, <1>12, <1>14, <1>15, <1>16, <1>17,
     <1>18, <1>19, <1>20, <1>21, <1>22, <1>23, <1>24, <1>25
     DEF Next, Undisturbed, Disturbance, Automatic, Launching, Spawn, Complete

-----------------------------------------------------------------------------
(***************************************************************************)
(* Launch identities and the history.                                      *)
(***************************************************************************)
\* What identifies the executions of task x: a waiting task has none and a
\* running one has one; a lease is given only to a task without an execution;
\* identities are not newer than the last one issued and none is used twice; a
\* pinned task never has any.
Identity(x) ==
  /\ st[x] \in {"Ready", "Absent", "Skipped"} => exec[x] = NoLaunch
  /\ st[x] = "Running" => exec[x] # NoLaunch
  /\ lease[x] # NoLaunch => exec[x] = NoLaunch
  /\ lease[x] <= issued[x] /\ exec[x] <= issued[x]
  /\ \A i \in DOMAIN attempts[x] :
       /\ attempts[x][i].launch <= issued[x]
       /\ attempts[x][i].launch # NoLaunch => attempts[x][i].launch \notin {lease[x], exec[x]}
  /\ \A i, j \in DOMAIN attempts[x] :
       attempts[x][i].launch # NoLaunch /\ attempts[x][i].launch = attempts[x][j].launch => i = j
  /\ x \in DOMAIN Pin => /\ lease[x] = NoLaunch /\ exec[x] = NoLaunch /\ attempts[x] = <<>>
                         /\ st[x] \notin {"Running", "Uncertain"}

IdentityInv == TypeOK /\ \A x \in Step : Identity(x)

\* A new run has launched nothing.
LEMMA IdentityInit == Init => IdentityInv
<1> SUFFICES ASSUME Init, NEW x \in Step PROVE Identity(x)
  BY TypeInit DEF IdentityInv
<1>1. /\ st[x] \in {"Ready", "Absent"} /\ lease[x] = 0 /\ exec[x] = 0 /\ issued[x] = 0 /\ attempts[x] = <<>>
  BY DEF Init, NoLaunch
<1> QED
  BY <1>1 DEF Identity, NoLaunch

\* Each kind of step keeps the identities of a task distinct.
LEMMA IdentityStep ==
  ASSUME TypeOK, NEW x \in Step, RecordStep(x), Identity(x)
  PROVE  Identity(x)'
<1>a. /\ lease[x] \in Nat /\ exec[x] \in Nat /\ issued[x] \in Nat /\ attempts[x] \in Seq(Attempt)
      /\ \A i \in DOMAIN attempts[x] : attempts[x][i].launch \in Nat
  <2>1. Launch \cup {NoLaunch} \subseteq Nat /\ 0..MaxLaunch \subseteq Nat
    BY DefinitionType DEF Launch, NoLaunch
  <2>2. attempts[x] \in Seq(Attempt)
    BY DEF TypeOK
  <2>3. \A i \in DOMAIN attempts[x] : attempts[x][i] \in Attempt
    BY <2>2
  <2>4. \A a \in Attempt : a.launch \in Nat
    BY <2>1 DEF Attempt
  <2> QED
    BY <2>1, <2>2, <2>3, <2>4 DEF TypeOK
<1>1. CASE Keeps(x)
  BY <1>a, <1>1 DEF Keeps, Identity, NoLaunch, Ended
<1>2. CASE GetsLease(x)
  BY <1>a, <1>2 DEF GetsLease, Identity, NoLaunch
<1>3. CASE Dispatches(x)
  BY <1>a, <1>3 DEF Dispatches, Identity, NoLaunch
<1>4. CASE Archives(x)
  <2>1. CASE exec[x] = NoLaunch /\ attempts'[x] = attempts[x]
    BY <1>a, <1>4, <2>1 DEF Archives, Identity, NoLaunch
  <2>2. ASSUME NEW a \in Attempt, a.launch = exec[x], attempts'[x] = Append(attempts[x], a),
               exec[x] # NoLaunch \/ st[x] = "Uncertain"
        PROVE  Identity(x)'
    <3> DEFINE q == attempts[x]
               n == Len(q)
    <3>1. /\ n \in Nat /\ DOMAIN q = 1..n /\ DOMAIN attempts'[x] = 1..n + 1
          /\ \A i \in 1..n : attempts'[x][i] = q[i]
          /\ attempts'[x][n + 1] = a
      BY <1>a, <2>2
    <3>2. /\ issued'[x] = issued[x] /\ lease'[x] = NoLaunch /\ exec'[x] = NoLaunch
          /\ st'[x] \in {"Ready", "Skipped"}
      BY <1>4 DEF Archives
    <3>3. x \notin DOMAIN Pin
      BY <2>2 DEF Identity
    <3>4. /\ \A i \in 1..n : q[i].launch <= issued[x] /\ q[i].launch \in Nat
          /\ exec[x] <= issued[x]
          /\ \A i \in 1..n : q[i].launch # NoLaunch => q[i].launch # exec[x]
          /\ \A i, j \in 1..n : q[i].launch # NoLaunch /\ q[i].launch = q[j].launch => i = j
      BY <1>a, <3>1 DEF Identity
    <3> HIDE DEF q, n
    <3>5. ASSUME NEW i \in 1..n + 1
          PROVE  attempts'[x][i].launch <= issued'[x]
      BY <1>a, <2>2, <3>1, <3>2, <3>4, <3>5
    <3>6. ASSUME NEW i \in 1..n + 1, NEW j \in 1..n + 1, attempts'[x][i].launch # NoLaunch,
                 attempts'[x][i].launch = attempts'[x][j].launch
          PROVE  i = j
      <4>1. CASE i = n + 1 /\ j \in 1..n
        BY <2>2, <3>1, <3>4, <3>6, <4>1
      <4>2. CASE j = n + 1 /\ i \in 1..n
        BY <2>2, <3>1, <3>4, <3>6, <4>2
      <4>3. CASE i \in 1..n /\ j \in 1..n
        BY <3>1, <3>4, <3>6, <4>3
      <4> QED
        BY <3>1, <4>1, <4>2, <4>3
    <3> QED
      BY <1>a, <3>1, <3>2, <3>3, <3>5, <3>6 DEF Identity, NoLaunch
  <2> QED
    BY <1>4, <2>1, <2>2 DEF Archives
<1> QED
  BY <1>1, <1>2, <1>3, <1>4 DEF RecordStep

\* Every operation keeps launch identities distinct.
LEMMA IdentityNext == IdentityInv /\ [Next]_vars => IdentityInv'
<1> SUFFICES ASSUME IdentityInv, [Next]_vars, NEW x \in Step PROVE Identity(x)'
  BY TypeNext DEF IdentityInv
<1> QED
  BY RecordSteps, IdentityStep DEF IdentityInv

\* In every run of every valid pipeline no two executions of a task share a
\* launch identity: a late answer can only complete the execution it belongs to.
THEOREM LaunchesAlwaysUnique == Spec => []LaunchesUnique
<1>1. IdentityInv => LaunchesUnique
  <2> SUFFICES ASSUME IdentityInv, NEW s \in Step
               PROVE  LET archived == {i \in DOMAIN attempts[s] : attempts[s][i].launch # NoLaunch}
                      IN  /\ lease[s] # NoLaunch => lease[s] # exec[s]
                          /\ \A i \in archived : attempts[s][i].launch \notin {lease[s], exec[s]}
                          /\ \A i, j \in archived : attempts[s][i].launch = attempts[s][j].launch => i = j
    BY DEF LaunchesUnique
  <2> QED
    BY DEF IdentityInv, Identity
<1> QED
  BY <1>1, IdentityInit, IdentityNext, PTL DEF Spec

\* A pinned step is never leased, executed or archived: its result is the pinned data.
THEOREM PinnedAlwaysUnlaunched == Spec => []PinnedNeverLaunched
<1>1. IdentityInv => PinnedNeverLaunched
  BY DefinitionType DEF IdentityInv, Identity, PinnedNeverLaunched
<1> QED
  BY <1>1, IdentityInit, IdentityNext, PTL DEF Spec

\* The history only grows, and an execution leaves its record only into it.
LEMMA HistoryStep ==
  ASSUME IdentityInv, [Next]_vars, NEW s \in Step
  PROVE  /\ Len(attempts[s]) <= Len(attempts'[s])
         /\ SubSeq(attempts'[s], 1, Len(attempts[s])) = attempts[s]
         /\ exec[s] # NoLaunch /\ exec'[s] # exec[s] =>
              \E i \in DOMAIN attempts'[s] : attempts'[s][i].launch = exec[s]
<1>1. TypeOK /\ Identity(s) /\ RecordStep(s) /\ attempts[s] \in Seq(Attempt)
  BY RecordSteps DEF IdentityInv, TypeOK
<1>2. CASE attempts'[s] = attempts[s] /\ (exec[s] = NoLaunch \/ exec'[s] = exec[s])
  BY <1>1, <1>2
<1>3. ASSUME NEW a \in Attempt, a.launch = exec[s], attempts'[s] = Append(attempts[s], a)
      PROVE  /\ Len(attempts[s]) <= Len(attempts'[s])
             /\ SubSeq(attempts'[s], 1, Len(attempts[s])) = attempts[s]
             /\ \E i \in DOMAIN attempts'[s] : attempts'[s][i].launch = exec[s]
  <2> DEFINE q == attempts[s]
             n == Len(q)
  <2>1. /\ n \in Nat /\ Append(q, a) \in Seq(Attempt) /\ Len(Append(q, a)) = n + 1
        /\ Append(q, a)[n + 1] = a /\ \A i \in 1..n : Append(q, a)[i] = q[i]
    BY <1>1, <1>3
  <2>2. SubSeq(Append(q, a), 1, n) = q
    BY <1>1, <2>1
  <2>3. n + 1 \in DOMAIN Append(q, a)
    BY <2>1
  <2> QED
    BY <1>3, <2>1, <2>2, <2>3
<1> QED
  BY <1>1, <1>2, <1>3 DEF RecordStep, Keeps, GetsLease, Dispatches, Archives, Identity

-----------------------------------------------------------------------------
(***************************************************************************)
(* The status of the run.                                                  *)
(***************************************************************************)
\* refresh_status calls a run finished only when it is quiet.
LEMMA RefreshIsQuiet ==
  ASSUME status' = RefreshStatus(st', lease')
  PROVE  FinishedRunIsQuiet'
BY DEF RefreshStatus, FinishedRunIsQuiet, Some

\* Every operation keeps a finished run quiet, also those that set the status
\* of the run by themselves.
LEMMA QuietNext == TypeOK /\ FinishedRunIsQuiet /\ [Next]_vars => FinishedRunIsQuiet'
<1> SUFFICES ASSUME TypeOK, FinishedRunIsQuiet, [Next]_vars PROVE FinishedRunIsQuiet'
  OBVIOUS
<1>1. status' \in {"Running", "Uncertain"} => FinishedRunIsQuiet'
  BY DEF FinishedRunIsQuiet
<1>2. CASE UNCHANGED vars
  BY <1>2 DEF vars, FinishedRunIsQuiet, Some
<1>3. CASE AdvanceProgramRouters \/ \E s \in DOMAIN Pin : AdmitPinned(s)
  BY <1>3, RefreshIsQuiet DEF AdvanceProgramRouters, AdmitPinned
<1>4. ASSUME NEW s \in Step, Launching(s) \/ Spawn(s) PROVE FinishedRunIsQuiet'
  <2>1. status' = "Running"
    BY <1>4 DEF Launching, Spawn, LeaseNext, First, ReadyTasks, DispatchLeased, LeaseControlledSpawn,
                AddSpawnedAgent
  <2> QED
    BY <1>1, <2>1
<1>5. ASSUME NEW s \in Step, Complete(s) PROVE FinishedRunIsQuiet'
  <2>1. ASSUME NEW d \in Value, CompleteRepeat(s, d) PROVE FinishedRunIsQuiet'
    BY <2>1, RefreshIsQuiet DEF CompleteRepeat, RepeatFrom
  <2> QED
    BY <1>5, <2>1, RefreshIsQuiet DEF Complete, CompleteFailed, CompleteAccepted, CompleteHeld,
                                      CompleteConflict
<1>6. ASSUME NEW s \in Step, RejectReadyTask(s) \/ RejectLeased(s) \/ CancelTask(s) PROVE FinishedRunIsQuiet'
  BY <1>6, RefreshIsQuiet DEF RejectReadyTask, RejectLeased, CancelTask
<1>7. ASSUME NEW s \in Step, NEW approved \in BOOLEAN, Decide(s, approved) PROVE FinishedRunIsQuiet'
  BY <1>7, RefreshIsQuiet DEF Decide
<1>8. ASSUME NEW s \in Step, ReleaseLease(s) PROVE FinishedRunIsQuiet'
  BY <1>8 DEF ReleaseLease, FinishedRunIsQuiet, Some, TypeOK
<1>9. ASSUME NEW s \in Step, MarkTaskUncertain(s) \/ RetryUncertain(s) PROVE FinishedRunIsQuiet'
  BY <1>1, <1>9 DEF MarkTaskUncertain, RetryUncertain
<1>10. ASSUME NEW s \in Step, ReconcileSucceeded(s) \/ \E o \in {"Failed", "Cancelled"} : ReconcileStopped(s, o)
       PROVE  FinishedRunIsQuiet'
  BY <1>10, RefreshIsQuiet DEF ReconcileSucceeded, ReconcileStopped
<1>11. ASSUME NEW s \in Step, Repeat(s) PROVE FinishedRunIsQuiet'
  BY <1>11, RefreshIsQuiet DEF Repeat, RepeatFrom
<1>12. ASSUME NEW p \in BOOLEAN, SetPaused(p) PROVE FinishedRunIsQuiet'
  BY <1>12, RefreshIsQuiet DEF SetPaused
<1>13. CASE Restore
  BY <1>1, <1>13 DEF Restore
<1>14. CASE CancelRun
  BY <1>14 DEF CancelRun, FinishedRunIsQuiet, Some
<1> QED
  BY <1>2, <1>3, <1>4, <1>5, <1>6, <1>7, <1>8, <1>9, <1>10, <1>11, <1>12, <1>13, <1>14
     DEF Next, Undisturbed, Disturbance, Automatic

-----------------------------------------------------------------------------
(***************************************************************************)
(* Automatic reviews.                                                      *)
(***************************************************************************)
\* The archived results that review_limit_reached counts.
Counted(q) == {i \in DOMAIN q : q[i].status \in {"Succeeded", "AwaitingApproval"}}

\* An archived attempt adds itself to the count exactly if it is a result.
LEMMA CountAppend ==
  ASSUME NEW q \in Seq(Attempt), NEW a \in Attempt
  PROVE  /\ Cardinality(Counted(q)) \in Nat
         /\ Cardinality(Counted(Append(q, a))) >= Cardinality(Counted(q))
         /\ a.status \in {"Succeeded", "AwaitingApproval"} =>
              Cardinality(Counted(Append(q, a))) = Cardinality(Counted(q)) + 1
<1> DEFINE n == Len(q)
           p == Append(q, a)
<1>1. /\ n \in Nat /\ DOMAIN q = 1..n /\ DOMAIN p = 1..n + 1
      /\ p[n + 1] = a /\ \A i \in 1..n : p[i] = q[i]
  OBVIOUS
<1> HIDE DEF n, p
<1>2. IsFiniteSet(1..n) /\ Counted(q) \subseteq 1..n
  BY <1>1, FS_Interval DEF Counted
<1>3. IsFiniteSet(Counted(q))
  BY <1>2, FS_Subset
<1>4. n + 1 \notin Counted(q)
  BY <1>1, <1>2
<1>5. CASE a.status \in {"Succeeded", "AwaitingApproval"}
  <2>1. Counted(p) = Counted(q) \cup {n + 1}
    BY <1>1, <1>5 DEF Counted
  <2>2. Cardinality(Counted(q) \cup {n + 1}) = Cardinality(Counted(q)) + 1
    BY <1>3, <1>4, FS_AddElement
  <2> QED
    BY <1>3, <2>1, <2>2, FS_CardinalityType DEF p
<1>6. CASE a.status \notin {"Succeeded", "AwaitingApproval"}
  <2>1. Counted(p) = Counted(q)
    BY <1>1, <1>6 DEF Counted
  <2> QED
    BY <1>3, <1>6, <2>1, FS_CardinalityType DEF p
<1> QED
  BY <1>5, <1>6

\* Only a rejecting verdict that starts a round counts as one.
LEMMA RoundsCounted ==
  [Next]_vars => UNCHANGED rounds \/ \E s \in Step, d \in Value : CompleteRepeat(s, d)
<1> SUFFICES ASSUME [Next]_vars, ~\E s \in Step, d \in Value : CompleteRepeat(s, d) PROVE UNCHANGED rounds
  OBVIOUS
<1>1. CASE UNCHANGED vars
  BY <1>1 DEF vars
<1>2. CASE Undisturbed
  BY <1>2 DEF Undisturbed, Automatic, AdvanceProgramRouters, AdmitPinned, Launching, LeaseNext,
              DispatchLeased, Spawn, LeaseControlledSpawn, AddSpawnedAgent, Complete, CompleteFailed,
              CompleteAccepted, CompleteHeld, CompleteConflict, RejectReadyTask, Decide
<1>3. CASE Disturbance
  BY <1>3 DEF Disturbance, ReleaseLease, RejectLeased, MarkTaskUncertain, ReconcileSucceeded,
              RetryUncertain, CancelTask, Repeat, ReconcileStopped, SetPaused, Restore, CancelRun
<1> QED
  BY <1>1, <1>2, <1>3 DEF Next

\* No operation takes an archived result back.
LEMMA RoundsGrow ==
  ASSUME IdentityInv, [Next]_vars, NEW x \in Step
  PROVE  Rounds(x) \in Nat /\ Rounds(x)' \in Nat /\ Rounds(x)' >= Rounds(x)
<1>1. RecordStep(x) /\ attempts[x] \in Seq(Attempt) /\ attempts'[x] \in Seq(Attempt)
  BY RecordSteps, TypeNext DEF IdentityInv, TypeOK
<1>2. Rounds(x) = Cardinality(Counted(attempts[x])) /\ Rounds(x)' = Cardinality(Counted(attempts'[x]))
  BY DEF Rounds, Counted
<1>3. \A q \in Seq(Attempt) : Cardinality(Counted(q)) \in Nat
  <2> SUFFICES ASSUME NEW q \in Seq(Attempt) PROVE Cardinality(Counted(q)) \in Nat
    OBVIOUS
  <2>1. Len(q) \in Nat /\ Counted(q) \subseteq 1..Len(q)
    BY DEF Counted
  <2>2. IsFiniteSet(1..Len(q))
    BY <2>1, FS_Interval
  <2>3. IsFiniteSet(Counted(q))
    BY <2>1, <2>2, FS_Subset
  <2> QED
    BY <2>3, FS_CardinalityType
<1>4. CASE attempts'[x] = attempts[x]
  BY <1>1, <1>2, <1>3, <1>4
<1>5. ASSUME NEW a \in Attempt, attempts'[x] = Append(attempts[x], a)
      PROVE  Rounds(x)' >= Rounds(x)
  BY <1>1, <1>2, <1>5, CountAppend
<1> QED
  BY <1>1, <1>2, <1>3, <1>4, <1>5 DEF RecordStep, Keeps, GetsLease, Dispatches, Archives

\* A round that a reviewer starts is archived as a result of the reviewer.
LEMMA RoundArchived ==
  ASSUME IdentityInv, NEW s \in Step, NEW d \in Value, CompleteRepeat(s, d)
  PROVE  s \in DOMAIN Review /\ Rounds(s)' = Rounds(s) + 1
<1> DEFINE a == [launch |-> exec[s], status |-> "Succeeded", data |-> d]
           tn == [st EXCEPT ![s] = "Succeeded"]
           dn == [data EXCEPT ![s] = d]
<1>1. s \in DOMAIN Review /\ st[s] = "Running" /\ attempts' = Archived(Affected[Review[s].from], tn, dn)
  BY DEF CompleteRepeat, RejectedBy, RepeatFrom
<1>2. s \in Affected[Review[s].from]
  BY <1>1, DefinitionValid DEF ValidPipeline
<1>3. exec[s] # NoLaunch /\ exec[s] \in Launch \cup {NoLaunch} /\ attempts[s] \in Seq(Attempt)
  BY <1>1 DEF IdentityInv, Identity, TypeOK
<1>4. tn[s] = "Succeeded" /\ dn[s] = d
  BY DEF IdentityInv, TypeOK
<1> HIDE DEF tn, dn
<1>5. attempts'[s] = Append(attempts[s], a)
  BY <1>1, <1>2, <1>3, <1>4 DEF Archived
<1>6. a \in Attempt /\ a.status = "Succeeded"
  BY <1>3 DEF Attempt, TaskStatus
<1> HIDE DEF a
<1>7. Cardinality(Counted(Append(attempts[s], a))) = Cardinality(Counted(attempts[s])) + 1
  BY <1>3, <1>6, CountAppend
<1> QED
  BY <1>1, <1>5, <1>7 DEF Rounds, Counted

\* The rounds that a reviewer started are all in its history, so the limit
\* that review_limit_reached reads from there bounds them.
ReviewInv ==
  /\ IdentityInv
  /\ \A r \in DOMAIN Review : rounds[r] <= Rounds(r)
  /\ ReviewsBounded

\* A new run has reviewed nothing.
LEMMA ReviewInit == Init => ReviewInv
<1> SUFFICES ASSUME Init, NEW r \in DOMAIN Review
             PROVE  rounds[r] <= Rounds(r) /\ (Review[r].max # 0 => rounds[r] < Review[r].max)
  BY IdentityInit DEF ReviewInv, ReviewsBounded
<1>1. r \in Step /\ Review[r].max \in Nat
  BY DefinitionType
<1>2. rounds[r] = 0 /\ attempts[r] = <<>>
  BY <1>1 DEF Init
<1>3. Rounds(r) = 0
  <2>1. DOMAIN attempts[r] = {}
    BY <1>2
  <2>2. {i \in DOMAIN attempts[r] : attempts[r][i].status \in {"Succeeded", "AwaitingApproval"}} = {}
    BY <2>1
  <2>3. Cardinality({}) = 0
    BY FS_EmptySet
  <2> QED
    BY <2>2, <2>3 DEF Rounds
<1> QED
  BY <1>1, <1>2, <1>3

\* Every operation keeps the rounds of a reviewer within its history and limit.
LEMMA ReviewNext == ReviewInv /\ [Next]_vars => ReviewInv'
<1> SUFFICES ASSUME ReviewInv, [Next]_vars, NEW r \in DOMAIN Review
             PROVE  /\ rounds'[r] <= Rounds(r)'
                    /\ Review[r].max # 0 => rounds'[r] < Review[r].max
  BY IdentityNext DEF ReviewInv, ReviewsBounded
<1>1. r \in Step /\ Review[r].max \in Nat
  BY DefinitionType
<1>2. /\ IdentityInv /\ rounds \in [Step -> Nat] /\ rounds[r] <= Rounds(r)
      /\ Review[r].max # 0 => rounds[r] < Review[r].max
  BY DEF ReviewInv, IdentityInv, TypeOK, ReviewsBounded
<1>3. Rounds(r) \in Nat /\ Rounds(r)' \in Nat /\ Rounds(r)' >= Rounds(r)
  BY <1>1, <1>2, RoundsGrow
<1>4. CASE UNCHANGED rounds
  BY <1>2, <1>3, <1>1, <1>4
<1>5. ASSUME NEW s \in Step, NEW d \in Value, CompleteRepeat(s, d)
      PROVE  /\ rounds'[r] <= Rounds(r)'
             /\ Review[r].max # 0 => rounds'[r] < Review[r].max
  <2>1. rounds' = [rounds EXCEPT ![s] = @ + 1] /\ (Review[s].max # 0 => ~(Rounds(s) + 1 >= Review[s].max))
    BY <1>5 DEF CompleteRepeat, ReviewHold
  <2>2. Rounds(s)' = Rounds(s) + 1
    BY <1>2, <1>5, RoundArchived
  <2>3. CASE r = s
    <3>1. rounds'[r] = rounds[r] + 1 /\ rounds[r] \in Nat
      BY <1>1, <1>2, <2>1, <2>3
    <3>2. Rounds(r)' = Rounds(r) + 1 /\ (Review[r].max # 0 => ~(Rounds(r) + 1 >= Review[r].max))
      BY <2>1, <2>2, <2>3
    <3> QED
      BY <1>1, <1>2, <1>3, <3>1, <3>2
  <2>4. CASE r # s
    BY <1>1, <1>2, <1>3, <2>1, <2>4
  <2> QED
    BY <2>3, <2>4
<1> QED
  BY <1>4, <1>5, RoundsCounted

\* What every run of every valid pipeline may rely on: a finished run is quiet,
\* a reviewer's automatic rounds stay below its limit whatever a person repeats,
\* and no two executions of a task share an identity.
THEOREM RunAlwaysSound == Spec => []RunSound
<1>1. Init => FinishedRunIsQuiet
  BY DEF Init, FinishedRunIsQuiet
<1>2. ReviewInv => ReviewsBounded /\ TypeOK
  BY DEF ReviewInv, IdentityInv
<1>3. Spec => []ReviewInv
  BY ReviewInit, ReviewNext, PTL DEF Spec
<1>4. Spec => []FinishedRunIsQuiet
  BY <1>1, QuietNext, TypeCorrect, PTL DEF Spec
<1> QED
  BY <1>2, <1>3, <1>4, LaunchesAlwaysUnique, PTL DEF RunSound

-----------------------------------------------------------------------------
(***************************************************************************)
(* The past: archived attempts, and the results a running execution has.   *)
(***************************************************************************)
\* The result of d stays, or a repeat withdraws it together with everything
\* that rests on it; then nothing that rests on it is under way, except the
\* reviewer whose verdict starts the repeat.
ResultStays(d) == st'[d] = "Succeeded" /\ data'[d] = data[d]
Withdrawn(d) ==
  \E f \in Step : /\ d \in Affected[f]
                  /\ \A x \in Affected[f] : st[x] \in {"Running", "Uncertain"} => rounds'[x] # rounds[x]

\* Skipping what is not selected leaves results alone.
LEMMA ResultAdvanced ==
  ASSUME NEW t \in [Step -> TaskStatus], NEW l, NEW dt, st' = AdvanceConditions(t, l, dt),
         NEW d \in Step, t[d] = "Succeeded"
  PROVE  st'[d] = "Succeeded"
<1> DEFINE u == AdvanceConditions(t, l, dt)
<1>1. u[d] = t[d] \/ t[d] = "Ready"
  BY AdvanceConditionsEffect
<1>2. st' = u
  OBVIOUS
<1> HIDE DEF u
<1> QED
  BY <1>1, <1>2

\* repeat_from leaves the results it does not affect.
LEMMA ResultRepeated ==
  ASSUME TypeOK, NEW s \in Step, NEW t \in [Step -> TaskStatus], NEW dt \in [Step -> Value],
         RepeatFrom(s, t, dt), NEW d \in Step, t[d] = "Succeeded", d \notin Affected[s]
  PROVE  st'[d] = "Succeeded" /\ data'[d] = dt[d]
<1> DEFINE dn == [x \in Step |-> IF x \in Affected[s] THEN NoData ELSE dt[x]]
           tn == [x \in Step |-> IF x \in Affected[s] THEN "Ready" ELSE t[x]]
<1>1. tn \in [Step -> TaskStatus] /\ tn[d] = "Succeeded" /\ dn[d] = dt[d]
  BY DEF TaskStatus
<1>2. st' = AdvanceConditions(tn, lease, dn) /\ data' = dn
  BY DEF RepeatFrom
<1> HIDE DEF tn, dn
<1> QED
  BY <1>1, <1>2, ResultAdvanced

\* Every operation leaves a result alone or withdraws it with all that rests on it.
LEMMA ResultSteps ==
  ASSUME DependencyInv, [Next]_vars, NEW d \in Step, st[d] = "Succeeded"
  PROVE  ResultStays(d) \/ Withdrawn(d)
<1> DEFINE Goal == ResultStays(d) \/ Withdrawn(d)
<1>a. /\ TypeOK /\ st \in [Step -> TaskStatus] /\ data \in [Step -> Value]
      /\ PinnedPassSound /\ rounds \in [Step -> Nat]
  BY DEF DependencyInv, TypeOK
<1>b. ASSUME NEW s \in Step, st[s] # "Succeeded", NEW o \in TaskStatus
      PROVE  /\ [st EXCEPT ![s] = o] \in [Step -> TaskStatus] /\ [st EXCEPT ![s] = o][d] = "Succeeded"
             /\ FailFast([st EXCEPT ![s] = o]) \in [Step -> TaskStatus]
             /\ FailFast([st EXCEPT ![s] = o])[d] = "Succeeded"
             /\ \A v : [data EXCEPT ![s] = v][d] = data[d]
  BY <1>a, <1>b DEF FailFast, TaskStatus
<1>c. "Failed" \in TaskStatus /\ "Succeeded" \in TaskStatus /\ "AwaitingApproval" \in TaskStatus
      /\ "Cancelled" \in TaskStatus
  BY DEF TaskStatus
<1>d. ASSUME NEW s \in Step, st[s] # "Succeeded", NEW t \in [Step -> TaskStatus], t[d] = "Succeeded",
             NEW v, data' = [data EXCEPT ![s] = v] \/ UNCHANGED data,
             NEW l, NEW dt, st' = AdvanceConditions(t, l, dt)
      PROVE  Goal
  <2>1. data'[d] = data[d]
    BY <1>a, <1>d
  <2>2. st'[d] = "Succeeded"
    BY <1>d, ResultAdvanced
  <2> QED
    BY <2>1, <2>2 DEF ResultStays
<1>1. CASE UNCHANGED vars
  BY <1>1 DEF vars, ResultStays
<1>2. CASE AdvanceProgramRouters
  <2> DEFINE dn == [s \in Step |-> IF s \in RoutersReady THEN Selection(s) ELSE data[s]]
             tn == [s \in Step |-> IF s \notin RoutersReady THEN st[s]
                             ELSE IF dn[s] = NoData THEN "Failed" ELSE "Succeeded"]
  <2>1. d \notin RoutersReady
    BY DEF RoutersReady
  <2>2. tn \in [Step -> TaskStatus] /\ tn[d] = "Succeeded" /\ dn[d] = data[d]
    BY <1>a, <2>1 DEF TaskStatus
  <2>3. st' = AdvanceConditions(tn, lease, dn) /\ data' = dn
    BY <1>2 DEF AdvanceProgramRouters
  <2> HIDE DEF tn, dn
  <2> QED
    BY <2>2, <2>3, ResultAdvanced DEF ResultStays
<1>3. ASSUME NEW s \in DOMAIN Pin, AdmitPinned(s) PROVE Goal
  <2>0. s \in Step
    BY DefinitionType
  <2>1. st[s] # "Succeeded"
    BY <1>a, <1>3 DEF AdmitPinned, First, PinnedReady, ReadyTasks, PinnedPassSound
  <2>2. CASE st' = FailFast([st EXCEPT ![s] = "Failed"]) /\ UNCHANGED data
    BY <1>b, <1>c, <2>0, <2>1, <2>2 DEF ResultStays
  <2>3. ASSUME NEW o \in TaskStatus, data' = [data EXCEPT ![s] = Pin[s]],
               st' = AdvanceConditions([st EXCEPT ![s] = o], lease, data') PROVE Goal
    <3> DEFINE tn == [st EXCEPT ![s] = o]
    <3>1. tn \in [Step -> TaskStatus] /\ tn[d] = "Succeeded" /\ st' = AdvanceConditions(tn, lease, data')
      BY <1>b, <2>0, <2>1, <2>3
    <3> HIDE DEF tn
    <3> QED
      BY <1>d, <2>0, <2>1, <2>3, <3>1
  <2> QED
    BY <1>3, <1>c, <2>2, <2>3 DEF AdmitPinned
<1>4. ASSUME NEW s \in Step, Launching(s) \/ Spawn(s) PROVE Goal
  BY <1>4, <1>a DEF Launching, LeaseNext, DispatchLeased, Leased, Spawn, LeaseControlledSpawn, AddSpawnedAgent,
                    ResultStays
<1>5. ASSUME NEW s \in Step, CompleteFailed(s) PROVE Goal
  <2>1. st[s] # "Succeeded" /\ data' = [data EXCEPT ![s] = NoData]
    BY <1>5 DEF CompleteFailed
  <2> DEFINE tn == FailFast([st EXCEPT ![s] = "Failed"])
  <2>2. tn \in [Step -> TaskStatus] /\ tn[d] = "Succeeded" /\ st' = AdvanceConditions(tn, lease, data')
    BY <1>5, <1>b, <1>c, <2>1 DEF CompleteFailed
  <2> HIDE DEF tn
  <2> QED
    BY <1>d, <2>1, <2>2
<1>6. ASSUME NEW s \in Step, NEW v \in Value, CompleteAccepted(s, v) \/ CompleteHeld(s, v) \/ CompleteConflict(s, v)
      PROVE  Goal
  <2>1. st[s] # "Succeeded" /\ data' = [data EXCEPT ![s] = v]
    BY <1>6 DEF CompleteAccepted, CompleteHeld, CompleteConflict
  <2>2. PICK o \in TaskStatus : st' = AdvanceConditions([st EXCEPT ![s] = o], lease, data')
    BY <1>6, <1>c DEF CompleteAccepted, CompleteHeld, CompleteConflict
  <2> DEFINE tn == [st EXCEPT ![s] = o]
  <2>3. tn \in [Step -> TaskStatus] /\ tn[d] = "Succeeded" /\ st' = AdvanceConditions(tn, lease, data')
    BY <1>b, <2>1, <2>2
  <2> HIDE DEF tn
  <2> QED
    BY <1>d, <2>1, <2>3
<1>7. ASSUME NEW s \in Step, NEW v \in Value, CompleteRepeat(s, v) PROVE Goal
  <2> DEFINE tn == [st EXCEPT ![s] = "Succeeded"]
             dn == [data EXCEPT ![s] = v]
             f == Review[s].from
  <2>1. /\ f \in Step /\ RepeatAllowed(f, tn) /\ RepeatFrom(f, tn, dn) /\ st[s] = "Running"
        /\ rounds' = [rounds EXCEPT ![s] = @ + 1]
    BY <1>7, DefinitionType DEF CompleteRepeat, RejectedBy
  <2>2. tn \in [Step -> TaskStatus] /\ tn[d] = "Succeeded" /\ dn \in [Step -> Value] /\ dn[d] = data[d]
    BY <1>a, <1>b, <1>c, <2>1
  <2>3. CASE d \in Affected[f]
    <3>1. ASSUME NEW x \in Affected[f], st[x] \in {"Running", "Uncertain"}
          PROVE  rounds'[x] # rounds[x]
      <4>1. x \in Step
        BY <2>1, AffectedClosed
      <4>2. x = s
        BY <1>a, <2>1, <3>1, <4>1 DEF RepeatAllowed
      <4> QED
        BY <1>a, <2>1, <4>1, <4>2
    <3> QED
      BY <2>1, <2>3, <3>1 DEF Withdrawn
  <2>4. CASE d \notin Affected[f]
    <3> HIDE DEF tn, dn
    <3>0. TypeOK /\ Review[s].from \in Step /\ RepeatFrom(Review[s].from, tn, dn) /\ d \notin Affected[Review[s].from]
      BY <1>a, <2>1, <2>4
    <3>1. st'[d] = "Succeeded" /\ data'[d] = dn[d]
      BY <2>2, <3>0, ResultRepeated
    <3> QED
      BY <2>2, <3>1 DEF ResultStays
  <2> QED
    BY <2>3, <2>4
<1>8. ASSUME NEW s \in Step, RejectReadyTask(s) \/ RejectLeased(s) PROVE Goal
  <2>1. st[s] # "Succeeded" /\ st' = FailFast([st EXCEPT ![s] = "Failed"]) /\ UNCHANGED data
    BY <1>8 DEF RejectReadyTask, RejectLeased, First, ReadyTasks, Leased
  <2> QED
    BY <1>b, <1>c, <2>1 DEF ResultStays
<1>9. ASSUME NEW s \in Step, NEW approved \in BOOLEAN, Decide(s, approved) PROVE Goal
  <2>1. st[s] # "Succeeded" /\ UNCHANGED data
    BY <1>9 DEF Decide
  <2>2. PICK o \in TaskStatus : st' = AdvanceConditions([st EXCEPT ![s] = o], lease, data)
    BY <1>9, <1>c DEF Decide
  <2> DEFINE tn == [st EXCEPT ![s] = o]
  <2>3. tn \in [Step -> TaskStatus] /\ tn[d] = "Succeeded" /\ st' = AdvanceConditions(tn, lease, data)
    BY <1>b, <2>1, <2>2
  <2> HIDE DEF tn
  <2> QED
    BY <1>d, <2>1, <2>3
<1>10. ASSUME NEW s \in Step, ReleaseLease(s) \/ MarkTaskUncertain(s) \/ ReconcileSucceeded(s) \/ RetryUncertain(s)
       PROVE  Goal
  BY <1>10, <1>a DEF ReleaseLease, MarkTaskUncertain, Leased, ReconcileSucceeded, RetryUncertain, ResultStays
<1>11. ASSUME NEW s \in Step, CancelTask(s) PROVE Goal
  <2> DEFINE tn == [st EXCEPT ![s] = "Cancelled"]
             ready == {x \in Step : tn[x] = "Ready"}
             first == {x \in ready : \E e \in Deps[x] : tn[e] = "Cancelled"}
             blocked == Downstream(first, ready)
  <2>1. blocked \subseteq first \cup ready
    <3>1. first \in SUBSET Step /\ ready \in SUBSET Step
      OBVIOUS
    <3> HIDE DEF first, ready
    <3> QED
      BY <3>1, DownstreamWithin
  <2>2. st[s] # "Succeeded" /\ UNCHANGED data
        /\ st' = [x \in Step |-> IF x \in blocked THEN "Cancelled" ELSE tn[x]]
    BY <1>11 DEF CancelTask
  <2>3. tn[d] = "Succeeded"
    BY <1>b, <1>c, <2>2
  <2>4. d \notin first \cup ready
    BY <2>3
  <2> HIDE DEF tn, first, ready, blocked
  <2> QED
    BY <2>1, <2>2, <2>3, <2>4 DEF ResultStays
<1>12. ASSUME NEW s \in Step, Repeat(s) PROVE Goal
  <2>1. RepeatAllowed(s, st) /\ RepeatFrom(s, st, data)
    BY <1>12 DEF Repeat
  <2>2. CASE d \in Affected[s]
    BY <2>1, <2>2 DEF RepeatAllowed, Withdrawn
  <2>3. CASE d \notin Affected[s]
    BY <1>a, <2>1, <2>3, ResultRepeated DEF ResultStays
  <2> QED
    BY <2>2, <2>3
<1>13. ASSUME NEW s \in Step, NEW o \in {"Failed", "Cancelled"}, ReconcileStopped(s, o) PROVE Goal
  <2>1. st[s] # "Succeeded" /\ st' = FailFast([st EXCEPT ![s] = o]) /\ UNCHANGED data /\ o \in TaskStatus
    BY <1>13, <1>c DEF ReconcileStopped
  <2> QED
    BY <1>b, <2>1 DEF ResultStays
<1>14. ASSUME NEW p \in BOOLEAN, SetPaused(p) PROVE Goal
  BY <1>14, <1>a, ResultAdvanced DEF SetPaused, ResultStays
<1>15. CASE Restore \/ CancelRun
  BY <1>15, <1>a DEF Restore, Interrupted, Leased, CancelRun, ResultStays
<1> QED
  BY <1>1, <1>2, <1>3, <1>4, <1>5, <1>6, <1>7, <1>8, <1>9, <1>10, <1>11, <1>12, <1>13, <1>14, <1>15
     DEF Next, Undisturbed, Disturbance, Automatic, Complete

\* The results that an execution was given stay while it is under way.
LEMMA InputsStep ==
  ASSUME DependencyInv, [Next]_vars, NEW s \in Step, st[s] \in {"Running", "Uncertain"},
         rounds'[s] = rounds[s], NEW d \in Deps[s]
  PROVE  st'[d] = "Succeeded" /\ data'[d] = data[d]
<1>1. d \in Step /\ st[d] = "Succeeded"
  BY DefinitionType DEF DependencyInv, DependenciesHold, Started, DependenciesSucceeded
<1>2. ~Withdrawn(d)
  BY <1>1, AffectedClosed DEF Withdrawn
<1> QED
  BY <1>1, <1>2, ResultSteps DEF ResultStays

\* Every step of every run keeps the past: archived attempts stay, an execution
\* leaves its record only into the history, and the results that an execution
\* was given stay while it is under way.
THEOREM PastAlwaysKept == Spec => PastKept
<1>1. IdentityInv /\ [Next]_vars =>
        [\A s \in Step :
           /\ Len(attempts[s]) <= Len(attempts'[s])
           /\ SubSeq(attempts'[s], 1, Len(attempts[s])) = attempts[s]
           /\ exec[s] # NoLaunch /\ exec'[s] # exec[s] =>
                \E i \in DOMAIN attempts'[s] : attempts'[s][i].launch = exec[s]]_vars
  BY HistoryStep
<1>2. DependencyInv /\ [Next]_vars =>
        [\A s \in Step :
           st[s] \in {"Running", "Uncertain"} /\ rounds'[s] = rounds[s] =>
             \A d \in Deps[s] : st'[d] = "Succeeded" /\ data'[d] = data[d]]_vars
  BY InputsStep
<1> QED
  BY <1>1, <1>2, IdentityInit, IdentityNext, DependencyInit, DependencyNext, PTL
     DEF Spec, PastKept, HistoryKept, InputsFrozen

-----------------------------------------------------------------------------
(***************************************************************************)
(* Branches.  Program routers have no agent, so no member's profile lists  *)
(* them; nothing in the coordinator checks this, and it is assumed here.   *)
(***************************************************************************)
RoutersUnassigned == \A p \in MaySpawn : p[2] \notin DOMAIN Route

\* Step x waits for its launch or was started.
Live(t, l, x) == t[x] = "Ready" \/ l[x] # NoLaunch \/ t[x] \in StartedStatus

\* Nothing that is known about the sources and routers of x speaks against it.
Unopposed(t, dt, x) ==
  /\ \A c \in Cond[x] : t[c.source] = "Succeeded" => dt[c.source] \in c.accepts
  /\ (\A g \in Gate[x] : t[g.router] = "Succeeded") => RouteGateSatisfied(t, dt, x)

Selected(t, l, dt) == \A x \in Step : Live(t, l, x) => Unopposed(t, dt, x)

\* The sources and routers of a step are dependencies of it.
LEMMA SourcesAreDependencies ==
  ASSUME NEW x \in Step
  PROVE  /\ Deps[x] \in SUBSET Step
         /\ \A c \in Cond[x] : c.source \in Deps[x] /\ Structured(c.source)
         /\ \A g \in Gate[x] : g.router \in Deps[x] /\ (g.router \in DOMAIN Route \/ Structured(g.router))
BY DefinitionType, DefinitionValid DEF ValidPipeline

\* What is unopposed depends on the statuses and the data of dependencies only.
LEMMA UnopposedSame ==
  ASSUME NEW x \in Step, NEW t, NEW dt, NEW u, NEW du, Unopposed(t, dt, x),
         \A d \in Deps[x] : u[d] = "Succeeded" => t[d] = "Succeeded" /\ du[d] = dt[d]
  PROVE  Unopposed(u, du, x)
BY SourcesAreDependencies DEF Unopposed, RouteGateSatisfied

\* Stopping, leasing or forgetting work opposes nothing.
LEMMA SelectedFewer ==
  ASSUME NEW t, NEW l, NEW dt, Selected(t, l, dt), NEW u, NEW k, NEW du,
         \A x \in Step : Live(u, k, x) => Live(t, l, x),
         \A x \in Step : u[x] = "Succeeded" => t[x] = "Succeeded" /\ du[x] = dt[x]
  PROVE  Selected(u, k, du)
<1> SUFFICES ASSUME NEW x \in Step, Live(u, k, x) PROVE Unopposed(u, du, x)
  BY DEF Selected
<1>1. Unopposed(t, dt, x)
  BY DEF Selected
<1>2. \A d \in Deps[x] : u[d] = "Succeeded" => t[d] = "Succeeded" /\ du[d] = dt[d]
  BY SourcesAreDependencies
<1> QED
  BY <1>1, <1>2, UnopposedSame

\* advance_conditions leaves only unopposed steps ready.
LEMMA SelectedAdvanced ==
  ASSUME NEW t \in [Step -> TaskStatus], NEW l, NEW dt,
         \A x \in Step : l[x] # NoLaunch \/ t[x] \in StartedStatus => Unopposed(t, dt, x)
  PROVE  Selected(AdvanceConditions(t, l, dt), l, dt)
<1> DEFINE u == AdvanceConditions(t, l, dt)
           W == {s \in Step : t[s] = "Ready" /\ l[s] = NoLaunch}
           K == Downstream(Unmet(t, l, dt), W)
<1>1. \A x \in Step : u[x] = t[x] \/ (t[x] = "Ready" /\ l[x] = NoLaunch /\ u[x] = "Skipped")
  BY AdvanceConditionsEffect
<1>2. \A x \in Step : x \in Unmet(t, l, dt) => u[x] = "Skipped"
  <2>1. u = [s \in Step |-> IF s \in K THEN "Skipped" ELSE t[s]]
    BY DEF AdvanceConditions
  <2>2. \A x \in Step : x \in Unmet(t, l, dt) => x \in K
    BY DEF Downstream
  <2> HIDE DEF u, K
  <2> QED
    BY <2>1, <2>2
<1>3. ASSUME NEW x \in Step, Live(u, l, x) PROVE Unopposed(t, dt, x)
  <2>1. CASE l[x] # NoLaunch \/ t[x] \in StartedStatus
    BY <2>1
  <2>2. CASE ~(l[x] # NoLaunch \/ t[x] \in StartedStatus)
    <3> HIDE DEF u
    <3>1. u[x] = "Ready" /\ t[x] = "Ready" /\ l[x] = NoLaunch
      BY <1>1, <1>3, <2>2 DEF Live, StartedStatus
    <3>2. x \notin Unmet(t, l, dt)
      BY <1>2, <3>1
    <3> QED
      BY <3>1, <3>2 DEF Unmet, Unopposed, RouteGateSatisfied
  <2> QED
    BY <2>1, <2>2
<1>4. \A x \in Step : u[x] = "Succeeded" => t[x] = "Succeeded"
  BY <1>1
<1> HIDE DEF u, W, K
<1> SUFFICES ASSUME NEW x \in Step, Live(u, l, x) PROVE Unopposed(u, dt, x)
  BY DEF Selected, u
<1>5. \A d \in Deps[x] : u[d] = "Succeeded" => t[d] = "Succeeded" /\ dt[d] = dt[d]
  BY <1>4, SourcesAreDependencies
<1> QED
  BY <1>3, <1>5, UnopposedSame

\* Work that was started, and ready work whose dependencies succeeded, is
\* unopposed also after a step that keeps all results.
LEMMA StartedUnopposed ==
  ASSUME DependencyInv, Selected(st, lease, data), NEW t, NEW dt,
         \A d \in Step : st[d] = "Succeeded" => t[d] = "Succeeded" /\ dt[d] = data[d],
         \A x \in Step : lease[x] # NoLaunch \/ t[x] \in StartedStatus =>
           \/ lease[x] # NoLaunch \/ st[x] \in StartedStatus
           \/ st[x] = "Ready" /\ DependenciesSucceeded(st, x)
  PROVE  \A x \in Step : lease[x] # NoLaunch \/ t[x] \in StartedStatus => Unopposed(t, dt, x)
<1> SUFFICES ASSUME NEW x \in Step, lease[x] # NoLaunch \/ t[x] \in StartedStatus
             PROVE  Unopposed(t, dt, x)
  OBVIOUS
<1>1. DependenciesSucceeded(st, x)
  BY RestsIsDependenciesHold DEF DependencyInv, Rests
<1>2. Unopposed(st, data, x)
  BY DEF Selected, Live
<1>3. \A d \in Deps[x] : t[d] = "Succeeded" => st[d] = "Succeeded" /\ dt[d] = data[d]
  BY <1>1, SourcesAreDependencies DEF DependenciesSucceeded
<1> QED
  BY <1>2, <1>3, UnopposedSame

\* One task that is started, or is ready with succeeded dependencies, gets an
\* outcome and data; what is not selected then is skipped.
LEMMA SelectedSettled ==
  ASSUME DependencyInv, Selected(st, lease, data), NEW s \in Step, st[s] # "Succeeded",
         NEW o \in TaskStatus, NEW v,
         \/ o \notin StartedStatus
         \/ st[s] \in StartedStatus
         \/ st[s] = "Ready" /\ DependenciesSucceeded(st, s)
  PROVE  LET tn == [st EXCEPT ![s] = o]
             dn == [data EXCEPT ![s] = v]
         IN  \A x \in Step : lease[x] # NoLaunch \/ tn[x] \in StartedStatus => Unopposed(tn, dn, x)
<1> DEFINE tn == [st EXCEPT ![s] = o]
           dn == [data EXCEPT ![s] = v]
<1>1. st \in [Step -> TaskStatus] /\ data \in [Step -> Value]
  BY DEF DependencyInv, TypeOK
<1>2. \A d \in Step : st[d] = "Succeeded" => tn[d] = "Succeeded" /\ dn[d] = data[d]
  BY <1>1
<1>3. \A x \in Step : lease[x] # NoLaunch \/ tn[x] \in StartedStatus =>
           \/ lease[x] # NoLaunch \/ st[x] \in StartedStatus
           \/ st[x] = "Ready" /\ DependenciesSucceeded(st, x)
  BY <1>1
<1> HIDE DEF tn, dn
<1>4. \A x \in Step : lease[x] # NoLaunch \/ tn[x] \in StartedStatus => Unopposed(tn, dn, x)
  BY <1>2, <1>3, StartedUnopposed
<1> QED
  BY <1>4 DEF tn, dn

\* repeat_from resets a part that nothing started outside of it rests on.
LEMMA SelectedRepeated ==
  ASSUME NEW s \in Step, NEW t \in [Step -> TaskStatus], NEW dt, RepeatAllowed(s, t), RepeatFrom(s, t, dt),
         \A x \in Step : lease[x] # NoLaunch \/ t[x] \in StartedStatus => Unopposed(t, dt, x)
  PROVE  Selected(st', lease, data')
<1> DEFINE dn == [x \in Step |-> IF x \in Affected[s] THEN NoData ELSE dt[x]]
           tn == [x \in Step |-> IF x \in Affected[s] THEN "Ready" ELSE t[x]]
<1>1. tn \in [Step -> TaskStatus]
  BY DEF TaskStatus
<1>2. st' = AdvanceConditions(tn, lease, dn) /\ data' = dn
  BY DEF RepeatFrom
<1>3. ASSUME NEW x \in Step, lease[x] # NoLaunch \/ tn[x] \in StartedStatus
      PROVE  Unopposed(tn, dn, x)
  <2>1. x \notin Affected[s] /\ (lease[x] # NoLaunch \/ t[x] \in StartedStatus)
    BY <1>3 DEF RepeatAllowed, StartedStatus
  <2>2. \A d \in Deps[x] : d \in Step /\ d \notin Affected[s]
    BY <2>1, AffectedClosed, SourcesAreDependencies
  <2>3. \A d \in Deps[x] : tn[d] = t[d] /\ dn[d] = dt[d]
    BY <2>2
  <2>4. \A d \in Deps[x] : tn[d] = "Succeeded" => t[d] = "Succeeded" /\ dn[d] = dt[d]
    BY <2>3
  <2>5. Unopposed(t, dt, x)
    BY <2>1
  <2> HIDE DEF tn, dn
  <2> QED
    BY <2>4, <2>5, UnopposedSame
<1> HIDE DEF tn, dn
<1>4. Selected(AdvanceConditions(tn, lease, dn), lease, dn)
  BY <1>1, <1>3, SelectedAdvanced
<1> QED
  BY <1>2, <1>4

\* A program router is never leased, so its outcome is never uncertain.
RoutersIdle == \A r \in DOMAIN Route : lease[r] = NoLaunch /\ st[r] \notin {"Running", "Uncertain"}

\* Every operation leaves program routers to the coordinator itself.
LEMMA RoutersIdleNext ==
  ASSUME RoutersUnassigned, TypeOK, RoutersIdle, [Next]_vars
  PROVE  RoutersIdle'
<1> SUFFICES ASSUME NEW r \in DOMAIN Route PROVE lease'[r] = NoLaunch /\ st'[r] \notin {"Running", "Uncertain"}
  BY DEF RoutersIdle
<1>1. r \in Step /\ RecordStep(r) /\ lease[r] = NoLaunch /\ st[r] \notin {"Running", "Uncertain"}
  BY DefinitionType, RecordSteps DEF RoutersIdle
<1>2. ~GetsLease(r)
  BY DEF GetsLease, RoutersUnassigned
<1> QED
  BY <1>1, <1>2 DEF RecordStep, Keeps, Ended, Dispatches, Archives

\* The inductive invariant of the argument about branches.
BranchInv == DependencyInv /\ RoutersIdle /\ Selected(st, lease, data)

\* Before anything succeeded nothing is opposed.
LEMMA BranchInit == Init => BranchInv
<1> SUFFICES ASSUME Init, NEW x \in Step PROVE Unopposed(st, data, x)
  BY DependencyInit, DefinitionType DEF BranchInv, Selected, RoutersIdle, Init
<1>1. \A d \in Step : st[d] # "Succeeded"
  BY DEF Init
<1> QED
  BY <1>1, SourcesAreDependencies DEF Unopposed, RouteGateSatisfied

\* Every operation leaves only unopposed steps ready or started.
LEMMA SelectedNext ==
  ASSUME BranchInv, [Next]_vars
  PROVE  Selected(st', lease', data')
<1> DEFINE Goal == Selected(st', lease', data')
<1>a. /\ DependencyInv /\ TypeOK /\ Selected(st, lease, data) /\ RoutersIdle /\ PinnedPassSound
      /\ st \in [Step -> TaskStatus] /\ data \in [Step -> Value] /\ lease \in [Step -> Launch \cup {NoLaunch}]
  BY DEF BranchInv, DependencyInv, TypeOK
<1>b. ASSUME \A x \in Step : Live(st', lease', x) => Live(st, lease, x),
             \A x \in Step : st'[x] = "Succeeded" => st[x] = "Succeeded" /\ data'[x] = data[x]
      PROVE  Goal
  BY <1>a, <1>b, SelectedFewer
<1>c. /\ "Failed" \in TaskStatus /\ "Succeeded" \in TaskStatus /\ "AwaitingApproval" \in TaskStatus
      /\ "Cancelled" \in TaskStatus
      /\ "Failed" \notin StartedStatus /\ "Cancelled" \notin StartedStatus
  BY DEF TaskStatus, StartedStatus
<1>d. ASSUME NEW t \in [Step -> TaskStatus], UNCHANGED lease, st' = AdvanceConditions(t, lease, data'),
             \A x \in Step : lease[x] # NoLaunch \/ t[x] \in StartedStatus => Unopposed(t, data', x)
      PROVE  Goal
  BY <1>d, SelectedAdvanced
<1>e. ASSUME NEW s \in Step, st[s] # "Succeeded", NEW o \in TaskStatus, UNCHANGED lease,
             \/ o \notin StartedStatus
             \/ st[s] \in StartedStatus
             \/ st[s] = "Ready" /\ DependenciesSucceeded(st, s),
             NEW v, data' = [data EXCEPT ![s] = v],
             st' = AdvanceConditions([st EXCEPT ![s] = o], lease, data')
      PROVE  Goal
  <2> DEFINE tn == [st EXCEPT ![s] = o]
             dn == [data EXCEPT ![s] = v]
  <2>1. \A x \in Step : lease[x] # NoLaunch \/ tn[x] \in StartedStatus => Unopposed(tn, dn, x)
    BY <1>a, <1>e, SelectedSettled
  <2>2. tn \in [Step -> TaskStatus] /\ data' = dn /\ st' = AdvanceConditions(tn, lease, data')
    BY <1>a, <1>e
  <2> HIDE DEF tn, dn
  <2> QED
    BY <1>d, <1>e, <2>1, <2>2
<1>f. ASSUME NEW s \in Step, st[s] # "Succeeded", NEW o, o \in {"Failed", "Cancelled"}, UNCHANGED data,
             st' = FailFast([st EXCEPT ![s] = o]), \A x \in Step : lease'[x] \in {lease[x], NoLaunch}
      PROVE  Goal
  <2>1. \A x \in Step : st'[x] = st[x] \/ st'[x] \in {"Failed", "Cancelled"}
    BY <1>a, <1>f DEF FailFast
  <2> QED
    BY <1>b, <1>f, <2>1 DEF Live, StartedStatus
<1>1. CASE UNCHANGED vars
  BY <1>1, <1>a DEF vars
<1>2. CASE AdvanceProgramRouters
  <2> DEFINE dn == [s \in Step |-> IF s \in RoutersReady THEN Selection(s) ELSE data[s]]
             tn == [s \in Step |-> IF s \notin RoutersReady THEN st[s]
                             ELSE IF dn[s] = NoData THEN "Failed" ELSE "Succeeded"]
  <2>1. \A x \in Step : x \in RoutersReady => st[x] = "Ready" /\ DependenciesSucceeded(st, x)
    BY DEF RoutersReady
  <2>2. tn \in [Step -> TaskStatus]
    BY <1>a DEF TaskStatus
  <2>3. \A d \in Step : st[d] = "Succeeded" => tn[d] = "Succeeded" /\ dn[d] = data[d]
    BY <2>1
  <2>4. \A x \in Step : tn[x] = st[x] \/ x \in RoutersReady
    OBVIOUS
  <2>5. st' = AdvanceConditions(tn, lease, dn) /\ data' = dn /\ UNCHANGED lease
    BY <1>2 DEF AdvanceProgramRouters
  <2> HIDE DEF tn, dn
  <2>6. \A x \in Step : lease[x] # NoLaunch \/ tn[x] \in StartedStatus => Unopposed(tn, dn, x)
    BY <1>a, <2>1, <2>3, <2>4, StartedUnopposed
  <2> QED
    BY <1>d, <2>2, <2>5, <2>6
<1>3. ASSUME NEW s \in DOMAIN Pin, AdmitPinned(s) PROVE Goal
  <2>0. s \in Step
    BY DefinitionType
  <2>1. st[s] = "Ready" /\ DependenciesSucceeded(st, s) /\ UNCHANGED lease
    BY <1>a, <1>3 DEF AdmitPinned, First, PinnedReady, ReadyTasks, PinnedPassSound
  <2>2. CASE st' = FailFast([st EXCEPT ![s] = "Failed"]) /\ UNCHANGED data
    BY <1>f, <2>0, <2>1, <2>2
  <2>3. ASSUME NEW o \in TaskStatus, data' = [data EXCEPT ![s] = Pin[s]],
               st' = AdvanceConditions([st EXCEPT ![s] = o], lease, data') PROVE Goal
    BY <1>e, <2>0, <2>1, <2>3
  <2> QED
    BY <1>3, <1>c, <2>2, <2>3 DEF AdmitPinned
<1>4. ASSUME NEW s \in Step, st[s] = "Ready", UNCHANGED <<st, data>>, TakeLease(s) PROVE Goal
  BY <1>4, <1>a, <1>b DEF TakeLease, Live
<1>5. ASSUME NEW s \in Step, Launching(s) PROVE Goal
  <2>1. CASE LeaseNext(s)
    BY <1>4, <2>1 DEF LeaseNext, First, ReadyTasks
  <2>2. CASE DispatchLeased(s)
    BY <1>a, <1>b, <2>2 DEF DispatchLeased, Leased, Live, StartedStatus
  <2> QED
    BY <1>5, <2>1, <2>2 DEF Launching
<1>6. ASSUME NEW s \in Step, Spawn(s) PROVE Goal
  <2>1. ASSUME NEW a \in Step, LeaseControlledSpawn(a, s) PROVE Goal
    BY <1>4, <2>1 DEF LeaseControlledSpawn
  <2>2. ASSUME NEW a \in Step, AddSpawnedAgent(a, s) PROVE Goal
    <3>1. Deps[s] = {}
      BY <2>2, DefinitionValid DEF AddSpawnedAgent, ValidPipeline
    <3>2. Unopposed(st', data', s)
      BY <3>1, SourcesAreDependencies DEF Unopposed, RouteGateSatisfied
    <3>3. /\ \A x \in Step : x # s => st'[x] = st[x] /\ lease'[x] = lease[x]
          /\ UNCHANGED data /\ st'[s] = "Ready"
      BY <1>a, <2>2 DEF AddSpawnedAgent, TakeLease
    <3>4. ASSUME NEW x \in Step, x # s, Live(st', lease', x) PROVE Unopposed(st', data', x)
      <4>1. Unopposed(st, data, x)
        BY <1>a, <3>3, <3>4 DEF Live, Selected
      <4>2. \A d \in Deps[x] : st'[d] = "Succeeded" => st[d] = "Succeeded" /\ data'[d] = data[d]
        BY <3>3, SourcesAreDependencies
      <4> QED
        BY <4>1, <4>2, UnopposedSame
    <3> QED
      BY <3>2, <3>4 DEF Selected
  <2> QED
    BY <1>6, <2>1, <2>2 DEF Spawn
<1>7. ASSUME NEW s \in Step, CompleteFailed(s) PROVE Goal
  <2> DEFINE tn == FailFast([st EXCEPT ![s] = "Failed"])
             dn == [data EXCEPT ![s] = NoData]
  <2>1. st[s] = "Running" /\ UNCHANGED lease /\ data' = dn /\ st' = AdvanceConditions(tn, lease, data')
    BY <1>7 DEF CompleteFailed
  <2>2. tn \in [Step -> TaskStatus] /\ \A x \in Step : tn[x] = st[x] \/ tn[x] \in {"Failed", "Cancelled"}
    BY <1>a DEF FailFast, TaskStatus
  <2>3. \A d \in Step : st[d] = "Succeeded" => tn[d] = "Succeeded" /\ dn[d] = data[d]
    BY <1>a, <2>1 DEF FailFast
  <2> HIDE DEF tn, dn
  <2>4. \A x \in Step : lease[x] # NoLaunch \/ tn[x] \in StartedStatus => Unopposed(tn, dn, x)
    BY <1>a, <1>c, <2>2, <2>3, StartedUnopposed
  <2> QED
    BY <1>d, <2>1, <2>2, <2>4
<1>8. ASSUME NEW s \in Step, NEW v \in Value, CompleteAccepted(s, v) \/ CompleteHeld(s, v) \/ CompleteConflict(s, v)
      PROVE  Goal
  <2>1. st[s] = "Running" /\ UNCHANGED lease /\ data' = [data EXCEPT ![s] = v]
    BY <1>8 DEF CompleteAccepted, CompleteHeld, CompleteConflict
  <2>2. PICK o \in TaskStatus : st' = AdvanceConditions([st EXCEPT ![s] = o], lease, data')
    BY <1>8, <1>c DEF CompleteAccepted, CompleteHeld, CompleteConflict
  <2>3. st[s] # "Succeeded" /\ st[s] \in StartedStatus
    BY <2>1 DEF StartedStatus
  <2> QED
    BY <1>e, <2>1, <2>2, <2>3
<1>9. ASSUME NEW s \in Step, NEW v \in Value, CompleteRepeat(s, v) PROVE Goal
  <2> DEFINE tn == [st EXCEPT ![s] = "Succeeded"]
             dn == [data EXCEPT ![s] = v]
  <2>1. /\ Review[s].from \in Step /\ RepeatAllowed(Review[s].from, tn) /\ RepeatFrom(Review[s].from, tn, dn)
        /\ st[s] = "Running" /\ UNCHANGED lease
    BY <1>9, DefinitionType DEF CompleteRepeat, RejectedBy
  <2>2. st[s] # "Succeeded" /\ st[s] \in StartedStatus
    BY <2>1 DEF StartedStatus
  <2>3. \A x \in Step : lease[x] # NoLaunch \/ tn[x] \in StartedStatus => Unopposed(tn, dn, x)
    BY <1>a, <1>c, <2>2, SelectedSettled
  <2>4. tn \in [Step -> TaskStatus]
    BY <1>a, <1>c
  <2> HIDE DEF tn, dn
  <2>5. Selected(st', lease, data')
    BY <2>1, <2>3, <2>4, SelectedRepeated
  <2> QED
    BY <2>1, <2>5
<1>10. ASSUME NEW s \in Step, RejectReadyTask(s) \/ RejectLeased(s) PROVE Goal
  <2>1. st[s] # "Succeeded" /\ st' = FailFast([st EXCEPT ![s] = "Failed"]) /\ UNCHANGED data
    BY <1>10 DEF RejectReadyTask, RejectLeased, First, ReadyTasks, Leased
  <2>2. \A x \in Step : lease'[x] \in {lease[x], NoLaunch}
    BY <1>a, <1>10 DEF RejectReadyTask, RejectLeased
  <2> QED
    BY <1>f, <2>1, <2>2
<1>11. ASSUME NEW s \in Step, NEW approved \in BOOLEAN, Decide(s, approved) PROVE Goal
  <2>1. /\ st[s] # "Succeeded" /\ st[s] \in StartedStatus /\ UNCHANGED <<lease, data>>
        /\ data' = [data EXCEPT ![s] = data[s]]
    BY <1>11, <1>a DEF Decide, StartedStatus
  <2>2. PICK o \in TaskStatus : st' = AdvanceConditions([st EXCEPT ![s] = o], lease, data')
    BY <1>11, <1>c, <2>1 DEF Decide
  <2> QED
    BY <1>e, <2>1, <2>2
<1>12. ASSUME NEW s \in Step, ReleaseLease(s) \/ MarkTaskUncertain(s) PROVE Goal
  BY <1>12, <1>a, <1>b DEF ReleaseLease, MarkTaskUncertain, Leased, Live, StartedStatus
<1>13. ASSUME NEW s \in Step, RetryUncertain(s) PROVE Goal
  BY <1>13, <1>a, <1>b DEF RetryUncertain, Live, StartedStatus
<1>14. ASSUME NEW s \in Step, ReconcileSucceeded(s) PROVE Goal
  <2>1. st[s] = "Uncertain" /\ ~Structured(s) /\ st' = [st EXCEPT ![s] = "Succeeded"] /\ UNCHANGED <<lease, data>>
    BY <1>14 DEF ReconcileSucceeded
  <2>2. s \notin DOMAIN Route
    BY <1>a, <2>1 DEF RoutersIdle
  <2>3. ASSUME NEW x \in Step, Live(st', lease', x) PROVE Unopposed(st', data', x)
    <3>1. Unopposed(st, data, x)
      BY <1>a, <2>1, <2>3 DEF Live, StartedStatus, Selected
    <3>2. \A c \in Cond[x] : c.source # s
      BY <2>1, SourcesAreDependencies
    <3>3. \A g \in Gate[x] : g.router # s
      BY <2>1, <2>2, SourcesAreDependencies
    <3>4. \A y \in Step : y # s => st'[y] = st[y] /\ data'[y] = data[y]
      BY <1>a, <2>1
    <3>5. /\ \A c \in Cond[x] : st'[c.source] = st[c.source] /\ data'[c.source] = data[c.source]
          /\ \A g \in Gate[x] : st'[g.router] = st[g.router] /\ data'[g.router] = data[g.router]
      BY <3>2, <3>3, <3>4, SourcesAreDependencies
    <3> QED
      BY <3>1, <3>5 DEF Unopposed, RouteGateSatisfied
  <2> QED
    BY <2>3 DEF Selected
<1>15. ASSUME NEW s \in Step, NEW o \in {"Failed", "Cancelled"}, ReconcileStopped(s, o) PROVE Goal
  BY <1>15, <1>f DEF ReconcileStopped
<1>16. ASSUME NEW s \in Step, CancelTask(s) PROVE Goal
  <2> DEFINE tn == [st EXCEPT ![s] = "Cancelled"]
             ready == {x \in Step : tn[x] = "Ready"}
             blocked == Downstream({x \in ready : \E d \in Deps[x] : tn[d] = "Cancelled"}, ready)
  <2>1. st' = [x \in Step |-> IF x \in blocked THEN "Cancelled" ELSE tn[x]] /\ UNCHANGED data
    BY <1>16 DEF CancelTask
  <2> HIDE DEF blocked
  <2>2. \A x \in Step : st'[x] = st[x] \/ st'[x] = "Cancelled"
    BY <1>a, <2>1
  <2>3. \A x \in Step : lease'[x] \in {lease[x], NoLaunch}
    BY <1>16, <1>a DEF CancelTask
  <2> QED
    BY <1>b, <2>1, <2>2, <2>3 DEF Live, StartedStatus
<1>17. ASSUME NEW s \in Step, Repeat(s) PROVE Goal
  <2>1. RepeatAllowed(s, st) /\ RepeatFrom(s, st, data) /\ UNCHANGED lease
    BY <1>17 DEF Repeat
  <2>2. \A x \in Step : lease[x] # NoLaunch \/ st[x] \in StartedStatus => Unopposed(st, data, x)
    BY <1>a DEF Selected, Live
  <2>3. Selected(st', lease, data')
    BY <1>a, <2>1, <2>2, SelectedRepeated
  <2> QED
    BY <2>1, <2>3
<1>18. ASSUME NEW p \in BOOLEAN, SetPaused(p) PROVE Goal
  <2>1. \A x \in Step : lease[x] # NoLaunch \/ st[x] \in StartedStatus => Unopposed(st, data, x)
    BY <1>a DEF Selected, Live
  <2>2. Selected(AdvanceConditions(st, lease, data), lease, data)
    BY <1>a, <2>1, SelectedAdvanced
  <2> QED
    BY <1>18, <2>2 DEF SetPaused
<1>19. CASE Restore \/ CancelRun
  BY <1>19, <1>a, <1>b DEF Restore, Interrupted, Leased, CancelRun, Live, StartedStatus
<1> QED
  BY <1>1, <1>2, <1>3, <1>5, <1>6, <1>7, <1>8, <1>9, <1>10, <1>11, <1>12, <1>13, <1>14, <1>15, <1>16,
     <1>17, <1>18, <1>19 DEF Next, Undisturbed, Disturbance, Automatic, Complete

\* In every run of every valid pipeline whose program routers no member may
\* spawn, a step whose condition is false or whose route was not selected is
\* never leased or run, also not by an agent that spawns it, and a pinned step
\* is never launched.
THEOREM BranchesAlwaysSound ==
  ASSUME RoutersUnassigned
  PROVE  Spec => []BranchesSound
<1>1. BranchInv /\ [Next]_vars => BranchInv'
  BY DependencyNext, RoutersIdleNext, SelectedNext DEF BranchInv, DependencyInv, Selected, Live, Unopposed,
     RouteGateSatisfied
<1>2. BranchInv => BranchesRespected
  <2> SUFFICES ASSUME BranchInv, NEW s \in Step, Started(s)
               PROVE  ConditionMet(data, s) /\ RouteGateSatisfied(st, data, s)
    BY DEF BranchesRespected
  <2>1. DependenciesSucceeded(st, s)
    BY DEF BranchInv, DependencyInv, DependenciesHold
  <2>2. Unopposed(st, data, s)
    BY DEF BranchInv, Selected, Live, Started, StartedStatus
  <2>3. /\ \A c \in Cond[s] : st[c.source] = "Succeeded"
        /\ \A g \in Gate[s] : st[g.router] = "Succeeded"
    BY <2>1, SourcesAreDependencies DEF DependenciesSucceeded
  <2> QED
    BY <2>2, <2>3 DEF Unopposed, ConditionMet
<1> QED
  BY <1>1, <1>2, BranchInit, TypeCorrect, PinnedAlwaysUnlaunched, PTL DEF Spec, BranchesSound
=============================================================================
