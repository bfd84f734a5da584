---------------------------- MODULE Subpipelines ----------------------------
(***************************************************************************)
(* Runs inside runs: a sub-pipeline step starts a child run of a launch    *)
(* command and waits for its end (orchestration_subpipeline_steps.rs,      *)
(* subpipelines.rs and the sub-pipeline part of the orchestration crate).  *)
(*                                                                         *)
(* Every run has a task of its own (a native turn) and at most one         *)
(* sub-pipeline step, frozen when the run started.  Four kinds of actors   *)
(* work on the tree of runs at the same time: the scheduling pass of each  *)
(* run, which holds the run's gate while it starts a child; cancellations, *)
(* which mark and hold a run and the running children below it, cancel     *)
(* the deepest first and let go; the engine that records the ends of       *)
(* children on their parents, from snapshots of committed generations; and *)
(* the person, who edits definitions, reconciles or retries uncertain      *)
(* tasks and deletes the records of finished runs.  The host may restart.  *)
(***************************************************************************)
EXTENDS Integers, Sequences, FiniteSets

CONSTANTS
  Cmd,        \* launch commands
  Canceller,  \* concurrent cancellations
  None, Gone, \* absent; a deleted record
  MaxRun,     \* run ids
  MaxRoot,    \* the last id a run started by the person may take
  MaxDepth,   \* MAX_SUBPIPELINE_DEPTH
  MaxEvent    \* edits, losses, retries, cancellations and restarts, together

VARIABLES
  calls,      \* the command that each command's pipeline runs now
  runs,       \* the run records
  gate,       \* who holds the dispatch gate of each run
  marked,     \* runs a cancellation has admitted (is_run_cancelling)
  can,        \* the cancellations
  engine,     \* the sub-pipeline engine
  events      \* events so far, for MaxEvent

vars == <<calls, runs, gate, marked, can, engine, events>>

Id == 1..MaxRun
Ended == {"Succeeded", "Failed", "Cancelled"}
Task == Ended \cup {"Ready", "Running", "Uncertain"}

Runs == {r \in Id : runs[r] \notin {None, Gone}}
Fresh(r) == runs[r] = None /\ \A q \in Id : q < r => runs[q] # None

----------------------------------------------------------------------------
(* One run.                                                                *)

\* refresh_status over the two tasks; a run without a sub-pipeline step has only
\* its own task.
Tasks(x) == {x.own} \cup (IF x.calls = None THEN {} ELSE {x.sub})
Refreshed(x) ==
  LET T == Tasks(x)
  IN [x EXCEPT !.status =
        IF "Uncertain" \in T THEN "Uncertain"
        ELSE IF "Running" \in T THEN "Running"
        ELSE IF "Failed" \in T THEN "Failed"
        ELSE IF T = {"Succeeded"} THEN "Succeeded"
        ELSE IF "Ready" \in T THEN "Running" ELSE "Cancelled"]

\* Work that has not started is cancelled when other work fails.
FailFast(x) == [x EXCEPT !.sub = IF @ = "Ready" THEN "Cancelled" ELSE @]

OwnTask(x, o) == Refreshed(IF o = "Failed" THEN FailFast([x EXCEPT !.own = o])
                           ELSE [x EXCEPT !.own = o])
SubTask(x, o) == Refreshed([x EXCEPT !.sub = o])

\* create_run_in: the pipeline is frozen in the run.
Created(c, up) ==
  [cmd |-> c, up |-> up, depth |-> IF up = None THEN 0 ELSE runs[up].depth + 1,
   calls |-> calls[c], own |-> "Running", sub |-> "Ready", leased |-> FALSE,
   kid |-> None, said |-> FALSE, stuck |-> FALSE, status |-> "Running"]

\* A commit of the store wakes the engine.
Wakes == engine' = [engine EXCEPT !.wake = TRUE]

Change(r, x) == runs' = [runs EXCEPT ![r] = x] /\ Wakes

StartRun(r, c) ==
  /\ r <= MaxRoot
  /\ Fresh(r)
  /\ runs' = [runs EXCEPT ![r] = Created(c, None)]
  /\ Wakes
  /\ UNCHANGED <<calls, gate, marked, can, events>>

\* The native turn of a run ends, or its outcome is lost.
OwnEnds(r, o) ==
  /\ runs[r].own = "Running"
  /\ Change(r, OwnTask(runs[r], o))
  /\ UNCHANGED <<calls, gate, marked, can, events>>

Event == events < MaxEvent /\ events' = events + 1

OwnLost(r) ==
  /\ runs[r].own = "Running"
  /\ Event
  /\ Change(r, OwnTask(runs[r], "Uncertain"))
  /\ UNCHANGED <<calls, gate, marked, can>>

\* reconcile_uncertain_task: the person says how an uncertain task ended.
Reconcile(r, o) ==
  /\ runs[r].status = "Uncertain"
  /\ LET x == runs[r]
         y == IF x.own = "Uncertain" THEN OwnTask(x, o)
              ELSE SubTask([x EXCEPT !.said = TRUE], o)
     IN Change(r, IF o = "Succeeded" THEN y ELSE Refreshed(FailFast(y)))
  /\ UNCHANGED <<calls, gate, marked, can, events>>

\* retry_uncertain_task: an uncertain sub-pipeline step becomes ready again.
RetrySub(r) ==
  /\ runs[r].sub = "Uncertain"
  /\ Event
  /\ Change(r, [runs[r] EXCEPT !.sub = "Ready", !.kid = None, !.said = FALSE, !.status = "Running"])
  /\ UNCHANGED <<calls, gate, marked, can>>

\* Whether a running step still waits for the end of r.
ParentWaitsFor(r) ==
  LET p == runs[r].up
  IN /\ p # None
     /\ runs[p] # Gone
     /\ runs[p].sub = "Running"
     /\ runs[p].kid = r

DeleteRun(r) ==
  /\ runs[r].status \in Ended
  /\ ~ParentWaitsFor(r)
  /\ Change(r, Gone)
  /\ UNCHANGED <<calls, gate, marked, can, events>>

\* The person changes what a command's pipeline runs; a save that would let a
\* command reach itself is refused.
Redefine(c, d) ==
  /\ calls[c] # d
  /\ Event
  /\ calls' = [calls EXCEPT ![c] = d]
  /\ ~\E S \in SUBSET Cmd \ {{}} : \A e \in S : calls'[e] \in S
  /\ Wakes
  /\ UNCHANGED <<runs, gate, marked, can>>

----------------------------------------------------------------------------
(* Starting a child run.                                                   *)

\* lease_next_pipeline_step, in a pass that holds the run's gate.
PassLeases(r) ==
  /\ gate[r] = "free"
  /\ r \notin marked
  /\ runs[r].status = "Running"
  /\ runs[r].calls # None
  /\ runs[r].sub = "Ready"
  /\ gate' = [gate EXCEPT ![r] = "pass"]
  /\ Change(r, [runs[r] EXCEPT !.leased = TRUE])
  /\ UNCHANGED <<calls, marked, can, events>>

\* The commands of r and of the runs above it, as far as their records exist.
RECURSIVE Ancestors(_)
Ancestors(r) ==
  IF r = None \/ runs[r] = Gone THEN {} ELSE {runs[r].cmd} \cup Ancestors(runs[r].up)

\* plan_child_start: does this run's step start its child?
ChildMayStart(r) ==
  /\ runs[r].depth + 1 <= MaxDepth
  /\ runs[r].calls \notin Ancestors(r)

\* A lease on a task that other work has stopped stays on it.
Leased(r) == r \in Runs /\ runs[r].sub = "Ready" /\ runs[r].leased

Unlocked(r) == gate' = [gate EXCEPT ![r] = "free"]

\* start_pipeline_child: one transaction creates the child and dispatches the step.
PassStartsChild(r, k) ==
  /\ gate[r] = "pass"
  /\ r \notin marked
  /\ Leased(r) /\ runs[r].status = "Running"
  /\ Fresh(k)
  /\ ChildMayStart(r)
  /\ runs' = [runs EXCEPT ![k] = Created(runs[r].calls, r),
                          ![r] = [@ EXCEPT !.leased = FALSE, !.sub = "Running",
                                           !.kid = k]]
  /\ Wakes
  /\ Unlocked(r)
  /\ UNCHANGED <<calls, marked, can, events>>

\* A certain refusal (the reference, the depth, a cycle or the child's inputs).
PassRefuses(r) ==
  /\ gate[r] = "pass"
  /\ r \notin marked
  /\ Leased(r) /\ runs[r].status = "Running"
  /\ ~ChildMayStart(r)
  /\ Change(r, Refreshed([runs[r] EXCEPT !.leased = FALSE, !.sub = "Failed"]))
  /\ Unlocked(r)
  /\ UNCHANGED <<calls, marked, can, events>>

\* A cancellation was admitted after the lease, or the run changed: nothing started.
\* So does a pass when every id is used.
PassReleases(r) ==
  /\ gate[r] = "pass"
  /\ \/ r \in marked
     \/ Leased(r) => runs[r].status # "Running"
     \/ \A k \in Id : runs[k] # None
  /\ Change(r, IF Leased(r) THEN [runs[r] EXCEPT !.leased = FALSE] ELSE runs[r])
  /\ Unlocked(r)
  /\ UNCHANGED <<calls, marked, can, events>>

----------------------------------------------------------------------------
(* Cancellation of a run: cancel_scope, hold_subpipeline_children and      *)
(* cancel_held_run.                                                        *)

Idle == [pc |-> "idle"]

\* The children of r that are running now.
RunningChildren(r) ==
  LET x == runs[r]
  IN IF x \notin {None, Gone} /\ x.sub = "Running" /\ x.kid # None
        /\ runs[x.kid] \notin {None, Gone} /\ runs[x.kid].status = "Running"
     THEN {x.kid} ELSE {}

CancelBegins(k, r) ==
  /\ can[k] = Idle
  /\ r \notin marked
  /\ Event
  /\ marked' = marked \cup {r}
  /\ can' = [can EXCEPT ![k] = [pc |-> "gate", root |-> r, held |-> <<>>, at |-> r]]
  /\ UNCHANGED <<calls, runs, gate, engine>>

\* Waits for the dispatch gate of the run it has marked.
CancelLocks(k) ==
  /\ can[k].pc = "gate"
  /\ gate[can[k].at] = "free"
  /\ gate' = [gate EXCEPT ![can[k].at] = "cancel"]
  /\ can' = [can EXCEPT ![k].pc = "down",
                        ![k].held = IF can[k].at = can[k].root THEN @ ELSE Append(@, can[k].at)]
  /\ UNCHANGED <<calls, runs, marked, engine, events>>

\* One level down; a child that another cancellation holds is left to it.
CancelDescends(k) ==
  /\ can[k].pc = "down"
  /\ LET kids == RunningChildren(can[k].at) \ marked
     IN IF kids # {}
        THEN \E q \in kids : /\ marked' = marked \cup {q}
                             /\ can' = [can EXCEPT ![k].pc = "gate", ![k].at = q]
        ELSE /\ can' = [can EXCEPT ![k].pc = "plan"]
             /\ UNCHANGED marked
  /\ UNCHANGED <<calls, runs, gate, engine, events>>

\* Mutant: an uncertain child counts as stopped.
ChildOutcomeHopeful(x) ==
  IF runs[x.kid] \in {None, Gone} THEN "none"
  ELSE CASE runs[x.kid].status \in {"Cancelled", "Uncertain"} -> "Interrupted"
         [] runs[x.kid].status \in {"Succeeded", "Failed"} -> "ended"
         [] OTHER -> "none"

\* How the child of a running step ended, as evidence that it stopped.
ChildOutcome(x) ==
  IF runs[x.kid] \in {None, Gone} THEN "none"
  ELSE CASE runs[x.kid].status = "Cancelled" -> "Interrupted"
         [] runs[x.kid].status \in {"Succeeded", "Failed"} -> "ended"
         [] OTHER -> "none"

\* The evidence for the run it cancels now: the turn is interrupted, has ended by
\* itself, or gave no proof in time.
CancelProves(k, own) ==
  /\ can[k].pc = "plan"
  /\ can[k].at \in Runs
  /\ runs[can[k].at].status = "Running"
  /\ LET x == runs[can[k].at]
     IN /\ (own # "idle") = (x.own = "Running")
        /\ can' = [can EXCEPT ![k] =
                    [pc |-> "commit", root |-> @.root, held |-> @.held, at |-> @.at, own |-> own,
                     sub |-> IF x.sub = "Running" THEN ChildOutcome(x) ELSE "idle",
                     kid |-> x.kid]]
  /\ UNCHANGED <<calls, runs, gate, marked, engine, events>>

\* commit_cancel_after_native_stop.
Cancelled(x) ==
  [x EXCEPT !.own = IF @ = "Running" THEN "Cancelled" ELSE @,
            !.sub = IF @ \in {"Running", "Ready"} THEN "Cancelled" ELSE @,
            !.leased = @ /\ x.sub \notin {"Running", "Ready"}, !.status = "Cancelled"]

\* A partly stopped run is uncertain where nothing proved how the task ended.
Doubted(x, c) ==
  LET y == IF c.own \in {"Interrupted", "none"} /\ x.own = "Running"
           THEN [x EXCEPT !.own = "Uncertain"] ELSE x
      z == IF c.sub \in {"Interrupted", "none"} /\ y.sub = "Running" /\ y.kid = c.kid
           THEN [y EXCEPT !.sub = "Uncertain"] ELSE y
  IN IF z = x THEN x ELSE [z EXCEPT !.status = "Uncertain"]

\* The next run to cancel: the one above in what is held, then the root.
Up(c) ==
  LET i == CHOOSE j \in 0..Len(c.held) : (IF j = 0 THEN c.root ELSE c.held[j]) = c.at
  IN IF i <= 1 THEN c.root ELSE c.held[i - 1]

\* Releases what is held when only the root is left.
Climb(k, c) ==
  IF c.at = c.root
  THEN /\ can' = [can EXCEPT ![k] = Idle]
       /\ gate' = [gate EXCEPT ![c.root] = "free"]
       /\ marked' = marked \ {c.root}
  ELSE LET last == Up(c) = c.root
           freed == IF last THEN {c.held[j] : j \in 1..Len(c.held)} ELSE {}
       IN /\ can' = [can EXCEPT ![k] = [pc |-> "plan", root |-> c.root, at |-> Up(c),
                                        held |-> IF last THEN <<>> ELSE c.held]]
          /\ gate' = [q \in Id |-> IF q \in freed THEN "free" ELSE gate[q]]
          /\ marked' = marked \ freed

CancelCommits(k) ==
  /\ can[k].pc = "commit"
  /\ LET c == can[k]
         x == runs[c.at]
         stopped == {c.own, c.sub} \subseteq {"Interrupted", "idle"}
     IN /\ runs' = [runs EXCEPT ![c.at] =
                      IF x \in {None, Gone} THEN x
                      ELSE IF stopped /\ x.status = "Running" THEN Cancelled(x)
                      ELSE Doubted(x, c)]
        /\ Climb(k, c)
  /\ Wakes
  /\ UNCHANGED <<calls, events>>

\* The run has ended or changed meanwhile: this cancellation leaves it as it is.
CancelSkips(k) ==
  /\ can[k].pc = "plan"
  /\ can[k].at # can[k].root /\ can[k].at \in Runs => runs[can[k].at].status # "Running"
  /\ Climb(k, can[k])
  /\ Wakes
  /\ UNCHANGED <<calls, runs, events>>

----------------------------------------------------------------------------
(* The engine.                                                             *)

\* pending_subpipeline_ends: running steps whose child ended or has no record.
PendingEnds ==
  {[run |-> r, kid |-> runs[r].kid,
    end |-> IF runs[runs[r].kid] = Gone THEN "missing" ELSE runs[runs[r].kid].status] :
     r \in {q \in Runs : /\ runs[q].sub = "Running"
                         /\ \/ runs[runs[q].kid] = Gone
                            \/ runs[runs[q].kid].status \in Ended}}

Observe ==
  /\ engine.wake
  /\ engine.cur = None
  /\ engine.todo = {}
  /\ engine' = [wake |-> FALSE, cur |-> None, todo |-> PendingEnds,
                tried |-> engine.tried \cap PendingEnds]
  /\ UNCHANGED <<calls, runs, gate, marked, can, events>>

\* An end whose parent is being cancelled, or that was tried before, is left.
Take(e) ==
  /\ engine.cur = None
  /\ e \in engine.todo
  /\ engine' = [engine EXCEPT !.todo = @ \ {e},
                              !.cur = IF e.run \in marked \/ e \in engine.tried THEN None ELSE e]
  /\ UNCHANGED <<calls, runs, gate, marked, can, events>>

\* The outcome of the child becomes the outcome of the step, if it still waits for
\* that child; outputs that cannot be read fail it.
Finish(o) ==
  LET e == engine.cur
      x == runs[e.run]
      waits == x # Gone /\ x.sub = "Running" /\ x.kid = e.kid
  IN /\ e # None
     /\ IF e.end = "missing" THEN o = "Uncertain"
        ELSE IF e.end = "Succeeded" THEN o \in {"Succeeded", "Failed"} ELSE o = "Failed"
     /\ runs' = IF ~waits THEN runs
                ELSE [runs EXCEPT ![e.run] =
                        IF o = "Failed" THEN Refreshed(FailFast(SubTask(x, o))) ELSE SubTask(x, o)]
     /\ engine' = [engine EXCEPT !.cur = None, !.tried = @ \cup {e}, !.wake = @ \/ waits]
     /\ UNCHANGED <<calls, gate, marked, can, events>>

\* A restart: turns and leases become uncertain, dispatched children stay.
Restored(x) ==
  IF x \in {None, Gone} THEN x
  ELSE IF x.own # "Running" /\ ~x.leased THEN x
  ELSE [x EXCEPT !.own = IF @ = "Running" THEN "Uncertain" ELSE @,
                 !.sub = IF x.leased THEN "Uncertain" ELSE @,
                 !.leased = FALSE, !.status = "Uncertain",
                 !.stuck = @ \/ (x.leased /\ x.sub # "Ready")]

Awake == [wake |-> TRUE, cur |-> None, todo |-> {}, tried |-> {}]

Restart ==
  /\ Event
  /\ runs' = [r \in Id |-> Restored(runs[r])]
  /\ gate' = [r \in Id |-> "free"]
  /\ marked' = {}
  /\ can' = [k \in Canceller |-> Idle]
  /\ engine' = Awake
  /\ UNCHANGED calls

----------------------------------------------------------------------------
Init ==
  /\ calls \in [Cmd -> Cmd \cup {None}]
  /\ ~\E S \in SUBSET Cmd \ {{}} : \A e \in S : calls[e] \in S
  /\ runs = [r \in Id |-> None]
  /\ gate = [r \in Id |-> "free"]
  /\ marked = {}
  /\ can = [k \in Canceller |-> Idle]
  /\ engine = Awake
  /\ events = 0

EngineStep == Observe \/ (\E e \in engine.todo : Take(e)) \/ (\E o \in Task : Finish(o))

PassStep(r) == (\E k \in Id : PassStartsChild(r, k)) \/ PassRefuses(r) \/ PassReleases(r)

CancelStep(k) ==
  \/ CancelLocks(k) \/ CancelDescends(k) \/ CancelCommits(k) \/ CancelSkips(k)
  \/ \E own \in {"Interrupted", "ended", "none", "idle"} : CancelProves(k, own)

Next ==
  \/ \E c \in Cmd, r \in Id : StartRun(r, c)
  \/ \E c \in Cmd, d \in Cmd \cup {None} : Redefine(c, d)
  \/ \E r \in Runs :
       \/ \E o \in {"Succeeded", "Failed"} : OwnEnds(r, o)
       \/ OwnLost(r) \/ RetrySub(r) \/ DeleteRun(r)
       \/ \E o \in Ended : Reconcile(r, o)
       \/ PassLeases(r)
       \/ \E k \in Canceller : CancelBegins(k, r)
  \/ \E r \in Id : PassStep(r)
  \/ \E k \in Canceller : CancelStep(k)
  \/ EngineStep
  \/ Restart

Spec == Init /\ [][Next]_vars

\* The engine is a task of its own; passes hold their gate only for bounded work
\* and a cancellation waits for gates and for a bounded time for proof.
FairSpec ==
  /\ Spec
  /\ WF_vars(EngineStep)
  /\ \A r \in Id : WF_vars(PassStep(r))
  /\ \A k \in Canceller : WF_vars(CancelStep(k))

----------------------------------------------------------------------------
\* Every record, gate, cancellation and pending end has its shape, and no run is
\* nested deeper than allowed.
TypeOK ==
  /\ calls \in [Cmd -> Cmd \cup {None}]
  /\ \A r \in Runs :
       /\ runs[r].own \in Task /\ runs[r].sub \in Task
       /\ runs[r].status \in Ended \cup {"Running", "Uncertain"}
       /\ runs[r].depth \in 0..MaxDepth
  /\ gate \in [Id -> {"free", "pass", "cancel"}]
  /\ marked \subseteq Id
  /\ \A k \in Canceller : can[k].pc \in {"idle", "gate", "down", "plan", "commit"}
  /\ events \in 0..MaxEvent

\* A running sub-pipeline step always has its child's record to take the outcome
\* from: no deletion of a finished run can take it away.
ChildKept ==
  \A r \in Runs : runs[r].sub = "Running" =>
    LET k == runs[r].kid IN k \in Runs /\ runs[k].up = r /\ runs[k].cmd = runs[r].calls

\* No run has the launch command of a run above it, although the definitions may
\* change while the tree grows.
NoCommandBelowItself ==
  \A r \in Runs : runs[r].up # None => runs[r].cmd \notin Ancestors(runs[r].up)

\* A step that succeeded without a person's word did so because its child did, and
\* a step that was cancelled with its run had its child proved cancelled.  (A restart
\* makes a finished child uncertain when a lease stayed on a task that was stopped.)
OutcomeIsChilds ==
  \A r \in Runs :
    LET k == runs[r].kid
    IN k # None /\ k \in Runs /\ ~runs[r].said /\ ~runs[k].stuck =>
         /\ runs[r].sub = "Succeeded" => runs[k].status = "Succeeded"
         /\ runs[r].sub = "Cancelled" => runs[k].status = "Cancelled"

\* A step of a parent and its child run agree, and no command runs below itself.
TreesSound ==
  /\ TypeOK
  /\ ChildKept
  /\ NoCommandBelowItself
  /\ OutcomeIsChilds

\* The end of a child run reaches the step that waits for it.
EndReachesParent ==
  \A r \in Id :
    (r \in Runs /\ runs[r].sub = "Running" /\ runs[runs[r].kid].status \in Ended)
      ~> (r \notin Runs \/ runs[r].sub # "Running")

\* A cancellation ends, whatever other cancellations and passes hold or wait for.
CancellationEnds == \A k \in Canceller : can[k] # Idle ~> can[k] = Idle
=============================================================================
