------------------------------- MODULE MCEnds -------------------------------
(***************************************************************************)
(* What must eventually happen in a run, on the shared bridge process, in  *)
(* a tree of runs, and when the application ends, under the fairness of    *)
(* each. Each behaviour runs one of them.                                  *)
(***************************************************************************)
EXTENDS Integers, TLC

CONSTANTS
  None, Bad, x1, x2, y1, Nil, c1, c2, k1, v1, v2   \* model values

VARIABLES
  focus,   \* the component that runs
  runStatus, runPaused, runSt, runLease, runExec, runData, runAttempts, runIssued,
  runAdvancing, runPending, runRounds, runDisturbed, bridgePooled, bridgeSid,
  bridgeLife, bridgeAcc, bridgeQueue, bridgeKept, bridgeSeen, bridgeClosed,
  bridgeRoute, bridgeHost, bridgePhase, bridgePending, bridgeTimedOut, bridgeInbox,
  bridgeStdout, bridgeHand, bridgeTo, bridgeReader, bridgeWhy, bridgeEmitted,
  bridgeFaults, treesCalls, treesRuns, treesGate, treesMarked, treesCan, treesEngine,
  treesEvents, lifeUp, lifeLoop, lifeWake, lifeHost, lifeNative, lifeStop, lifeWin,
  lifeTray, lifeKeep, lifeSaved, lifeSetter, lifeCrossed, lifeStarts, lifeFails,
  lifeOps

NoStep == [s \in {} |-> None]
ReleaseRoute == [s \in {3} |-> [v \in {"ok", "bad", None} |-> v]]
ReleaseReview == [s \in {2} |-> [from |-> 1, max |-> 2]]

Run == INSTANCE Coordinator WITH
  NoData <- None, Invalid <- Bad, Step <- 1..6,
  Deps <- <<{}, {1}, {2}, {3, 6}, {4}, {1}>>, Callable <- {}, Extra <- {},
  Pipeline <- {}, MaySpawn <- {}, Data <- {"ok", "bad"},
  Result <- <<{None}, {"ok", "bad"}, {"ok", "bad"}, {None}, {None}, {None}>>,
  Cond <- <<{}, {}, {}, {}, {}, {}>>,
  Gate <- <<{}, {}, {}, {[router |-> 3, selected |-> {"ok"}]}, {}, {}>>,
  Route <- ReleaseRoute, Review <- ReleaseReview, Rejects <- {"bad"}, Approval <- {4},
  Pin <- NoStep, MaxLaunch <- 3, MaxDisturb <- 3, status <- runStatus,
  paused <- runPaused, st <- runSt, lease <- runLease, exec <- runExec,
  data <- runData, attempts <- runAttempts, issued <- runIssued,
  advancing <- runAdvancing, pending <- runPending, rounds <- runRounds,
  disturbed <- runDisturbed

Brg == INSTANCE Bridge WITH
  Handle <- {x1, x2}, Sid <- {y1}, Cap <- 1, MaxEvent <- 1, MaxPipe <- 1, MaxCall <- 0,
  MaxFault <- 0, pooled <- bridgePooled, sid <- bridgeSid, life <- bridgeLife,
  acc <- bridgeAcc, queue <- bridgeQueue, kept <- bridgeKept, seen <- bridgeSeen,
  closed <- bridgeClosed, route <- bridgeRoute, host <- bridgeHost,
  phase <- bridgePhase, pending <- bridgePending, timedOut <- bridgeTimedOut,
  inbox <- bridgeInbox, stdout <- bridgeStdout, hand <- bridgeHand, to <- bridgeTo,
  reader <- bridgeReader, why <- bridgeWhy, emitted <- bridgeEmitted,
  faults <- bridgeFaults

Trees == INSTANCE Subpipelines WITH
  Cmd <- {c1, c2}, Canceller <- {k1}, None <- None, Gone <- Nil, MaxRun <- 2,
  MaxRoot <- 1, MaxDepth <- 2, MaxEvent <- 2, calls <- treesCalls, runs <- treesRuns,
  gate <- treesGate, marked <- treesMarked, can <- treesCan, engine <- treesEngine,
  events <- treesEvents

Lif == INSTANCE Lifecycle WITH
  Version <- {v1, v2}, Setter <- {x1}, None <- None, MaxStart <- 1, MaxFail <- 2,
  MaxOp <- 2, up <- lifeUp, loop <- lifeLoop, wake <- lifeWake, host <- lifeHost,
  native <- lifeNative, stop <- lifeStop, win <- lifeWin, tray <- lifeTray,
  keep <- lifeKeep, saved <- lifeSaved, setter <- lifeSetter, crossed <- lifeCrossed,
  starts <- lifeStarts, fails <- lifeFails, ops <- lifeOps

runVars ==
  <<runStatus, runPaused, runSt, runLease, runExec, runData, runAttempts, runIssued,
    runAdvancing, runPending, runRounds, runDisturbed>>
bridgeVars ==
  <<bridgePooled, bridgeSid, bridgeLife, bridgeAcc, bridgeQueue, bridgeKept,
    bridgeSeen, bridgeClosed, bridgeRoute, bridgeHost, bridgePhase, bridgePending,
    bridgeTimedOut, bridgeInbox, bridgeStdout, bridgeHand, bridgeTo, bridgeReader,
    bridgeWhy, bridgeEmitted, bridgeFaults>>
treesVars ==
  <<treesCalls, treesRuns, treesGate, treesMarked, treesCan, treesEngine, treesEvents>>
lifeVars ==
  <<lifeUp, lifeLoop, lifeWake, lifeHost, lifeNative, lifeStop, lifeWin, lifeTray,
    lifeKeep, lifeSaved, lifeSetter, lifeCrossed, lifeStarts, lifeFails, lifeOps>>
allVars == <<focus, runVars, bridgeVars, treesVars, lifeVars>>

\* One component runs, from any of its initial states; the others rest in one.
AllInit ==
  /\ focus \in {"run", "bridge", "trees", "life"}
  /\ Run!Init
  /\ Brg!Init
  /\ focus # "bridge" => bridgePooled
  /\ Trees!Init
  /\ focus # "trees" => treesCalls = [n \in {c1, c2} |-> None]
  /\ Lif!Init
  /\ focus # "life" => lifeHost.windows

AllNext ==
  \/ /\ focus = "run" /\ Run!Undisturbed /\ UNCHANGED runDisturbed
     /\ UNCHANGED <<focus, bridgeVars, treesVars, lifeVars>>
  \/ /\ focus = "bridge" /\ Brg!Next
     /\ UNCHANGED <<focus, runVars, treesVars, lifeVars>>
  \/ /\ focus = "trees" /\ Trees!Next
     /\ UNCHANGED <<focus, runVars, bridgeVars, lifeVars>>
  \/ /\ focus = "life" /\ Lif!Next
     /\ UNCHANGED <<focus, runVars, bridgeVars, treesVars>>

AllSpec == AllInit /\ [][AllNext]_allVars

\* The fairness of each component, for the one that runs (see its module).
RunFairness ==
  LET Runs(A) == focus = "run" /\ A /\ UNCHANGED <<focus, bridgeVars, treesVars, lifeVars>> IN
  /\ WF_allVars(Runs(Run!Automatic /\ UNCHANGED runDisturbed))
  /\ \A s \in 1..6 : WF_allVars(Runs(Run!Launching(s) /\ UNCHANGED runDisturbed))
  /\ \A s \in 1..6 : WF_allVars(Runs(Run!Complete(s) /\ UNCHANGED runDisturbed))
BridgeFairness ==
  LET Runs(A) == focus = "bridge" /\ A /\ UNCHANGED <<focus, runVars, treesVars, lifeVars>> IN
  /\ \A r \in Brg!Request : WF_allVars(Runs(Brg!Registers(r)))
  /\ \A r \in Brg!Request : WF_allVars(Runs(Brg!TimeoutForgets(r)))
  /\ \A r \in Brg!Request : WF_allVars(Runs(Brg!TimeoutRecords(r)))
  /\ WF_allVars(Runs(Brg!Reader))
  /\ \A h \in {x1, x2} : WF_allVars(Runs(Brg!Retains(h)))
  /\ \A h \in {x1, x2} : WF_allVars(Runs(Brg!Receives(h)))
  /\ \A h \in {x1, x2} : WF_allVars(Runs(Brg!ConsumerCloses(h)))
  /\ \A h \in {x1, x2} : WF_allVars(Runs(Brg!StartDropEnds(h)))
  /\ \A h \in {x1, x2} : WF_allVars(Runs(Brg!StartEnds(h)))
  /\ \A h \in {x1, x2} : WF_allVars(Runs(Brg!DisposeBegins(h)))
  /\ \A h \in {x1, x2} : WF_allVars(Runs(Brg!DisposeEnds(h)))
TreesFairness ==
  LET Runs(A) == focus = "trees" /\ A /\ UNCHANGED <<focus, runVars, bridgeVars, lifeVars>> IN
  /\ WF_allVars(Runs(Trees!EngineStep))
  /\ \A r \in Trees!Id : WF_allVars(Runs(Trees!PassStep(r)))
  /\ WF_allVars(Runs(Trees!CancelStep(k1)))
LifeFairness ==
  LET Runs(A) == focus = "life" /\ A /\ UNCHANGED <<focus, runVars, bridgeVars, treesVars>> IN
  /\ WF_allVars(Runs(Lif!QuitStops))
  /\ WF_allVars(Runs(Lif!QuitExits))
  /\ WF_allVars(Runs(Lif!StopAsked))
  /\ WF_allVars(Runs(Lif!InstallStops))
  /\ WF_allVars(Runs(Lif!InstallRuns))
  /\ WF_allVars(Runs(Lif!Restart))
AllFairSpec == AllSpec /\ RunFairness /\ BridgeFairness /\ TreesFairness /\ LifeFairness


=============================================================================
