----------------------------- MODULE MCRuntimes -----------------------------
(***************************************************************************)
(* Managed runtime bundles that are checked while the disk changes; beside *)
(* them the protocol of one Pi process, and the bridge process that        *)
(* sessions share. Each behaviour runs one of them.                        *)
(***************************************************************************)
EXTENDS ManagedRuntime, TLC

CONSTANTS
  x1, x2, x3, y1, y2, p1, d1   \* model values

VARIABLES
  focus,   \* the component that runs
  piState, piRev, piSpawn, piReady, piShut, piStdin, piReq, piSlot, piBox, piWire,
  piReader, piEvents, piSeen, piRx, piBox_ui, piTimers, piAsleep, piAwake, piStop,
  piAsked, piWaiting, piStray, piLate, piTurns, bridgePooled, bridgeSid, bridgeLife,
  bridgeAcc, bridgeQueue, bridgeKept, bridgeSeen, bridgeClosed, bridgeRoute,
  bridgeHost, bridgePhase, bridgePending, bridgeTimedOut, bridgeInbox, bridgeStdout,
  bridgeHand, bridgeTo, bridgeReader, bridgeWhy, bridgeEmitted, bridgeFaults

\* Two spellings of one name, and another name.
FoldCase == [n \in Name |-> IF n = 2 THEN 1 ELSE n]
Homes == [f \in File |-> IF f = 1 THEN x1 ELSE x2]

Rpc == INSTANCE PiRpc WITH
  Plain <- {}, Prompt <- {p1}, Did <- {d1}, Slots <- 1, Cap <- 1, MaxAsk <- 1,
  MaxTurn <- 1, state <- piState, rev <- piRev, spawn <- piSpawn, ready <- piReady,
  shut <- piShut, stdin <- piStdin, req <- piReq, slot <- piSlot, box <- piBox,
  wire <- piWire, reader <- piReader, events <- piEvents, seen <- piSeen, rx <- piRx,
  box_ui <- piBox_ui, timers <- piTimers, asleep <- piAsleep, awake <- piAwake,
  stop <- piStop, asked <- piAsked, waiting <- piWaiting, stray <- piStray,
  late <- piLate, turns <- piTurns

Brg == INSTANCE Bridge WITH
  Handle <- {y1, y2}, Sid <- {x1}, Cap <- 1, MaxEvent <- 2, MaxPipe <- 1, MaxCall <- 1,
  MaxFault <- 1, pooled <- bridgePooled, sid <- bridgeSid, life <- bridgeLife,
  acc <- bridgeAcc, queue <- bridgeQueue, kept <- bridgeKept, seen <- bridgeSeen,
  closed <- bridgeClosed, route <- bridgeRoute, host <- bridgeHost,
  phase <- bridgePhase, pending <- bridgePending, timedOut <- bridgeTimedOut,
  inbox <- bridgeInbox, stdout <- bridgeStdout, hand <- bridgeHand, to <- bridgeTo,
  reader <- bridgeReader, why <- bridgeWhy, emitted <- bridgeEmitted,
  faults <- bridgeFaults

piVars ==
  <<piState, piRev, piSpawn, piReady, piShut, piStdin, piReq, piSlot, piBox, piWire,
    piReader, piEvents, piSeen, piRx, piBox_ui, piTimers, piAsleep, piAwake, piStop,
    piAsked, piWaiting, piStray, piLate, piTurns>>
bridgeVars ==
  <<bridgePooled, bridgeSid, bridgeLife, bridgeAcc, bridgeQueue, bridgeKept,
    bridgeSeen, bridgeClosed, bridgeRoute, bridgeHost, bridgePhase, bridgePending,
    bridgeTimedOut, bridgeInbox, bridgeStdout, bridgeHand, bridgeTo, bridgeReader,
    bridgeWhy, bridgeEmitted, bridgeFaults>>
allVars == <<focus, vars, piVars, bridgeVars>>

\* One component runs, from any of its initial states; the others rest in one.
AllInit ==
  /\ focus \in {"bundles", "pi", "bridge"}
  /\ Init
  /\ focus # "bundles" => windows /\ manifest = Standard /\ policy = [s \in Sup |-> "Disabled"]
  /\ Rpc!Init
  /\ Brg!Init
  /\ focus # "bridge" => bridgePooled

AllNext ==
  \/ /\ focus = "bundles" /\ Next
     /\ UNCHANGED <<focus, piVars, bridgeVars>>
  \/ /\ focus = "pi" /\ Rpc!Next
     /\ UNCHANGED <<focus, vars, bridgeVars>>
  \/ /\ focus = "bridge" /\ Brg!Next
     /\ UNCHANGED <<focus, vars, piVars>>

AllSpec == AllInit /\ [][AllNext]_allVars

\* Names that the components treat alike.
Symmetry == Permutations({y1, y2})


\* The shared bridge process: a closed queue does not fail the other sessions, every
\* answer finds its call, a session's events arrive in order without a gap, a session in
\* use has its own route, and no call waits on a reader that is done.
BridgeSound ==
  /\ focus = "bridge" =>
       /\ Brg!TypeOK
       /\ Brg!ClosedQueueSpares
       /\ Brg!AnswersAreKnown
       /\ Brg!EventsInOrder
       /\ Brg!RouteIsOwn
       /\ Brg!NoAnswerOutlivesReader

=============================================================================
