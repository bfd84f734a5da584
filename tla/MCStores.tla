------------------------------ MODULE MCStores ------------------------------
(***************************************************************************)
(* All stores on a disk that keeps what was synced; beside them stores     *)
(* whose files are damaged at rest, an outbox whose saves fail, the        *)
(* attachments of messages, the files dropped on a window, the read-only   *)
(* probe of a runtime, and agents added by a person. Each behaviour runs   *)
(* one of them.                                                            *)
(***************************************************************************)
EXTENDS GenerationStore, TLC

CONSTANTS
  ma, mb, saved, empty, r0, r1, NoMsg, t1, t2, f1, f2, f3, g1, g2, good, old, LF, CR,
  ev, Stray   \* model values

VARIABLES
  focus,   \* the component that runs
  faultsItems, faultsStatus, faultsText, faultsPaused, faultsLive, faultsOpened,
  faultsFlag, faultsWaiting, faultsTurns, faultsNative, faultsEvents, faultsHolder,
  faultsDrains, faultsCmd, faultsPausing, faultsClosing, faultsTrouble, faultsFaults,
  faultsLate, faultsTaken, faultsParked, imagesFresh, imagesFile, imagesPending,
  imagesMsg, imagesSend, imagesOut, imagesClean, imagesChat, imagesDrops, imagesGot,
  imagesLeft, imagesFaults, dropsFresh, dropsFile, dropsPending, dropsMsg, dropsSend,
  dropsOut, dropsClean, dropsChat, dropsDrops, dropsGot, dropsLeft, dropsFaults,
  acpOwn, acpPlug, acpDec, acpRev, acpFound, acpAt, acpVer, acpTask, acpView, acpBegan,
  acpSaid, acpMixed, acpCmds, acpWorld, probeStarted, probeClosed, probeTerminal,
  probePending, probeOutcome, probeValues, probeStream, damagedStore, damagedFiles,
  damagedPhase, damagedStaged, damagedCurrent, damagedCounter, damagedUnsynced,
  damagedConfirmed, damagedFailed, damagedSaves, damagedCrashes, damagedTrouble,
  damagedDamage

Faults == INSTANCE Composer WITH
  Msg <- {ma, mb}, NoMsg <- NoMsg, MaxEdits <- 0, MaxOpens <- 1, MaxDrains <- 1,
  MaxEvents <- 1, MaxTrouble <- 0, MaxFaults <- 2, items <- faultsItems,
  status <- faultsStatus, text <- faultsText, paused <- faultsPaused,
  live <- faultsLive, opened <- faultsOpened, flag <- faultsFlag,
  waiting <- faultsWaiting, turns <- faultsTurns, native <- faultsNative,
  events <- faultsEvents, holder <- faultsHolder, drains <- faultsDrains,
  cmd <- faultsCmd, pausing <- faultsPausing, closing <- faultsClosing,
  trouble <- faultsTrouble, faults <- faultsFaults, late <- faultsLate,
  taken <- faultsTaken, parked <- faultsParked

Img == INSTANCE Attachments WITH
  Image <- {f1, f2}, Req <- {ma, mb}, Task <- {t1, t2}, Drop <- {}, None <- NoMsg,
  MaxPending <- 2, MaxPerMessage <- 2, MaxDrops <- 2, MaxFault <- 2,
  fresh <- imagesFresh, file <- imagesFile, pending <- imagesPending, msg <- imagesMsg,
  send <- imagesSend, out <- imagesOut, clean <- imagesClean, chat <- imagesChat,
  drops <- imagesDrops, got <- imagesGot, left <- imagesLeft, faults <- imagesFaults

Drp == INSTANCE Attachments WITH
  Image <- {f1}, Req <- {g1}, Task <- {t1}, Drop <- {f1, f2, f3}, None <- NoMsg,
  MaxPending <- 1, MaxPerMessage <- 1, MaxDrops <- 2, MaxFault <- 1,
  fresh <- dropsFresh, file <- dropsFile, pending <- dropsPending, msg <- dropsMsg,
  send <- dropsSend, out <- dropsOut, clean <- dropsClean, chat <- dropsChat,
  drops <- dropsDrops, got <- dropsGot, left <- dropsLeft, faults <- dropsFaults

Acp == INSTANCE AcpAgents WITH
  Own <- {f3}, Plugged <- {f1, f2}, Line <- {ma, mb}, Good <- good, Old <- old,
  News <- {g1, g2}, Tasks <- {t1, t2}, None <- NoMsg, MaxCmd <- 2, MaxWorld <- 2,
  MaxBoth <- 3, own <- acpOwn, plug <- acpPlug, dec <- acpDec, rev <- acpRev,
  found <- acpFound, at <- acpAt, ver <- acpVer, task <- acpTask, view <- acpView,
  began <- acpBegan, said <- acpSaid, mixed <- acpMixed, cmds <- acpCmds,
  world <- acpWorld

Prb == INSTANCE ProbeTransport WITH
  Required <- {g1}, Optional <- {g2}, LF <- LF, CR <- CR, Event <- ev, Stray <- Stray,
  MaxFrame <- 2, MaxChunk <- 3, MaxBytes <- 6, MaxChunkValues <- 1, MaxValues <- 3,
  started <- probeStarted, closed <- probeClosed, terminal <- probeTerminal,
  pending <- probePending, outcome <- probeOutcome, values <- probeValues,
  stream <- probeStream

Damaged == INSTANCE GenerationStore WITH
  Stores <- {"outbox", "board"}, Doc <- {empty, saved}, Rejected <- {}, Empty <- empty,
  Receipt <- {r0}, NoReceipt <- r0, Offline <- Offline, Kept <- 3, MaxGen <- 5,
  MaxCrash <- 1, MaxTrouble <- 1, MaxDamage <- 2, store <- damagedStore,
  files <- damagedFiles, phase <- damagedPhase, staged <- damagedStaged,
  current <- damagedCurrent, counter <- damagedCounter, unsynced <- damagedUnsynced,
  confirmed <- damagedConfirmed, failed <- damagedFailed, saves <- damagedSaves,
  crashes <- damagedCrashes, trouble <- damagedTrouble, damage <- damagedDamage

faultsVars ==
  <<faultsItems, faultsStatus, faultsText, faultsPaused, faultsLive, faultsOpened,
    faultsFlag, faultsWaiting, faultsTurns, faultsNative, faultsEvents, faultsHolder,
    faultsDrains, faultsCmd, faultsPausing, faultsClosing, faultsTrouble, faultsFaults,
    faultsLate, faultsTaken, faultsParked>>
imagesVars ==
  <<imagesFresh, imagesFile, imagesPending, imagesMsg, imagesSend, imagesOut,
    imagesClean, imagesChat, imagesDrops, imagesGot, imagesLeft, imagesFaults>>
dropsVars ==
  <<dropsFresh, dropsFile, dropsPending, dropsMsg, dropsSend, dropsOut, dropsClean,
    dropsChat, dropsDrops, dropsGot, dropsLeft, dropsFaults>>
acpVars ==
  <<acpOwn, acpPlug, acpDec, acpRev, acpFound, acpAt, acpVer, acpTask, acpView,
    acpBegan, acpSaid, acpMixed, acpCmds, acpWorld>>
probeVars ==
  <<probeStarted, probeClosed, probeTerminal, probePending, probeOutcome, probeValues,
    probeStream>>
damagedVars ==
  <<damagedStore, damagedFiles, damagedPhase, damagedStaged, damagedCurrent,
    damagedCounter, damagedUnsynced, damagedConfirmed, damagedFailed, damagedSaves,
    damagedCrashes, damagedTrouble, damagedDamage>>
allVars == <<focus, vars, faultsVars, imagesVars, dropsVars, acpVars, probeVars, damagedVars>>

\* One component runs, from any of its initial states; the others rest in one.
AllInit ==
  /\ focus \in {"sound", "faults", "images", "drops", "acp", "probe", "damaged"}
  /\ Init
  /\ focus # "sound" => store = "journal"
  /\ Faults!Init
  /\ Img!Init
  /\ Drp!Init
  /\ IF focus = "acp" THEN Acp!Init
     ELSE /\ acpOwn = NoMsg /\ acpPlug = NoMsg /\ acpDec = NoMsg /\ acpRev = NoMsg /\ acpFound = NoMsg /\ acpAt = NoMsg /\ acpVer = NoMsg
          /\ acpTask = NoMsg /\ acpView = NoMsg /\ acpBegan = NoMsg /\ acpSaid = NoMsg /\ acpMixed = NoMsg /\ acpCmds = NoMsg /\ acpWorld = NoMsg
  /\ Prb!Init
  /\ Damaged!Init
  /\ focus # "damaged" => damagedStore = "outbox"

AllNext ==
  \/ /\ focus = "sound" /\ Next
     /\ UNCHANGED <<focus, faultsVars, imagesVars, dropsVars, acpVars, probeVars, damagedVars>>
  \/ /\ focus = "faults" /\ Faults!Next
     /\ UNCHANGED <<focus, vars, imagesVars, dropsVars, acpVars, probeVars, damagedVars>>
  \/ /\ focus = "images" /\ Img!Next
     /\ UNCHANGED <<focus, vars, faultsVars, dropsVars, acpVars, probeVars, damagedVars>>
  \/ /\ focus = "drops" /\ Drp!Next
     /\ UNCHANGED <<focus, vars, faultsVars, imagesVars, acpVars, probeVars, damagedVars>>
  \/ /\ focus = "acp" /\ Acp!Next
     /\ UNCHANGED <<focus, vars, faultsVars, imagesVars, dropsVars, probeVars, damagedVars>>
  \/ /\ focus = "probe" /\ Prb!Next
     /\ UNCHANGED <<focus, vars, faultsVars, imagesVars, dropsVars, acpVars, damagedVars>>
  \/ /\ focus = "damaged" /\ Damaged!Next
     /\ UNCHANGED <<focus, vars, faultsVars, imagesVars, dropsVars, acpVars, probeVars>>

AllSpec == AllInit /\ [][AllNext]_allVars

\* Names that the components treat alike.
Symmetry == Permutations({ma, mb})

\* A drain never overtakes an older follow-up, also where saves of the outbox fail
\* before or after the new queue is published.
InOrderThoughSavesFail ==
  /\ focus = "faults" =>
       /\ Faults!InOrder

\* However its output is cut into chunks, the probe is ready exactly for an output that
\* answers every getter once and usably, and rejects no such output for what it says.
ProbeExact ==
  /\ focus = "probe" =>
       /\ Prb!TypeOK
       /\ Prb!ReadyIsAnswered
       /\ Prb!RejectedIsUnanswered


\* Stores whose files are damaged at rest: while fewer files were damaged than the board
\* keeps, some board still loads; and opening the outbox never falls back to a queue
\* older than the last confirmed one.
DamagedStoresOpen ==
  /\ [](focus = "damaged" =>
          /\ Damaged!PreviousKept)
  /\ Damaged!NeverOlder

\* The bytes of an image are there as long as a message or a composer needs it, have one
\* owner, and stay no longer than that; the files of a drop are handed out at most once,
\* and the latest drop can be redeemed.
AttachmentsSound ==
  /\ [](focus = "images" =>
          /\ Img!TypeOK
          /\ Img!BytesKept
          /\ Img!OneOwner
          /\ Img!NoLeftovers)
  /\ [](focus = "drops" =>
          /\ Drp!DroppedOnce)
  /\ Drp!LatestDropKept

=============================================================================
