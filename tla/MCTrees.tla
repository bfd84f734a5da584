------------------------------ MODULE MCTrees -------------------------------
(***************************************************************************)
(* A tree of sub-pipeline runs with a cancellation; beside it the sessions *)
(* of the workspace's chats, and schedules. Each behaviour runs one of     *)
(* them.                                                                   *)
(***************************************************************************)
EXTENDS Subpipelines, TLC

CONSTANTS
  x1, x2, x3, k1, a, b, Nil   \* model values

VARIABLES
  focus,   \* the component that runs
  sessionsOp, sessionsGate, sessionsTrusted, sessionsQuiet, sessionsRec, sessionsDirty,
  sessionsLive, sessionsStart, sessionsRun, sessionsShown, sessionsOverlap,
  schedulesNow, schedulesUp, schedulesSince, schedulesPaused, schedulesCmd,
  schedulesSched, schedulesRuns, schedulesWorker, schedulesPermit, schedulesUser,
  schedulesEvents, schedulesBlocked, schedulesRaced, schedulesStalled

Targets == [s \in {a} |-> s]
Anchors == [s \in {a} |-> 0]
Everies == [s \in {a} |-> 2]

Ses == INSTANCE Sessions WITH
  Op <- {x1, x2, x3}, Sess <- {a, b}, Old <- {a},
  Kinds <- {"create", "launch", "open", "close", "delete", "revoke", "exit", "send", "snapshot", "respond"},
  BindsLate <- TRUE, MaxTurn <- 1, MaxQueue <- 3, NoOp <- Nil, op <- sessionsOp,
  gate <- sessionsGate, trusted <- sessionsTrusted, quiet <- sessionsQuiet,
  rec <- sessionsRec, dirty <- sessionsDirty, live <- sessionsLive,
  start <- sessionsStart, run <- sessionsRun, shown <- sessionsShown,
  overlap <- sessionsOverlap

Sch == INSTANCE Automations WITH
  Sched <- {a}, Command <- {a}, Target <- Targets, Anchor <- Anchors, Every <- Everies,
  SkipsMissed <- {a}, SkipsOverlap <- {a}, Begun <- {a}, MaxOcc <- 1, MaxTime <- 3,
  MaxRev <- 2, MaxEvent <- 1, now <- schedulesNow, up <- schedulesUp,
  since <- schedulesSince, paused <- schedulesPaused, cmd <- schedulesCmd,
  sched <- schedulesSched, runs <- schedulesRuns, worker <- schedulesWorker,
  permit <- schedulesPermit, user <- schedulesUser, events <- schedulesEvents,
  blocked <- schedulesBlocked, raced <- schedulesRaced, stalled <- schedulesStalled

sessionsVars ==
  <<sessionsOp, sessionsGate, sessionsTrusted, sessionsQuiet, sessionsRec,
    sessionsDirty, sessionsLive, sessionsStart, sessionsRun, sessionsShown,
    sessionsOverlap>>
schedulesVars ==
  <<schedulesNow, schedulesUp, schedulesSince, schedulesPaused, schedulesCmd,
    schedulesSched, schedulesRuns, schedulesWorker, schedulesPermit, schedulesUser,
    schedulesEvents, schedulesBlocked, schedulesRaced, schedulesStalled>>
allVars == <<focus, vars, sessionsVars, schedulesVars>>

\* One component runs, from any of its initial states; the others rest in one.
AllInit ==
  /\ focus \in {"trees", "sessions", "schedules"}
  /\ Init
  /\ focus # "trees" => calls = [k \in Cmd |-> None]
  /\ Ses!Init
  /\ Sch!Init

AllNext ==
  \/ /\ focus = "trees" /\ Next
     /\ UNCHANGED <<focus, sessionsVars, schedulesVars>>
  \/ /\ focus = "sessions" /\ Ses!Next
     /\ UNCHANGED <<focus, vars, schedulesVars>>
  \/ /\ focus = "schedules" /\ Sch!Next
     /\ UNCHANGED <<focus, vars, sessionsVars>>

AllSpec == AllInit /\ [][AllNext]_allVars

\* Names that the components treat alike.
Symmetry == Permutations({x1, x2, x3})

\* Sessions under overlapping commands: one start under way for each, every running
\* process owned, none live after trust was withdrawn, revisions that continue, a write
\* to come for every cached receipt, and no runtime published without trust.
SessionsSound ==
  /\ [](focus = "sessions" =>
          /\ Ses!TypeOK
          /\ Ses!OneStart
          /\ Ses!NoOrphan
          /\ Ses!WithdrawnIsQuiet
          /\ Ses!RevisionsContinue
          /\ Ses!ReceiptsAreOwed)
  /\ Ses!PublishedInTrust

\* An enabled schedule runs the command it was enabled for; one that skips missed or
\* overlapping runs starts none; and the next due time lies ahead of every recorded one,
\* so that no occurrence is claimed twice.
SchedulesSound ==
  /\ focus = "schedules" =>
       /\ Sch!TypeOK
       /\ Sch!EnabledForCurrent
       /\ Sch!NoMissedStart
       /\ Sch!NoOverlap
       /\ Sch!DueAhead

=============================================================================
