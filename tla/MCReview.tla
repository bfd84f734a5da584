------------------------------ MODULE MCReview ------------------------------
(***************************************************************************)
(* A run whose review sends work back; beside it the messages between a    *)
(* run's agents, and the registry of plugins. Each behaviour runs one of   *)
(* them.                                                                   *)
(***************************************************************************)
EXTENDS Coordinator, TLC

CONSTANTS
  None, Bad, o1, o2, pl, v1, v2, a, b, k1, NoId   \* model values

VARIABLES
  focus,   \* the component that runs
  pluginsFolder, pluginsPlace, pluginsDisk, pluginsDoc, pluginsLoaded, pluginsStaged,
  pluginsAcp, pluginsOp, pluginsAcked, pluginsEdits, pluginsCrashes, pluginsStale,
  pluginsCrossed, teamOpen, teamTask, teamExec, teamOf, teamLive, teamEnded,
  teamHosted, teamRequests, teamMessages, teamGate, teamFlush, teamCall, teamSent,
  teamMissed, teamOverlap, teamFaults

Nothing == [s \in {} |-> None]

(***************************************************************************)
(* Team: 1 writes and leads, 2 reviews it and may send it back once, 3 is  *)
(* a sub-pipeline that follows 1 after a person's approval, beside the     *)
(* review; 4 is a callable role that 1 may spawn.                          *)
(***************************************************************************)
TeamStep == 1..4
TeamDeps == <<{}, {1}, {1}, {}>>
TeamResult == <<{None}, {"ok", "bad"}, {None}, {None}>>
TeamSpawn == {<<1, 4>>}
Verdict == {"ok", "bad"}
TeamReview == [s \in {2} |-> [from |-> 1, max |-> 2]]
Nothing4 == <<{}, {}, {}, {}>>

Shapes == [v \in {v1, v2} |-> v]

Plg == INSTANCE Plugins WITH
  Id <- {pl}, Op <- {o1, o2}, Version <- {v1, v2}, Shape <- Shapes, MaxPlugins <- 1,
  MaxStage <- 1, MaxRev <- 2, MaxEvent <- 1, NoId <- NoId, folder <- pluginsFolder,
  place <- pluginsPlace, disk <- pluginsDisk, doc <- pluginsDoc,
  loaded <- pluginsLoaded, staged <- pluginsStaged, acp <- pluginsAcp, op <- pluginsOp,
  acked <- pluginsAcked, edits <- pluginsEdits, crashes <- pluginsCrashes,
  stale <- pluginsStale, crossed <- pluginsCrossed

Team == INSTANCE TeamMessages WITH
  Member <- {a, b}, Equipped <- {a}, CanSend <- {<<a, b>>}, CanObserve <- {<<a, b>>},
  Call <- {k1}, Op <- {"send", "wait"}, MaxRequest <- 1, MaxSession <- 3,
  MaxFault <- 1, None <- NoId, open <- teamOpen, task <- teamTask, exec <- teamExec,
  of <- teamOf, live <- teamLive, ended <- teamEnded, hosted <- teamHosted,
  requests <- teamRequests, messages <- teamMessages, gate <- teamGate,
  flush <- teamFlush, call <- teamCall, sent <- teamSent, missed <- teamMissed,
  overlap <- teamOverlap, faults <- teamFaults

pluginsVars ==
  <<pluginsFolder, pluginsPlace, pluginsDisk, pluginsDoc, pluginsLoaded, pluginsStaged,
    pluginsAcp, pluginsOp, pluginsAcked, pluginsEdits, pluginsCrashes, pluginsStale,
    pluginsCrossed>>
teamVars ==
  <<teamOpen, teamTask, teamExec, teamOf, teamLive, teamEnded, teamHosted,
    teamRequests, teamMessages, teamGate, teamFlush, teamCall, teamSent, teamMissed,
    teamOverlap, teamFaults>>
allVars == <<focus, vars, pluginsVars, teamVars>>

\* One component runs, from any of its initial states; the others rest in one.
AllInit ==
  /\ focus \in {"run", "plugins", "team"}
  /\ Init
  /\ Plg!Init
  /\ focus # "plugins" => pluginsFolder[pl] = v1 /\ pluginsDoc.plugins[pl] = Plg!Absent
  /\ Team!Init

AllNext ==
  \/ /\ focus = "run" /\ Next
     /\ UNCHANGED <<focus, pluginsVars, teamVars>>
  \/ /\ focus = "plugins" /\ Plg!Next
     /\ UNCHANGED <<focus, vars, teamVars>>
  \/ /\ focus = "team" /\ Team!Next
     /\ UNCHANGED <<focus, vars, pluginsVars>>

AllSpec == AllInit /\ [][AllNext]_allVars

\* Names that the components treat alike.
Symmetry == Permutations({o1, o2})



=============================================================================
