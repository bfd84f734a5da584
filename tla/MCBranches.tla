----------------------------- MODULE MCBranches -----------------------------
(***************************************************************************)
(* A run with routers, conditions and pinned results; beside it the        *)
(* definitions that runs are made of, and the engine whose rules start     *)
(* runs. Each behaviour runs one of them.                                  *)
(***************************************************************************)
EXTENDS Coordinator, TLC

CONSTANTS
  None, Bad, pf, t, x, y, z, c1, c2, m, Gone, onFiles, onEnd, build   \* model values

VARIABLES
  focus,   \* the component that runs
  libraryDb, libraryMates, libraryAutos, libraryOpen, libraryLost, fitsDb, fitsMates,
  fitsAutos, fitsOpen, fitsLost, matesDb, matesMates, matesAutos, matesOpen, matesLost,
  triggersNow, triggersPaused, triggersRules, triggersRuns, triggersFresh,
  triggersCore, triggersBatches, triggersFirings, triggersEvents, triggersLate,
  triggersOwed

Nothing == [s \in {} |-> None]

\* Both rules start the command whose runs the second waits for.
OneCommand == [r \in {onFiles, onEnd} |-> build]

(***************************************************************************)
(* Branches: 1 classifies, the program router 2 selects branch 3 or branch *)
(* 4, which is pinned to unusable data; 5 is a pinned step after 1 that    *)
(* waits for approval.  7 is an independent agent that may spawn 3 and add *)
(* the agent 6, which may spawn 3 too.                                     *)
(***************************************************************************)
BranchStep == 1..7
BranchDeps == <<{}, {1}, {2}, {2}, {1}, {}, {}>>
BranchData == {"a", "b"}
BranchResult == <<{"a", "b"}, {"a", "b"}, {None}, {None}, {None}, {None}, {None}>>
BranchCond == <<{}, {}, {}, {}, {[source |-> 1, accepts |-> {"b"}]}, {}, {}>>
BranchGate == <<{}, {}, {[router |-> 2, selected |-> {"a"}]},
                {[router |-> 2, selected |-> {"b"}]}, {}, {}, {}>>
BranchRoute == [s \in {2} |-> [v \in Value |-> v]]
BranchSpawn == {<<7, 3>>, <<7, 6>>, <<6, 3>>}
BranchPin == [s \in {4, 5} |-> IF s = 4 THEN Bad ELSE None]

AgentOf(n) == pf
CrewOf(n) == t
FlowOf(n) == y
StartOf(n) == c2
NoEdit == [profile |-> 0, team |-> 0, pipe |-> 1, cmd |-> 1]
OneEdit == [profile |-> 1, team |-> 1, pipe |-> 2, cmd |-> 1]

Lib == INSTANCE Definitions WITH
  Profile <- {pf}, Team <- {t}, Pipe <- {x, y, z}, Cmd <- {c1, c2}, Mate <- {},
  Agent <- AgentOf, Crew <- CrewOf, Flow <- FlowOf, Start <- StartOf, None <- None,
  Gone <- Gone, Inputs <- {"none", "required"}, Outputs <- {{}}, Wants <- {{}},
  Spawns <- {{}}, Edited <- {}, MaxRev <- NoEdit, MaxAuto <- 0, db <- libraryDb,
  mates <- libraryMates, autos <- libraryAutos, open <- libraryOpen,
  lost <- libraryLost

Fits == INSTANCE Definitions WITH
  Profile <- {pf}, Team <- {t}, Pipe <- {x, y}, Cmd <- {c2}, Mate <- {m},
  Agent <- AgentOf, Crew <- CrewOf, Flow <- FlowOf, Start <- StartOf, None <- None,
  Gone <- Gone, Inputs <- {"none", "required"}, Outputs <- {{}, {"out"}, {"other"}},
  Wants <- {{}, {"out"}}, Spawns <- {{}}, Edited <- {}, MaxRev <- NoEdit, MaxAuto <- 1,
  db <- fitsDb, mates <- fitsMates, autos <- fitsAutos, open <- fitsOpen,
  lost <- fitsLost

Mates == INSTANCE Definitions WITH
  Profile <- {pf}, Team <- {t}, Pipe <- {y}, Cmd <- {c1, c2}, Mate <- {m},
  Agent <- AgentOf, Crew <- CrewOf, Flow <- FlowOf, Start <- StartOf, None <- None,
  Gone <- Gone, Inputs <- {"required"}, Outputs <- {{}}, Wants <- {{}}, Spawns <- {{}},
  Edited <- {c2}, MaxRev <- OneEdit, MaxAuto <- 0, db <- matesDb, mates <- matesMates,
  autos <- matesAutos, open <- matesOpen, lost <- matesLost

Trg == INSTANCE Triggers WITH
  FileRule <- {onFiles}, EndRule <- {onEnd}, Command <- {build}, Target <- OneCommand,
  Source <- OneCommand, MaxDepth <- 2, Cooldown <- 2, SelfGrace <- 1, Attribution <- 1,
  Debounce <- 1, Longest <- 2, MaxTime <- 2, MaxRun <- 2, MaxEvent <- 1,
  now <- triggersNow, paused <- triggersPaused, rules <- triggersRules,
  runs <- triggersRuns, fresh <- triggersFresh, core <- triggersCore,
  batches <- triggersBatches, firings <- triggersFirings, events <- triggersEvents,
  late <- triggersLate, owed <- triggersOwed

libraryVars ==
  <<libraryDb, libraryMates, libraryAutos, libraryOpen, libraryLost>>
fitsVars ==
  <<fitsDb, fitsMates, fitsAutos, fitsOpen, fitsLost>>
matesVars ==
  <<matesDb, matesMates, matesAutos, matesOpen, matesLost>>
triggersVars ==
  <<triggersNow, triggersPaused, triggersRules, triggersRuns, triggersFresh,
    triggersCore, triggersBatches, triggersFirings, triggersEvents, triggersLate,
    triggersOwed>>
allVars == <<focus, vars, libraryVars, fitsVars, matesVars, triggersVars>>

\* One component runs, from any of its initial states; the others rest in one.
AllInit ==
  /\ focus \in {"coordinator", "library", "fits", "mates", "triggers"}
  /\ Init
  /\ Lib!Init
  /\ Fits!Init
  /\ Mates!Init
  /\ Trg!Init
  /\ focus # "triggers" => triggersRuns[1].of = onFiles /\ triggersRuns[1].depth = 1

AllNext ==
  \/ /\ focus = "coordinator" /\ Next
     /\ UNCHANGED <<focus, libraryVars, fitsVars, matesVars, triggersVars>>
  \/ /\ focus = "library" /\ Lib!Next
     /\ UNCHANGED <<focus, vars, fitsVars, matesVars, triggersVars>>
  \/ /\ focus = "fits" /\ Fits!Next
     /\ UNCHANGED <<focus, vars, libraryVars, matesVars, triggersVars>>
  \/ /\ focus = "mates" /\ Mates!Next
     /\ UNCHANGED <<focus, vars, libraryVars, fitsVars, triggersVars>>
  \/ /\ focus = "triggers" /\ Trg!Next
     /\ UNCHANGED <<focus, vars, libraryVars, fitsVars, matesVars>>

AllSpec == AllInit /\ [][AllNext]_allVars

\* The library of definitions: no stored reference dangles and no launch command runs
\* itself; an editor's graph never overwrites a definition that changed after it was
\* read; and a saved sub-pipeline step that fits its child keeps fitting it until its
\* own pipeline is saved.
LibrarySound ==
  /\ [](focus = "library" =>
          /\ Lib!TypeOK
          /\ Lib!ReferencesResolve
          /\ Lib!NoneRunsItself)
  /\ [](focus = "mates" =>
          /\ Mates!TypeOK
          /\ Mates!EditsKept)
  /\ [](focus = "fits" =>
          /\ Fits!TypeOK)
  /\ Fits!FitKept

\* Loop protection in three layers: no rule is started by file changes of its own run, a
\* run is deeper than every run that caused it, and a rule starts one run per cooldown.
\* An engine at rest has recorded the end of every run for the rules that waited.
TriggersSound ==
  /\ focus = "triggers" =>
       /\ Trg!TypeOK
       /\ Trg!NoSelfFire
       /\ Trg!ChainCovers
       /\ Trg!CooldownHolds
       /\ Trg!EndsRecorded

=============================================================================
