------------------------------ MODULE MCTools -------------------------------
(***************************************************************************)
(* Scripts and their process trees; beside them two tests at once, the     *)
(* capture of output, the backend processes of plugins, worktrees, the     *)
(* review of git changes, the reading of git's output, the index of        *)
(* session files, and quitting and updating. Each behaviour runs one of    *)
(* them.                                                                   *)
(***************************************************************************)
EXTENDS ScriptRunner, TLC, Sequences

CONSTANTS
  e1, e2, st, k1, k2, ca, ce, cq, nl, mk, Bad, v1, v2, Host, NoFolder, rt, n0, n1, big,
  Absent, Ita, Conflict, s1, s2, pr, x1, x2, y1, y2, z1, z2, t1, t2, f1, f2   \* model values

VARIABLES
  focus,   \* the component that runs
  testsWindows, testsKey, testsEx, testsProc, testsJob, testsDirs, testsActive,
  testsHost, testsFaults, testsWorld, outputSrc, outputStream, outputPos, outputBuf,
  outputFields, outputText, outputResult, backendsOff, backendsPerms, backendsShutting,
  backendsSlot, backendsLock, backendsProcs, backendsTask, backendsWatched,
  backendsHeld, backendsCommand, backendsCommands, placementFolder, placementWork,
  placementPlace, placementChat, placementShown, placementTask, placementEdits,
  placementFails, placementStray, placementCrossed, placementLost, reviewHead,
  reviewIndex, reviewWork, reviewViews, reviewTask, reviewTrash, reviewDone,
  reviewEdits, gitInput, gitPos, gitGot, gitLeft, lifeUp, lifeLoop, lifeWake, lifeHost,
  lifeNative, lifeStop, lifeWin, lifeTray, lifeKeep, lifeSaved, lifeSetter,
  lifeCrossed, lifeStarts, lifeFails, lifeOps, indexDir, indexFiles, indexProj,
  indexRows, indexNextId, indexFreshness, indexSinceFull, indexTask, indexOp,
  indexEdits, indexPasses, indexOps, indexRaced, indexApproved

Widths == ca :> 1 @@ ce :> 2 @@ cq :> 4 @@ nl :> 1 @@ mk :> 3
Objects == {<<ca>>, <<ca, ce>>, <<ca, ca>>}
FittingObjects == {<<ca>>, <<ca, ca>>}
Rest == <<[how |-> "untracked", path |-> "s"]>>

Row == {" ", "-", "+", "---", "+++", "\\"}
\* Bodies as git prints them: a marker follows a line, and a hunk has a change.
WellFormed(rows) ==
  /\ rows[1] # "\\"
  /\ \A i \in 2..Len(rows) : rows[i] = "\\" => rows[i - 1] # "\\"
  /\ \E i \in 1..Len(rows) : rows[i] \in {"-", "---", "+", "+++"}
Bodies(n) == {rows \in UNION {[1..k -> Row] : k \in 1..n} : WellFormed(rows)}
Short == {<<" ", "---", " ">>, <<"+", "-", "\\">>, <<" ", "+++">>}

Patches ==
  {[kind |-> "text", gap |-> g, bodies |-> <<b>>] : g \in {0, 2}, b \in Bodies(5)} \cup
  {[kind |-> k, gap |-> 1, bodies |-> <<b, c>>] : k \in {"text", "mode"}, b \in Bodies(3), c \in Short} \cup
  {[kind |-> "new", gap |-> 0, bodies |-> <<b>>] : b \in {<<"+", "+++">>, <<"+", "\\">>}} \cup
  {[kind |-> "deleted", gap |-> 0, bodies |-> <<b>>] : b \in {<<"-", "---">>, <<"---", "\\">>}} \cup
  {[kind |-> "renamed", gap |-> 1, bodies |-> <<b>>] : b \in Short} \cup
  {[kind |-> "junk", gap |-> 0, bodies |-> <<b>>] : b \in {<<" ", "data", "-">>, <<"-", "data", "+">>}} \cup
  {[kind |-> "binary", gap |-> 0, bodies |-> <<>>]}

Paths == {"p", "q", "hidden"}
Looks == {"1", "2", "?", "u"}
Changes ==
  [how: {"renamed", "copied"}, path: Paths, from: Paths, y: {".", "M", "R"}, looks: Looks] \cup
  [how: {"moved"}, path: Paths, from: Paths, looks: Looks] \cup
  [how: {"changed"}, path: Paths, x: {".", "M", "D"}, y: {".", "A", "M"}] \cup
  [how: {"conflict", "untracked"}, path: Paths]
Distinct(c) == c.how \in {"renamed", "copied", "moved"} => c.path # c.from
Statuses ==
  {<<c>> : c \in {d \in Changes : Distinct(d)}} \cup
  {<<c, d>> : c \in {e \in Changes : Distinct(e)},
              d \in [how: {"untracked"}, path: {"s"}] \cup
                    {[how |-> "moved", path |-> "s", from |-> "r", looks |-> "2"]}}

Tst == INSTANCE ScriptRunner WITH
  Test <- {e1, e2}, Step <- {}, Key <- {k1, k2}, MaxTests <- 1, MaxFault <- 1,
  MaxWorld <- 1, None <- None, windows <- testsWindows, key <- testsKey, ex <- testsEx,
  proc <- testsProc, job <- testsJob, dirs <- testsDirs, active <- testsActive,
  host <- testsHost, faults <- testsFaults, world <- testsWorld

Out == INSTANCE ScriptOutput WITH
  Char <- {ca, ce, cq, nl, mk}, Width <- Widths, Newline <- nl, Bom <- mk, Bad <- Bad,
  None <- None, Object <- Objects, Fitting <- FittingObjects, MaxChars <- 4,
  Chunk <- 3, HeadLimit <- 6, TailLimit <- 5, DetailLimit <- 4, src <- outputSrc,
  stream <- outputStream, pos <- outputPos, buf <- outputBuf, fields <- outputFields,
  text <- outputText, result <- outputResult

Bck == INSTANCE PluginBackends WITH
  Calls <- {x1, x2}, Projects <- {pr}, NoProject <- NoFolder, Host <- Host,
  MaxProc <- 2, MaxCommand <- 1, CrashLimit <- 2, Commands <- {"disable"},
  Trusted <- {{"project.write"}}, off <- backendsOff, perms <- backendsPerms,
  shutting <- backendsShutting, slot <- backendsSlot, lock <- backendsLock,
  procs <- backendsProcs, task <- backendsTask, watched <- backendsWatched,
  held <- backendsHeld, command <- backendsCommand, commands <- backendsCommands

Plc == INSTANCE Placement WITH
  Chat <- {x1, x2}, Root <- {rt}, Path <- {z1, z2}, Task <- {y1, y2}, None <- None,
  MaxEdit <- 1, MaxFail <- 2, folder <- placementFolder, work <- placementWork,
  place <- placementPlace, chat <- placementChat, shown <- placementShown,
  task <- placementTask, edits <- placementEdits, fails <- placementFails,
  stray <- placementStray, crossed <- placementCrossed, lost <- placementLost

Rev == INSTANCE GitReview WITH
  Region <- {x1, x2}, Val <- {n0, n1, big}, Huge <- {big}, Absent <- Absent,
  Ita <- Ita, Conflict <- Conflict, Task <- {y1, y2}, None <- None, MaxEdit <- 2,
  MaxView <- 2, head <- reviewHead, index <- reviewIndex, work <- reviewWork,
  views <- reviewViews, task <- reviewTask, trash <- reviewTrash, done <- reviewDone,
  edits <- reviewEdits

Git == INSTANCE GitOutput WITH
  Patch <- Patches, Status <- Statuses, input <- gitInput, pos <- gitPos,
  got <- gitGot, left <- gitLeft

Lif == INSTANCE Lifecycle WITH
  Version <- {v1, v2}, Setter <- {s1, s2}, None <- None, MaxStart <- 1, MaxFail <- 2,
  MaxOp <- 3, up <- lifeUp, loop <- lifeLoop, wake <- lifeWake, host <- lifeHost,
  native <- lifeNative, stop <- lifeStop, win <- lifeWin, tray <- lifeTray,
  keep <- lifeKeep, saved <- lifeSaved, setter <- lifeSetter, crossed <- lifeCrossed,
  starts <- lifeStarts, fails <- lifeFails, ops <- lifeOps

Idx == INSTANCE SessionIndex WITH
  Paths <- {f1, f2}, Tasks <- {t1, t2}, Interval <- 1, MaxEdit <- 2, MaxPass <- 2,
  MaxOp <- 1, dir <- indexDir, files <- indexFiles, proj <- indexProj,
  rows <- indexRows, nextId <- indexNextId, freshness <- indexFreshness,
  sinceFull <- indexSinceFull, task <- indexTask, op <- indexOp, edits <- indexEdits,
  passes <- indexPasses, ops <- indexOps, raced <- indexRaced,
  approved <- indexApproved

testsVars ==
  <<testsWindows, testsKey, testsEx, testsProc, testsJob, testsDirs, testsActive,
    testsHost, testsFaults, testsWorld>>
outputVars ==
  <<outputSrc, outputStream, outputPos, outputBuf, outputFields, outputText,
    outputResult>>
backendsVars ==
  <<backendsOff, backendsPerms, backendsShutting, backendsSlot, backendsLock,
    backendsProcs, backendsTask, backendsWatched, backendsHeld, backendsCommand,
    backendsCommands>>
placementVars ==
  <<placementFolder, placementWork, placementPlace, placementChat, placementShown,
    placementTask, placementEdits, placementFails, placementStray, placementCrossed,
    placementLost>>
reviewVars ==
  <<reviewHead, reviewIndex, reviewWork, reviewViews, reviewTask, reviewTrash,
    reviewDone, reviewEdits>>
gitVars ==
  <<gitInput, gitPos, gitGot, gitLeft>>
lifeVars ==
  <<lifeUp, lifeLoop, lifeWake, lifeHost, lifeNative, lifeStop, lifeWin, lifeTray,
    lifeKeep, lifeSaved, lifeSetter, lifeCrossed, lifeStarts, lifeFails, lifeOps>>
indexVars ==
  <<indexDir, indexFiles, indexProj, indexRows, indexNextId, indexFreshness,
    indexSinceFull, indexTask, indexOp, indexEdits, indexPasses, indexOps, indexRaced,
    indexApproved>>
allVars == <<focus, vars, testsVars, outputVars, backendsVars, placementVars, reviewVars, gitVars, lifeVars, indexVars>>

\* One component runs, from any of its initial states; the others rest in one.
AllInit ==
  /\ focus \in {"runner", "tests", "output", "backends", "placement", "review", "git", "life", "index"}
  /\ Init
  /\ focus # "runner" => windows /\ key[e1] = k1
  /\ Tst!Init
  /\ focus # "tests" => testsWindows /\ testsKey = [e \in {e1, e2} |-> k1]
  /\ IF focus = "output" THEN Out!Init
     ELSE /\ outputSrc = <<>> /\ outputStream = "stdout" /\ outputFields = FALSE /\ outputPos = 0
          /\ outputBuf = [bytes |-> <<>>, cut |-> FALSE] /\ outputText = None /\ outputResult = None
  /\ Bck!Init
  /\ Plc!Init
  /\ Rev!Init
  /\ focus # "review" => reviewHead = Absent
  /\ IF focus = "git" THEN Git!Init
     ELSE /\ gitInput = [what |-> "status", of |-> Rest, text |-> Git!Stream(Rest)] /\ gitGot = Git!NoReport
          /\ gitPos = 1 /\ gitLeft = [old |-> 0, new |-> 0]
  /\ Lif!Init
  /\ focus # "life" => lifeHost.windows
  /\ Idx!Init

AllNext ==
  \/ /\ focus = "runner" /\ Next
     /\ UNCHANGED <<focus, testsVars, outputVars, backendsVars, placementVars, reviewVars, gitVars, lifeVars, indexVars>>
  \/ /\ focus = "tests" /\ Tst!Next
     /\ UNCHANGED <<focus, vars, outputVars, backendsVars, placementVars, reviewVars, gitVars, lifeVars, indexVars>>
  \/ /\ focus = "output" /\ Out!Next
     /\ UNCHANGED <<focus, vars, testsVars, backendsVars, placementVars, reviewVars, gitVars, lifeVars, indexVars>>
  \/ /\ focus = "backends" /\ Bck!Next
     /\ UNCHANGED <<focus, vars, testsVars, outputVars, placementVars, reviewVars, gitVars, lifeVars, indexVars>>
  \/ /\ focus = "placement" /\ Plc!Next
     /\ UNCHANGED <<focus, vars, testsVars, outputVars, backendsVars, reviewVars, gitVars, lifeVars, indexVars>>
  \/ /\ focus = "review" /\ Rev!Next
     /\ UNCHANGED <<focus, vars, testsVars, outputVars, backendsVars, placementVars, gitVars, lifeVars, indexVars>>
  \/ /\ focus = "git" /\ Git!Next
     /\ UNCHANGED <<focus, vars, testsVars, outputVars, backendsVars, placementVars, reviewVars, lifeVars, indexVars>>
  \/ /\ focus = "life" /\ Lif!Next
     /\ UNCHANGED <<focus, vars, testsVars, outputVars, backendsVars, placementVars, reviewVars, gitVars, indexVars>>
  \/ /\ focus = "index" /\ Idx!Next
     /\ UNCHANGED <<focus, vars, testsVars, outputVars, backendsVars, placementVars, reviewVars, gitVars, lifeVars>>

AllSpec == AllInit /\ [][AllNext]_allVars

\* Names that the components treat alike.
Symmetry == Permutations({x1, x2}) \cup Permutations({y1, y2})

\* A script's answer is about a process tree that is over, what was not started did
\* nothing, and its output and folder are settled with it; the registry names exactly
\* the tests that run; captured output is exact to the character at either end; a run
\* takes data only from a whole output, as its test shows; and the detail of a failure
\* is readable.
ScriptsSound ==
  /\ focus = "runner" =>
       /\ ScriptsEnd
  /\ focus = "tests" =>
       /\ Tst!RegistryExact
  /\ focus = "output" =>
       /\ Out!TypeOK
       /\ Out!HeadExact
       /\ Out!TailExact
       /\ Out!DataIsWhole
       /\ Out!TestAgrees
       /\ Out!DetailReadable

\* Plugin backends: the holds are exactly the calls in progress, a replacement cuts no
\* call off, a request reaches only a process that may read its folder, one tree is
\* alive besides those being shut down, a timeout leaves no process of the call, and a
\* disabled plugin keeps none.
BackendsSound ==
  /\ focus = "backends" =>
       /\ Bck!TypeOK
       /\ Bck!HoldsCounted
       /\ Bck!ReplacementCutsNobody
       /\ Bck!InProject
       /\ Bck!OneTree
       /\ Bck!TimeoutEndsTree
       /\ Bck!DisabledIsStopped

\* Worktrees: a running chat has its worktree, a removal discards only listed changes,
\* and a folder stays managed. Reviews: git applies exactly the reviewed change, and
\* nothing is lost unseen. Git's differences, hunks and status are read exactly.
GitSound ==
  /\ focus = "placement" =>
       /\ Plc!TypeOK
       /\ Plc!RunsInItsWorktree
       /\ Plc!LossListed
       /\ Plc!StaysManaged
  /\ focus = "review" =>
       /\ Rev!TypeOK
       /\ Rev!AppliesReviewed
       /\ Rev!LossShown
  /\ focus = "git" =>
       /\ Git!ParsesExactly
       /\ Git!PartsExact
       /\ Git!StatusExact


\* The index of session files under overlapping passes: a path and a file have one row,
\* a complete pass over a disk that held still is exact, trust and rows are those of the
\* folder that is registered, a session id never passes to another file, and an
\* incomplete pass forgets nothing.
IndexSound ==
  /\ [](focus = "index" =>
          /\ Idx!TypeOK
          /\ Idx!OneRowPerFile
          /\ Idx!CompletePassExact
          /\ Idx!TrustOfThisFolder
          /\ Idx!RowsOfThisFolder)
  /\ Idx!IdNeverMoves
  /\ Idx!IncompleteKeeps

=============================================================================
