------------------------------ MODULE MCBoard -------------------------------
(***************************************************************************)
(* What starts work without a person: the board of cards and teammates;    *)
(* beside it the path patterns of the rules that wait for changed files.   *)
(* Each behaviour runs one of them.                                        *)
(***************************************************************************)
EXTENDS Board, TLC

CONSTANTS
  k1, k2, m1   \* model values

VARIABLES
  focus,   \* the component that runs
  patternsInput, patternsToken, patternsPosition, patternsStar, patternsAnswer

Codes == "!" :> 33 @@ "*" :> 42 @@ "-" :> 45 @@ "?" :> 63 @@ "[" :> 91 @@ "]" :> 93 @@ "a" :> 97 @@ "b" :> 98

Pat == INSTANCE PathPatterns WITH
  Letter <- {"a", "b"}, Code <- Codes, MaxTokens <- 3, MaxName <- 3, MaxParts <- 3,
  MaxText <- 5, MaxBraces <- 6, input <- patternsInput, token <- patternsToken,
  position <- patternsPosition, star <- patternsStar, answer <- patternsAnswer

patternsVars ==
  <<patternsInput, patternsToken, patternsPosition, patternsStar, patternsAnswer>>
allVars == <<focus, vars, patternsVars>>

\* One component runs, from any of its initial states; the others rest in one.
AllInit ==
  /\ focus \in {"board", "patterns"}
  /\ Init
  /\ focus # "board" => b.cards = {k1} /\ b.who[k1] = m1
  /\ IF focus = "patterns" THEN Pat!Init
     ELSE /\ patternsToken = 1 /\ patternsPosition = 1 /\ patternsStar = <<>> /\ patternsAnswer = "open"
          /\ patternsInput = Pat!Empty

AllNext ==
  \/ /\ focus = "board" /\ Next
     /\ UNCHANGED <<focus, patternsVars>>
  \/ /\ focus = "patterns" /\ Pat!Next
     /\ UNCHANGED <<focus, vars>>

AllSpec == AllInit /\ [][AllNext]_allVars

\* match_tokens, with one backtrack point, answers what the pattern means; a pattern
\* that matches a folder matches exactly what is inside; an accepted pattern reads back
\* as its text; and braces do not change how it is anchored.
PatternsExact ==
  /\ focus = "patterns" =>
       /\ Pat!TypeOK
       /\ Pat!TokensExact
       /\ Pat!FoldersCover
       /\ Pat!ReadsBack
       /\ Pat!AnchoringAgrees

=============================================================================
