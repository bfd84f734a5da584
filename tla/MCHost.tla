------------------------------- MODULE MCHost -------------------------------
(***************************************************************************)
(* The host that executes a run; beside it the history, the tree and the   *)
(* catalog that are read from session files. Each behaviour runs one of    *)
(* them.                                                                   *)
(***************************************************************************)
EXTENDS RunHost, TLC

CONSTANTS
  None, Bad   \* model values

VARIABLES
  focus,   \* the component that runs
  historyFormat, historyLog, treeLog, treeTail, treeAcc, fieldsLog, fieldsTail,
  fieldsAcc

Nothing == [s \in {} |-> None]
NoResult == [s \in Step |-> {None}]
NoSets == [s \in Step |-> {}]
CrewStep == 1..2
CrewSpawn == {<<1, 2>>}

Line(type, id, parent) ==
  [shape |-> "object", long |-> FALSE, type |-> type, id |-> id, parent |-> parent, name |-> "none",
   cwd |-> "none", stamp |-> "none", model |-> "none", role |-> "none", preview |-> "none"]

Links == {Line("message", id, parent) : id \in {"a", "b", "c"}, parent \in {"a", "b", "c", "none"}} \cup {Line("message", "d", "c")}

Fields ==
  { [Line("session", "a", "none") EXCEPT !.name = "x", !.cwd = "p", !.stamp = "1", !.model = "m"],
    [Line("session_info", "none", "none") EXCEPT !.name = "y", !.cwd = "too long", !.stamp = "2"],
    [Line("message", "none", "none") EXCEPT !.role = "user"],
    [Line("message", "none", "a") EXCEPT !.role = "user", !.preview = "u", !.stamp = "3"],
    [Line("message", "d", "none") EXCEPT !.role = "assistant", !.preview = "v", !.model = "n"],
    [Line("compaction", "none", "none") EXCEPT !.role = "user", !.preview = "w"],
    [Line("other", "none", "none") EXCEPT !.role = "user", !.preview = "z", !.model = "o"],
    [Line("message", "none", "none") EXCEPT !.shape = "bad"],
    [Line("message", "a", "none") EXCEPT !.long = TRUE] }

FewLinks == {Line("message", "a", "none"), Line("message", "b", "a")}

FieldFrames == Fields \cup FewLinks

Item(type, said, call) == [type |-> type, text |-> said, call |-> call]

Pi(type, role, parts) ==
  [type |-> type, role |-> role, items |-> parts, call |-> "none", failed |-> FALSE, stop |-> "none",
   error |-> FALSE, hidden |-> FALSE]

PiRecords ==
  { Pi("metadata", "none", <<>>),
    Pi("compaction", "none", <<Item("string", <<"s">>, "none")>>),
    [Pi("custom", "none", <<>>) EXCEPT !.hidden = TRUE],
    [Pi("bash", "none", <<>>) EXCEPT !.stop = "aborted"],
    Pi("unknown", "none", <<>>),
    Pi("message", "user", <<Item("string", <<"u">>, "none")>>),
    Pi("message", "assistant", <<Item("string", <<"a">>, "none")>>),
    Pi("message", "assistant", <<Item("thinking", <<"t">>, "none"), Item("text", <<"b">>, "none"),
                                 Item("call", <<"missing">>, "c")>>),
    [Pi("message", "assistant", <<Item("text", <<"p">>, "none"), Item("call", <<"missing">>, "c")>>)
       EXCEPT !.stop = "aborted"],
    [Pi("message", "assistant", <<>>) EXCEPT !.stop = "error", !.error = TRUE],
    Pi("message", "assistant", <<Item("bash", <<"o">>, "none")>>),
    [Pi("message", "toolResult", <<Item("text", <<"r">>, "none")>>) EXCEPT !.call = "c"],
    [Pi("message", "toolResult", <<>>) EXCEPT !.call = "c", !.failed = TRUE],
    [Pi("message", "toolResult", <<>>) EXCEPT !.call = "d"] }

Codex(type, role, said, source, call) ==
  [type |-> type, role |-> role, text |-> said, source |-> source, call |-> call, failed |-> FALSE]

CodexRecords ==
  {Codex("text", role, <<"x">>, source, "none") : role \in {"user", "assistant"}, source \in {"response", "event"}}
  \cup { Codex("text", "assistant", <<"y">>, "response", "none"), Codex("text", "user", <<>>, "event", "none"),
         Codex("ignored", "none", <<>>, "none", "none"), Codex("unknown", "none", <<>>, "none", "none"),
         Codex("compaction", "none", <<"s">>, "none", "none"), Codex("call", "none", <<>>, "none", "c"),
         Codex("output", "none", <<"r">>, "none", "c"), Codex("output", "none", <<"missing">>, "none", "d"),
         [Codex("output", "none", <<"missing">>, "none", "c") EXCEPT !.failed = TRUE] }

HermesRecords ==
  { Codex("text", "user", <<"x">>, "none", "none"), Codex("text", "assistant", <<"x">>, "none", "none"),
    Codex("text", "assistant", <<"y">>, "none", "none"), Codex("call", "none", <<"r">>, "none", "none"),
    Codex("ignored", "none", <<>>, "none", "none"), Codex("unknown", "none", <<>>, "none", "none") }

Claude(type, id, parent, said) ==
  [type |-> type, id |-> id, parent |-> parent, text |-> said, call |-> "none", result |-> "none",
   failed |-> FALSE]

ClaudeRecords ==
  { Claude("user", "a", "none", <<"u">>), Claude("assistant", "b", "a", <<"v">>),
    [Claude("assistant", "b", "a", <<>>) EXCEPT !.call = "c"],
    [Claude("user", "d", "b", <<"r">>) EXCEPT !.result = "c"],
    [Claude("user", "a", "b", <<"r">>) EXCEPT !.result = "c", !.failed = TRUE],
    [Claude("assistant", "e", "b", <<"w">>) EXCEPT !.call = "k"],
    Claude("assistant", "f", "d", <<"z">>), Claude("api error", "f", "b", <<>>),
    Claude("compaction", "g", "d", <<>>), Claude("meta", "d", "g", <<>>),
    Claude("internal", "g", "b", <<>>), Claude("unknown", "g", "a", <<>>),
    Claude("metadata", "none", "none", <<>>), Claude("torn", "none", "none", <<>>) }

AllRecords ==
  [pi |-> PiRecords, codex |-> CodexRecords, hermes |-> HermesRecords, claude |-> ClaudeRecords]

Lengths == [pi |-> 3, codex |-> 3, hermes |-> 3, claude |-> 4]

His == INSTANCE History WITH
  Records <- AllRecords, MaxRecords <- Lengths, TotalLimit <- 3,
  format <- historyFormat, log <- historyLog

Tree == INSTANCE Transcript WITH
  Frames <- Links, MaxFrames <- 4, MaxNodes <- 4, MaxDepth <- 1, MaxOutput <- 3,
  log <- treeLog, tail <- treeTail, acc <- treeAcc

Fld == INSTANCE Transcript WITH
  Frames <- FieldFrames, MaxFrames <- 4, MaxNodes <- 2, MaxDepth <- 1, MaxOutput <- 2,
  log <- fieldsLog, tail <- fieldsTail, acc <- fieldsAcc

historyVars ==
  <<historyFormat, historyLog>>
treeVars ==
  <<treeLog, treeTail, treeAcc>>
fieldsVars ==
  <<fieldsLog, fieldsTail, fieldsAcc>>
allVars == <<focus, hvars, historyVars, treeVars, fieldsVars>>

\* One component runs, from any of its initial states; the others rest in one.
AllInit ==
  /\ focus \in {"host", "history", "tree", "fields"}
  /\ HostInit
  /\ His!Init
  /\ focus # "history" => historyFormat = "pi"
  /\ Tree!Init
  /\ Fld!Init

AllNext ==
  \/ /\ focus = "host" /\ HostNext
     /\ UNCHANGED <<focus, historyVars, treeVars, fieldsVars>>
  \/ /\ focus = "history" /\ His!Next
     /\ UNCHANGED <<focus, hvars, treeVars, fieldsVars>>
  \/ /\ focus = "tree" /\ Tree!Next
     /\ UNCHANGED <<focus, hvars, historyVars, fieldsVars>>
  \/ /\ focus = "fields" /\ Fld!Next
     /\ UNCHANGED <<focus, hvars, historyVars, treeVars>>

AllSpec == AllInit /\ [][AllNext]_allVars

\* What is shown of a session file is what the file says. History: ids and hashes lead
\* to their answers, results reach their call, the newest texts stay within the limit,
\* Claude Code's active branch is followed, and a new record changes only the end. Tree:
\* a forest, cut only at cycles and limits, with exact block links. The catalog says
\* what the full scan says.
SessionFilesExact ==
  /\ [](focus = "history" =>
          /\ His!TypeOK
          /\ His!AnswersResolve
          /\ His!ResultsReachTheirCall
          /\ His!NewestStay
          /\ His!ActiveBranch)
  /\ [](focus = "tree" =>
          /\ Tree!TypeOK
          /\ Tree!TreeIsForest
          /\ Tree!OnlyNeededCuts
          /\ Tree!BlockLinksExact)
  /\ [](focus = "fields" =>
          /\ Fld!CatalogAgrees)
  /\ His!GrowsAtTheEnd

=============================================================================
