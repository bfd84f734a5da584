------------------------------- MODULE History -------------------------------
(***************************************************************************)
(* The display history of a native session: how the records an agent wrote *)
(* (Pi's JSONL, Codex rollouts, Hermes' rows, Claude Code's chained        *)
(* entries) become timeline blocks, and which exact answer text belongs to *)
(* which block.  The log grows one record at a time; the projections are   *)
(* functions of it.  A text is a sequence of atoms, empty when blank.      *)
(* `src` of a block or text is the record (and item) it was made from.     *)
(***************************************************************************)
EXTENDS Naturals, Sequences, FiniteSets, SequencesExt

CONSTANTS Records,     \* format -> the records its agent may write
          MaxRecords,  \* format -> bound on the length of the log
          TotalLimit   \* DISPLAY_TOTAL_LIMIT, in atoms of text

VARIABLES format, log

vars == <<format, log>>

Null == "none"
Missing == <<"missing">>   \* an item without a text field, a reference without a hash
ErrorText == <<"error">>   \* the message of an answer that failed

-----------------------------------------------------------------------------
\* CodexProjectionBuilder, shared by Codex, Hermes and Claude Code.

NewBuilder == [blocks |-> <<>>, tools |-> <<>>, last |-> <<>>, texts |-> <<>>, unknown |-> {}]

Block(kind, status, text, src) ==
  [kind |-> kind, status |-> status, text |-> text, src |-> src, trimmed |-> FALSE]

Push(b, block) == [b EXCEPT !.blocks = Append(@, block), !.last = <<>>]

\* Codex writes a text both as a response and as an event; the adjacent copy
\* of the other source is dropped.
PushText(b, kind, text, source, src) ==
  LET now == <<kind, text, source>>
      copy == /\ b.last # <<>>
              /\ b.last[1] = kind /\ b.last[2] = text /\ b.last[3] # source
      grown == [Push(b, Block(kind, "complete", text, src)) EXCEPT
                  !.texts = IF kind = "assistant"
                              THEN Append(@, [block |-> Len(b.blocks) + 1, text |-> text, src |-> src])
                              ELSE @]
  IN [(IF copy THEN b ELSE grown) EXCEPT !.last = now]

PushTool(b, call, src) ==
  [Push(b, Block("tool", "running", <<>>, src)) EXCEPT
     !.tools = IF call = Null THEN @ ELSE (call :> Len(b.blocks) + 1) @@ @]

Finished(failed) == IF failed THEN "failed" ELSE "complete"

\* A result for a call nobody made becomes a block of its own.
FinishTool(b, call, text, failed, src) ==
  IF call # Null /\ call \in DOMAIN b.tools
    THEN [b EXCEPT !.blocks[b.tools[call]].status = Finished(failed),
                   !.blocks[b.tools[call]].text = IF text = Missing THEN @ ELSE text,
                   !.last = <<>>]
    ELSE Push(b, Block("tool", Finished(failed), IF text = Missing THEN <<>> ELSE text, src))

\* Claude Code's unknown kinds are shown once each.
PushUnknownOnce(b, kind, src) ==
  [(IF kind \in b.unknown THEN b ELSE Push(b, Block("unknown", "complete", <<>>, src)))
     EXCEPT !.unknown = @ \cup {kind}]

\* Older texts go first when the display is over its limit.
Trim(blocks) ==
  LET total(from) == FoldLeft(LAMBDA n, k : n + Len(blocks[k].text), 0,
                              [k \in 1 .. Len(blocks) - from |-> k + from])
      keep == CHOOSE n \in 0 .. Len(blocks) :
                /\ total(n) <= TotalLimit
                /\ \A k \in 0 .. n - 1 : total(k) > TotalLimit
  IN [i \in DOMAIN blocks |->
        IF i <= keep /\ blocks[i].text # <<>>
          THEN [blocks[i] EXCEPT !.text = <<>>, !.trimmed = TRUE] ELSE blocks[i]]

-----------------------------------------------------------------------------
\* Pi: semantic_blocks, and exact_pi_assistant_texts beside it.

ShownItem(i) == i.type \in {"string", "text", "toolResult", "bash"} /\ i.text # Missing

\* display_content of a record: a plain string, or its readable items joined.
Content(r) == FoldLeft(LAMBDA t, i : IF ShownItem(i) THEN t \o i.text ELSE t, <<>>, r.items)

OrMissing(text) == IF text = <<>> THEN Missing ELSE text

Stopped(r) == CASE r.stop = "error" -> "failed" [] r.stop = "aborted" -> "interrupted"
                [] OTHER -> "complete"

Text(i) == IF i.text = Missing THEN <<>> ELSE i.text

\* One item of a message's content.
PiItem(b, r, i, src) ==
  CASE r.role = "assistant" /\ i.type = "text" ->
         Push(b, Block("assistant", Stopped(r), Text(i), src))
    [] r.role = "assistant" /\ i.type = "thinking" ->
         Push(b, Block("thinking", Stopped(r), Text(i), src))
    [] i.type = "call" ->
         LET pushed == PushTool(b, i.call, src)
         IN IF Stopped(r) = "complete" THEN pushed
            ELSE [pushed EXCEPT !.blocks[Len(pushed.blocks)].status = Stopped(r)]
    [] i.type = "bash" -> Push(b, Block("tool", "complete", Text(i), src))
    [] OTHER -> b

\* The content is one string rather than a list of items.
Plain(r) == Len(r.items) = 1 /\ r.items[1].type = "string"

\* The items of a record that were recognised as details of an answer.
Detail(r) == {k \in DOMAIN r.items : \/ r.role = "assistant" /\ r.items[k].type \in {"text", "thinking"}
                                     \/ r.items[k].type \in {"call", "bash"}}

\* What follows the items: a result goes to its call, a user's text is shown,
\* an answer without details is shown by its text or by its error.
PiRest(b, r, n) ==
  CASE r.role = "toolResult" -> FinishTool(b, r.call, OrMissing(Content(r)), r.failed, <<n, 0>>)
    [] r.role = "user" -> Push(b, Block("user", "complete", Content(r), <<n, 0>>))
    [] r.role = "assistant" /\ Detail(r) = {} /\ (Content(r) # <<>> \/ r.error) ->
         Push(b, Block("assistant", Stopped(r), IF Content(r) = <<>> THEN ErrorText ELSE Content(r), <<n, 0>>))
    [] OTHER -> b

PiRecord(b, n) ==
  LET r == log[n]
  IN CASE r.type = "metadata" -> b
       [] r.type = "compaction" -> Push(b, Block("compaction", "complete", Content(r), <<n, 0>>))
       [] r.type = "custom" -> IF r.hidden THEN b
                               ELSE Push(b, Block("custom", "complete", Content(r), <<n, 0>>))
       [] r.type = "bash" -> Push(b, Block("tool", IF r.stop = "aborted" THEN "interrupted" ELSE "complete",
                                                    Content(r), <<n, 0>>))
       [] r.type = "unknown" -> Push(b, Block("unknown", "complete", <<>>, <<n, 0>>))
       [] r.type = "message" ->
            PiRest(FoldLeft(LAMBDA c, k : PiItem(c, r, r.items[k], <<n, k>>), b,
                            [k \in DOMAIN r.items |-> k]), r, n)

Numbers == [n \in DOMAIN log |-> n]

SemanticBlocks == FoldLeft(PiRecord, NewBuilder, Numbers).blocks

\* Answers that carry an error have no exact text.
PiExactSkippingStopped(texts, n) ==
  LET r == log[n]
      own == SelectSeq([k \in DOMAIN r.items |-> k],
                       LAMBDA k : r.items[k].type = "text" /\ r.items[k].text # Missing)
  IN IF r.type # "message" \/ r.role # "assistant" \/ r.stop # Null THEN texts
     ELSE IF own # <<>>
       THEN texts \o [j \in DOMAIN own |-> [text |-> r.items[own[j]].text, src |-> <<n, own[j]>>]]
       ELSE IF Plain(r) \/ Content(r) # <<>>
         THEN Append(texts, [text |-> Content(r), src |-> <<n, 0>>])
         ELSE texts

\* The exact texts of the answers, read from the same file on their own.
PiExact(texts, n) ==
  LET r == log[n]
      own == SelectSeq([k \in DOMAIN r.items |-> k],
                       LAMBDA k : r.items[k].type = "text" /\ r.items[k].text # Missing)
  IN IF r.type # "message" \/ r.role # "assistant" THEN texts
     ELSE IF own # <<>>
       THEN texts \o [j \in DOMAIN own |-> [text |-> r.items[own[j]].text, src |-> <<n, own[j]>>]]
       ELSE IF Plain(r) \/ Content(r) # <<>>
         THEN Append(texts, [text |-> Content(r), src |-> <<n, 0>>])
         ELSE texts

ExactTexts == FoldLeft(PiExact, <<>>, Numbers)

\* The k-th answer block is given the k-th exact text.
PiTexts ==
  LET blocks == SemanticBlocks
      exact == ExactTexts
      answers == SelectSeq([i \in DOMAIN blocks |-> i], LAMBDA i : blocks[i].kind = "assistant")
      n == IF Len(answers) < Len(exact) THEN Len(answers) ELSE Len(exact)
  IN [k \in 1 .. n |-> [block |-> answers[k], text |-> exact[k].text, src |-> exact[k].src]]

-----------------------------------------------------------------------------
\* Codex rollouts and Hermes rows.

CodexRecord(b, n) ==
  LET r == log[n]
      src == <<n, 0>>
  IN CASE r.type = "ignored" -> b
       [] r.type = "text" -> IF r.text = <<>> /\ r.source = "response" THEN b
                             ELSE PushText(b, r.role, r.text, r.source, src)
       [] r.type = "call" -> PushTool(b, r.call, src)
       [] r.type = "output" -> FinishTool(b, r.call, r.text, r.failed, src)
       [] r.type = "compaction" -> Push(b, Block("compaction", "complete", r.text, src))
       [] r.type = "unknown" -> Push(b, Block("unknown", "complete", <<>>, src))

\* Hermes stores a tool's call and result as one row.
HermesRecord(b, n) ==
  LET r == log[n]
      src == <<n, 0>>
      id == <<"hermes", Len(b.blocks)>>
  IN CASE r.type = "ignored" -> b
       [] r.type = "text" -> PushText(b, r.role, r.text, "response", src)
       [] r.type = "call" -> FinishTool(PushTool(b, id, src), id, r.text, FALSE, src)
       [] r.type = "unknown" -> Push(b, Block("unknown", "complete", <<>>, src))

-----------------------------------------------------------------------------
\* Claude Code: entries name their parents; the active branch is shown.

ChainEntry(r) == r.type \notin {"metadata", "torn"}
Conversational(r) == r.type \in {"user", "assistant", "api error", "meta"}

Entries == SelectSeq(Numbers, LAMBDA n : ChainEntry(log[n]))

\* The newest main-conversation entry.
Leaf == LET talk == SelectSeq(Entries, LAMBDA n : Conversational(log[n]))
        IN IF talk = <<>> THEN 0 ELSE Last(talk)

\* The last entry of an id is the one a parent link finds.
ByUuid(id) ==
  LET named == SelectSeq(Entries, LAMBDA n : log[n].id = id)
  IN IF id = Null \/ named = <<>> THEN 0 ELSE Last(named)

RECURSIVE ChainFrom(_, _)
ChainFrom(seen, n) ==
  IF n = 0 \/ Contains(seen, n) THEN seen ELSE ChainFrom(Append(seen, n), ByUuid(log[n].parent))

Chain == Reverse(ChainFrom(<<>>, Leaf))

\* Results may sit beside the branch; the first result of a call is taken.
ResultsOf(call) ==
  SelectSeq(Entries, LAMBDA n : log[n].type = "user" /\ log[n].result = call /\ call # Null)

ClaudeEntry(b, n) ==
  LET r == log[n]
      src == <<n, 0>>
      done == IF r.result \in DOMAIN b.tools
                THEN FinishTool(b, r.result, r.text, r.failed, src) ELSE b
  IN CASE r.type = "user" -> IF r.text = <<>> \/ r.result # Null THEN done
                             ELSE PushText(done, "user", r.text, "response", src)
       [] r.type = "assistant" ->
            LET told == IF r.text = <<>> THEN b ELSE PushText(b, "assistant", r.text, "response", src)
            IN IF r.call = Null THEN told ELSE PushTool(told, r.call, src)
       [] r.type = "api error" -> Push(b, Block("notice", "failed", ErrorText, src))
       [] r.type = "compaction" -> Push(b, Block("compaction", "complete", <<>>, src))
       [] r.type = "unknown" -> PushUnknownOnce(b, r.type, src)
       [] OTHER -> b

\* Torn lines are shown where they stand, before the next entry of the branch.
Unreadable(b, from, to) ==
  FoldLeft(LAMBDA c, n : PushUnknownOnce(c, "torn", <<n, 0>>), b,
           SelectSeq(Numbers, LAMBDA n : from < n /\ n < to /\ log[n].type = "torn"))

RECURSIVE Branch(_, _, _)
Branch(b, from, rest) ==
  IF rest = <<>> THEN Unreadable(b, from, Len(log) + 1)
  ELSE Branch(ClaudeEntry(Unreadable(b, from, Head(rest)), Head(rest)),
              IF Head(rest) > from THEN Head(rest) ELSE from, Tail(rest))

\* Calls still running after the branch take their result from beside it; a
\* call without any result was interrupted.
Settle(b) ==
  LET pending(c) == /\ b.blocks[b.tools[c]].status = "running"
                    /\ ResultsOf(c) # <<>>
      result(c) == log[Head(ResultsOf(c))]
      of(i) == CHOOSE c \in DOMAIN b.tools : b.tools[c] = i
  IN [b EXCEPT !.blocks = [i \in DOMAIN b.blocks |->
        IF b.blocks[i].kind # "tool" \/ b.blocks[i].status # "running" THEN b.blocks[i]
        ELSE IF (\E c \in DOMAIN b.tools : b.tools[c] = i) /\ pending(of(i))
          THEN [b.blocks[i] EXCEPT !.status = Finished(result(of(i)).failed), !.text = result(of(i)).text]
          ELSE [b.blocks[i] EXCEPT !.status = "interrupted"]]]

ClaudeBuilder == Settle(Branch(NewBuilder, 0, Chain))

-----------------------------------------------------------------------------
\* project_native_workspace_history, and the lookup of an answer's exact text.

Builder ==
  CASE format = "codex" -> FoldLeft(CodexRecord, NewBuilder, Numbers)
    [] format = "hermes" -> FoldLeft(HermesRecord, NewBuilder, Numbers)
    [] format = "claude" -> IF Leaf = 0 THEN NewBuilder ELSE ClaudeBuilder
    [] OTHER -> [NewBuilder EXCEPT !.blocks = SemanticBlocks, !.texts = PiTexts]

Untrimmed == Builder.blocks
TimelineBlocks == LET u == Untrimmed IN Trim(u)
AssistantTexts == Builder.texts

\* final_assistant_text; a text's hash is the text itself.
FinalAssistantText(texts, block, hash) ==
  LET named == SelectSeq(texts, LAMBDA t : t.block = block)
      equal == SelectSeq(texts, LAMBDA t : t.text = hash)
  IN IF named # <<>> /\ (hash = Missing \/ Head(named).text = hash) THEN Head(named).text
     ELSE IF hash # Missing THEN (IF equal = <<>> THEN Missing ELSE Last(equal).text)
     ELSE IF block = 0 /\ texts # <<>> THEN Last(texts).text ELSE Missing

-----------------------------------------------------------------------------
Init == format \in DOMAIN Records /\ log = <<>>

\* The agent writes its next record.
Write(r) == Len(log) < MaxRecords[format] /\ log' = Append(log, r) /\ UNCHANGED format

Next == \E r \in Records[format] : Write(r)

Spec == Init /\ [][Next]_vars
-----------------------------------------------------------------------------
\* Every exact text is kept for an answer block that exists; a trimmed block has
\* no text; states are the ones a block may be in (GenericTimelineBlock).
TypeOK ==
  \A u \in {Untrimmed}, texts \in {AssistantTexts}, shown \in {TimelineBlocks} :
  /\ format \in DOMAIN Records /\ log \in Seq(Records[format])
  /\ \A i \in DOMAIN u : u[i].status \in {"running", "complete", "failed", "interrupted"}
  /\ \A i \in DOMAIN u : u[i].status = "running" => u[i].kind = "tool"
  /\ \A k \in DOMAIN texts : u[texts[k].block].kind = "assistant"
  /\ \A i \in DOMAIN shown : shown[i].trimmed => shown[i].text = <<>>

\* An answer whose text is in its items, none of them blank or a shell run.
Ordinary(r) ==
  r.type = "message" /\ r.role = "assistant" =>
    /\ ~r.error
    /\ \A k \in DOMAIN r.items : /\ r.items[k].type # "bash"
                                 /\ r.items[k].type = "text" => r.items[k].text # Missing
    /\ Plain(r) => Content(r) # <<>>

\* final_assistant_text: the id of an answer block leads to that answer's text,
\* and so does the text's hash alone; Pi's two readings of one file stay in step.
AnswersResolve ==
  (format = "pi" => \A n \in DOMAIN log : Ordinary(log[n])) =>
    \A u \in {Untrimmed}, texts \in {AssistantTexts} :
      \A i \in {k \in DOMAIN u : u[k].kind = "assistant"} :
        /\ FinalAssistantText(texts, i, Missing) = u[i].text
        /\ FinalAssistantText(texts, 0, u[i].text) = u[i].text

\* The call that block i shows, Null for a block that shows no call.
CallAt(u, i) ==
  LET src == u[i].src
  IN IF u[i].kind # "tool" THEN Null
     ELSE IF format = "pi" THEN (IF src[2] = 0 THEN Null ELSE log[src[1]].items[src[2]].call)
     ELSE IF log[src[1]].type = "call" THEN log[src[1]].call ELSE Null

IsResult(r) == IF format = "pi" THEN r.type = "message" /\ r.role = "toolResult" ELSE r.type = "output"

\* The results that the call of block i received: later ones of its id, up to
\* the next call that uses the id.
Received(u, i) ==
  {m \in DOMAIN log : /\ IsResult(log[m]) /\ log[m].call = CallAt(u, i) /\ m > u[i].src[1]
                      /\ \A j \in DOMAIN u :
                           j > i /\ CallAt(u, j) = CallAt(u, i) => u[j].src[1] > m}

\* Every tool result of a Pi or Codex log decides the state of the latest call
\* of its id, or is shown as a block of its own when no call has it
\* (tool_blocks, finish_tool).
ResultsReachTheirCall ==
  \A u \in {Untrimmed} : format \in {"pi", "codex"} =>
    /\ \A i \in DOMAIN u : CallAt(u, i) # Null =>
         LET r == Received(u, i)
         IN IF r = {} THEN u[i].status # "complete"
            ELSE u[i].status = Finished(log[CHOOSE m \in r : \A o \in r : o <= m].failed)
    /\ \A m \in DOMAIN log : IsResult(log[m]) =>
         \/ \E i \in DOMAIN u : CallAt(u, i) # Null /\ m \in Received(u, i)
         \/ \E i \in DOMAIN u : u[i].src = <<m, 0>>

\* trim_old_display: the texts shown fit the limit, and no text is dropped while
\* an older one stays.
NewestStay ==
  \A shown \in {TimelineBlocks} :
  /\ FoldLeft(LAMBDA n, b : n + Len(b.text), 0, shown) <= TotalLimit
  /\ \A i, j \in DOMAIN shown :
       i < j /\ shown[j].trimmed => shown[i].text = <<>>

\* Claude Code's active branch: from the newest main-conversation entry back
\* along parent links, each entry once; a call on it is over, and interrupted
\* only if no result for it is anywhere in the transcript.
ActiveBranch ==
  \A u \in {Untrimmed}, chain \in {Chain} :
  format = "claude" /\ Leaf # 0 =>
    /\ IsInjective(chain) /\ Last(chain) = Leaf
    /\ \A k \in DOMAIN chain : IF k = 1 THEN ByUuid(log[chain[1]].parent) \in {0} \cup ToSet(chain)
                               ELSE ByUuid(log[chain[k]].parent) = chain[k - 1]
    /\ \A i \in DOMAIN u : u[i].kind = "tool" =>
         LET call == log[u[i].src[1]].call
             once == Cardinality({n \in DOMAIN log : log[n].type = "assistant" /\ log[n].call = call}) = 1
         IN /\ u[i].status # "running"
            /\ once => (u[i].status = "interrupted" <=> ResultsOf(call) = <<>>)

\* A new record adds blocks at the end and changes at most the state of an
\* earlier tool block; a position in the timeline keeps its meaning. (A Claude
\* Code log may switch branches.)
GrowsAtTheEnd ==
  [][log' # log /\ format # "claude" =>
       \A u \in {Untrimmed}, new \in {Untrimmed'} :
          /\ Len(u) <= Len(new)
          /\ \A i \in DOMAIN u :
               (new[i] = u[i]) \/ (u[i].kind = "tool" /\ new[i].src = u[i].src)]_vars
=============================================================================
