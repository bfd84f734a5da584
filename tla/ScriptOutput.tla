---------------------------- MODULE ScriptOutput ----------------------------
(***************************************************************************)
(* What PiUI keeps of the output of a script step or a script test: the    *)
(* bounded head of stdout and tail of stderr, read in chunks and cut at    *)
(* character boundaries (script_runner.rs), and the result, the failure    *)
(* detail and the test report made of them (executors.rs,                  *)
(* orchestration_script_test.rs).  A byte is <<character, place>>.         *)
(***************************************************************************)
EXTENDS Naturals, Sequences

CONSTANTS
  Char,        \* characters of the output
  Width,       \* bytes of each character in UTF-8, 1 to 4
  Newline, Bom, Bad, None,  \* Bad is the replacement character
  Object,      \* texts that are one JSON object
  Fitting,     \* those of them that satisfy the declared fields
  MaxChars,    \* length of the output
  Chunk,       \* READ_CHUNK_BYTES
  HeadLimit,   \* SCRIPT_STDOUT_LIMIT
  TailLimit,   \* SCRIPT_STDERR_LIMIT
  DetailLimit  \* MAX_FAILURE_DETAIL_BYTES

VARIABLES
  src,         \* what the script wrote
  stream,      \* stdout or stderr
  pos,         \* bytes read
  buf,         \* bytes kept, and whether some were dropped
  fields,      \* the step declares result fields
  text,        \* the captured text
  result       \* what a run records and what a test shows

vars == <<src, stream, pos, buf, fields, text, result>>

WidthOf(c) == IF c = Bad THEN 3 ELSE Width[c]
Bytes(t) ==
  LET enc[n \in 0..Len(t)] == IF n = 0 THEN <<>> ELSE enc[n - 1] \o [k \in 1..WidthOf(t[n]) |-> <<t[n], k>>]
  IN enc[Len(t)]
Size(t) == Len(Bytes(t))
Drop(s, n) == SubSeq(s, n + 1, Len(s))
Suffix(s, n) == Drop(s, Len(s) - n)
Least(a, b) == IF a < b THEN a ELSE b

\* String::from_utf8_lossy, for a slice of valid text.
Lossy(b) ==
  LET starts == SelectSeq([k \in 1..Len(b) |-> k], LAMBDA k : k = 1 \/ b[k][2] = 1)
  IN [j \in 1..Len(starts) |->
        LET k == starts[j] IN IF b[k][2] = 1 /\ k + Width[b[k][1]] - 1 <= Len(b) THEN b[k][1] ELSE Bad]

----------------------------------------------------------------------------
(* Capture.                                                                *)

\* read_head.
ReadHead(chunk) ==
  LET kept == Least(Len(chunk), HeadLimit - Len(buf.bytes))
  IN [bytes |-> buf.bytes \o SubSeq(chunk, 1, kept), cut |-> buf.cut \/ kept < Len(chunk)]

\* read_tail.
ReadTail(chunk) ==
  LET all == buf.bytes \o chunk
  IN IF Len(all) > TailLimit THEN [bytes |-> Suffix(all, TailLimit), cut |-> TRUE]
     ELSE [bytes |-> all, cut |-> buf.cut]

Read(n) ==
  /\ text = None /\ pos + n <= Len(src)
  /\ LET chunk == SubSeq(src, pos + 1, pos + n)
     IN buf' = IF stream = "stdout" THEN ReadHead(chunk) ELSE ReadTail(chunk)
  /\ pos' = pos + n
  /\ UNCHANGED <<src, stream, fields, text, result>>

\* from_utf8's valid_up_to when only the last character is incomplete.
WholeChars(b) ==
  LET ends == {k \in 1..Len(b) : b[k][2] = Width[b[k][1]]} \cup {0}
  IN SubSeq(b, 1, CHOOSE k \in ends : \A l \in ends : l <= k)

\* head_text.
HeadText(b, cut) ==
  LET bytes == IF cut THEN WholeChars(b) ELSE b
      bom == Len(bytes) >= 3 /\ bytes[1] = <<Bom, 1>> /\ bytes[3] = <<Bom, 3>>
  IN Lossy(IF bom THEN Drop(bytes, 3) ELSE bytes)

\* Continuation bytes after the cut.
Skipped(b) ==
  LET cont == {k \in 1..Least(3, Len(b)) : \A l \in 1..k : b[l][2] # 1}
  IN IF cont = {} THEN 0 ELSE CHOOSE k \in cont : \A l \in cont : l <= k

\* tail_text.
TailText(b, cut) == Lossy(IF cut THEN Drop(b, Skipped(b)) ELSE b)

\* The pipe is at its end, or a process outside the tree holds it and the reader is
\* stopped with what arrived.
Captured(held) ==
  /\ text = None /\ (held \/ pos = Len(src))
  /\ LET cut == buf.cut \/ held
     IN text' = [chars |-> IF stream = "stdout" THEN HeadText(buf.bytes, cut) ELSE TailText(buf.bytes, cut),
                 cut |-> cut]
  /\ UNCHANGED <<src, stream, pos, buf, fields, result>>

----------------------------------------------------------------------------
(* Results.                                                                *)

\* bounded_text: the longest prefix of whole characters within the limit.
Bounded(t) ==
  LET fits == {n \in 0..Len(t) : Size(SubSeq(t, 1, n)) <= HeadLimit}
      n == CHOOSE n \in fits : \A k \in fits : k <= n
  IN [chars |-> SubSeq(t, 1, n), cut |-> n < Len(t)]

Trimmed(t) ==
  LET solid == {k \in 1..Len(t) : t[k] # Newline}
  IN IF solid = {} THEN <<>>
     ELSE SubSeq(t, CHOOSE k \in solid : \A l \in solid : k <= l, CHOOSE k \in solid : \A l \in solid : l <= k)

Parsed(t, cut) == IF ~cut /\ Trimmed(t) \in Object THEN Trimmed(t) ELSE None

\* script_stdout_result.
StdoutResult(t, cut) ==
  LET kept == Bounded(t)
      lost == cut \/ kept.cut
      value == Parsed(kept.chars, lost)
  IN IF value # None
     THEN IF ~fields \/ value \in Fitting THEN [kind |-> "data", value |-> value] ELSE [kind |-> "failed", value |-> None]
     ELSE IF fields THEN [kind |-> "failed", value |-> None]
     ELSE [kind |-> "output", value |-> kept.chars]

\* failure_detail: the last lines within the limit.
Detail(t) ==
  LET whole == Trimmed(t)
      fits == {n \in 0..Len(whole) : Size(Suffix(whole, n)) <= DetailLimit}
      tail == Suffix(whole, CHOOSE n \in fits : \A k \in fits : k <= n)
      breaks == {k \in 1..Len(tail) : tail[k] = Newline}
      first == CHOOSE k \in breaks : \A l \in breaks : k <= l
  IN IF Size(whole) <= DetailLimit THEN whole
     ELSE IF breaks # {} /\ first < Len(tail) THEN Trimmed(Drop(tail, first)) ELSE Trimmed(tail)

\* test_result: what a test shows as parsed data.
TestData == Parsed(text.chars, text.cut)

\* script_resolution and complete_script_task: a script that exited with zero records
\* its stdout, a failed one the tail of its stderr.
Record ==
  /\ text # None /\ result = None
  /\ result' = IF stream = "stdout" THEN [run |-> StdoutResult(text.chars, text.cut), test |-> TestData]
               ELSE [run |-> [kind |-> "failed", value |-> Detail(text.chars)], test |-> None]
  /\ UNCHANGED <<src, stream, pos, buf, fields, text>>

Init ==
  /\ \E n \in 0..MaxChars : \E t \in [1..n -> Char] : src = Bytes(t)
  /\ stream \in {"stdout", "stderr"} /\ fields \in BOOLEAN
  /\ pos = 0 /\ buf = [bytes |-> <<>>, cut |-> FALSE] /\ text = None /\ result = None

Next == (\E n \in 1..Chunk : Read(n)) \/ (\E held \in BOOLEAN : Captured(held)) \/ Record

Spec == Init /\ [][Next]_vars

----------------------------------------------------------------------------
Chars(b) == SelectSeq([k \in 1..Len(b) |-> IF b[k][2] = Width[b[k][1]] THEN b[k][1] ELSE None], LAMBDA c : c # None)
Whole(n) == n = Len(src) \/ src[n + 1][2] = 1
Greatest(S) == CHOOSE n \in S : \A k \in S : k <= n

\* The capture stays within its bound and is marked as cut exactly when bytes were dropped.
TypeOK ==
  /\ Len(buf.bytes) <= IF stream = "stdout" THEN HeadLimit ELSE TailLimit
  /\ buf.cut = (pos > Len(buf.bytes))

\* Captured stdout is the longest run of whole characters from the start that arrived and
\* fits the bound, without a byte order mark; nothing is replaced.
HeadExact ==
  (text # None /\ stream = "stdout") =>
    LET n == Greatest({k \in 0..Least(pos, HeadLimit) : Whole(k)})
        t == Chars(SubSeq(src, 1, n))
    IN text.chars = IF t # <<>> /\ t[1] = Bom THEN Tail(t) ELSE t

\* Captured stderr is the longest run of whole characters at the end that fits the bound;
\* only a character whose rest never arrived is replaced.
TailExact ==
  (text # None /\ stream = "stderr") =>
    LET open == pos - Greatest({k \in 0..pos : Whole(k)})
        from == CHOOSE k \in 0..pos : /\ Whole(k) /\ pos - k <= TailLimit
                                      /\ \A l \in 0..pos : Whole(l) /\ pos - l <= TailLimit => k <= l
        t == Chars(SubSeq(src, from + 1, pos - open))
    IN (\E k \in 0..pos : Whole(k) /\ pos - k <= TailLimit) => text.chars = IF open > 0 THEN Append(t, Bad) ELSE t

\* A run never takes data from an output of which a part is missing.
DataIsWhole ==
  (result # None /\ result.run.kind = "data") => pos = Len(src) /\ result.run.value = Trimmed(text.chars)

\* A test shows data exactly when a run would record it or fail only its fields.
TestAgrees ==
  (result # None /\ stream = "stdout") =>
    /\ result.run.kind = "data" => result.test = result.run.value
    /\ result.test # None => result.run.kind = "data" \/ (fields /\ result.test \notin Fitting)

\* The detail of a failure fits its bound, is never empty for an output that says
\* something, and starts at a line unless a single line is longer than the bound.
DetailReadable ==
  (result # None /\ stream = "stderr") =>
    LET whole == Trimmed(text.chars)
        d == result.run.value
    IN /\ Size(d) <= DetailLimit \/ d = <<>>
       /\ whole # <<>> => d # <<>>
       /\ d = Suffix(whole, Len(d))
       /\ Len(d) < Len(whole) => \/ whole[Len(whole) - Len(d)] = Newline
                                 \/ \A k \in 1..Len(d) : d[k] # Newline
=============================================================================
