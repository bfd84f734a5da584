--------------------------- MODULE ProbeTransport ---------------------------
(***************************************************************************)
(* The read-only capability probe (read_only_probe.rs) and the LF framing  *)
(* under it (codec.rs): requests issued once, answers that arrive in any   *)
(* chunks and any order among events, budgets, and the closing verdict.    *)
(*                                                                         *)
(* A byte is a line feed, a carriage return, an event or an answer: the    *)
(* text of one JSON value is one byte, so that a chunk boundary can fall   *)
(* before, inside or after a frame.  Two values in a frame, or a value cut *)
(* by a carriage return, is not JSON; one next to it is.                   *)
(***************************************************************************)
EXTENDS Integers, Sequences, FiniteSets

CONSTANTS
  Required,      \* slots whose getter must succeed: State, Commands
  Optional,      \* slots whose getter may be unsupported: Models, Thinking
  LF, CR,        \* line feed, carriage return
  Event, Stray,  \* an event, a response with an unknown id
  MaxFrame, MaxChunk, MaxBytes, MaxChunkValues, MaxValues \* the budgets

VARIABLES
  started,       \* the requests were issued
  closed,        \* stdout_closed
  terminal,      \* why the transport is terminal, "" while it is not
  pending,       \* the codec's unfinished frame
  outcome,       \* the snapshot's outcome of each slot
  values,        \* observed_values
  stream         \* every byte observed; its length is observed_bytes

vars == <<started, closed, terminal, pending, outcome, values, stream>>

Slot == Required \cup Optional
Answers == [slot : Slot, says : {"data", "refusal", "nonsense"}]
Byte == Answers \cup {LF, CR, Event, Stray}
\* The chunks of n bytes; where none is read, one stands for all of them.
Chunks(n) ==
  IF started /\ ~closed /\ n <= MaxChunk /\ Len(stream) + n <= MaxBytes THEN [1..n -> Byte]
  ELSE {[i \in 1..n |-> LF]}
-----------------------------------------------------------------------------
(* RpcCodec.                                                               *)

StripCR(frame) ==
  IF frame # <<>> /\ frame[Len(frame)] = CR THEN SubSeq(frame, 1, Len(frame) - 1) ELSE frame
Texts(frame) == SelectSeq(frame, LAMBDA x : x # CR)
\* decode_frame: nothing for an empty frame, otherwise exactly one JSON value.
Decode(frame) ==
  LET f == StripCR(frame) IN
  IF f = <<>> THEN [ok |-> TRUE, out |-> <<>>]
  ELSE [ok |-> Len(Texts(f)) = 1, out |-> Texts(f)]

PushByte(c, b) ==
  IF ~c.ok THEN c
  ELSE IF b = LF THEN LET d == Decode(c.pending) IN
       [ok |-> d.ok, pending |-> <<>>, out |-> IF d.ok THEN c.out \o d.out ELSE <<>>]
  ELSE IF Len(c.pending) = MaxFrame THEN [ok |-> FALSE, pending |-> <<>>, out |-> <<>>]
  ELSE [c EXCEPT !.pending = Append(@, b)]
Push(chunk) ==
  LET go[n \in 0..Len(chunk)] ==
        IF n = 0 THEN [ok |-> TRUE, pending |-> pending, out |-> <<>>] ELSE PushByte(go[n - 1], chunk[n])
  IN go[Len(chunk)]
-----------------------------------------------------------------------------
(* ReadOnlyCapabilityProbe.                                                *)

\* ingest of one value: events change nothing; any bad answer is terminal.
\* Mutant: a repeated answer is accepted.
IngestAgain(p, v) ==
  IF ~p.ok \/ v = Event THEN p
  ELSE IF v = Stray THEN [p EXCEPT !.ok = FALSE]
  ELSE IF v.says = "nonsense" THEN [ok |-> FALSE, outcome |-> [p.outcome EXCEPT ![v.slot] = "Malformed"]]
  ELSE [p EXCEPT !.outcome[v.slot] = IF v.says = "data" THEN "Supported" ELSE "Unsupported"]
Ingest(p, v) ==
  IF ~p.ok \/ v = Event THEN p
  ELSE IF v = Stray THEN [p EXCEPT !.ok = FALSE]
  ELSE IF v.says = "nonsense" THEN [ok |-> FALSE, outcome |-> [p.outcome EXCEPT ![v.slot] = "Malformed"]]
  ELSE IF p.outcome[v.slot] # "Pending" THEN [p EXCEPT !.ok = FALSE]
  ELSE [p EXCEPT !.outcome[v.slot] = IF v.says = "data" THEN "Supported" ELSE "Unsupported"]
IngestAll(vs) ==
  LET go[n \in 0..Len(vs)] == IF n = 0 THEN [ok |-> TRUE, outcome |-> outcome] ELSE Ingest(go[n - 1], vs[n])
  IN go[Len(vs)]
\* snapshot of the probe, before the stream is closed.
Complete ==
  /\ \A s \in Required : outcome[s] = "Supported"
  /\ \A s \in Optional : outcome[s] \in {"Supported", "Unsupported"}
\* snapshot().transport_ready of the transport.
Ready == Complete /\ closed /\ terminal = ""
-----------------------------------------------------------------------------
(* ReadOnlyProbeTransport.                                                 *)

Fail(why) == terminal' = why

Init ==
  /\ started = FALSE /\ closed = FALSE /\ terminal = ""
  /\ pending = <<>> /\ outcome = [s \in Slot |-> "Pending"]
  /\ values = 0 /\ stream = <<>>

\* begin: refused when terminal or already started.
BeginProbe ==
  /\ terminal = "" /\ ~started
  /\ started' = TRUE
  /\ UNCHANGED <<closed, terminal, pending, outcome, values, stream>>

\* push_stdout, while the transport is not terminal.
PushStdout(chunk) ==
  /\ UNCHANGED <<started, closed>>
  /\ LET c == Push(chunk)
         p == IngestAll(c.out) IN
     IF ~started THEN Fail("RequestsNotStarted") /\ UNCHANGED <<pending, outcome, values, stream>>
     ELSE IF closed THEN Fail("StdoutAlreadyClosed") /\ UNCHANGED <<pending, outcome, values, stream>>
     ELSE IF Len(chunk) > MaxChunk THEN Fail("ChunkTooLarge") /\ UNCHANGED <<pending, outcome, values, stream>>
     ELSE IF Len(stream) + Len(chunk) > MaxBytes
          THEN Fail("ByteBudgetExceeded") /\ UNCHANGED <<pending, outcome, values, stream>>
     ELSE /\ stream' = stream \o chunk
          /\ pending' = c.pending
          /\ IF ~c.ok THEN Fail("ProtocolRejected") /\ UNCHANGED <<outcome, values>>
             ELSE IF Len(c.out) > MaxChunkValues \/ values + Len(c.out) > MaxValues
                  THEN Fail("EventBudgetExceeded") /\ UNCHANGED <<outcome, values>>
             ELSE /\ values' = values + Len(c.out)
                  /\ outcome' = p.outcome
                  /\ terminal' = IF p.ok THEN "" ELSE "CorrelationRejected"

\* finish_stdout; a second one is refused and changes nothing.
FinishStdout ==
  /\ terminal = "" /\ ~closed
  /\ IF ~started THEN Fail("RequestsNotStarted") /\ UNCHANGED <<closed, pending>>
     ELSE IF pending # <<>> THEN Fail("ProtocolRejected") /\ pending' = <<>> /\ UNCHANGED closed
     ELSE /\ closed' = TRUE /\ UNCHANGED pending
          /\ terminal' = IF Complete THEN "" ELSE "IncompleteCapabilities"
  /\ UNCHANGED <<started, outcome, values, stream>>

Next ==
  \/ BeginProbe \/ FinishStdout
  \/ terminal = "" /\ \E n \in 0..(MaxChunk + 1) : \E chunk \in Chunks(n) : PushStdout(chunk)

Spec == Init /\ [][Next]_vars
-----------------------------------------------------------------------------
(* The verdict, as a fact about the whole stream.                          *)

\* The frames between line feeds, by position.
Ends == {0} \cup {i \in 1..Len(stream) : stream[i] = LF}
Frame(i) ==
  LET before == CHOOSE j \in Ends : j < i /\ \A k \in Ends : k < i => k <= j
  IN SubSeq(stream, before + 1, i - 1)
Frames == {i \in Ends : i > 0}
TextOf(i) == Texts(Frame(i))
AnswersTo(s) == {i \in Frames : TextOf(i) # <<>> /\ TextOf(i)[1] \in Answers /\ TextOf(i)[1].slot = s}
Lines == \A i \in Frames :
           /\ Len(Frame(i)) <= MaxFrame
           /\ TextOf(i) = <<>> => Len(Frame(i)) <= 1
           /\ TextOf(i) # <<>> => Len(TextOf(i)) = 1 /\ TextOf(i)[1] # Stray
\* Every line is one value, and every slot was answered exactly once and usably.
Answered ==
  /\ Lines
  /\ stream = <<>> \/ stream[Len(stream)] = LF
  /\ \A s \in Slot : \E i \in Frames :
       AnswersTo(s) = {i} /\ TextOf(i)[1].says \in (IF s \in Required THEN {"data"} ELSE {"data", "refusal"})

\* The type invariant.
TypeOK ==
  /\ started \in BOOLEAN /\ closed \in BOOLEAN
  /\ terminal \in {"", "RequestsNotStarted", "StdoutAlreadyClosed", "ChunkTooLarge", "ByteBudgetExceeded",
                   "EventBudgetExceeded", "ProtocolRejected", "CorrelationRejected", "IncompleteCapabilities"}
  /\ \A i \in 1..Len(pending) : pending[i] \in Byte
  /\ outcome \in [Slot -> {"Pending", "Supported", "Unsupported", "Malformed"}]
  /\ values \in 0..MaxValues /\ Len(stream) \in 0..MaxBytes

\* However the output was cut into chunks, a probe is ready only if its whole output
\* answered every getter exactly once and usably, line by line.
ReadyIsAnswered == Ready => Answered

\* And the output is rejected for what it says only when it does not.
RejectedIsUnanswered ==
  terminal \in {"ProtocolRejected", "CorrelationRejected", "IncompleteCapabilities"} => ~Answered
=============================================================================
