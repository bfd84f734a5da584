------------------------------- MODULE Bridge -------------------------------
(***************************************************************************)
(* The transport to native harnesses (workspace_runtime.rs): a bridge      *)
(* process answers requests and emits session events over one pipe; one    *)
(* reader routes both.  Events have bounded queues, so a slow consumer     *)
(* throttles the reader.  Codex sessions of a project share one process    *)
(* (pooled); other harnesses have one each.  Payloads, the launch of the   *)
(* process and the merging of text pieces are left out.                    *)
(***************************************************************************)
EXTENDS Naturals, Sequences, FiniteSets, FiniteSetsExt

CONSTANTS
  Handle,     \* NativeRuntime values the host starts, in any order
  Sid,        \* session identities
  Cap,        \* EVENT_CHANNEL_CAPACITY
  MaxEvent,   \* bound on the events of all sessions
  MaxPipe,    \* frames the stdout pipe holds
  MaxCall,    \* bound on the calls of all sessions
  MaxFault    \* bound on exits, bad frames and abandoned calls

Kind == {"open", "call", "dispose"}
Request == Handle \X Kind
Final == {"ok", "error"}
NoHandle == "none"
NoFrame == [k |-> "none"]

VARIABLES
  pooled,     \* one process for all sessions
  sid,        \* session of each handle
  life,       \* of each handle: none, opening, open, retired, disposing, gone
  acc,        \* its accepting flag
  queue, kept, seen,  \* its event channel, retained events, last event received
  closed,     \* handles whose receiver is dropped
  route,      \* session_events: the handle each session's events go to
  host,       \* the process: accepting, shutting, stdin, alive
  phase,      \* what each request's task is doing
  pending, timedOut, \* the response tables
  inbox,      \* requests the bridge has
  stdout, hand, to,  \* frames in the pipe, the reader's frame and its route
  reader,     \* reading, failing or done
  why,        \* why the reader failed
  emitted, faults

core == <<pooled, sid>>
session == <<life, acc, queue, kept, seen, closed, route>>
tables == <<phase, pending, timedOut>>
wire == <<inbox, stdout, hand, to, emitted>>
vars == <<core, session, host, tables, wire, reader, why, faults>>

Event == [k : {"event"}, s : Sid, n : 1..MaxEvent]
Frame == {[k |-> "bad"]} \cup Event \cup [k : {"answer"}, r : Request]

\* Every variable has its type.
TypeOK ==
  /\ pooled \in BOOLEAN /\ sid \in [Handle -> Sid]
  /\ life \in [Handle -> {"none", "opening", "dropping", "open", "retired", "disposing", "gone"}]
  /\ acc \in [Handle -> BOOLEAN] /\ closed \subseteq Handle
  /\ \A h \in Handle : Len(queue[h]) <= Cap /\ queue[h] \in Seq(1..MaxEvent) /\ kept[h] \in Seq(1..MaxEvent)
  /\ seen \in [Handle -> 0..MaxEvent]
  /\ route \in [Sid -> Handle \cup {NoHandle}]
  /\ host \in [accepting : BOOLEAN, shutting : BOOLEAN, stdin : BOOLEAN, alive : BOOLEAN]
  /\ phase \in [Request -> {"idle", "admitted", "pending", "written", "expiring", "dropped"} \cup Final]
  /\ pending \subseteq Request /\ timedOut \subseteq Request /\ inbox \subseteq Request
  /\ stdout \in Seq(Frame) /\ hand \in {NoFrame} \cup Event /\ to \in Handle \cup {NoHandle}
  /\ reader \in {"reading", "failing", "done"} /\ why \in {"", "closed", "unknown", "bad", "exit", "late"}
  /\ emitted \in [Sid -> 0..MaxEvent] /\ faults \in 0..MaxFault

-----------------------------------------------------------------------------
(* NativeRuntime::request *)

Fault == faults < MaxFault /\ faults' = faults + 1

\* The session's flags, then the pool's.
Admitted(h, kind) ==
  /\ kind # "dispose" => life[h] \notin {"disposing", "gone"} /\ acc[h]
  /\ (pooled \/ kind # "dispose") => host.accepting /\ ~host.shutting

Request1(h, kind) ==
  phase' = [phase EXCEPT ![<<h, kind>>] = IF Admitted(h, kind) THEN "admitted" ELSE "error"]

\* The response slot is inserted once the table's lock is free.
Registers(r) ==
  /\ phase[r] = "admitted"
  /\ phase' = [phase EXCEPT ![r] = "pending"] /\ pending' = pending \cup {r}
  /\ UNCHANGED <<core, session, host, timedOut, wire, reader, why, faults>>

Writes(r) ==
  /\ phase[r] = "pending"
  /\ IF host.stdin /\ host.alive
     THEN phase' = [phase EXCEPT ![r] = "written"] /\ inbox' = inbox \cup {r} /\ UNCHANGED pending
     ELSE phase' = [phase EXCEPT ![r] = "error"] /\ pending' = pending \ {r} /\ UNCHANGED inbox
  /\ UNCHANGED <<core, session, host, timedOut, stdout, hand, to, emitted, reader, why, faults>>

\* The deadline passes: the slot leaves pending, then the id joins timed_out.
TimeoutForgets(r) ==
  /\ phase[r] \in {"pending", "written"}
  /\ phase' = [phase EXCEPT ![r] = IF r \in pending THEN "expiring" ELSE "error"]
  /\ pending' = pending \ {r}
  /\ UNCHANGED <<core, session, host, timedOut, wire, reader, why, faults>>

TimeoutRecords(r) ==
  /\ phase[r] = "expiring"
  /\ phase' = [phase EXCEPT ![r] = "error"] /\ timedOut' = timedOut \cup {r}
  /\ UNCHANGED <<core, session, host, pending, wire, reader, why, faults>>

\* A caller gives up; its slot stays in the table.
Dropped(r) ==
  /\ phase[r] \in {"pending", "written"} /\ r[2] = "call" /\ Fault
  /\ phase' = [phase EXCEPT ![r] = "dropped"]
  /\ UNCHANGED <<core, session, host, pending, timedOut, wire, reader, why>>

FailedPending(set) == [r \in Request |-> IF r \in set /\ phase[r] \in {"pending", "written"} THEN "error" ELSE phase[r]]

-----------------------------------------------------------------------------
(* Starting, using and retiring a session. *)

\* spawn, spawn_pooled: the route exists before openSession is sent.
StartBegins(h) ==
  /\ life[h] = "none" /\ host.accepting
  /\ \A g \in Handle \ {h} : life[g] = "none" \/ (pooled /\ (sid[g] = sid[h] => life[g] = "gone"))
  /\ life' = [life EXCEPT ![h] = "opening"] /\ acc' = [acc EXCEPT ![h] = TRUE]
  /\ route' = [route EXCEPT ![sid[h]] = h]
  /\ phase' = [phase EXCEPT ![<<h, "open">>] = "admitted"]
  /\ UNCHANGED <<core, queue, kept, seen, closed, host, pending, timedOut, wire, reader, why, faults>>

\* buffer_while: events that arrive during the start are retained.
Retains(h) ==
  /\ life[h] = "opening" /\ queue[h] # <<>>
  /\ kept' = [kept EXCEPT ![h] = Append(@, Head(queue[h]))] /\ queue' = [queue EXCEPT ![h] = Tail(@)]
  /\ UNCHANGED <<core, life, acc, seen, closed, route, host, tables, wire, reader, why, faults>>

\* The receiver is dropped with what it held.
Closes(h) ==
  /\ closed' = closed \cup {h} /\ queue' = [queue EXCEPT ![h] = <<>>]
  /\ kept' = [kept EXCEPT ![h] = <<>>] /\ seen' = [seen EXCEPT ![h] = 0]

\* Containment: the process tree is gone.
Killed(hh) == [hh EXCEPT !.alive = FALSE]

\* The start answers, or fails and takes back its route.
StartEnds(h) ==
  /\ life[h] = "opening" /\ phase[<<h, "open">>] \in Final
  /\ IF phase[<<h, "open">>] = "ok"
     THEN life' = [life EXCEPT ![h] = "open"] /\ UNCHANGED <<acc, queue, kept, seen, closed, route, host>>
     ELSE /\ life' = [life EXCEPT ![h] = "gone"] /\ acc' = [acc EXCEPT ![h] = FALSE]
          /\ Closes(h) /\ route' = [route EXCEPT ![sid[h]] = NoHandle]
          /\ host' = IF pooled THEN host ELSE [Killed(host) EXCEPT !.accepting = FALSE, !.shutting = TRUE, !.stdin = FALSE]
  /\ UNCHANGED <<core, tables, wire, reader, why, faults>>

\* The start's future is dropped: the route stops accepting before the
\* receiver closes; the detached openSession runs on.
StartDroppedReceiverFirst(h) ==
  /\ life[h] = "opening" /\ Fault
  /\ life' = [life EXCEPT ![h] = "dropping"] /\ Closes(h)
  /\ host' = IF pooled THEN host ELSE [Killed(host) EXCEPT !.accepting = FALSE]
  /\ UNCHANGED <<core, acc, route, tables, wire, reader, why>>

StartDropped(h) ==
  /\ life[h] = "opening" /\ Fault
  /\ life' = [life EXCEPT ![h] = "dropping"] /\ acc' = [acc EXCEPT ![h] = FALSE]
  /\ host' = IF pooled THEN host ELSE [Killed(host) EXCEPT !.accepting = FALSE]
  /\ UNCHANGED <<core, queue, kept, seen, closed, route, tables, wire, reader, why>>

StartDropEnds(h) ==
  /\ life[h] = "dropping"
  /\ life' = [life EXCEPT ![h] = "gone"] /\ acc' = [acc EXCEPT ![h] = FALSE] /\ Closes(h)
  /\ UNCHANGED <<core, route, host, tables, wire, reader, why, faults>>

Calls(h) ==
  /\ life[h] = "open" /\ phase[<<h, "call">>] = "idle"
  /\ Cardinality({g \in Handle : phase[<<g, "call">>] # "idle"}) < MaxCall
  /\ Request1(h, "call")
  /\ UNCHANGED <<core, session, host, pending, timedOut, wire, reader, why, faults>>

\* recv: retained events first.
Receives(h) ==
  /\ life[h] = "open" /\ h \notin closed
  /\ \/ /\ kept[h] # <<>> /\ seen' = [seen EXCEPT ![h] = Head(kept[h])]
        /\ kept' = [kept EXCEPT ![h] = Tail(@)] /\ UNCHANGED queue
     \/ /\ kept[h] = <<>> /\ queue[h] # <<>> /\ seen' = [seen EXCEPT ![h] = Head(queue[h])]
        /\ queue' = [queue EXCEPT ![h] = Tail(@)] /\ UNCHANGED kept
  /\ UNCHANGED <<core, life, acc, closed, route, host, tables, wire, reader, why, faults>>

\* begin_retirement, then the host drops its event consumer.
Retires(h) ==
  /\ life[h] = "open" /\ life' = [life EXCEPT ![h] = "retired"]
  /\ acc' = [acc EXCEPT ![h] = FALSE]
  /\ host' = IF pooled THEN host ELSE [host EXCEPT !.accepting = FALSE]
  /\ UNCHANGED <<core, queue, kept, seen, closed, route, tables, wire, reader, why, faults>>

ConsumerCloses(h) ==
  /\ life[h] = "retired" /\ h \notin closed /\ Closes(h)
  /\ UNCHANGED <<core, life, acc, route, host, tables, wire, reader, why, faults>>

\* dispose: a last request, then the route or the process goes.
DisposeBegins(h) ==
  /\ life[h] = "retired" /\ h \in closed /\ life' = [life EXCEPT ![h] = "disposing"]
  /\ Request1(h, "dispose")
  /\ host' = IF pooled THEN host ELSE [host EXCEPT !.shutting = TRUE]
  /\ UNCHANGED <<core, acc, queue, kept, seen, closed, route, pending, timedOut, wire, reader, why, faults>>

DisposeEnds(h) ==
  /\ life[h] = "disposing" /\ phase[<<h, "dispose">>] \in Final
  /\ life' = [life EXCEPT ![h] = "gone"]
  /\ IF pooled
     THEN /\ route' = [route EXCEPT ![sid[h]] = NoHandle]
          /\ host' = IF phase[<<h, "dispose">>] = "ok" THEN host ELSE Killed(host)
          /\ UNCHANGED <<phase, pending>>
     ELSE /\ host' = [Killed(host) EXCEPT !.stdin = FALSE]
          /\ phase' = FailedPending(pending) /\ pending' = {} /\ UNCHANGED route
  /\ UNCHANGED <<core, acc, queue, kept, seen, closed, timedOut, wire, reader, why, faults>>

\* terminate, or a handle dropped without dispose, stops the process for all.
Terminates(h) ==
  /\ life[h] \in {"open", "retired"} /\ Fault
  /\ life' = [life EXCEPT ![h] = "gone"] /\ acc' = [acc EXCEPT ![h] = FALSE] /\ Closes(h)
  /\ host' = IF pooled THEN Killed(host) ELSE [Killed(host) EXCEPT !.shutting = TRUE, !.accepting = FALSE, !.stdin = FALSE]
  /\ IF pooled THEN UNCHANGED <<phase, pending>> ELSE phase' = FailedPending(pending) /\ pending' = {}
  /\ UNCHANGED <<core, route, timedOut, wire, reader, why>>

-----------------------------------------------------------------------------
(* The bridge process. *)

Emits(s) ==
  /\ host.alive /\ Len(stdout) < MaxPipe /\ MapThenSumSet(LAMBDA x : emitted[x], Sid) < MaxEvent
  /\ \E h \in Handle : sid[h] = s /\ life[h] # "none"
  /\ emitted' = [emitted EXCEPT ![s] = @ + 1]
  /\ stdout' = Append(stdout, [k |-> "event", s |-> s, n |-> emitted[s] + 1])
  /\ UNCHANGED <<core, session, host, tables, inbox, hand, to, reader, why, faults>>

Answers(r) ==
  /\ host.alive /\ Len(stdout) < MaxPipe /\ r \in inbox
  /\ inbox' = inbox \ {r} /\ stdout' = Append(stdout, [k |-> "answer", r |-> r])
  /\ UNCHANGED <<core, session, host, tables, hand, to, emitted, reader, why, faults>>

Misbehaves ==
  /\ host.alive /\ Fault
  /\ \/ host' = Killed(host) /\ UNCHANGED stdout
     \/ Len(stdout) < MaxPipe /\ stdout' = Append(stdout, [k |-> "bad"]) /\ UNCHANGED host
  /\ UNCHANGED <<core, session, tables, inbox, hand, to, emitted, reader, why>>

-----------------------------------------------------------------------------
(* read_bridge_stdout, route_bridge_frame *)

\* The next frame, if the reader is free to take it.
Taken(k) == reader = "reading" /\ hand = NoFrame /\ stdout # <<>> /\ Head(stdout).k = k /\ stdout' = Tail(stdout)

\* An event's route is looked up before the reader waits for room.
Reads ==
  /\ Taken("event") /\ hand' = Head(stdout) /\ to' = route[Head(stdout).s]
  /\ UNCHANGED <<core, session, host, tables, inbox, emitted, reader, why, faults>>

Fails(reason) == reader' = "failing" /\ why' = reason

RoutesAnswer ==
  /\ Taken("answer")
  /\ LET r == Head(stdout).r
     IN IF r \in pending
        THEN /\ pending' = pending \ {r}
             /\ \E how \in {"ok", "error"} :
                  phase' = [phase EXCEPT ![r] = IF @ = "written" THEN how ELSE @]
             /\ UNCHANGED <<timedOut, reader, why>>
        ELSE /\ UNCHANGED <<phase, pending>>
             /\ IF r \in timedOut THEN timedOut' = timedOut \ {r} /\ UNCHANGED <<reader, why>>
                ELSE UNCHANGED timedOut /\ Fails(IF phase[r] = "expiring" THEN "late" ELSE "unknown")
  /\ UNCHANGED <<core, session, host, inbox, hand, to, emitted, faults>>

\* deliver_event: wait for room; a closed queue is expected after retirement.
ClosedIsFatal(h) == acc[h]
Room(h) == h \notin closed /\ Len(queue[h]) < Cap
SendEnds(h) == h \in closed

Delivers ==
  /\ reader = "reading" /\ hand.k = "event"
  /\ \/ to = NoHandle /\ UNCHANGED <<queue, reader, why>>
     \/ /\ to # NoHandle /\ Room(to)
        /\ queue' = [queue EXCEPT ![to] = Append(@, hand.n)] /\ UNCHANGED <<reader, why>>
     \/ /\ to # NoHandle /\ SendEnds(to) /\ UNCHANGED queue
        /\ IF ClosedIsFatal(to) THEN Fails("closed") ELSE UNCHANGED <<reader, why>>
  /\ hand' = NoFrame /\ to' = NoHandle
  /\ UNCHANGED <<core, life, acc, kept, seen, closed, route, host, tables, inbox, stdout, emitted, faults>>

RoutesNothing ==
  /\ \/ Taken("bad") /\ Fails("bad")
     \/ /\ reader = "reading" /\ hand = NoFrame /\ stdout = <<>> /\ ~host.alive /\ UNCHANGED stdout
        /\ IF host.shutting THEN reader' = "done" /\ UNCHANGED why ELSE Fails("exit")
  /\ UNCHANGED <<core, session, host, tables, inbox, hand, to, emitted, faults>>

\* The end of a failed transport: no admission, every pending call answered,
\* the process killed, then its stdin closed.
ReaderFails ==
  /\ reader = "failing" /\ reader' = "done"
  /\ host' = [Killed(host) EXCEPT !.accepting = FALSE, !.stdin = FALSE]
  /\ phase' = FailedPending(pending) /\ pending' = {}
  /\ UNCHANGED <<core, session, timedOut, wire, why, faults>>

-----------------------------------------------------------------------------
Init ==
  /\ pooled \in BOOLEAN /\ sid \in [Handle -> Sid]
  /\ life = [h \in Handle |-> "none"] /\ acc = [h \in Handle |-> FALSE]
  /\ queue = [h \in Handle |-> <<>>] /\ kept = queue /\ seen = [h \in Handle |-> 0]
  /\ closed = {} /\ route = [s \in Sid |-> NoHandle]
  /\ host = [accepting |-> TRUE, shutting |-> FALSE, stdin |-> TRUE, alive |-> TRUE]
  /\ phase = [r \in Request |-> "idle"] /\ pending = {} /\ timedOut = {} /\ inbox = {}
  /\ stdout = <<>> /\ hand = NoFrame /\ to = NoHandle /\ reader = "reading" /\ why = ""
  /\ emitted = [s \in Sid |-> 0] /\ faults = 0

Tasks ==
  \/ \E r \in Request : Registers(r) \/ Writes(r) \/ TimeoutForgets(r) \/ TimeoutRecords(r)
Host == \E h \in Handle : StartEnds(h) \/ StartDropEnds(h) \/ ConsumerCloses(h) \/ DisposeBegins(h) \/ DisposeEnds(h)
Consumers == \E h \in Handle : Retains(h) \/ Receives(h)
Reader == Reads \/ RoutesAnswer \/ Delivers \/ RoutesNothing \/ ReaderFails
Process == Misbehaves \/ (\E s \in Sid : Emits(s)) \/ (\E r \in Request : Answers(r))

Next ==
  \/ Tasks \/ Host \/ Consumers \/ Reader \/ Process
  \/ \E h \in Handle : StartBegins(h) \/ StartDropped(h) \/ Calls(h) \/ Retires(h) \/ Terminates(h)
  \/ \E r \in Request : Dropped(r)

Spec == Init /\ [][Next]_vars

\* Timers fire and tasks of the host run; nothing is assumed of the bridge.
Fairness ==
  /\ \A r \in Request : WF_vars(Registers(r)) /\ WF_vars(TimeoutForgets(r)) /\ WF_vars(TimeoutRecords(r))
  /\ WF_vars(Reader)
  /\ \A h \in Handle : WF_vars(Retains(h)) /\ WF_vars(Receives(h)) /\ WF_vars(ConsumerCloses(h)) /\ WF_vars(StartDropEnds(h))
                       /\ WF_vars(StartEnds(h)) /\ WF_vars(DisposeBegins(h)) /\ WF_vars(DisposeEnds(h))
FairSpec == Spec /\ Fairness

-----------------------------------------------------------------------------
\* A closed event queue never fails the process other sessions share: starts
\* and sessions stop accepting before their receiver closes.
ClosedQueueSpares == why # "closed"

\* Every answer the bridge gives finds the call it belongs to, waiting, timed
\* out or abandoned, as long as the process is not being shut down; the window
\* of TimeoutForgets is LateAnswerIgnored's.
AnswersAreKnown == why = "unknown" => host.shutting

Stream(h) == (IF seen[h] = 0 THEN <<>> ELSE <<seen[h]>>) \o kept[h] \o queue[h]

\* A session gets its events in order, with none lost between the first and
\* the last, whatever was retained while it started.
EventsInOrder == \A h \in Handle : \A i \in 1..(Len(Stream(h)) - 1) : Stream(h)[i + 1] = Stream(h)[i] + 1

\* A session in use has the route of its identity, whatever became of earlier
\* starts with the same identity.
RouteIsOwn == \A h \in Handle : life[h] \in {"opening", "open"} => route[sid[h]] = h

\* Once the reader is done no call waits for an answer except one that was
\* admitted before, which its write or its deadline ends.
NoAnswerOutlivesReader ==
  reader = "done" /\ ~host.shutting => \A r \in Request : phase[r] = "written" => r \notin pending

\* Every request ends, also when the bridge never answers.
RequestsEnd == \A r \in Request : phase[r] = "admitted" ~> phase[r] \in Final \cup {"dropped"}

\* A full queue holds the reader only until its session reads, starts or
\* retires: one session cannot stop the others for good.
ReaderResumes == (reader = "reading" /\ hand # NoFrame) ~> (reader # "reading" \/ hand = NoFrame)
=============================================================================
