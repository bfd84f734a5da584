---------------------------- MODULE TeamMessages ----------------------------
(***************************************************************************)
(* Coordinator tools of the agents of one run: messages between team       *)
(* members and waits for a member (handle_coordinator_request and what it  *)
(* calls, handle_agent_request, and the message records of the run).       *)
(*                                                                         *)
(* Every member has one task.  A request id is unique within its session;  *)
(* an agent may repeat it.  Spawns are in RunHost; a roster changes only   *)
(* the request log, like an observation.  Bodies are left out.             *)
(***************************************************************************)
EXTENDS Integers, Sequences, FiniteSets

CONSTANTS
  Member,
  Equipped,             \* the members whose launch policy has the coordinator tools
  CanSend, CanObserve,  \* the team's permissions: pairs of members
  Call,                 \* native tool calls in progress
  Op,                   \* the tools: "send", "observe", "wait"
  MaxRequest,           \* request ids of a session
  MaxSession, MaxFault,
  None

VARIABLES
  open,      \* the run is active and not being cancelled
  task,      \* each member's task
  exec,      \* its execution: a session, 0 for none
  of,        \* the member each session was launched for
  live,      \* the sessions with a live native runtime
  ended,     \* those whose turn has ended (generation > 0)
  hosted,    \* the scheduler's active executions
  requests,  \* agent_requests of the run
  messages,  \* its messages, in the order of acceptance
  gate,      \* the launch that holds live_runtime_operation_gate
  flush,     \* its messages still to deliver
  call,      \* each call
  sent,      \* ghost: how often each message was handed to each session
  missed,    \* ghost: the ids of which a delivery or its record failed
  overlap,   \* ghost: the ids that two parties were delivering at once
  faults

run == <<open, task, exec, of, requests, messages>>
native == <<live, ended, hosted>>
ghosts == <<sent, missed, overlap>>
vars == <<run, native, gate, flush, call, ghosts, faults>>

Session == 1..MaxSession
Id == Session \X (1..MaxRequest)
Idle == [pc |-> "idle", id |-> None, op |-> None, to |-> None, s |-> 0, says |-> None]
\* A call is answered; the answers that claim something are kept until it asks again.
Ends(c) == call' = [call EXCEPT ![c] = Idle]
Answer(c, says) == call' = [call EXCEPT ![c] = [Idle EXCEPT !.id = call[c].id, !.s = call[c].s, !.says = says]]

Caller(c) == call[c].id[1]
Actor(c) == of[Caller(c)]
\* derive_actor_member_id: the caller's task still runs.
Acts(c) == exec[Actor(c)] = Caller(c) /\ task[Actor(c)] = "running"
Find(id) == {i \in 1..Len(messages) : messages[i].id = id}
Status(id) == IF Find(id) = {} THEN "none" ELSE messages[CHOOSE i \in Find(id) : TRUE].status
\* mark_message_delivered.
Marked(id) == [i \in 1..Len(messages) |-> IF messages[i].id = id THEN [messages[i] EXCEPT !.status = "delivered"] ELSE messages[i]]
Delivering(id) == {c \in Call : call[c].id = id /\ call[c].pc \in {"deliver", "found", "mark"}}
Fault == faults < MaxFault /\ faults' = faults + 1
-----------------------------------------------------------------------------
(* A call.                                                                 *)

Ask(c, s, n, op, to) ==
  /\ call[c].pc = "idle" /\ s \in live /\ of[s] \in Equipped
  /\ call' = [call EXCEPT ![c] = [pc |-> "asked", id |-> <<s, n>>, op |-> op, to |-> to, s |-> 0, says |-> None]]
  /\ UNCHANGED <<run, native, gate, flush, ghosts, faults>>

Request(c) == [id |-> call[c].id, op |-> call[c].op, to |-> call[c].to]
\* record_agent_request: an id stands for one operation.
Conflicts(c) == \E r \in requests : r.id = call[c].id /\ r # Request(c)
Allowed(c) == <<Actor(c), call[c].to>> \in (IF call[c].op = "send" THEN CanSend ELSE CanObserve)

Denied(c) ==
  /\ call[c].pc = "asked"
  /\ \/ ~open
     \/ Caller(c) \notin hosted
     \/ gate = None /\ (~Acts(c) \/ ~Allowed(c) \/ Conflicts(c))
  /\ Ends(c)
  /\ UNCHANGED <<run, native, gate, flush, ghosts, faults>>
\* handle_agent_request, in one transaction under the gate.
Admit(c) ==
  LET id == call[c].id IN
  /\ call[c].pc = "asked" /\ open /\ gate = None
  /\ Caller(c) \in hosted /\ Acts(c) /\ Allowed(c) /\ ~Conflicts(c)
  /\ requests' = requests \cup {Request(c)}
  /\ IF call[c].op = "send"
     THEN /\ messages' = IF Find(id) = {} THEN Append(messages, [id |-> id, to |-> call[c].to, status |-> "accepted"]) ELSE messages
          /\ overlap' = IF Delivering(id) # {} THEN overlap \cup {id} ELSE overlap
          /\ IF Status(id) = "delivered" THEN Answer(c, "delivered") ELSE call' = [call EXCEPT ![c].pc = "deliver"]
     ELSE call' = [call EXCEPT ![c].pc = "look"] /\ UNCHANGED <<messages, overlap>>
  /\ UNCHANGED <<open, task, exec, of, native, gate, flush, sent, missed, faults>>

\* deliver_accepted_message: the recipient's execution, when it runs.
FindRecipient(c) ==
  /\ call[c].pc = "deliver" /\ gate = None
  /\ IF task[call[c].to] = "running" THEN call' = [call EXCEPT ![c].pc = "found", ![c].s = exec[call[c].to]]
     ELSE Ends(c)
  /\ UNCHANGED <<run, native, gate, flush, ghosts, faults>>
Sends(id, s) == sent' = [sent EXCEPT ![id, s] = @ + 1]
Deliver(c) ==
  /\ call[c].pc = "found" /\ gate = None
  /\ \/ /\ call[c].s \in live /\ Sends(call[c].id, call[c].s)
        /\ call' = [call EXCEPT ![c].pc = "mark"]
        /\ UNCHANGED <<missed, faults>>
     \/ /\ (call[c].s \notin live /\ UNCHANGED faults) \/ Fault
        /\ Ends(c) /\ missed' = missed \cup {call[c].id} /\ UNCHANGED sent
  /\ UNCHANGED <<run, native, gate, flush, overlap>>
\* A message that is marked already is a conflict.
Mark(c) ==
  /\ call[c].pc = "mark" /\ gate = None
  /\ \/ /\ Status(call[c].id) = "accepted" /\ messages' = Marked(call[c].id)
        /\ Answer(c, "delivered") /\ UNCHANGED <<missed, faults>>
     \/ /\ Status(call[c].id) = "delivered" /\ Ends(c) /\ UNCHANGED <<messages, missed, faults>>
     \/ /\ Fault /\ Ends(c) /\ missed' = missed \cup {call[c].id} /\ UNCHANGED messages
  /\ UNCHANGED <<open, task, exec, of, requests, native, gate, flush, sent, overlap>>

\* wait_for_member (an observation answers at once with history references).
Look(c) ==
  /\ call[c].pc = "look" /\ gate = None
  /\ LET t == exec[call[c].to] IN
     IF call[c].op = "observe" THEN Ends(c)
     ELSE IF call[c].to = Actor(c) \/ t = 0 THEN Ends(c)
     ELSE call' = [call EXCEPT ![c].pc = IF t \in hosted THEN "wait" ELSE "result", ![c].s = t]
  /\ UNCHANGED <<run, native, gate, flush, ghosts, faults>>
\* wait_for_observed_turn.
WaitEnds(c) ==
  /\ call[c].pc = "wait"
  /\ IF call[c].s \in ended THEN call' = [call EXCEPT ![c].pc = "result"]
     ELSE (call[c].s \notin live \/ Caller(c) \in ended \/ Caller(c) \notin live) /\ Ends(c)
  /\ UNCHANGED <<run, native, gate, flush, ghosts, faults>>
Reports(c) ==
  /\ call[c].pc = "result" /\ gate = None
  /\ IF open /\ call[c].s \in live THEN Answer(c, "result") ELSE Ends(c)
  /\ UNCHANGED <<run, native, gate, flush, ghosts, faults>>
-----------------------------------------------------------------------------
(* The scheduler, as far as messages see it: a launch keeps the gate until *)
(* the accepted messages of the member are flushed.                        *)

Free == {s \in Session : of[s] = None}
Waiting(m) == SelectSeq(messages, LAMBDA x : x.to = m /\ x.status = "accepted")
\* launch_lease from its commit to the accepted task prompt.
Launch(m) ==
  /\ open /\ gate = None /\ task[m] = "ready" /\ Free # {}
  /\ LET s == CHOOSE s \in Free : \A t \in Free : s <= t IN
     /\ of' = [of EXCEPT ![s] = m] /\ exec' = [exec EXCEPT ![m] = s] /\ task' = [task EXCEPT ![m] = "running"]
     /\ live' = live \cup {s} /\ hosted' = hosted \cup {s}
  /\ gate' = m /\ flush' = Waiting(m)
  /\ overlap' = overlap \cup {call[c].id : c \in {d \in Call : call[d].pc \in {"deliver", "found", "mark"} /\ call[d].to = m}}
  /\ UNCHANGED <<open, requests, messages, ended, call, sent, missed, faults>>
\* flush_accepted_messages_locked, one message.
Flush ==
  /\ gate # None /\ flush # <<>>
  /\ LET x == Head(flush)
         s == exec[gate] IN
     \/ /\ s \in live /\ Sends(x.id, s)
        /\ \/ messages' = Marked(x.id) /\ UNCHANGED <<missed, faults>>
           \/ Fault /\ missed' = missed \cup {x.id} /\ UNCHANGED messages
     \/ /\ (s \notin live /\ UNCHANGED faults) \/ Fault
        /\ missed' = missed \cup {x.id} /\ UNCHANGED <<sent, messages>>
  /\ flush' = Tail(flush)
  /\ UNCHANGED <<open, task, exec, of, requests, native, gate, call, overlap>>
Launched ==
  /\ gate # None /\ flush = <<>> /\ gate' = None
  /\ UNCHANGED <<run, native, flush, call, ghosts, faults>>

\* watch_execution: the outcome of the turn, or its loss.
Watch(m) ==
  /\ gate = None /\ task[m] = "running" /\ (exec[m] \in ended \/ exec[m] \notin live)
  /\ exec[m] \in hosted
  /\ task' = [task EXCEPT ![m] = IF exec[m] \in ended THEN "settled" ELSE "uncertain"]
  /\ hosted' = hosted \ {exec[m]}
  /\ UNCHANGED <<open, exec, of, requests, messages, live, ended, gate, flush, call, ghosts, faults>>
\* A repeat by a review, or a retry.
Repeat(m) ==
  /\ open /\ task[m] \in {"settled", "uncertain"}
  /\ task' = [task EXCEPT ![m] = "ready"] /\ exec' = [exec EXCEPT ![m] = 0]
  /\ UNCHANGED <<open, of, requests, messages, native, gate, flush, call, ghosts, faults>>
Cancel ==
  /\ open /\ open' = FALSE
  /\ UNCHANGED <<task, exec, of, requests, messages, native, gate, flush, call, ghosts, faults>>
TurnEnds(s) ==
  /\ s \in live \ ended /\ ended' = ended \cup {s}
  /\ UNCHANGED <<run, live, hosted, gate, flush, call, ghosts, faults>>
Closes(s) ==
  /\ s \in live /\ Fault /\ live' = live \ {s}
  /\ UNCHANGED <<run, ended, hosted, gate, flush, call, ghosts>>
\* A crash: the deliveries under way lose their records; running tasks are uncertain.
Restart ==
  /\ Fault
  /\ missed' = missed \cup {call[c].id : c \in {d \in Call : call[d].pc \in {"deliver", "found", "mark"}}} \cup {flush[i].id : i \in 1..Len(flush)}
  /\ task' = [m \in Member |-> IF task[m] = "running" THEN "uncertain" ELSE task[m]]
  /\ live' = {} /\ hosted' = {} /\ gate' = None /\ flush' = <<>> /\ call' = [c \in Call |-> Idle]
  /\ UNCHANGED <<open, exec, of, requests, messages, ended, sent, overlap>>
-----------------------------------------------------------------------------
Init ==
  /\ open = TRUE /\ task = [m \in Member |-> "ready"] /\ exec = [m \in Member |-> 0]
  /\ of = [s \in Session |-> None] /\ live = {} /\ ended = {} /\ hosted = {}
  /\ requests = {} /\ messages = <<>> /\ gate = None /\ flush = <<>>
  /\ call = [c \in Call |-> Idle] /\ sent = [x \in Id \X Session |-> 0] /\ missed = {} /\ overlap = {} /\ faults = 0

Next ==
  \/ \E c \in Call, s \in Session, n \in 1..MaxRequest, op \in Op, to \in Member : Ask(c, s, n, op, to)
  \/ \E c \in Call : \/ Denied(c) \/ Admit(c) \/ FindRecipient(c) \/ Deliver(c) \/ Mark(c)
                     \/ Look(c) \/ WaitEnds(c) \/ Reports(c)
  \/ \E m \in Member : Launch(m) \/ Watch(m) \/ Repeat(m)
  \/ Flush \/ Launched \/ Cancel \/ Restart
  \/ \E s \in Session : TurnEnds(s) \/ Closes(s)

Spec == Init /\ [][Next]_vars
-----------------------------------------------------------------------------
\* The type invariant.
TypeOK ==
  /\ open \in BOOLEAN /\ task \in [Member -> {"ready", "running", "settled", "uncertain"}]
  /\ exec \in [Member -> 0..MaxSession] /\ of \in [Session -> Member \cup {None}]
  /\ live \subseteq Session /\ ended \subseteq Session /\ hosted \subseteq Session
  /\ requests \subseteq [id : Id, op : Op, to : Member]
  /\ \A i \in 1..Len(messages) : messages[i] \in [id : Id, to : Member, status : {"accepted", "delivered"}]
  /\ \A i, j \in 1..Len(messages) : messages[i].id = messages[j].id => i = j
  /\ gate \in Member \cup {None} /\ faults \in 0..MaxFault

\* A message is recorded as delivered, and its sender told so, only after it was
\* handed to a session of its recipient, with the team's permission.
DeliveredWasSent ==
  /\ \A i \in 1..Len(messages) :
       LET x == messages[i] IN
       /\ <<of[x.id[1]], x.to>> \in CanSend
       /\ x.status = "delivered" => \E s \in Session : of[s] = x.to /\ sent[x.id, s] > 0
  /\ \A c \in Call : call[c].says = "delivered" => Status(call[c].id) = "delivered"

\* No message falls between its sender and a recipient that is being launched: once
\* nobody handles it, it was delivered, unless the recipient does not run or a
\* delivery failed.
NothingHeldBack ==
  gate = None => \A i \in 1..Len(messages) :
    LET x == messages[i] IN
    (task[x.to] = "running" /\ x.id \notin missed /\ Delivering(x.id) = {}) => x.status = "delivered"

\* A message is handed over twice only when a record failed, or when its call was
\* under way while the recipient was launched or the call was repeated.
SentOnce ==
  \A id \in Id \ (missed \cup overlap) : \A s, t \in Session :
    sent[id, s] <= 1 /\ (sent[id, s] > 0 /\ sent[id, t] > 0 => s = t)

\* A member that a wait reports on has ended its turn.
WaitSeesEnd == \A c \in Call : (call[c].pc = "idle" /\ call[c].says = "result") => call[c].s \in ended
=============================================================================
