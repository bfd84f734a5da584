------------------------------ MODULE Composer ------------------------------
(***************************************************************************)
(* The durable message outbox of one chat (workspace_composer.rs): what a  *)
(* person sends is queued on disk, a drain task hands the queue to the     *)
(* native harness one turn at a time, a steer hands one message to the     *)
(* turn that runs, and stop, failure, close and restart pause the queue.   *)
(*                                                                         *)
(* Three kinds of processes interleave at every await and lock:            *)
(*   - one composer command at a time (it holds the operation gate);       *)
(*   - per live runtime, the holder of its composer gate: a drain task or  *)
(*     a steer.  A closed runtime's holder may outlive its runtime, while  *)
(*     the next runtime of the session has a gate of its own;              *)
(*   - the event forwarder of the live runtime, and pause_queue, which     *)
(*     first stores a flag and then changes the queue.                     *)
(* The outbox file is synced before the queue in memory changes, so one    *)
(* set of variables stands for both.  A save may fail before anything is   *)
(* written, or after the new queue is published (the listing of old        *)
(* files); MaxFaults bounds how often.                                     *)
(***************************************************************************)
EXTENDS Integers, Sequences, FiniteSets

CONSTANTS
  Msg,         \* request ids
  NoMsg,       \* not a request id
  MaxEdits,    \* bound: edits of one message
  MaxOpens,    \* bound: runtimes of the session, over all restarts
  MaxDrains,   \* bound: drain tasks waiting for the gate
  MaxEvents,   \* bound: a harness with so many undelivered events waits
  MaxTrouble,  \* bound: stops, closes, compactions, turns outside the outbox,
               \* refused prompts and images, exits and restarts
  MaxFaults    \* bound: failed saves of the outbox

ASSUME ComposerConstants ==
  /\ NoMsg \notin Msg
  /\ MaxEdits \in Nat /\ MaxOpens \in Nat /\ MaxDrains \in Nat
  /\ MaxEvents \in Nat /\ MaxTrouble \in Nat /\ MaxFaults \in Nat

VARIABLES
  items,     \* QueueState.items: the ids in the order they were enqueued
  status,    \* Delivery of each id, "Absent" before it is enqueued
  text,      \* which edit of the message is its text
  paused,    \* QueueState.paused
  live,      \* the published runtime of the session, 0 for none
  opened,    \* runtimes started so far
  flag,      \* LiveState.composer_paused of each runtime
  waiting,   \* LiveState.composer_waiting of each runtime, -1 for None
  turns,     \* LiveState.turns.generation of each runtime
  native,    \* what each native harness does
  events,    \* events each runtime sent and its forwarder has not applied
  holder,    \* who holds each runtime's composer_gate, and where it is
  drains,    \* drain tasks that wait for the gate
  cmd,       \* the composer command that holds the operation gate
  pausing,   \* pause_queue calls between their flag and their queue change
  closing,   \* the step of close_session
  trouble,   \* disturbances so far, bounded by MaxTrouble
  faults,    \* failed saves
  late,      \* prompts whose answer timed out and that may still arrive
  taken,     \* observation: how often a harness took each message
  parked     \* observation: messages a pause has put on hold

queue == <<items, status, text, paused>>
runtimes == <<live, opened, flag, waiting, turns, native, events>>
observed == <<taken, parked>>
vars == <<queue, runtimes, holder, drains, cmd, pausing, closing, trouble,
          faults, late, observed>>

Delivery == {"Queued", "Sending", "Uncertain", "Sent", "Cancelled"}
Runtime == 1..MaxOpens
Outcome == {"succeeded", "failed", "interrupted"}

Free == [pc |-> "free", kind |-> "drain", msg |-> NoMsg, body |-> 0, since |-> 0, answer |-> "none"]
NoCommand == [op |-> "none", msg |-> NoMsg, on |-> 0]

\* The outbox holds every id once; runtimes, gates and commands are well formed.
TypeOK ==
  /\ items \in Seq(Msg)
  /\ \A m \in Msg : status[m] # "Absent" <=> \E n \in 1..Len(items) : items[n] = m
  /\ \A n, k \in 1..Len(items) : items[n] = items[k] => n = k
  /\ status \in [Msg -> Delivery \cup {"Absent"}]
  /\ text \in [Msg -> 0..MaxEdits]
  /\ paused \in BOOLEAN
  /\ opened \in 0..MaxOpens /\ live \in 0..opened
  /\ flag \in [Runtime -> BOOLEAN]
  /\ waiting \in [Runtime -> Nat \cup {-1}]
  /\ turns \in [Runtime -> Nat]
  /\ native \in [Runtime -> {"idle", "running", "compacting", "dead"}]
  /\ events \in [Runtime -> Seq(Outcome \cup {"idle", "exit", "paused"})]
  /\ holder \in [Runtime -> [pc : {"free", "check", "snapshot", "admit", "images", "prompt", "settle"},
                             kind : {"drain", "steer"}, msg : Msg \cup {NoMsg}, body : 0..MaxEdits,
                             since : Nat, answer : {"none", "accepted", "rejected", "unknown"}]]
  /\ drains \in 0..MaxDrains
  /\ cmd \in [op : {"none", "look", "unpause", "steer", "stop"}, msg : Msg \cup {NoMsg}, on : 0..MaxOpens]
  /\ pausing \subseteq {"events", "drain", "close", "stop"} \X (0..MaxOpens)
  /\ closing \in {"no", "pause", "retire"} \X (0..MaxOpens)
  /\ trouble \in 0..MaxTrouble
  /\ faults \in 0..MaxFaults
  /\ late \subseteq Runtime \X Msg
  /\ taken \in [Msg -> Nat]
  /\ parked \subseteq Msg

(***************************************************************************)
(* The queue.                                                              *)
(***************************************************************************)
InStatus(D) == {m \in Msg : status[m] \in D}
Pending == InStatus({"Queued", "Sending", "Uncertain"}) # {}
Unsettled == InStatus({"Sending", "Uncertain"}) # {}

Position(m) == CHOOSE n \in 1..Len(items) : items[n] = m
Before(k, m) == Position(k) < Position(m)
NewestQueued(m) == status[m] = "Queued" /\ \A k \in InStatus({"Queued"}) : k = m \/ Before(k, m)
OldestQueued(m) == status[m] = "Queued" /\ \A k \in InStatus({"Queued"}) : k = m \/ Before(m, k)

\* change_queue: the next queue is saved, or the save fails with or without it.
ChangeQueue(st, pa, saved) ==
  \/ saved /\ status' = st /\ paused' = pa /\ UNCHANGED faults
  \/ ~saved /\ faults < MaxFaults /\ faults' = faults + 1
     /\ \/ status' = st /\ paused' = pa
        \/ UNCHANGED <<status, paused>>

Deliver(m, d) == [status EXCEPT ![m] = d]
Hold == parked' = parked \cup {m \in Msg : status'[m] = "Queued"}

\* enqueue_message: an id is accepted once, also after it was delivered or
\* dismissed.
Enqueue(m, saved) ==
  IF status[m] = "Absent"
  THEN /\ ChangeQueue(Deliver(m, "Queued"), paused, saved)
       /\ items' = IF status' = status THEN items ELSE Append(items, m)
  ELSE saved /\ UNCHANGED <<items, status, paused, faults>>

Disturb == trouble < MaxTrouble /\ trouble' = trouble + 1

(***************************************************************************)
(* pause_queue.                                                            *)
(***************************************************************************)
StoreFlag == flag' = IF live = 0 THEN flag ELSE [flag EXCEPT ![live] = TRUE]
BeginPause(who) == pausing' = pausing \cup {who} /\ StoreFlag

PauseRecord(who) ==
  /\ who \in pausing
  /\ pausing' = pausing \ {who}
  /\ IF Pending
     THEN /\ \E saved \in BOOLEAN : ChangeQueue(status, TRUE, saved)
          /\ Hold
     ELSE UNCHANGED <<status, paused, faults, parked>>
  /\ UNCHANGED <<items, text, runtimes, holder, drains, cmd, closing, trouble, late, taken>>

(***************************************************************************)
(* drain: hand the queue to the harness, one verified turn at a time.      *)
(***************************************************************************)
At(i, kind, pc) == holder[i].pc = pc /\ holder[i].kind = kind
Holds(i, h) == holder' = [holder EXCEPT ![i] = h]
Release(i) == Holds(i, Free)
ReleaseAndPause(i) == Release(i) /\ BeginPause(<<"drain", i>>)

DrainStart ==
  /\ drains > 0
  /\ drains' = drains - 1
  /\ IF live = 0 THEN UNCHANGED holder
     ELSE holder[live] = Free /\ Holds(live, [Free EXCEPT !.pc = "check"])
  /\ UNCHANGED <<queue, runtimes, cmd, pausing, closing, trouble, faults, late, observed>>

DrainCheck(i) ==
  /\ At(i, "drain", "check")
  /\ IF live # i \/ flag[i] \/ paused \/ Unsettled \/ InStatus({"Queued"}) = {}
     THEN Release(i)
     ELSE \E m \in Msg : OldestQueued(m) /\ Holds(i, [Free EXCEPT !.pc = "snapshot", !.msg = m, !.body = text[m]])
  /\ UNCHANGED <<queue, runtimes, drains, cmd, pausing, closing, trouble, faults, late, observed>>

DrainSnapshot(i) ==
  /\ At(i, "drain", "snapshot")
  /\ CASE native[i] = "dead" -> ReleaseAndPause(i)
       [] native[i] = "idle" -> Holds(i, [holder[i] EXCEPT !.pc = "admit"]) /\ UNCHANGED <<pausing, flag>>
       [] OTHER -> Release(i) /\ UNCHANGED <<pausing, flag>>
  /\ UNCHANGED <<queue, live, opened, waiting, turns, native, events, drains, cmd, closing, trouble,
                 faults, late, observed>>

AdmitStaleText(i) ==
  [holder[i] EXCEPT !.pc = "images", !.since = turns[i]]
Admitted(i) ==
  [holder[i] EXCEPT !.pc = "images", !.body = text[holder[i].msg], !.since = turns[i]]

\* Both conditions are read again inside the queue change.
MayAdmit(i) == ~paused /\ status[holder[i].msg] = "Queued"
TurnCounted(i) == waiting[i] = -1 \/ turns[i] > waiting[i]

DrainAdmit(i) ==
  /\ At(i, "drain", "admit")
  /\ \/ ~TurnCounted(i) /\ Release(i) /\ UNCHANGED <<status, paused, faults, pausing, flag>>
     \/ TurnCounted(i) /\ ~MayAdmit(i) /\ ReleaseAndPause(i) /\ UNCHANGED <<status, paused, faults>>
     \/ /\ TurnCounted(i) /\ MayAdmit(i)
        /\ \E saved \in BOOLEAN :
             /\ ChangeQueue(Deliver(holder[i].msg, "Sending"), paused, saved)
             /\ IF saved THEN Holds(i, Admitted(i)) /\ UNCHANGED <<pausing, flag>>
                ELSE ReleaseAndPause(i)
  /\ UNCHANGED <<items, text, live, opened, waiting, turns, native, events, drains, cmd, closing,
                 trouble, late, observed>>

(***************************************************************************)
(* The way of an admitted message, for a drain and for a steer.            *)
(***************************************************************************)
\* prompt_images: the session can no longer take the images of the message,
\* or their bytes are gone; nothing was sent (hold_message).
Held(m) == Deliver(m, "Queued")
HoldMessage(i) ==
  /\ Disturb
  /\ holder[i].pc = "images"
  /\ \E saved \in BOOLEAN : /\ ChangeQueue(Held(holder[i].msg), TRUE, saved)
                            /\ IF ~saved /\ holder[i].kind = "drain" THEN ReleaseAndPause(i)
                               ELSE Release(i) /\ UNCHANGED <<pausing, flag>>
  /\ Hold
  /\ cmd' = IF holder[i].kind = "steer" THEN NoCommand ELSE cmd
  /\ UNCHANGED <<items, text, live, opened, waiting, turns, native, events, drains, closing, late, taken>>

SendPrompt(i) ==
  /\ holder[i].pc = "images"
  /\ Holds(i, [holder[i] EXCEPT !.pc = "prompt"])
  /\ waiting' = IF holder[i].kind = "drain" THEN [waiting EXCEPT ![i] = holder[i].since] ELSE waiting
  /\ UNCHANGED <<queue, live, opened, flag, turns, native, events, drains, cmd, pausing, closing, trouble,
                 faults, late, observed>>

\* The harness starts a turn with a prompt when it is idle and adds a steer to
\* the turn that runs.
CanTake(i, kind) == native[i] = IF kind = "drain" THEN "idle" ELSE "running"
Answered(i, a) == Holds(i, [holder[i] EXCEPT !.pc = "settle", !.answer = a])
Take(i, m) ==
  /\ taken' = [taken EXCEPT ![m] = @ + 1]
  /\ native' = [native EXCEPT ![i] = "running"]

\* The harness takes the message; its answer arrives or is lost.
NativeTakes(i) ==
  /\ holder[i].pc = "prompt"
  /\ CanTake(i, holder[i].kind)
  /\ Take(i, holder[i].msg)
  /\ \E a \in {"accepted", "unknown"} : Answered(i, a)
  /\ UNCHANGED <<queue, live, opened, flag, waiting, turns, events, drains, cmd, pausing, closing, trouble,
                 faults, late, parked>>

\* The harness is busy, runs no turn to steer, or is gone.
NativeRefuses(i) ==
  /\ holder[i].pc = "prompt"
  /\ ~CanTake(i, holder[i].kind)
  /\ Answered(i, IF native[i] = "dead" THEN "unknown" ELSE "rejected")
  /\ UNCHANGED <<queue, runtimes, drains, cmd, pausing, closing, trouble, faults, late, observed>>

\* The harness declines the message, or the request times out and may still
\* be on its way.
NativeDeclines(i) ==
  /\ Disturb
  /\ holder[i].pc = "prompt" /\ native[i] # "dead"
  /\ \/ Answered(i, "rejected") /\ UNCHANGED late
     \/ Answered(i, "unknown") /\ late' \in {late, late \cup {<<i, holder[i].msg>>}}
  /\ UNCHANGED <<queue, runtimes, drains, cmd, pausing, closing, faults, observed>>

NativeTakesLate(i, m) ==
  /\ <<i, m>> \in late
  /\ late' = late \ {<<i, m>>}
  /\ IF native[i] \in {"idle", "running"} THEN Take(i, m) ELSE UNCHANGED <<taken, native>>
  /\ UNCHANGED <<queue, live, opened, flag, waiting, turns, events, holder, drains, cmd, pausing, closing,
                 trouble, faults, parked>>

SettledRetrying(a) == CASE a = "accepted" -> "Sent" [] OTHER -> "Queued"
Settled(a) == CASE a = "accepted" -> "Sent" [] a = "rejected" -> "Queued" [] OTHER -> "Uncertain"

\* settle_message and the rest of drain and steer.
SettleMessage(i) ==
  LET a == holder[i].answer
      drain == holder[i].kind = "drain" IN
  /\ holder[i].pc = "settle"
  /\ \E saved \in BOOLEAN :
       /\ ChangeQueue(Deliver(holder[i].msg, Settled(a)), paused \/ a # "accepted", saved)
       /\ CASE drain /\ saved /\ a = "accepted" ->
                 Holds(i, [Free EXCEPT !.pc = "check"]) /\ UNCHANGED <<pausing, flag, waiting>>
            [] drain /\ ~saved ->
                 ReleaseAndPause(i) /\ UNCHANGED waiting
            [] drain /\ saved /\ a # "accepted" ->
                 ReleaseAndPause(i) /\ waiting' = [waiting EXCEPT ![i] = -1]
            [] ~drain ->
                 Release(i) /\ UNCHANGED <<pausing, flag, waiting>>
  /\ IF a = "accepted" THEN UNCHANGED parked ELSE Hold
  /\ cmd' = IF drain THEN cmd ELSE NoCommand
  /\ UNCHANGED <<items, text, live, opened, turns, native, events, drains, closing, trouble, late, taken>>

(***************************************************************************)
(* Composer commands; each holds the operation gate until it returns.      *)
(***************************************************************************)
Ready == cmd = NoCommand /\ live # 0

\* Send in the follow-up mode: enqueue; then clear the flag unless the record
\* is paused; then start a drain.
Send(m) ==
  /\ Ready
  /\ \E saved \in BOOLEAN :
       /\ Enqueue(m, saved)
       /\ cmd' = IF saved THEN [op |-> "look", msg |-> NoMsg, on |-> live] ELSE cmd
  /\ UNCHANGED <<text, runtimes, holder, drains, pausing, closing, trouble, late, observed>>

StartDrain == drains' = IF drains < MaxDrains THEN drains + 1 ELSE drains

SendLook ==
  /\ cmd.op = "look"
  /\ IF paused THEN StartDrain /\ cmd' = NoCommand
     ELSE UNCHANGED drains /\ cmd' = [cmd EXCEPT !.op = "unpause"]
  /\ UNCHANGED <<queue, runtimes, holder, pausing, closing, trouble, faults, late, observed>>

Unpause ==
  /\ cmd.op = "unpause"
  /\ flag' = [flag EXCEPT ![cmd.on] = FALSE]
  /\ StartDrain
  /\ cmd' = NoCommand
  /\ UNCHANGED <<queue, live, opened, waiting, turns, native, events, holder, pausing, closing, trouble,
                 faults, late, observed>>

Resume ==
  /\ Ready
  /\ ~Unsettled
  /\ \E saved \in BOOLEAN :
       /\ ChangeQueue(status, FALSE, saved)
       /\ cmd' = IF saved THEN [op |-> "unpause", msg |-> NoMsg, on |-> live] ELSE cmd
  /\ parked' = IF paused' THEN parked ELSE {}
  /\ UNCHANGED <<items, text, runtimes, holder, drains, pausing, closing, trouble, late, taken>>

Edit(m) ==
  /\ Ready
  /\ status[m] = "Queued" /\ text[m] < MaxEdits
  /\ \E saved \in BOOLEAN :
       /\ ChangeQueue(status, paused, saved)
       /\ text' = [text EXCEPT ![m] = @ + 1] \/ (~saved /\ UNCHANGED text)
  /\ UNCHANGED <<items, runtimes, holder, drains, cmd, pausing, closing, trouble, late, observed>>

RemoveAny(m) ==
  /\ Ready
  /\ status[m] # "Absent"
  /\ \E saved \in BOOLEAN : ChangeQueue(Deliver(m, "Cancelled"), paused, saved)
  /\ UNCHANGED <<items, text, runtimes, holder, drains, cmd, pausing, closing, trouble, late, observed>>
Remove(m) ==
  /\ Ready
  /\ status[m] \in {"Queued", "Uncertain"}
  /\ \E saved \in BOOLEAN : ChangeQueue(Deliver(m, "Cancelled"), paused, saved)
  /\ UNCHANGED <<items, text, runtimes, holder, drains, cmd, pausing, closing, trouble, late, observed>>

\* Compact holds the composer gate and refuses a queue with pending messages.
Compact ==
  /\ Disturb
  /\ Ready
  /\ holder[live] = Free /\ ~Pending /\ native[live] = "idle"
  /\ native' = [native EXCEPT ![live] = "compacting"]
  /\ UNCHANGED <<queue, live, opened, flag, waiting, turns, events, holder, drains, cmd, pausing, closing,
                 faults, late, observed>>

\* Promote, or Send in the steer mode: a new message is enqueued only once
\* the harness is known to run a turn.
Steer(m, new) ==
  /\ Ready
  /\ holder[live] = Free /\ native[live] = "running"
  /\ status[m] \notin {"Sent", "Cancelled", "Uncertain"}
  /\ \E saved \in BOOLEAN :
       /\ IF new THEN Enqueue(m, saved) ELSE saved /\ UNCHANGED <<items, status, paused, faults>>
       /\ IF saved
          THEN /\ cmd' = [op |-> "steer", msg |-> m, on |-> live]
               /\ Holds(live, [Free EXCEPT !.kind = "steer", !.pc = "admit", !.msg = m])
          ELSE UNCHANGED <<cmd, holder>>
  /\ parked' = parked \ {m}
  /\ UNCHANGED <<text, runtimes, drains, pausing, closing, trouble, late, taken>>

SteerAdmit(i) ==
  LET m == holder[i].msg IN
  /\ At(i, "steer", "admit")
  /\ IF status[m] # "Queued"
     THEN Release(i) /\ cmd' = NoCommand /\ UNCHANGED <<status, paused, faults>>
     ELSE \E saved \in BOOLEAN :
            /\ ChangeQueue(Deliver(m, "Sending"), paused, saved)
            /\ IF saved THEN Holds(i, Admitted(i)) /\ UNCHANGED cmd
               ELSE Release(i) /\ cmd' = NoCommand
  /\ UNCHANGED <<items, text, runtimes, drains, pausing, closing, trouble, late, observed>>

\* interrupt: pause, wait for the composer gate, then stop the turn.
BeginStop ==
  /\ Disturb
  /\ Ready
  /\ cmd' = [op |-> "stop", msg |-> NoMsg, on |-> live]
  /\ BeginPause(<<"stop", 0>>)
  /\ UNCHANGED <<queue, live, opened, waiting, turns, native, events, holder, drains, closing, 
                 faults, late, observed>>

\* The forwarder runs until close_session aborts it.
Forwarding(i) == live = i \/ closing = <<"retire", i>>

EndTurn(i, outcome) ==
  /\ Len(events[i]) < MaxEvents
  /\ native' = [native EXCEPT ![i] = "idle"]
  /\ events' = [events EXCEPT ![i] = IF Forwarding(i) THEN @ \o <<outcome, "idle">> ELSE @]

StopTurn ==
  /\ cmd.op = "stop" /\ <<"stop", 0>> \notin pausing
  /\ holder[cmd.on] = Free
  /\ cmd' = NoCommand
  /\ IF native[cmd.on] = "running" THEN EndTurn(cmd.on, "interrupted") ELSE UNCHANGED <<native, events>>
  /\ UNCHANGED <<queue, live, opened, flag, waiting, turns, holder, drains, pausing, closing, trouble,
                 faults, late, observed>>

(***************************************************************************)
(* The harness and the forwarder of its events.                            *)
(***************************************************************************)
\* WorkspaceHost::send starts a turn outside the outbox.
DirectSend ==
  /\ Ready
  /\ Disturb
  /\ native[live] = "idle"
  /\ native' = [native EXCEPT ![live] = "running"]
  /\ UNCHANGED <<queue, live, opened, flag, waiting, turns, events, holder, drains, cmd, pausing, closing,
                 faults, late, observed>>

NativeFinishes(i) ==
  /\ \/ native[i] = "running" /\ \E outcome \in {"succeeded", "failed"} : EndTurn(i, outcome)
     \/ native[i] = "compacting" /\ Len(events[i]) < MaxEvents
        /\ native' = [native EXCEPT ![i] = "idle"]
        /\ events' = [events EXCEPT ![i] = IF Forwarding(i) THEN Append(@, "idle") ELSE @]
  /\ UNCHANGED <<queue, live, opened, flag, waiting, turns, holder, drains, cmd, pausing, closing, trouble,
                 faults, late, observed>>

NativeExits(i) ==
  /\ Disturb
  /\ live = i /\ native[i] # "dead" /\ Len(events[i]) < MaxEvents
  /\ native' = [native EXCEPT ![i] = "dead"]
  /\ events' = [events EXCEPT ![i] = Append(@, "exit")]
  /\ UNCHANGED <<queue, live, opened, flag, waiting, turns, holder, drains, cmd, pausing, closing, 
                 faults, late, observed>>

\* An unsuccessful turn and a lost runtime pause the queue before the
\* forwarder applies the event itself; "paused" marks that it did.
MustPause(e) == e \in {"failed", "interrupted", "exit"}
EventPauses(i) ==
  /\ Forwarding(i) /\ events[i] # <<>> /\ MustPause(Head(events[i]))
  /\ BeginPause(<<"events", i>>)
  /\ events' = [events EXCEPT ![i] = <<"paused">> \o @]
  /\ UNCHANGED <<queue, live, opened, waiting, turns, native, holder, drains, cmd, closing, trouble,
                 faults, late, observed>>

Current(i) == IF Head(events[i]) = "paused" THEN events[i][2] ELSE Head(events[i])
Applied(i) == IF Head(events[i]) = "paused" THEN Tail(Tail(events[i])) ELSE Tail(events[i])
EventApplies(i) ==
  /\ Forwarding(i) /\ events[i] # <<>> /\ <<"events", i>> \notin pausing
  /\ ~MustPause(Head(events[i]))
  /\ events' = [events EXCEPT ![i] = Applied(i)]
  /\ turns' = IF Current(i) \in Outcome THEN [turns EXCEPT ![i] = @ + 1] ELSE turns
  /\ IF Current(i) = "idle" THEN StartDrain ELSE UNCHANGED drains
  /\ live' = IF Current(i) = "exit" /\ live = i THEN 0 ELSE live
  /\ UNCHANGED <<queue, opened, flag, waiting, native, holder, cmd, pausing, closing, trouble, faults,
                 late, observed>>

(***************************************************************************)
(* Closing, opening and restarting.                                        *)
(***************************************************************************)
\* close_session pauses, withdraws the runtime, then retires its process.
BeginClose ==
  /\ Disturb
  /\ closing = <<"no", 0>>
  /\ closing' = <<"pause", 0>>
  /\ BeginPause(<<"close", 0>>)
  /\ UNCHANGED <<queue, live, opened, waiting, turns, native, events, holder, drains, cmd, 
                 faults, late, observed>>

Withdraw ==
  /\ closing[1] = "pause" /\ <<"close", 0>> \notin pausing
  /\ closing' = IF live = 0 THEN <<"no", 0>> ELSE <<"retire", live>>
  /\ live' = 0
  /\ UNCHANGED <<queue, opened, flag, waiting, turns, native, events, holder, drains, cmd, pausing, trouble,
                 faults, late, observed>>

Retire ==
  /\ closing[1] = "retire" /\ <<"events", closing[2]>> \notin pausing
  /\ closing' = <<"no", 0>>
  /\ native' = [native EXCEPT ![closing[2]] = "dead"]
  /\ events' = [events EXCEPT ![closing[2]] = <<>>]
  /\ UNCHANGED <<queue, live, opened, flag, waiting, turns, holder, drains, cmd, pausing, trouble, faults,
                 late, observed>>

\* A new LiveState: its own gate, flag and turn count.
Open ==
  /\ live = 0 /\ cmd = NoCommand /\ opened < MaxOpens
  /\ opened' = opened + 1 /\ live' = opened + 1
  /\ native' = [native EXCEPT ![opened + 1] = "idle"]
  /\ UNCHANGED <<queue, flag, waiting, turns, events, holder, drains, cmd, pausing, closing, trouble,
                 faults, late, observed>>

\* recover, for every session with pending messages (recover_queues).
Recover == [m \in Msg |-> IF status[m] = "Sending" THEN "Uncertain" ELSE status[m]]

\* The host process ends; its harnesses end with it.  The next one recovers.
Restart ==
  /\ Disturb
  /\ status' = Recover
  /\ paused' = (paused \/ Pending)
  /\ Hold
  /\ live' = 0
  /\ native' = [i \in Runtime |-> "dead"]
  /\ events' = [i \in Runtime |-> <<>>]
  /\ holder' = [i \in Runtime |-> Free]
  /\ drains' = 0 /\ cmd' = NoCommand /\ pausing' = {} /\ closing' = <<"no", 0>> /\ late' = {}
  /\ flag' = [i \in Runtime |-> FALSE] /\ waiting' = [i \in Runtime |-> -1] /\ turns' = [i \in Runtime |-> 0]
  /\ UNCHANGED <<items, text, opened, faults, taken>>

(***************************************************************************)
(* The specification.                                                      *)
(***************************************************************************)
Init ==
  /\ items = <<>> /\ status = [m \in Msg |-> "Absent"] /\ text = [m \in Msg |-> 0] /\ paused = FALSE
  /\ live = 0 /\ opened = 0
  /\ flag = [i \in Runtime |-> FALSE] /\ waiting = [i \in Runtime |-> -1]
  /\ turns = [i \in Runtime |-> 0] /\ native = [i \in Runtime |-> "dead"]
  /\ events = [i \in Runtime |-> <<>>] /\ holder = [i \in Runtime |-> Free]
  /\ drains = 0 /\ cmd = NoCommand /\ pausing = {} /\ closing = <<"no", 0>>
  /\ trouble = 0 /\ faults = 0 /\ late = {}
  /\ taken = [m \in Msg |-> 0] /\ parked = {}

Task(i) == DrainCheck(i) \/ DrainSnapshot(i) \/ DrainAdmit(i) \/ SendPrompt(i) \/ SettleMessage(i)
           \/ SteerAdmit(i)
Forwarder(i) == EventPauses(i) \/ EventApplies(i)
Harness(i) == NativeTakes(i) \/ NativeRefuses(i)
Host ==
  \/ DrainStart \/ SendLook \/ Unpause \/ StopTurn \/ Withdraw \/ Retire
  \/ \E who \in pausing : PauseRecord(who)
  \/ \E i \in Runtime : Task(i) \/ Forwarder(i)
Person ==
  \/ Resume \/ Compact \/ BeginStop \/ BeginClose \/ Open
  \/ \E m \in Msg : Send(m) \/ Edit(m) \/ Remove(m) \/ \E new \in BOOLEAN : Steer(m, new)
Mishap ==
  \/ Restart \/ DirectSend
  \/ \E i \in Runtime : HoldMessage(i) \/ NativeDeclines(i) \/ NativeExits(i)
  \/ \E i \in Runtime, m \in Msg : NativeTakesLate(i, m)
Next == Host \/ Person \/ Mishap \/ \E i \in Runtime : Harness(i) \/ NativeFinishes(i)

Spec == Init /\ [][Next]_vars

(***************************************************************************)
(* Properties.                                                             *)
(***************************************************************************)
\* No message reaches a harness twice: not after a lost answer, a refused
\* save, a closed runtime whose drain goes on, or a restart
\* (docs/CHAT_LIFECYCLE.md: "it never retries an unknown outcome
\* automatically").
AtMostOnce == \A m \in Msg : taken[m] <= 1

\* A delivered or dismissed id stays a tombstone: neither a repeated Send, a
\* steer, a late settlement nor a restart brings it back.
TombstonesStay ==
  [][\A m \in Msg : status[m] \in {"Sent", "Cancelled"} => status'[m] = status[m]]_vars

\* A drain never overtakes an older follow-up that still waits, although it
\* chose its message before it asked the harness for its status.
InOrder ==
  \A i \in Runtime : holder[i].kind = "drain" /\ holder[i].pc \in {"images", "prompt"} =>
    \A k \in InStatus({"Queued"}) : ~Before(k, holder[i].msg)

\* At most one drain has a message on its way, over all runtimes of the
\* session, and a message on its way belongs to one task.
OneFollowUpInFlight ==
  \A i, j \in Runtime :
    i # j /\ {holder[i].pc, holder[j].pc} \subseteq {"images", "prompt", "settle"} =>
      holder[i].msg # holder[j].msg /\ "steer" \in {holder[i].kind, holder[j].kind}

\* A harness gets the text of the last edit that was acknowledged.
LatestTextSent ==
  \A i \in Runtime : holder[i].pc \in {"images", "prompt"} => holder[i].body = text[holder[i].msg]

\* Messages that a stop, a failed turn, a close or a restart put on hold leave
\* the queue only after Resume, or when the person steers them
\* (docs/CHAT_LIFECYCLE.md: "Stop, failure, close and host restart pause
\* pending work").
PausedWorkWaits ==
  \A i \in Runtime : holder[i].kind = "drain" /\ holder[i].pc = "images" => holder[i].msg \notin parked

\* A message in the state Sending belongs to a task that will settle it; the
\* person can neither remove, edit nor resume such a message.
SendingIsOwned ==
  \A m \in InStatus({"Sending"}) :
    \E i \in Runtime : holder[i].msg = m /\ holder[i].pc \in {"images", "prompt", "settle"}

\* The flag of a live runtime never holds a queue that its record shows as
\* running: whoever stored it is still about to pause the record, or a
\* command is about to clear it.
NoHiddenHold ==
  live # 0 /\ flag[live] /\ InStatus({"Queued"}) # {} => paused \/ pausing # {} \/ cmd # NoCommand

\* The queue hands over one follow-up at a time, in order, with its latest text
\* and not while it is on hold, and a message on its way belongs to a task.
QueueDiscipline ==
  /\ TypeOK
  /\ InOrder
  /\ OneFollowUpInFlight
  /\ LatestTextSent
  /\ PausedWorkWaits
  /\ SendingIsOwned
  /\ NoHiddenHold

=============================================================================
