------------------------ MODULE ComposerQueueProofs ------------------------
(***************************************************************************)
(* The discipline of the outbox's queue, for any number of messages,       *)
(* runtimes and restarts: order and single flight (ComposerProofs), the    *)
(* types, and, where no save fails, what a pause may hold back.            *)
(*                                                                         *)
(* QueueDiscipline is not inductive.  RestOK completes the types; HoldInv  *)
(* says what a pause holds and what the command in progress is about to do *)
(* with it.                                                                *)
(***************************************************************************)
EXTENDS ComposerProofs

(***************************************************************************)
(* The rest of the type invariant.                                         *)
(***************************************************************************)
QueueRest == paused \in BOOLEAN /\ faults \in 0..MaxFaults /\ parked \subseteq Msg
RuntimeRest ==
  /\ flag \in [Runtime -> BOOLEAN]
  /\ waiting \in [Runtime -> Nat \cup {-1}]
  /\ native \in [Runtime -> {"idle", "running", "compacting", "dead"}]
CommandRest ==
  /\ drains \in 0..MaxDrains
  /\ cmd \in [op : {"none", "look", "unpause", "steer", "stop"}, msg : Msg \cup {NoMsg}, on : 0..MaxOpens]
  /\ pausing \subseteq {"events", "drain", "close", "stop"} \X (0..MaxOpens)
  /\ closing \in {"no", "pause", "retire"} \X (0..MaxOpens)
  /\ trouble \in 0..MaxTrouble
TextRest == text \in [Msg -> 0..MaxEdits] /\ \A i \in Runtime : holder[i].body \in 0..MaxEdits

\* "paused" only ever marks the event behind it.
EventRest ==
  /\ events \in [Runtime -> Seq(Outcome \cup {"idle", "exit", "paused"})]
  /\ \A i \in Runtime : \A n \in 1..Len(events[i]) : events[i][n] = "paused" => n = 1 /\ Len(events[i]) > 1

RestOK == QueueRest /\ RuntimeRest /\ CommandRest /\ TextRest /\ EventRest

LEMMA QueueRestNext == ASSUME DeliveryInv, QueueRest, Next PROVE QueueRest'
<1> USE ComposerConstants
<1>1. ASSUME NEW st, NEW pa \in BOOLEAN, NEW saved \in BOOLEAN, ChangeQueue(st, pa, saved)
      PROVE  paused' \in BOOLEAN /\ faults' \in 0..MaxFaults
  BY <1>1 DEF QueueRest, ChangeQueue
<1>2. Hold => parked' \subseteq Msg
  BY DEF Hold, QueueRest
<1>3. ASSUME NEW i \in Runtime, DrainAdmit(i) \/ SteerAdmit(i) PROVE QueueRest'
  <2>1. UNCHANGED parked
    BY Zenon, <1>3 DEF DrainAdmit, SteerAdmit, observed
  <2>2. UNCHANGED <<paused, faults>> \/ \E saved \in BOOLEAN : ChangeQueue(Deliver(holder[i].msg, "Sending"), paused, saved)
    BY Zenon, <1>3 DEF DrainAdmit, SteerAdmit
  <2>3. QED
    BY SMTT(30), <1>1, <2>1, <2>2 DEF QueueRest
<1>4. ASSUME NEW i \in Runtime, HoldMessage(i) PROVE QueueRest'
  <2>1. Hold /\ \E saved \in BOOLEAN : ChangeQueue(Held(holder[i].msg), TRUE, saved)
    BY Zenon, <1>4 DEF HoldMessage
  <2>2. QED
    BY Zenon, <1>1, <1>2, <2>1 DEF QueueRest
<1>5. ASSUME NEW i \in Runtime, SettleMessage(i) PROVE QueueRest'
  <2>1. /\ UNCHANGED parked \/ Hold
        /\ \E saved \in BOOLEAN, pa \in BOOLEAN :
             ChangeQueue(Deliver(holder[i].msg, Settled(holder[i].answer)), pa, saved)
    BY Zenon, <1>5 DEF SettleMessage
  <2>2. QED
    BY <1>1, <1>2, <2>1 DEF QueueRest
<1>6. ASSUME NEW m \in Msg, NEW saved \in BOOLEAN, Enqueue(m, saved) PROVE paused' \in BOOLEAN /\ faults' \in 0..MaxFaults
  BY <1>1, <1>6 DEF Enqueue, QueueRest
<1>7. ASSUME NEW m \in Msg, Send(m) \/ Edit(m) \/ Remove(m) PROVE QueueRest'
  BY <1>1, <1>6, <1>7 DEF Send, Edit, Remove, QueueRest, observed
<1>8. ASSUME NEW m \in Msg, NEW new \in BOOLEAN, Steer(m, new) PROVE QueueRest'
  BY <1>6, <1>8 DEF Steer, QueueRest
<1>9. ASSUME Resume PROVE QueueRest'
  BY Zenon, <1>1, <1>9 DEF Resume, QueueRest
<1>10. ASSUME NEW who \in pausing, PauseRecord(who) PROVE QueueRest'
  BY Zenon, <1>1, <1>2, <1>10 DEF PauseRecord, QueueRest
<1>11. ASSUME Restart PROVE QueueRest'
  <2>1. paused' \in BOOLEAN
    BY <1>11 DEF Restart
  <2>2. QED
    BY <1>2, <1>11, <2>1 DEF Restart, QueueRest
<1>12. ASSUME SendLook \/ Unpause \/ StopTurn \/ Withdraw \/ Retire \/ DrainStart
              \/ Compact \/ BeginStop \/ BeginClose \/ Open \/ DirectSend
       PROVE  QueueRest'
  BY <1>12 DEF SendLook, Unpause, StopTurn, Withdraw, Retire, DrainStart, Compact, BeginStop, BeginClose, Open,
               DirectSend, queue, observed, QueueRest
<1>13. ASSUME NEW i \in Runtime,
              DrainCheck(i) \/ DrainSnapshot(i) \/ SendPrompt(i) \/ Forwarder(i) \/ Harness(i)
              \/ NativeFinishes(i) \/ NativeDeclines(i) \/ NativeExits(i) \/ \E m \in Msg : NativeTakesLate(i, m)
       PROVE  QueueRest'
  BY Zenon, <1>13 DEF DrainCheck, DrainSnapshot, SendPrompt, Forwarder, EventPauses, EventApplies, Harness, NativeTakes,
               NativeRefuses, NativeFinishes, NativeDeclines, NativeExits, NativeTakesLate, queue, observed, QueueRest
<1>14. QED
  BY <1>3, <1>4, <1>5, <1>7, <1>8, <1>9, <1>10, <1>11, <1>12, <1>13 DEF Next, Host, Person, Mishap, Task

LEMMA RuntimeRestNext == ASSUME DeliveryInv, CommandRest, RuntimeRest, Next PROVE RuntimeRest'
<1> USE ComposerConstants
<1>1. holder \in [Runtime -> Holder] /\ live \in 0..MaxOpens
  BY DEF DeliveryInv, CarryTypes
<1>2. UNCHANGED flag \/ StoreFlag => flag' \in [Runtime -> BOOLEAN]
  BY Zenon DEF StoreFlag, RuntimeRest
<1>3. ASSUME NEW i \in Runtime, DrainSnapshot(i) \/ DrainAdmit(i) \/ HoldMessage(i) \/ EventPauses(i) PROVE RuntimeRest'
  <2>1. (UNCHANGED flag \/ StoreFlag) /\ UNCHANGED <<waiting, native>>
    BY Zenon, <1>3 DEF DrainSnapshot, DrainAdmit, HoldMessage, EventPauses, ReleaseAndPause, BeginPause
  <2>2. QED
    BY <1>2, <2>1 DEF RuntimeRest
<1>4. ASSUME NEW i \in Runtime, SettleMessage(i) PROVE RuntimeRest'
  <2>1. (UNCHANGED flag \/ StoreFlag) /\ UNCHANGED native /\ waiting' \in {waiting, [waiting EXCEPT ![i] = -1]}
    BY Zenon, <1>4 DEF SettleMessage, ReleaseAndPause, BeginPause
  <2>2. QED
    BY <1>2, <2>1 DEF RuntimeRest
<1>5. ASSUME BeginStop \/ BeginClose PROVE RuntimeRest'
  BY <1>2, <1>5 DEF BeginStop, BeginClose, BeginPause, RuntimeRest
<1>6. ASSUME NEW i \in Runtime, SendPrompt(i) PROVE RuntimeRest'
  <2>1. holder[i].since \in Nat
    BY <1>1 DEF Holder
  <2>2. QED
    BY <1>6, <2>1 DEF SendPrompt, RuntimeRest
<1>7. ASSUME NEW i \in Runtime, NativeTakes(i) \/ NativeFinishes(i) \/ NativeExits(i) \/ \E m \in Msg : NativeTakesLate(i, m)
      PROVE  RuntimeRest'
  BY Zenon, <1>7 DEF NativeTakes, NativeFinishes, NativeExits, NativeTakesLate, Take, EndTurn, RuntimeRest
<1>8. ASSUME Unpause \/ StopTurn \/ Retire \/ Compact \/ Open \/ DirectSend PROVE RuntimeRest'
  <2>1. /\ flag' = flag \/ \E i : flag' = [flag EXCEPT ![i] = FALSE]
        /\ \/ native' = native
           \/ \E i : \E w \in {"idle", "running", "compacting", "dead"} : native' = [native EXCEPT ![i] = w]
        /\ UNCHANGED waiting
    BY <1>8 DEF Unpause, StopTurn, Retire, Compact, Open, DirectSend, EndTurn
  <2>2. QED
    BY Zenon, <2>1 DEF RuntimeRest
<1>9. ASSUME Restart PROVE RuntimeRest'
  BY <1>9 DEF Restart, RuntimeRest
<1>10. ASSUME \/ SendLook \/ Withdraw \/ DrainStart \/ Resume
              \/ \E who \in pausing : PauseRecord(who)
              \/ \E m \in Msg : Send(m) \/ Edit(m) \/ Remove(m) \/ \E new \in BOOLEAN : Steer(m, new)
       PROVE  RuntimeRest'
  BY Zenon, <1>10 DEF SendLook, Withdraw, DrainStart, Resume, PauseRecord, Send, Edit, Remove, Steer, runtimes, RuntimeRest
<1>11. ASSUME NEW i \in Runtime,
              DrainCheck(i) \/ SteerAdmit(i) \/ EventApplies(i) \/ NativeRefuses(i) \/ NativeDeclines(i)
       PROVE  RuntimeRest'
  BY Zenon, <1>11 DEF DrainCheck, SteerAdmit, EventApplies, NativeRefuses, NativeDeclines, runtimes, RuntimeRest
<1>12. QED
  BY <1>3, <1>4, <1>5, <1>6, <1>7, <1>8, <1>9, <1>10, <1>11
     DEF Next, Host, Person, Mishap, Task, Forwarder, Harness

LEMMA CommandRestNext == ASSUME DeliveryInv, CommandRest, Next PROVE CommandRest'
<1> USE ComposerConstants
<1>1. live \in 0..MaxOpens
  BY DEF DeliveryInv, CarryTypes
<1>2. Disturb => trouble' \in 0..MaxTrouble
  BY DEF Disturb, CommandRest
<1>3. StartDrain => drains' \in 0..MaxDrains
  BY DEF StartDrain, CommandRest
<1>4. NoCommand \in [op : {"none", "look", "unpause", "steer", "stop"}, msg : Msg \cup {NoMsg}, on : 0..MaxOpens]
  BY DEF NoCommand
<1>5. ASSUME NEW i \in Runtime, ReleaseAndPause(i)
      PROVE  pausing' \subseteq {"events", "drain", "close", "stop"} \X (0..MaxOpens)
  BY <1>5 DEF ReleaseAndPause, BeginPause, CommandRest, Runtime
<1>6. ASSUME NEW i \in Runtime, DrainSnapshot(i) PROVE CommandRest'
  BY SMTT(30), <1>5, <1>6 DEF DrainSnapshot, CommandRest
<1>7. ASSUME NEW i \in Runtime, DrainAdmit(i) PROVE CommandRest'
  BY Zenon, <1>5, <1>7 DEF DrainAdmit, CommandRest
<1>8. ASSUME NEW i \in Runtime, HoldMessage(i) PROVE CommandRest'
  <2>1. cmd' \in {cmd, NoCommand} /\ Disturb /\ UNCHANGED <<drains, closing>> /\ (UNCHANGED pausing \/ ReleaseAndPause(i))
    BY <1>8 DEF HoldMessage
  <2>2. QED
    BY SMTT(30), <1>2, <1>4, <1>5, <2>1 DEF CommandRest
<1>9. ASSUME NEW i \in Runtime, SettleMessage(i) PROVE CommandRest'
  <2>1. cmd' \in {cmd, NoCommand} /\ UNCHANGED <<drains, closing, trouble>> /\ (UNCHANGED pausing \/ ReleaseAndPause(i))
    BY Zenon, <1>9 DEF SettleMessage
  <2>2. QED
    BY <1>4, <1>5, <2>1 DEF CommandRest
<1>10. ASSUME NEW i \in Runtime, SteerAdmit(i) PROVE CommandRest'
  BY <1>4, <1>10 DEF SteerAdmit, CommandRest
<1>11. ASSUME NEW i \in Runtime, EventPauses(i) PROVE CommandRest'
  BY <1>11 DEF EventPauses, BeginPause, CommandRest, Runtime
<1>12. ASSUME NEW i \in Runtime, EventApplies(i) PROVE CommandRest'
  BY SMTT(30), <1>3, <1>12 DEF EventApplies, CommandRest
<1>13. ASSUME BeginStop PROVE CommandRest'
  BY SMTT(30), <1>1, <1>2, <1>13 DEF BeginStop, BeginPause, CommandRest
<1>14. ASSUME BeginClose PROVE CommandRest'
  BY <1>2, <1>14 DEF BeginClose, BeginPause, CommandRest
<1>15. ASSUME Withdraw \/ Retire PROVE CommandRest'
  BY <1>1, <1>15 DEF Withdraw, Retire, CommandRest
<1>16. ASSUME SendLook \/ Unpause \/ StopTurn \/ DrainStart PROVE CommandRest'
  <2>1. /\ cmd' \in {cmd, NoCommand, [cmd EXCEPT !.op = "unpause"]} /\ UNCHANGED <<pausing, closing, trouble>>
        /\ StartDrain \/ UNCHANGED drains \/ (drains > 0 /\ drains' = drains - 1)
    BY <1>16 DEF SendLook, Unpause, StopTurn, DrainStart
  <2>2. QED
    BY <1>3, <1>4, <2>1 DEF CommandRest
<1>17. ASSUME Resume \/ \E m \in Msg : Send(m) PROVE CommandRest'
  <2>1. /\ cmd' \in {cmd, [op |-> "look", msg |-> NoMsg, on |-> live], [op |-> "unpause", msg |-> NoMsg, on |-> live]}
        /\ UNCHANGED <<drains, pausing, closing, trouble>>
    BY Zenon, <1>17 DEF Resume, Send
  <2>2. QED
    BY <1>1, <2>1 DEF CommandRest
<1>18. ASSUME NEW m \in Msg, NEW new \in BOOLEAN, Steer(m, new) PROVE CommandRest'
  <2>1. cmd' \in {cmd, [op |-> "steer", msg |-> m, on |-> live]} /\ UNCHANGED <<drains, pausing, closing, trouble>>
    BY <1>18 DEF Steer
  <2>2. QED
    BY <1>1, <2>1 DEF CommandRest
<1>19. ASSUME Restart PROVE CommandRest'
  BY <1>2, <1>4, <1>19 DEF Restart, CommandRest
<1>20. ASSUME Compact \/ DirectSend \/ \E i \in Runtime : NativeDeclines(i) \/ NativeExits(i) PROVE CommandRest'
  BY SMTT(30), <1>2, <1>20 DEF Compact, DirectSend, NativeDeclines, NativeExits, CommandRest
<1>21. ASSUME Open \/ (\E who \in pausing : PauseRecord(who)) \/ \E m \in Msg : Edit(m) \/ Remove(m) PROVE CommandRest'
  BY Zenon, <1>21 DEF Open, PauseRecord, Edit, Remove, CommandRest
<1>22. ASSUME NEW i \in Runtime,
              DrainCheck(i) \/ SendPrompt(i) \/ Harness(i) \/ NativeFinishes(i) \/ \E m \in Msg : NativeTakesLate(i, m)
       PROVE  CommandRest'
  BY Zenon, <1>22 DEF DrainCheck, SendPrompt, Harness, NativeTakes, NativeRefuses, NativeFinishes, NativeTakesLate, CommandRest
<1>23. QED
  BY <1>6, <1>7, <1>8, <1>9, <1>10, <1>11, <1>12, <1>13, <1>14, <1>15, <1>16, <1>17, <1>18, <1>19, <1>20, <1>21, <1>22
     DEF Next, Host, Person, Mishap, Task, Forwarder, Harness

LEMMA TextRestNext == ASSUME DeliveryInv, TextRest, Next PROVE TextRest'
<1> USE ComposerConstants
<1>1. text' \in [Msg -> 0..MaxEdits]
  <2>1. ASSUME NEW k \in Msg, Edit(k) PROVE text' \in [Msg -> 0..MaxEdits]
    <3>1. text[k] \in 0..MaxEdits /\ text[k] < MaxEdits /\ text' \in {text, [text EXCEPT ![k] = @ + 1]}
      BY Zenon, <2>1 DEF Edit, TextRest
    <3>2. QED
      BY SMTT(30), <3>1 DEF TextRest
  <2>2. QED
    BY <2>1, EditOnly DEF TextRest
<1>2. ASSUME NEW i \in Runtime PROVE holder'[i].body \in 0..MaxEdits
  <2>1. CASE Proceeds(i)
    <3>1. holder[i].pc = "admit" => holder[i].msg \in Msg
      BY SMTT(30) DEF DeliveryInv, CarrierKnown
    <3>2. QED
      BY <2>1, <3>1 DEF Proceeds, TextRest
  <2>2. CASE UNCHANGED holder[i] \/ Rests(i) \/ Chooses(i) \/ Steers(i)
    BY SMTT(30), <2>2 DEF Rests, Chooses, Steers, TextRest
  <2>3. QED
    BY <2>1, <2>2, TaskMoves
<1>3. QED
  BY <1>1, <1>2 DEF TextRest

\* Well formed event queues: a mark is first and has its event behind it.
Event == Outcome \cup {"idle", "exit", "paused"}
Marked(s) == \A n \in 1..Len(s) : s[n] = "paused" => n = 1 /\ Len(s) > 1

LEMMA MarkedAppend ==
  ASSUME NEW s \in Seq(Event), Marked(s), NEW e \in Event, e # "paused"
  PROVE  Append(s, e) \in Seq(Event) /\ Marked(Append(s, e))
BY DEF Marked

LEMMA MarkedTurn ==
  ASSUME NEW s \in Seq(Event), Marked(s), NEW e \in Outcome
  PROVE  s \o <<e, "idle">> \in Seq(Event) /\ Marked(s \o <<e, "idle">>)
<1>1. e \in Event /\ "idle" \in Event /\ e # "paused"
  BY DEF Event, Outcome
<1>2. <<e, "idle">> \in Seq(Event) /\ Len(<<e, "idle">>) = 2
  BY <1>1
<1> DEFINE t == s \o <<e, "idle">>
<1>3. /\ t \in Seq(Event) /\ Len(t) = Len(s) + 2 /\ Len(s) \in Nat
      /\ \A n \in 1..Len(t) : t[n] = IF n <= Len(s) THEN s[n] ELSE <<e, "idle">>[n - Len(s)]
  BY <1>2
<1>4. \A n \in 1..Len(t) : n <= Len(s) \/ n - Len(s) = 1 \/ n - Len(s) = 2
  BY <1>3
<1>5. \A n \in 1..Len(t) : t[n] = "paused" => n \in 1..Len(s) /\ s[n] = "paused"
  BY <1>1, <1>3, <1>4
<1> HIDE DEF t
<1>6. t \in Seq(Event) /\ Marked(t)
  BY <1>3, <1>5 DEF Marked
<1>7. QED
  BY <1>6 DEF t

LEMMA MarkedMark ==
  ASSUME NEW s \in Seq(Event), Marked(s), s # <<>>, Head(s) # "paused"
  PROVE  <<"paused">> \o s \in Seq(Event) /\ Marked(<<"paused">> \o s)
<1>1. "paused" \in Event /\ <<"paused">> \in Seq(Event) /\ Len(<<"paused">>) = 1
  BY DEF Event
<1>2. Len(s) \in Nat /\ Len(s) > 0 /\ Head(s) = s[1]
  OBVIOUS
<1> DEFINE t == <<"paused">> \o s
<1>3. t \in Seq(Event) /\ Len(t) = Len(s) + 1 /\ \A n \in 1..Len(t) : n = 1 \/ (n - 1 \in 1..Len(s) /\ t[n] = s[n - 1])
  BY <1>1, <1>2
<1>4. \A n \in 1..Len(s) : s[n] # "paused"
  BY <1>2 DEF Marked
<1> HIDE DEF t
<1>5. t \in Seq(Event) /\ Marked(t)
  BY <1>2, <1>3, <1>4 DEF Marked
<1>6. QED
  BY <1>5 DEF t

LEMMA MarkedApplied ==
  ASSUME NEW s \in Seq(Event), Marked(s), s # <<>>, NEW t, t = IF Head(s) = "paused" THEN Tail(Tail(s)) ELSE Tail(s)
  PROVE  t \in Seq(Event) /\ Marked(t)
<1>1. Len(s) \in Nat /\ Len(s) > 0 /\ Head(s) = s[1]
  OBVIOUS
<1>2. /\ Tail(s) \in Seq(Event) /\ Len(Tail(s)) = Len(s) - 1
      /\ \A n \in 1..Len(Tail(s)) : Tail(s)[n] = s[n + 1] /\ n + 1 \in 1..Len(s) /\ n + 1 # 1
  BY <1>1
<1>3. \A n \in 1..Len(Tail(s)) : Tail(s)[n] # "paused"
  BY <1>2 DEF Marked
<1>4. CASE Head(s) # "paused"
  BY <1>2, <1>3, <1>4 DEF Marked
<1>5. CASE Head(s) = "paused"
  <2>1. Len(s) > 1
    BY <1>1, <1>5 DEF Marked
  <2>2. Tail(s) # <<>>
    BY <1>1, <1>2, <2>1
  <2>3. /\ Tail(Tail(s)) \in Seq(Event) /\ Len(Tail(Tail(s))) = Len(Tail(s)) - 1
        /\ \A n \in 1..Len(Tail(Tail(s))) : Tail(Tail(s))[n] = Tail(s)[n + 1] /\ n + 1 \in 1..Len(Tail(s))
    BY <1>2, <2>2
  <2>4. QED
    BY <1>3, <1>5, <2>3 DEF Marked
<1>6. QED
  BY <1>4, <1>5

LEMMA EventRestNext == ASSUME DeliveryInv, CommandRest, EventRest, Next PROVE EventRest'
<1> USE ComposerConstants
<1>1. events \in [Runtime -> Seq(Event)] /\ \A i \in Runtime : Marked(events[i])
  BY DEF EventRest, Event, Marked
<1> DEFINE Goal == events' \in [Runtime -> Seq(Event)] /\ \A i \in Runtime : Marked(events[i])'
<1>2. ASSUME NEW i, NEW s, events' = [events EXCEPT ![i] = s], i \in Runtime => s \in Seq(Event) /\ Marked(s) PROVE Goal
  <2>1. \A k \in Runtime : events'[k] = IF k = i THEN s ELSE events[k]
    BY <1>1, <1>2
  <2>2. \A k \in Runtime : events'[k] \in Seq(Event) /\ Marked(events'[k])
    BY <1>1, <1>2, <2>1
  <2>3. events' = [k \in Runtime |-> events'[k]]
    BY Zenon, <1>1, <1>2
  <2>4. QED
    BY <2>2, <2>3 DEF Marked
<1>3. ASSUME NEW i, NEW e \in Outcome, EndTurn(i, e) PROVE Goal
  BY Zenon, <1>1, <1>2, <1>3, MarkedTurn DEF EndTurn
<1>4. ASSUME NEW i, NEW e \in {"idle", "exit"}, events' = [events EXCEPT ![i] = Append(@, e)] PROVE Goal
  BY Zenon, <1>1, <1>2, <1>4, MarkedAppend DEF Event
<1>5. ASSUME NEW i \in Runtime, EventPauses(i) PROVE Goal
  <2>1. events[i] # <<>> /\ Head(events[i]) # "paused" /\ events' = [events EXCEPT ![i] = <<"paused">> \o @]
    BY <1>5 DEF EventPauses, MustPause
  <2>2. QED
    BY <1>1, <1>2, <2>1, MarkedMark
<1>6. ASSUME NEW i \in Runtime, EventApplies(i) PROVE Goal
  <2>1. events[i] # <<>> /\ events' = [events EXCEPT ![i] = Applied(i)]
    BY <1>6 DEF EventApplies
  <2>2. Applied(i) \in Seq(Event) /\ Marked(Applied(i))
    BY Zenon, <1>1, <2>1, MarkedApplied DEF Applied
  <2>3. QED
    BY Zenon, <1>2, <2>1, <2>2
<1>7. <<>> \in Seq(Event) /\ Marked(<<>>)
  BY DEF Marked
<1>8. ASSUME Restart \/ Retire PROVE Goal
  <2>1. CASE Retire
    BY Zenon, <1>2, <1>7, <2>1 DEF Retire
  <2>2. CASE Restart
    BY <1>7, <2>2 DEF Restart, Marked
  <2>3. QED
    BY <1>8, <2>1, <2>2
<1>9. ASSUME UNCHANGED events PROVE Goal
  BY <1>1, <1>9 DEF Marked
<1>10. ASSUME StopTurn PROVE Goal
  BY <1>3, <1>9, <1>10 DEF StopTurn, Outcome
<1>11. ASSUME NEW i \in Runtime, NativeFinishes(i) \/ NativeExits(i) PROVE Goal
  <2>1. \/ \E e \in Outcome : EndTurn(i, e)
        \/ \E e \in {"idle", "exit"} : events' = [events EXCEPT ![i] = Append(@, e)]
        \/ events' = [events EXCEPT ![i] = @]
    BY <1>11 DEF NativeFinishes, NativeExits, Outcome
  <2>2. events' = [events EXCEPT ![i] = @] => UNCHANGED events
    BY SMTT(30), <1>1
  <2>3. QED
    BY <1>3, <1>4, <1>9, <2>1, <2>2
<1>12. ASSUME \/ SendLook \/ Unpause \/ Withdraw \/ DrainStart \/ Resume \/ Compact \/ BeginStop \/ BeginClose \/ Open
              \/ DirectSend \/ \E who \in pausing : PauseRecord(who)
              \/ \E m \in Msg : Send(m) \/ Edit(m) \/ Remove(m) \/ \E new \in BOOLEAN : Steer(m, new)
       PROVE  UNCHANGED events
  BY Zenon, <1>12 DEF SendLook, Unpause, Withdraw, DrainStart, Resume, Compact, BeginStop, BeginClose, Open, DirectSend,
               PauseRecord, Send, Edit, Remove, Steer, runtimes
<1>13. ASSUME NEW i \in Runtime,
              Task(i) \/ Harness(i) \/ HoldMessage(i) \/ NativeDeclines(i) \/ \E m \in Msg : NativeTakesLate(i, m)
       PROVE  UNCHANGED events
  BY Zenon, <1>13 DEF Task, DrainCheck, DrainSnapshot, DrainAdmit, SendPrompt, SettleMessage, SteerAdmit, Harness, NativeTakes,
               NativeRefuses, HoldMessage, NativeDeclines, NativeTakesLate, runtimes
<1> HIDE DEF Goal
<1>14. Goal
  BY <1>5, <1>6, <1>8, <1>9, <1>10, <1>11, <1>12, <1>13 DEF Next, Host, Person, Mishap, Forwarder
<1>15. QED
  BY <1>14 DEF Goal, EventRest, Event, Marked

LEMMA RestInit == Init => RestOK
<1> SUFFICES ASSUME Init PROVE RestOK
  OBVIOUS
<1> USE ComposerConstants
<1>1. QueueRest /\ RuntimeRest
  <2>1. QueueRest
    <3>1. paused \in BOOLEAN
      BY Zenon DEF Init
    <3>2. faults \in 0..MaxFaults /\ parked \subseteq Msg
      BY DEF Init
    <3>3. QED
      BY <3>1, <3>2 DEF QueueRest
  <2>2. /\ flag \in [Runtime -> BOOLEAN]
        /\ native \in [Runtime -> {"idle", "running", "compacting", "dead"}]
    BY DEF Init
  <2>3. waiting \in [Runtime -> Nat \cup {-1}]
    BY DEF Init
  <2>4. QED
    BY <2>1, <2>2, <2>3 DEF RuntimeRest
<1>2. CommandRest
  BY SMTT(30) DEF Init, CommandRest, NoCommand
<1>3. TextRest
  BY DEF Init, TextRest, Free
<1>4. EventRest
  <2>1. \A i \in Runtime : events[i] = <<>> /\ Len(events[i]) = 0
    BY DEF Init
  <2>2. events \in [Runtime -> Seq(Outcome \cup {"idle", "exit", "paused"})]
    BY DEF Init
  <2>3. QED
    BY <2>1, <2>2 DEF EventRest
<1>5. QED
  BY <1>1, <1>2, <1>3, <1>4 DEF RestOK

LEMMA RestNext == DeliveryInv /\ RestOK /\ [Next]_vars => RestOK'
<1> SUFFICES ASSUME DeliveryInv, RestOK, [Next]_vars PROVE RestOK'
  OBVIOUS
<1>1. CASE Next
  BY SMTT(30), <1>1, QueueRestNext, RuntimeRestNext, CommandRestNext, TextRestNext, EventRestNext DEF RestOK
<1>2. CASE UNCHANGED vars
  <2>1. UNCHANGED <<paused, faults, parked, flag, waiting, native, events, drains, cmd, pausing, closing, trouble, text, holder>>
    BY SMTT(30), <1>2 DEF vars, queue, runtimes, observed
  <2>2. QED
    BY Zenon, <2>1 DEF RestOK, QueueRest, RuntimeRest, CommandRest, TextRest, EventRest
<1>3. QED
  BY <1>1, <1>2

LEMMA TypesHold == DeliveryInv /\ OutboxOK /\ RestOK => TypeOK
<1> SUFFICES ASSUME DeliveryInv, OutboxOK, RestOK PROVE TypeOK
  OBVIOUS
<1> DEFINE Short == [pc : {"free", "check", "snapshot", "admit", "images", "prompt", "settle"},
                     kind : {"drain", "steer"}, msg : Msg \cup {NoMsg}, body : 0..MaxEdits,
                     since : Nat, answer : {"none", "accepted", "rejected", "unknown"}]
<1>1. holder \in [Runtime -> Short]
  <2>1. ASSUME NEW i \in Runtime PROVE holder[i] \in Short
    <3>1. holder[i] \in Holder /\ holder[i].body \in 0..MaxEdits
      BY DEF DeliveryInv, CarryTypes, RestOK, TextRest
    <3>2. QED
      BY <3>1 DEF Holder
  <2>2. QED
    BY <2>1 DEF DeliveryInv, CarryTypes
<1>2. QED
  BY Zenon, <1>1 DEF TypeOK, DeliveryInv, CarryTypes, OutboxOK, RestOK, QueueRest, RuntimeRest, CommandRest, TextRest, EventRest

(***************************************************************************)
(* What a pause holds, where no save fails: with a failed save the record  *)
(* and the tasks may disagree (a failed settlement leaves a message        *)
(* Sending with no task), and the three properties below do not hold.      *)
(* PausedWorkWaits rests on parked messages that wait being paused, and    *)
(* NoHiddenHold on what the command in progress is about to do.            *)
(***************************************************************************)
ParkedHeld == \A m \in parked : status[m] # "Absent" /\ (status[m] = "Queued" => paused)

SteerKnown ==
  \A i \in Runtime : holder[i].kind = "steer" => cmd = [op |-> "steer", msg |-> holder[i].msg, on |-> i]

CommandKnown ==
  /\ cmd.op = "none" => cmd = NoCommand
  /\ cmd.op # "none" => live \in {0, cmd.on}
  /\ \A i \in Runtime : i > opened => ~flag[i]

\* A running record whose runtime is flagged has nothing to hold, but for what a
\* Send or a Resume is about to release and the message a steer is about to take.
NothingHidden ==
  live # 0 /\ flag[live] /\ ~paused /\ pausing = {} =>
    /\ cmd.op \in {"none", "stop"} => InStatus({"Queued"}) = {}
    /\ cmd.op = "steer" => InStatus({"Queued"}) \subseteq {cmd.msg}

HoldInv == ParkedHeld /\ PausedWorkWaits /\ SendingIsOwned /\ SteerKnown /\ CommandKnown /\ NothingHidden

\* Where no save may fail, change_queue does what it is asked.
LEMMA SavesSucceed ==
  ASSUME MaxFaults = 0, QueueRest, NEW st, NEW pa, NEW saved \in BOOLEAN, ChangeQueue(st, pa, saved)
  PROVE  saved /\ status' = st /\ paused' = pa
BY SMTT(30) DEF QueueRest, ChangeQueue

\* What the steps that change the record do to it.
LEMMA AdmitEffect ==
  ASSUME MaxFaults = 0, RestOK, NEW i \in Runtime, DrainAdmit(i) \/ SteerAdmit(i)
  PROVE  /\ holder[i].pc = "admit" /\ UNCHANGED <<paused, parked, live, opened>>
         /\ \/ /\ UNCHANGED status /\ Release(i)
               /\ holder[i].kind = "drain" => UNCHANGED cmd /\ ((UNCHANGED <<pausing, flag>>) \/ pausing' # {})
               /\ holder[i].kind = "steer" => cmd' = NoCommand /\ status[holder[i].msg] # "Queued" /\ UNCHANGED <<pausing, flag>>
            \/ /\ status[holder[i].msg] = "Queued" /\ status' = Deliver(holder[i].msg, "Sending")
               /\ Holds(i, Admitted(i)) /\ UNCHANGED <<cmd, pausing, flag>>
               /\ holder[i].kind = "drain" => ~paused
<1>0. QueueRest
  BY SMTT(30) DEF RestOK
<1>1. CASE DrainAdmit(i)
  <2>1. holder[i].pc = "admit" /\ holder[i].kind = "drain" /\ UNCHANGED <<parked, live, opened, cmd>>
    BY Zenon, <1>1 DEF DrainAdmit, At, observed
  <2>2. CASE UNCHANGED <<status, paused>> /\ Release(i) /\ (UNCHANGED <<pausing, flag>> \/ pausing' # {})
    BY Zenon, <2>1, <2>2
  <2>3. ASSUME NEW saved \in BOOLEAN, ChangeQueue(Deliver(holder[i].msg, "Sending"), paused, saved), MayAdmit(i),
               IF saved THEN Holds(i, Admitted(i)) /\ UNCHANGED <<pausing, flag>> ELSE ReleaseAndPause(i)
        PROVE  /\ ~paused /\ status[holder[i].msg] = "Queued" /\ status' = Deliver(holder[i].msg, "Sending")
               /\ UNCHANGED paused /\ Holds(i, Admitted(i)) /\ UNCHANGED <<pausing, flag>>
    <3>1. saved /\ status' = Deliver(holder[i].msg, "Sending") /\ paused' = paused
      BY SMTT(30), <1>0, <2>3, SavesSucceed
    <3>2. QED
      BY Zenon, <2>3, <3>1 DEF MayAdmit
  <2>4. QED
    BY Zenon, <1>1, <2>1, <2>2, <2>3 DEF DrainAdmit, ReleaseAndPause, BeginPause
<1>2. CASE SteerAdmit(i)
  <2>1. holder[i].pc = "admit" /\ holder[i].kind = "steer" /\ UNCHANGED <<parked, live, opened, pausing, flag>>
    BY Zenon, <1>2 DEF SteerAdmit, At, observed, runtimes
  <2>2. ASSUME NEW saved \in BOOLEAN, ChangeQueue(Deliver(holder[i].msg, "Sending"), paused, saved),
               IF saved THEN Holds(i, Admitted(i)) /\ UNCHANGED cmd ELSE Release(i) /\ cmd' = NoCommand
        PROVE  status' = Deliver(holder[i].msg, "Sending") /\ UNCHANGED paused /\ Holds(i, Admitted(i)) /\ UNCHANGED cmd
    <3>1. saved /\ status' = Deliver(holder[i].msg, "Sending") /\ paused' = paused
      BY SMTT(30), <1>0, <2>2, SavesSucceed
    <3>2. QED
      BY <2>2, <3>1
  <2>3. CASE status[holder[i].msg] # "Queued"
    BY Zenon, <1>2, <2>1, <2>3 DEF SteerAdmit
  <2>4. CASE status[holder[i].msg] = "Queued"
    BY Zenon, <1>2, <2>1, <2>2, <2>4 DEF SteerAdmit
  <2>5. QED
    BY Zenon, <2>3, <2>4
<1>3. QED
  BY Zenon, <1>1, <1>2

\* A settled or held message leaves its task; what is not delivered is put on
\* hold with the rest of the queue.
LEMMA SettleEffect ==
  ASSUME MaxFaults = 0, DeliveryInv, RestOK, NEW i \in Runtime, SettleMessage(i) \/ HoldMessage(i)
  PROVE  /\ InFlight(i) /\ UNCHANGED <<live, opened>> /\ Rests(i) /\ Moves(i)
         /\ cmd' = IF holder[i].kind = "steer" THEN NoCommand ELSE cmd
         /\ (UNCHANGED <<pausing, flag>>) \/ pausing' # {}
         /\ \/ status' = Deliver(holder[i].msg, "Sent") /\ UNCHANGED <<paused, parked>>
            \/ \E d \in {"Queued", "Uncertain"} : status' = Deliver(holder[i].msg, d) /\ paused' = TRUE /\ Hold
<1>0. QueueRest /\ CarryTypes
  BY SMTT(30) DEF RestOK, DeliveryInv
<1>1. CASE HoldMessage(i)
  <2>1. PICK saved \in BOOLEAN : /\ ChangeQueue(Held(holder[i].msg), TRUE, saved)
                                 /\ IF ~saved /\ holder[i].kind = "drain" THEN ReleaseAndPause(i)
                                    ELSE Release(i) /\ UNCHANGED <<pausing, flag>>
    BY Zenon, <1>1 DEF HoldMessage
  <2>2. saved /\ status' = Deliver(holder[i].msg, "Queued") /\ paused' = TRUE
    BY Zenon, <1>0, <2>1, SavesSucceed DEF Held
  <2>3. Release(i) /\ UNCHANGED <<pausing, flag>>
    BY SMTT(30), <2>1, <2>2
  <2>4. Rests(i) /\ Moves(i)
    BY Zenon, <1>0, <2>3, ReleaseMove, OneMoves, FreeFields DEF Release, Rests
  <2>5. InFlight(i) /\ UNCHANGED <<live, opened>> /\ Hold /\ cmd' = IF holder[i].kind = "steer" THEN NoCommand ELSE cmd
    BY Zenon, <1>1 DEF HoldMessage, InFlight
  <2>6. QED
    BY Zenon, <2>2, <2>3, <2>4, <2>5
<1>2. CASE SettleMessage(i)
  <2> DEFINE a == holder[i].answer
  <2>1. PICK saved \in BOOLEAN :
          /\ ChangeQueue(Deliver(holder[i].msg, Settled(a)), paused \/ a # "accepted", saved)
          /\ \/ saved /\ Holds(i, [Free EXCEPT !.pc = "check"]) /\ UNCHANGED <<pausing, flag>>
             \/ ReleaseAndPause(i)
             \/ Release(i) /\ UNCHANGED <<pausing, flag>>
    BY Zenon, <1>2 DEF SettleMessage
  <2>2. status' = Deliver(holder[i].msg, Settled(a)) /\ paused' = (paused \/ a # "accepted")
    BY <1>0, <2>1, SavesSucceed
  <2>3. Rests(i) /\ Moves(i)
    <3>1. CASE Release(i)
      BY Zenon, <1>0, <3>1, ReleaseMove, OneMoves, FreeFields DEF Release, Rests
    <3>2. CASE Holds(i, [Free EXCEPT !.pc = "check"])
      BY Zenon, <1>0, <3>2, CheckMove DEF Holds, Rests, Free, CarryTypes
    <3>3. QED
      BY <2>1, <3>1, <3>2 DEF ReleaseAndPause
  <2>4. (UNCHANGED <<pausing, flag>>) \/ pausing' # {}
    BY Zenon, <2>1 DEF ReleaseAndPause, BeginPause
  <2>5. /\ InFlight(i) /\ UNCHANGED <<live, opened>> /\ (IF a = "accepted" THEN UNCHANGED parked ELSE Hold)
        /\ cmd' = IF holder[i].kind = "drain" THEN cmd ELSE NoCommand
    BY <1>2 DEF SettleMessage, InFlight
  <2>6. holder[i].kind \in {"drain", "steer"} /\ a \in {"none", "accepted", "rejected", "unknown"}
    BY SMTT(30), <1>0 DEF CarryTypes, Holder
  <2>7. CASE a = "accepted"
    <3>1. Settled(a) = "Sent" /\ paused' = paused
      BY SMTT(30), <1>0, <2>2, <2>7 DEF Settled, QueueRest
    <3>2. QED
      BY Zenon, <2>2, <2>3, <2>4, <2>5, <2>6, <2>7, <3>1
  <2>8. CASE a # "accepted"
    <3>1. Settled(a) \in {"Queued", "Uncertain"} /\ paused' = TRUE
      BY Zenon, <2>2, <2>8 DEF Settled
    <3>2. QED
      BY Zenon, <2>2, <2>3, <2>4, <2>5, <2>6, <2>8, <3>1
  <2>9. QED
    BY Zenon, <2>7, <2>8
<1>3. QED
  BY Zenon, <1>1, <1>2

\* A task that keeps its message, or stays without one.
Flies(i) ==
  /\ InFlight(i)' <=> InFlight(i)
  /\ InFlight(i) => holder'[i].msg = holder[i].msg /\ holder'[i].kind = holder[i].kind
  /\ holder'[i].pc = "images" => holder[i].pc = "images"

\* Only an admission, a settlement, a hold and a restart change that.
LEMMA FlightStep ==
  ASSUME DeliveryInv, Next, NEW i \in Runtime
  PROVE  Flies(i) \/ DrainAdmit(i) \/ SteerAdmit(i) \/ SettleMessage(i) \/ HoldMessage(i) \/ Restart
<1>0. CarryTypes /\ holder \in [Runtime -> Holder]
  BY DEF DeliveryInv, CarryTypes
<1> DEFINE Goal == Flies(i) \/ DrainAdmit(i) \/ SteerAdmit(i) \/ SettleMessage(i) \/ HoldMessage(i) \/ Restart
<1>1. UNCHANGED holder[i] => Flies(i)
  BY DEF Flies, InFlight
<1>2. ASSUME NEW j \in Runtime, NEW h, Holds(j, h), j # i PROVE Goal
  BY SMTT(30), <1>0, <1>1, <1>2, OneMoves
<1>3. ~InFlight(i) /\ holder[i].pc # "admit" => Flies(i)
  BY Zenon, <1>1, TaskMoves DEF Flies, InFlight, Rests, Proceeds, Chooses, Steers
<1>4. ASSUME InFlight(i), InFlight(i)' PROVE Flies(i)
  BY Zenon, <1>1, <1>4, TaskMoves DEF Flies, InFlight, Rests, Proceeds, Chooses, Steers
<1>5. ASSUME NEW j \in Runtime, DrainCheck(j) \/ DrainSnapshot(j) PROVE Goal
  <2>1. /\ \E h : Holds(j, h)
        /\ ~InFlight(j) /\ holder[j].pc # "admit"
    BY Zenon, <1>5 DEF DrainCheck, DrainSnapshot, At, InFlight, Release, ReleaseAndPause
  <2>2. QED
    BY Zenon, <1>2, <1>3, <2>1
<1>6. ASSUME NEW j \in Runtime, SendPrompt(j) PROVE Goal
  <2>1. Holds(j, [holder[j] EXCEPT !.pc = "prompt"]) /\ holder[j].pc = "images"
    BY <1>6 DEF SendPrompt
  <2>2. InFlight(j) /\ InFlight(j)'
    BY <1>0, <2>1, PromptMove DEF InFlight
  <2>3. QED
    BY <1>2, <1>4, <2>1, <2>2
<1>7. ASSUME NEW j \in Runtime, NativeTakes(j) \/ NativeRefuses(j) \/ NativeDeclines(j) PROVE Goal
  <2>1. holder[j].pc = "prompt" /\ \E a \in {"accepted", "rejected", "unknown"} : Answered(j, a)
    BY Zenon, <1>7 DEF NativeTakes, NativeRefuses, NativeDeclines
  <2>2. InFlight(j) /\ InFlight(j)'
    BY <1>0, <2>1, AnswerMove DEF InFlight
  <2>3. \E h : Holds(j, h)
    BY <2>1 DEF Answered
  <2>4. QED
    BY SMTT(30), <1>2, <1>4, <2>2, <2>3
<1>8. ASSUME NEW j \in Runtime, DrainAdmit(j) \/ SteerAdmit(j) \/ SettleMessage(j) \/ HoldMessage(j) PROVE Goal
  <2>1. \E h : Holds(j, h)
    BY Zenon, <1>8 DEF DrainAdmit, SteerAdmit, SettleMessage, HoldMessage, Release, ReleaseAndPause
  <2>2. QED
    BY <1>2, <1>8, <2>1
<1>9. ASSUME DrainStart \/ \E m \in Msg, new \in BOOLEAN : Steer(m, new) PROVE Goal
  <2>1. UNCHANGED holder \/ (live # 0 /\ holder[live] = Free /\ \E h : Holds(live, h))
    BY Zenon, <1>9 DEF DrainStart, Steer, Ready
  <2>2. live # 0 => live \in Runtime
    BY <1>0, ComposerConstants DEF CarryTypes, Runtime
  <2>3. holder[live] = Free => ~InFlight(live) /\ holder[live].pc # "admit"
    BY FreeFields DEF InFlight
  <2>4. QED
    BY Zenon, <1>1, <1>2, <1>3, <2>1, <2>2, <2>3
<1>10. ASSUME \/ SendLook \/ Unpause \/ StopTurn \/ Withdraw \/ Retire \/ Resume \/ Compact \/ BeginStop
              \/ BeginClose \/ Open \/ DirectSend
              \/ \E who \in pausing : PauseRecord(who)
              \/ \E m \in Msg : Send(m) \/ Edit(m) \/ Remove(m)
       PROVE  UNCHANGED holder
  BY Zenon, <1>10 DEF SendLook, Unpause, StopTurn, Withdraw, Retire, Resume, Compact, BeginStop, BeginClose, Open,
               DirectSend, PauseRecord, Send, Edit, Remove
<1>11. ASSUME NEW j \in Runtime,
              Forwarder(j) \/ NativeFinishes(j) \/ NativeExits(j) \/ \E m \in Msg : NativeTakesLate(j, m)
       PROVE  UNCHANGED holder
  BY Zenon, <1>11 DEF Forwarder, EventPauses, EventApplies, NativeFinishes, NativeExits, NativeTakesLate
<1> HIDE DEF Goal
<1>12. Restart => Goal
  BY DEF Goal
<1>13. UNCHANGED holder => Goal
  BY SMTT(30), <1>1 DEF Goal
<1>14. Goal
  BY SMTT(30), <1>5, <1>6, <1>7, <1>8, <1>9, <1>10, <1>11, <1>12, <1>13 DEF Next, Host, Person, Mishap, Task, Harness
<1>15. QED
  BY <1>14 DEF Goal

WaitInv == ParkedHeld /\ PausedWorkWaits /\ SendingIsOwned

\* A message that was Sending stays with the task that carries it.
LEMMA SendingKept ==
  ASSUME SendingIsOwned, \A i \in Runtime : Flies(i),
         \A k \in Msg : status'[k] = "Sending" => status[k] = "Sending"
  PROVE  SendingIsOwned'
<1>1. SUFFICES ASSUME NEW m \in Msg, status'[m] = "Sending"
               PROVE  \E i \in Runtime : holder'[i].msg = m /\ holder'[i].pc \in {"images", "prompt", "settle"}
  BY Zenon DEF SendingIsOwned, InStatus
<1>2. m \in InStatus({"Sending"})
  BY <1>1 DEF InStatus
<1>3. PICK i \in Runtime : holder[i].msg = m /\ holder[i].pc \in {"images", "prompt", "settle"}
  BY Zenon, <1>2 DEF SendingIsOwned
<1>4. Flies(i) /\ InFlight(i)
  BY Zenon, <1>3 DEF InFlight
<1>5. holder'[i].msg = m /\ InFlight(i)'
  BY Zenon, <1>3, <1>4 DEF Flies
<1>6. QED
  BY Zenon, <1>5 DEF InFlight

LEMMA WaitQuiet ==
  ASSUME WaitInv, UNCHANGED <<status, paused, parked>>, \A i \in Runtime : Flies(i)
  PROVE  WaitInv'
<1>1. ParkedHeld'
  BY SMTT(30) DEF WaitInv, ParkedHeld
<1>2. PausedWorkWaits'
  BY Zenon DEF WaitInv, PausedWorkWaits, Flies, InFlight
<1>3. SendingIsOwned'
  BY SendingKept DEF WaitInv
<1>4. QED
  BY <1>1, <1>2, <1>3 DEF WaitInv

LEMMA WaitAdmit ==
  ASSUME MaxFaults = 0, DeliveryInv, RestOK, WaitInv, NEW i \in Runtime, DrainAdmit(i) \/ SteerAdmit(i)
  PROVE  WaitInv'
<1> DEFINE m == holder[i].msg
<1>0. CarryTypes /\ m \in Msg /\ status \in [Msg -> Delivery \cup {"Absent"}] /\ ~InFlight(i)
  BY AdmitEffect DEF DeliveryInv, CarryTypes, CarrierKnown, InFlight
<1>1. CASE UNCHANGED <<status, paused, parked>> /\ Release(i)
  <2>1. Moves(i) /\ holder'[i].pc = "free"
    BY SMTT(30), <1>0, <1>1, ReleaseMove
  <2>2. \A j \in Runtime : Flies(j)
    BY <1>0, <2>1 DEF Moves, Flies, InFlight
  <2>3. QED
    BY SMTT(30), <1>1, <2>2, WaitQuiet
<1>2. CASE /\ UNCHANGED <<paused, parked>> /\ status[m] = "Queued" /\ status' = Deliver(m, "Sending")
           /\ Holds(i, Admitted(i)) /\ (holder[i].kind = "drain" => ~paused)
  <2>1. status'[m] = "Sending" /\ \A k \in Msg : k # m => status'[k] = status[k]
    BY Zenon, <1>0, <1>2 DEF Deliver
  <2>2. Moves(i) /\ holder'[i].pc = "images" /\ holder'[i].msg = m
    BY Zenon, <1>0, <1>2, AdmitMove
  <2>3. holder'[i].kind = holder[i].kind
    BY SMTT(30), <1>0, <1>2 DEF CarryTypes, Holder, Holds, Admitted
  <2>4. ParkedHeld'
    BY Zenon, <1>0, <1>2, <2>1 DEF WaitInv, ParkedHeld, RestOK, QueueRest
  <2>5. PausedWorkWaits'
    <3>1. ASSUME NEW j \in Runtime, holder'[j].kind = "drain", holder'[j].pc = "images" PROVE holder'[j].msg \notin parked'
      <4>1. CASE j = i
        BY SMTT(30), <1>2, <2>2, <2>3, <3>1, <4>1 DEF WaitInv, ParkedHeld
      <4>2. CASE j # i
        BY Zenon, <1>2, <2>2, <3>1, <4>2 DEF Moves, WaitInv, PausedWorkWaits
      <4>3. QED
        BY SMTT(30), <4>1, <4>2
    <3>2. QED
      BY <3>1 DEF PausedWorkWaits
  <2>6. SendingIsOwned'
    <3>1. ASSUME NEW k \in Msg, status'[k] = "Sending"
          PROVE  \E j \in Runtime : holder'[j].msg = k /\ holder'[j].pc \in {"images", "prompt", "settle"}
      <4>1. CASE k = m
        BY SMTT(30), <2>2, <4>1
      <4>2. CASE k # m
        <5>1. PICK j \in Runtime : holder[j].msg = k /\ InFlight(j)
          BY <2>1, <3>1, <4>2 DEF WaitInv, SendingIsOwned, InStatus, InFlight
        <5>2. j # i
          BY <1>0, <5>1
        <5>3. QED
          BY SMTT(30), <2>2, <5>1, <5>2 DEF Moves, InFlight
      <4>3. QED
        BY SMTT(30), <4>1, <4>2
    <3>2. QED
      BY <3>1 DEF SendingIsOwned, InStatus
  <2>7. QED
    BY SMTT(30), <2>4, <2>5, <2>6 DEF WaitInv
<1>3. QED
  BY Zenon, <1>1, <1>2, AdmitEffect

LEMMA WaitSettle ==
  ASSUME MaxFaults = 0, DeliveryInv, RestOK, WaitInv, NEW i \in Runtime, SettleMessage(i) \/ HoldMessage(i)
  PROVE  WaitInv'
<1> DEFINE m == holder[i].msg
<1>0. CarryTypes /\ m \in Msg /\ status[m] = "Sending" /\ status \in [Msg -> Delivery \cup {"Absent"}]
      /\ \A j \in Runtime : j # i /\ InFlight(j) => holder[j].msg \in Msg /\ holder[j].msg # m /\ status[holder[j].msg] = "Sending"
  BY Zenon, SettleEffect DEF DeliveryInv, CarryTypes, CarriedOnce, CarriesAlone
<1>1. holder'[i].pc \in {"free", "check"} /\ \A j \in Runtime : j # i => holder'[j] = holder[j]
  BY Zenon, SettleEffect DEF Rests, Moves
<1>2. PICK d \in {"Sent", "Queued", "Uncertain"} :
        status' = Deliver(m, d) /\ (d = "Sent" => UNCHANGED <<paused, parked>>) /\ (d # "Sent" => paused' = TRUE /\ Hold)
  BY Zenon, SettleEffect
<1>3. status'[m] = d /\ \A k \in Msg : k # m => status'[k] = status[k]
  BY <1>0, <1>2 DEF Deliver
<1>4. parked \subseteq Msg
  BY DEF RestOK, QueueRest
<1>5. \A k \in parked' : k \in parked \/ (k \in Msg /\ status'[k] = "Queued" /\ paused' = TRUE)
  BY SMTT(30), <1>2 DEF Hold
<1>6. ParkedHeld'
  BY SMTT(30), <1>2, <1>3, <1>4, <1>5 DEF WaitInv, ParkedHeld
<1>7. PausedWorkWaits'
  <2>1. ASSUME NEW j \in Runtime, holder'[j].kind = "drain", holder'[j].pc = "images" PROVE holder'[j].msg \notin parked'
    <3>1. j # i /\ holder'[j] = holder[j] /\ InFlight(j)
      BY SMTT(30), <1>1, <2>1 DEF InFlight
    <3>2. holder[j].msg \notin parked
      BY Zenon, <2>1, <3>1 DEF WaitInv, PausedWorkWaits
    <3>3. status'[holder[j].msg] = "Sending"
      BY Zenon, <1>0, <1>3, <3>1
    <3>4. QED
      BY <1>5, <3>1, <3>2, <3>3
  <2>2. QED
    BY <2>1 DEF PausedWorkWaits
<1>8. SendingIsOwned'
  <2>1. ASSUME NEW k \in Msg, status'[k] = "Sending"
        PROVE  \E j \in Runtime : holder'[j].msg = k /\ holder'[j].pc \in {"images", "prompt", "settle"}
    <3>1. k # m /\ status[k] = "Sending"
      BY SMTT(30), <1>3, <2>1
    <3>2. PICK j \in Runtime : holder[j].msg = k /\ holder[j].pc \in {"images", "prompt", "settle"}
      BY <3>1 DEF WaitInv, SendingIsOwned, InStatus
    <3>3. QED
      BY SMTT(30), <1>1, <3>1, <3>2
  <2>2. QED
    BY SMTT(30), <2>1 DEF SendingIsOwned, InStatus
<1>9. QED
  BY SMTT(30), <1>6, <1>7, <1>8 DEF WaitInv

LEMMA WaitNext ==
  ASSUME MaxFaults = 0, DeliveryInv, RestOK, WaitInv, Next
  PROVE  WaitInv'
<1>0. QueueRest /\ status \in [Msg -> Delivery \cup {"Absent"}] /\ CarryTypes
  BY DEF RestOK, DeliveryInv, CarryTypes
<1>1. CASE Restart
  <2>1. \A i \in Runtime : holder'[i].pc = "free"
    BY <1>1, FreeFields DEF Restart
  <2>2. \A k \in Msg : status'[k] # "Sending" /\ (status'[k] = "Absent" <=> status[k] = "Absent")
                       /\ (status'[k] = "Queued" <=> status[k] = "Queued")
    BY <1>0, <1>1 DEF Restart, Recover
  <2>3. \A k \in parked' : k \in Msg /\ (k \in parked \/ status'[k] = "Queued")
    BY <1>0, <1>1 DEF Restart, Hold, QueueRest
  <2>4. \A k \in Msg : status[k] = "Queued" => paused'
    BY Zenon, <1>1 DEF Restart, Pending, InStatus
  <2>5. ParkedHeld'
    BY <2>2, <2>3, <2>4 DEF WaitInv, ParkedHeld
  <2>6. PausedWorkWaits' /\ SendingIsOwned'
    BY <2>1, <2>2 DEF PausedWorkWaits, SendingIsOwned, InStatus
  <2>7. QED
    BY <2>5, <2>6 DEF WaitInv
<1>2. CASE \E i \in Runtime : DrainAdmit(i) \/ SteerAdmit(i)
  BY <1>2, WaitAdmit
<1>3. CASE \E i \in Runtime : SettleMessage(i) \/ HoldMessage(i)
  BY <1>3, WaitSettle
<1> DEFINE Apart == ~Restart /\ \A i \in Runtime : ~DrainAdmit(i) /\ ~SteerAdmit(i) /\ ~SettleMessage(i) /\ ~HoldMessage(i)
<1>4. ASSUME Apart PROVE \A i \in Runtime : Flies(i)
  BY <1>4, FlightStep
<1>5. ASSUME Apart, NEW who \in pausing, PauseRecord(who) PROVE WaitInv'
  <2>1. UNCHANGED <<status, paused, parked>> \/ (UNCHANGED status /\ paused' = TRUE /\ Hold)
    BY Zenon, <1>0, <1>5, SavesSucceed DEF PauseRecord
  <2>2. UNCHANGED holder
    BY <1>5 DEF PauseRecord
  <2>3. CASE UNCHANGED <<status, paused, parked>>
    BY <1>4, <1>5, <2>3, WaitQuiet
  <2>4. CASE UNCHANGED status /\ paused' = TRUE /\ Hold
    <3>1. \A k \in parked' : k \in parked \/ (k \in Msg /\ status[k] = "Queued")
      BY <2>4 DEF Hold
    <3>2. ParkedHeld'
      BY SMTT(30), <2>4, <3>1 DEF WaitInv, ParkedHeld
    <3>3. \A i \in Runtime : InFlight(i) => status[holder[i].msg] = "Sending"
      BY DEF DeliveryInv, CarriedOnce, CarriesAlone
    <3>4. PausedWorkWaits'
      BY <2>2, <3>1, <3>3 DEF WaitInv, PausedWorkWaits, InFlight
    <3>5. SendingIsOwned'
      BY <2>2, <2>4 DEF WaitInv, SendingIsOwned, InStatus
    <3>6. QED
      BY <3>2, <3>4, <3>5 DEF WaitInv
  <2>5. QED
    BY Zenon, <2>1, <2>3, <2>4
<1>6. ASSUME Apart, NEW m \in Msg, NEW d \in {"Queued", "Cancelled"}, status' = Deliver(m, d),
             status[m] \in {"Absent", "Queued", "Uncertain"}, d = "Queued" => status[m] = "Absent",
             UNCHANGED paused, parked' \in {parked, parked \ {m}}
      PROVE  WaitInv'
  <2>1. status'[m] = d /\ \A k \in Msg : k # m => status'[k] = status[k]
    BY <1>0, <1>6 DEF Deliver
  <2>2. ParkedHeld'
    BY <1>0, <1>6, <2>1 DEF WaitInv, ParkedHeld, QueueRest
  <2>3. \A i \in Runtime : Flies(i)
    BY SMTT(30), <1>4, <1>6
  <2>4. PausedWorkWaits'
    BY Zenon, <1>6, <2>3 DEF WaitInv, PausedWorkWaits, Flies, InFlight
  <2>5. SendingIsOwned'
    BY <1>6, <2>1, <2>3, SendingKept DEF WaitInv
  <2>6. QED
    BY <2>2, <2>4, <2>5 DEF WaitInv
<1>7. ASSUME Apart, UNCHANGED <<status, paused>>, parked' \subseteq parked PROVE WaitInv'
  <2>1. \A i \in Runtime : Flies(i)
    BY <1>4, <1>7
  <2>2. ParkedHeld'
    BY SMTT(30), <1>7 DEF WaitInv, ParkedHeld
  <2>3. PausedWorkWaits'
    BY Zenon, <1>7, <2>1 DEF WaitInv, PausedWorkWaits, Flies, InFlight
  <2>4. SendingIsOwned'
    BY <1>7, <2>1, SendingKept DEF WaitInv
  <2>5. QED
    BY <2>2, <2>3, <2>4 DEF WaitInv
<1>8. ASSUME Apart, NEW m \in Msg, NEW saved \in BOOLEAN, Enqueue(m, saved), parked' \in {parked, parked \ {m}} PROVE WaitInv'
  <2>1. CASE status[m] = "Absent"
    <3>1. status' = Deliver(m, "Queued") /\ paused' = paused
      BY <1>0, <1>8, <2>1, SavesSucceed DEF Enqueue
    <3>2. QED
      BY <1>6, <1>8, <2>1, <3>1
  <2>2. CASE status[m] # "Absent"
    <3>1. UNCHANGED <<status, paused>> /\ parked' \subseteq parked
      BY <1>8, <2>2 DEF Enqueue
    <3>2. QED
      BY <1>7, <1>8, <3>1
  <2>3. QED
    BY <2>1, <2>2
<1>9. ASSUME Apart, NEW m \in Msg, Send(m) PROVE WaitInv'
  <2>1. UNCHANGED parked /\ \E saved \in BOOLEAN : Enqueue(m, saved)
    BY <1>9 DEF Send, observed
  <2>2. QED
    BY <1>8, <1>9, <2>1
<1>10. ASSUME Apart, NEW m \in Msg, NEW new \in BOOLEAN, Steer(m, new) PROVE WaitInv'
  <2>1. parked' = parked \ {m} /\ (UNCHANGED <<status, paused>> \/ \E saved \in BOOLEAN : Enqueue(m, saved))
    BY <1>10 DEF Steer
  <2>2. QED
    BY <1>7, <1>8, <1>10, <2>1
<1>11. ASSUME Apart, NEW m \in Msg, Remove(m) PROVE WaitInv'
  <2>1. status' = Deliver(m, "Cancelled") /\ UNCHANGED <<paused, parked>> /\ status[m] \in {"Queued", "Uncertain"}
    BY <1>0, <1>11, SavesSucceed DEF Remove, observed
  <2>2. QED
    BY <1>6, <1>11, <2>1
<1>12. ASSUME Apart, Resume PROVE WaitInv'
  <2>1. UNCHANGED status /\ parked' = {}
    <3>1. PICK saved \in BOOLEAN : ChangeQueue(status, FALSE, saved)
      BY Zenon, <1>12 DEF Resume
    <3>2. status' = status /\ paused' = FALSE
      BY Zenon, <1>0, <3>1, SavesSucceed
    <3>3. QED
      BY SMTT(30), <1>12, <3>2 DEF Resume
  <2>2. \A i \in Runtime : Flies(i)
    BY <1>4, <1>12
  <2>3. ParkedHeld' /\ PausedWorkWaits'
    BY SMTT(30), <2>1 DEF ParkedHeld, PausedWorkWaits
  <2>4. SendingIsOwned'
    BY <2>1, <2>2, SendingKept DEF WaitInv
  <2>5. QED
    BY <2>3, <2>4 DEF WaitInv
<1>13. ASSUME NEW m \in Msg, Edit(m) PROVE UNCHANGED <<status, paused, parked>>
  BY <1>0, <1>13, SavesSucceed DEF Edit, observed
<1>14. ASSUME \/ DrainStart \/ SendLook \/ Unpause \/ StopTurn \/ Withdraw \/ Retire \/ Compact \/ BeginStop
              \/ BeginClose \/ Open \/ DirectSend
       PROVE  UNCHANGED <<status, paused, parked>>
  BY SMTT(30), <1>14 DEF DrainStart, SendLook, Unpause, StopTurn, Withdraw, Retire, Compact, BeginStop, BeginClose, Open,
               DirectSend, queue, observed
<1>15. ASSUME NEW i \in Runtime,
              \/ DrainCheck(i) \/ DrainSnapshot(i) \/ SendPrompt(i) \/ Forwarder(i) \/ Harness(i) \/ NativeFinishes(i)
              \/ NativeDeclines(i) \/ NativeExits(i) \/ \E m \in Msg : NativeTakesLate(i, m)
       PROVE  UNCHANGED <<status, paused, parked>>
  BY Zenon, <1>15 DEF DrainCheck, DrainSnapshot, SendPrompt, Forwarder, EventPauses, EventApplies, Harness, NativeTakes,
               NativeRefuses, NativeFinishes, NativeDeclines, NativeExits, NativeTakesLate, queue, observed
<1>16. ASSUME Apart, UNCHANGED <<status, paused, parked>> PROVE WaitInv'
  BY <1>4, <1>16, WaitQuiet
<1>17. ~Apart => Restart \/ (\E i \in Runtime : DrainAdmit(i) \/ SteerAdmit(i)) \/ \E i \in Runtime : SettleMessage(i) \/ HoldMessage(i)
  BY SMTT(60)
<1> HIDE DEF Apart
<1>18. ASSUME Apart PROVE WaitInv'
  BY <1>1, <1>2, <1>3, <1>5, <1>9, <1>10, <1>11, <1>12, <1>13, <1>14, <1>15, <1>16, <1>18 DEF Next, Host, Person, Mishap, Task
<1>19. QED
  BY <1>1, <1>2, <1>3, <1>17, <1>18

CommandInv == SteerKnown /\ CommandKnown /\ NothingHidden

\* A step that only pauses: nothing new waits, and whoever stores the flag is
\* about to pause the record.
Quiet ==
  /\ UNCHANGED <<cmd, paused, opened>>
  /\ \A m \in Msg : status'[m] = "Queued" => status[m] = "Queued"
  /\ live' \in {0, live}
  /\ (UNCHANGED <<flag, pausing>>) \/ (StoreFlag /\ pausing' # {})

\* A command stays until the task that serves it rests.
LEMMA CommandStep ==
  ASSUME MaxFaults = 0, RestOK, DeliveryInv, Next, cmd.op = "steer"
  PROVE  UNCHANGED cmd \/ Restart \/ \E j \in Runtime : holder[j].kind = "steer" /\ holder'[j].kind = "drain"
<1>0. CarryTypes
  BY DEF DeliveryInv
<1>1. ~Ready
  BY SMTT(30) DEF Ready, NoCommand
<1>2. ASSUME NEW i \in Runtime, DrainAdmit(i) \/ SteerAdmit(i)
      PROVE  UNCHANGED cmd \/ (holder[i].kind = "steer" /\ holder'[i].kind = "drain")
  <2>1. holder[i].kind \in {"drain", "steer"}
    BY <1>0 DEF CarryTypes, Holder
  <2>2. Release(i) => holder'[i].kind = "drain"
    BY SMTT(30), <1>0, FreeFields DEF Release, Holds, CarryTypes
  <2>3. QED
    BY Zenon, <1>2, <2>1, <2>2, AdmitEffect
<1>3. ASSUME NEW i \in Runtime, SettleMessage(i) \/ HoldMessage(i)
      PROVE  UNCHANGED cmd \/ (holder[i].kind = "steer" /\ holder'[i].kind = "drain")
  <2>1. holder[i].kind = "steer" => Release(i)
    BY Zenon, <1>3 DEF SettleMessage, HoldMessage
  <2>2. Release(i) => holder'[i].kind = "drain"
    BY <1>0, FreeFields DEF Release, Holds, CarryTypes
  <2>3. QED
    BY Zenon, <1>3, <2>1, <2>2, SettleEffect
<1>4. ASSUME SendLook \/ Unpause \/ StopTurn PROVE FALSE
  BY <1>4 DEF SendLook, Unpause, StopTurn
<1>5. ASSUME Resume \/ Compact \/ BeginStop \/ DirectSend \/ (\E m \in Msg : Send(m) \/ Edit(m) \/ Remove(m))
             \/ \E m \in Msg, new \in BOOLEAN : Steer(m, new)
      PROVE  FALSE
  BY Zenon, <1>1, <1>5 DEF Resume, Compact, BeginStop, DirectSend, Send, Edit, Remove, Steer
<1>6. ASSUME DrainStart \/ Withdraw \/ Retire \/ BeginClose \/ Open \/ \E who \in pausing : PauseRecord(who) PROVE UNCHANGED cmd
  BY Zenon, <1>6 DEF DrainStart, Withdraw, Retire, BeginClose, Open, PauseRecord
<1>7. ASSUME NEW i \in Runtime,
             \/ DrainCheck(i) \/ DrainSnapshot(i) \/ SendPrompt(i) \/ Forwarder(i) \/ Harness(i) \/ NativeFinishes(i)
             \/ NativeDeclines(i) \/ NativeExits(i) \/ \E m \in Msg : NativeTakesLate(i, m)
      PROVE  UNCHANGED cmd
  BY Zenon, <1>7 DEF DrainCheck, DrainSnapshot, SendPrompt, Forwarder, EventPauses, EventApplies, Harness, NativeTakes,
              NativeRefuses, NativeFinishes, NativeDeclines, NativeExits, NativeTakesLate
<1>8. QED
  BY Zenon, <1>2, <1>3, <1>4, <1>5, <1>6, <1>7 DEF Next, Host, Person, Mishap, Task

LEMMA SteerKnownNext ==
  ASSUME MaxFaults = 0, RestOK, DeliveryInv, SteerKnown, Next
  PROVE  SteerKnown'
<1> SUFFICES ASSUME NEW i \in Runtime, holder'[i].kind = "steer"
             PROVE  cmd' = [op |-> "steer", msg |-> holder'[i].msg, on |-> i]
  BY Zenon DEF SteerKnown
<1>0. CarryTypes
  BY SMTT(30) DEF DeliveryInv
<1>1. ~Rests(i) /\ ~Chooses(i)
  BY Zenon, FreeFields DEF Rests, Chooses
<1>2. CASE Steers(i)
  BY Zenon, <1>2 DEF Steers
<1>3. CASE UNCHANGED holder[i] \/ Proceeds(i)
  <2>1. holder[i].kind = "steer" /\ holder'[i].msg = holder[i].msg
    BY Zenon, <1>3 DEF Proceeds
  <2>2. cmd = [op |-> "steer", msg |-> holder[i].msg, on |-> i]
    BY <2>1 DEF SteerKnown
  <2>3. ~Restart
    BY FreeFields DEF Restart
  <2>4. ASSUME NEW j \in Runtime, holder[j].kind = "steer", holder'[j].kind = "drain" PROVE FALSE
    <3>1. j = i
      BY Zenon, <2>2, <2>4 DEF SteerKnown
    <3>2. QED
      BY SMTT(30), <2>4, <3>1
  <2>5. QED
    BY SMTT(30), <2>1, <2>2, <2>3, <2>4, CommandStep
<1>4. QED
  BY Zenon, <1>1, <1>2, <1>3, TaskMoves

LEMMA QuietHolds ==
  ASSUME DeliveryInv, RestOK, CommandKnown, NothingHidden, Quiet
  PROVE  CommandKnown' /\ NothingHidden'
<1>0. live \in 0..opened /\ opened \in 0..MaxOpens /\ flag \in [Runtime -> BOOLEAN]
  BY DEF DeliveryInv, CarryTypes, RestOK, RuntimeRest
<1>1. \A i \in Runtime : i > opened => ~flag'[i]
  BY SMTT(30), <1>0, ComposerConstants DEF Quiet, StoreFlag, CommandKnown, Runtime
<1>2. CommandKnown'
  BY <1>1 DEF Quiet, CommandKnown
<1>3. InStatus({"Queued"})' \subseteq InStatus({"Queued"})
  BY DEF Quiet, InStatus
<1>4. NothingHidden'
  <2>1. CASE pausing' # {}
    BY SMTT(30), <2>1 DEF NothingHidden
  <2>2. CASE UNCHANGED <<flag, pausing>>
    BY <1>3, <2>2 DEF Quiet, NothingHidden
  <2>3. QED
    BY <2>1, <2>2 DEF Quiet
<1>5. QED
  BY <1>2, <1>4

\* A step that keeps the runtimes and their flags keeps what is known of the
\* command in progress.
LEMMA CommandStays ==
  ASSUME CommandKnown, UNCHANGED <<live, opened, flag>>,
         cmd'.op = "none" => cmd' = NoCommand, cmd'.op # "none" => live \in {0, cmd'.on}
  PROVE  CommandKnown'
BY DEF CommandKnown

LEMMA CommandNext ==
  ASSUME MaxFaults = 0, RestOK, DeliveryInv, CommandInv, Next
  PROVE  CommandInv'
<1> USE ComposerConstants
<1>0. /\ CarryTypes /\ QueueRest /\ CommandKnown /\ NothingHidden /\ SteerKnown
      /\ live \in 0..opened /\ opened \in 0..MaxOpens /\ flag \in [Runtime -> BOOLEAN]
      /\ status \in [Msg -> Delivery \cup {"Absent"}]
  BY DEF DeliveryInv, CarryTypes, RestOK, RuntimeRest, CommandInv
<1> DEFINE Goal == CommandKnown' /\ NothingHidden'
<1>1. ASSUME NEW m \in Msg, NEW d \in {"Sending", "Sent", "Cancelled", "Uncertain"}, status' = Deliver(m, d)
      PROVE  InStatus({"Queued"})' = InStatus({"Queued"}) \ {m}
  BY <1>0, <1>1 DEF Deliver, InStatus
<1>2. NoCommand.op = "none"
  BY SMTT(30) DEF NoCommand
<1>3. ASSUME NEW i \in Runtime, DrainAdmit(i) \/ SteerAdmit(i) PROVE Goal
  <2>1. UNCHANGED <<paused, live, opened>> /\ holder[i].kind \in {"drain", "steer"} /\ holder[i].msg \in Msg
    BY <1>0, <1>3, AdmitEffect DEF CarryTypes, Holder, DeliveryInv, CarrierKnown
  <2>2. CASE /\ status[holder[i].msg] = "Queued" /\ status' = Deliver(holder[i].msg, "Sending")
             /\ UNCHANGED <<cmd, pausing, flag>>
    <3>1. Quiet
      BY SMTT(30), <1>1, <2>1, <2>2 DEF Quiet, InStatus
    <3>2. QED
      BY <1>0, <3>1, QuietHolds
  <2>3. CASE UNCHANGED status /\ holder[i].kind = "drain"
    <3>1. (UNCHANGED <<pausing, flag>>) \/ (StoreFlag /\ pausing' # {})
      BY Zenon, <1>3, <2>3 DEF DrainAdmit, SteerAdmit, At, ReleaseAndPause, BeginPause
    <3>2. UNCHANGED cmd
      BY Zenon, <1>3, <2>3 DEF DrainAdmit, SteerAdmit, At
    <3>3. Quiet
      BY <2>1, <2>3, <3>1, <3>2 DEF Quiet
    <3>4. QED
      BY <1>0, <3>3, QuietHolds
  <2>4. CASE /\ UNCHANGED <<status, pausing, flag>> /\ holder[i].kind = "steer" /\ cmd' = NoCommand
             /\ status[holder[i].msg] # "Queued"
    <3>1. cmd.op = "steer" /\ cmd.msg = holder[i].msg
      BY SMTT(30), <1>0, <2>4 DEF SteerKnown
    <3>2. InStatus({"Queued"})' = InStatus({"Queued"}) /\ holder[i].msg \notin InStatus({"Queued"})
      BY SMTT(30), <2>4 DEF InStatus
    <3>3. NothingHidden'
      BY Zenon, <1>0, <1>2, <2>1, <2>4, <3>1, <3>2 DEF NothingHidden
    <3>4. CommandKnown'
      BY <1>0, <1>2, <2>1, <2>4, CommandStays
    <3>5. QED
      BY SMTT(30), <3>3, <3>4
  <2>5. QED
    BY Zenon, <1>3, <2>1, <2>2, <2>3, <2>4, AdmitEffect
<1>4. ASSUME NEW i \in Runtime, SettleMessage(i) \/ HoldMessage(i) PROVE Goal
  <2>1. /\ UNCHANGED <<live, opened>> /\ cmd' = IF holder[i].kind = "steer" THEN NoCommand ELSE cmd
        /\ holder[i].msg \in Msg /\ status[holder[i].msg] = "Sending"
    BY Zenon, <1>4, SettleEffect DEF DeliveryInv, CarriedOnce, CarriesAlone
  <2>2. (UNCHANGED <<pausing, flag>>) \/ (StoreFlag /\ pausing' # {})
    BY Zenon, <1>4 DEF SettleMessage, HoldMessage, ReleaseAndPause, BeginPause
  <2>3. \A j \in Runtime : j > opened => ~flag'[j]
    BY <1>0, <2>2 DEF StoreFlag, CommandKnown, Runtime
  <2>4. CommandKnown'
    BY <1>0, <1>2, <2>1, <2>3 DEF CommandKnown
  <2>5. CASE paused' = TRUE \/ pausing' # {}
    BY <2>4, <2>5 DEF NothingHidden
  <2>6. CASE status' = Deliver(holder[i].msg, "Sent") /\ UNCHANGED <<paused, pausing, flag>>
    <3>1. InStatus({"Queued"})' = InStatus({"Queued"}) /\ holder[i].msg \notin InStatus({"Queued"})
      BY Zenon, <1>1, <2>1, <2>6 DEF InStatus
    <3>2. holder[i].kind = "steer" => cmd.op = "steer" /\ cmd.msg = holder[i].msg
      BY SMTT(30), <1>0 DEF SteerKnown
    <3>3. NothingHidden'
      BY Zenon, <1>0, <1>2, <2>1, <2>6, <3>1, <3>2 DEF NothingHidden
    <3>4. QED
      BY SMTT(30), <2>4, <3>3
  <2>7. QED
    BY Zenon, <1>4, <2>2, <2>5, <2>6, SettleEffect
<1>5. ASSUME NEW who \in pausing, PauseRecord(who) PROVE Goal
  <2>1. UNCHANGED <<live, opened, flag, cmd, status>>
    BY Zenon, <1>0, <1>5, SavesSucceed DEF PauseRecord, runtimes
  <2>2. Pending => paused' = TRUE
    BY Zenon, <1>0, <1>5, SavesSucceed DEF PauseRecord
  <2>3. ~Pending => InStatus({"Queued"})' = {}
    BY <2>1 DEF Pending, InStatus
  <2>4. CommandKnown'
    BY <1>0, <2>1 DEF CommandKnown
  <2>5. QED
    BY SMTT(30), <2>2, <2>3, <2>4 DEF NothingHidden
<1>6. ASSUME NEW m \in Msg, Send(m) PROVE Goal
  <2>1. cmd' = [op |-> "look", msg |-> NoMsg, on |-> live] /\ UNCHANGED <<live, opened, flag>>
    <3>1. PICK saved \in BOOLEAN : Enqueue(m, saved) /\ cmd' = IF saved THEN [op |-> "look", msg |-> NoMsg, on |-> live] ELSE cmd
      BY SMTT(30), <1>6 DEF Send
    <3>2. saved
      BY SMTT(30), <1>0, <3>1, SavesSucceed DEF Enqueue
    <3>3. QED
      BY SMTT(30), <1>6, <3>1, <3>2 DEF Send, runtimes
  <2>2. cmd'.op = "look" /\ cmd'.on = live
    BY <2>1
  <2>3. QED
    BY SMTT(30), <1>0, <2>1, <2>2, CommandStays DEF NothingHidden
<1>7. ASSUME SendLook PROVE Goal
  <2>1. UNCHANGED <<live, opened, flag, paused, status>>
    BY SMTT(30), <1>7 DEF SendLook, runtimes, queue
  <2>2. CASE paused
    <3>1. cmd' = NoCommand
      BY SMTT(30), <1>7, <2>2 DEF SendLook
    <3>2. QED
      BY <1>0, <1>2, <2>1, <2>2, <3>1, CommandStays DEF NothingHidden
  <2>3. CASE ~paused
    <3>1. cmd' = [cmd EXCEPT !.op = "unpause"] /\ cmd.op = "look"
      BY <1>7, <2>3 DEF SendLook
    <3>2. cmd'.op = "unpause" /\ cmd'.on = cmd.on
      BY <3>1 DEF RestOK, CommandRest
    <3>3. live \in {0, cmd.on}
      BY <1>0, <3>1 DEF CommandKnown
    <3>4. QED
      BY <1>0, <2>1, <3>2, <3>3, CommandStays DEF NothingHidden
  <2>4. QED
    BY <2>2, <2>3
<1>8. ASSUME Unpause PROVE Goal
  <2>1. UNCHANGED <<live, opened>> /\ flag' = [flag EXCEPT ![cmd.on] = FALSE] /\ cmd' = NoCommand /\ live \in {0, cmd.on}
    BY <1>0, <1>8 DEF Unpause, CommandKnown
  <2>2. \A i \in Runtime : (i > opened \/ i = cmd.on) => ~flag'[i]
    BY <1>0, <2>1 DEF CommandKnown
  <2>3. CommandKnown'
    BY <1>2, <2>1, <2>2 DEF CommandKnown
  <2>4. live # 0 => live \in Runtime
    BY <1>0 DEF Runtime
  <2>5. NothingHidden'
    BY <2>1, <2>2, <2>4 DEF NothingHidden
  <2>6. QED
    BY SMTT(30), <2>3, <2>5
<1>9. ASSUME Resume PROVE Goal
  <2>1. PICK saved \in BOOLEAN : ChangeQueue(status, FALSE, saved)
                                 /\ cmd' = IF saved THEN [op |-> "unpause", msg |-> NoMsg, on |-> live] ELSE cmd
    BY Zenon, <1>9 DEF Resume
  <2>2. saved
    BY Zenon, <1>0, <2>1, SavesSucceed
  <2>3. cmd'.op = "unpause" /\ cmd'.on = live /\ UNCHANGED <<live, opened, flag>>
    BY <1>9, <2>1, <2>2 DEF Resume, runtimes
  <2>4. QED
    BY SMTT(30), <1>0, <2>3, CommandStays DEF NothingHidden
<1>10. ASSUME NEW m \in Msg, Remove(m) \/ Edit(m) PROVE Goal
  <2>1. \E d \in {status[m], "Cancelled"}, saved \in BOOLEAN : ChangeQueue(Deliver(m, d), paused, saved)
    BY Zenon, <1>0, <1>10 DEF Remove, Edit, Deliver
  <2>2. PICK d \in {status[m], "Cancelled"} : status' = Deliver(m, d) /\ UNCHANGED paused
    BY <1>0, <2>1, SavesSucceed
  <2>3. UNCHANGED <<cmd, live, opened, flag, pausing>>
    BY Zenon, <1>10 DEF Remove, Edit, runtimes
  <2>4. \A k \in Msg : status'[k] = "Queued" => status[k] = "Queued"
    BY SMTT(30), <1>0, <2>2 DEF Deliver
  <2>5. Quiet
    BY SMTT(30), <2>2, <2>3, <2>4 DEF Quiet
  <2>6. QED
    BY <1>0, <2>5, QuietHolds
<1>11. ASSUME NEW m \in Msg, NEW new \in BOOLEAN, Steer(m, new) PROVE Goal
  <2>1. cmd.op = "none" /\ UNCHANGED <<live, opened, flag, pausing>>
    BY <1>2, <1>11 DEF Steer, Ready, runtimes
  <2>2. PICK saved \in BOOLEAN :
          /\ IF new THEN Enqueue(m, saved) ELSE saved /\ UNCHANGED <<items, status, paused, faults>>
          /\ saved => cmd' = [op |-> "steer", msg |-> m, on |-> live]
    BY <1>11 DEF Steer
  <2>3. saved /\ UNCHANGED paused /\ (UNCHANGED status \/ status' = Deliver(m, "Queued"))
    <3>1. CASE new
      <4>1. Enqueue(m, saved)
        BY <2>2, <3>1
      <4>2. CASE status[m] = "Absent"
        <5>1. ChangeQueue(Deliver(m, "Queued"), paused, saved)
          BY <4>1, <4>2 DEF Enqueue
        <5>2. QED
          BY <1>0, <5>1, SavesSucceed
      <4>3. CASE status[m] # "Absent"
        BY SMTT(30), <4>1, <4>3 DEF Enqueue
      <4>4. QED
        BY <4>2, <4>3
    <3>2. CASE ~new
      BY SMTT(30), <2>2, <3>2
    <3>3. QED
      BY <3>1, <3>2
  <2>4. cmd'.op = "steer" /\ cmd'.msg = m /\ cmd'.on = live
    BY <2>2, <2>3
  <2>5. InStatus({"Queued"})' \subseteq InStatus({"Queued"}) \cup {m}
    BY SMTT(30), <1>0, <2>3 DEF InStatus, Deliver
  <2>6. NothingHidden'
    BY Zenon, <1>0, <2>1, <2>3, <2>4, <2>5 DEF NothingHidden
  <2>7. QED
    BY <1>0, <2>1, <2>4, <2>6, CommandStays
<1>12. ASSUME BeginStop PROVE Goal
  <2>1. cmd'.op = "stop" /\ cmd'.on = live /\ UNCHANGED <<live, opened>> /\ StoreFlag /\ pausing' # {}
    BY Zenon, <1>12 DEF BeginStop, BeginPause
  <2>2. \A i \in Runtime : i > opened => ~flag'[i]
    BY <1>0, <2>1 DEF StoreFlag, CommandKnown, Runtime
  <2>3. QED
    BY SMTT(30), <2>1, <2>2 DEF CommandKnown, NothingHidden
<1>13. ASSUME StopTurn PROVE Goal
  <2>1. cmd' = NoCommand /\ cmd.op = "stop" /\ UNCHANGED <<live, opened, flag, status, paused, pausing>>
    BY Zenon, <1>13 DEF StopTurn, queue
  <2>2. InStatus({"Queued"})' = InStatus({"Queued"})
    BY SMTT(30), <2>1 DEF InStatus
  <2>3. NothingHidden'
    BY SMTT(30), <1>0, <2>1, <2>2 DEF NothingHidden
  <2>4. QED
    BY <1>0, <1>2, <2>1, <2>3, CommandStays
<1>14. ASSUME Open PROVE Goal
  <2>1. cmd' = NoCommand /\ live' = opened + 1 /\ opened' = opened + 1 /\ opened < MaxOpens /\ UNCHANGED flag
    BY <1>14 DEF Open
  <2>2. live' \in Runtime /\ ~flag'[live']
    BY <1>0, <2>1 DEF Runtime, CommandKnown
  <2>3. \A i \in Runtime : i > opened' => ~flag'[i]
    BY <1>0, <2>1 DEF Runtime, CommandKnown
  <2>4. QED
    BY SMTT(30), <1>2, <2>1, <2>2, <2>3 DEF CommandKnown, NothingHidden
<1>15. ASSUME Restart PROVE Goal
  <2>1. cmd' = NoCommand /\ live' = 0 /\ \A i \in Runtime : ~flag'[i]
    BY <1>15 DEF Restart
  <2>2. QED
    BY <1>2, <2>1 DEF CommandKnown, NothingHidden
<1>16. ASSUME DrainStart \/ Withdraw \/ Retire \/ Compact \/ BeginClose \/ DirectSend PROVE Quiet
  BY <1>16 DEF Quiet, DrainStart, Withdraw, Retire, Compact, BeginClose, BeginPause, DirectSend, queue, runtimes
<1>17. ASSUME NEW i \in Runtime, DrainCheck(i) \/ DrainSnapshot(i) \/ SendPrompt(i) \/ Forwarder(i) PROVE Quiet
  BY Zenon, <1>17 DEF Quiet, DrainCheck, DrainSnapshot, ReleaseAndPause, BeginPause, SendPrompt, Forwarder, EventPauses,
               EventApplies, queue, runtimes
<1>18. ASSUME NEW i \in Runtime, \/ Harness(i) \/ NativeFinishes(i) \/ NativeDeclines(i) \/ NativeExits(i)
                                 \/ \E m \in Msg : NativeTakesLate(i, m)
       PROVE  Quiet
  BY Zenon, <1>18 DEF Quiet, Harness, NativeTakes, NativeRefuses, NativeFinishes, NativeDeclines, NativeExits,
               NativeTakesLate, queue, runtimes
<1>19. Quiet => Goal
  BY <1>0, QuietHolds
<1> HIDE DEF Goal
<1>20. Goal
  BY <1>3, <1>4, <1>5, <1>6, <1>7, <1>8, <1>9, <1>10, <1>11, <1>12, <1>13, <1>14, <1>15, <1>16, <1>17, <1>18, <1>19
     DEF Next, Host, Person, Mishap, Task
<1>21. QED
  BY SMTT(30), <1>0, <1>20, SteerKnownNext DEF CommandInv, Goal

LEMMA HoldInit == Init => HoldInv
<1> SUFFICES ASSUME Init PROVE HoldInv
  OBVIOUS
<1>1. live = 0 /\ cmd = NoCommand /\ parked = {} /\ (\A m \in Msg : status[m] = "Absent")
      /\ \A i \in Runtime : ~flag[i] /\ holder[i].pc = "free" /\ holder[i].kind = "drain"
  BY FreeFields DEF Init
<1>2. NoCommand.op = "none"
  BY DEF NoCommand
<1>3. QED
  BY Zenon, <1>1, <1>2 DEF HoldInv, ParkedHeld, PausedWorkWaits, SendingIsOwned, InStatus, SteerKnown, CommandKnown, NothingHidden

LEMMA HoldNext ==
  ASSUME MaxFaults = 0, DeliveryInv, RestOK, HoldInv, Next
  PROVE  HoldInv'
<1>1. WaitInv /\ CommandInv
  BY DEF HoldInv, WaitInv, CommandInv
<1>2. WaitInv' /\ CommandInv'
  BY <1>1, WaitNext, CommandNext
<1>3. QED
  BY <1>2 DEF HoldInv, WaitInv, CommandInv

\* Where no save of the queue fails, the outbox keeps its discipline: types,
\* order, one follow-up on its way, the latest text, what a pause put on hold
\* waits, a message in the state Sending belongs to a task, and no flag holds a
\* queue that its record shows as running.
THEOREM QueueAlwaysDisciplined == ASSUME MaxFaults = 0 PROVE Spec => []QueueDiscipline
<1> DEFINE IInv == OrderInv /\ RestOK /\ HoldInv
<1>1. Init => IInv
  BY OrderInit, RestInit, HoldInit
<1>2. IInv /\ [Next]_vars => IInv'
  <2>1. ASSUME IInv, Next PROVE IInv'
    <3>1. DeliveryInv /\ OrderInv /\ RestOK /\ HoldInv
      BY <2>1 DEF OrderInv
    <3>2. QED
      BY <2>1, <3>1, OrderNext, RestNext, HoldNext
  <2>2. ASSUME IInv, UNCHANGED vars PROVE IInv'
    <3>1. OrderInv'
      BY <2>2, OrderNext
    <3>2. RestOK'
      BY <2>2, RestNext DEF OrderInv
    <3>3. HoldInv'
      BY Zenon, <2>2 DEF vars, queue, runtimes, observed, HoldInv, ParkedHeld, PausedWorkWaits, SendingIsOwned, InStatus,
                  SteerKnown, CommandKnown, NothingHidden
    <3>4. QED
      BY <3>1, <3>2, <3>3
  <2>3. QED
    BY <2>1, <2>2
<1>3. IInv => QueueDiscipline
  <2> SUFFICES ASSUME IInv PROVE QueueDiscipline
    OBVIOUS
  <2>1. TypeOK
    BY TypesHold DEF OrderInv
  <2>2. InOrder /\ OneFollowUpInFlight /\ LatestTextSent
    BY ForemostInOrder DEF OrderInv
  <2>3. NoHiddenHold
    <3>1. cmd = NoCommand => cmd.op \in {"none", "stop"}
      BY DEF NoCommand
    <3>2. live # 0 /\ flag[live] /\ ~paused /\ pausing = {} /\ cmd = NoCommand => InStatus({"Queued"}) = {}
      BY <3>1 DEF HoldInv, NothingHidden
    <3>3. QED
      BY <3>2 DEF NoHiddenHold
  <2>4. QED
    BY <2>1, <2>2, <2>3 DEF QueueDiscipline, HoldInv
<1> HIDE DEF IInv
<1>4. QED
  BY <1>1, <1>2, <1>3, PTL DEF Spec

=============================================================================
