--------------------------- MODULE ComposerProofs ---------------------------
(***************************************************************************)
(* The outbox, for any number of messages, runtimes, edits, failed saves,  *)
(* lost answers, closes and restarts: no message reaches a harness twice,  *)
(* a delivered or dismissed message never comes back, and follow-ups leave *)
(* in their order, one at a time, with their latest text.                  *)
(*                                                                         *)
(* AtMostOnce is not inductive: a prompt may be taken by the harness and   *)
(* by a late delivery of the same request.  DeliveryInv says who may still *)
(* bring a message to a harness: a waiting message has been taken by       *)
(* nobody, a task owns the message it carries alone, and a request that    *)
(* may still arrive is the only one of its message.                        *)
(*                                                                         *)
(* InOrder is not inductive: a drain chooses its message before it asks    *)
(* the harness for its status.  OrderInv says that the message of a drain  *)
(* is the foremost of the messages that are not final, from the moment it  *)
(* is chosen until it is settled.                                          *)
(***************************************************************************)
EXTENDS Composer, TLAPS

Holder == [pc : {"free", "check", "snapshot", "admit", "images", "prompt", "settle"},
           kind : {"drain", "steer"}, msg : Msg \cup {NoMsg}, body : Nat,
           since : Nat, answer : {"none", "accepted", "rejected", "unknown"}]

CarryTypes ==
  /\ status \in [Msg -> Delivery \cup {"Absent"}]
  /\ text \in [Msg -> Nat]
  /\ turns \in [Runtime -> Nat]
  /\ holder \in [Runtime -> Holder]
  /\ live \in 0..opened /\ opened \in 0..MaxOpens
  /\ late \subseteq Runtime \X Msg
  /\ taken \in [Msg -> Nat]

InFlight(i) == holder[i].pc \in {"images", "prompt", "settle"}

\* No harness has the message, and no request for it is on its way.
Untouched(m) == taken[m] = 0 /\ \A i \in Runtime : <<i, m>> \notin late

\* What a task may still do with the message it carries.
CarriesAlone(i) ==
  /\ holder[i].msg \in Msg
  /\ status[holder[i].msg] = "Sending"
  /\ holder[i].pc # "settle" \/ holder[i].answer = "rejected" => Untouched(holder[i].msg)
  /\ \A j \in Runtime : j # i /\ InFlight(j) => holder[j].msg # holder[i].msg
CarriedOnce == \A i \in Runtime : InFlight(i) => CarriesAlone(i)

WaitingUntouched == \A m \in Msg : status[m] \in {"Absent", "Queued"} => Untouched(m)

LateOnce ==
  \A i \in Runtime, m \in Msg : <<i, m>> \in late =>
    taken[m] = 0 /\ \A j \in Runtime : <<j, m>> \in late => j = i

CarrierKnown ==
  \A i \in Runtime : holder[i].pc \in {"snapshot", "admit"} => holder[i].msg \in Msg

DeliveryInv == CarryTypes /\ CarriedOnce /\ WaitingUntouched /\ LateOnce /\ CarrierKnown /\ AtMostOnce

\* A new outbox is empty and no runtime has started.
LEMMA DeliveryInit == Init => DeliveryInv
<1> SUFFICES ASSUME Init PROVE DeliveryInv
  OBVIOUS
<1> USE ComposerConstants
<1>1. Free \in Holder
  BY DEF Free, Holder
<1>2. CarryTypes
  BY <1>1 DEF Init, CarryTypes, Delivery, Runtime
<1>3. \A i \in Runtime : holder[i] = Free
  BY DEF Init
<1>4. QED
  BY <1>2, <1>3 DEF DeliveryInv, CarriedOnce, InFlight, WaitingUntouched, Untouched, LateOnce, CarrierKnown,
                    AtMostOnce, Init, Free

\* What change_queue may do to the statuses.
LEMMA ChangeQueueEffect ==
  ASSUME NEW st, NEW pa, NEW saved \in BOOLEAN, ChangeQueue(st, pa, saved)
  PROVE  status' \in {status, st} /\ (saved => status' = st)
BY DEF ChangeQueue

\* A step that moves no message and takes no message over keeps the invariant:
\* at most, tasks let go or choose what they want to carry, and one task goes
\* on from its images to its prompt.
LEMMA QuietStep ==
  ASSUME DeliveryInv, CarryTypes', UNCHANGED <<status, taken, late>>,
         \A i \in Runtime :
           \/ holder'[i] = holder[i]
           \/ holder'[i].pc \in {"free", "check"}
           \/ holder'[i].pc \in {"snapshot", "admit"} /\ holder'[i].msg \in Msg
           \/ holder[i].pc = "images" /\ holder'[i].pc = "prompt" /\ holder'[i].msg = holder[i].msg
  PROVE  DeliveryInv'
<1>1. \A i \in Runtime : InFlight(i)' => InFlight(i) /\ holder'[i].msg = holder[i].msg
                         /\ (holder'[i].pc # "settle" => holder[i].pc # "settle")
                         /\ (holder'[i].pc = "settle" => holder'[i] = holder[i])
  BY DEF InFlight
<1>2. CarriedOnce'
  <2> SUFFICES ASSUME NEW i \in Runtime, InFlight(i)'
               PROVE  CarriesAlone(i)'
    BY DEF CarriedOnce
  <2> QED
    BY <1>1 DEF DeliveryInv, CarriedOnce, CarriesAlone, Untouched
<1>3. CarrierKnown'
  BY DEF DeliveryInv, CarrierKnown
<1>4. QED
  BY <1>2, <1>3 DEF DeliveryInv, WaitingUntouched, LateOnce, AtMostOnce, Untouched

LetsGo(i, m) ==
  \/ holder'[i] = holder[i] /\ (InFlight(i) => holder[i].msg # m)
  \/ holder'[i].pc \in {"free", "check"}
  \/ holder'[i].pc = "admit" /\ holder'[i].msg \in Msg

\* One message may change its status while its only carrier, if any, lets go:
\* back to the queue only when nobody took it.
LEMMA SettlingStep ==
  ASSUME DeliveryInv, CarryTypes', UNCHANGED <<taken, late>>,
         NEW m \in Msg, NEW d, status' \in {status, [status EXCEPT ![m] = d]},
         d \in {"Absent", "Queued"} => Untouched(m),
         \A i \in Runtime : LetsGo(i, m)
  PROVE  DeliveryInv'
<1> USE DEF LetsGo
<1>1. \A i \in Runtime : InFlight(i)' => InFlight(i) /\ holder'[i] = holder[i] /\ holder[i].msg # m
  BY DEF InFlight
<1>2. \A k \in Msg : k # m => status'[k] = status[k]
  BY DEF DeliveryInv, CarryTypes
<1>3. CarriedOnce'
  <2> SUFFICES ASSUME NEW i \in Runtime, InFlight(i)'
               PROVE  CarriesAlone(i)'
    BY DEF CarriedOnce
  <2> QED
    BY <1>1, <1>2 DEF DeliveryInv, CarriedOnce, CarriesAlone, Untouched
<1>4. WaitingUntouched'
  BY <1>2 DEF DeliveryInv, CarryTypes, WaitingUntouched, Untouched
<1>5. CarrierKnown'
  BY DEF DeliveryInv, CarrierKnown
<1>6. QED
  BY <1>3, <1>4, <1>5 DEF DeliveryInv, LateOnce, AtMostOnce

\* A task takes over a waiting message.
LEMMA AdmittingStep ==
  ASSUME DeliveryInv, CarryTypes', UNCHANGED <<taken, late>>,
         NEW i \in Runtime, holder[i].pc = "admit", status[holder[i].msg] = "Queued",
         status' = [status EXCEPT ![holder[i].msg] = "Sending"],
         holder'[i].pc = "images", holder'[i].msg = holder[i].msg,
         \A j \in Runtime : j # i => holder'[j] = holder[j]
  PROVE  DeliveryInv'
<1> DEFINE m == holder[i].msg
<1>1. m \in Msg
  BY DEF DeliveryInv, CarrierKnown
<1>2. \A j \in Runtime : InFlight(j) => holder[j].msg # m
  BY <1>1 DEF DeliveryInv, CarriedOnce, CarriesAlone
<1>3. status'[m] = "Sending" /\ \A k \in Msg : k # m => status'[k] = status[k]
  BY <1>1 DEF DeliveryInv, CarryTypes
<1>4. Untouched(m) /\ Untouched(m)'
  BY <1>1 DEF DeliveryInv, WaitingUntouched, Untouched
<1>5. \A j \in Runtime : j # i => holder'[j] = holder[j] /\ (InFlight(j)' => InFlight(j))
  BY DEF InFlight
<1>6. CarriedOnce'
  <2> SUFFICES ASSUME NEW k \in Runtime, InFlight(k)'
               PROVE  CarriesAlone(k)'
    BY DEF CarriedOnce
  <2>1. CASE k = i
    BY <2>1, <1>1, <1>2, <1>3, <1>4, <1>5 DEF CarriesAlone
  <2>2. CASE k # i
    BY <2>2, <1>1, <1>2, <1>3, <1>5 DEF DeliveryInv, CarriedOnce, CarriesAlone, Untouched
  <2> QED
    BY <2>1, <2>2
<1>7. WaitingUntouched'
  BY <1>3 DEF DeliveryInv, CarryTypes, WaitingUntouched, Untouched
<1>8. CarrierKnown'
  BY DEF DeliveryInv, CarrierKnown
<1>9. QED
  BY <1>6, <1>7, <1>8 DEF DeliveryInv, LateOnce, AtMostOnce

\* Only the task of runtime i moves, to a well formed record.
Moves(i) ==
  /\ holder' \in [Runtime -> Holder]
  /\ \A j \in Runtime : j # i => holder'[j] = holder[j]

\* A task lets its gate go.
LEMMA ReleaseMove ==
  ASSUME CarryTypes, NEW i \in Runtime, Release(i)
  PROVE  Moves(i) /\ holder'[i].pc = "free"
<1>1. holder[i] \in Holder /\ turns[i] \in Nat /\ \A k \in Msg : text[k] \in Nat
  BY DEF CarryTypes
<1>2. QED
  BY <1>1 DEF CarryTypes, Moves, Holder, Holds, Release, Free

\* A drain starts over.
LEMMA CheckMove ==
  ASSUME CarryTypes, NEW i \in Runtime, Holds(i, [Free EXCEPT !.pc = "check"])
  PROVE  Moves(i) /\ holder'[i].pc = "check"
<1>1. holder[i] \in Holder /\ turns[i] \in Nat /\ \A k \in Msg : text[k] \in Nat
  BY DEF CarryTypes
<1>2. QED
  BY <1>1 DEF CarryTypes, Moves, Holder, Holds, Free

\* A drain chooses a message.
LEMMA ChooseMove ==
  ASSUME CarryTypes, NEW i \in Runtime, NEW m \in Msg, Holds(i, [Free EXCEPT !.pc = "snapshot", !.msg = m, !.body = text[m]])
  PROVE  Moves(i) /\ holder'[i].pc = "snapshot" /\ holder'[i].msg \in Msg
<1>1. holder[i] \in Holder /\ turns[i] \in Nat /\ \A k \in Msg : text[k] \in Nat
  BY DEF CarryTypes
<1>2. QED
  BY Zenon, <1>1 DEF CarryTypes, Moves, Holder, Holds, Free

\* A steer takes the gate.
LEMMA SteerMove ==
  ASSUME CarryTypes, NEW i \in Runtime, NEW m \in Msg, Holds(i, [Free EXCEPT !.kind = "steer", !.pc = "admit", !.msg = m])
  PROVE  Moves(i) /\ holder'[i].pc = "admit" /\ holder'[i].msg \in Msg
<1>1. holder[i] \in Holder /\ turns[i] \in Nat /\ \A k \in Msg : text[k] \in Nat
  BY DEF CarryTypes
<1>2. QED
  BY Zenon, <1>1 DEF CarryTypes, Moves, Holder, Holds, Free

\* A drain saw its harness idle.
LEMMA ReadyMove ==
  ASSUME CarryTypes, NEW i \in Runtime, Holds(i, [holder[i] EXCEPT !.pc = "admit"])
  PROVE  Moves(i) /\ holder'[i].pc = "admit" /\ holder'[i].msg = holder[i].msg
<1>1. holder[i] \in Holder /\ turns[i] \in Nat /\ \A k \in Msg : text[k] \in Nat
  BY DEF CarryTypes
<1>2. QED
  BY <1>1 DEF CarryTypes, Moves, Holder, Holds

\* A task takes over its message.
LEMMA AdmitMove ==
  ASSUME CarryTypes, NEW i \in Runtime, holder[i].msg \in Msg, Holds(i, Admitted(i))
  PROVE  Moves(i) /\ holder'[i].pc = "images" /\ holder'[i].msg = holder[i].msg
<1>1. holder[i] \in Holder /\ turns[i] \in Nat /\ \A k \in Msg : text[k] \in Nat
  BY DEF CarryTypes
<1>2. QED
  BY Zenon, <1>1 DEF CarryTypes, Moves, Holder, Holds, Admitted

\* A task sends its prompt.
LEMMA PromptMove ==
  ASSUME CarryTypes, NEW i \in Runtime, Holds(i, [holder[i] EXCEPT !.pc = "prompt"])
  PROVE  Moves(i) /\ holder'[i].pc = "prompt" /\ holder'[i].msg = holder[i].msg
<1>1. holder[i] \in Holder /\ turns[i] \in Nat /\ \A k \in Msg : text[k] \in Nat
  BY DEF CarryTypes
<1>2. QED
  BY <1>1 DEF CarryTypes, Moves, Holder, Holds

\* A task has its answer.
LEMMA AnswerMove ==
  ASSUME CarryTypes, NEW i \in Runtime, NEW a \in {"accepted", "rejected", "unknown"}, Answered(i, a)
  PROVE  Moves(i) /\ holder'[i].pc = "settle" /\ holder'[i].msg = holder[i].msg /\ holder'[i].answer = a
<1>1. holder[i] \in Holder /\ turns[i] \in Nat /\ \A k \in Msg : text[k] \in Nat
  BY DEF CarryTypes
<1>2. QED
  BY Zenon, <1>1 DEF CarryTypes, Moves, Holder, Holds, Answered

\* The steps of a drain up to its admission of a message.
LEMMA DrainStartKept == DeliveryInv /\ DrainStart => DeliveryInv'
<1> SUFFICES ASSUME DeliveryInv, DrainStart PROVE DeliveryInv'
  OBVIOUS
<1>1. CarryTypes /\ UNCHANGED <<status, text, turns, live, opened, late, taken>>
  BY DEF DeliveryInv, DrainStart, queue, runtimes, observed
<1>2. CASE live = 0
  <2>1. UNCHANGED holder
    BY <1>2 DEF DrainStart
  <2>2. CarryTypes'
    BY <1>1, <2>1 DEF CarryTypes
  <2>3. QED
    BY <1>1, <2>1, <2>2, QuietStep
<1>3. CASE live # 0
  <2>1. live \in Runtime
    BY <1>1, <1>3, ComposerConstants DEF CarryTypes, Runtime
  <2>2. Moves(live) /\ holder'[live].pc = "check"
    BY <1>1, <1>3, <2>1, CheckMove DEF DrainStart
  <2>3. CarryTypes'
    BY <1>1, <2>2 DEF CarryTypes, Moves
  <2>4. QED
    BY <1>1, <2>1, <2>2, <2>3, QuietStep DEF Moves
<1>4. QED
  BY <1>2, <1>3

\* A drain gives up or chooses a message.
LEMMA DrainCheckKept == ASSUME DeliveryInv, NEW i \in Runtime, DrainCheck(i) PROVE DeliveryInv'
<1>1. CarryTypes /\ UNCHANGED <<status, text, turns, live, opened, late, taken>>
  BY Zenon DEF DeliveryInv, DrainCheck, queue, runtimes, observed
<1>2. Moves(i) /\ (holder'[i].pc = "free" \/ (holder'[i].pc = "snapshot" /\ holder'[i].msg \in Msg))
  <2>1. ASSUME Release(i) PROVE Moves(i) /\ holder'[i].pc = "free"
    BY SMTT(30), <1>1, <2>1, ReleaseMove
  <2>2. ASSUME NEW m \in Msg, Holds(i, [Free EXCEPT !.pc = "snapshot", !.msg = m, !.body = text[m]])
        PROVE  Moves(i) /\ holder'[i].pc = "snapshot" /\ holder'[i].msg \in Msg
    BY Zenon, <1>1, <2>2, ChooseMove
  <2>3. Release(i) \/ \E m \in Msg : Holds(i, [Free EXCEPT !.pc = "snapshot", !.msg = m, !.body = text[m]])
    BY Zenon DEF DrainCheck
  <2>4. QED
    BY Zenon, <2>1, <2>2, <2>3
<1>3. CarryTypes'
  BY <1>1, <1>2 DEF CarryTypes, Moves
<1>4. QED
  BY SMTT(30), <1>1, <1>2, <1>3, QuietStep DEF Moves

\* A drain asks its harness whether it is idle.
LEMMA DrainSnapshotKept == ASSUME DeliveryInv, NEW i \in Runtime, DrainSnapshot(i) PROVE DeliveryInv'
<1>1. CarryTypes /\ UNCHANGED <<status, text, turns, live, opened, late, taken>>
  BY DEF DeliveryInv, DrainSnapshot, queue, observed
<1>2. holder[i].msg \in Msg
  BY DEF DeliveryInv, CarrierKnown, DrainSnapshot, At
<1>3. Moves(i) /\ (holder'[i].pc = "free" \/ (holder'[i].pc = "admit" /\ holder'[i].msg = holder[i].msg))
  <2>1. ASSUME Release(i) PROVE Moves(i) /\ holder'[i].pc = "free"
    BY <1>1, <2>1, ReleaseMove
  <2>2. ASSUME Holds(i, [holder[i] EXCEPT !.pc = "admit"])
        PROVE  Moves(i) /\ holder'[i].pc = "admit" /\ holder'[i].msg = holder[i].msg
    BY <1>1, <2>2, ReadyMove
  <2>3. Release(i) \/ Holds(i, [holder[i] EXCEPT !.pc = "admit"])
    BY DEF DrainSnapshot, ReleaseAndPause
  <2>4. QED
    BY <2>1, <2>2, <2>3
<1>4. CarryTypes'
  BY <1>1, <1>3 DEF CarryTypes, Moves
<1>5. QED
  BY <1>1, <1>2, <1>3, <1>4, QuietStep DEF Moves

\* A task takes its message over, or lets its gate go.
LEMMA AdmitKept ==
  ASSUME DeliveryInv, NEW i \in Runtime, holder[i].pc = "admit",
         UNCHANGED <<text, turns, live, opened, late, taken>>,
         \/ UNCHANGED status /\ Release(i)
         \/ /\ status[holder[i].msg] = "Queued"
            /\ \E saved \in BOOLEAN :
                 /\ ChangeQueue(Deliver(holder[i].msg, "Sending"), paused, saved)
                 /\ (saved /\ Holds(i, Admitted(i))) \/ (~saved /\ Release(i))
  PROVE  DeliveryInv'
<1> DEFINE m == holder[i].msg
<1>1. CarryTypes /\ m \in Msg
  BY DEF DeliveryInv, CarrierKnown
<1>2. CASE UNCHANGED status /\ Release(i)
  <2>1. Moves(i) /\ holder'[i].pc = "free"
    BY <1>1, <1>2, ReleaseMove
  <2>2. CarryTypes'
    BY <1>1, <1>2, <2>1 DEF CarryTypes, Moves
  <2>3. QED
    BY <1>2, <2>1, <2>2, QuietStep DEF Moves
<1>3. ASSUME status[m] = "Queued", NEW saved \in BOOLEAN, ChangeQueue(Deliver(m, "Sending"), paused, saved),
             (saved /\ Holds(i, Admitted(i))) \/ (~saved /\ Release(i))
      PROVE  DeliveryInv'
  <2>1. status' \in {status, [status EXCEPT ![m] = "Sending"]} /\ (saved => status' = [status EXCEPT ![m] = "Sending"])
    BY <1>3, ChangeQueueEffect DEF Deliver
  <2>2. status' \in [Msg -> Delivery \cup {"Absent"}]
    BY <1>1, <2>1 DEF CarryTypes, Delivery
  <2>3. CASE saved
    <3>1. Moves(i) /\ holder'[i].pc = "images" /\ holder'[i].msg = m
      BY <1>1, <1>3, <2>3, AdmitMove
    <3>2. CarryTypes'
      BY <1>1, <2>2, <3>1 DEF CarryTypes, Moves
    <3>3. QED
      BY <1>3, <2>1, <2>3, <3>1, <3>2, AdmittingStep DEF Moves
  <2>4. CASE ~saved
    <3>1. Moves(i) /\ holder'[i].pc = "free"
      BY <1>1, <1>3, <2>4, ReleaseMove
    <3>2. CarryTypes'
      BY <1>1, <2>2, <3>1 DEF CarryTypes, Moves
    <3>3. \A j \in Runtime : InFlight(j) => holder[j].msg # m
      BY <1>3 DEF DeliveryInv, CarriedOnce, CarriesAlone
    <3>4. \A j \in Runtime : LetsGo(j, m)
      BY <3>1, <3>3 DEF Moves, LetsGo
    <3>5. UNCHANGED <<taken, late>> /\ "Sending" \notin {"Absent", "Queued"}
      OBVIOUS
    <3>6. QED
      BY <1>1, <2>1, <3>2, <3>4, <3>5, SettlingStep
  <2>5. QED
    BY <2>3, <2>4
<1>4. QED
  BY <1>2, <1>3

\* A drain admits the message it chose.
LEMMA DrainAdmitKept == ASSUME DeliveryInv, NEW i \in Runtime, DrainAdmit(i) PROVE DeliveryInv'
<1>1. holder[i].pc = "admit" /\ UNCHANGED <<text, turns, live, opened, late, taken>>
  BY DEF DrainAdmit, At, observed
<1>2. \/ UNCHANGED status /\ Release(i)
      \/ /\ status[holder[i].msg] = "Queued"
         /\ \E saved \in BOOLEAN :
              /\ ChangeQueue(Deliver(holder[i].msg, "Sending"), paused, saved)
              /\ (saved /\ Holds(i, Admitted(i))) \/ (~saved /\ Release(i))
  BY DEF DrainAdmit, MayAdmit, ReleaseAndPause
<1>3. QED
  BY <1>1, <1>2, AdmitKept

\* A steer admits its message.
LEMMA SteerAdmitKept == ASSUME DeliveryInv, NEW i \in Runtime, SteerAdmit(i) PROVE DeliveryInv'
<1>1. holder[i].pc = "admit" /\ UNCHANGED <<text, turns, live, opened, late, taken>>
  BY DEF SteerAdmit, At, runtimes, observed
<1>2. \/ UNCHANGED status /\ Release(i)
      \/ /\ status[holder[i].msg] = "Queued"
         /\ \E saved \in BOOLEAN :
              /\ ChangeQueue(Deliver(holder[i].msg, "Sending"), paused, saved)
              /\ (saved /\ Holds(i, Admitted(i))) \/ (~saved /\ Release(i))
  BY DEF SteerAdmit
<1>3. QED
  BY <1>1, <1>2, AdmitKept

\* The images of a message are gone: it goes back to the queue unsent.
LEMMA HoldMessageKept == ASSUME DeliveryInv, NEW i \in Runtime, HoldMessage(i) PROVE DeliveryInv'
<1> DEFINE m == holder[i].msg
<1>1. CarryTypes /\ UNCHANGED <<text, turns, live, opened, late, taken>> /\ Release(i)
  BY DEF DeliveryInv, HoldMessage, ReleaseAndPause
<1>2. InFlight(i) /\ m \in Msg /\ Untouched(m) /\ \A j \in Runtime : j # i /\ InFlight(j) => holder[j].msg # m
  BY DEF DeliveryInv, CarriedOnce, CarriesAlone, InFlight, HoldMessage
<1>3. status' \in {status, [status EXCEPT ![m] = "Queued"]}
  BY Zenon, ChangeQueueEffect DEF HoldMessage, Held, Deliver
<1>4. Moves(i) /\ holder'[i].pc = "free"
  BY <1>1, ReleaseMove
<1>5. CarryTypes'
  BY <1>1, <1>2, <1>3, <1>4 DEF CarryTypes, Moves, Delivery
<1>6. \A j \in Runtime : LetsGo(j, m)
  BY <1>2, <1>4 DEF Moves, LetsGo
<1>7. QED
  BY <1>1, <1>2, <1>3, <1>5, <1>6, SettlingStep

\* A task sends its prompt.
LEMMA SendPromptKept == ASSUME DeliveryInv, NEW i \in Runtime, SendPrompt(i) PROVE DeliveryInv'
<1>1. CarryTypes /\ UNCHANGED <<status, text, turns, live, opened, late, taken>> /\ holder[i].pc = "images"
  BY DEF DeliveryInv, SendPrompt, queue, observed
<1>2. Moves(i) /\ holder'[i].pc = "prompt" /\ holder'[i].msg = holder[i].msg
  BY <1>1, PromptMove DEF SendPrompt
<1>3. CarryTypes'
  BY <1>1, <1>2 DEF CarryTypes, Moves
<1>4. QED
  BY <1>1, <1>2, <1>3, QuietStep DEF Moves

\* A prompt is answered: nobody took the message, or the harness did, or the
\* request may still arrive.
LEMMA AnsweredStep ==
  ASSUME DeliveryInv, CarryTypes', UNCHANGED status,
         NEW i \in Runtime, holder[i].pc = "prompt",
         NEW a \in {"accepted", "rejected", "unknown"},
         Moves(i), holder'[i].pc = "settle", holder'[i].msg = holder[i].msg, holder'[i].answer = a,
         \/ UNCHANGED <<taken, late>>
         \/ a # "rejected" /\ taken' = [taken EXCEPT ![holder[i].msg] = @ + 1] /\ UNCHANGED late
         \/ a # "rejected" /\ UNCHANGED taken /\ late' = late \cup {<<i, holder[i].msg>>}
  PROVE  DeliveryInv'
<1> DEFINE m == holder[i].msg
<1>1. m \in Msg /\ status[m] = "Sending" /\ Untouched(m) /\ \A j \in Runtime : j # i /\ InFlight(j) => holder[j].msg # m
  BY DEF DeliveryInv, CarriedOnce, CarriesAlone, InFlight
<1>2. \A k \in Msg : k # m => taken'[k] = taken[k] /\ \A j \in Runtime : <<j, k>> \in late' <=> <<j, k>> \in late
  BY <1>1 DEF DeliveryInv, CarryTypes
<1>3. taken'[m] \in {0, 1}
  BY <1>1 DEF DeliveryInv, CarryTypes, Untouched
<1>4. \A j \in Runtime : <<j, m>> \in late' => j = i /\ taken'[m] = 0
  BY <1>1 DEF Untouched
<1>5. a = "rejected" => Untouched(m)'
  BY <1>1 DEF Untouched
<1>6. \A j \in Runtime : j # i => holder'[j] = holder[j] /\ (InFlight(j)' => InFlight(j))
  BY DEF Moves, InFlight
<1>7. CarriedOnce'
  <2> SUFFICES ASSUME NEW k \in Runtime, InFlight(k)'
               PROVE  CarriesAlone(k)'
    BY DEF CarriedOnce
  <2>1. CASE k = i
    BY <2>1, <1>1, <1>5, <1>6 DEF CarriesAlone
  <2>2. CASE k # i
    BY <2>2, <1>1, <1>2, <1>6 DEF DeliveryInv, CarriedOnce, CarriesAlone, Untouched
  <2>3. QED
    BY <2>1, <2>2
<1>8. WaitingUntouched'
  BY <1>1, <1>2 DEF DeliveryInv, WaitingUntouched, Untouched
<1>9. LateOnce'
  BY <1>1, <1>2, <1>4 DEF DeliveryInv, LateOnce
<1>10. CarrierKnown'
  BY <1>6 DEF DeliveryInv, CarrierKnown
<1>11. AtMostOnce'
  BY <1>2, <1>3 DEF DeliveryInv, AtMostOnce
<1>12. QED
  BY <1>7, <1>8, <1>9, <1>10, <1>11 DEF DeliveryInv

\* The harness takes the message.
LEMMA NativeTakesKept == ASSUME DeliveryInv, NEW i \in Runtime, NativeTakes(i) PROVE DeliveryInv'
<1>1. CarryTypes /\ UNCHANGED <<status, text, turns, live, opened, late>> /\ holder[i].pc = "prompt"
  BY DEF DeliveryInv, NativeTakes, queue
<1>2. PICK a \in {"accepted", "unknown"} : Answered(i, a)
  BY DEF NativeTakes
<1>3. a \in {"accepted", "rejected", "unknown"} /\ a # "rejected"
  BY <1>2
<1>4. Moves(i) /\ holder'[i].pc = "settle" /\ holder'[i].msg = holder[i].msg /\ holder'[i].answer = a
  BY <1>1, <1>2, <1>3, AnswerMove
<1>5. taken' = [taken EXCEPT ![holder[i].msg] = @ + 1] /\ holder[i].msg \in Msg
  BY <1>1 DEF NativeTakes, Take, DeliveryInv, CarriedOnce, CarriesAlone, InFlight
<1>6. CarryTypes'
  BY <1>1, <1>4, <1>5 DEF CarryTypes, Moves
<1>7. QED
  BY Zenon, <1>1, <1>3, <1>4, <1>5, <1>6, AnsweredStep

\* The harness is busy or gone.
LEMMA NativeRefusesKept == ASSUME DeliveryInv, NEW i \in Runtime, NativeRefuses(i) PROVE DeliveryInv'
<1>1. CarryTypes /\ UNCHANGED <<status, text, turns, live, opened, late, taken>> /\ holder[i].pc = "prompt"
  BY DEF DeliveryInv, NativeRefuses, queue, runtimes, observed
<1>2. PICK a \in {"accepted", "rejected", "unknown"} : Answered(i, a)
  BY DEF NativeRefuses
<1>3. Moves(i) /\ holder'[i].pc = "settle" /\ holder'[i].msg = holder[i].msg /\ holder'[i].answer = a
  BY <1>1, <1>2, AnswerMove
<1>4. CarryTypes'
  BY <1>1, <1>3 DEF CarryTypes, Moves
<1>5. QED
  BY <1>1, <1>2, <1>3, <1>4, AnsweredStep

\* The harness declines, or the request times out.
LEMMA NativeDeclinesKept == ASSUME DeliveryInv, NEW i \in Runtime, NativeDeclines(i) PROVE DeliveryInv'
<1>1. CarryTypes /\ UNCHANGED <<status, text, turns, live, opened, taken>> /\ holder[i].pc = "prompt"
  BY DEF DeliveryInv, NativeDeclines, queue, runtimes, observed
<1>2. PICK a \in {"rejected", "unknown"} :
        /\ Answered(i, a)
        /\ \/ UNCHANGED late
           \/ a # "rejected" /\ late' = late \cup {<<i, holder[i].msg>>}
  BY DEF NativeDeclines
<1>3. a \in {"accepted", "rejected", "unknown"}
  BY <1>2
<1>4. Moves(i) /\ holder'[i].pc = "settle" /\ holder'[i].msg = holder[i].msg /\ holder'[i].answer = a
  BY <1>1, <1>2, <1>3, AnswerMove
<1>5. holder[i].msg \in Msg
  BY <1>1 DEF DeliveryInv, CarriedOnce, CarriesAlone, InFlight
<1>6. CarryTypes'
  BY <1>1, <1>2, <1>4, <1>5 DEF CarryTypes, Moves
<1>7. QED
  BY <1>1, <1>2, <1>3, <1>4, <1>6, AnsweredStep

\* A request arrives after its answer timed out.
LEMMA NativeTakesLateKept ==
  ASSUME DeliveryInv, NEW i \in Runtime, NEW m \in Msg, NativeTakesLate(i, m) PROVE DeliveryInv'
<1>1. CarryTypes /\ UNCHANGED <<status, text, turns, live, opened, holder>> /\ <<i, m>> \in late
      /\ late' = late \ {<<i, m>>} /\ taken' \in {taken, [taken EXCEPT ![m] = @ + 1]}
  BY DEF DeliveryInv, NativeTakesLate, queue, Take
<1>2. taken[m] = 0 /\ (\A j \in Runtime : <<j, m>> \notin late') /\ ~Untouched(m)
  BY <1>1 DEF DeliveryInv, LateOnce, Untouched
<1>3. taken'[m] \in {0, 1}
        /\ \A k \in Msg : k # m => taken'[k] = taken[k] /\ \A j \in Runtime : <<j, k>> \in late' <=> <<j, k>> \in late
  BY <1>1, <1>2 DEF CarryTypes
<1>4. CarryTypes'
  BY <1>1 DEF CarryTypes
<1>5. CarriedOnce'
  <2>1. \A k \in Msg : Untouched(k) => Untouched(k)'
    BY <1>2, <1>3 DEF Untouched
  <2>2. \A j \in Runtime : InFlight(j)' => InFlight(j)
    BY <1>1 DEF InFlight
  <2>3. QED
    BY <1>1, <2>1, <2>2 DEF DeliveryInv, CarriedOnce, CarriesAlone, InFlight
<1>6. WaitingUntouched'
  BY <1>1, <1>2, <1>3 DEF DeliveryInv, WaitingUntouched, Untouched
<1>7. LateOnce'
  BY <1>2, <1>3 DEF DeliveryInv, LateOnce
<1>8. QED
  BY <1>1, <1>3, <1>4, <1>5, <1>6, <1>7 DEF DeliveryInv, CarrierKnown, AtMostOnce

\* settle_message: only a refused message goes back to the queue.
LEMMA SettleMessageKept == ASSUME DeliveryInv, NEW i \in Runtime, SettleMessage(i) PROVE DeliveryInv'
<1> DEFINE m == holder[i].msg
           d == Settled(holder[i].answer)
<1>1. CarryTypes /\ UNCHANGED <<text, turns, live, opened, late, taken>> /\ holder[i].pc = "settle"
  BY DEF DeliveryInv, SettleMessage
<1>2. InFlight(i) /\ m \in Msg /\ (holder[i].answer = "rejected" => Untouched(m))
        /\ \A j \in Runtime : j # i /\ InFlight(j) => holder[j].msg # m
  BY <1>1 DEF DeliveryInv, CarriedOnce, CarriesAlone, InFlight
<1>3. d \in Delivery /\ (d \in {"Absent", "Queued"} => Untouched(m))
  BY <1>2 DEF Settled, Delivery
<1>4. status' \in {status, [status EXCEPT ![m] = d]}
  <2>1. \E pa, saved \in BOOLEAN : ChangeQueue(Deliver(m, d), pa, saved)
    BY Zenon DEF SettleMessage, Deliver
  <2>2. QED
    BY <2>1, ChangeQueueEffect DEF Deliver
<1>5. Moves(i) /\ holder'[i].pc \in {"free", "check"}
  <2>1. ASSUME Release(i) PROVE Moves(i) /\ holder'[i].pc = "free"
    BY <1>1, <2>1, ReleaseMove
  <2>2. ASSUME Holds(i, [Free EXCEPT !.pc = "check"]) PROVE Moves(i) /\ holder'[i].pc = "check"
    BY <1>1, <2>2, CheckMove
  <2>3. Release(i) \/ Holds(i, [Free EXCEPT !.pc = "check"])
    BY Zenon DEF SettleMessage, ReleaseAndPause
  <2>4. QED
    BY <2>1, <2>2, <2>3
<1>6. CarryTypes'
  BY <1>1, <1>2, <1>3, <1>4, <1>5 DEF CarryTypes, Moves
<1>7. \A j \in Runtime : LetsGo(j, m)
  BY <1>2, <1>5 DEF Moves, LetsGo
<1> HIDE DEF d
<1>8. QED
  BY <1>1, <1>2, <1>3, <1>4, <1>6, <1>7, SettlingStep

\* Send: a message that waits for the first time was taken by nobody.
LEMMA EnqueueEffect ==
  ASSUME DeliveryInv, NEW m \in Msg, \E saved \in BOOLEAN : Enqueue(m, saved)
  PROVE  UNCHANGED status
         \/ /\ status' = [status EXCEPT ![m] = "Queued"]
            /\ Untouched(m)
            /\ \A j \in Runtime : InFlight(j) => holder[j].msg # m
<1>1. CASE status[m] # "Absent"
  BY <1>1 DEF Enqueue
<1>2. CASE status[m] = "Absent"
  <2>1. status' \in {status, [status EXCEPT ![m] = "Queued"]}
    BY <1>2, ChangeQueueEffect DEF Enqueue, Deliver
  <2>2. Untouched(m) /\ \A j \in Runtime : InFlight(j) => holder[j].msg # m
    BY <1>2 DEF DeliveryInv, WaitingUntouched, CarriedOnce, CarriesAlone
  <2>3. QED
    BY <2>1, <2>2
<1>3. QED
  BY <1>1, <1>2

\* A person sends a message.
LEMMA SendKept == ASSUME DeliveryInv, NEW m \in Msg, Send(m) PROVE DeliveryInv'
<1>1. CarryTypes /\ UNCHANGED <<text, turns, live, opened, holder, late, taken>>
        /\ \E saved \in BOOLEAN : Enqueue(m, saved)
  BY DEF DeliveryInv, Send, runtimes, observed
<1>2. CASE UNCHANGED status
  <2>1. CarryTypes'
    BY <1>1, <1>2 DEF CarryTypes
  <2>2. QED
    BY <1>1, <1>2, <2>1, QuietStep
<1>3. CASE /\ status' = [status EXCEPT ![m] = "Queued"]
           /\ Untouched(m)
           /\ \A j \in Runtime : InFlight(j) => holder[j].msg # m
  <2>1. CarryTypes'
    BY <1>1, <1>3 DEF CarryTypes, Delivery
  <2>2. \A j \in Runtime : LetsGo(j, m)
    BY <1>1, <1>3 DEF LetsGo
  <2>3. status' \in {status, [status EXCEPT ![m] = "Queued"]} /\ Untouched(m)
    BY <1>3
  <2>4. QED
    BY <1>1, <2>1, <2>2, <2>3, SettlingStep
<1>4. QED
  BY <1>1, <1>2, <1>3, EnqueueEffect

\* A person steers a message, new or waiting.
LEMMA SteerKept == ASSUME DeliveryInv, NEW m \in Msg, NEW new \in BOOLEAN, Steer(m, new) PROVE DeliveryInv'
<1>1. CarryTypes /\ UNCHANGED <<text, turns, live, opened, late, taken>>
        /\ (UNCHANGED status \/ \E saved \in BOOLEAN : Enqueue(m, saved))
        /\ (UNCHANGED holder \/ Holds(live, [Free EXCEPT !.kind = "steer", !.pc = "admit", !.msg = m]))
  BY DEF DeliveryInv, Steer, runtimes
<1>2. live \in Runtime
  BY <1>1, ComposerConstants DEF Steer, Ready, CarryTypes, Runtime
<1>3. Moves(live) /\ (UNCHANGED holder \/ (holder'[live].pc = "admit" /\ holder'[live].msg \in Msg))
  <2>1. CASE UNCHANGED holder
    BY SMTT(30), <1>1, <2>1 DEF Moves, CarryTypes
  <2>2. ASSUME Holds(live, [Free EXCEPT !.kind = "steer", !.pc = "admit", !.msg = m])
        PROVE  Moves(live) /\ holder'[live].pc = "admit" /\ holder'[live].msg \in Msg
    BY Zenon, <1>1, <1>2, <2>2, SteerMove
  <2>3. QED
    BY <1>1, <2>1, <2>2
<1>4. CASE UNCHANGED status
  <2>1. CarryTypes'
    BY <1>1, <1>3, <1>4 DEF CarryTypes, Moves
  <2>2. \A i \in Runtime : \/ holder'[i] = holder[i]
                           \/ holder'[i].pc \in {"snapshot", "admit"} /\ holder'[i].msg \in Msg
    BY <1>3 DEF Moves
  <2>3. QED
    BY <1>1, <1>4, <2>1, <2>2, QuietStep
<1>5. CASE /\ status' = [status EXCEPT ![m] = "Queued"]
           /\ Untouched(m)
           /\ \A j \in Runtime : InFlight(j) => holder[j].msg # m
  <2>1. CarryTypes'
    BY <1>1, <1>3, <1>5 DEF CarryTypes, Delivery, Moves
  <2>2. \A j \in Runtime : LetsGo(j, m)
    BY <1>3, <1>5 DEF LetsGo, Moves
  <2>3. status' \in {status, [status EXCEPT ![m] = "Queued"]} /\ Untouched(m)
    BY <1>5
  <2>4. QED
    BY <1>1, <2>1, <2>2, <2>3, SettlingStep
<1>6. QED
  BY <1>1, <1>4, <1>5, EnqueueEffect

\* A person removes a message that nobody carries.
LEMMA RemoveKept == ASSUME DeliveryInv, NEW m \in Msg, Remove(m) PROVE DeliveryInv'
<1>1. CarryTypes /\ UNCHANGED <<text, turns, live, opened, holder, late, taken>>
  BY DEF DeliveryInv, Remove, runtimes, observed
<1>2. status' \in {status, [status EXCEPT ![m] = "Cancelled"]}
  BY ChangeQueueEffect DEF Remove, Deliver
<1>3. \A j \in Runtime : LetsGo(j, m)
  BY <1>1 DEF DeliveryInv, CarriedOnce, CarriesAlone, Remove, LetsGo
<1>4. CarryTypes'
  BY <1>1, <1>2 DEF CarryTypes, Delivery
<1>5. "Cancelled" \notin {"Absent", "Queued"}
  OBVIOUS
<1>6. QED
  BY <1>1, <1>2, <1>3, <1>4, <1>5, SettlingStep

\* The host restarts: no task and no request survives it.
LEMMA RestartKept == DeliveryInv /\ Restart => DeliveryInv'
<1> SUFFICES ASSUME DeliveryInv, Restart PROVE DeliveryInv'
  OBVIOUS
<1>1. Free \in Holder /\ Free.pc = "free"
  BY DEF Free, Holder
<1>2. CarryTypes'
  BY <1>1, ComposerConstants DEF DeliveryInv, CarryTypes, Restart, Recover, Delivery
<1>3. \A i \in Runtime : holder'[i].pc = "free"
  BY <1>1 DEF Restart
<1>4. \A m \in Msg : status'[m] \in {"Absent", "Queued"} => status[m] \in {"Absent", "Queued"}
  BY DEF Restart, Recover
<1>5. CarriedOnce' /\ CarrierKnown'
  BY <1>3 DEF CarriedOnce, CarrierKnown, InFlight
<1>6. UNCHANGED taken /\ late' = {}
  BY DEF Restart
<1>7. WaitingUntouched' /\ LateOnce' /\ AtMostOnce'
  BY <1>4, <1>6 DEF DeliveryInv, WaitingUntouched, Untouched, LateOnce, AtMostOnce
<1>8. QED
  BY <1>2, <1>5, <1>7 DEF DeliveryInv

\* The forwarder counts turns and withdraws a runtime that exited.
LEMMA EventAppliesKept == ASSUME DeliveryInv, NEW i \in Runtime, EventApplies(i) PROVE DeliveryInv'
<1>1. CarryTypes /\ UNCHANGED <<status, text, opened, holder, late, taken>>
  BY DEF DeliveryInv, EventApplies, queue, observed
<1>2. turns' \in {turns, [turns EXCEPT ![i] = @ + 1]} /\ live' \in {0, live}
  BY DEF EventApplies
<1>3. CarryTypes'
  BY <1>1, <1>2 DEF CarryTypes
<1>4. QED
  BY <1>1, <1>3, QuietStep

\* Steps that concern neither a message nor a task.
LEMMA ElsewhereKept ==
  ASSUME DeliveryInv, UNCHANGED <<status, turns, holder, late, taken>>,
         text' \in [Msg -> Nat], live' \in 0..opened', opened' \in 0..MaxOpens
  PROVE  DeliveryInv'
<1>1. CarryTypes'
  BY DEF DeliveryInv, CarryTypes
<1>2. QED
  BY <1>1, QuietStep

\* Every step keeps the invariant.
LEMMA DeliveryNext == DeliveryInv /\ [Next]_vars => DeliveryInv'
<1> SUFFICES ASSUME DeliveryInv, [Next]_vars PROVE DeliveryInv'
  OBVIOUS
<1>1. text \in [Msg -> Nat] /\ live \in 0..opened /\ opened \in 0..MaxOpens
  BY DEF DeliveryInv, CarryTypes
<1>2. CASE UNCHANGED vars
  BY <1>1, <1>2, ElsewhereKept DEF vars, queue, runtimes, observed
<1>3. CASE SendLook \/ Unpause \/ StopTurn \/ Retire
  BY <1>1, <1>3, ElsewhereKept DEF SendLook, Unpause, StopTurn, Retire, queue, runtimes, observed
<1>4. CASE Compact \/ BeginStop \/ BeginClose \/ DirectSend
  BY <1>1, <1>4, ElsewhereKept DEF Compact, BeginStop, BeginClose, DirectSend, queue, observed
<1>5. CASE Withdraw
  <2>1. UNCHANGED <<status, turns, holder, late, taken, text, opened>> /\ live' = 0
    BY <1>5 DEF Withdraw, queue, observed
  <2>2. QED
    BY <1>1, <2>1, ElsewhereKept, ComposerConstants
<1>6. CASE Open
  <2>1. UNCHANGED <<status, turns, holder, late, taken, text>>
    BY <1>6 DEF Open, queue, observed
  <2>2. live' \in 0..opened' /\ opened' \in 0..MaxOpens
    BY <1>1, <1>6, ComposerConstants DEF Open
  <2>3. QED
    BY <1>1, <2>1, <2>2, ElsewhereKept
<1>7. ASSUME NEW who \in pausing, PauseRecord(who) PROVE DeliveryInv'
  <2>1. UNCHANGED <<status, turns, holder, late, taken, text, live, opened>>
    BY Zenon, <1>7, ChangeQueueEffect DEF PauseRecord, runtimes
  <2>2. QED
    BY <1>1, <2>1, ElsewhereKept
<1>8. CASE Resume
  <2>1. UNCHANGED <<status, turns, holder, late, taken, text, live, opened>>
    BY Zenon, <1>8, ChangeQueueEffect DEF Resume, runtimes
  <2>2. QED
    BY <1>1, <2>1, ElsewhereKept
<1>9. ASSUME NEW m \in Msg, Edit(m) PROVE DeliveryInv'
  <2>1. UNCHANGED <<status, turns, holder, late, taken, live, opened>>
          /\ text' \in {text, [text EXCEPT ![m] = @ + 1]}
    BY <1>9, ChangeQueueEffect DEF Edit, runtimes, observed
  <2>2. text' \in [Msg -> Nat]
    BY <1>1, <2>1
  <2>3. QED
    BY <1>1, <2>1, <2>2, ElsewhereKept
<1>10. ASSUME NEW i \in Runtime, EventPauses(i) \/ NativeFinishes(i) \/ NativeExits(i) PROVE DeliveryInv'
  BY <1>1, <1>10, ElsewhereKept DEF EventPauses, NativeFinishes, NativeExits, queue, observed
<1>11. ASSUME NEW i \in Runtime, Task(i) \/ Harness(i) PROVE DeliveryInv'
  BY <1>11, DrainCheckKept, DrainSnapshotKept, DrainAdmitKept, SendPromptKept, SettleMessageKept, SteerAdmitKept,
     NativeTakesKept, NativeRefusesKept DEF Task, Harness
<1>12. ASSUME NEW i \in Runtime, HoldMessage(i) \/ NativeDeclines(i) \/ EventApplies(i) PROVE DeliveryInv'
  BY <1>12, HoldMessageKept, NativeDeclinesKept, EventAppliesKept
<1>13. ASSUME NEW i \in Runtime, NEW m \in Msg, NativeTakesLate(i, m) PROVE DeliveryInv'
  BY <1>13, NativeTakesLateKept
<1>14. ASSUME NEW m \in Msg, Send(m) \/ Remove(m) \/ \E new \in BOOLEAN : Steer(m, new) PROVE DeliveryInv'
  BY <1>14, SendKept, RemoveKept, SteerKept
<1>15. CASE Restart \/ DrainStart
  BY <1>15, RestartKept, DrainStartKept
<1>16. QED
  BY <1>2, <1>3, <1>4, <1>5, <1>6, <1>7, <1>8, <1>9, <1>10, <1>11, <1>12, <1>13, <1>14, <1>15
     DEF Next, Host, Person, Mishap, Forwarder

\* No message of the outbox reaches a native harness twice, whatever saves
\* fail, answers are lost, runtimes close with a drain under way and hosts
\* restart.
THEOREM DeliveredAtMostOnce == Spec => []AtMostOnce
<1>1. DeliveryInv => AtMostOnce
  BY SMTT(30) DEF DeliveryInv
<1>2. QED
  BY <1>1, DeliveryInit, DeliveryNext, PTL DEF Spec

\* A step changes the status of a tombstone only by taking it over or settling
\* it, and only a waiting or a carried message is taken over or settled.
LEMMA TombstoneStep ==
  ASSUME DeliveryInv, Next, NEW m \in Msg, status[m] \in {"Sent", "Cancelled"}
  PROVE  status'[m] = status[m]
<1>1. status \in [Msg -> Delivery \cup {"Absent"}]
  BY DEF DeliveryInv, CarryTypes
<1>2. ASSUME NEW k, NEW d, status' \in {status, [status EXCEPT ![k] = d]}, k # m PROVE status'[m] = status[m]
  BY SMTT(30), <1>1, <1>2
<1>3. ASSUME NEW i \in Runtime, InFlight(i) PROVE holder[i].msg # m
  BY <1>3 DEF DeliveryInv, CarriedOnce, CarriesAlone
<1>4. ASSUME NEW i \in Runtime, DrainAdmit(i) PROVE status'[m] = status[m]
  <2>1. CASE UNCHANGED status
    BY <2>1
  <2>2. CASE status[holder[i].msg] = "Queued" /\ status' \in {status, [status EXCEPT ![holder[i].msg] = "Sending"]}
    BY <2>2, <1>2
  <2>3. QED
    BY <1>4, <2>1, <2>2, ChangeQueueEffect DEF DrainAdmit, MayAdmit, Deliver
<1>5. ASSUME NEW i \in Runtime, SteerAdmit(i) PROVE status'[m] = status[m]
  <2>1. CASE UNCHANGED status
    BY <2>1
  <2>2. CASE status[holder[i].msg] = "Queued" /\ status' \in {status, [status EXCEPT ![holder[i].msg] = "Sending"]}
    BY <2>2, <1>2
  <2>3. QED
    BY <1>5, <2>1, <2>2, ChangeQueueEffect DEF SteerAdmit, Deliver
<1>6. ASSUME NEW i \in Runtime, HoldMessage(i) PROVE status'[m] = status[m]
  <2>1. InFlight(i) /\ status' \in {status, [status EXCEPT ![holder[i].msg] = "Queued"]}
    BY Zenon, <1>6, ChangeQueueEffect DEF HoldMessage, Held, Deliver, InFlight
  <2>2. QED
    BY <1>2, <1>3, <2>1
<1>7. ASSUME NEW i \in Runtime, SettleMessage(i) PROVE status'[m] = status[m]
  <2>1. \E saved \in BOOLEAN, pa \in BOOLEAN :
          ChangeQueue([status EXCEPT ![holder[i].msg] = Settled(holder[i].answer)], pa, saved)
    BY Zenon, <1>7 DEF SettleMessage, Deliver
  <2>2. InFlight(i) /\ status' \in {status, [status EXCEPT ![holder[i].msg] = Settled(holder[i].answer)]}
    BY <1>7, <2>1, ChangeQueueEffect DEF SettleMessage, InFlight
  <2>3. QED
    BY <1>2, <1>3, <2>2
<1>8. ASSUME NEW k \in Msg, NEW saved \in BOOLEAN, Enqueue(k, saved) PROVE status'[m] = status[m]
  <2>1. CASE status[k] # "Absent"
    BY <1>8, <2>1 DEF Enqueue
  <2>2. CASE status[k] = "Absent"
    BY SMTT(30), <1>2, <1>8, <2>2, ChangeQueueEffect DEF Enqueue, Deliver
  <2>3. QED
    BY <2>1, <2>2
<1>9. ASSUME NEW k \in Msg, Remove(k) PROVE status'[m] = status[m]
  <2>1. CASE k = m
    BY <1>9, <2>1 DEF Remove
  <2>2. CASE k # m
    BY <1>2, <1>9, <2>2, ChangeQueueEffect DEF Remove, Deliver
  <2>3. QED
    BY <2>1, <2>2
<1>10. ASSUME NEW k \in Msg, Send(k) \/ Edit(k) \/ \E new \in BOOLEAN : Steer(k, new) PROVE status'[m] = status[m]
  BY <1>8, <1>10, ChangeQueueEffect DEF Send, Edit, Steer
<1>11. ASSUME Resume \/ \E who \in pausing : PauseRecord(who) PROVE status'[m] = status[m]
  BY Zenon, <1>11, ChangeQueueEffect DEF Resume, PauseRecord
<1>12. ASSUME Restart PROVE status'[m] = status[m]
  BY <1>12 DEF Restart, Recover
<1>13. ASSUME SendLook \/ Unpause \/ StopTurn \/ Withdraw \/ Retire \/ DrainStart
              \/ Compact \/ BeginStop \/ BeginClose \/ Open \/ DirectSend
       PROVE  status'[m] = status[m]
  BY <1>13 DEF SendLook, Unpause, StopTurn, Withdraw, Retire, DrainStart, Compact, BeginStop, BeginClose, Open,
               DirectSend, queue
<1>14. ASSUME NEW i \in Runtime, NEW k \in Msg,
              DrainCheck(i) \/ DrainSnapshot(i) \/ SendPrompt(i) \/ EventPauses(i) \/ EventApplies(i) \/ Harness(i)
              \/ NativeFinishes(i) \/ NativeDeclines(i) \/ NativeExits(i) \/ NativeTakesLate(i, k)
       PROVE  status'[m] = status[m]
  BY Zenon, <1>14 DEF DrainCheck, DrainSnapshot, SendPrompt, EventPauses, EventApplies, Harness, NativeTakes,
               NativeRefuses, NativeFinishes, NativeDeclines, NativeExits, NativeTakesLate, queue
<1>15. QED
  BY Zenon, <1>4, <1>5, <1>6, <1>7, <1>9, <1>10, <1>11, <1>12, <1>13, <1>14
     DEF Next, Host, Person, Mishap, Forwarder, Task

\* A delivered or dismissed id stays a tombstone through every later send,
\* steer, settlement and restart.
THEOREM TombstonesAlwaysStay == Spec => TombstonesStay
<1>1. DeliveryInv /\ [Next]_vars =>
        [\A m \in Msg : status[m] \in {"Sent", "Cancelled"} => status'[m] = status[m]]_vars
  BY TombstoneStep
<1>2. QED
  BY <1>1, DeliveryInit, DeliveryNext, PTL DEF Spec, TombstonesStay

(***************************************************************************)
(* The order of the follow-ups, whatever saves fail.  InOrder is not       *)
(* inductive: a drain chooses its message two awaits before it takes it    *)
(* over.  The invariant is about every drain with a message: all that was  *)
(* enqueued before the message is delivered or dismissed, and tombstones   *)
(* stay.                                                                   *)
(***************************************************************************)
Final == {"Sent", "Cancelled"}

\* The conjuncts of TypeOK about the outbox file.
OutboxOK ==
  /\ items \in Seq(Msg)
  /\ \A m \in Msg : status[m] # "Absent" <=> \E n \in 1..Len(items) : items[n] = m
  /\ \A n, k \in 1..Len(items) : items[n] = items[k] => n = k

Foremost(m) == \A p, q \in 1..Len(items) : items[q] = m /\ p < q => status[items[p]] \in Final

Draining(i) == holder[i].kind = "drain" /\ holder[i].pc \in {"snapshot", "admit", "images", "prompt", "settle"}

DrainsForemost ==
  \A i \in Runtime : Draining(i) => holder[i].msg \in Msg /\ status[holder[i].msg] # "Absent" /\ Foremost(holder[i].msg)

\* What a step may do to the task of runtime i.
Rests(i) == holder'[i].kind = "drain" /\ holder'[i].pc \in {"free", "check"} /\ holder'[i].body = 0
Proceeds(i) ==
  /\ holder'[i].kind = holder[i].kind /\ holder'[i].msg = holder[i].msg
  /\ <<holder[i].pc, holder'[i].pc>> \in
       {<<"snapshot", "admit">>, <<"admit", "images">>, <<"images", "prompt">>, <<"prompt", "settle">>}
  /\ UNCHANGED text
  /\ holder'[i].body = IF holder[i].pc = "admit" THEN text[holder[i].msg] ELSE holder[i].body
Chooses(i) ==
  /\ holder'[i].kind = "drain" /\ holder'[i].pc = "snapshot"
  /\ holder'[i].msg \in Msg /\ OldestQueued(holder'[i].msg)
  /\ holder'[i].body = text[holder'[i].msg]
  /\ ~Unsettled /\ UNCHANGED <<items, status, text>>
Steers(i) ==
  /\ holder[i] = Free /\ cmd = NoCommand
  /\ holder'[i].kind = "steer" /\ holder'[i].pc = "admit" /\ holder'[i].body = 0
  /\ cmd' = [op |-> "steer", msg |-> holder'[i].msg, on |-> i]

\* One task moves and the others keep their records.
LEMMA OneMoves ==
  ASSUME CarryTypes, NEW j \in Runtime, NEW h, Holds(j, h), NEW i \in Runtime
  PROVE  holder'[i] = IF i = j THEN h ELSE holder[i]
BY DEF CarryTypes, Holds

LEMMA FreeFields == Free.kind = "drain" /\ Free.pc = "free" /\ Free.body = 0
BY DEF Free

\* Every task rests, proceeds, chooses a message or starts a steer.
LEMMA TaskMoves ==
  ASSUME DeliveryInv, Next, NEW i \in Runtime
  PROVE  UNCHANGED holder[i] \/ Rests(i) \/ Proceeds(i) \/ Chooses(i) \/ Steers(i)
<1>1. CarryTypes /\ holder[i] \in Holder /\ holder \in [Runtime -> Holder]
  BY DEF DeliveryInv, CarryTypes
<1> DEFINE Goal == UNCHANGED holder[i] \/ Rests(i) \/ Proceeds(i) \/ Chooses(i) \/ Steers(i)
<1>2. ASSUME NEW j \in Runtime, Release(j) PROVE Goal
  BY <1>1, <1>2, OneMoves, FreeFields DEF Release, Rests
<1>3. ASSUME NEW j \in Runtime, Holds(j, [Free EXCEPT !.pc = "check"]) PROVE Goal
  <2>1. i # j => UNCHANGED holder[i]
    BY <1>1, <1>3 DEF Holds
  <2>2. i = j => Rests(i)
    BY <1>1, <1>3 DEF Holds, Holder, Rests, Free
  <2>3. QED
    BY <2>1, <2>2
<1>4. ASSUME NEW j \in Runtime, NEW p, Holds(j, [holder[j] EXCEPT !.pc = p]),
             <<holder[j].pc, p>> \in {<<"snapshot", "admit">>, <<"images", "prompt">>}, UNCHANGED text
      PROVE  Goal
  <2>1. i # j => UNCHANGED holder[i]
    BY <1>1, <1>4 DEF Holds
  <2>2. i = j => Proceeds(i)
    BY <1>1, <1>4 DEF Holds, Holder, Proceeds
  <2>3. QED
    BY <2>1, <2>2
<1>5. ASSUME NEW j \in Runtime, NEW a, Answered(j, a), holder[j].pc = "prompt", UNCHANGED text PROVE Goal
  <2>1. i # j => UNCHANGED holder[i]
    BY <1>1, <1>5 DEF Holds, Answered
  <2>2. i = j => Proceeds(i)
    BY <1>1, <1>5 DEF Holds, Holder, Proceeds, Answered
  <2>3. QED
    BY <2>1, <2>2
<1>6. ASSUME NEW j \in Runtime, Holds(j, Admitted(j)), holder[j].pc = "admit", UNCHANGED text PROVE Goal
  <2>1. i # j => UNCHANGED holder[i]
    BY <1>1, <1>6 DEF Holds, Admitted
  <2>2. i = j => Proceeds(i)
    BY SMTT(30), <1>1, <1>6 DEF Holds, Holder, Proceeds, Admitted
  <2>3. QED
    BY <2>1, <2>2
<1>7. ASSUME NEW j \in Runtime, DrainCheck(j) PROVE Goal
  <2>1. CASE Release(j)
    BY <1>2, <2>1
  <2>2. ASSUME NEW m \in Msg, OldestQueued(m), ~Unsettled,
               Holds(j, [Free EXCEPT !.pc = "snapshot", !.msg = m, !.body = text[m]])
        PROVE  Goal
    <3>1. UNCHANGED <<items, status, text>>
      BY Zenon, <1>7 DEF DrainCheck, queue
    <3>2. i = j => /\ holder'[i].kind = "drain" /\ holder'[i].pc = "snapshot" /\ holder'[i].msg = m
                   /\ holder'[i].body = text[m]
      BY <1>1, <2>2 DEF Holds, Free
    <3>3. i # j => UNCHANGED holder[i]
      BY SMTT(30), <1>1, <2>2, OneMoves
    <3>4. QED
      BY SMTT(30), <2>2, <3>1, <3>2, <3>3 DEF Chooses
  <2>3. QED
    BY Zenon, <1>7, <2>1, <2>2 DEF DrainCheck
<1>8. ASSUME NEW j \in Runtime, Task(j) \/ Harness(j) \/ HoldMessage(j) \/ NativeDeclines(j) PROVE Goal
  <2>1. ASSUME DrainSnapshot(j) PROVE Goal
    BY SMTT(30), <1>2, <1>4, <2>1 DEF DrainSnapshot, At, ReleaseAndPause, queue
  <2>2. ASSUME DrainAdmit(j) PROVE Goal
    BY SMTT(30), <1>2, <1>6, <2>2 DEF DrainAdmit, At, ReleaseAndPause
  <2>3. ASSUME SteerAdmit(j) PROVE Goal
    BY <1>2, <1>6, <2>3 DEF SteerAdmit, At
  <2>4. ASSUME SendPrompt(j) PROVE Goal
    BY <1>4, <2>4 DEF SendPrompt, queue
  <2>5. ASSUME SettleMessage(j) PROVE Goal
    BY Zenon, <1>2, <1>3, <2>5 DEF SettleMessage, ReleaseAndPause
  <2>6. ASSUME HoldMessage(j) PROVE Goal
    BY <1>2, <2>6 DEF HoldMessage, ReleaseAndPause
  <2>7. ASSUME NativeTakes(j) \/ NativeRefuses(j) \/ NativeDeclines(j) PROVE Goal
    BY <1>5, <2>7 DEF NativeTakes, NativeRefuses, NativeDeclines, queue
  <2>8. QED
    BY Zenon, <1>7, <1>8, <2>1, <2>2, <2>3, <2>4, <2>5, <2>6, <2>7 DEF Task, Harness
<1>9. ASSUME DrainStart PROVE Goal
  <2>1. CASE live = 0
    BY <1>9, <2>1 DEF DrainStart
  <2>2. CASE live # 0
    <3>1. live \in Runtime
      BY <1>1, <2>2, ComposerConstants DEF CarryTypes, Runtime
    <3>2. QED
      BY <1>3, <1>9, <2>2, <3>1 DEF DrainStart
  <2>3. QED
    BY <2>1, <2>2
<1>10. ASSUME NEW m \in Msg, NEW new \in BOOLEAN, Steer(m, new) PROVE Goal
  <2>1. live \in Runtime /\ cmd = NoCommand /\ holder[live] = Free
    BY <1>1, <1>10, ComposerConstants DEF Steer, Ready, CarryTypes, Runtime
  <2>2. CASE UNCHANGED holder
    BY <2>2
  <2>3. CASE /\ cmd' = [op |-> "steer", msg |-> m, on |-> live]
             /\ Holds(live, [Free EXCEPT !.kind = "steer", !.pc = "admit", !.msg = m])
    <3>1. i = live => holder'[i].kind = "steer" /\ holder'[i].pc = "admit" /\ holder'[i].msg = m /\ holder'[i].body = 0
      BY <1>1, <2>1, <2>3 DEF Holds, Free
    <3>2. i # live => UNCHANGED holder[i]
      BY SMTT(30), <1>1, <2>1, <2>3, OneMoves
    <3>3. QED
      BY <2>1, <2>3, <3>1, <3>2 DEF Steers
  <2>4. QED
    BY <1>10, <2>2, <2>3 DEF Steer
<1>11. ASSUME Restart PROVE Goal
  BY Zenon, <1>11, FreeFields DEF Restart, Rests
<1>12. ASSUME \/ SendLook \/ Unpause \/ StopTurn \/ Withdraw \/ Retire \/ Resume \/ Compact \/ BeginStop
              \/ BeginClose \/ Open \/ DirectSend
              \/ \E who \in pausing : PauseRecord(who)
              \/ \E m \in Msg : Send(m) \/ Edit(m) \/ Remove(m)
       PROVE  Goal
  BY Zenon, <1>12 DEF SendLook, Unpause, StopTurn, Withdraw, Retire, Resume, Compact, BeginStop, BeginClose, Open,
               DirectSend, PauseRecord, Send, Edit, Remove
<1>13. ASSUME NEW j \in Runtime,
              Forwarder(j) \/ NativeFinishes(j) \/ NativeExits(j) \/ \E m \in Msg : NativeTakesLate(j, m)
       PROVE  Goal
  BY Zenon, <1>13 DEF Forwarder, EventPauses, EventApplies, NativeFinishes, NativeExits, NativeTakesLate
<1> HIDE DEF Goal
<1>14. Goal
  BY <1>8, <1>9, <1>10, <1>11, <1>12, <1>13 DEF Next, Host, Person, Mishap, Task, Forwarder
<1>15. QED
  BY <1>14 DEF Goal

\* A step leaves the outbox's ids alone, or appends one that is new.
LEMMA ItemsStep ==
  ASSUME DeliveryInv, Next
  PROVE  \/ items' = items /\ \A m \in Msg : status'[m] = "Absent" <=> status[m] = "Absent"
         \/ \E m \in Msg : status[m] = "Absent" /\ status' = [status EXCEPT ![m] = "Queued"] /\ items' = Append(items, m)
<1>1. status \in [Msg -> Delivery \cup {"Absent"}]
  BY DEF DeliveryInv, CarryTypes
<1> DEFINE Same == \A m \in Msg : status'[m] = "Absent" <=> status[m] = "Absent"
           Goal == \/ items' = items /\ Same
                   \/ \E m \in Msg : /\ status[m] = "Absent"
                                     /\ status' = [status EXCEPT ![m] = "Queued"]
                                     /\ items' = Append(items, m)
<1>2. ASSUME NEW k \in Msg, NEW d, d # "Absent", status[k] # "Absent", status' \in {status, [status EXCEPT ![k] = d]}
      PROVE  Same
  BY SMTT(30), <1>1, <1>2
<1>3. ASSUME NEW j \in Runtime, InFlight(j) PROVE holder[j].msg \in Msg /\ status[holder[j].msg] # "Absent"
  BY Zenon, <1>3 DEF DeliveryInv, CarriedOnce, CarriesAlone
<1>4. ASSUME NEW j \in Runtime, DrainAdmit(j) \/ SteerAdmit(j) PROVE Goal
  <2>1. holder[j].msg \in Msg /\ items' = items
    BY Zenon, <1>4 DEF DeliveryInv, CarrierKnown, DrainAdmit, SteerAdmit, At
  <2>2. CASE UNCHANGED status
    BY <2>1, <2>2
  <2>3. CASE status[holder[j].msg] = "Queued" /\ status' \in {status, [status EXCEPT ![holder[j].msg] = "Sending"]}
    BY Zenon, <1>2, <2>1, <2>3
  <2>4. QED
    BY Zenon, <1>4, <2>2, <2>3, ChangeQueueEffect DEF DrainAdmit, SteerAdmit, MayAdmit, Deliver
<1>5. ASSUME NEW j \in Runtime, HoldMessage(j) PROVE Goal
  <2>1. InFlight(j) /\ items' = items /\ status' \in {status, [status EXCEPT ![holder[j].msg] = "Queued"]}
    BY Zenon, <1>5, ChangeQueueEffect DEF HoldMessage, Held, Deliver, InFlight
  <2>2. QED
    BY Zenon, <1>2, <1>3, <2>1
<1>6. ASSUME NEW j \in Runtime, SettleMessage(j) PROVE Goal
  <2>1. \E saved \in BOOLEAN, pa \in BOOLEAN :
          ChangeQueue([status EXCEPT ![holder[j].msg] = Settled(holder[j].answer)], pa, saved)
    BY Zenon, <1>6 DEF SettleMessage, Deliver
  <2>2. /\ InFlight(j) /\ items' = items
        /\ status' \in {status, [status EXCEPT ![holder[j].msg] = Settled(holder[j].answer)]}
    BY <1>6, <2>1, ChangeQueueEffect DEF SettleMessage, InFlight
  <2>3. Settled(holder[j].answer) # "Absent"
    BY DEF Settled
  <2>4. QED
    BY <1>2, <1>3, <2>2, <2>3
<1>7. ASSUME NEW m \in Msg, NEW saved \in BOOLEAN, Enqueue(m, saved) PROVE Goal
  <2>1. CASE status[m] # "Absent"
    BY <1>7, <2>1 DEF Enqueue
  <2>2. CASE status[m] = "Absent"
    <3>1. status' \in {status, [status EXCEPT ![m] = "Queued"]} /\ items' = IF status' = status THEN items ELSE Append(items, m)
      BY <1>7, <2>2, ChangeQueueEffect DEF Enqueue, Deliver
    <3>2. QED
      BY <2>2, <3>1
  <2>3. QED
    BY <2>1, <2>2
<1>8. ASSUME NEW m \in Msg, Remove(m) PROVE Goal
  <2>1. /\ status[m] # "Absent" /\ items' = items
        /\ status' \in {status, [status EXCEPT ![m] = "Cancelled"]}
    BY <1>8, ChangeQueueEffect DEF Remove, Deliver
  <2>2. QED
    BY SMTT(30), <1>2, <2>1
<1>9. ASSUME NEW m \in Msg, Send(m) \/ Edit(m) \/ \E new \in BOOLEAN : Steer(m, new) PROVE Goal
  BY <1>7, <1>9, ChangeQueueEffect DEF Send, Edit, Steer
<1>10. ASSUME Resume \/ \E who \in pausing : PauseRecord(who) PROVE Goal
  BY Zenon, <1>10, ChangeQueueEffect DEF Resume, PauseRecord
<1>11. ASSUME Restart PROVE Goal
  BY <1>11 DEF Restart, Recover
<1>12. ASSUME SendLook \/ Unpause \/ StopTurn \/ Withdraw \/ Retire \/ DrainStart
              \/ Compact \/ BeginStop \/ BeginClose \/ Open \/ DirectSend
       PROVE  Goal
  BY <1>12 DEF SendLook, Unpause, StopTurn, Withdraw, Retire, DrainStart, Compact, BeginStop, BeginClose, Open,
               DirectSend, queue
<1>13. ASSUME NEW i \in Runtime,
              DrainCheck(i) \/ DrainSnapshot(i) \/ SendPrompt(i) \/ Forwarder(i) \/ Harness(i)
              \/ NativeFinishes(i) \/ NativeDeclines(i) \/ NativeExits(i) \/ \E m \in Msg : NativeTakesLate(i, m)
       PROVE  Goal
  BY Zenon, <1>13 DEF DrainCheck, DrainSnapshot, SendPrompt, Forwarder, EventPauses, EventApplies, Harness, NativeTakes,
               NativeRefuses, NativeFinishes, NativeDeclines, NativeExits, NativeTakesLate, queue
<1> HIDE DEF Goal
<1>14. Goal
  BY <1>4, <1>5, <1>6, <1>8, <1>9, <1>10, <1>11, <1>12, <1>13 DEF Next, Host, Person, Mishap, Task
<1>15. QED
  BY <1>14 DEF Goal

\* The ids stay distinct, and are those with a status.
LEMMA OutboxNext ==
  ASSUME DeliveryInv, OutboxOK, [Next]_vars
  PROVE  OutboxOK'
<1>1. status \in [Msg -> Delivery \cup {"Absent"}]
  BY DEF DeliveryInv, CarryTypes
<1>2. CASE items' = items /\ \A m \in Msg : status'[m] = "Absent" <=> status[m] = "Absent"
  BY <1>2 DEF OutboxOK
<1>3. ASSUME NEW m \in Msg, status[m] = "Absent", status' = [status EXCEPT ![m] = "Queued"], items' = Append(items, m)
      PROVE  OutboxOK'
  <2>1. /\ items' \in Seq(Msg) /\ Len(items') = Len(items) + 1 /\ Len(items) \in Nat
        /\ items'[Len(items) + 1] = m /\ \A n \in 1..Len(items) : items'[n] = items[n]
    BY <1>3 DEF OutboxOK
  <2>2. \A n \in 1..Len(items) : items[n] # m
    BY <1>3 DEF OutboxOK
  <2>3. \A k \in Msg : status'[k] # "Absent" <=> (k = m \/ status[k] # "Absent")
    BY <1>1, <1>3
  <2>4. \A n \in 1..Len(items') : n \in 1..Len(items) \/ n = Len(items) + 1
    BY <2>1
  <2>5. \A n \in 1..Len(items) : n \in 1..Len(items')
    BY <2>1
  <2>6. Len(items) + 1 \in 1..Len(items')
    BY <2>1
  <2>7. \A k \in Msg : status'[k] # "Absent" <=> \E n \in 1..Len(items') : items'[n] = k
    BY <2>1, <2>3, <2>4, <2>5, <2>6 DEF OutboxOK
  <2>8. \A n, k \in 1..Len(items') : items'[n] = items'[k] => n = k
    BY <2>1, <2>2, <2>4 DEF OutboxOK
  <2>9. QED
    BY <2>1, <2>7, <2>8 DEF OutboxOK
<1>4. CASE UNCHANGED vars
  BY <1>4 DEF vars, queue, OutboxOK
<1>5. QED
  BY <1>2, <1>3, <1>4, ItemsStep

\* The place of an id in the outbox.
LEMMA PositionIs ==
  ASSUME OutboxOK, NEW n \in 1..Len(items), NEW m, items[n] = m
  PROVE  Position(m) = n
<1>1. \E k \in 1..Len(items) : items[k] = m
  OBVIOUS
<1>2. Position(m) \in 1..Len(items) /\ items[Position(m)] = m
  BY <1>1 DEF Position
<1>3. QED
  BY <1>2 DEF OutboxOK

\* A drain that finds nothing unsettled chooses a foremost message.
LEMMA OldestIsForemost ==
  ASSUME DeliveryInv, OutboxOK, NEW m \in Msg, OldestQueued(m), ~Unsettled
  PROVE  status[m] # "Absent" /\ Foremost(m)
<1>1. status[m] = "Queued"
  BY DEF OldestQueued
<1>2. ASSUME NEW p \in 1..Len(items), NEW q \in 1..Len(items), items[q] = m, p < q
      PROVE  status[items[p]] \in Final
  <2>1. items[p] \in Msg /\ items[p] # m /\ p \in Nat /\ q \in Nat
    BY <1>2 DEF OutboxOK
  <2>2. status[items[p]] \in Delivery
    BY <2>1 DEF OutboxOK, DeliveryInv, CarryTypes
  <2>3. status[items[p]] \notin {"Sending", "Uncertain"}
    BY <2>1 DEF Unsettled, InStatus
  <2>4. status[items[p]] # "Queued"
    <3>1. Position(items[p]) = p /\ Position(m) = q
      BY <1>2, PositionIs
    <3>2. status[items[p]] = "Queued" => Before(m, items[p])
      BY <2>1 DEF OldestQueued, InStatus
    <3>3. QED
      BY <1>2, <2>1, <3>1, <3>2 DEF Before
  <2>5. QED
    BY <2>2, <2>3, <2>4 DEF Delivery, Final
<1>3. QED
  BY <1>1, <1>2 DEF Foremost

\* A foremost message stays foremost.
LEMMA ForemostStays ==
  ASSUME DeliveryInv, OutboxOK, OutboxOK', Next, NEW m \in Msg, status[m] # "Absent", Foremost(m)
  PROVE  status'[m] # "Absent" /\ Foremost(m)'
<1>1. \A k \in Msg : status[k] \in Final => status'[k] \in Final
  BY TombstoneStep DEF Final
<1>2. \A n \in 1..Len(items) : items[n] \in Msg
  BY SMTT(30) DEF OutboxOK
<1>3. CASE items' = items /\ \A k \in Msg : status'[k] = "Absent" <=> status[k] = "Absent"
  BY <1>1, <1>2, <1>3 DEF Foremost
<1>4. ASSUME NEW k \in Msg, status[k] = "Absent", status' = [status EXCEPT ![k] = "Queued"], items' = Append(items, k)
      PROVE  status'[m] # "Absent" /\ Foremost(m)'
  <2>1. /\ Len(items') = Len(items) + 1 /\ Len(items) \in Nat
        /\ \A n \in 1..Len(items) : items'[n] = items[n]
    BY <1>4 DEF OutboxOK
  <2>2. status'[m] # "Absent"
    BY SMTT(30), <1>4 DEF DeliveryInv, CarryTypes
  <2>3. PICK r \in 1..Len(items) : items[r] = m
    BY SMTT(30) DEF OutboxOK
  <2>4. r \in 1..Len(items') /\ items'[r] = m
    BY <2>1, <2>3
  <2>5. \A q \in 1..Len(items') : items'[q] = m => q = r
    BY <2>4 DEF OutboxOK
  <2>6. \A p \in 1..Len(items') : p < r => p \in 1..Len(items) /\ items'[p] = items[p]
    BY <2>1, <2>3
  <2>7. \A p \in 1..Len(items') : p < r => status'[items'[p]] \in Final
    BY <1>1, <1>2, <2>3, <2>6 DEF Foremost
  <2>8. QED
    BY <2>2, <2>5, <2>7 DEF Foremost
<1>5. QED
  BY <1>3, <1>4, ItemsStep

\* Every step keeps the messages of the drains foremost.
LEMMA DrainsForemostNext ==
  ASSUME DeliveryInv, OutboxOK, DrainsForemost, [Next]_vars
  PROVE  DrainsForemost'
<1>1. CASE UNCHANGED vars
  BY SMTT(30), <1>1 DEF vars, queue, DrainsForemost, Draining, Foremost
<1>2. ASSUME Next, NEW i \in Runtime, Draining(i)'
      PROVE  (holder[i].msg \in Msg /\ status[holder[i].msg] # "Absent" /\ Foremost(holder[i].msg))'
  <2>1. OutboxOK'
    BY <1>2, OutboxNext
  <2>2. ASSUME Draining(i), holder'[i].msg = holder[i].msg
        PROVE  (holder[i].msg \in Msg /\ status[holder[i].msg] # "Absent" /\ Foremost(holder[i].msg))'
    <3> DEFINE m == holder[i].msg
    <3>1. m \in Msg /\ status[m] # "Absent" /\ Foremost(m)
      BY <2>2 DEF DrainsForemost
    <3>2. m' = m
      BY <2>2
    <3>3. ASSUME NEW k \in Msg, status[k] # "Absent", Foremost(k) PROVE status'[k] # "Absent" /\ Foremost(k)'
      BY SMTT(30), <1>2, <2>1, <3>3, ForemostStays
    <3>4. QED
      BY <3>1, <3>2, <3>3 DEF Foremost
  <2>3. ASSUME Chooses(i)
        PROVE  (holder[i].msg \in Msg /\ status[holder[i].msg] # "Absent" /\ Foremost(holder[i].msg))'
    <3>1. holder'[i].msg \in Msg /\ status[holder'[i].msg] # "Absent" /\ Foremost(holder'[i].msg)
      BY <2>3, OldestIsForemost DEF Chooses
    <3>2. QED
      BY <2>3, <3>1 DEF Chooses, Foremost
  <2>4. ~Rests(i) /\ ~Steers(i)
    BY <1>2 DEF Draining, Rests, Steers
  <2>5. Proceeds(i) \/ UNCHANGED holder[i] => Draining(i) /\ holder'[i].msg = holder[i].msg
    BY <1>2 DEF Draining, Proceeds
  <2>6. QED
    BY <1>2, <2>2, <2>3, <2>4, <2>5, TaskMoves
<1>3. QED
  BY <1>1, <1>2 DEF DrainsForemost

\* A drain's foremost message is older than any that waits, and of two drains
\* with a message on its way each would be older than the other.
LEMMA ForemostInOrder == DeliveryInv /\ OutboxOK /\ DrainsForemost => InOrder /\ OneFollowUpInFlight
<1> SUFFICES ASSUME DeliveryInv, OutboxOK, DrainsForemost PROVE InOrder /\ OneFollowUpInFlight
  OBVIOUS
<1>1. ASSUME NEW i \in Runtime, Draining(i), NEW k \in Msg, status[k] \notin Final \cup {"Absent"}
      PROVE  ~Before(k, holder[i].msg)
  <2>1. PICK p \in 1..Len(items) : items[p] = k
    BY <1>1 DEF OutboxOK
  <2>2. PICK q \in 1..Len(items) : items[q] = holder[i].msg
    BY <1>1 DEF OutboxOK, DrainsForemost
  <2>3. ~(p < q)
    BY <1>1, <2>1, <2>2 DEF DrainsForemost, Foremost
  <2>4. Position(k) = p /\ Position(holder[i].msg) = q
    BY <2>1, <2>2, PositionIs
  <2>5. QED
    BY <2>3, <2>4 DEF Before
<1>2. InOrder
  BY <1>1 DEF InOrder, Draining, InStatus, Final
<1>3. ASSUME NEW i \in Runtime, NEW j \in Runtime, i # j, InFlight(i), InFlight(j)
      PROVE  holder[i].msg # holder[j].msg /\ "steer" \in {holder[i].kind, holder[j].kind}
  <2>1. /\ holder[i].msg # holder[j].msg /\ holder[i].msg \in Msg /\ holder[j].msg \in Msg
        /\ status[holder[i].msg] = "Sending" /\ status[holder[j].msg] = "Sending"
    BY <1>3 DEF DeliveryInv, CarriedOnce, CarriesAlone
  <2>2. ASSUME Draining(i), Draining(j) PROVE FALSE
    <3>1. ~Before(holder[i].msg, holder[j].msg) /\ ~Before(holder[j].msg, holder[i].msg)
      BY SMTT(30), <1>1, <2>1, <2>2 DEF Final
    <3>2. PICK p \in 1..Len(items) : items[p] = holder[i].msg
      BY Zenon, <2>1 DEF OutboxOK
    <3>3. PICK q \in 1..Len(items) : items[q] = holder[j].msg
      BY <2>1 DEF OutboxOK
    <3>4. Position(holder[i].msg) = p /\ Position(holder[j].msg) = q /\ p # q
      BY <2>1, <3>2, <3>3, PositionIs
    <3>5. QED
      BY <3>1, <3>4 DEF Before
  <2>3. holder[i].kind \in {"drain", "steer"} /\ holder[j].kind \in {"drain", "steer"}
    BY DEF DeliveryInv, CarryTypes, Holder
  <2>4. QED
    BY <1>3, <2>1, <2>2, <2>3 DEF Draining, InFlight
<1>4. OneFollowUpInFlight
  BY <1>3 DEF OneFollowUpInFlight, InFlight
<1>5. QED
  BY <1>2, <1>4

\* Only an edit changes a text.
LEMMA EditOnly == Next => UNCHANGED text \/ \E m \in Msg : Edit(m)
<1>1. ASSUME NEW k \in Msg, Send(k) \/ Remove(k) \/ \E new \in BOOLEAN : Steer(k, new) PROVE UNCHANGED text
  BY <1>1 DEF Send, Remove, Steer
<1>2. ASSUME \/ Resume \/ Restart \/ SendLook \/ Unpause \/ StopTurn \/ Withdraw \/ Retire \/ DrainStart
             \/ Compact \/ BeginStop \/ BeginClose \/ Open \/ DirectSend
             \/ \E who \in pausing : PauseRecord(who)
      PROVE  UNCHANGED text
  BY Zenon, <1>2 DEF Resume, Restart, SendLook, Unpause, StopTurn, Withdraw, Retire, DrainStart, Compact, BeginStop,
              BeginClose, Open, DirectSend, PauseRecord, queue
<1>3. ASSUME NEW i \in Runtime,
             Task(i) \/ HoldMessage(i) \/ Forwarder(i) \/ Harness(i) \/ NativeFinishes(i) \/ NativeDeclines(i)
             \/ NativeExits(i) \/ \E k \in Msg : NativeTakesLate(i, k)
      PROVE  UNCHANGED text
  BY Zenon, <1>3 DEF Task, DrainCheck, DrainSnapshot, DrainAdmit, SendPrompt, SettleMessage, SteerAdmit, HoldMessage,
              Forwarder, EventPauses, EventApplies, Harness, NativeTakes, NativeRefuses, NativeFinishes,
              NativeDeclines, NativeExits, NativeTakesLate, queue
<1>4. QED
  BY <1>1, <1>2, <1>3 DEF Next, Host, Person, Mishap

\* The text of a message changes only while it waits.
LEMMA TextStep ==
  ASSUME DeliveryInv, Next, NEW m \in Msg, status[m] # "Queued"
  PROVE  text'[m] = text[m]
<1>1. text \in [Msg -> Nat]
  BY DEF DeliveryInv, CarryTypes
<1>2. ASSUME NEW k \in Msg, Edit(k) PROVE text'[m] = text[m]
  <2>1. status[k] = "Queued" /\ text' \in {text, [text EXCEPT ![k] = @ + 1]}
    BY <1>2 DEF Edit
  <2>2. QED
    BY <1>1, <2>1
<1>3. QED
  BY <1>2, EditOnly

\* A task carries the text its message had when it was taken over.
LEMMA LatestTextNext ==
  ASSUME DeliveryInv, LatestTextSent, [Next]_vars
  PROVE  LatestTextSent'
<1>1. CASE UNCHANGED vars
  BY <1>1 DEF vars, queue, LatestTextSent
<1>2. ASSUME Next, NEW i \in Runtime, holder'[i].pc \in {"images", "prompt"}
      PROVE  holder'[i].body = text'[holder'[i].msg]
  <2>1. CASE UNCHANGED holder[i]
    <3>1. holder[i].msg \in Msg /\ status[holder[i].msg] = "Sending" /\ holder[i].body = text[holder[i].msg]
      BY <1>2, <2>1 DEF DeliveryInv, CarriedOnce, CarriesAlone, InFlight, LatestTextSent
    <3>2. text'[holder[i].msg] = text[holder[i].msg]
      BY <1>2, <3>1, TextStep
    <3>3. QED
      BY <2>1, <3>1, <3>2
  <2>2. CASE Proceeds(i)
    BY <1>2, <2>2 DEF Proceeds, LatestTextSent
  <2>3. ~Rests(i) /\ ~Chooses(i) /\ ~Steers(i)
    BY <1>2 DEF Rests, Chooses, Steers
  <2>4. QED
    BY <1>2, <2>1, <2>2, <2>3, TaskMoves
<1>3. QED
  BY SMTT(30), <1>1, <1>2 DEF LatestTextSent

OrderInv == DeliveryInv /\ OutboxOK /\ DrainsForemost /\ LatestTextSent

LEMMA OrderInit == Init => OrderInv
<1> SUFFICES ASSUME Init PROVE OrderInv
  OBVIOUS
<1>1. items = <<>> /\ Len(items) = 0 /\ items \in Seq(Msg) /\ \A m \in Msg : status[m] = "Absent"
  BY DEF Init
<1>2. OutboxOK
  BY <1>1 DEF OutboxOK
<1>3. \A i \in Runtime : holder[i] = Free
  BY DEF Init
<1>4. DrainsForemost
  BY <1>3 DEF DrainsForemost, Draining, Free
<1>5. LatestTextSent
  BY <1>3 DEF LatestTextSent, Free
<1>6. QED
  BY <1>2, <1>4, <1>5, DeliveryInit DEF OrderInv

LEMMA OrderNext == OrderInv /\ [Next]_vars => OrderInv'
BY DeliveryNext, OutboxNext, DrainsForemostNext, LatestTextNext DEF OrderInv

\* Follow-ups leave the queue in the order in which they were sent and one at a
\* time over all runtimes of the session, whatever saves fail: also when the
\* drain of a closed runtime goes on beside the drain of the next one.  What is
\* handed over is the text of the last edit that was acknowledged.
THEOREM FollowUpsAlwaysInOrder == Spec => [](InOrder /\ OneFollowUpInFlight /\ LatestTextSent)
<1>1. OrderInv => InOrder /\ OneFollowUpInFlight /\ LatestTextSent
  BY ForemostInOrder DEF OrderInv
<1>2. QED
  BY <1>1, OrderInit, OrderNext, PTL DEF Spec

=============================================================================
