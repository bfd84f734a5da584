-------------------------------- MODULE Fusion --------------------------------
(***************************************************************************)
(* The sidekick broker of one Fusion chat (fusion/broker.rs, fusion/mod.rs *)
(* and the Fusion journal): rounds of the sidekick, their reports and the  *)
(* ways a report reaches the lead.                                         *)
(*                                                                         *)
(* doc is the document behind the slot's lock and disk the newest journal  *)
(* generation; every action that changes doc is one critical section.      *)
(* The starts, watchers, waiters, stops and delivery workers are tasks     *)
(* between two sections.  A round that waits for an approval is modelled   *)
(* as running.  The native sessions are external: nat is what the host     *)
(* sees of them, turn what a round's turn really does.                     *)
(***************************************************************************)
EXTENDS Naturals, FiniteSets, TLC, TLAPS

CONSTANTS
  MaxRound,    \* bound on the rounds of the chat
  MaxLive,     \* MAX_LIVE_BRIEFS
  MaxWait,     \* bound on concurrent tool calls waiting for one round
  MaxFault,    \* bound on failed writes, lost sessions, unclear sends and restarts
  MaxCommand,  \* bound on waits, stops, resets, closed briefs, withdrawals, deletions and
               \* tool answers that do not reach the lead
  Call         \* identities of the lead's brief and message calls

ASSUME FusionType ==
  /\ MaxRound \in Nat /\ MaxLive \in Nat /\ MaxWait \in Nat
  /\ MaxFault \in Nat /\ MaxCommand \in Nat /\ IsFiniteSet(Call)

Round == 1..MaxRound
NoRound == 0
NoBaseline == MaxRound + 1
Idle == 0                   \* a session that works on no round
Offline == MaxRound + 1     \* a session that is not live
Stopper == {"lead", "person", "reset"}

RoundState == {"none", "Queued", "Running", "Stopping", "Finished", "Uncertain"}
Open == {"Queued", "Running", "Stopping"}
\* DeliveryVia and DeliveryState: tool or follow-up; queued, sending, sent, uncertain.
Delivery == {"none", "tool queued", "tool sending", "tool sent", "tool uncertain",
             "post queued", "post sending", "post sent", "post uncertain", "withdrawn"}

VARIABLES
  doc,       \* the document in memory
  disk,      \* the newest journal generation, as a singleton; empty once removed
  auto,      \* the pair's auto_deliver option
  report,    \* rounds whose report is in memory
  start,     \* the start task of each round
  gate,      \* the round that holds send_gate, or NoRound
  stopper,   \* the stop barriers in progress
  wait,      \* tool calls waiting for each round
  unclaimed, \* rounds with a queue_unclaimed task to run
  cached,    \* rounds whose report a call may ask for again
  hand,      \* rounds whose report a tool answer carries right now
  worker,    \* rounds with a delivery worker that waits for an idle lead
  post,      \* rounds whose follow-up is being sent
  watcher,   \* rounds whose turn is watched
  holder,    \* the reset, reconcile or abandon that holds admission
  deleting,  \* the chat was found deletable and is being deleted
  forgotten,
  nat,       \* each sidekick session: Offline, Idle or the round it works on
  turn,      \* what the turn of each round really does
  last,      \* the round that gave each session's last answer
  told,      \* how often the lead was told each report
  echo,      \* retold because a follow-up's failure was not one
  murky,     \* rounds refused although the harness took their prompt
  by,        \* the call that started each round
  late,      \* rounds an overdue stop marked uncertain after they had finished
  unsaved,   \* rounds claimed without a durable record of the claim
  faults, commands

tasks == <<report, start, gate, stopper, wait, unclaimed, cached, hand, worker, post, watcher, holder, deleting>>
native == <<nat, turn, last>>
ghosts == <<told, echo, murky, by, unsaved, late>>
bounds == <<faults, commands>>
vars == <<doc, disk, auto, tasks, forgotten, native, ghosts, bounds>>

Document ==
  [st : [Round -> RoundState], dl : [Round -> Delivery], base : [Round -> 0..NoBaseline],
   ans : [Round -> 0..MaxRound], brief : [Round -> 0..MaxRound], sess : [Round -> 0..MaxRound],
   closed : SUBSET Round, sessions : 0..MaxRound, retired : SUBSET Round,
   next : 0..MaxRound, calls : SUBSET Call]

NoHolder == [op |-> "none", pc |-> "none", r |-> NoRound]
NoStop == [pc |-> "none", r |-> NoRound]

\* Every variable has its type.
TypeOK ==
  /\ doc \in Document /\ disk \subseteq Document /\ Cardinality(disk) <= 1 /\ auto \in BOOLEAN
  /\ report \subseteq Round /\ cached \subseteq Round /\ unclaimed \subseteq Round /\ worker \subseteq Round /\ watcher \subseteq Round
  /\ start \in [Round -> {"none", "open", "ready", "sending", "sent", "refused", "cancelled"}]
  /\ gate \in 0..MaxRound /\ wait \in [Round -> 0..(MaxWait + 1)]
  /\ stopper \in [Stopper -> [pc : {"none", "marked", "waiting", "unproven"}, r : 0..MaxRound]]
  /\ hand \subseteq Round /\ post \subseteq Round
  /\ holder \in [op : {"none", "reset", "reconcile", "abandon"},
                 pc : {"none", "begun", "stopping", "closing", "reading", "finishing", "ended", "closed"},
                 r : 0..MaxRound]
  /\ deleting \in BOOLEAN /\ forgotten \in BOOLEAN
  /\ nat \in [Round -> 0..Offline] /\ turn \in [Round -> {"none", "running", "over"}]
  /\ last \in [Round -> 0..MaxRound] /\ told \in [Round -> Nat] /\ echo \in [Round -> Nat]
  /\ murky \subseteq Round /\ by \in [Round -> Call \cup {"none"}]
  /\ unsaved \subseteq Round /\ late \subseteq Round /\ faults \in 0..MaxFault /\ commands \in 0..MaxCommand

-----------------------------------------------------------------------------
(* The document and its journal. *)

Commanded == commands < MaxCommand /\ commands' = commands + 1
Fault == faults < MaxFault /\ faults' = faults + 1

\* persist: a forgotten pair writes nothing; a failed write leaves the journal.
Persist(d) ==
  /\ doc' = d
  /\ \/ forgotten /\ UNCHANGED <<disk, faults>>
     \/ ~forgotten /\ disk' = {d} /\ UNCHANGED faults
     \/ ~forgotten /\ Fault /\ UNCHANGED disk

\* A write whose failure is undone in memory; done says whether it was written.
PersistOr(d, back, done) ==
  \/ done /\ ~forgotten /\ doc' = d /\ disk' = {d} /\ UNCHANGED faults
  \/ ~done /\ doc' = back /\ UNCHANGED disk
     /\ IF forgotten THEN UNCHANGED faults ELSE Fault

OpenRounds == {r \in Round : doc.st[r] \in Open}
UncertainRounds == {r \in Round : doc.st[r] = "Uncertain"}
Known == {r \in Round : doc.st[r] # "none"}
Briefs(d) == {d.brief[r] : r \in {q \in Round : d.st[q] # "none"}}

\* current_session: the newest session that is not retired.
Current(d) ==
  LET usable == (1..d.sessions) \ d.retired
  IN IF usable = {} THEN NoRound ELSE CHOOSE s \in usable : \A o \in usable : o <= s

Pending(d, r) == d.dl[r] \in {"tool queued", "tool sending", "post queued", "post sending"}
Claimable(r) == doc.dl[r] \in {"none", "tool queued", "post queued"}

\* put_delivery: a withdrawal is final.
Put(r, delivery) == IF doc.dl[r] = "withdrawn" THEN "withdrawn" ELSE delivery

\* fold_old_briefs: the first brief with nothing open or pending leaves the journal.
Settled(d, b) == \A r \in Round : d.st[r] # "none" /\ d.brief[r] = b => d.st[r] = "Finished" /\ ~Pending(d, r)

Fold(d) ==
  LET foldable == {b \in Briefs(d) : Settled(d, b)}
      b == CHOOSE x \in foldable : \A y \in foldable : x <= y
  IN IF Cardinality(Briefs(d)) <= MaxLive \/ foldable = {} THEN d
     ELSE [d EXCEPT !.st = [r \in Round |-> IF d.brief[r] = b THEN "none" ELSE d.st[r]]]

\* The lead's stop waits for the report like a waiting call.
Waiting(r) == wait[r] > 0 \/ stopper["lead"].r = r

\* settle_delivery: whom a finishing round's report is queued for.
SettledForAnyway(r) == IF Waiting(r) \/ ~auto THEN "tool queued" ELSE "post queued"

SettledFor(r) ==
  IF doc.dl[r] # "none" THEN doc.dl[r]
  ELSE IF Waiting(r) \/ ~auto THEN "tool queued" ELSE "post queued"

\* ... and whether a follow-up worker starts.
Workers(r) == IF doc.dl[r] = "none" /\ ~Waiting(r) /\ auto THEN worker \cup {r} ELSE worker

-----------------------------------------------------------------------------
(* Admission of rounds: the brief and message operations. *)

\* admit_round: one writer.
AdmitRound == holder.op = "none" /\ OpenRounds = {} /\ UncertainRounds = {}

\* The same identity again is answered from the records and runs nothing.
Fresh(c) == c \notin doc.calls
Recorded(c) == [doc EXCEPT !.calls = @ \cup {c}]

Queue(c, d) ==
  \/ /\ PersistOr(d, Recorded(c), TRUE)
     /\ start' = [start EXCEPT ![d.next] = "open"]
     /\ by' = [by EXCEPT ![d.next] = c]
  \/ /\ PersistOr(d, Recorded(c), FALSE)
     /\ UNCHANGED <<start, by>>

Brief(c) ==
  /\ ~forgotten /\ Fresh(c) /\ AdmitRound /\ doc.next < MaxRound
  /\ LET n == doc.next + 1
         s == IF Current(doc) # NoRound THEN Current(doc) ELSE doc.sessions + 1
     IN Queue(c, Fold([Recorded(c) EXCEPT !.next = n, !.st[n] = "Queued", !.brief[n] = n,
                                          !.sess[n] = s, !.sessions = IF @ < s THEN s ELSE @]))
  /\ UNCHANGED <<auto, report, gate, stopper, wait, unclaimed, cached, hand, worker, post, watcher, holder,
                 deleting, forgotten, native, told, echo, murky, unsaved, late, commands>>

Message(c, b) ==
  /\ ~forgotten /\ Fresh(c) /\ AdmitRound /\ doc.next < MaxRound
  /\ b \in Briefs(doc) /\ b \notin doc.closed /\ doc.sess[b] = Current(doc)
  /\ LET n == doc.next + 1
     IN Queue(c, [Recorded(c) EXCEPT !.next = n, !.st[n] = "Queued", !.brief[n] = b, !.sess[n] = doc.sess[b]])
  /\ UNCHANGED <<auto, report, gate, stopper, wait, unclaimed, cached, hand, worker, post, watcher, holder,
                 deleting, forgotten, native, told, echo, murky, unsaved, late, commands>>

\* close_brief.
CloseBrief(b) ==
  /\ Commanded
  /\ b \in Briefs(doc) /\ b \notin doc.closed
  /\ \A r \in Known : doc.brief[r] = b => doc.st[r] \notin Open
  /\ Persist([doc EXCEPT !.closed = @ \cup {b}])
  /\ UNCHANGED <<auto, tasks, forgotten, native, ghosts>>

-----------------------------------------------------------------------------
(* start_turn and run_round: the start task of a round. *)

Starting(r, pc) ==
  /\ start' = [start EXCEPT ![r] = pc]
  /\ UNCHANGED <<auto, report, stopper, wait, unclaimed, cached, hand, worker, post, watcher, holder, deleting,
                 forgotten, told, echo, by, unsaved, late, commands>>

\* The session is live already, is opened or launched, or refuses.
StartOpens(r) ==
  /\ start[r] = "open"
  /\ LET s == doc.sess[r]
     IN \/ nat[s] # Offline /\ Starting(r, "ready") /\ UNCHANGED native
        \/ /\ nat[s] = Offline /\ nat' = [nat EXCEPT ![s] = Idle] /\ UNCHANGED <<turn, last>>
           /\ Starting(r, IF doc.st[r] = "Queued" THEN "ready" ELSE "cancelled")
        \/ Starting(r, "refused") /\ UNCHANGED native
  /\ UNCHANGED <<doc, disk, gate, murky, faults>>

\* The document lock is fair: a task that comes for it after a stop's proof
\* timed out finds the round uncertain.
Unlocked == \A k \in Stopper : stopper[k].pc # "unproven"

\* Under send_gate: the baseline reaches the journal before the prompt leaves.
StartAdmits(r) ==
  /\ start[r] = "ready" /\ gate = NoRound /\ Unlocked
  /\ \/ /\ nat[doc.sess[r]] # Offline /\ doc.st[r] = "Queued"
        /\ Persist([doc EXCEPT !.base[r] = last[doc.sess[r]]])
        /\ gate' = r
        /\ Starting(r, "sending")
     \/ /\ nat[doc.sess[r]] = Offline
        /\ Starting(r, "refused")
        /\ UNCHANGED <<doc, disk, gate, faults>>
     \/ /\ nat[doc.sess[r]] # Offline /\ doc.st[r] # "Queued"
        /\ Starting(r, "cancelled")
        /\ UNCHANGED <<doc, disk, gate, faults>>
  /\ UNCHANGED <<native, murky>>

Works(r) == nat' = [nat EXCEPT ![doc.sess[r]] = r] /\ turn' = [turn EXCEPT ![r] = "running"] /\ UNCHANGED last

\* The prompt is accepted, refused, or accepted while the answer is lost.
StartSends(r) ==
  /\ start[r] = "sending"
  /\ gate' = NoRound
  /\ \/ nat[doc.sess[r]] = Idle /\ Works(r) /\ Starting(r, "sent") /\ UNCHANGED <<murky, faults>>
     \/ Starting(r, "refused") /\ UNCHANGED <<native, murky, faults>>
     \/ /\ nat[doc.sess[r]] = Idle /\ Works(r) /\ Starting(r, "refused")
        /\ murky' = murky \cup {r} /\ Fault
  /\ UNCHANGED <<doc, disk>>

Ends(r) == start' = [start EXCEPT ![r] = "none"]

\* The turn runs and gets its watcher; the call goes on to wait, or does not.
StartedRuns(r) ==
  /\ start[r] = "sent"
  /\ Ends(r)
  /\ Persist(IF doc.st[r] = "Queued" THEN [doc EXCEPT !.st[r] = "Running"] ELSE doc)
  /\ watcher' = watcher \cup {r}
  /\ \/ wait' = [wait EXCEPT ![r] = @ + 1]
     \/ UNCHANGED wait
  /\ UNCHANGED <<auto, report, gate, stopper, unclaimed, cached, hand, worker, post, holder, deleting,
                 forgotten, native, ghosts, commands>>

\* A stop reached the round before its prompt was sent.
StartCancelled(r) ==
  /\ start[r] = "cancelled"
  /\ Ends(r)
  /\ IF doc.st[r] \in Open
     THEN /\ Persist([doc EXCEPT !.st[r] = "Finished", !.dl[r] = SettledFor(r)])
          /\ report' = report \cup {r}
          /\ worker' = Workers(r)
     ELSE Persist(doc) /\ UNCHANGED <<report, worker>>
  /\ UNCHANGED <<auto, gate, stopper, wait, unclaimed, cached, hand, post, watcher, holder, deleting,
                 forgotten, native, ghosts, commands>>

\* brief_used_session: another brief of this session has an outcome.
Used(s, b) == \E r \in Known : doc.brief[r] # b /\ doc.sess[r] = s /\ doc.st[r] \in {"Finished", "Uncertain"}

\* The sidekick did not start: a session nothing else used is retired.
StartRefused(r) ==
  /\ start[r] = "refused"
  /\ Ends(r)
  /\ LET retire == IF Used(doc.sess[r], doc.brief[r]) THEN {} ELSE {doc.sess[r]}
     IN Persist([doc EXCEPT !.st[r] = "Finished", !.retired = @ \cup retire])
  /\ UNCHANGED <<auto, report, gate, stopper, wait, unclaimed, cached, hand, worker, post, watcher, holder, deleting,
                 forgotten, native, ghosts, commands>>

-----------------------------------------------------------------------------
(* Native turns and the end of a round. *)

\* The harness ends the turn; it may have answered.
TurnEnds(r) ==
  /\ turn[r] = "running" /\ nat[doc.sess[r]] = r
  /\ turn' = [turn EXCEPT ![r] = "over"]
  /\ nat' = [nat EXCEPT ![doc.sess[r]] = Idle]
  /\ \/ last' = [last EXCEPT ![doc.sess[r]] = r]
     \/ UNCHANGED last
  /\ UNCHANGED <<doc, disk, auto, tasks, forgotten, ghosts, bounds>>

\* A session's runtime goes away and takes its turn along.
Off(s) ==
  /\ nat' = [nat EXCEPT ![s] = Offline]
  /\ turn' = [r \in Round |-> IF nat[s] = r THEN "over" ELSE turn[r]]
  /\ UNCHANGED last

SessionDies(s) ==
  /\ nat[s] # Offline /\ Fault
  /\ Off(s)
  /\ UNCHANGED <<doc, disk, auto, tasks, forgotten, ghosts, commands>>

\* new_answer: the last answer counts only when the baseline is another one.
Answer(r) ==
  IF nat[doc.sess[r]] = Offline \/ last[doc.sess[r]] = doc.base[r] THEN NoRound ELSE last[doc.sess[r]]

\* finish_round: the report and its pending delivery are one write.
FinishRound(r) ==
  IF doc.st[r] \in Open
  THEN /\ Persist([doc EXCEPT !.st[r] = "Finished", !.ans[r] = Answer(r), !.dl[r] = SettledFor(r)])
       /\ report' = report \cup {r}
       /\ worker' = Workers(r)
  ELSE UNCHANGED <<doc, disk, faults, report, worker>>

WatcherFinishes(r) ==
  /\ r \in watcher /\ turn[r] = "over"
  /\ watcher' = watcher \ {r}
  /\ FinishRound(r)
  /\ UNCHANGED <<auto, start, gate, stopper, wait, unclaimed, cached, hand, post, holder, deleting,
                 forgotten, native, ghosts, commands>>

-----------------------------------------------------------------------------
(* Tool calls that wait for a report, and the answer that carries it. *)

\* The wait operation.
WaitCalled(r) ==
  /\ Commanded
  /\ ~forgotten /\ r \in Known /\ wait[r] < MaxWait
  /\ wait' = [wait EXCEPT ![r] = @ + 1]
  /\ UNCHANGED <<doc, disk, auto, report, start, gate, stopper, unclaimed, cached, hand, worker, post, watcher, holder,
                 deleting, forgotten, native, ghosts, faults>>

\* Waiter::drop: the last one hands a report nobody took to queue_unclaimed.
Leaves(r) ==
  /\ wait' = [wait EXCEPT ![r] = @ - 1]
  /\ unclaimed' = IF wait[r] = 1 /\ stopper["lead"].r # r THEN unclaimed \cup {r} ELSE unclaimed

StopLeaves(r) == unclaimed' = IF wait[r] = 0 THEN unclaimed \cup {r} ELSE unclaimed

\* claim: a waiting report is taken for a tool result.
Claim(r) ==
  /\ Persist(IF Claimable(r) THEN [doc EXCEPT !.dl[r] = "tool sending"] ELSE doc)
  /\ hand' = IF Claimable(r) THEN hand \cup {r} ELSE hand
  /\ unsaved' = IF hand' # hand /\ doc' \notin disk' THEN unsaved \cup {r} ELSE unsaved

\* collect: a finished report is claimed, or shown as already delivered.
Collects(r) ==
  /\ wait[r] > 0 /\ ~forgotten
  /\ doc.st[r] = "Finished" /\ doc.dl[r] # "withdrawn" /\ r \in report
  /\ Claim(r)
  /\ Leaves(r)
  /\ UNCHANGED <<auto, report, start, gate, stopper, cached, worker, post, watcher, holder, deleting,
                 forgotten, native, told, echo, murky, by, late, commands>>

\* ... or the call ends without it: a timeout, a refusal, a closed lead.
WaiterLeaves(r) ==
  /\ wait[r] > 0
  /\ Leaves(r)
  /\ UNCHANGED <<doc, disk, auto, report, start, gate, stopper, cached, hand, worker, post, watcher, holder,
                 deleting, forgotten, native, ghosts, bounds>>

\* queue_unclaimed.
QueueUnclaimed(r) ==
  /\ r \in unclaimed
  /\ unclaimed' = unclaimed \ {r}
  /\ IF auto /\ doc.st[r] = "Finished" /\ doc.dl[r] \in {"none", "tool queued"} /\ ~Waiting(r) /\ ~forgotten
     THEN \E done \in BOOLEAN :
            /\ PersistOr([doc EXCEPT !.dl[r] = "post queued"], [doc EXCEPT !.dl[r] = "tool queued"], done)
            /\ worker' = IF done THEN worker \cup {r} ELSE worker
     ELSE UNCHANGED <<doc, disk, faults, worker>>
  /\ UNCHANGED <<auto, report, start, gate, stopper, wait, cached, hand, post, watcher, holder, deleting,
                 forgotten, native, ghosts, commands>>

\* restore_report, for a waiting call or a worker: the answer is read back
\* from the native history, or the pending delivery becomes uncertain.
RestoreReport(r) ==
  /\ wait[r] > 0 \/ (r \in worker /\ doc.dl[r] = "post queued")
  /\ doc.st[r] = "Finished" /\ r \notin report
  /\ \/ report' = report \cup {r} /\ UNCHANGED <<doc, disk, faults, worker>>
     \/ /\ doc.ans[r] # NoRound /\ UNCHANGED report
        /\ worker' = worker \ {r}
        /\ IF Claimable(r) THEN Persist([doc EXCEPT !.dl[r] = "post uncertain"]) ELSE UNCHANGED <<doc, disk, faults>>
  /\ UNCHANGED <<auto, start, gate, stopper, wait, unclaimed, cached, hand, post, watcher, holder, deleting,
                 forgotten, native, ghosts, commands>>

\* sidekick_response: the answer reaches the lead, is rejected, or is unclear;
\* delivery_sent, delivery_failed and delivery_uncertain record which.
Told(r) == told' = [told EXCEPT ![r] = @ + 1]

Requeued(how) == how = "rejected"

Handoff(r, how) ==
  /\ r \in hand
  /\ hand' = hand \ {r}
  /\ IF how = "reached" THEN UNCHANGED commands ELSE Commanded
  /\ cached' = IF how = "rejected" THEN cached \cup {r} ELSE cached
  /\ \/ how # "rejected" /\ Told(r)
     \/ how # "reached" /\ UNCHANGED told
  /\ IF forgotten \/ doc.dl[r] # "tool sending"
     THEN UNCHANGED <<doc, disk, faults, worker>>
     ELSE /\ Persist([doc EXCEPT !.dl[r] = IF how = "reached" THEN "tool sent"
                                           ELSE IF ~Requeued(how) THEN "tool uncertain"
                                           ELSE IF auto THEN "post queued" ELSE "tool queued"])
          /\ worker' = IF Requeued(how) /\ auto THEN worker \cup {r} ELSE worker
  /\ UNCHANGED <<auto, report, start, gate, stopper, wait, unclaimed, post, watcher, holder, deleting,
                 forgotten, native, echo, murky, by, unsaved, late>>

-----------------------------------------------------------------------------
(* The stop barrier, for the lead, for the person and inside a reset. *)

StopBegins(k, r) ==
  /\ stopper[k] = NoStop /\ r \in OpenRounds /\ ~forgotten
  /\ stopper' = [stopper EXCEPT ![k] = [pc |-> "marked", r |-> r]]
  /\ Persist([doc EXCEPT !.st[r] = "Stopping", !.dl[r] = IF k = "lead" THEN @ ELSE Put(r, "withdrawn")])

Stop(k, r) ==
  /\ Commanded
  /\ k # "reset"
  /\ StopBegins(k, r)
  /\ UNCHANGED <<auto, report, start, gate, wait, unclaimed, cached, hand, worker, post, watcher, holder, deleting,
                 forgotten, native, ghosts>>

\* A start in progress has sent its prompt or will see the stop.
StopInterrupts(k) ==
  /\ stopper[k].pc = "marked" /\ gate = NoRound
  /\ stopper' = [stopper EXCEPT ![k].pc = "waiting"]
  /\ UNCHANGED <<doc, disk, auto, report, start, gate, wait, unclaimed, cached, hand, worker, post, watcher, holder,
                 deleting, forgotten, native, ghosts, bounds>>

\* The proof: the round is finished, and the lead's stop takes its report.
StopProven(k) ==
  /\ stopper[k].pc = "waiting"
  /\ LET r == stopper[k].r
     IN /\ doc.st[r] \in {"Finished", "none"}
        /\ IF k = "lead" /\ doc.st[r] = "Finished" /\ doc.dl[r] # "withdrawn"
           THEN Claim(r)
           ELSE Persist(doc) /\ UNCHANGED <<hand, unsaved>>
        /\ IF k = "lead" THEN StopLeaves(r) ELSE UNCHANGED unclaimed
  /\ stopper' = [stopper EXCEPT ![k] = NoStop]
  /\ UNCHANGED <<auto, report, start, gate, wait, cached, worker, post, watcher, holder, deleting,
                 forgotten, native, told, echo, murky, by, late, commands>>

\* The lead closes and its stop call ends; the round stays marked.
StopAborted ==
  /\ stopper["lead"] # NoStop
  /\ StopLeaves(stopper["lead"].r)
  /\ stopper' = [stopper EXCEPT !["lead"] = NoStop]
  /\ UNCHANGED <<doc, disk, auto, report, start, gate, wait, cached, hand, worker, post, watcher, holder,
                 deleting, forgotten, native, ghosts, bounds>>

\* STOP_PROOF passed; the record is written once the lock is free, whatever
\* those before it in the queue did.
StopTimesOut(k) ==
  /\ stopper[k].pc = "waiting" /\ doc.st[stopper[k].r] # "Finished"
  /\ stopper' = [stopper EXCEPT ![k].pc = "unproven"]
  /\ UNCHANGED <<doc, disk, auto, report, start, gate, wait, unclaimed, cached, hand, worker, post, watcher, holder,
                 deleting, forgotten, native, ghosts, bounds>>

StopUnproven(k) ==
  /\ stopper[k].pc = "unproven"
  /\ LET r == stopper[k].r
     IN /\ Persist(IF doc.st[r] = "none" THEN doc ELSE [doc EXCEPT !.st[r] = "Uncertain"])
        /\ late' = IF doc.st[r] = "Finished" THEN late \cup {r} ELSE late
        /\ IF k = "lead" THEN StopLeaves(r) ELSE UNCHANGED unclaimed
  /\ stopper' = [stopper EXCEPT ![k] = NoStop]
  /\ UNCHANGED <<auto, report, start, gate, wait, cached, hand, worker, post, watcher, holder, deleting,
                 forgotten, native, told, echo, murky, by, unsaved, commands>>

\* stop_sidekick on an uncertain round withdraws its report.
Withdraw(r) ==
  /\ Commanded
  /\ ~forgotten /\ OpenRounds = {} /\ doc.st[r] = "Uncertain" /\ doc.dl[r] # "withdrawn"
  /\ Persist([doc EXCEPT !.dl[r] = "withdrawn"])
  /\ UNCHANGED <<auto, tasks, forgotten, native, ghosts>>

\* replayed and reclaim: a call whose answer was rejected asks again.  It
\* takes a queued report back; otherwise its first answer is simply repeated.
Replayed(r) ==
  /\ r \in cached /\ ~forgotten /\ r \notin hand
  /\ cached' = cached \ {r}
  /\ IF doc.dl[r] \in {"tool queued", "post queued"}
     THEN \E done \in BOOLEAN :
            /\ PersistOr([doc EXCEPT !.dl[r] = "tool sending"], doc, done)
            /\ hand' = IF done THEN hand \cup {r} ELSE hand
            /\ IF done THEN UNCHANGED <<told, echo>>
               ELSE told' = [told EXCEPT ![r] = @ + 1] /\ echo' = [echo EXCEPT ![r] = @ + 1]
     ELSE /\ told' = [told EXCEPT ![r] = @ + 1] /\ echo' = [echo EXCEPT ![r] = @ + 1]
          /\ UNCHANGED <<doc, disk, faults, hand>>
  /\ UNCHANGED <<auto, report, start, gate, stopper, wait, unclaimed, worker, post, watcher, holder, deleting,
                 forgotten, native, murky, by, unsaved, late, commands>>

-----------------------------------------------------------------------------
(* Reset, reconcile and abandon hold admission for their whole run. *)

Free(h) ==
  /\ holder' = h
  /\ UNCHANGED <<auto, report, start, gate, wait, unclaimed, cached, hand, worker, post, watcher, deleting,
                 forgotten, ghosts>>

Still == UNCHANGED <<doc, disk, faults, stopper, native>>

ResetBegins ==
  /\ holder = NoHolder /\ ~forgotten
  /\ Free([op |-> "reset", pc |-> "begun", r |-> NoRound]) /\ Still /\ Commanded

\* An open round is stopped first and its report withdrawn.
ResetStops(r) ==
  /\ holder.op = "reset" /\ holder.pc = "begun"
  /\ holder' = [holder EXCEPT !.pc = "stopping"]
  /\ StopBegins("reset", r)
  /\ UNCHANGED <<auto, report, start, gate, wait, unclaimed, cached, hand, worker, post, watcher, deleting,
                 forgotten, native, ghosts, commands>>

\* The round it read as open finished meanwhile: stop refuses, and so does reset.
ResetMisses ==
  /\ holder.op = "reset" /\ holder.pc = "begun" /\ OpenRounds = {}
  /\ Free(NoHolder) /\ Still /\ UNCHANGED commands

\* The current session is retired, unless a round is uncertain.
ResetRetires ==
  /\ holder.op = "reset" /\ stopper["reset"] = NoStop
  /\ holder.pc = "stopping" \/ (holder.pc = "begun" /\ OpenRounds = {})
  /\ IF UncertainRounds # {} \/ Current(doc) = NoRound
     THEN Free(NoHolder) /\ Still
     ELSE /\ Persist([doc EXCEPT !.retired = @ \cup {Current(doc)}])
          /\ Free([holder EXCEPT !.pc = "closing", !.r = Current(doc)])
          /\ UNCHANGED <<stopper, native>>
  /\ UNCHANGED commands

ResetCloses ==
  /\ holder.op = "reset" /\ holder.pc = "closing"
  /\ Off(holder.r) /\ Free(NoHolder)
  /\ UNCHANGED <<doc, disk, stopper, bounds>>

\* Only a round with a recorded baseline can be settled from its history.
ReconcileBegins(r) ==
  /\ holder = NoHolder /\ ~forgotten /\ doc.st[r] = "Uncertain" /\ doc.base[r] # NoBaseline
  /\ Free([op |-> "reconcile", pc |-> "reading", r |-> r]) /\ Still /\ UNCHANGED commands

\* The session is opened if need be; a running turn or no new answer settles nothing.
ReconcileReads ==
  /\ holder.pc = "reading"
  /\ LET r == holder.r  s == doc.sess[r]
         live == IF nat[s] = Offline THEN [nat EXCEPT ![s] = Idle] ELSE nat
         fresh == live[s] = Idle /\ last[s] \notin {NoRound, doc.base[r]} /\ doc.st[r] = "Uncertain"
     IN \/ /\ nat' = live /\ UNCHANGED <<turn, last>>
           /\ doc' = IF fresh THEN [doc EXCEPT !.st[r] = "Running"] ELSE doc
           /\ Free(IF fresh THEN [holder EXCEPT !.pc = "finishing"] ELSE NoHolder)
        \/ nat[s] = Offline /\ Free(NoHolder) /\ UNCHANGED <<native, doc>>
  /\ UNCHANGED <<disk, stopper, bounds>>

ReconcileFinishes ==
  /\ holder.pc = "finishing"
  /\ FinishRound(holder.r)
  /\ holder' = NoHolder
  /\ UNCHANGED <<auto, start, gate, stopper, wait, unclaimed, cached, hand, post, watcher, deleting,
                 forgotten, native, ghosts, commands>>

AbandonBegins(r) ==
  /\ holder = NoHolder /\ ~forgotten /\ doc.st[r] = "Uncertain"
  /\ Free([op |-> "abandon", pc |-> "closing", r |-> r]) /\ Still /\ UNCHANGED commands

\* The turn is over, or the session is closed; a session that stays keeps the round.
AbandonProvesNothing ==
  /\ holder.op = "abandon" /\ holder.pc = "closing"
  /\ Free([holder EXCEPT !.pc = "ended"]) /\ Still /\ UNCHANGED commands

AbandonProves ==
  /\ holder.op = "abandon" /\ holder.pc = "closing"
  /\ LET s == doc.sess[holder.r]
     IN \/ nat[s] \notin Round /\ Free([holder EXCEPT !.pc = "ended"]) /\ UNCHANGED native
        \/ nat[s] \in Round /\ Off(s) /\ Free([holder EXCEPT !.pc = "closed"])
        \/ nat[s] \in Round /\ Free(NoHolder) /\ UNCHANGED native
  /\ UNCHANGED <<doc, disk, stopper, bounds>>

AbandonEnds ==
  /\ holder.op = "abandon" /\ holder.pc \in {"ended", "closed"}
  /\ LET r == holder.r
         retire == IF holder.pc = "closed" THEN {doc.sess[r]} ELSE {}
     IN IF doc.st[r] # "Uncertain" THEN UNCHANGED <<doc, disk, faults>>
        ELSE Persist([doc EXCEPT !.st[r] = "Finished", !.retired = @ \cup retire,
                                 !.dl[r] = IF @ \in {"tool uncertain", "post uncertain"} THEN "withdrawn" ELSE @])
  /\ Free(NoHolder)
  /\ UNCHANGED <<stopper, native, commands>>

-----------------------------------------------------------------------------
(* spawn_delivery: the follow-up that tells an idle lead. *)

\* sending is durable before the prompt leaves.
WorkerPosts(r) ==
  /\ r \in worker /\ ~forgotten /\ doc.dl[r] = "post queued" /\ r \in report
  /\ \E done \in BOOLEAN :
       /\ PersistOr([doc EXCEPT !.dl[r] = "post sending"], doc, done)
       /\ post' = IF done THEN post \cup {r} ELSE post
       /\ worker' = IF done THEN worker \ {r} ELSE worker
  /\ UNCHANGED <<auto, report, start, gate, stopper, wait, unclaimed, cached, hand, watcher, holder, deleting,
                 forgotten, native, ghosts, commands>>

\* Somebody else took the report, or the chat is gone.
WorkerLeaves(r) ==
  /\ r \in worker /\ (forgotten \/ doc.dl[r] # "post queued")
  /\ worker' = worker \ {r}
  /\ UNCHANGED <<doc, disk, auto, report, start, gate, stopper, wait, unclaimed, cached, hand, post, watcher, holder,
                 deleting, forgotten, native, ghosts, bounds>>

\* The lead takes the prompt, refuses it, or takes it while the answer is lost.
\* After DELIVERY_ATTEMPTS failures the delivery is uncertain; before, it is queued again.
Posted(r) ==
  /\ r \in post
  /\ post' = post \ {r}
  /\ \/ /\ Told(r) /\ UNCHANGED <<echo, worker>>
        /\ Persist(IF doc.dl[r] = "post sending" THEN [doc EXCEPT !.dl[r] = "post sent"] ELSE doc)
     \/ /\ Fault
        /\ \/ UNCHANGED <<told, echo>>
           \/ Told(r) /\ echo' = [echo EXCEPT ![r] = @ + 1]
        /\ \E again \in {"post queued", "post uncertain"} :
             IF doc.dl[r] = "post sending"
             THEN /\ doc' = [doc EXCEPT !.dl[r] = again]
                  /\ disk' = IF forgotten THEN disk ELSE {doc'}
                  /\ worker' = IF again = "post queued" THEN worker \cup {r} ELSE worker
             ELSE UNCHANGED <<doc, disk, worker>>
  /\ UNCHANGED <<auto, report, start, gate, stopper, wait, unclaimed, cached, hand, watcher, holder, deleting,
                 forgotten, native, murky, by, unsaved, late, commands>>

-----------------------------------------------------------------------------
(* Deleting the chat, and restarts. *)

\* deletable, asked before the chat is deleted.
DeleteBegins ==
  /\ Commanded
  /\ ~deleting /\ OpenRounds = {} /\ UncertainRounds = {}
  /\ deleting' = TRUE
  /\ UNCHANGED <<doc, disk, auto, report, start, gate, stopper, wait, unclaimed, cached, hand, worker, post, watcher,
                 holder, forgotten, native, ghosts, faults>>

\* session_deleted: forgotten under the document lock, the journal removed, the sidekick closed.
SessionDeleted ==
  /\ deleting /\ ~forgotten
  /\ forgotten' = TRUE
  /\ disk' = {}
  /\ IF Current(doc) # NoRound THEN Off(Current(doc)) ELSE UNCHANGED native
  /\ UNCHANGED <<doc, auto, tasks, ghosts, bounds>>

\* FusionBroker::new: what was in flight is uncertain and never replayed.
LoadedState(d, r) == IF d.st[r] \in Open THEN "Uncertain" ELSE d.st[r]

Loaded(d, r) ==
  LET unclaimedReport == d.st[r] = "Finished" /\ (d.dl[r] = "tool queued" \/ (d.dl[r] = "none" /\ d.ans[r] # NoRound))
  IN CASE d.dl[r] = "tool sending" -> "tool uncertain"
       [] d.dl[r] = "post sending" -> "post uncertain"
       [] unclaimedReport -> IF auto THEN "post queued" ELSE "tool queued"
       [] OTHER -> d.dl[r]

\* resume_deliveries starts a worker for every queued follow-up.
Restart ==
  /\ faults < MaxFault /\ ~forgotten
  /\ \E j \in disk :
       LET d == [j EXCEPT !.st = [r \in Round |-> LoadedState(j, r)], !.dl = [r \in Round |-> Loaded(j, r)]]
       IN /\ doc' = d /\ disk' = {d} /\ faults' = faults + 1
          /\ worker' = {r \in Round : d.st[r] # "none" /\ d.dl[r] = "post queued"}
  /\ report' = {} /\ start' = [r \in Round |-> "none"] /\ gate' = NoRound
  /\ stopper' = [k \in Stopper |-> NoStop] /\ wait' = [r \in Round |-> 0] /\ unclaimed' = {} /\ cached' = {}
  /\ hand' = {} /\ post' = {} /\ watcher' = {}
  /\ \E reached \in SUBSET (hand \cup post) :      \* what was under way may have arrived
       told' = [r \in Round |-> told[r] + (IF r \in reached THEN 1 ELSE 0)]
  /\ holder' = NoHolder /\ deleting' = FALSE
  /\ nat' = [s \in Round |-> Offline]
  /\ turn' = [r \in Round |-> IF turn[r] = "running" THEN "over" ELSE turn[r]]
  /\ UNCHANGED <<auto, forgotten, last, echo, murky, by, unsaved, late, commands>>

-----------------------------------------------------------------------------
Init ==
  /\ doc = [st |-> [r \in Round |-> "none"], dl |-> [r \in Round |-> "none"],
            base |-> [r \in Round |-> NoBaseline], ans |-> [r \in Round |-> NoRound],
            brief |-> [r \in Round |-> 0], sess |-> [r \in Round |-> 0],
            closed |-> {}, sessions |-> 0, retired |-> {}, next |-> 0, calls |-> {}]
  /\ disk = {doc} /\ auto \in BOOLEAN
  /\ report = {} /\ start = [r \in Round |-> "none"] /\ gate = NoRound
  /\ stopper = [k \in Stopper |-> NoStop] /\ wait = [r \in Round |-> 0] /\ unclaimed = {} /\ cached = {}
  /\ hand = {} /\ worker = {} /\ post = {} /\ watcher = {}
  /\ holder = NoHolder /\ deleting = FALSE /\ forgotten = FALSE
  /\ nat = [s \in Round |-> Offline] /\ turn = [r \in Round |-> "none"] /\ last = [s \in Round |-> NoRound]
  /\ told = [r \in Round |-> 0] /\ echo = [r \in Round |-> 0] /\ murky = {}
  /\ by = [r \in Round |-> "none"] /\ faults = 0 /\ commands = 0 /\ unsaved = {} /\ late = {}

Operations ==
  \/ \E c \in Call : Brief(c) \/ \E b \in Round : Message(c, b)
  \/ \E r \in Round : WaitCalled(r) \/ CloseBrief(r) \/ Replayed(r) \/ Withdraw(r)
  \/ \E k \in Stopper, r \in Round : Stop(k, r)
  \/ ResetBegins \/ \E r \in Round : ReconcileBegins(r) \/ AbandonBegins(r)
  \/ DeleteBegins

Starts(r) == StartOpens(r) \/ StartAdmits(r) \/ StartSends(r) \/ StartedRuns(r) \/ StartCancelled(r) \/ StartRefused(r)
Collections(r) == Collects(r) \/ WaiterLeaves(r) \/ QueueUnclaimed(r) \/ RestoreReport(r)
Handoffs(r) == \E how \in {"reached", "rejected", "unclear"} : Handoff(r, how)
Stops(k) == StopInterrupts(k) \/ StopProven(k) \/ StopTimesOut(k) \/ StopUnproven(k)
Deliveries(r) == WorkerPosts(r) \/ WorkerLeaves(r) \/ Posted(r)
Held == (\E r \in Round : ResetStops(r)) \/ ResetMisses \/ ResetRetires \/ ResetCloses \/ ReconcileReads \/ ReconcileFinishes
        \/ AbandonProves \/ AbandonEnds

Next ==
  \/ Operations \/ Held
  \/ \E r \in Round : Starts(r) \/ Collections(r) \/ Handoffs(r) \/ Deliveries(r) \/ WatcherFinishes(r) \/ TurnEnds(r)
  \/ \E s \in Round : SessionDies(s)
  \/ \E k \in Stopper : Stops(k)
  \/ StopAborted \/ SessionDeleted \/ Restart

Spec == Init /\ [][Next]_vars

-----------------------------------------------------------------------------
Writers == {r \in Round : turn[r] = "running"}

\* One writer (admit_round): two turns of the sidekick never run at once, in
\* one session or in two.
OneWriter == Cardinality(Writers) <= 1

\* A round is finished only once its turn is proven over, whether by its
\* watcher, the stop barrier, a reconcile, an abandon or a restart, and as long
\* as every prompt that send reports as failed did fail no second turn ever
\* starts beside one that runs.
FinishedIsProven ==
  /\ \A r \in Round : doc.st[r] = "Finished" /\ r \notin murky => turn[r] # "running"
  /\ murky = {} => OneWriter

\* A report reaches the lead at most once, as a tool result or as a
\* follow-up, unless a follow-up failed only in appearance or a rejected call
\* was asked again after the follow-up left.
ToldOnce == \A r \in Round : r \notin unsaved => told[r] <= 1 + echo[r]

\* The answer recorded for a round is the round's own, also when a reconcile
\* reads it back (baselines).
AnswerIsOwn == murky = {} => \A r \in Round \ late : doc.ans[r] \in {NoRound, r}

\* A finished round's pending report is owned by a task that will hand it
\* over, wherever it is in its way; only a fault, or a stop that gave up in
\* the instant the round finished, parks one.
PendingIsOwned ==
  \A r \in Round :
    ~forgotten /\ doc.st[r] = "Finished" /\ faults = 0 /\ r \notin late =>
      /\ doc.dl[r] = "tool queued" /\ auto => Waiting(r) \/ r \in unclaimed
      /\ doc.dl[r] = "tool sending" => r \in hand
      /\ doc.dl[r] = "post queued" => r \in worker
      /\ doc.dl[r] = "post sending" => r \in post

\* A withdrawal is final: once it is in the journal no settling, stop,
\* restart or abandon puts the report back, and no new handover of it starts.
WithdrawnStays ==
  [][\A r \in Round :
       doc.dl[r] = "withdrawn" /\ (\A d \in disk : d.dl[r] = "withdrawn")
         => doc'.dl[r] = "withdrawn" /\ (r \in hand' \cup post' => r \in hand \cup post)]_vars

\* The journal of a deleted chat is never written again.
GoneStaysGone == [][disk = {} => disk' = {}]_vars

\* What was withdrawn or deleted does not come back.
EndsAreFinal ==
  /\ WithdrawnStays
  /\ GoneStaysGone

\* One call identity starts at most one round, across retries and restarts.
CallsRunOnce == \A q, r \in Round : q # r /\ by[q] # "none" => by[q] # by[r]

\* Rounds end with proof, run once for each call, and each report is the round's own,
\* is owned until it is handed over, and reaches the lead once.
RoundsSound ==
  /\ TypeOK
  /\ FinishedIsProven
  /\ ToldOnce
  /\ AnswerIsOwn
  /\ PendingIsOwned
  /\ CallsRunOnce

\* Calls are opaque; any two may be exchanged.
Calls == Permutations(Call)

-----------------------------------------------------------------------------
(* Proofs.  A withdrawal is final because every write derives its document   *)
(* from the one in memory, a restart loads one that has the withdrawal too,  *)
(* and only a forgotten pair has no journal.  The identity of a call is in   *)
(* the document and in the journal before its round exists.                  *)

Made(d) ==
  /\ d = [st |-> d.st, dl |-> d.dl, base |-> d.base, ans |-> d.ans, brief |-> d.brief, sess |-> d.sess,
          closed |-> d.closed, sessions |-> d.sessions, retired |-> d.retired, next |-> d.next, calls |-> d.calls]
  /\ d.dl \in [Round -> Delivery]

FinalInv == Made(doc) /\ (\A d \in disk : Made(d)) /\ (disk = {} => forgotten)

\* A document that continues the one in memory.
Continues(d) ==
  /\ Made(d)
  /\ \A r \in Round : doc.dl[r] = "withdrawn" => d.dl[r] = "withdrawn"
  /\ doc.calls \subseteq d.calls

\* What a step does to the document and the journal.
Written ==
  /\ Continues(doc')
  /\ disk' = disk \/ disk' = {doc'} \/ (disk' = {} /\ forgotten')
  /\ disk = {} => disk' = {}
  /\ forgotten => forgotten'

LEMMA Writes ==
  ASSUME FinalInv, NEW d, NEW back, NEW done \in BOOLEAN, Continues(d), Continues(back), UNCHANGED forgotten,
         Persist(d) \/ PersistOr(d, back, done)
  PROVE  Written
<1>1. doc' \in {d, back} /\ (disk' = disk \/ (~forgotten /\ disk' = {doc'}))
  BY DEF Persist, PersistOr
<1>2. QED
  BY <1>1 DEF FinalInv, Written

LEMMA Unwritten == ASSUME FinalInv, UNCHANGED <<doc, disk, forgotten>> PROVE Written
BY DEF FinalInv, Written, Continues

\* Documents that differ in their rounds, deliveries, briefs or sessions.
Alike(d, e) == Made(e) /\ e.dl = d.dl /\ e.calls = d.calls

LEMMA OneField ==
  ASSUME NEW d, Made(d), NEW r
  PROVE  /\ \A s : Alike(d, [d EXCEPT !.st[r] = s]) /\ Alike(d, [d EXCEPT !.ans[r] = s]) /\ Alike(d, [d EXCEPT !.base[r] = s])
         /\ \A q : Alike(d, [d EXCEPT !.retired = q]) /\ Alike(d, [d EXCEPT !.closed = q]) /\ Alike(d, [d EXCEPT !.st = q])
         /\ \A x : (r \in Round => x \in Delivery) =>
              /\ Made([d EXCEPT !.dl[r] = x])
              /\ [d EXCEPT !.dl[r] = x].dl = [d.dl EXCEPT ![r] = x]
              /\ [d EXCEPT !.dl[r] = x].calls = d.calls
<1>1. ASSUME NEW s PROVE Alike(d, [d EXCEPT !.st[r] = s]) /\ Alike(d, [d EXCEPT !.ans[r] = s]) /\ Alike(d, [d EXCEPT !.base[r] = s])
  BY DEF Made, Alike
<1>2. ASSUME NEW q PROVE Alike(d, [d EXCEPT !.retired = q]) /\ Alike(d, [d EXCEPT !.closed = q]) /\ Alike(d, [d EXCEPT !.st = q])
  <2>1. Alike(d, [d EXCEPT !.retired = q])
    BY DEF Made, Alike
  <2>2. Alike(d, [d EXCEPT !.closed = q])
    BY DEF Made, Alike
  <2>3. Alike(d, [d EXCEPT !.st = q])
    BY DEF Made, Alike
  <2>4. QED
    BY <2>1, <2>2, <2>3
<1>3. ASSUME NEW x, r \in Round => x \in Delivery
      PROVE  /\ Made([d EXCEPT !.dl[r] = x])
             /\ [d EXCEPT !.dl[r] = x].dl = [d.dl EXCEPT ![r] = x]
             /\ [d EXCEPT !.dl[r] = x].calls = d.calls
  <2>1. d.dl \in [Round -> Delivery]
    BY DEF Made
  <2>2. [d.dl EXCEPT ![r] = x] \in [Round -> Delivery]
    BY <1>3, <2>1
  <2>3. QED
    BY <2>2 DEF Made
<1>4. QED
  BY <1>1, <1>2, <1>3

LEMMA Update ==
  ASSUME Made(doc), NEW r, NEW x, r \in Round => x \in Delivery /\ (doc.dl[r] = "withdrawn" => x = "withdrawn")
  PROVE  /\ Continues([doc EXCEPT !.dl[r] = x])
         /\ \A s : Continues([doc EXCEPT !.st[r] = s, !.dl[r] = x])
         /\ \A s, a : Continues([doc EXCEPT !.st[r] = s, !.ans[r] = a, !.dl[r] = x])
         /\ \A s, q : Continues([doc EXCEPT !.st[r] = s, !.retired = q, !.dl[r] = x])
<1>1. ASSUME NEW e, Alike(doc, e)
      PROVE  Continues([e EXCEPT !.dl[r] = x])
  <2>1. Made(e) /\ e.dl = doc.dl /\ e.calls = doc.calls /\ doc.dl \in [Round -> Delivery]
    BY <1>1 DEF Alike, Made
  <2>2. /\ Made([e EXCEPT !.dl[r] = x]) /\ [e EXCEPT !.dl[r] = x].dl = [e.dl EXCEPT ![r] = x]
        /\ [e EXCEPT !.dl[r] = x].calls = e.calls
    BY <2>1, OneField
  <2>3. \A q \in Round : doc.dl[q] = "withdrawn" => [e.dl EXCEPT ![r] = x][q] = "withdrawn"
    BY <2>1
  <2>4. QED
    BY <2>1, <2>2, <2>3 DEF Continues
<1>2. ASSUME NEW e, Alike(doc, e)
      PROVE  \A a : Alike(doc, [e EXCEPT !.ans[r] = a]) /\ Alike(doc, [e EXCEPT !.retired = a])
  <2>1. Made(e)
    BY <1>2 DEF Alike
  <2>2. \A a : Alike(e, [e EXCEPT !.ans[r] = a]) /\ Alike(e, [e EXCEPT !.retired = a])
    BY <2>1, OneField
  <2>3. QED
    BY <1>2, <2>2 DEF Alike
<1>3. Alike(doc, doc) /\ \A s : Alike(doc, [doc EXCEPT !.st[r] = s])
  <2>1. Alike(doc, doc)
    BY DEF Alike
  <2>2. QED
    BY <2>1, OneField
<1>4. Continues([doc EXCEPT !.dl[r] = x])
  BY <1>1, <1>3
<1>5. ASSUME NEW s PROVE Continues([doc EXCEPT !.st[r] = s, !.dl[r] = x])
  BY <1>1, <1>3
<1>6. ASSUME NEW s, NEW a PROVE Continues([doc EXCEPT !.st[r] = s, !.ans[r] = a, !.dl[r] = x])
  BY <1>1, <1>2, <1>3
<1>7. ASSUME NEW s, NEW q PROVE Continues([doc EXCEPT !.st[r] = s, !.retired = q, !.dl[r] = x])
  BY <1>1, <1>2, <1>3
<1>8. QED
  BY <1>4, <1>5, <1>6, <1>7

LEMMA Side ==
  ASSUME Made(doc), NEW r
  PROVE  /\ Continues(doc)
         /\ \A s : Continues([doc EXCEPT !.st[r] = s]) /\ Continues([doc EXCEPT !.base[r] = s])
         /\ \A q : Continues([doc EXCEPT !.retired = q]) /\ Continues([doc EXCEPT !.closed = q])
         /\ \A s, q : Continues([doc EXCEPT !.st[r] = s, !.retired = q])
<1>1. ASSUME NEW e, Alike(doc, e) PROVE Continues(e)
  BY <1>1 DEF Alike, Continues
<1>2. Alike(doc, doc)
  BY DEF Alike
<1>3. \A s : Alike(doc, [doc EXCEPT !.st[r] = s]) /\ Alike(doc, [doc EXCEPT !.base[r] = s])
  BY OneField
<1>4. \A q : Alike(doc, [doc EXCEPT !.retired = q]) /\ Alike(doc, [doc EXCEPT !.closed = q])
  BY OneField
<1>5. ASSUME NEW s, NEW q PROVE Alike(doc, [doc EXCEPT !.st[r] = s, !.retired = q])
  <2>1. Made([doc EXCEPT !.st[r] = s])
    BY <1>3 DEF Alike
  <2>2. Alike([doc EXCEPT !.st[r] = s], [doc EXCEPT !.st[r] = s, !.retired = q])
    BY <2>1, OneField
  <2>3. QED
    BY <1>3, <2>2 DEF Alike
<1>6. QED
  BY <1>1, <1>2, <1>3, <1>4, <1>5

\* A new round: its call is recorded, and folding drops a brief.
Adds(d, c) == d.calls = doc.calls \cup {c}

LEMMA NewRound ==
  ASSUME Made(doc), NEW c \in Call, NEW n, NEW b, NEW s, NEW v
  PROVE  /\ Continues(Recorded(c))
         /\ \A d \in {[Recorded(c) EXCEPT !.next = n, !.st[n] = "Queued", !.brief[n] = b, !.sess[n] = s, !.sessions = v],
                      [Recorded(c) EXCEPT !.next = n, !.st[n] = "Queued", !.brief[n] = b, !.sess[n] = s]} :
              Continues(d) /\ Adds(d, c) /\ Continues(Fold(d)) /\ Adds(Fold(d), c)
<1> DEFINE e == Recorded(c)
<1>1. Made(e) /\ e.dl = doc.dl /\ e.calls = doc.calls \cup {c}
  BY DEF Made, Recorded
<1> HIDE DEF e
<1> DEFINE Next1(d) == Alike(e, d) /\ d.next = n
<1>2. /\ Next1([e EXCEPT !.next = n])
      /\ \A d : Next1(d) => /\ Next1([d EXCEPT !.st[n] = "Queued"]) /\ Next1([d EXCEPT !.brief[n] = b])
                            /\ Next1([d EXCEPT !.sess[n] = s]) /\ Next1([d EXCEPT !.sessions = v])
  <2>1. Next1([e EXCEPT !.next = n])
    BY <1>1 DEF Made, Alike
  <2>2. ASSUME NEW d, Next1(d) PROVE Next1([d EXCEPT !.st[n] = "Queued"]) /\ Next1([d EXCEPT !.brief[n] = b])
    BY <2>2 DEF Made, Alike
  <2>3. ASSUME NEW d, Next1(d) PROVE Next1([d EXCEPT !.sess[n] = s]) /\ Next1([d EXCEPT !.sessions = v])
    BY <2>3 DEF Made, Alike
  <2>4. QED
    BY <2>1, <2>2, <2>3
<1> HIDE DEF Next1
<1>3. /\ Next1([e EXCEPT !.next = n, !.st[n] = "Queued", !.brief[n] = b, !.sess[n] = s])
      /\ Next1([e EXCEPT !.next = n, !.st[n] = "Queued", !.brief[n] = b, !.sess[n] = s, !.sessions = v])
  BY <1>2
<1> USE DEF Next1
<1>4. ASSUME NEW d, Alike(e, d), d.next = n PROVE Alike(e, Fold(d)) /\ Fold(d).next = n
  <2>1. Made(d)
    BY <1>4 DEF Alike
  <2>2. Fold(d) = d \/ \E q : Fold(d) = [d EXCEPT !.st = q]
    BY DEF Fold
  <2>3. \A q : Alike(d, [d EXCEPT !.st = q]) /\ [d EXCEPT !.st = q].next = d.next
    BY <2>1, OneField DEF Made
  <2>4. QED
    BY <1>4, <2>2, <2>3 DEF Alike
<1>5. ASSUME NEW d, Alike(e, d) PROVE Continues(d) /\ Adds(d, c)
  BY <1>1, <1>5 DEF Alike, Continues, Adds
<1>6. Alike(e, e)
  BY <1>1 DEF Alike
<1>7. QED
  BY <1>3, <1>4, <1>5, <1>6 DEF e

LEMMA WrittenNext == ASSUME FinalInv, Next PROVE Written \/ Restart
<1>0. Made(doc) /\ doc.dl \in [Round -> Delivery] /\ Continues(doc)
  BY DEF FinalInv, Made, Continues
<1>1. ASSUME UNCHANGED forgotten, NEW d, Continues(d), Persist(d) PROVE Written
  BY <1>0, <1>1, Writes
<1>2. ASSUME NEW c \in Call, Brief(c) PROVE Written
  <2>1. PICK n, s, v : \E done \in BOOLEAN :
          PersistOr(Fold([Recorded(c) EXCEPT !.next = n, !.st[n] = "Queued", !.brief[n] = n, !.sess[n] = s, !.sessions = v]),
                    Recorded(c), done)
    BY <1>2 DEF Brief, Queue
  <2>2. UNCHANGED forgotten
    BY <1>2 DEF Brief
  <2>3. /\ Continues(Recorded(c))
        /\ Continues(Fold([Recorded(c) EXCEPT !.next = n, !.st[n] = "Queued", !.brief[n] = n, !.sess[n] = s, !.sessions = v]))
    BY <1>0, NewRound
  <2>4. QED
    BY <2>1, <2>2, <2>3, Writes
<1>3. ASSUME NEW c \in Call, NEW b \in Round, Message(c, b) PROVE Written
  <2>1. PICK n, s : \E done \in BOOLEAN :
          PersistOr([Recorded(c) EXCEPT !.next = n, !.st[n] = "Queued", !.brief[n] = b, !.sess[n] = s], Recorded(c), done)
    BY <1>3 DEF Message, Queue
  <2>2. UNCHANGED forgotten
    BY <1>3 DEF Message
  <2>3. /\ Continues(Recorded(c))
        /\ Continues([Recorded(c) EXCEPT !.next = n, !.st[n] = "Queued", !.brief[n] = b, !.sess[n] = s])
    BY <1>0, NewRound
  <2>4. QED
    BY <2>1, <2>2, <2>3, Writes
<1>4. ASSUME NEW r \in Round, CloseBrief(r) \/ StartAdmits(r) \/ StartedRuns(r) \/ StartRefused(r) PROVE Written
  <2>1. UNCHANGED forgotten
    BY <1>4 DEF CloseBrief, StartAdmits, Starting, StartedRuns, StartRefused
  <2>2. CASE CloseBrief(r)
    <3>1. \E q : Persist([doc EXCEPT !.closed = q])
      BY <2>2 DEF CloseBrief
    <3>2. QED
      BY <1>0, <1>1, <2>1, <3>1, Side
  <2>3. CASE StartAdmits(r)
    <3>1. (UNCHANGED <<doc, disk>>) \/ \E q : Persist([doc EXCEPT !.base[r] = q])
      BY <2>3 DEF StartAdmits
    <3>2. QED
      BY <1>0, <1>1, <2>1, <3>1, Side, Unwritten
  <2>4. CASE StartedRuns(r)
    <3>1. Persist(doc) \/ Persist([doc EXCEPT !.st[r] = "Running"])
      BY <2>4 DEF StartedRuns
    <3>2. QED
      BY <1>0, <1>1, <2>1, <3>1, Side
  <2>5. CASE StartRefused(r)
    <3>1. \E q : Persist([doc EXCEPT !.st[r] = "Finished", !.retired = q])
      BY <2>5 DEF StartRefused
    <3>2. QED
      BY <1>0, <1>1, <2>1, <3>1, Side
  <2>6. QED
    BY <1>4, <2>2, <2>3, <2>4, <2>5
<1>5. ASSUME NEW r PROVE r \in Round => SettledFor(r) \in Delivery /\ (doc.dl[r] = "withdrawn" => SettledFor(r) = "withdrawn")
  BY <1>0 DEF SettledFor, Delivery
<1>6. ASSUME NEW r, StartCancelled(r) \/ (FinishRound(r) /\ UNCHANGED forgotten) PROVE Written
  <2>1. UNCHANGED forgotten
    BY <1>6 DEF StartCancelled
  <2>2. \/ UNCHANGED <<doc, disk>> \/ Persist(doc)
        \/ Persist([doc EXCEPT !.st[r] = "Finished", !.dl[r] = SettledFor(r)])
        \/ \E a : Persist([doc EXCEPT !.st[r] = "Finished", !.ans[r] = a, !.dl[r] = SettledFor(r)])
    BY <1>6 DEF StartCancelled, FinishRound
  <2>3. /\ Continues([doc EXCEPT !.st[r] = "Finished", !.dl[r] = SettledFor(r)])
        /\ \A a : Continues([doc EXCEPT !.st[r] = "Finished", !.ans[r] = a, !.dl[r] = SettledFor(r)])
    BY <1>0, <1>5, Update
  <2>4. QED
    BY <1>0, <1>1, <2>1, <2>2, <2>3, Unwritten
<1>7. ASSUME NEW r, NEW x \in Delivery, doc.dl[r] = "withdrawn" => x = "withdrawn"
      PROVE  /\ Continues([doc EXCEPT !.dl[r] = x])
             /\ \A s : Continues([doc EXCEPT !.st[r] = s, !.dl[r] = x])
             /\ \A s, q : Continues([doc EXCEPT !.st[r] = s, !.retired = q, !.dl[r] = x])
  BY <1>0, <1>7, Update
<1>8. ASSUME NEW r, Claim(r), UNCHANGED forgotten PROVE Written
  <2>1. Persist(doc) \/ (doc.dl[r] # "withdrawn" /\ Persist([doc EXCEPT !.dl[r] = "tool sending"]))
    BY <1>8 DEF Claim, Claimable
  <2>2. QED
    BY <1>0, <1>1, <1>7, <1>8, <2>1 DEF Delivery
<1>9. ASSUME NEW r, QueueUnclaimed(r) PROVE Written
  <2>1. UNCHANGED forgotten
    BY <1>9 DEF QueueUnclaimed
  <2>2. \/ UNCHANGED <<doc, disk>>
        \/ doc.dl[r] # "withdrawn" /\ \E done \in BOOLEAN :
             PersistOr([doc EXCEPT !.dl[r] = "post queued"], [doc EXCEPT !.dl[r] = "tool queued"], done)
    BY <1>9 DEF QueueUnclaimed
  <2>3. doc.dl[r] # "withdrawn" => Continues([doc EXCEPT !.dl[r] = "post queued"]) /\ Continues([doc EXCEPT !.dl[r] = "tool queued"])
    BY <1>7 DEF Delivery
  <2>4. QED
    BY <2>1, <2>2, <2>3, Unwritten, Writes
<1>10. ASSUME NEW r, RestoreReport(r) \/ (\E how \in {"reached", "rejected", "unclear"} : Handoff(r, how)) \/ Withdraw(r) PROVE Written
  <2>1. UNCHANGED forgotten
    BY <1>10 DEF RestoreReport, Handoff, Withdraw
  <2>2. \/ UNCHANGED <<doc, disk>>
        \/ \E x \in Delivery : (doc.dl[r] = "withdrawn" => x = "withdrawn") /\ Persist([doc EXCEPT !.dl[r] = x])
    BY <1>10 DEF RestoreReport, Handoff, Withdraw, Claimable, Delivery
  <2>3. QED
    BY <1>1, <1>7, <2>1, <2>2, Unwritten
<1>11. ASSUME NEW k, NEW r, StopBegins(k, r), UNCHANGED forgotten PROVE Written
  <2>1. \E x \in {doc.dl[r], "withdrawn"} : Persist([doc EXCEPT !.st[r] = "Stopping", !.dl[r] = x])
    BY <1>11 DEF StopBegins, Put
  <2>2. r \in Round => doc.dl[r] \in Delivery /\ "withdrawn" \in Delivery
    BY <1>0 DEF Delivery
  <2>3. \A x \in {doc.dl[r], "withdrawn"} : Continues([doc EXCEPT !.st[r] = "Stopping", !.dl[r] = x])
    BY <1>0, <2>2, Update
  <2>4. QED
    BY <1>1, <1>11, <2>1, <2>3
<1>12. ASSUME NEW k, StopProven(k) \/ StopUnproven(k) PROVE Written
  <2>1. UNCHANGED forgotten
    BY <1>12 DEF StopProven, StopUnproven
  <2>2. Claim(stopper[k].r) \/ Persist(doc) \/ Persist([doc EXCEPT !.st[stopper[k].r] = "Uncertain"])
    BY <1>12 DEF StopProven, StopUnproven
  <2>3. QED
    BY <1>0, <1>1, <1>8, <2>1, <2>2, Side
<1>13. ASSUME NEW r, Replayed(r) \/ WorkerPosts(r) PROVE Written
  <2>1. UNCHANGED forgotten
    BY <1>13 DEF Replayed, WorkerPosts
  <2>2. \/ UNCHANGED <<doc, disk>>
        \/ doc.dl[r] # "withdrawn" /\ \E done \in BOOLEAN, x \in {"tool sending", "post sending"} :
             PersistOr([doc EXCEPT !.dl[r] = x], doc, done)
    BY <1>13 DEF Replayed, WorkerPosts
  <2>3. doc.dl[r] # "withdrawn" => \A x \in {"tool sending", "post sending"} : Continues([doc EXCEPT !.dl[r] = x])
    BY <1>7 DEF Delivery
  <2>4. QED
    BY <1>0, <2>1, <2>2, <2>3, Unwritten, Writes
<1>14. ASSUME ResetRetires PROVE Written
  <2>1. UNCHANGED forgotten
    BY <1>14 DEF ResetRetires, Free
  <2>2. (UNCHANGED <<doc, disk>>) \/ \E q : Persist([doc EXCEPT !.retired = q])
    BY <1>14 DEF ResetRetires, Still
  <2>3. QED
    BY <1>0, <1>1, <2>1, <2>2, Side, Unwritten
<1>15. ASSUME ReconcileReads PROVE Written
  <2>1. UNCHANGED <<disk, forgotten>>
    BY <1>15 DEF ReconcileReads, Free
  <2>2. doc' = doc \/ doc' = [doc EXCEPT !.st[holder.r] = "Running"]
    BY <1>15 DEF ReconcileReads
  <2>3. Continues([doc EXCEPT !.st[holder.r] = "Running"])
    BY <1>0, Side
  <2>4. Continues(doc')
    BY <1>0, <2>2, <2>3
  <2>5. QED
    BY <2>1, <2>4 DEF Written
<1>16. ASSUME AbandonEnds PROVE Written
  <2>1. UNCHANGED forgotten
    BY <1>16 DEF AbandonEnds, Free
  <2>2. \/ UNCHANGED <<doc, disk>>
        \/ \E q : \E x \in {doc.dl[holder.r], "withdrawn"} : Persist([doc EXCEPT !.st[holder.r] = "Finished", !.retired = q, !.dl[holder.r] = x])
    BY <1>16 DEF AbandonEnds
  <2>3. \A q : \A x \in {doc.dl[holder.r], "withdrawn"} : Continues([doc EXCEPT !.st[holder.r] = "Finished", !.retired = q, !.dl[holder.r] = x])
    <3>1. holder.r \in Round => doc.dl[holder.r] \in Delivery /\ "withdrawn" \in Delivery
      BY <1>0 DEF Delivery
    <3>2. QED
      BY <1>0, <3>1, Update
  <2>4. QED
    BY <1>1, <2>1, <2>2, <2>3, Unwritten
<1>17. ASSUME NEW r, Posted(r) PROVE Written
  <2>1. UNCHANGED forgotten
    BY <1>17 DEF Posted
  <2>2. \/ UNCHANGED <<doc, disk>> \/ Persist(doc)
        \/ doc.dl[r] # "withdrawn" /\ Persist([doc EXCEPT !.dl[r] = "post sent"])
        \/ /\ doc.dl[r] # "withdrawn" /\ \E x \in {"post queued", "post uncertain"} : doc' = [doc EXCEPT !.dl[r] = x]
           /\ disk' = IF forgotten THEN disk ELSE {doc'}
    BY <1>17 DEF Posted
  <2>3. doc.dl[r] # "withdrawn" => \A x \in {"post sent", "post queued", "post uncertain"} : Continues([doc EXCEPT !.dl[r] = x])
    BY <1>7 DEF Delivery
  <2>4. CASE doc.dl[r] # "withdrawn" /\ (\E x \in {"post queued", "post uncertain"} : doc' = [doc EXCEPT !.dl[r] = x])
             /\ disk' = IF forgotten THEN disk ELSE {doc'}
    <3>1. Continues(doc')
      BY <2>3, <2>4
    <3>2. QED
      BY <2>1, <2>4, <3>1 DEF Written, FinalInv
  <2>5. QED
    BY <1>0, <1>1, <2>1, <2>2, <2>3, <2>4, Unwritten
<1>18. ASSUME NEW r, \/ WaitCalled(r) \/ WaiterLeaves(r) \/ StartOpens(r) \/ StartSends(r) \/ TurnEnds(r) \/ SessionDies(r)
                     \/ ReconcileBegins(r) \/ AbandonBegins(r) \/ WorkerLeaves(r)
       PROVE  UNCHANGED <<doc, disk, forgotten>>
  BY <1>18 DEF WaitCalled, WaiterLeaves, StartOpens, StartSends, Starting, TurnEnds, SessionDies, ReconcileBegins,
               AbandonBegins, WorkerLeaves, Free, Still
<1>19. ASSUME ResetBegins \/ ResetMisses \/ ResetCloses \/ AbandonProves \/ StopAborted \/ DeleteBegins
       PROVE  UNCHANGED <<doc, disk, forgotten>>
  BY <1>19 DEF ResetBegins, ResetMisses, ResetCloses, AbandonProves, StopAborted, DeleteBegins, Free, Still
<1>20. ASSUME NEW k, StopInterrupts(k) \/ StopTimesOut(k) PROVE UNCHANGED <<doc, disk, forgotten>>
  BY <1>20 DEF StopInterrupts, StopTimesOut
<1>21. ASSUME SessionDeleted PROVE Written
  <2>1. UNCHANGED doc /\ disk' = {} /\ forgotten' = TRUE
    BY <1>21 DEF SessionDeleted
  <2>2. Continues(doc')
    BY <1>0, <2>1
  <2>3. QED
    BY <2>1, <2>2 DEF Written
<1>22. ASSUME NEW r, Collects(r) \/ WatcherFinishes(r) PROVE Written
  <2>1. UNCHANGED forgotten /\ (Claim(r) \/ FinishRound(r))
    BY <1>22 DEF Collects, WatcherFinishes
  <2>2. QED
    BY <1>6, <1>8, <2>1
<1>23. ASSUME ReconcileFinishes PROVE Written
  <2>1. UNCHANGED forgotten /\ FinishRound(holder.r)
    BY <1>23 DEF ReconcileFinishes
  <2>2. QED
    BY <1>6, <2>1
<1>24. ASSUME NEW k, NEW r, Stop(k, r) \/ ResetStops(r) PROVE Written
  <2>1. UNCHANGED forgotten /\ \E j : StopBegins(j, r)
    BY <1>24 DEF Stop, ResetStops
  <2>2. QED
    BY <1>11, <2>1
<1>25. QED
  BY <1>2, <1>3, <1>4, <1>6, <1>9, <1>10, <1>12, <1>13, <1>14, <1>15, <1>16, <1>17, <1>18, <1>19, <1>20, <1>21, <1>22,
     <1>23, <1>24, Unwritten
     DEF Next, Operations, Held, Starts, Collections, Handoffs, Deliveries, Stops

LEMMA FinalInit == Init => FinalInv
<1> SUFFICES ASSUME Init PROVE FinalInv
  OBVIOUS
<1>1. Made(doc)
  BY DEF Init, Made, Delivery
<1>2. disk = {doc}
  BY DEF Init
<1>3. QED
  BY <1>1, <1>2 DEF FinalInv

\* A restart continues the journal, not the document in memory.
LEMMA RestartLoads ==
  ASSUME FinalInv, Restart
  PROVE  /\ Made(doc') /\ disk' = {doc'} /\ ~forgotten /\ hand' = {} /\ post' = {}
         /\ \E j \in disk : doc'.calls = j.calls /\ \A r \in Round : j.dl[r] = "withdrawn" => doc'.dl[r] = "withdrawn"
<1>1. PICK j \in disk : /\ doc' = [j EXCEPT !.st = [r \in Round |-> LoadedState(j, r)], !.dl = [r \in Round |-> Loaded(j, r)]]
                        /\ disk' = {doc'}
  BY DEF Restart
<1>2. Made(j) /\ j.dl \in [Round -> Delivery]
  BY DEF FinalInv, Made
<1>3. \A r \in Round : Loaded(j, r) \in Delivery /\ (j.dl[r] = "withdrawn" => Loaded(j, r) = "withdrawn")
  BY <1>2 DEF Loaded, Delivery
<1>4. [r \in Round |-> Loaded(j, r)] \in [Round -> Delivery]
  BY <1>3
<1>5. Made(doc') /\ doc'.calls = j.calls /\ doc'.dl = [r \in Round |-> Loaded(j, r)]
  BY <1>1, <1>2, <1>4 DEF Made
<1>6. \A r \in Round : j.dl[r] = "withdrawn" => doc'.dl[r] = "withdrawn"
  BY <1>3, <1>5
<1>7. ~forgotten /\ hand' = {} /\ post' = {}
  BY DEF Restart
<1>8. QED
  BY <1>1, <1>5, <1>6, <1>7

LEMMA FinalNext == FinalInv /\ [Next]_vars => FinalInv'
<1> SUFFICES ASSUME FinalInv, [Next]_vars PROVE FinalInv'
  OBVIOUS
<1>1. CASE UNCHANGED vars
  BY <1>1 DEF vars, FinalInv
<1>2. CASE Written
  <2>1. Made(doc')
    BY <1>2 DEF Written, Continues
  <2>2. \A d \in disk' : Made(d)
    BY <1>2, <2>1 DEF Written, FinalInv
  <2>3. disk' = {} => forgotten'
    BY <1>2 DEF Written, FinalInv
  <2>4. QED
    BY <2>1, <2>2, <2>3 DEF FinalInv
<1>3. CASE Restart
  BY <1>3, RestartLoads DEF FinalInv
<1>4. QED
  BY <1>1, <1>2, <1>3, WrittenNext

\* A withdrawn report is handed over by nobody who did not already do so.
LEMMA HandsStep ==
  ASSUME FinalInv, Next, NEW r \in Round, doc.dl[r] = "withdrawn", r \in hand' \cup post'
  PROVE  r \in hand \cup post
<1>1. ASSUME NEW q, Claim(q) PROVE r \in hand' => r \in hand
  BY <1>1 DEF Claim, Claimable
<1>2. ASSUME NEW q, Collects(q) \/ Replayed(q) \/ WorkerPosts(q) \/ Posted(q) \/ (\E how \in {"reached", "rejected", "unclear"} : Handoff(q, how))
      PROVE  r \in hand \cup post
  <2>1. CASE Collects(q)
    BY <1>1, <2>1 DEF Collects
  <2>2. CASE Replayed(q)
    <3>1. UNCHANGED post
      BY <2>2 DEF Replayed
    <3>2. UNCHANGED hand \/ (doc.dl[q] \in {"tool queued", "post queued"} /\ hand' \subseteq hand \cup {q})
      BY <2>2 DEF Replayed
    <3>3. QED
      BY <3>1, <3>2
  <2>3. CASE WorkerPosts(q)
    BY <2>3 DEF WorkerPosts
  <2>4. CASE Posted(q) \/ \E how \in {"reached", "rejected", "unclear"} : Handoff(q, how)
    BY <2>4 DEF Posted, Handoff
  <2>5. QED
    BY <1>2, <2>1, <2>2, <2>3, <2>4
<1>3. ASSUME NEW k, StopProven(k) PROVE r \in hand \cup post
  <2>1. UNCHANGED post /\ (UNCHANGED hand \/ Claim(stopper[k].r))
    BY <1>3 DEF StopProven
  <2>2. QED
    BY <1>1, <2>1
<1>4. ~Restart
  BY RestartLoads
<1>5. ASSUME NEW c, NEW b, Brief(c) \/ Message(c, b) PROVE UNCHANGED <<hand, post>>
  BY <1>5 DEF Brief, Message
<1>6. ASSUME NEW q, \/ WaitCalled(q) \/ CloseBrief(q) \/ Withdraw(q) \/ StartOpens(q) \/ StartAdmits(q) \/ StartSends(q)
                    \/ StartedRuns(q) \/ StartCancelled(q) \/ StartRefused(q) \/ WaiterLeaves(q)
      PROVE  UNCHANGED <<hand, post>>
  BY <1>6 DEF WaitCalled, CloseBrief, Withdraw, StartOpens, StartAdmits, StartSends, StartedRuns, StartCancelled,
              StartRefused, Starting, WaiterLeaves, tasks
<1>7. ASSUME NEW q, \/ QueueUnclaimed(q) \/ RestoreReport(q) \/ WorkerLeaves(q) \/ WatcherFinishes(q) \/ TurnEnds(q)
                    \/ SessionDies(q) \/ ReconcileBegins(q) \/ AbandonBegins(q) \/ ResetStops(q)
      PROVE  UNCHANGED <<hand, post>>
  BY <1>7 DEF QueueUnclaimed, RestoreReport, WorkerLeaves, WatcherFinishes, TurnEnds, SessionDies, ReconcileBegins,
              AbandonBegins, ResetStops, Free, tasks
<1>8. ASSUME NEW k, NEW q, Stop(k, q) \/ StopInterrupts(k) \/ StopTimesOut(k) \/ StopUnproven(k) PROVE UNCHANGED <<hand, post>>
  BY <1>8 DEF Stop, StopInterrupts, StopTimesOut, StopUnproven
<1>9. ASSUME \/ ResetBegins \/ ResetMisses \/ ResetRetires \/ ResetCloses \/ ReconcileReads \/ ReconcileFinishes
             \/ AbandonProves \/ AbandonEnds \/ DeleteBegins \/ StopAborted \/ SessionDeleted
      PROVE  UNCHANGED <<hand, post>>
  BY <1>9 DEF ResetBegins, ResetMisses, ResetRetires, ResetCloses, ReconcileReads, ReconcileFinishes, AbandonProves,
              AbandonEnds, DeleteBegins, StopAborted, SessionDeleted, Free, Still, tasks
<1>10. QED
  BY <1>2, <1>3, <1>4, <1>5, <1>6, <1>7, <1>8, <1>9
     DEF Next, Operations, Held, Starts, Collections, Handoffs, Deliveries, Stops

\* A withdrawal that is in the journal is final, and the journal of a deleted chat
\* is never written again: for any number of rounds, calls, failed writes and
\* restarts.
THEOREM EndsAlwaysFinal == Spec => EndsAreFinal
<1> DEFINE Final(r) == doc.dl[r] = "withdrawn" /\ \A d \in disk : d.dl[r] = "withdrawn"
           Kept == \A r \in Round : Final(r) => doc'.dl[r] = "withdrawn" /\ (r \in hand' \cup post' => r \in hand \cup post)
           Gone == disk = {} => disk' = {}
<1>1. FinalInv /\ [Next]_vars => [Kept]_vars /\ [Gone]_vars
  <2> SUFFICES ASSUME FinalInv, Next PROVE Kept /\ Gone
    OBVIOUS
  <2>1. Gone
    BY WrittenNext, RestartLoads DEF Written, FinalInv
  <2>2. ASSUME NEW r \in Round, Final(r) PROVE doc'.dl[r] = "withdrawn"
    BY <2>2, WrittenNext, RestartLoads DEF Written, Continues
  <2>3. QED
    BY <2>1, <2>2, HandsStep
<1>2. QED
  BY <1>1, FinalInit, FinalNext, PTL DEF Spec, EndsAreFinal, WithdrawnStays, GoneStaysGone

\* The round a call started keeps the call in the document and in the journal, so
\* that neither a retry nor a restart finds the call fresh.
CallKept(q) == by[q] # "none" => by[q] \in doc.calls /\ \A d \in disk : by[q] \in d.calls
OnceInv == by = [q \in Round |-> by[q]] /\ CallsRunOnce /\ \A q \in Round : CallKept(q)

\* Only a briefing or a message starts a round, for a call nobody recorded.
LEMMA NewCall ==
  ASSUME FinalInv, NEW c \in Call, Brief(c) \/ \E b \in Round : Message(c, b)
  PROVE  \/ UNCHANGED by
         \/ /\ c \notin doc.calls /\ c \in doc'.calls /\ doc.calls \subseteq doc'.calls /\ disk' = {doc'}
            /\ \E n : by' = [by EXCEPT ![n] = c]
<1>0. Made(doc)
  BY DEF FinalInv
<1>1. c \notin doc.calls
  BY DEF Brief, Message, Fresh
<1>2. ASSUME NEW d, Queue(c, d), Adds(d, c)
      PROVE  \/ UNCHANGED by
             \/ /\ c \in doc'.calls /\ doc.calls \subseteq doc'.calls /\ disk' = {doc'}
                /\ \E n : by' = [by EXCEPT ![n] = c]
  BY <1>2 DEF Queue, PersistOr, Adds
<1>3. CASE Brief(c)
  <2>1. PICK n, s, v : Queue(c, Fold([Recorded(c) EXCEPT !.next = n, !.st[n] = "Queued", !.brief[n] = n, !.sess[n] = s, !.sessions = v]))
    BY <1>3 DEF Brief
  <2>2. Adds(Fold([Recorded(c) EXCEPT !.next = n, !.st[n] = "Queued", !.brief[n] = n, !.sess[n] = s, !.sessions = v]), c)
    BY <1>0, NewRound
  <2>3. QED
    BY <1>1, <1>2, <2>1, <2>2
<1>4. ASSUME NEW b \in Round, Message(c, b)
      PROVE  \/ UNCHANGED by
             \/ /\ c \in doc'.calls /\ doc.calls \subseteq doc'.calls /\ disk' = {doc'}
                /\ \E n : by' = [by EXCEPT ![n] = c]
  <2>1. PICK n, s : Queue(c, [Recorded(c) EXCEPT !.next = n, !.st[n] = "Queued", !.brief[n] = b, !.sess[n] = s])
    BY <1>4 DEF Message
  <2>2. Adds([Recorded(c) EXCEPT !.next = n, !.st[n] = "Queued", !.brief[n] = b, !.sess[n] = s], c)
    BY <1>0, NewRound
  <2>3. QED
    BY <1>2, <2>1, <2>2
<1>5. QED
  BY <1>1, <1>3, <1>4

LEMMA ByStep ==
  ASSUME Next, ~(\E c \in Call : Brief(c) \/ \E b \in Round : Message(c, b))
  PROVE  UNCHANGED by
<1>1. ASSUME NEW q, \/ WaitCalled(q) \/ CloseBrief(q) \/ Withdraw(q) \/ StartOpens(q) \/ StartAdmits(q) \/ StartSends(q)
                    \/ StartedRuns(q) \/ StartCancelled(q) \/ StartRefused(q) \/ WaiterLeaves(q)
      PROVE  UNCHANGED by
  BY <1>1 DEF WaitCalled, CloseBrief, Withdraw, StartOpens, StartAdmits, StartSends, StartedRuns, StartCancelled,
              StartRefused, Starting, WaiterLeaves, ghosts
<1>2. ASSUME NEW q, \/ QueueUnclaimed(q) \/ RestoreReport(q) \/ WorkerLeaves(q) \/ WatcherFinishes(q) \/ TurnEnds(q)
                    \/ SessionDies(q) \/ ReconcileBegins(q) \/ AbandonBegins(q) \/ ResetStops(q)
      PROVE  UNCHANGED by
  BY <1>2 DEF QueueUnclaimed, RestoreReport, WorkerLeaves, WatcherFinishes, TurnEnds, SessionDies, ReconcileBegins,
              AbandonBegins, ResetStops, Free, ghosts
<1>3. ASSUME NEW q, Collects(q) \/ Replayed(q) \/ WorkerPosts(q) \/ Posted(q) \/ (\E how \in {"reached", "rejected", "unclear"} : Handoff(q, how))
      PROVE  UNCHANGED by
  BY <1>3 DEF Collects, Replayed, WorkerPosts, Posted, Handoff, ghosts
<1>4. ASSUME NEW k, NEW q, Stop(k, q) \/ StopInterrupts(k) \/ StopProven(k) \/ StopTimesOut(k) \/ StopUnproven(k) PROVE UNCHANGED by
  BY <1>4 DEF Stop, StopInterrupts, StopProven, StopTimesOut, StopUnproven, ghosts
<1>5. ASSUME \/ ResetBegins \/ ResetMisses \/ ResetRetires \/ ResetCloses \/ ReconcileReads \/ ReconcileFinishes
             \/ AbandonProves \/ AbandonEnds \/ DeleteBegins \/ StopAborted \/ SessionDeleted \/ Restart
      PROVE  UNCHANGED by
  BY <1>5 DEF ResetBegins, ResetMisses, ResetRetires, ResetCloses, ReconcileReads, ReconcileFinishes, AbandonProves,
              AbandonEnds, DeleteBegins, StopAborted, SessionDeleted, Restart, Free, Still, ghosts
<1>6. QED
  BY <1>1, <1>2, <1>3, <1>4, <1>5
     DEF Next, Operations, Held, Starts, Collections, Handoffs, Deliveries, Stops

LEMMA OnceNext == FinalInv /\ OnceInv /\ [Next]_vars => OnceInv'
<1> SUFFICES ASSUME FinalInv, OnceInv, [Next]_vars PROVE OnceInv'
  OBVIOUS
<1>1. CASE UNCHANGED vars
  BY <1>1 DEF vars, ghosts, OnceInv, CallsRunOnce, CallKept
<1>2. ASSUME UNCHANGED by, \A q \in Round : CallKept(q)' PROVE OnceInv'
  BY <1>2 DEF OnceInv, CallsRunOnce
<1>3. CASE Restart
  <2>1. PICK j \in disk : doc'.calls = j.calls
    BY <1>3, RestartLoads
  <2>2. disk' = {doc'} /\ UNCHANGED by
    BY <1>3, RestartLoads DEF Restart
  <2>3. QED
    BY <1>2, <2>1, <2>2 DEF OnceInv, CallKept
<1>4. CASE Written /\ UNCHANGED by
  BY <1>2, <1>4 DEF Written, Continues, OnceInv, CallKept
<1>5. ASSUME NEW c \in Call, Brief(c) \/ \E b \in Round : Message(c, b), ~UNCHANGED by PROVE OnceInv'
  <2>1. c \notin doc.calls /\ c \in doc'.calls /\ doc.calls \subseteq doc'.calls /\ disk' = {doc'}
    BY <1>5, NewCall
  <2>2. PICK n : by' = [by EXCEPT ![n] = c]
    BY <1>5, NewCall
  <2>3. by' = [q \in Round |-> by'[q]] /\ \A q \in Round : by'[q] = IF q = n THEN c ELSE by[q]
    BY <2>2 DEF OnceInv
  <2>4. \A q \in Round : CallKept(q)'
    BY <2>1, <2>3 DEF OnceInv, CallKept
  <2>5. CallsRunOnce'
    BY <2>1, <2>3 DEF OnceInv, CallKept, CallsRunOnce
  <2>6. QED
    BY <2>3, <2>4, <2>5 DEF OnceInv
<1>6. QED
  BY <1>1, <1>3, <1>4, <1>5, WrittenNext, ByStep

\* However often a call is repeated, and whatever writes fail and however often the
\* program restarts in between, one call identity starts at most one round.
THEOREM CallsAlwaysRunOnce == Spec => []CallsRunOnce
<1>1. Init => OnceInv
  BY DEF Init, OnceInv, CallsRunOnce, CallKept
<1>2. OnceInv => CallsRunOnce
  BY DEF OnceInv
<1>3. QED
  BY <1>1, <1>2, OnceNext, FinalInit, FinalNext, PTL DEF Spec
=============================================================================
