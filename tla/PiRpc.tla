------------------------------- MODULE PiRpc -------------------------------
(***************************************************************************)
(* The direct runtime (real_rpc.rs, with the mailbox of extension_ui.rs):  *)
(* one Pi process driven over line-framed JSON.  A spawner performs the    *)
(* handshake; callers send requests, answer extension dialogs and stop the *)
(* runtime; one reader task owns standard output, resolves the requests,   *)
(* keeps the lifecycle state and projects dialogs; one timer task mirrors  *)
(* the deadline of each dialog that has one.                               *)
(*                                                                         *)
(* Pi itself is external: it answers what it received, starts and settles  *)
(* turns, asks dialogs, lets its own dialogs expire, garbles its output or *)
(* exits.  A frame is modelled at the moment the reader takes it.          *)
(***************************************************************************)
EXTENDS Naturals, Sequences, FiniteSets

CONSTANTS Plain,    \* ordinary requests (set_model, get_available_models, ...)
          Prompt,   \* prompt requests, which may wait for a dialog
          Did,      \* the source ids of dialogs
          Slots,    \* MAX_PENDING_DIALOGS
          Cap,      \* LIVE_EVENT_CHANNEL_CAPACITY
          MaxAsk,   \* bound: dialogs asked by Pi
          MaxTurn   \* bound: turns started

Hello == "hello"    \* the get_state request of the handshake
Abort == "abort"    \* the abort request of a graceful stop
Call == Plain \cup Prompt
Req == Call \cup {Hello, Abort}
Inst == 1 .. MaxAsk

VARIABLES
  state, rev,       \* RuntimeShared.state and .revision
  spawn,            \* where spawn_for_kind_with_daemon_socket stands
  ready,            \* extension_ui_ready
  shut,             \* shutting_down
  stdin,            \* TRUE while the pipe is held
  req,              \* per request: the phase or the result of its future
  slot,             \* pending: requests that own a response slot
  box,              \* the oneshot of each request, "none" while empty
  wire,             \* requests Pi received and has not answered
  reader,           \* the reader task: [at, dialog, out]
  events,           \* the event channel: revisions of State events, 0 for others
  seen,             \* the highest revision the consumer took, and its state
  rx,               \* TRUE while the receiver of the channel lives
  box_ui,           \* ExtensionUiMailbox.pending: per id the dialog, 0 for none
  timers,           \* extension_ui_timeouts: per id the dialog whose timer it stops
  asleep, awake,    \* timer tasks in their sleep, and past it
  stop,             \* the progress of stop, terminate or shutdown_child
  asked,            \* dialogs asked so far: [id, timed]
  waiting,          \* dialogs Pi waits for
  stray,            \* ghost: an answer was written for a dialog nobody waits for
  late,             \* ghost: ordinary requests written after the abort of a stop
  turns             \* bound counter

lifeVars == <<state, rev, events, seen, rx>>
callVars == <<req, slot, box, wire, late>>
dialogVars == <<box_ui, timers, asleep, awake, asked, waiting, stray>>
vars == <<lifeVars, callVars, dialogVars, spawn, ready, shut, stdin, reader, stop, turns>>

Live == {"Starting", "Ready", "Running"}
Results == {"ok", "error"}    \* Ok, and every RealRuntimeError
Idle == [at |-> "read", dialog |-> 0, out |-> <<>>]

TypeOK ==
  /\ state \in Live \cup {"Dormant", "Failed"} /\ rev \in Nat
  /\ spawn \in {"hello", "state", "event", "flag", "live", "failed"}
  /\ ready \in BOOLEAN /\ shut \in BOOLEAN /\ stdin \in BOOLEAN /\ rx \in BOOLEAN
  /\ req \in [Req -> {"idle", "slotted", "sent"} \cup Results]
  /\ slot \subseteq Req /\ wire \subseteq Req
  /\ box \in [Req -> {"none", "ok", "error"}]
  /\ reader.at \in {"read", "projected", "offer", "mirror", "dead"}
  /\ Len(events) <= Cap /\ Cardinality({d \in Did : box_ui[d] # 0}) <= Slots
  /\ box_ui \in [Did -> 0 .. MaxAsk] /\ timers \in [Did -> 0 .. MaxAsk]
  /\ asleep \subseteq Inst /\ awake \subseteq Inst
  /\ waiting \subseteq 1 .. Len(asked)
  /\ stop \in {"none", "drain", "abort", "close", "wait", "stopped"}

Init ==
  /\ state = "Starting" /\ rev = 0 /\ spawn = "hello" /\ ready = FALSE
  /\ shut = FALSE /\ stdin = TRUE
  /\ req = [r \in Req |-> IF r = Hello THEN "slotted" ELSE "idle"]
  /\ slot = {Hello} /\ box = [r \in Req |-> "none"] /\ wire = {}
  /\ reader = Idle /\ events = <<>> /\ seen = [rev |-> 0, state |-> "Starting"]
  /\ rx = TRUE
  /\ box_ui = [d \in Did |-> 0] /\ timers = [d \in Did |-> 0]
  /\ asleep = {} /\ awake = {} /\ stop = "none"
  /\ asked = <<>> /\ waiting = {} /\ stray = FALSE /\ late = {} /\ turns = 0

-----------------------------------------------------------------------------
(* The event channel: a send waits for room unless the receiver is gone.   *)

Send(es, e) == IF rx THEN Append(es, e) ELSE es
HasRoom == ~rx \/ Len(events) < Cap
StateEvent(s, n) == [rev |-> n, state |-> s]
Other == [rev |-> 0, state |-> "Starting"]

(* The consumer takes the next event and keeps the newest state by revision. *)
Consume ==
  /\ rx /\ events # <<>>
  /\ events' = Tail(events)
  /\ seen' = IF Head(events).rev > seen.rev THEN Head(events) ELSE seen
  /\ UNCHANGED <<state, rev, rx, callVars, dialogVars, spawn, ready, shut, stdin, reader, stop, turns>>

(* The host drops the receiver once the runtime is being retired. *)
Hangup ==
  /\ rx /\ stop # "none"
  /\ rx' = FALSE /\ events' = <<>>
  /\ UNCHANGED <<state, rev, seen, callVars, dialogVars, spawn, ready, shut, stdin, reader, stop, turns>>

(* The reader's handler ends by sending what it put in `out`. *)
ReaderSends ==
  /\ reader.out # <<>> /\ HasRoom
  /\ events' = Send(events, Head(reader.out))
  /\ reader' = [reader EXCEPT !.out = Tail(reader.out)]
  /\ UNCHANGED <<state, rev, seen, rx, callVars, dialogVars, spawn, ready, shut, stdin, stop, turns>>

Reads == reader.at = "read" /\ reader.out = <<>>

-----------------------------------------------------------------------------
(* Requests.                                                               *)

(* request_with_shutdown_policy up to the write: the slot is registered    *)
(* between two looks at the shutdown flag.                                 *)
Admit(r) ==
  /\ req[r] = "idle" /\ spawn = "live" /\ r \in Call
  /\ IF shut
     THEN req' = [req EXCEPT ![r] = "error"] /\ UNCHANGED slot
     ELSE req' = [req EXCEPT ![r] = "slotted"] /\ slot' = slot \cup {r}
  /\ UNCHANGED <<lifeVars, dialogVars, box, wire, late, spawn, ready, shut, stdin, reader, stop, turns>>

(* The write: it fails when the pipe is closed or Pi no longer reads. *)
Write(r) ==
  /\ req[r] = "slotted"
  /\ \/ /\ stdin /\ req' = [req EXCEPT ![r] = "sent"]
        /\ wire' = wire \cup {r}
        /\ late' = IF r \in Call /\ req[Abort] \notin {"idle", "slotted"} THEN late \cup {r} ELSE late
        /\ UNCHANGED slot
     \/ /\ ~stdin \/ reader.at = "dead"
        /\ req' = [req EXCEPT ![r] = "error"]
        /\ slot' = slot \ {r} /\ UNCHANGED <<wire, late>>
  /\ UNCHANGED <<lifeVars, dialogVars, box, spawn, ready, shut, stdin, reader, stop, turns>>

(* The future wakes with what its oneshot holds. *)
Receive(r) ==
  /\ req[r] = "sent" /\ box[r] # "none"
  /\ req' = [req EXCEPT ![r] = box[r]] /\ box' = [box EXCEPT ![r] = "none"]
  /\ UNCHANGED <<lifeVars, dialogVars, slot, wire, late, spawn, ready, shut, stdin, reader, stop, turns>>

(* The deadline passes; a prompt goes on waiting while a dialog is open. *)
WaitsForDialog(r) == r \in Prompt /\ \E d \in Did : box_ui[d] # 0


Timeout(r) ==
  /\ req[r] = "sent" /\ box[r] = "none" /\ ~WaitsForDialog(r)
  /\ req' = [req EXCEPT ![r] = "error"]
  /\ slot' = slot \ {r}
  /\ UNCHANGED <<lifeVars, dialogVars, box, wire, late, spawn, ready, shut, stdin, reader, stop, turns>>

(* A response frame takes the slot of its id, if it still is there, and    *)
(* resolves it by validate_success_response; a command refused with a      *)
(* reason is also reported as an event.                                    *)
Respond(r, what, told) ==
  /\ Reads /\ r \in wire
  /\ wire' = wire \ {r} /\ slot' = slot \ {r}
  /\ box' = IF r \in slot THEN [box EXCEPT ![r] = what] ELSE box
  /\ reader' = [reader EXCEPT !.out = IF what = "error" /\ told THEN <<Other>> ELSE <<>>]
  /\ UNCHANGED <<lifeVars, dialogVars, req, late, spawn, ready, shut, stdin, stop, turns>>

-----------------------------------------------------------------------------
(* The lifecycle, kept by the reader.                                      *)

(* set_shared_state: nothing when unchanged, otherwise a new revision and  *)
(* a State event, sent after the lock is released.                         *)
SetState(s) ==
  IF state = s THEN UNCHANGED <<state, rev, reader>>
  ELSE /\ state' = s /\ rev' = rev + 1
       /\ reader' = [reader EXCEPT !.out = <<StateEvent(s, rev + 1)>>]

AgentStart ==
  /\ Reads /\ turns < MaxTurn /\ turns' = turns + 1
  /\ SetState("Running")
  /\ UNCHANGED <<events, seen, rx, callVars, dialogVars, spawn, ready, shut, stdin, stop>>

AgentSettled ==
  /\ Reads /\ state = "Running"
  /\ SetState("Ready")
  /\ UNCHANGED <<events, seen, rx, callVars, dialogVars, spawn, ready, shut, stdin, stop, turns>>

(* Every other frame becomes at most one event: a turn, a message, a tool, *)
(* a queue length, an appended entry, a notice.                            *)
Reports ==
  /\ Reads /\ turns < MaxTurn /\ turns' = turns + 1
  /\ reader' = [reader EXCEPT !.out = <<Other>>]
  /\ UNCHANGED <<lifeVars, callVars, dialogVars, spawn, ready, shut, stdin, stop>>

(* fail_pending: every registered request learns that the runtime is gone. *)
FailPending ==
  /\ slot' = {}
  /\ box' = [r \in Req |-> IF r \in slot THEN "error" ELSE box[r]]

(* mark_failed, after which the reader returns: a garbled frame, a read    *)
(* error, an incomplete last frame, or an end of file nobody asked for.    *)
ReaderFails ==
  /\ Reads
  /\ FailPending
  /\ state' = "Failed" /\ rev' = rev + 1
  /\ reader' = [Idle EXCEPT !.at = "dead", !.out = <<StateEvent("Failed", rev + 1), Other>>]
  /\ UNCHANGED <<events, seen, rx, req, wire, late, dialogVars, spawn, ready, shut, stdin, stop, turns>>

(* mark_settled at a clean end of file after shutdown began. *)
ReaderSettles ==
  /\ Reads /\ shut
  /\ FailPending
  /\ state' = "Dormant" /\ rev' = rev + 1
  /\ reader' = [Idle EXCEPT !.at = "dead", !.out = <<StateEvent("Dormant", rev + 1)>>]
  /\ UNCHANGED <<events, seen, rx, req, wire, late, dialogVars, spawn, ready, shut, stdin, stop, turns>>

-----------------------------------------------------------------------------
(* The spawner after the process is started.                               *)

(* The handshake answer arrives: an error, or a state that cannot be read, *)
(* retires the process.                                                    *)
HelloDone(readable) ==
  /\ spawn = "hello" /\ req[Hello] \in Results
  /\ IF req[Hello] = "ok" /\ readable
     THEN spawn' = "state" /\ UNCHANGED <<shut, stop>>
     ELSE spawn' = "failed" /\ shut' = TRUE /\ stop' = "close"
  /\ UNCHANGED <<lifeVars, callVars, dialogVars, ready, stdin, reader, turns>>

(* transition_starting_to_ready under the state lock; a runtime that has   *)
(* meanwhile failed is terminated.                                         *)
StartingToReady ==
  /\ spawn = "state"
  /\ \/ /\ state = "Starting" /\ state' = "Ready" /\ rev' = rev + 1
        /\ spawn' = "event" /\ UNCHANGED <<shut, stop>>
     \/ /\ state \in {"Ready", "Running"} /\ spawn' = "flag"
        /\ UNCHANGED <<state, rev, shut, stop>>
     \/ /\ state \in {"Dormant", "Failed"} /\ spawn' = "failed"
        /\ shut' = TRUE /\ stop' = "close" /\ UNCHANGED <<state, rev>>
  /\ UNCHANGED <<events, seen, rx, callVars, dialogVars, ready, stdin, reader, turns>>

(* ... and its State event, sent after the lock was released: the reader   *)
(* may have sent a newer one first.  The transition is always revision 1.  *)
ReadyEvent ==
  /\ spawn = "event" /\ HasRoom
  /\ events' = Send(events, StateEvent("Ready", 1))
  /\ spawn' = "flag"
  /\ UNCHANGED <<state, rev, seen, rx, callVars, dialogVars, ready, shut, stdin, reader, stop, turns>>

ReadyFlag ==
  /\ spawn = "flag" /\ ready' = TRUE /\ spawn' = "live"
  /\ UNCHANGED <<lifeVars, callVars, dialogVars, shut, stdin, reader, stop, turns>>

-----------------------------------------------------------------------------
(* Dialogs.                                                                *)

Open == {d \in Did : box_ui[d] # 0}

(* A response frame for the source ids D: Pi resolves every dialog with    *)
(* one of them.  An answer to a dialog without a deadline that nobody      *)
(* waits for is recorded as stray.                                         *)
Answer(D, in, from) ==
  IF stdin
  THEN /\ waiting' = {i \in in : from[i].id \notin D}
       /\ stray' = (stray \/ \E d \in D : \A i \in 1 .. Len(from) :
                       from[i].id = d => i \notin in /\ ~from[i].timed)
  ELSE waiting' = in /\ UNCHANGED stray

(* self.pending.len() >= MAX_PENDING_DIALOGS, the other way round. *)
HasSlot == Cardinality(Open) < Slots

(* ExtensionUiMailbox.project for a dialog: a repeated id, a full mailbox  *)
(* or a request it cannot show is cancelled at once, and a stale slot of   *)
(* that id goes with it; otherwise it takes a slot.                        *)
Ask(d, timed, shown) ==
  /\ Reads /\ Len(asked) < MaxAsk
  /\ LET n == Len(asked) + 1
         now == Append(asked, [id |-> d, timed |-> timed])
     IN /\ asked' = now
        /\ IF box_ui[d] = 0 /\ HasSlot /\ shown
           THEN /\ box_ui' = [box_ui EXCEPT ![d] = n]
                /\ waiting' = waiting \cup {n} /\ UNCHANGED stray
                /\ reader' = [reader EXCEPT !.at = "projected", !.dialog = n]
           ELSE /\ box_ui' = [box_ui EXCEPT ![d] = 0]
                /\ Answer({d}, waiting \cup {n}, now)
                /\ reader' = [reader EXCEPT !.out = IF ready /\ ~shut THEN <<Other>> ELSE <<>>]
  /\ UNCHANGED <<lifeVars, callVars, timers, asleep, awake, spawn, ready, shut, stdin, stop, turns>>

(* mailbox.cancel by the reader: only a slot that is still there is answered. *)
Cancel(d) ==
  IF box_ui[d] # 0
  THEN box_ui' = [box_ui EXCEPT ![d] = 0] /\ Answer({d}, waiting, asked)
  ELSE UNCHANGED <<box_ui, waiting, stray>>

(* handle_extension_ui after the projection: before the handshake is done  *)
(* and during a shutdown the dialog is cancelled, otherwise it is offered. *)
CheckDialog ==
  /\ reader.at = "projected"
  /\ IF ~ready \/ shut
     THEN Cancel(asked[reader.dialog].id) /\ reader' = Idle
     ELSE reader' = [reader EXCEPT !.at = "offer"] /\ UNCHANGED <<box_ui, waiting, stray>>
  /\ UNCHANGED <<lifeVars, callVars, timers, asleep, awake, asked, spawn, ready, shut, stdin, stop, turns>>

OfferDialog ==
  /\ reader.at = "offer" /\ HasRoom
  /\ IF ~rx
     THEN Cancel(asked[reader.dialog].id) /\ reader' = Idle /\ UNCHANGED events
     ELSE /\ events' = Append(events, Other)
          /\ reader' = IF asked[reader.dialog].timed THEN [reader EXCEPT !.at = "mirror"] ELSE Idle
          /\ UNCHANGED <<box_ui, waiting, stray>>
  /\ UNCHANGED <<state, rev, seen, rx, callVars, timers, asleep, awake, asked, spawn, ready, shut, stdin, stop, turns>>

(* mirror_extension_dialog_timeout: a timer task, and the handle that stops it. *)
MirrorTimeout ==
  /\ reader.at = "mirror"
  /\ LET d == asked[reader.dialog].id IN
       IF box_ui[d] = 0 THEN UNCHANGED <<timers, asleep>>
       ELSE /\ timers' = [timers EXCEPT ![d] = reader.dialog]
            /\ asleep' = (asleep \ {timers[d]}) \cup {reader.dialog}
  /\ reader' = Idle
  /\ UNCHANGED <<lifeVars, callVars, box_ui, awake, asked, waiting, stray, spawn, ready, shut, stdin, stop, turns>>

(* Pi lets one of its dialogs expire. *)
PiExpires(i) ==
  /\ i \in waiting /\ asked[i].timed
  /\ waiting' = waiting \ {i}
  /\ UNCHANGED <<lifeVars, callVars, box_ui, timers, asleep, awake, asked, stray, spawn, ready, shut, stdin, reader, stop, turns>>

(* The timer was started after Pi's own, with the same length.  It removes *)
(* whatever handle its id has; a handle that is dropped ends its task.     *)
TimerWakes(i) ==
  /\ i \in asleep /\ i \notin waiting
  /\ timers' = [timers EXCEPT ![asked[i].id] = 0]
  /\ asleep' = asleep \ {i, timers[asked[i].id]}
  /\ awake' = awake \cup {i}
  /\ UNCHANGED <<lifeVars, callVars, box_ui, asked, waiting, stray, spawn, ready, shut, stdin, reader, stop, turns>>

TimerForgets(i) ==
  /\ i \in awake /\ HasRoom
  /\ awake' = awake \ {i}
  /\ box_ui' = [box_ui EXCEPT ![asked[i].id] = 0]
  /\ events' = IF box_ui[asked[i].id] # 0 /\ ~shut THEN Send(events, Other) ELSE events
  /\ UNCHANGED <<state, rev, seen, rx, callVars, timers, asleep, asked, waiting, stray, spawn, ready, shut, stdin, reader, stop, turns>>

(* respond_extension_ui: serialised with stop and terminate by the gate; a *)
(* valid answer takes the slot, stops its timer and is written.            *)
RespondDialog(d) ==
  /\ spawn = "live" /\ stop \in {"none", "stopped"} /\ ~shut
  /\ box_ui[d] # 0
  /\ box_ui' = [box_ui EXCEPT ![d] = 0]
  /\ timers' = [timers EXCEPT ![d] = 0] /\ asleep' = asleep \ {timers[d]}
  /\ Answer({d}, waiting, asked)
  /\ UNCHANGED <<lifeVars, callVars, awake, asked, spawn, ready, shut, stdin, reader, stop, turns>>

-----------------------------------------------------------------------------
(* stop, terminate and shutdown_child.                                     *)

(* Both take the response gate and raise the flag; a graceful stop first   *)
(* cancels the dialogs and sends the one command admitted during shutdown. *)
StopBegins(graceful) ==
  /\ spawn = "live" /\ stop = "none"
  /\ shut' = TRUE /\ stop' = IF graceful THEN "drain" ELSE "close"
  /\ UNCHANGED <<lifeVars, callVars, dialogVars, spawn, ready, stdin, reader, turns>>

(* drain_extension_ui_dialogs: the mailbox is emptied, then every one of   *)
(* its dialogs is cancelled.                                               *)
DrainDialogs ==
  /\ box_ui' = [d \in Did |-> 0]
  /\ Answer(Open, waiting, asked)

StopDrains ==
  /\ stop = "drain" /\ DrainDialogs
  /\ req' = [req EXCEPT ![Abort] = "slotted"] /\ slot' = slot \cup {Abort}
  /\ stop' = "abort"
  /\ UNCHANGED <<lifeVars, box, wire, late, timers, asleep, awake, asked, spawn, ready, shut, stdin, reader, turns>>

StopAborted ==
  /\ stop = "abort" /\ req[Abort] \in Results
  /\ stop' = "close"
  /\ UNCHANGED <<lifeVars, callVars, dialogVars, spawn, ready, shut, stdin, reader, turns>>

(* shutdown_child: timers, dialogs, then standard input. *)
StopCloses ==
  /\ stop = "close"
  /\ timers' = [d \in Did |-> 0]
  /\ asleep' = asleep \ {timers[d] : d \in Did}
  /\ DrainDialogs
  /\ stdin' = FALSE /\ stop' = "wait"
  /\ UNCHANGED <<lifeVars, callVars, awake, asked, spawn, ready, shut, reader, turns>>

(* The reader has drained standard output, or the wait for it has run out; *)
(* the process tree is terminated either way.                              *)
StopEnds ==
  /\ stop = "wait" /\ stop' = "stopped"
  /\ UNCHANGED <<lifeVars, callVars, dialogVars, spawn, ready, shut, stdin, reader, turns>>

-----------------------------------------------------------------------------
ReaderStep ==
  \/ ReaderSends \/ CheckDialog \/ OfferDialog \/ MirrorTimeout

Pi ==
  \/ \E r \in Req, what \in Results, told \in BOOLEAN : Respond(r, what, told)
  \/ AgentStart \/ AgentSettled \/ Reports \/ ReaderFails \/ ReaderSettles
  \/ \E d \in Did, timed \in BOOLEAN, shown \in BOOLEAN : Ask(d, timed, shown)
  \/ \E i \in Inst : PiExpires(i)

Requests ==
  \E r \in Req : Admit(r) \/ Write(r) \/ Receive(r) \/ Timeout(r)

Spawner ==
  \/ \E readable \in BOOLEAN : HelloDone(readable)
  \/ StartingToReady \/ ReadyEvent \/ ReadyFlag

Timers == \E i \in Inst : TimerWakes(i) \/ TimerForgets(i)

Stopper == StopDrains \/ StopAborted \/ StopCloses \/ StopEnds

Next ==
  \/ Consume \/ Hangup \/ ReaderStep \/ Pi \/ Requests \/ Spawner \/ Timers
  \/ \E d \in Did : RespondDialog(d)
  \/ \E graceful \in BOOLEAN : StopBegins(graceful)
  \/ Stopper

Spec == Init /\ [][Next]_vars

-----------------------------------------------------------------------------
InFlight == {r \in Req : req[r] \in {"slotted", "sent"}}

(* The pending table never outlives its futures, and a request that waits  *)
(* can still be woken: it owns a slot, or its answer is in its oneshot.    *)
(* (pending.remove on every exit of request_with_shutdown_policy.)         *)
SlotsAreOwned ==
  /\ slot \subseteq InFlight
  /\ \A r \in InFlight : r \in slot \/ box[r] # "none"

(* No request that was registered while the reader lived is left behind    *)
(* when it dies: fail_pending told every one of them.                      *)
NoneLeftBehind ==
  [][reader.at # "dead" /\ reader'.at = "dead" =>
       \A r \in InFlight : r \notin slot' /\ box'[r] # "none"]_vars

(* A dialog Pi still waits for is in the mailbox, where an answer, a stop  *)
(* or a hang-up will find it, as long as Pi can be written to.  The one    *)
(* exception is a source id that Pi used before for a dialog with a        *)
(* deadline: the timer of the earlier one may forget the later one.        *)
NoDialogOrphaned ==
  stdin => \A i \in waiting :
             \/ box_ui[asked[i].id] = i
             \/ \E j \in 1 .. i - 1 : asked[j].id = asked[i].id /\ asked[j].timed

(* No answer is written for a dialog that is already resolved, unless Pi   *)
(* itself let it expire: respond, cancel and drain each consume the slot.  *)
AnsweredOnce == ~stray

(* Once standard input is closed and the reader is between frames, no      *)
(* dialog is left in the mailbox for a person to answer in vain.           *)
ClosedMailbox == (~stdin /\ reader.at \in {"read", "dead"}) => Open = {}

(* A failure the reader detected is final: neither a late handshake answer *)
(* nor the end of a shutdown replaces it.                                  *)
FailedIsFinal == [][state = "Failed" => state' = "Failed"]_vars

(* State events may be sent out of order, the spawner's after the reader's; *)
(* a consumer that keeps the highest revision still ends with the state the *)
(* runtime is in once the channel is drained.                               *)
ConsumerConverges ==
  (rx /\ events = <<>> /\ reader.out = <<>> /\ spawn # "event")
     => seen = [rev |-> rev, state |-> state]

=============================================================================
