---------------------------- MODULE Attachments ----------------------------
(***************************************************************************)
(* Images of the composer (workspace_attachments.rs, composer inputs) and  *)
(* dropped files: an image is pending from the moment it is attached,      *)
(* moves to one message when the message is queued, and its bytes are      *)
(* deleted once the message was delivered or removed.  Saving the queue    *)
(* and deleting bytes are separate steps; sends are retried under one      *)
(* request id; the process may stop between any two steps.                 *)
(***************************************************************************)
EXTENDS Naturals, FiniteSets, Sequences

CONSTANTS
  Image,       \* images that may be attached, one id each
  Req,         \* request ids of messages of one chat
  Task,        \* sends in progress
  Drop,        \* drops on the window
  None,
  MaxPending,  \* MAX_PENDING_IMAGES
  MaxPerMessage, \* MAX_ATTACHMENTS_PER_MESSAGE
  MaxDrops,    \* MAX_PENDING_DROPS
  MaxFault     \* failed saves, refused prompts, stops

VARIABLES
  fresh,       \* images not attached yet
  file,        \* bytes on disk: none or whole
  pending,     \* images attached and not sent, and those older than a day
  msg,         \* the saved queue: status and images of each message
  send,        \* sends that have looked for their request id
  out,         \* the message being delivered, and whether its images were read
  clean,       \* images whose message is settled and whose bytes are to be deleted
  chat,        \* the chat exists
  drops,       \* registered drops, oldest first, and those older than a minute
  got,         \* drops whose files were handed out
  left,        \* images that a stop, a deleted chat or a repeated send left without owner
  faults

vars == <<fresh, file, pending, msg, send, out, clean, chat, drops, got, left, faults>>

Undelivered == {"queued", "sending", "uncertain"}
Fault == faults < MaxFault /\ faults' = faults + 1

\* referenced_images.
Referenced == UNION {msg[r].img : r \in {q \in Req : msg[q].st \in Undelivered}}

----------------------------------------------------------------------------
(* Pending images.                                                         *)

\* insert deletes what nobody sent within a day.
Sweep == [i \in Image |-> IF i \in pending.old THEN "none" ELSE file[i]]

Full(kept) == Cardinality(kept) >= MaxPending

\* insert, below the limit; the bytes are written aside and renamed.
Insert(i) ==
  LET kept == pending.all \ pending.old
  IN /\ i \in fresh
     /\ IF Full(kept)
        THEN file' = Sweep /\ pending' = [all |-> kept, old |-> {}] /\ UNCHANGED <<fresh, faults>>
        ELSE \/ /\ file' = [Sweep EXCEPT ![i] = "whole"]
                /\ pending' = [all |-> kept \cup {i}, old |-> {}]
                /\ fresh' = fresh \ {i}
                /\ UNCHANGED faults
             \/ Fault /\ UNCHANGED fresh /\ file' = Sweep /\ pending' = [all |-> kept, old |-> {}]
     /\ UNCHANGED <<msg, send, out, clean, chat, drops, got, left>>

Ages(i) ==
  /\ i \in pending.all \ pending.old
  /\ pending' = [pending EXCEPT !.old = @ \cup {i}]
  /\ UNCHANGED <<fresh, file, msg, send, out, clean, chat, drops, got, left, faults>>

Discarded(ids) == ids \cap pending.all

Discard(i) ==
  /\ file[i] # "none"
  /\ file' = [j \in Image |-> IF j \in Discarded({i}) THEN "none" ELSE file[j]]
  /\ pending' = [all |-> pending.all \ {i}, old |-> pending.old \ {i}]
  /\ UNCHANGED <<fresh, msg, send, out, clean, chat, drops, got, left, faults>>

----------------------------------------------------------------------------
(* Messages.                                                               *)

\* Send: a request id that is already queued is accepted without a change.
Send(t, r, ids) ==
  /\ chat /\ send[t] = None
  /\ msg[r].st = "none" /\ Cardinality(ids) <= MaxPerMessage
  /\ send' = [send EXCEPT ![t] = [req |-> r, img |-> ids]]
  /\ UNCHANGED <<fresh, file, pending, msg, out, clean, chat, drops, got, left, faults>>

\* claim_with: every image must still be pending.
Claimable(ids) == ids \subseteq pending.all

\* The queue change is saved while the pending images are held; enqueue does
\* nothing when the request id is there by now.
Claim(t) ==
  LET r == send[t].req
      ids == send[t].img
  IN /\ send[t] # None
     /\ send' = [send EXCEPT ![t] = None]
     /\ IF ~chat \/ ~Claimable(ids)
        THEN UNCHANGED <<pending, msg, left, faults>>
        ELSE \/ /\ pending' = [all |-> pending.all \ ids, old |-> pending.old \ ids]
                /\ IF msg[r].st = "none"
                   THEN msg' = [msg EXCEPT ![r] = [st |-> "queued", img |-> ids]] /\ UNCHANGED left
                   ELSE left' = left \cup ids /\ UNCHANGED msg
                /\ UNCHANGED faults
             \/ Fault /\ UNCHANGED <<pending, msg, left>>
     /\ UNCHANGED <<fresh, file, out, clean, chat, drops, got>>

\* drain and steer: the message is marked before its images are read.
Deliver(r) ==
  /\ chat /\ out = None /\ msg[r].st = "queued"
  /\ msg' = [msg EXCEPT ![r].st = "sending"]
  /\ out' = [req |-> r, pc |-> "read", img |-> msg[r].img]
  /\ UNCHANGED <<fresh, file, pending, send, clean, chat, drops, got, left, faults>>

\* prompt_images: the message waits for the person when an image is missing or refused.
ReadImages ==
  /\ out # None /\ out.pc = "read"
  /\ \/ /\ \A i \in out.img : file[i] = "whole"
        /\ out' = [out EXCEPT !.pc = "prompt"] /\ UNCHANGED <<msg, faults>>
     \/ /\ out.img # {}
        /\ IF \A i \in out.img : file[i] = "whole" THEN Fault ELSE UNCHANGED faults
        /\ msg' = [msg EXCEPT ![out.req].st = IF @ = "sending" THEN "queued" ELSE @] /\ out' = None
  /\ UNCHANGED <<fresh, file, pending, send, clean, chat, drops, got, left>>

\* Mutant: the images of a message that was not accepted are deleted as well.
SettledAll(r, st) == msg[r].img

\* Only a delivered message gives its images up.
Settled(r, st) == IF st = "sent" THEN msg[r].img ELSE {}

\* settle_message; the queue change may fail to be saved, or the chat be gone.
Settle(st) ==
  /\ out # None /\ out.pc = "prompt"
  /\ \/ /\ msg[out.req].st = "sending"
        /\ clean' = clean \cup Settled(out.req, st)
        /\ msg' = [msg EXCEPT ![out.req].st = st, ![out.req].img = IF st = "sent" THEN {} ELSE @]
        /\ IF st = "sent" THEN UNCHANGED faults ELSE Fault
     \/ /\ UNCHANGED <<msg, clean>>
        /\ IF msg[out.req].st = "sending" THEN Fault ELSE UNCHANGED faults
  /\ out' = None
  /\ UNCHANGED <<fresh, file, pending, send, chat, drops, got, left>>

\* Remove by the person.
Remove(r) ==
  /\ chat /\ msg[r].st \in {"queued", "uncertain"}
  /\ clean' = clean \cup msg[r].img
  /\ msg' = [msg EXCEPT ![r].st = "cancelled", ![r].img = {}]
  /\ UNCHANGED <<fresh, file, pending, send, out, chat, drops, got, left, faults>>

\* The bytes of a settled message are deleted after the queue was saved.
Clean(i) ==
  /\ i \in clean
  /\ clean' = clean \ {i}
  /\ file' = [file EXCEPT ![i] = "none"]
  /\ UNCHANGED <<fresh, pending, msg, send, out, chat, drops, got, left, faults>>

\* delete_session_command forgets the chat with its queue.
DeleteChat ==
  /\ chat /\ chat' = FALSE
  /\ left' = left \cup Referenced
  /\ msg' = [r \in Req |-> [msg[r] EXCEPT !.st = IF @ = "none" THEN @ ELSE "gone", !.img = {}]]
  /\ UNCHANGED <<fresh, file, pending, send, out, clean, drops, got, faults>>

----------------------------------------------------------------------------
(* Drops on the window.                                                    *)

Waiting == {drops.seq[k] : k \in 1..Len(drops.seq)}
Without(seq, gone) == SelectSeq(seq, LAMBDA d : d \notin gone)

\* A full list gives the oldest drop up.
Room(seq) == IF Len(seq) >= MaxDrops THEN Tail(seq) ELSE seq

\* register.
Register(d) ==
  /\ d \notin drops.seen
  /\ drops' = [seq |-> Room(Without(drops.seq, drops.old)) \o <<d>>, old |-> {}, seen |-> drops.seen \cup {d}]
  /\ UNCHANGED <<fresh, file, pending, msg, send, out, clean, chat, got, left, faults>>

DropAges(d) ==
  /\ d \in Waiting \ drops.old
  /\ \A e \in Waiting \ drops.old : \E k, l \in 1..Len(drops.seq) : drops.seq[k] = d /\ drops.seq[l] = e /\ k <= l
  /\ drops' = [drops EXCEPT !.old = @ \cup {d}]
  /\ UNCHANGED <<fresh, file, pending, msg, send, out, clean, chat, got, left, faults>>

Taken(d) == [drops EXCEPT !.seq = Without(@, {d}), !.old = @ \ {d}]

\* take: once, and only while it is young.
Take(d) ==
  /\ d \in Waiting
  /\ drops' = Taken(d)
  /\ got' = IF d \in drops.old THEN got ELSE [got EXCEPT ![d] = @ + 1]
  /\ UNCHANGED <<fresh, file, pending, msg, send, out, clean, chat, left, faults>>

----------------------------------------------------------------------------
\* retain_only.
Retained == Referenced

\* The host stops, and recover_queues runs at the next start.
Restart ==
  /\ Fault
  /\ file' = [i \in Image |-> IF i \in Retained THEN file[i] ELSE "none"]
  /\ pending' = [all |-> {}, old |-> {}]
  /\ msg' = [r \in Req |-> [msg[r] EXCEPT !.st = IF @ = "sending" THEN "uncertain" ELSE @]]
  /\ send' = [t \in Task |-> None] /\ out' = None /\ clean' = {} /\ left' = {}
  /\ drops' = [drops EXCEPT !.seq = <<>>, !.old = {}]
  /\ UNCHANGED <<fresh, chat, got>>

Init ==
  /\ fresh = Image /\ file = [i \in Image |-> "none"] /\ pending = [all |-> {}, old |-> {}]
  /\ msg = [r \in Req |-> [st |-> "none", img |-> {}]]
  /\ send = [t \in Task |-> None] /\ out = None /\ clean = {} /\ chat = TRUE /\ left = {}
  /\ drops = [seq |-> <<>>, old |-> {}, seen |-> {}] /\ got = [d \in Drop |-> 0]
  /\ faults = 0

Next ==
  \/ \E i \in Image : Insert(i) \/ Ages(i) \/ Discard(i) \/ Clean(i)
  \/ \E t \in Task : Claim(t) \/ \E r \in Req, ids \in SUBSET Image : Send(t, r, ids)
  \/ \E r \in Req : Deliver(r) \/ Remove(r)
  \/ ReadImages \/ \E st \in {"sent", "queued", "uncertain"} : Settle(st)
  \/ DeleteChat \/ Restart
  \/ \E d \in Drop : Register(d) \/ DropAges(d) \/ Take(d)

Spec == Init /\ [][Next]_vars

----------------------------------------------------------------------------
Owner(i) == {r \in Req : i \in msg[r].img}

\* The store has its shape, within its limits.
TypeOK ==
  /\ file \in [Image -> {"none", "whole"}] /\ fresh \subseteq Image
  /\ \A r \in Req : msg[r].img \subseteq Image /\ Cardinality(msg[r].img) <= MaxPerMessage
  /\ pending.old \subseteq pending.all /\ Cardinality(pending.all) <= MaxPending
  /\ Len(drops.seq) <= MaxDrops

\* The bytes of an image are there as long as a message that is not delivered or a
\* composer needs it.
BytesKept == \A i \in pending.all \cup Referenced : file[i] = "whole"

\* An image belongs to one message or to the composer, never to two.
OneOwner == \A i \in Image : Cardinality(Owner(i)) + (IF i \in pending.all THEN 1 ELSE 0) <= 1

\* Bytes are there only for the composer, for a message that needs them, or for as
\* long as it takes to delete them; a deleted chat and a repeated send leave theirs
\* until the next start.
NoLeftovers == \A i \in Image : file[i] # "none" => i \in pending.all \cup Referenced \cup clean \cup left

\* The files of a drop are handed out at most once.
DroppedOnce == \A d \in Drop : got[d] <= 1

\* The latest drop can be redeemed: it is never given up for an older one.
LatestDropKept ==
  [][\A d \in Drop : Register(d) => drops'.seq # <<>> /\ drops'.seq[Len(drops'.seq)] = d
                                    /\ \A e \in Waiting : e \notin {drops'.seq[k] : k \in 1..Len(drops'.seq)} =>
                                        e \in drops.old \/ e = Without(drops.seq, drops.old)[1]]_vars
=============================================================================
