-------------------------- MODULE DurableRegister --------------------------
(***************************************************************************)
(* What the host's document stores promise their callers: one document,    *)
(* replaced as a whole, that survives the end of the process.              *)
(*                                                                         *)
(* A save that has reached the disk but has not been confirmed is in       *)
(* doubt: a restart shows either the last confirmed document or one in     *)
(* doubt, and nothing else.  Confirming a save ends every doubt.           *)
(***************************************************************************)

CONSTANTS Doc, Empty, Offline

VARIABLES confirmed, \* the document of the last save that was confirmed
          doubt,     \* documents of unconfirmed saves that a restart may show
          visible    \* the document readers see, Offline between two lives

vars == <<confirmed, doubt, visible>>

Init ==
    /\ confirmed = Empty
    /\ doubt = {}
    /\ visible = Empty

(* The bytes of a save are complete on disk. *)
Reach(d) ==
    /\ visible # Offline
    /\ doubt' = doubt \cup {d}
    /\ UNCHANGED <<confirmed, visible>>

(* A failed save takes its bytes back, or a loss of power does. *)
Withdraw ==
    /\ doubt' \in SUBSET doubt
    /\ UNCHANGED <<confirmed, visible>>

(* A save returns: readers see its document and no older one can return. *)
Confirm(d) ==
    /\ visible # Offline
    /\ d \in doubt
    /\ confirmed' = d
    /\ doubt' = {}
    /\ visible' = d

(* The process ends, with or without the machine. *)
Stop ==
    /\ visible # Offline
    /\ visible' = Offline
    /\ doubt' \in SUBSET doubt
    /\ UNCHANGED confirmed

Restart ==
    /\ visible = Offline
    /\ visible' \in {confirmed} \cup doubt
    /\ UNCHANGED <<confirmed, doubt>>

Next ==
    \/ \E d \in Doc : Reach(d) \/ Confirm(d)
    \/ Withdraw
    \/ Stop
    \/ Restart

Spec == Init /\ [][Next]_vars
=============================================================================
