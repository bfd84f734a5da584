------------------------------ MODULE MCOutbox ------------------------------
(***************************************************************************)
(* The outbox for TLC.  In a behaviour either two messages are sent and    *)
(* none is edited, or one is sent and people edit it while it waits: both  *)
(* at once have too many states.                                           *)
(***************************************************************************)
EXTENDS Composer, TLC

VARIABLE edited  \* people edit in this behaviour

\* Message ids are opaque; any two may be exchanged.
Ids == Permutations(Msg)

AllInit == edited \in BOOLEAN /\ Init

AllNext ==
  /\ Next
  /\ UNCHANGED edited
  /\ IF edited THEN Len(items') <= 1 ELSE UNCHANGED text

AllSpec == AllInit /\ [][AllNext]_<<vars, edited>>
=============================================================================
