------------------------ MODULE ManagedRuntimeProofs ------------------------
(***************************************************************************)
(* For any manifest, any number of bundles, supervisors and native files   *)
(* and any changes by other programs: a verified bundle stays what its     *)
(* manifest says, and a permit opens only its own bundle, once.            *)
(*                                                                         *)
(* Neither is inductive.  The first needs what each phase of a check has   *)
(* established about the leases while other programs go on: which files    *)
(* are leased, which leased files have been hashed, and that a lease       *)
(* freezes its file.  The second needs that nonces are never reused and    *)
(* that a supervisor has one bundle under way until its slot is taken.     *)
(***************************************************************************)
EXTENDS ManagedRuntime, FiniteSetTheorems, TLAPS

\* A lease is of the file its path names, and stays so.
LeasesHold ==
  \A b \in Bundle, f \in File :
    bundle[b].lease[f] # Nothing => at[f] = bundle[b].lease[f]

\* The bundle has a lease of every file, and each has the declared bytes.
Leases(b) == \A f \in File : bundle[b].lease[f] # Nothing
Hashed(b, F) == \A f \in F : bytes[bundle[b].lease[f]] = f

\* What the phases of a first verification have established.
PhasesHold ==
  /\ call.pc \in {"scan", "lease"} => call.op = "verify"
  /\ call.op = "verify" => call.b \in Bundle /\ bundle[call.b].at = "checking"
  /\ windows /\ call.op = "verify" =>
       /\ call.pc = "lease" => \A f \in File \ call.todo : bundle[call.b].lease[f] # Nothing
       /\ call.pc \in {"rescan", "hash", "done"} => Leases(call.b)
       /\ call.pc = "hash" => Hashed(call.b, File \ call.todo)
       /\ call.pc = "done" => Hashed(call.b, File)

HeldIsHashed ==
  windows => \A b \in Bundle : bundle[b].at \in {"held", "moved"} => Leases(b) /\ Hashed(b, File)

\* Nonces of a supervisor are never reused, and name one bundle.
NoncesFresh ==
  /\ \A p \in permits : p.nonce < nonce[p.s]
  /\ \A s \in Sup : \A x \in outstanding[s] : x.nonce < nonce[s]
  /\ \A p \in permits : \A x \in outstanding[p.s] : x.nonce = p.nonce => x.b = p.b

\* A supervisor has at most one bundle under way, and none once its slot is taken.
OneUnderWay ==
  /\ \A s \in Sup : \A x, y \in outstanding[s] : x = y
  /\ \A s \in Sup : outstanding[s] # {} => slot[s] = "Available"
  /\ call.op \in {"authorize", "take"} => call.s \in Sup /\ slot[call.s] = "Available"
  /\ call.op = "take" => outstanding[call.s] = {}
  /\ \A x \in opened : slot[x.s] = "Transferred"

TakeIsOwn ==
  call.op = "take" =>
    /\ call.p \in permits /\ call.p.s = call.s /\ call.p.b = call.b
    /\ call.b \in Bundle
    /\ windows /\ policy[call.s] = "ContainedProbeOnly"

-----------------------------------------------------------------------------
(***************************************************************************)
(* Type correctness.                                                       *)
(***************************************************************************)
LeaseType == [File -> Object \cup {Nothing}]
EvidenceType == [at : {"none", "checking", "held", "moved", "dropped"}, lease : LeaseType]

\* A call names the bundle it checks, its supervisor and permit, and the declared
\* file in its hand.
CallNamed ==
  /\ call.hand # Nothing => call.of \in File
  /\ call.op # "none" => call.b \in Bundle
  /\ call.op \in {"authorize", "take"} => call.s \in Sup
  /\ call.op = "take" => call.p \in permits
Shape == TypeOK /\ CallNamed
BundleInv == Shape /\ LeasesHold /\ PhasesHold /\ HeldIsHashed
PermitInv == Shape /\ NoncesFresh /\ OneUnderWay /\ TakeIsOwn /\ PermitOpensOwn

SameOwner == call'.op = call.op /\ call'.b = call.b /\ call'.s = call.s /\ call'.p = call.p

\* Calls name the permits that exist.
LEMMA CallTypeSame == ASSUME permits' = permits PROVE CallType' = CallType
BY DEF CallType
LEMMA NoCallType ==
  NoCall \in CallType /\ NoCall \in CallType' /\ NoCall.hand = Nothing /\ NoCall.op = "none"
BY DEF CallType, NoCall, Undeclared

\* A new scan keeps its owner and has nothing in hand.
LEMMA ScanNew ==
  ASSUME NEW c \in CallType, NEW pc \in {"scan", "rescan"}
  PROVE  /\ Scan(c, pc) \in CallType /\ Scan(c, pc).hand = Nothing /\ Scan(c, pc).pc = pc
         /\ Scan(c, pc).op = c.op /\ Scan(c, pc).b = c.b /\ Scan(c, pc).s = c.s /\ Scan(c, pc).p = c.p
BY DEF CallType, Scan, Undeclared

\* Begin makes a call with the given owner.
LEMMA BeginNew ==
  ASSUME NEW op \in {"verify", "authorize", "take"}, NEW b \in Bundle, NEW s \in Sup \cup {Nothing},
         NEW p \in permits \cup {Nothing}, NEW pc \in {"scan", "rescan"}, Begin(op, b, s, p, pc)
  PROVE  /\ call' \in CallType /\ call'.hand = Nothing /\ call'.pc = pc
         /\ call'.op = op /\ call'.b = b /\ call'.s = s /\ call'.p = p
<1> DEFINE c == [NoCall EXCEPT !.op = op, !.b = b, !.s = s, !.p = p]
<1>1. c \in CallType /\ c.op = op /\ c.b = b /\ c.s = s /\ c.p = p
  BY DEF NoCall, CallType, Undeclared
<1>2. call' = Scan(c, pc)
  BY DEF Begin
<1> HIDE DEF c
<1> QED
  BY <1>1, <1>2, ScanNew

\* A bundle that moves keeps its leases.
LEMMA MovesType ==
  ASSUME TypeOK, NEW b \in Bundle, NEW where \in {"checking", "held", "moved", "dropped"}, Moves(b, where)
  PROVE  bundle' \in [Bundle -> EvidenceType]
<1>1. bundle \in [Bundle -> EvidenceType]
  BY DEF TypeOK, EvidenceType, LeaseType
<1>2. [bundle[b] EXCEPT !.at = where] \in EvidenceType
  BY <1>1 DEF EvidenceType
<1> QED
  BY <1>1, <1>2 DEF Moves

\* A failed check leaves well-formed records.
LEMMA RejectedShape ==
  ASSUME Shape, Rejected, permits' = permits
  PROVE  bundle' \in [Bundle -> EvidenceType] /\ call' \in CallType' /\ CallNamed'
<1>1. call' \in CallType' /\ CallNamed'
  BY NoCallType DEF Rejected, CallNamed
<1> QED
  BY <1>1 DEF Shape, TypeOK, Rejected, NoLease, EvidenceType, LeaseType

\* A step of a check that leaves bundles, disk and supervisors alone.
LEMMA CallShape ==
  ASSUME Shape, call' \in CallType, UNCHANGED <<bundle, windows, disk, sups, world>>,
         SameOwner, call'.hand # Nothing => call'.of \in File
  PROVE  Shape'
<1>1. permits' = permits
  BY DEF sups
<1>2. CallNamed'
  BY <1>1 DEF Shape, CallNamed, SameOwner
<1>3. call' \in CallType'
  BY <1>1, CallTypeSame
<1> QED
  BY <1>2, <1>3 DEF Shape, TypeOK, disk, sups

\* A step of a check that changes bundles and its call only.
LEMMA BundleShape ==
  ASSUME Shape, bundle' \in [Bundle -> EvidenceType], call' \in CallType', CallNamed',
         UNCHANGED <<windows, disk, sups, world>>
  PROVE  Shape'
BY DEF Shape, TypeOK, disk, sups, EvidenceType, LeaseType

\* The initial disk and records are well formed.
LEMMA TypeInit == Init => Shape
<1> SUFFICES ASSUME Init PROVE Shape
  OBVIOUS
<1>1. bytes \in [Object -> File \cup {0}]
  BY DEF Init
<1>2. call \in CallType /\ CallNamed
  BY NoCallType DEF Init, CallNamed
<1> QED
  BY <1>1, <1>2, Tree DEF Init, Shape, TypeOK, NoLease

\* Every step of a check, a supervisor or another program keeps them well formed.
LEMMA TypeNext == Shape /\ [Next]_vars => Shape'
<1> SUFFICES ASSUME Shape, [Next]_vars PROVE Shape'
  OBVIOUS
<1>a. TypeOK /\ CallNamed /\ call \in CallType
  BY DEF Shape, TypeOK
<1>1. ASSUME NEW b \in Bundle, VerifyBundle(b) PROVE Shape'
  <2>1. UNCHANGED <<windows, disk, sups, world>> /\ permits' = permits
    BY <1>1 DEF VerifyBundle, sups
  <2>2. bundle' \in [Bundle -> EvidenceType]
    <3>1. Moves(b, "checking") \/ Moves(b, "dropped")
      BY <1>1 DEF VerifyBundle
    <3> QED
      BY <3>1, <1>a, MovesType
  <2>3. CASE Begin("verify", b, Nothing, Nothing, "scan")
    <3>1. call' \in CallType /\ CallNamed'
      BY <2>3, BeginNew DEF CallNamed
    <3> QED
      BY <2>1, <2>2, <3>1, CallTypeSame, BundleShape
  <2>4. CASE UNCHANGED call
    <3>1. CallNamed'
      BY <1>a, <2>1, <2>4 DEF CallNamed
    <3> QED
      BY <1>a, <2>1, <2>2, <2>4, <3>1, CallTypeSame, BundleShape
  <2> QED
    BY <1>1, <2>3, <2>4 DEF VerifyBundle
<1>2. ASSUME NEW b \in Bundle, Dropped(b) PROVE Shape'
  <2>1. UNCHANGED <<windows, disk, sups, world, call>> /\ permits' = permits
    BY <1>2 DEF Dropped, sups
  <2>2. bundle' \in [Bundle -> EvidenceType]
    BY <1>2, <1>a DEF Dropped, TypeOK, NoLease, EvidenceType, LeaseType
  <2>3. CallNamed'
    BY <1>a, <2>1 DEF CallNamed
  <2> QED
    BY <1>a, <2>1, <2>2, <2>3, CallTypeSame, BundleShape
<1>3. ASSUME NEW f \in File, OpenEntry(f) PROVE Shape'
  <2>1. UNCHANGED <<windows, disk, sups, world>> /\ permits' = permits
    BY <1>3 DEF OpenEntry, sups
  <2>2. CASE Rejected
    BY <2>1, <2>2, RejectedShape, BundleShape
  <2>3. CASE call' = [call EXCEPT !.todo = @ \ {f}] /\ UNCHANGED bundle
    <3>1. call' \in CallType /\ SameOwner /\ call'.hand = call.hand /\ call'.of = call.of
      BY <1>a, <2>3 DEF CallType, SameOwner
    <3> QED
      BY <1>a, <2>1, <2>3, <3>1, CallShape DEF CallNamed
  <2>4. CASE call' = [call EXCEPT !.hand = at[f], !.of = f] /\ UNCHANGED bundle /\ at[f] \in Object
    <3>1. call' \in CallType /\ SameOwner /\ call'.of = f
      BY <1>a, <2>4 DEF CallType, SameOwner
    <3> QED
      BY <2>1, <2>4, <3>1, CallShape
  <2> QED
    BY <1>3, <1>a, <2>2, <2>3, <2>4 DEF OpenEntry, TypeOK
<1>4. ASSUME ReadEntry PROVE Shape'
  <2>1. UNCHANGED <<windows, disk, sups, world>> /\ permits' = permits
    BY <1>4 DEF ReadEntry, sups
  <2>2. CASE Rejected
    BY <2>1, <2>2, RejectedShape, BundleShape
  <2>3. CASE /\ call' = [call EXCEPT !.todo = @ \ {call.of}, !.seen = @ \cup {call.of}, !.hand = Nothing, !.of = 0]
             /\ UNCHANGED bundle
    <3>1. call.of \in File
      BY <1>4, <1>a DEF ReadEntry, CallNamed
    <3>2. call' \in CallType /\ SameOwner /\ call'.hand = Nothing
      BY <1>a, <2>3, <3>1 DEF CallType, SameOwner
    <3> QED
      BY <2>1, <2>3, <3>2, CallShape
  <2> QED
    BY <1>4, <2>2, <2>3 DEF ReadEntry
<1>5. ASSUME LookForExtra PROVE Shape'
  <2>1. UNCHANGED <<windows, disk, sups, world>> /\ permits' = permits
    BY <1>5 DEF LookForExtra, sups
  <2>2. CASE Rejected
    BY <2>1, <2>2, RejectedShape, BundleShape
  <2>3. CASE call' = [call EXCEPT !.todo = @ \ {Undeclared}] /\ UNCHANGED bundle
    <3>1. call' \in CallType /\ SameOwner /\ call'.hand = call.hand /\ call'.of = call.of
      BY <1>a, <2>3 DEF CallType, SameOwner
    <3> QED
      BY <1>a, <2>1, <2>3, <3>1, CallShape DEF CallNamed
  <2> QED
    BY <1>5, <2>2, <2>3 DEF LookForExtra
<1>6. ASSUME ScanEnds PROVE Shape'
  <2>1. UNCHANGED <<windows, disk, sups, world>> /\ permits' = permits
    BY <1>6 DEF ScanEnds, sups
  <2>2. CASE Rejected
    BY <2>1, <2>2, RejectedShape, BundleShape
  <2>3. CASE call' = Scan(call, "rescan") /\ UNCHANGED bundle
    BY <1>a, <2>1, <2>3, ScanNew, CallShape DEF SameOwner
  <2>4. ASSUME NEW pc \in {"hash", "done", "lease"}, call' = [call EXCEPT !.pc = pc, !.todo = File], UNCHANGED bundle
        PROVE  Shape'
    <3>1. call' \in CallType /\ SameOwner /\ call'.hand = call.hand /\ call'.of = call.of
      BY <1>a, <2>4 DEF CallType, SameOwner
    <3> QED
      BY <1>a, <2>1, <2>4, <3>1, CallShape DEF CallNamed
  <2> QED
    BY <1>6, <2>2, <2>3, <2>4 DEF ScanEnds
<1>7. ASSUME Acquire PROVE Shape'
  <2>1. UNCHANGED <<windows, disk, sups, world>> /\ permits' = permits
    BY <1>7 DEF Acquire, sups
  <2>2. CASE Rejected
    BY <2>1, <2>2, RejectedShape, BundleShape
  <2>3. ASSUME NEW f, Present(f), bundle' = [bundle EXCEPT ![call.b].lease[f] = at[f]],
               call' = [call EXCEPT !.todo = @ \ {f}]
        PROVE  Shape'
    <3>1. call' \in CallType /\ SameOwner /\ call'.hand = call.hand /\ call'.of = call.of
      BY <1>a, <2>3 DEF CallType, SameOwner
    <3>2. bundle' \in [Bundle -> EvidenceType]
      BY <1>a, <2>3 DEF TypeOK, Present, EvidenceType, LeaseType
    <3>3. CallNamed'
      BY <1>a, <2>1, <3>1 DEF CallNamed, SameOwner
    <3> QED
      BY <2>1, <3>1, <3>2, <3>3, CallTypeSame, BundleShape
  <2> QED
    BY <1>7, <2>2, <2>3 DEF Acquire
<1>8. ASSUME Acquired PROVE Shape'
  <2>1. UNCHANGED <<windows, disk, sups, world>> /\ permits' = permits
    BY <1>8 DEF Acquired, sups
  <2>2. CASE Rejected
    BY <2>1, <2>2, RejectedShape, BundleShape
  <2>3. CASE call' = Scan(call, "rescan") /\ UNCHANGED bundle
    BY <1>a, <2>1, <2>3, ScanNew, CallShape DEF SameOwner
  <2> QED
    BY <1>8, <2>2, <2>3 DEF Acquired
<1>9. ASSUME Rehash PROVE Shape'
  <2>1. UNCHANGED <<windows, disk, sups, world>> /\ permits' = permits
    BY <1>9 DEF Rehash, sups
  <2>2. CASE Rejected
    BY <2>1, <2>2, RejectedShape, BundleShape
  <2>3. ASSUME NEW f, UNCHANGED bundle,
               call' = [call EXCEPT !.todo = @ \ {f}, !.pc = IF call.todo = {f} THEN "done" ELSE @]
        PROVE  Shape'
    <3>1. call' \in CallType /\ SameOwner /\ call'.hand = call.hand /\ call'.of = call.of
      BY <1>a, <2>3 DEF CallType, SameOwner
    <3> QED
      BY <1>a, <2>1, <2>3, <3>1, CallShape DEF CallNamed
  <2> QED
    BY <1>9, <2>2, <2>3 DEF Rehash
<1>10. ASSUME Verified PROVE Shape'
  <2>1. UNCHANGED <<windows, disk, sups, world>> /\ permits' = permits
    BY <1>10 DEF Verified, sups
  <2>2. bundle' \in [Bundle -> EvidenceType]
    BY <1>10, <1>a DEF Verified, Moves, TypeOK, EvidenceType, LeaseType
  <2>3. call' \in CallType' /\ CallNamed'
    BY <1>10, NoCallType DEF Verified, CallNamed
  <2> QED
    BY <2>1, <2>2, <2>3, BundleShape
<1>11. ASSUME Authorized PROVE Shape'
  <2>1. UNCHANGED <<windows, disk, policy, slot, opened, world>>
    BY <1>11 DEF Authorized
  <2>2. CASE Rejected /\ UNCHANGED <<outstanding, permits, nonce>>
    BY <2>1, <2>2, RejectedShape, BundleShape DEF sups
  <2>3. CASE /\ outstanding' = [outstanding EXCEPT ![call.s] = @ \cup {[nonce |-> nonce[call.s], b |-> call.b]}]
             /\ permits' = permits \cup {[s |-> call.s, nonce |-> nonce[call.s], b |-> call.b]}
             /\ nonce' = [nonce EXCEPT ![call.s] = @ + 1]
             /\ call' = NoCall
             /\ UNCHANGED bundle
    <3>1. call.b \in Bundle /\ call.s \in Sup
      BY <1>11, <1>a DEF Authorized, CallNamed
    <3>2. call' \in CallType' /\ CallNamed'
      BY <2>3, NoCallType DEF CallNamed
    <3>3. nonce[call.s] \in Nat
      BY <3>1, <1>a DEF TypeOK
    <3>4. nonce' \in [Sup -> Nat] /\ permits' \subseteq [s : Sup, nonce : Nat, b : Bundle]
      BY <2>3, <3>1, <3>3, <1>a DEF TypeOK
    <3>5. outstanding' \in [Sup -> SUBSET [nonce : Nat, b : Bundle]]
      <4>1. [nonce |-> nonce[call.s], b |-> call.b] \in [nonce : Nat, b : Bundle]
        BY <3>1, <3>3
      <4> QED
        BY <4>1, <2>3, <3>1, <1>a DEF TypeOK
    <3>6. opened' \subseteq [s : Sup, p : permits', b : Bundle]
      BY <2>1, <2>3, <1>a DEF TypeOK
    <3> QED
      BY <2>1, <2>3, <3>2, <3>4, <3>5, <3>6, <1>a DEF Shape, TypeOK, disk
  <2> QED
    BY <1>11, <2>2, <2>3 DEF Authorized
<1>12. ASSUME Taken PROVE Shape'
  <2>1. call.b \in Bundle /\ call.s \in Sup /\ call.p \in permits
    BY <1>12, <1>a DEF Taken, CallNamed
  <2>2. call' \in CallType' /\ CallNamed'
    BY <1>12, NoCallType DEF Taken, CallNamed
  <2>3. opened' \subseteq [s : Sup, p : permits, b : Bundle] /\ slot' \in [Sup -> {"Available", "Transferred"}]
    BY <1>12, <2>1, <1>a DEF Taken, TypeOK
  <2> QED
    BY <1>12, <2>2, <2>3, <1>a DEF Taken, Shape, TypeOK, disk
<1>13. ASSUME CheckFails PROVE Shape'
  BY <1>13, RejectedShape, BundleShape DEF CheckFails, sups
<1>14. ASSUME NEW s \in Sup, NEW b \in Bundle, NEW safe, NEW purpose, Authorize(s, b, safe, purpose)
       PROVE  Shape'
  <2>1. UNCHANGED <<windows, disk, sups, world>> /\ permits' = permits
    BY <1>14 DEF Authorize, sups
  <2>2. bundle' \in [Bundle -> EvidenceType]
    <3>1. bundle' = [bundle EXCEPT ![b] = [at |-> "dropped", lease |-> NoLease]] \/ Moves(b, "moved")
      BY <1>14 DEF Authorize
    <3>2. ASSUME bundle' = [bundle EXCEPT ![b] = [at |-> "dropped", lease |-> NoLease]]
          PROVE  bundle' \in [Bundle -> EvidenceType]
      BY <3>2, <1>a DEF NoLease, TypeOK, EvidenceType, LeaseType
    <3>3. ASSUME Moves(b, "moved") PROVE bundle' \in [Bundle -> EvidenceType]
      BY <3>3, <1>a DEF Moves, TypeOK, EvidenceType, LeaseType
    <3> QED
      BY <3>1, <3>2, <3>3
  <2>3. CASE Begin("authorize", b, s, Nothing, "rescan")
    <3>1. call' \in CallType /\ CallNamed'
      BY <2>3, BeginNew DEF CallNamed
    <3> QED
      BY <2>1, <2>2, <3>1, CallTypeSame, BundleShape
  <2>4. CASE UNCHANGED call
    <3>1. CallNamed'
      BY <1>a, <2>1, <2>4 DEF CallNamed
    <3> QED
      BY <1>a, <2>1, <2>2, <2>4, <3>1, CallTypeSame, BundleShape
  <2> QED
    BY <1>14, <2>3, <2>4 DEF Authorize
<1>15. ASSUME NEW s \in Sup, NEW p \in permits, NEW safe, Take(s, p, safe) PROVE Shape'
  <2>1. PICK x \in outstanding[s] : /\ outstanding' = [outstanding EXCEPT ![s] = @ \ {x}]
                                   /\ Begin("take", x.b, s, p, "rescan")
    BY <1>15 DEF Take
  <2>2. x.b \in Bundle
    BY <1>a DEF TypeOK
  <2>3. permits' = permits
    BY <1>15 DEF Take
  <2>4. call' \in CallType /\ CallNamed'
    BY <2>1, <2>2, <2>3, BeginNew DEF CallNamed
  <2> QED
    BY <1>15, <1>a, <2>1, <2>3, <2>4, CallTypeSame DEF Take, Shape, TypeOK, disk
<1>16. ASSUME NEW o \in Object, NEW v \in File \cup {0}, Overwrite(o, v) PROVE Shape'
  BY <1>16, <1>a, CallTypeSame DEF Overwrite, World, Shape, TypeOK, sups, CallNamed
<1>17. ASSUME NEW f \in File, NEW x \in Object \cup {"link", "gone"}, Put(f, x) PROVE Shape'
  BY <1>17, <1>a, CallTypeSame DEF Put, World, Shape, TypeOK, sups, CallNamed
<1>18. ASSUME NEW o \in Object, Alias(o) PROVE Shape'
  BY <1>18, <1>a, CallTypeSame DEF Alias, World, Shape, TypeOK, sups, CallNamed
<1>19. ASSUME Litter PROVE Shape'
  BY <1>19, <1>a, CallTypeSame DEF Litter, World, Shape, TypeOK, sups, CallNamed
<1>20. ASSUME UNCHANGED vars PROVE Shape'
  BY <1>20, <1>a, CallTypeSame DEF vars, Shape, TypeOK, disk, sups, CallNamed
<1> QED
  BY <1>1, <1>2, <1>3, <1>4, <1>5, <1>6, <1>7, <1>8, <1>9, <1>10, <1>11, <1>12, <1>13, <1>14, <1>15, <1>16,
     <1>17, <1>18, <1>19, <1>20 DEF Next

\* Every bundle, check, supervisor and permit is always well formed.
THEOREM ManagedTypeCorrect == Spec => []TypeOK
<1>1. Init => Shape
  BY TypeInit
<1>2. Shape /\ [Next]_vars => Shape'
  BY TypeNext
<1>3. Shape => TypeOK
  BY DEF Shape
<1> QED
  BY <1>1, <1>2, <1>3, PTL DEF Spec

-----------------------------------------------------------------------------
(***************************************************************************)
(* Leased bundles stay what their manifest says.                           *)
(***************************************************************************)
\* Leases and held bundles depend on the bundles and the files only.
LEMMA HeldKept ==
  ASSUME LeasesHold, HeldIsHashed, UNCHANGED <<windows, bundle, at, bytes>>
  PROVE  LeasesHold' /\ HeldIsHashed'
BY DEF LeasesHold, HeldIsHashed, Leases, Hashed

\* Dropping a bundle lets go of its leases.
LEMMA HeldDropped ==
  ASSUME Shape, LeasesHold, HeldIsHashed, UNCHANGED <<windows, at, bytes>>, NEW b,
         bundle' = [bundle EXCEPT ![b] = [at |-> "dropped", lease |-> NoLease]]
  PROVE  LeasesHold' /\ HeldIsHashed'
<1>1. \A c \in Bundle : \/ bundle'[c] = bundle[c]
                       \/ bundle'[c] = [at |-> "dropped", lease |-> NoLease]
  BY DEF Shape, TypeOK
<1>2. LeasesHold'
  BY <1>1 DEF LeasesHold, NoLease
<1>3. HeldIsHashed'
  BY <1>1 DEF HeldIsHashed, Leases, Hashed
<1> QED
  BY <1>2, <1>3

\* A bundle that moves on keeps its leases; only a hashed one is ever held.
LEMMA HeldMoves ==
  ASSUME Shape, LeasesHold, HeldIsHashed, UNCHANGED <<windows, at, bytes>>, NEW b \in Bundle, NEW where, Moves(b, where),
         windows /\ where \in {"held", "moved"} => Leases(b) /\ Hashed(b, File)
  PROVE  LeasesHold' /\ HeldIsHashed'
<1>1. \A c \in Bundle : bundle'[c].lease = bundle[c].lease /\ (c # b => bundle'[c].at = bundle[c].at) /\ bundle'[b].at = where
  BY DEF Shape, TypeOK, Moves
<1>2. LeasesHold'
  BY <1>1 DEF LeasesHold
<1>3. HeldIsHashed'
  BY <1>1 DEF HeldIsHashed, Leases, Hashed
<1> QED
  BY <1>2, <1>3

\* Without a call no phase is under way.
LEMMA NoPhase == ASSUME call' = NoCall PROVE PhasesHold'
BY DEF PhasesHold, NoCall

\* Steps within a phase, and the phases of the supervisor's checks.
LEMMA PhaseKept ==
  ASSUME PhasesHold, call'.op = call.op, call'.b = call.b, call'.pc = call.pc,
         call.pc \in {"lease", "hash"} => call'.todo = call.todo, UNCHANGED <<windows, bundle, bytes>>
  PROVE  PhasesHold'
BY DEF PhasesHold, Leases, Hashed

\* The part of the invariant that a failed check leaves behind.
LEMMA RejectedKeeps ==
  ASSUME Shape, LeasesHold, HeldIsHashed, UNCHANGED <<windows, at, bytes>>, Rejected
  PROVE  LeasesHold' /\ HeldIsHashed' /\ PhasesHold'
BY HeldDropped, NoPhase DEF Rejected

\* Bytes of leased files and the leased paths themselves are frozen.
LEMMA FrozenKeeps ==
  ASSUME Shape, LeasesHold, HeldIsHashed, PhasesHold, UNCHANGED <<windows, bundle, call>>,
         \A o \in Object : Leased(o) => bytes'[o] = bytes[o],
         \A f \in File : Leased(at[f]) => at'[f] = at[f]
  PROVE  LeasesHold' /\ HeldIsHashed' /\ PhasesHold'
<1>1. \A b \in Bundle, f \in File :
        bundle[b].lease[f] # Nothing => bundle[b].lease[f] \in Object /\ Leased(bundle[b].lease[f])
  BY DEF Shape, TypeOK, Leased
<1>2. LeasesHold'
  BY <1>1 DEF LeasesHold
<1>3. \A b \in Bundle, f \in File : bundle[b].lease[f] # Nothing => bytes'[bundle[b].lease[f]] = bytes[bundle[b].lease[f]]
  BY <1>1
<1>4. HeldIsHashed'
  BY <1>3 DEF HeldIsHashed, Leases, Hashed
<1>5. \A b \in Bundle : Leases(b) => Leases(b)'
  BY DEF Leases
<1>6. \A b \in Bundle : \A F \in SUBSET File : Leases(b) /\ Hashed(b, F) => Hashed(b, F)'
  BY <1>3 DEF Leases, Hashed
<1>7. PhasesHold'
  <2>1. /\ call'.pc \in {"scan", "lease"} => call'.op = "verify"
        /\ call'.op = "verify" => call'.b \in Bundle /\ bundle'[call'.b].at = "checking"
    BY DEF PhasesHold
  <2> SUFFICES ASSUME windows', call'.op = "verify"
               PROVE  /\ call'.pc = "lease" => \A f \in File \ call'.todo : bundle'[call'.b].lease[f] # Nothing
                      /\ call'.pc \in {"rescan", "hash", "done"} => Leases(call.b)'
                      /\ call'.pc = "hash" => Hashed(call.b, File \ call.todo)'
                      /\ call'.pc = "done" => Hashed(call.b, File)'
    BY <2>1 DEF PhasesHold
  <2> QED
    BY <1>5, <1>6 DEF PhasesHold
<1> QED
  BY <1>2, <1>4, <1>7

LEMMA BundleInit == Init => BundleInv
<1> SUFFICES ASSUME Init PROVE BundleInv
  OBVIOUS
<1>1. Shape
  BY TypeInit
<1>2. \A b \in Bundle : bundle[b].at = "none" /\ \A f \in File : bundle[b].lease[f] = Nothing
  BY DEF Init, NoLease
<1>3. PhasesHold
  BY DEF Init, PhasesHold, NoCall
<1> QED
  BY <1>1, <1>2, <1>3 DEF BundleInv, LeasesHold, HeldIsHashed

\* Every phase establishes what the next one needs, whatever other programs do.
LEMMA BundleNext == BundleInv /\ [Next]_vars => BundleInv'
<1> SUFFICES ASSUME BundleInv, [Next]_vars PROVE BundleInv'
  OBVIOUS
<1> DEFINE Rest == LeasesHold' /\ HeldIsHashed' /\ PhasesHold'
<1>a. Shape /\ LeasesHold /\ PhasesHold /\ HeldIsHashed /\ call \in CallType
  BY DEF BundleInv, Shape, TypeOK
<1>b. Shape'
  BY <1>a, TypeNext
<1>1. ASSUME NEW b \in Bundle, VerifyBundle(b) PROVE Rest
  <2>1. UNCHANGED <<windows, at, bytes>>
    BY <1>1 DEF VerifyBundle, disk
  <2>2. bundle[b].at = "none" /\ (Moves(b, "checking") \/ Moves(b, "dropped"))
    BY <1>1 DEF VerifyBundle
  <2>3. LeasesHold' /\ HeldIsHashed'
    BY <2>1, <2>2, <1>a, HeldMoves
  <2>4. CASE UNCHANGED call
    BY <1>1, <2>3, <2>4, NoPhase DEF VerifyBundle
  <2>5. CASE Begin("verify", b, Nothing, Nothing, "scan") /\ Moves(b, "checking")
    <3>1. call'.pc = "scan" /\ call'.op = "verify" /\ call'.b = b
      BY <2>5, BeginNew
    <3>2. bundle'[b].at = "checking"
      BY <2>5, <1>a DEF Moves, Shape, TypeOK
    <3> QED
      BY <2>3, <3>1, <3>2 DEF PhasesHold
  <2> QED
    BY <1>1, <2>4, <2>5 DEF VerifyBundle
<1>2. ASSUME NEW b \in Bundle, Dropped(b) PROVE Rest
  <2>1. UNCHANGED <<windows, at, bytes, call>> /\ call.b # b
    BY <1>2 DEF Dropped, disk
  <2>2. LeasesHold' /\ HeldIsHashed'
    BY <1>2, <2>1, <1>a, HeldDropped DEF Dropped
  <2>3. call.op = "verify" => bundle'[call.b] = bundle[call.b]
    BY <1>2, <2>1, <1>a DEF Dropped, Shape, TypeOK, CallNamed
  <2>4. PhasesHold'
    BY <2>1, <2>3, <1>a DEF PhasesHold, Leases, Hashed
  <2> QED
    BY <2>2, <2>4
<1>3. ASSUME NEW f \in File, OpenEntry(f) PROVE Rest
  <2>1. UNCHANGED <<windows, at, bytes>> /\ call.pc \in {"scan", "rescan"}
    BY <1>3 DEF OpenEntry, disk, Scanning
  <2>2. CASE Rejected
    BY <2>1, <2>2, <1>a, RejectedKeeps
  <2>3. ASSUME UNCHANGED bundle, call'.op = call.op, call'.b = call.b, call'.pc = call.pc PROVE Rest
    BY <2>1, <2>3, <1>a, HeldKept, PhaseKept
  <2>4. CASE call' = [call EXCEPT !.todo = @ \ {f}] /\ UNCHANGED bundle
    BY <2>3, <2>4, <1>a DEF CallType
  <2>5. CASE call' = [call EXCEPT !.hand = at[f], !.of = f] /\ UNCHANGED bundle
    BY <2>3, <2>5, <1>a DEF CallType
  <2> QED
    BY <1>3, <2>2, <2>4, <2>5 DEF OpenEntry
<1>4. ASSUME ReadEntry PROVE Rest
  <2>1. UNCHANGED <<windows, at, bytes>> /\ call.pc \in {"scan", "rescan"}
    BY <1>4 DEF ReadEntry, disk, Scanning
  <2>2. CASE Rejected
    BY <2>1, <2>2, <1>a, RejectedKeeps
  <2>3. CASE /\ call' = [call EXCEPT !.todo = @ \ {call.of}, !.seen = @ \cup {call.of}, !.hand = Nothing, !.of = 0]
             /\ UNCHANGED bundle
    <3>1. call'.op = call.op /\ call'.b = call.b /\ call'.pc = call.pc
      BY <2>3, <1>a DEF CallType
    <3> QED
      BY <2>1, <2>3, <3>1, <1>a, HeldKept, PhaseKept
  <2> QED
    BY <1>4, <2>2, <2>3 DEF ReadEntry
<1>5. ASSUME LookForExtra PROVE Rest
  <2>1. UNCHANGED <<windows, at, bytes>> /\ call.pc \in {"scan", "rescan"}
    BY <1>5 DEF LookForExtra, disk, Scanning
  <2>2. CASE Rejected
    BY <2>1, <2>2, <1>a, RejectedKeeps
  <2>3. CASE call' = [call EXCEPT !.todo = @ \ {Undeclared}] /\ UNCHANGED bundle
    <3>1. call'.op = call.op /\ call'.b = call.b /\ call'.pc = call.pc
      BY <2>3, <1>a DEF CallType
    <3> QED
      BY <2>1, <2>3, <3>1, <1>a, HeldKept, PhaseKept
  <2> QED
    BY <1>5, <2>2, <2>3 DEF LookForExtra
<1>6. ASSUME ScanEnds PROVE Rest
  <2>1. UNCHANGED <<windows, at, bytes>> /\ call.pc \in {"scan", "rescan"}
    BY <1>6 DEF ScanEnds, disk, Scanning
  <2>2. CASE Rejected
    BY <2>1, <2>2, <1>a, RejectedKeeps
  <2>3. ASSUME UNCHANGED bundle PROVE LeasesHold' /\ HeldIsHashed'
    BY <2>1, <2>3, <1>a, HeldKept
  <2>4. CASE call.pc = "rescan" /\ call' = [call EXCEPT !.pc = IF windows THEN "hash" ELSE "done", !.todo = File] /\ UNCHANGED bundle
    <3>1. call'.op = call.op /\ call'.b = call.b /\ call'.todo = File /\ call'.pc = IF windows THEN "hash" ELSE "done"
      BY <2>4, <1>a DEF CallType
    <3>2. PhasesHold'
      BY <2>1, <2>4, <3>1, <1>a DEF PhasesHold, Leases, Hashed
    <3> QED
      BY <2>3, <2>4, <3>2
  <2>5. CASE call.pc = "scan" /\ windows /\ call' = [call EXCEPT !.pc = "lease", !.todo = File] /\ UNCHANGED bundle
    <3>1. call'.op = call.op /\ call'.b = call.b /\ call'.todo = File /\ call'.pc = "lease"
      BY <2>5, <1>a DEF CallType
    <3>2. PhasesHold'
      BY <2>1, <2>5, <3>1, <1>a DEF PhasesHold
    <3> QED
      BY <2>3, <2>5, <3>2
  <2>6. CASE call.pc = "scan" /\ ~windows /\ call' = Scan(call, "rescan") /\ UNCHANGED bundle
    <3>1. call'.op = call.op /\ call'.b = call.b /\ call'.pc = "rescan"
      BY <2>6, <1>a, ScanNew
    <3>2. PhasesHold'
      BY <2>1, <2>6, <3>1, <1>a DEF PhasesHold
    <3> QED
      BY <2>3, <2>6, <3>2
  <2> QED
    BY <1>6, <2>1, <2>2, <2>4, <2>5, <2>6 DEF ScanEnds
<1>7. ASSUME Acquire PROVE Rest
  <2>1. UNCHANGED <<windows, at, bytes>> /\ call.pc = "lease"
    BY <1>7 DEF Acquire, disk
  <2>2. CASE Rejected
    BY <2>1, <2>2, <1>a, RejectedKeeps
  <2>3. ASSUME NEW f, Present(f), bundle' = [bundle EXCEPT ![call.b].lease[f] = at[f]],
               call' = [call EXCEPT !.todo = @ \ {f}]
        PROVE  Rest
    <3>1. call.op = "verify" /\ call.b \in Bundle /\ bundle[call.b].at = "checking"
      BY <2>1, <1>a DEF PhasesHold
    <3>2. call'.op = call.op /\ call'.b = call.b /\ call'.pc = call.pc /\ call'.todo = call.todo \ {f}
      BY <2>3, <1>a DEF CallType
    <3>3. \A b \in Bundle : bundle'[b].at = bundle[b].at /\ (b # call.b => bundle'[b] = bundle[b])
      BY <2>3, <3>1, <1>a DEF Shape, TypeOK
    <3>4. \A g \in File : bundle'[call.b].lease[g] = IF g = f THEN at[f] ELSE bundle[call.b].lease[g]
      BY <2>3, <3>1, <1>a DEF Shape, TypeOK
    <3>5. at[f] # Nothing
      BY <2>3, Tree DEF Present
    <3>6. LeasesHold'
      BY <2>1, <3>3, <3>4, <1>a DEF LeasesHold
    <3>7. HeldIsHashed'
      BY <2>1, <3>1, <3>3, <1>a DEF HeldIsHashed, Leases, Hashed
    <3>8. PhasesHold'
      BY <2>1, <3>1, <3>2, <3>3, <3>4, <3>5, <1>a DEF PhasesHold
    <3> QED
      BY <3>6, <3>7, <3>8
  <2> QED
    BY <1>7, <2>2, <2>3 DEF Acquire
<1>8. ASSUME Acquired PROVE Rest
  <2>1. UNCHANGED <<windows, at, bytes>> /\ call.pc = "lease" /\ call.todo = {}
    BY <1>8 DEF Acquired, disk
  <2>2. CASE Rejected
    BY <2>1, <2>2, <1>a, RejectedKeeps
  <2>3. CASE call' = Scan(call, "rescan") /\ UNCHANGED bundle
    <3>1. call'.op = call.op /\ call'.b = call.b /\ call'.pc = "rescan"
      BY <2>3, <1>a, ScanNew
    <3>2. PhasesHold'
      BY <2>1, <2>3, <3>1, <1>a DEF PhasesHold, Leases
    <3> QED
      BY <2>1, <2>3, <3>2, <1>a, HeldKept
  <2> QED
    BY <1>8, <2>2, <2>3 DEF Acquired
<1>9. ASSUME Rehash PROVE Rest
  <2>1. UNCHANGED <<windows, at, bytes>> /\ call.pc = "hash"
    BY <1>9 DEF Rehash, disk
  <2>2. CASE Rejected
    BY <2>1, <2>2, <1>a, RejectedKeeps
  <2>3. ASSUME NEW f, bytes[bundle[call.b].lease[f]] = f, UNCHANGED bundle,
               call' = [call EXCEPT !.todo = @ \ {f}, !.pc = IF call.todo = {f} THEN "done" ELSE @]
        PROVE  Rest
    <3>1. /\ call'.op = call.op /\ call'.b = call.b /\ call'.todo = call.todo \ {f}
          /\ call'.pc = IF call.todo = {f} THEN "done" ELSE "hash"
      BY <2>1, <2>3, <1>a DEF CallType
    <3>2. PhasesHold'
      <4>1. CASE call.todo = {f}
        BY <2>1, <2>3, <3>1, <4>1, <1>a DEF PhasesHold, Leases, Hashed
      <4>2. CASE call.todo # {f}
        BY <2>1, <2>3, <3>1, <4>2, <1>a DEF PhasesHold, Leases, Hashed
      <4> QED
        BY <4>1, <4>2
    <3> QED
      BY <2>1, <2>3, <3>2, <1>a, HeldKept
  <2> QED
    BY <1>9, <2>2, <2>3 DEF Rehash
<1>10. ASSUME Verified PROVE Rest
  <2>1. UNCHANGED <<windows, at, bytes>> /\ call.pc = "done" /\ call.op = "verify" /\ Moves(call.b, "held") /\ call' = NoCall
    BY <1>10 DEF Verified, disk
  <2>2. call.b \in Bundle /\ (windows => Leases(call.b) /\ Hashed(call.b, File))
    BY <2>1, <1>a DEF PhasesHold
  <2> QED
    BY <2>1, <2>2, <1>a, HeldMoves, NoPhase
<1>11. ASSUME Authorized PROVE Rest
  <2>1. UNCHANGED <<windows, at, bytes>>
    BY <1>11 DEF Authorized, disk
  <2>2. CASE Rejected
    BY <2>1, <2>2, <1>a, RejectedKeeps
  <2>3. CASE UNCHANGED bundle /\ call' = NoCall
    BY <2>1, <2>3, <1>a, HeldKept, NoPhase
  <2> QED
    BY <1>11, <2>2, <2>3 DEF Authorized
<1>12. ASSUME Taken PROVE Rest
  BY <1>12, <1>a, HeldKept, NoPhase DEF Taken, disk
<1>13. ASSUME CheckFails PROVE Rest
  BY <1>13, <1>a, RejectedKeeps DEF CheckFails, disk
<1>14. ASSUME NEW s \in Sup, NEW b \in Bundle, NEW safe, NEW purpose, Authorize(s, b, safe, purpose) PROVE Rest
  <2>1. UNCHANGED <<windows, at, bytes>> /\ call = NoCall /\ bundle[b].at = "held"
    BY <1>14 DEF Authorize, disk
  <2>2. CASE bundle' = [bundle EXCEPT ![b] = [at |-> "dropped", lease |-> NoLease]] /\ UNCHANGED call
    BY <2>1, <2>2, <1>a, HeldDropped, NoPhase
  <2>3. CASE Begin("authorize", b, s, Nothing, "rescan") /\ Moves(b, "moved")
    <3>1. call'.op = "authorize" /\ call'.pc = "rescan"
      BY <2>3, BeginNew
    <3>2. PhasesHold'
      BY <3>1 DEF PhasesHold
    <3>3. windows => Leases(b) /\ Hashed(b, File)
      BY <2>1, <1>a DEF HeldIsHashed
    <3> QED
      BY <2>1, <2>3, <3>2, <3>3, <1>a, HeldMoves
  <2> QED
    BY <1>14, <2>2, <2>3 DEF Authorize
<1>15. ASSUME NEW s \in Sup, NEW p \in permits, NEW safe, Take(s, p, safe) PROVE Rest
  <2>1. UNCHANGED <<windows, bundle, at, bytes>>
    BY <1>15 DEF Take, disk
  <2>2. PICK x \in outstanding[s] : Begin("take", x.b, s, p, "rescan")
    BY <1>15 DEF Take
  <2>3. x.b \in Bundle
    BY <1>a DEF Shape, TypeOK
  <2>4. call'.op = "take" /\ call'.pc = "rescan"
    BY <2>2, <2>3, BeginNew
  <2> QED
    BY <2>1, <2>4, <1>a, HeldKept DEF PhasesHold
<1>16. ASSUME NEW o \in Object, NEW v \in File \cup {0}, Overwrite(o, v) PROVE Rest
  <2>1. \A x \in Object : Leased(x) => bytes'[x] = bytes[x]
    BY <1>16, <1>a DEF Overwrite, Shape, TypeOK
  <2> QED
    BY <1>16, <2>1, <1>a, FrozenKeeps DEF Overwrite
<1>17. ASSUME NEW f \in File, NEW x \in Object \cup {"link", "gone"}, Put(f, x) PROVE Rest
  <2>1. \A g \in File : Leased(at[g]) => at'[g] = at[g]
    BY <1>17, <1>a DEF Put, Shape, TypeOK
  <2> QED
    BY <1>17, <2>1, <1>a, FrozenKeeps DEF Put
<1>18. ASSUME UNCHANGED <<windows, bundle, call, at, bytes>> PROVE Rest
  BY <1>18, <1>a, FrozenKeeps
<1>19. ASSUME \/ \E o \in Object : Alias(o)
              \/ Litter
              \/ UNCHANGED vars
       PROVE  Rest
  BY <1>18, <1>19 DEF Alias, Litter, vars, disk
<1> HIDE DEF Rest
<1>20. Rest
  BY <1>1, <1>2, <1>3, <1>4, <1>5, <1>6, <1>7, <1>8, <1>9, <1>10, <1>11, <1>12, <1>13, <1>14, <1>15, <1>16,
     <1>17, <1>19 DEF Next
<1> QED
  BY <1>b, <1>20 DEF BundleInv, Rest

\* On Windows a verified bundle stays what its manifest says while anyone holds it:
\* its leases freeze every declared file before its bytes are hashed for the last time.
THEOREM BundleStaysAsDeclared == Spec => []LeasedAsDeclared
<1>1. BundleInv => LeasedAsDeclared
  BY DEF BundleInv, HeldIsHashed, LeasesHold, Leases, Hashed, LeasedAsDeclared
<1> QED
  BY <1>1, BundleInit, BundleNext, PTL DEF Spec

-----------------------------------------------------------------------------
(***************************************************************************)
(* Permits.                                                                *)
(***************************************************************************)

\* A step that leaves the supervisors alone keeps what is known of permits, when its
\* call goes on, ends or begins a verification.
LEMMA PermitKept ==
  ASSUME PermitInv, Shape', UNCHANGED <<windows, sups>>, SameOwner \/ call'.op \in {"none", "verify"}
  PROVE  PermitInv'
<1>1. NoncesFresh' /\ PermitOpensOwn'
  BY DEF PermitInv, NoncesFresh, PermitOpensOwn, sups
<1>2. OneUnderWay' /\ TakeIsOwn'
  BY DEF PermitInv, OneUnderWay, TakeIsOwn, SameOwner, sups
<1> QED
  BY <1>1, <1>2 DEF PermitInv

\* A supervisor's permits that are not used yet can be counted.
LEMMA NoneUnderWay ==
  ASSUME OneUnderWay, NEW s \in Sup, Cardinality(outstanding[s]) = 0
  PROVE  outstanding[s] = {}
<1> SUFFICES ASSUME NEW x \in outstanding[s] PROVE FALSE
  OBVIOUS
<1>1. outstanding[s] = {x}
  BY DEF OneUnderWay
<1>2. Cardinality({x}) = 1
  BY FS_Singleton
<1> QED
  BY <1>1, <1>2

\* There are no permits and no probes at first.
LEMMA PermitInit == Init => PermitInv
<1> SUFFICES ASSUME Init PROVE PermitInv
  OBVIOUS
<1>1. call.op = "none"
  BY NoCallType DEF Init
<1> QED
  BY <1>1, TypeInit DEF Init, PermitInv, NoncesFresh, OneUnderWay, TakeIsOwn, PermitOpensOwn

\* Authorizing, taking and handing over keep permits, nonces and slots in step.
LEMMA PermitNext == PermitInv /\ [Next]_vars => PermitInv'
<1> SUFFICES ASSUME PermitInv, [Next]_vars PROVE PermitInv'
  OBVIOUS
<1>s. Shape /\ Shape'
  BY TypeNext DEF PermitInv
<1>a. TypeOK /\ CallNamed /\ call \in CallType /\ NoncesFresh /\ OneUnderWay /\ TakeIsOwn /\ PermitOpensOwn
  BY DEF PermitInv, Shape, TypeOK
<1>1. ASSUME UNCHANGED <<windows, sups>>, SameOwner \/ call'.op \in {"none", "verify"} PROVE PermitInv'
  BY <1>1, <1>s, PermitKept
<1>r. ASSUME Rejected PROVE call'.op = "none"
  BY <1>r, NoCallType DEF Rejected
<1>2. ASSUME NEW b \in Bundle, VerifyBundle(b) PROVE PermitInv'
  <2>1. CASE Begin("verify", b, Nothing, Nothing, "scan")
    BY <1>1, <1>2, <2>1, BeginNew DEF VerifyBundle
  <2>2. CASE UNCHANGED call
    BY <1>1, <1>2, <2>2 DEF VerifyBundle, SameOwner
  <2> QED
    BY <1>2, <2>1, <2>2 DEF VerifyBundle
<1>3. ASSUME NEW b \in Bundle, Dropped(b) PROVE PermitInv'
  BY <1>1, <1>3 DEF Dropped, SameOwner
<1>4. ASSUME NEW f \in File, OpenEntry(f) PROVE PermitInv'
  <2>1. SameOwner \/ call'.op = "none"
    BY <1>4, <1>a, <1>r DEF OpenEntry, SameOwner, CallType
  <2> QED
    BY <1>1, <1>4, <2>1 DEF OpenEntry
<1>5. ASSUME ReadEntry PROVE PermitInv'
  <2>1. SameOwner \/ call'.op = "none"
    BY <1>5, <1>a, <1>r DEF ReadEntry, SameOwner, CallType
  <2> QED
    BY <1>1, <1>5, <2>1 DEF ReadEntry
<1>6. ASSUME LookForExtra PROVE PermitInv'
  <2>1. SameOwner \/ call'.op = "none"
    BY <1>6, <1>a, <1>r DEF LookForExtra, SameOwner, CallType
  <2> QED
    BY <1>1, <1>6, <2>1 DEF LookForExtra
<1>7. ASSUME ScanEnds PROVE PermitInv'
  <2>1. CASE Rejected
    BY <1>1, <1>7, <1>r, <2>1 DEF ScanEnds
  <2>2. CASE call' = Scan(call, "rescan")
    BY <1>1, <1>7, <1>a, <2>2, ScanNew DEF ScanEnds, SameOwner
  <2>3. ASSUME NEW pc \in {"hash", "done", "lease"}, call' = [call EXCEPT !.pc = pc, !.todo = File]
        PROVE  PermitInv'
    <3>1. SameOwner
      BY <1>a, <2>3 DEF SameOwner, CallType
    <3> QED
      BY <1>1, <1>7, <3>1 DEF ScanEnds
  <2> QED
    BY <1>7, <2>1, <2>2, <2>3 DEF ScanEnds
<1>8. ASSUME Acquire PROVE PermitInv'
  <2>1. SameOwner \/ call'.op = "none"
    BY <1>8, <1>a, <1>r DEF Acquire, SameOwner, CallType
  <2> QED
    BY <1>1, <1>8, <2>1 DEF Acquire
<1>9. ASSUME Acquired PROVE PermitInv'
  <2>1. SameOwner \/ call'.op = "none"
    BY <1>9, <1>a, <1>r, ScanNew DEF Acquired, SameOwner
  <2> QED
    BY <1>1, <1>9, <2>1 DEF Acquired
<1>10. ASSUME Rehash PROVE PermitInv'
  <2>1. SameOwner \/ call'.op = "none"
    BY <1>10, <1>a, <1>r DEF Rehash, SameOwner, CallType
  <2> QED
    BY <1>1, <1>10, <2>1 DEF Rehash
<1>11. ASSUME Verified PROVE PermitInv'
  BY <1>1, <1>11, NoCallType DEF Verified
<1>12. ASSUME CheckFails PROVE PermitInv'
  BY <1>1, <1>12, <1>r DEF CheckFails
<1>13. ASSUME NEW s \in Sup, NEW b \in Bundle, NEW safe, NEW purpose, Authorize(s, b, safe, purpose)
       PROVE  PermitInv'
  <2>1. CASE UNCHANGED call
    BY <1>1, <1>13, <2>1 DEF Authorize, SameOwner
  <2>2. CASE Begin("authorize", b, s, Nothing, "rescan") /\ slot[s] # "Transferred"
    <3>1. call'.op = "authorize" /\ call'.s = s
      BY <2>2, BeginNew
    <3>2. slot[s] = "Available" /\ UNCHANGED sups
      BY <1>13, <1>a, <2>2 DEF TypeOK, Authorize
    <3>3. OneUnderWay' /\ TakeIsOwn'
      BY <1>a, <3>1, <3>2 DEF OneUnderWay, TakeIsOwn, sups
    <3>4. NoncesFresh' /\ PermitOpensOwn'
      BY <1>13, <1>a, <3>2 DEF NoncesFresh, PermitOpensOwn, sups, Authorize
    <3> QED
      BY <1>s, <3>3, <3>4 DEF PermitInv
  <2> QED
    BY <1>13, <2>1, <2>2 DEF Authorize
<1>14. ASSUME Authorized PROVE PermitInv'
  <2>1. UNCHANGED <<windows, policy, slot, opened>>
    BY <1>14 DEF Authorized
  <2>2. CASE Rejected /\ UNCHANGED <<outstanding, permits, nonce>>
    BY <1>1, <1>r, <2>1, <2>2 DEF sups
  <2>3. CASE /\ Cardinality(outstanding[call.s]) = 0
             /\ outstanding' = [outstanding EXCEPT ![call.s] = @ \cup {[nonce |-> nonce[call.s], b |-> call.b]}]
             /\ permits' = permits \cup {[s |-> call.s, nonce |-> nonce[call.s], b |-> call.b]}
             /\ nonce' = [nonce EXCEPT ![call.s] = @ + 1]
             /\ call' = NoCall
    <3> DEFINE new == [nonce |-> nonce[call.s], b |-> call.b]
               permit == [s |-> call.s, nonce |-> nonce[call.s], b |-> call.b]
    <3>1. call.s \in Sup /\ slot[call.s] = "Available" /\ outstanding[call.s] = {} /\ nonce[call.s] \in Nat
      BY <1>14, <1>a, <2>3, NoneUnderWay DEF Authorized, CallNamed, OneUnderWay, TypeOK
    <3>2. \A t \in Sup : \A x \in outstanding'[t] : (t # call.s /\ x \in outstanding[t]) \/ (t = call.s /\ x = new)
      BY <1>a, <2>3, <3>1 DEF TypeOK
    <3>3. \A p \in permits' : p \in permits \/ p = permit
      BY <2>3
    <3>4. nonce'[call.s] = nonce[call.s] + 1 /\ \A t \in Sup : t # call.s => nonce'[t] = nonce[t]
      BY <2>3, <3>1, <1>a DEF TypeOK
    <3>5. \A p \in permits : p.s \in Sup /\ p.nonce \in Nat
      BY <1>a DEF TypeOK
    <3>6. \A p \in permits' : p.nonce < nonce'[p.s]
      <4> SUFFICES ASSUME NEW p \in permits' PROVE p.nonce < nonce'[p.s]
        OBVIOUS
      <4>1. CASE p = permit
        BY <4>1, <3>1, <3>4
      <4>2. CASE p \in permits
        <5>1. p.nonce < nonce[p.s] /\ nonce[p.s] \in Nat
          BY <4>2, <1>a, <3>5 DEF NoncesFresh, TypeOK
        <5> QED
          BY <5>1, <4>2, <3>1, <3>4, <3>5
      <4> QED
        BY <3>3, <4>1, <4>2
    <3>7. \A t \in Sup : \A x \in outstanding'[t] : x.nonce < nonce'[t]
      BY <3>1, <3>2, <3>4, <1>a DEF NoncesFresh
    <3>8. \A p \in permits' : \A x \in outstanding'[p.s] : x.nonce = p.nonce => x.b = p.b
      <4> SUFFICES ASSUME NEW p \in permits', NEW x \in outstanding'[p.s], x.nonce = p.nonce PROVE x.b = p.b
        OBVIOUS
      <4>1. CASE p = permit
        BY <4>1, <3>1, <3>2
      <4>2. CASE p \in permits /\ p.s = call.s
        <5>1. p.nonce < nonce[call.s] /\ x = new /\ p.nonce \in Nat
          BY <4>2, <3>1, <3>2, <3>5, <1>a DEF NoncesFresh
        <5> QED
          BY <5>1, <3>1
      <4>3. CASE p \in permits /\ p.s # call.s
        BY <4>3, <3>2, <3>5, <1>a DEF NoncesFresh
      <4> QED
        BY <3>3, <4>1, <4>2, <4>3
    <3>9. OneUnderWay'
      BY <2>1, <2>3, <3>1, <3>2, <1>a, NoCallType DEF OneUnderWay
    <3>10. TakeIsOwn' /\ PermitOpensOwn'
      BY <2>1, <2>3, <1>a, NoCallType DEF TakeIsOwn, PermitOpensOwn
    <3>11. NoncesFresh'
      BY <3>6, <3>7, <3>8 DEF NoncesFresh
    <3> QED
      BY <1>s, <3>9, <3>10, <3>11 DEF PermitInv
  <2> QED
    BY <1>14, <2>2, <2>3 DEF Authorized
<1>15. ASSUME NEW s \in Sup, NEW p \in permits, NEW safe, Take(s, p, safe) PROVE PermitInv'
  <2>1. UNCHANGED <<windows, policy, nonce, slot, permits, opened>> /\ windows /\ p.s = s
        /\ policy[s] = "ContainedProbeOnly"
    BY <1>15 DEF Take
  <2>2. PICK x \in outstanding[s] : /\ x.nonce = p.nonce
                                   /\ outstanding' = [outstanding EXCEPT ![s] = @ \ {x}]
                                   /\ Begin("take", x.b, s, p, "rescan")
    BY <1>15 DEF Take
  <2>3. x.b \in Bundle /\ x.b = p.b
    BY <1>a, <2>1, <2>2 DEF TypeOK, NoncesFresh
  <2>4. call'.op = "take" /\ call'.b = p.b /\ call'.s = s /\ call'.p = p
    BY <2>2, <2>3, BeginNew
  <2>5. \A t \in Sup : outstanding'[t] \subseteq outstanding[t]
    BY <1>a, <2>2 DEF TypeOK
  <2>6. outstanding'[s] = {} /\ slot[s] = "Available"
    BY <1>a, <2>2 DEF OneUnderWay, TypeOK
  <2>7. NoncesFresh'
    BY <1>a, <2>1, <2>5 DEF NoncesFresh, TypeOK
  <2>8. OneUnderWay'
    BY <1>a, <2>1, <2>4, <2>5, <2>6 DEF OneUnderWay
  <2>9. TakeIsOwn' /\ PermitOpensOwn'
    BY <1>a, <2>1, <2>3, <2>4 DEF TakeIsOwn, PermitOpensOwn
  <2> QED
    BY <1>s, <2>7, <2>8, <2>9 DEF PermitInv
<1>16. ASSUME Taken PROVE PermitInv'
  <2>1. /\ UNCHANGED <<windows, policy, nonce, outstanding, permits>> /\ call.op = "take" /\ call' = NoCall
        /\ slot' = [slot EXCEPT ![call.s] = "Transferred"]
        /\ opened' = opened \cup {[s |-> call.s, p |-> call.p, b |-> call.b]}
    BY <1>16 DEF Taken
  <2>2. call.s \in Sup /\ slot[call.s] = "Available" /\ outstanding[call.s] = {}
    BY <1>a, <2>1 DEF OneUnderWay
  <2>3. \A t \in Sup : slot'[t] = IF t = call.s THEN "Transferred" ELSE slot[t]
    BY <1>a, <2>1, <2>2 DEF TypeOK
  <2>4. \A x \in opened : x.s \in Sup /\ x.s # call.s
    BY <1>a, <2>2 DEF TypeOK, OneUnderWay
  <2>5. OneUnderWay' /\ TakeIsOwn' /\ NoncesFresh'
    BY <1>a, <2>1, <2>2, <2>3, <2>4, NoCallType DEF OneUnderWay, TakeIsOwn, NoncesFresh
  <2>6. PermitOpensOwn'
    BY <1>a, <2>1, <2>4 DEF PermitOpensOwn, TakeIsOwn
  <2> QED
    BY <1>s, <2>5, <2>6 DEF PermitInv
<1>17. ASSUME \/ \E o \in Object, v \in File \cup {0} : Overwrite(o, v)
              \/ \E f \in File, x \in Object \cup {"link", "gone"} : Put(f, x)
              \/ \E o \in Object : Alias(o)
              \/ Litter \/ UNCHANGED vars
       PROVE  PermitInv'
  <2>1. UNCHANGED <<windows, sups, call>>
    BY <1>17 DEF Overwrite, Put, Alias, Litter, vars
  <2> QED
    BY <1>1, <2>1 DEF SameOwner
<1> QED
  BY <1>2, <1>3, <1>4, <1>5, <1>6, <1>7, <1>8, <1>9, <1>10, <1>11, <1>12, <1>13, <1>14, <1>15, <1>16, <1>17 DEF Next

\* A permit opens only the bundle it was issued for, at the supervisor that issued it
\* and once, whatever permits callers hold, keep and present in which order, for any
\* number of bundles and supervisors.
THEOREM PermitAlwaysOpensOwn == Spec => []PermitOpensOwn
<1>1. PermitInv => PermitOpensOwn
  BY DEF PermitInv
<1> QED
  BY PermitInit, PermitNext, <1>1, PTL DEF Spec
=============================================================================
