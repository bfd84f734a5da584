--------------------------- MODULE ManagedRuntime ---------------------------
(***************************************************************************)
(* Managed runtime bundles (provenance.rs, supervisor.rs and the Windows   *)
(* file leases of windows_stable_file_lease.rs): the check of a bundle's   *)
(* tree against its signed manifest while other programs change the disk,  *)
(* and the supervisor that turns a checked bundle into one probe.          *)
(*                                                                         *)
(* A native file is an object; its bytes are the name of the declared file *)
(* they match.  Signatures, hashes, sizes and limits are abstracted to     *)
(* whether they match.  Nonces do not wrap.                                *)
(***************************************************************************)
EXTENDS Integers, Sequences, FiniteSets

CONSTANTS
  File,        \* the declared files: 1..n, in manifest order
  Object,      \* native files
  Home,        \* the object of each file of a complete bundle
  Bundle,      \* verifications
  Sup,         \* supervisors
  Nothing,     \* none
  Name, Fold,  \* path components in their order, and their lower-case form
  MaxPaths, MaxDepth, \* the manifests that are checked
  MaxWorld     \* changes by other programs

ASSUME Tree ==
  /\ File \subseteq Nat \ {0} /\ Home \in [File -> Object]
  /\ Nothing \notin Object \cup Bundle \cup Sup

VARIABLES
  manifest,    \* the paths that the next verification's manifest declares
  windows,     \* the platform
  policy,      \* of each supervisor
  at,          \* what each declared path is: an object, "link" or "gone"
  bytes,       \* the declared file each object's bytes match, 0 for none
  alias,       \* the objects with a further name outside the tree
  extra,       \* the tree has an entry the manifest does not declare
  bundle,      \* each bundle: where it is, and its leases
  call,        \* the check in progress
  nonce,       \* next_nonce of each supervisor
  outstanding, \* its permits that are not used yet, with their bundles
  slot,        \* its containment_slot
  permits,     \* the permits that callers hold: supervisor, nonce and (ghost) bundle
  opened,      \* the prepared probes: supervisor, permit and bundle
  world

disk == <<at, bytes, alias, extra>>
sups == <<policy, nonce, outstanding, slot, permits, opened>>
vars == <<manifest, windows, disk, bundle, call, sups, world>>

NoCall == [op |-> "none", pc |-> "none", b |-> Nothing, s |-> Nothing, p |-> Nothing, todo |-> {}, seen |-> {}, hand |-> Nothing, of |-> 0]
NoLease == [f \in File |-> Nothing]
\* A valid manifest of one file in the root for each declared file.
Standard == [i \in 1..1 |-> <<CHOOSE x \in Name : TRUE>>]
Undeclared == 0   \* the undeclared entry, as a member of a directory
-----------------------------------------------------------------------------
(* validate_manifest: one pass over the declared paths.                    *)

Parents(p) == {SubSeq(p, 1, n) : n \in 1..(Len(p) - 1)}
Folded(p) == [i \in 1..Len(p) |-> Fold[p[i]]]
IsAncestor(p, q) == p \in Parents(q)
\* Mutant: spelling is not compared.
ConflictsExact(p, S) == \/ Parents(p) \cap S # {} \/ \E q \in S : IsAncestor(p, q)
\* A file that is a folder of another, in either order, as written or folded.
Conflicts(p, S) ==
  \/ Parents(p) \cap S # {} \/ \E q \in S : IsAncestor(p, q)
  \/ LET F == {Folded(q) : q \in S} IN
       Folded(p) \in F \/ {Folded(d) : d \in Parents(p)} \cap F # {} \/ \E q \in F : IsAncestor(Folded(p), q)
\* Every folder keeps one spelling.
Respelled(p, S) ==
  \E d \in Parents(p), q \in S : \E e \in Parents(q) : Folded(d) = Folded(e) /\ d # e

Before(p, q) ==
  \E k \in 1..Len(q) : /\ k - 1 <= Len(p) /\ SubSeq(p, 1, k - 1) = SubSeq(q, 1, k - 1)
                       /\ Len(p) = k - 1 \/ p[k] < q[k]
ValidManifest(m) ==
  /\ m # <<>>
  /\ \A i \in 1..Len(m) :
       LET S == {m[j] : j \in 1..(i - 1)} IN
       /\ i > 1 => Before(m[i - 1], m[i])
       /\ ~Conflicts(m[i], S)
       /\ ~Respelled(m[i], S)
-----------------------------------------------------------------------------
(* One check of the tree (verify_bundle), step by step.  Entries come in   *)
(* the order the directory gives them.                                     *)

Present(f) == at[f] \in Object
Links(o) == Cardinality({f \in File : at[f] = o}) + (IF o \in alias THEN 1 ELSE 0)
\* The files that retained leases protect from writes, renames and deletion.
Leased(o) == \E b \in Bundle, f \in File : bundle[b].lease[f] = o

\* A failed check drops the bundle that the call owns, with its leases.
Rejected == /\ bundle' = [bundle EXCEPT ![call.b] = [at |-> "dropped", lease |-> NoLease]]
            /\ call' = NoCall
Scan(c, pc) == [c EXCEPT !.pc = pc, !.todo = File \cup {Undeclared}, !.seen = {}, !.hand = Nothing, !.of = 0]
Scanning == call.pc \in {"scan", "rescan"}

\* verify_directory: the next entry; verify_bundle_file opens it, on Windows as the
\* leased file.
OpenEntry(f) ==
  /\ Scanning /\ call.hand = Nothing /\ f \in call.todo \ {Undeclared}
  /\ IF at[f] = "gone" THEN call' = [call EXCEPT !.todo = @ \ {f}] /\ UNCHANGED bundle
     ELSE IF \/ at[f] = "link" \/ Links(at[f]) # 1
             \/ call.pc = "rescan" /\ windows /\ at[f] # bundle[call.b].lease[f] THEN Rejected
     ELSE call' = [call EXCEPT !.hand = at[f], !.of = f] /\ UNCHANGED bundle
  /\ UNCHANGED <<manifest, windows, disk, sups, world>>
\* Its bytes are hashed; the path must still be a file.
ReadEntry ==
  /\ Scanning /\ call.hand # Nothing
  /\ IF bytes[call.hand] # call.of \/ ~Present(call.of) THEN Rejected
     ELSE /\ call' = [call EXCEPT !.todo = @ \ {call.of}, !.seen = @ \cup {call.of}, !.hand = Nothing, !.of = 0]
          /\ UNCHANGED bundle
  /\ UNCHANGED <<manifest, windows, disk, sups, world>>
\* An entry the manifest does not declare.
LookForExtra ==
  /\ Scanning /\ call.hand = Nothing /\ Undeclared \in call.todo
  /\ IF extra THEN Rejected ELSE call' = [call EXCEPT !.todo = @ \ {Undeclared}] /\ UNCHANGED bundle
  /\ UNCHANGED <<manifest, windows, disk, sups, world>>
\* The first complete scan of a verification is followed by the leases, the second
\* one, and every recheck, by the hashes of the leased files.
ScanEnds ==
  /\ Scanning /\ call.hand = Nothing /\ call.todo = {}
  /\ IF call.seen # File THEN Rejected
     ELSE /\ call' = IF call.pc = "rescan" THEN [call EXCEPT !.pc = IF windows THEN "hash" ELSE "done", !.todo = File]
                     ELSE IF windows THEN [call EXCEPT !.pc = "lease", !.todo = File] ELSE Scan(call, "rescan")
          /\ UNCHANGED bundle
  /\ UNCHANGED <<manifest, windows, disk, sups, world>>
-----------------------------------------------------------------------------
(* Windows leases.                                                         *)

\* WindowsStableFileLease::acquire, in manifest order; after the last one all leases
\* must be of different files.
Acquire ==
  /\ call.pc = "lease" /\ call.todo # {}
  /\ LET f == CHOOSE f \in call.todo : \A g \in call.todo : f <= g IN
     IF ~Present(f) \/ (Present(f) /\ Links(at[f]) # 1) THEN Rejected
     ELSE /\ bundle' = [bundle EXCEPT ![call.b].lease[f] = at[f]]
          /\ call' = [call EXCEPT !.todo = @ \ {f}]
  /\ UNCHANGED <<manifest, windows, disk, sups, world>>
\* Mutant: the leased files are not checked again.
AcquiredIsVerified ==
  /\ call.pc = "lease" /\ call.todo = {}
  /\ IF \E f, g \in File : f # g /\ bundle[call.b].lease[f] = bundle[call.b].lease[g] THEN Rejected
     ELSE call' = [call EXCEPT !.pc = "done"] /\ UNCHANGED bundle
  /\ UNCHANGED <<manifest, windows, disk, sups, world>>
Acquired ==
  /\ call.pc = "lease" /\ call.todo = {}
  /\ IF \E f, g \in File : f # g /\ bundle[call.b].lease[f] = bundle[call.b].lease[g] THEN Rejected
     ELSE call' = Scan(call, "rescan") /\ UNCHANGED bundle
  /\ UNCHANGED <<manifest, windows, disk, sups, world>>
\* revalidate_windows_bundle_file_leases: bytes and link count of the leased files.
Rehash ==
  /\ call.pc = "hash" /\ call.todo # {}
  /\ LET f == CHOOSE f \in call.todo : \A g \in call.todo : f <= g
         o == bundle[call.b].lease[f] IN
     IF Links(o) # 1 \/ bytes[o] # f THEN Rejected
     ELSE call' = [call EXCEPT !.todo = @ \ {f}, !.pc = IF call.todo = {f} THEN "done" ELSE @] /\ UNCHANGED bundle
  /\ UNCHANGED <<manifest, windows, disk, sups, world>>
-----------------------------------------------------------------------------
(* Verifications, and the supervisor.                                      *)

Begin(op, b, s, p, pc) ==
  call' = Scan([NoCall EXCEPT !.op = op, !.b = b, !.s = s, !.p = p], pc)
Moves(b, where) == bundle' = [bundle EXCEPT ![b].at = where]

\* verify_app_managed_bundle up to its first scan.
VerifyBundle(b) ==
  /\ call = NoCall /\ bundle[b].at = "none"
  /\ IF ValidManifest(manifest) THEN Begin("verify", b, Nothing, Nothing, "scan") /\ Moves(b, "checking")
     ELSE Moves(b, "dropped") /\ UNCHANGED call
  /\ manifest' = Standard
  /\ UNCHANGED <<windows, disk, sups, world>>
Verified ==
  /\ call.op = "verify" /\ call.pc = "done"
  /\ Moves(call.b, "held") /\ call' = NoCall
  /\ UNCHANGED <<manifest, windows, disk, sups, world>>

\* authorize takes the bundle whether or not it succeeds.
Authorize(s, b, safe, purpose) ==
  /\ call = NoCall /\ bundle[b].at = "held"
  /\ IF policy[s] # "ContainedProbeOnly" \/ safe \/ purpose # "ContainedProbeOnly"
        \/ ~windows \/ slot[s] = "Transferred"
     THEN bundle' = [bundle EXCEPT ![b] = [at |-> "dropped", lease |-> NoLease]] /\ UNCHANGED call
     ELSE Begin("authorize", b, s, Nothing, "rescan") /\ Moves(b, "moved")
  /\ UNCHANGED <<manifest, windows, disk, sups, world>>
\* Creating the Job Object can fail.
Authorized ==
  /\ call.op = "authorize" /\ call.pc = "done"
  /\ \/ /\ Cardinality(outstanding[call.s]) = 0
        /\ outstanding' = [outstanding EXCEPT ![call.s] = @ \cup {[nonce |-> nonce[call.s], b |-> call.b]}]
        /\ permits' = permits \cup {[s |-> call.s, nonce |-> nonce[call.s], b |-> call.b]}
        /\ nonce' = [nonce EXCEPT ![call.s] = @ + 1]
        /\ call' = NoCall
        /\ UNCHANGED bundle
     \/ /\ Rejected
        /\ UNCHANGED <<outstanding, permits, nonce>>
  /\ UNCHANGED <<manifest, windows, disk, policy, slot, opened, world>>

\* Mutant: the supervisors share one table of permits.
TakeAnywhere(s, p, safe) ==
  /\ call = NoCall /\ windows /\ p \in permits
  /\ policy[s] = "ContainedProbeOnly" /\ ~safe
  /\ \E x \in outstanding[p.s] :
       /\ x.nonce = p.nonce
       /\ outstanding' = [outstanding EXCEPT ![p.s] = @ \ {x}]
       /\ Begin("take", x.b, s, p, "rescan")
  /\ UNCHANGED <<manifest, windows, disk, bundle, policy, nonce, slot, permits, opened, world>>
\* take_authorized_prepared_probe; the permit stays with the caller.
Take(s, p, safe) ==
  /\ call = NoCall /\ windows /\ p \in permits
  /\ p.s = s /\ policy[s] = "ContainedProbeOnly" /\ ~safe
  /\ \E x \in outstanding[s] :
       /\ x.nonce = p.nonce
       /\ outstanding' = [outstanding EXCEPT ![s] = @ \ {x}]
       /\ Begin("take", x.b, s, p, "rescan")
  /\ UNCHANGED <<manifest, windows, disk, bundle, policy, nonce, slot, permits, opened, world>>
Taken ==
  /\ call.op = "take" /\ call.pc = "done"
  /\ slot' = [slot EXCEPT ![call.s] = "Transferred"]
  /\ opened' = opened \cup {[s |-> call.s, p |-> call.p, b |-> call.b]}
  /\ call' = NoCall
  /\ UNCHANGED <<manifest, windows, disk, bundle, policy, nonce, outstanding, permits, world>>

\* An operating-system error during a check.
CheckFails ==
  /\ call # NoCall /\ Rejected
  /\ UNCHANGED <<manifest, windows, disk, sups, world>>
\* The owner lets go of a verified bundle or of a prepared probe.
Dropped(b) ==
  /\ call.b # b
  /\ bundle[b].at = "held" \/ \E x \in opened : x.b = b /\ bundle[b].at = "moved"
  /\ bundle' = [bundle EXCEPT ![b] = [at |-> "dropped", lease |-> NoLease]]
  /\ UNCHANGED <<manifest, windows, disk, call, sups, world>>
-----------------------------------------------------------------------------
(* Other programs.  A leased file cannot be written, renamed or deleted,   *)
(* but can be given another name.  What changes before the first entry of  *)
(* the first check is read stands for every earlier change.                *)

World == world < MaxWorld /\ world' = world + 1 /\ \E b \in Bundle : bundle[b].at \notin {"none", "dropped"}
Overwrite(o, v) ==
  /\ World /\ ~Leased(o) /\ bytes' = [bytes EXCEPT ![o] = v]
  /\ UNCHANGED <<manifest, windows, at, alias, extra, bundle, call, sups>>
Put(f, x) ==
  /\ World /\ ~Leased(at[f]) /\ at' = [at EXCEPT ![f] = x]
  /\ UNCHANGED <<manifest, windows, bytes, alias, extra, bundle, call, sups>>
Alias(o) ==
  /\ World /\ alias' = (alias \ {o}) \cup ({o} \ alias)
  /\ UNCHANGED <<manifest, windows, at, bytes, extra, bundle, call, sups>>
Litter ==
  /\ World /\ extra' = ~extra
  /\ UNCHANGED <<manifest, windows, at, bytes, alias, bundle, call, sups>>
-----------------------------------------------------------------------------
Paths == UNION {[1..n -> Name] : n \in 1..MaxDepth}
Manifests == UNION {[1..n -> Paths] : n \in 1..MaxPaths}

Init ==
  /\ manifest \in Manifests
  /\ windows \in BOOLEAN
  /\ policy \in [Sup -> {"Disabled", "ContainedProbeOnly"}]
  /\ at = Home
  /\ bytes = [o \in Object |-> IF \E f \in File : Home[f] = o THEN CHOOSE f \in File : Home[f] = o ELSE 0]
  /\ alias = {} /\ extra = FALSE
  /\ bundle = [b \in Bundle |-> [at |-> "none", lease |-> NoLease]]
  /\ call = NoCall
  /\ nonce = [s \in Sup |-> 1]
  /\ outstanding = [s \in Sup |-> {}]
  /\ slot = [s \in Sup |-> "Available"]
  /\ permits = {} /\ opened = {} /\ world = 0

Next ==
  \/ \E b \in Bundle : VerifyBundle(b) \/ Dropped(b)
  \/ \E f \in File : OpenEntry(f)
  \/ ReadEntry \/ LookForExtra \/ ScanEnds \/ Acquire \/ Acquired \/ Rehash
  \/ Verified \/ Authorized \/ Taken \/ CheckFails
  \/ \E s \in Sup, b \in Bundle, safe \in BOOLEAN, purpose \in {"ContainedProbeOnly", "SessionExecution"} :
       Authorize(s, b, safe, purpose)
  \/ \E s \in Sup, p \in permits, safe \in BOOLEAN : Take(s, p, safe)
  \/ \E o \in Object, v \in File \cup {0} : Overwrite(o, v)
  \/ \E f \in File, x \in Object \cup {"link", "gone"} : Put(f, x)
  \/ \E o \in Object : Alias(o)
  \/ Litter

Spec == Init /\ [][Next]_vars
-----------------------------------------------------------------------------
CallType == [op : {"none", "verify", "authorize", "take"}, pc : {"none", "scan", "rescan", "lease", "hash", "done"},
             b : Bundle \cup {Nothing}, s : Sup \cup {Nothing}, p : permits \cup {Nothing}, todo : SUBSET (File \cup {Undeclared}),
             seen : SUBSET File, hand : Object \cup {Nothing}, of : File \cup {0}]
\* The type invariant.
TypeOK ==
  /\ at \in [File -> Object \cup {"link", "gone"}]
  /\ bytes \in [Object -> File \cup {0}]
  /\ alias \subseteq Object /\ extra \in BOOLEAN
  /\ bundle \in [Bundle -> [at : {"none", "checking", "held", "moved", "dropped"}, lease : [File -> Object \cup {Nothing}]]]
  /\ call \in CallType
  /\ nonce \in [Sup -> Nat]
  /\ outstanding \in [Sup -> SUBSET [nonce : Nat, b : Bundle]]
  /\ slot \in [Sup -> {"Available", "Transferred"}]
  /\ permits \subseteq [s : Sup, nonce : Nat, b : Bundle]
  /\ opened \subseteq [s : Sup, p : permits, b : Bundle]
  /\ windows \in BOOLEAN /\ policy \in [Sup -> {"Disabled", "ContainedProbeOnly"}]
  /\ world \in Nat

\* On Windows a bundle that a verification returned stays what its manifest says
\* for as long as anyone holds it, as evidence, behind a permit or in a prepared
\* probe: every declared path is the file of its lease and has the declared bytes,
\* whatever other programs do.
LeasedAsDeclared ==
  windows => \A b \in Bundle : bundle[b].at \in {"held", "moved"} =>
    \A f \in File : at[f] = bundle[b].lease[f] /\ bytes[at[f]] = f

\* A permit opens only the bundle it was issued for, at the supervisor that issued
\* it; a supervisor hands over at most one probe, and no probe is prepared by a
\* disabled supervisor or off Windows.
PermitOpensOwn ==
  /\ \A x \in opened : x.p.s = x.s /\ x.p.b = x.b /\ windows /\ policy[x.s] = "ContainedProbeOnly"
  /\ \A x, y \in opened : x.s = y.s => x = y

\* The single pass over a manifest accepts exactly the manifests that describe one
\* tree on a file system that ignores case: sorted, and each file or folder with one
\* spelling and one kind.
ManifestUnambiguous ==
  ValidManifest(manifest) <=>
    /\ manifest # <<>>
    /\ \A i, j \in 1..Len(manifest) : i < j => Before(manifest[i], manifest[j])
    /\ \A i, j \in 1..Len(manifest) : \A n \in 1..Len(manifest[i]) :
         (n <= Len(manifest[j]) /\ Folded(SubSeq(manifest[i], 1, n)) = Folded(SubSeq(manifest[j], 1, n)))
           => /\ SubSeq(manifest[i], 1, n) = SubSeq(manifest[j], 1, n)
              /\ n = Len(manifest[i]) <=> n = Len(manifest[j])
              /\ n = Len(manifest[i]) => i = j

\* The records are well formed, and a manifest that is accepted is unambiguous.
BundlesWellFormed ==
  /\ TypeOK
  /\ ManifestUnambiguous
=============================================================================
