---------------------------- MODULE SessionIndex ----------------------------
(***************************************************************************)
(* The session catalog of one project folder: session files on a disk that *)
(* Pi and the user change at any time, the rows the index keeps about      *)
(* them, the registration of the folder, and the refresh passes that       *)
(* reconcile rows with files (crates/piui-index/src/lib.rs,                *)
(* src-tauri/src/api.rs and state.rs).                                     *)
(*                                                                         *)
(* A pass holds the project's refresh gate and takes the index lock three  *)
(* times, for short moments: to copy what is known and take a generation   *)
(* number, to commit, and each time the folder's identity is checked.  All *)
(* reading of files happens in between, one file at a time.  The commands  *)
(* of the user (register, trust, remove) are serialised by a gate of their *)
(* own that a pass does not take.                                          *)
(*                                                                         *)
(* A file's contents are a pair: `stamp` is all that the cheap fingerprint *)
(* sees (length, modification time, digests of head and tail), `body` is   *)
(* the rest.                                                               *)
(***************************************************************************)
EXTENDS Naturals, Sequences, FiniteSets, SequencesExt

CONSTANTS Paths,     \* names in the session root
          Tasks,     \* refresh requests under way
          Interval,  \* incremental passes between two full ones
          MaxEdit,   \* changes made to the disk
          MaxPass,   \* passes begun
          MaxOp      \* commands of the user

VARIABLES dir,      \* identity of the folder at the project's path; 0: gone
          files,    \* what is at each path of the session root
          proj,     \* the registration
          rows,     \* the index rows of the project's sessions
          nextId,   \* the next session id
          freshness, sinceFull,   \* what state.rs remembers of the passes
          task,     \* the passes
          op,       \* the command under way
          edits, passes, ops,     \* counters for the bounds
          raced,    \* ghost: the folder was registered anew as a pass was about to commit
          approved  \* ghost: the folder the user last trusted

disk == <<dir, files, edits>>
index == <<proj, rows, nextId>>
catalog == <<freshness, sinceFull>>
ghosts == <<raced, approved>>
vars == <<disk, index, catalog, task, op, passes, ops, ghosts>>

NoFile == [ino |-> 0, stamp |-> 0, body |-> 0, cwd |-> "none"]
NoProject == [reg |-> 0, ident |-> 0, trust |-> "none", missing |-> FALSE, gen |-> 0]
Present(p) == files[p].ino # 0
Fingerprint(f) == <<f.ino, f.stamp>>

IdleTask == [pc |-> "idle", reg |-> 0, full |-> FALSE, site |-> 0, seen |-> 0, expected |-> 0,
             gen |-> 0, known |-> {}, todo |-> {}, found |-> <<>>, same |-> {}, complete |-> FALSE,
             quiet |-> FALSE]
IdleOp == [kind |-> "none", reg |-> 0, seen |-> 0, pc |-> "idle"]

Init == /\ dir = 1
        /\ files = [p \in Paths |-> NoFile]
        /\ proj = [NoProject EXCEPT !.reg = 1, !.ident = 1, !.trust = "restricted"]
        /\ rows = {} /\ nextId = 1
        /\ freshness = "cached" /\ sinceFull = 0
        /\ task = [t \in Tasks |-> IdleTask] /\ op = IdleOp
        /\ edits = 0 /\ passes = 0 /\ ops = 0
        /\ raced = FALSE /\ approved = 0

---------------------------------------------------------------------------
(* The disk.  A new folder or file has an identity never used before; an   *)
(* edit of a file gives a new stamp, or, with luck, the same one.          *)

Disturbed == [t \in Tasks |-> [task[t] EXCEPT !.quiet = FALSE]]
Edited == /\ edits < MaxEdit /\ edits' = edits + 1 /\ task' = Disturbed
          /\ UNCHANGED <<index, catalog, op, passes, ops, ghosts>>
ReplaceDir == Edited /\ dir' = edits + 2 /\ UNCHANGED files
RemoveDir == Edited /\ dir # 0 /\ dir' = 0 /\ UNCHANGED files
\* A new file, or one that takes the place of another.
Create(p, c) == /\ Edited
                /\ files' = [files EXCEPT ![p] = [ino |-> edits + 1, stamp |-> 1, body |-> 1, cwd |-> c]]
                /\ UNCHANGED dir
Grow(p) == /\ Edited /\ Present(p)
             /\ files' = [files EXCEPT ![p].stamp = edits + 2, ![p].body = edits + 2]
             /\ UNCHANGED dir
RewriteUnseen(p) == /\ Edited /\ Present(p)
                    /\ files' = [files EXCEPT ![p].body = edits + 2]
                    /\ UNCHANGED dir
Delete(p) == Edited /\ Present(p) /\ files' = [files EXCEPT ![p] = NoFile] /\ UNCHANGED dir
Rename(p, q) == /\ Edited /\ Present(p) /\ p # q
                /\ files' = [files EXCEPT ![p] = NoFile, ![q] = files[p]]
                /\ UNCHANGED dir
DiskStep == \/ ReplaceDir \/ RemoveDir
            \/ \E p \in Paths : \/ \E c \in {"mine", "other", "bad"} : Create(p, c)
                                \/ Grow(p) \/ RewriteUnseen(p) \/ Delete(p)
                                \/ \E q \in Paths : Rename(p, q)

---------------------------------------------------------------------------
(* Checking the folder.  The stored path is resolved without the index     *)
(* lock; the identity found is compared under the lock; a mismatch is      *)
(* acted on under another hold of the lock.                                *)

Known(reg) == proj.reg # 0 /\ proj.reg = reg
IdentityMatches(reg, seen) == Known(reg) /\ proj.ident = seen
MarkMissing(reg, b) == proj' = IF Known(reg) THEN [proj EXCEPT !.missing = b] ELSE proj
InvalidateIdentity(reg) == IF Known(reg) THEN rows' = {} /\ proj' = [proj EXCEPT !.trust = "restricted"]
                           ELSE UNCHANGED <<rows, proj>>
InvalidateFreshness == freshness' = "degraded"

---------------------------------------------------------------------------
(* Refresh passes.                                                         *)

Begin(t) ==
  /\ task[t].pc = "idle" /\ proj.reg # 0 /\ passes < MaxPass
  /\ freshness # "refreshing"
  /\ freshness' = "refreshing"
  /\ task' = [task EXCEPT ![t] = [IdleTask EXCEPT !.pc = "gate", !.reg = proj.reg,
                                                  !.full = sinceFull >= Interval]]
  /\ passes' = passes + 1
  /\ UNCHANGED <<disk, index, sinceFull, op, ops, ghosts>>

HoldsGate(t) == task[t].pc \notin {"idle", "gate", "done"}
Gate(t) ==
  /\ task[t].pc = "gate"
  /\ \A u \in Tasks \ {t} : HoldsGate(u) => task[u].reg # task[t].reg
  /\ task' = [task EXCEPT ![t].pc = "resolve", ![t].site = 1]
  /\ UNCHANGED <<disk, index, catalog, op, passes, ops, ghosts>>

\* The end of a pass that gives up.
Stopped(t) == [task EXCEPT ![t] = [IdleTask EXCEPT !.pc = "done", !.reg = task[t].reg, !.full = task[t].full]]

Resolve(t) ==
  /\ task[t].pc = "resolve"
  /\ IF Known(task[t].reg) /\ dir # 0
     THEN task' = [task EXCEPT ![t].pc = "check", ![t].seen = dir] /\ UNCHANGED proj
     ELSE task' = Stopped(t) /\ MarkMissing(task[t].reg, TRUE)
  /\ UNCHANGED <<disk, rows, nextId, catalog, op, passes, ops, ghosts>>

\* After the first check the pass goes on to read; after the second it
\* commits; after the third it reports.
AfterSite(k) == CASE k = 1 -> "alloc" [] k = 2 -> "commit" [] OTHER -> "done"

\* Bug: any folder at the registered path is taken for the registered one.
CheckAnyFolder(t) ==
  /\ task[t].pc = "check"
  /\ LET r == task[t] IN
     IF ~Known(r.reg)
     THEN task' = [task EXCEPT ![t].pc = "invalidate"] /\ UNCHANGED proj
     ELSE /\ MarkMissing(r.reg, FALSE)
          /\ task' = IF r.site > 1 /\ r.seen # r.expected THEN Stopped(t)
                     ELSE [task EXCEPT ![t].pc = AfterSite(r.site), ![t].expected = r.seen]
  /\ UNCHANGED <<disk, rows, nextId, catalog, op, passes, ops, ghosts>>

Check(t) ==
  /\ task[t].pc = "check"
  /\ LET r == task[t] IN
     IF ~IdentityMatches(r.reg, r.seen)
     THEN task' = [task EXCEPT ![t].pc = "invalidate"] /\ UNCHANGED proj
     ELSE /\ MarkMissing(r.reg, FALSE)
          /\ task' = IF r.site > 1 /\ r.seen # r.expected THEN Stopped(t)
                     ELSE [task EXCEPT ![t].pc = AfterSite(r.site), ![t].expected = r.seen]
  /\ UNCHANGED <<disk, rows, nextId, catalog, op, passes, ops, ghosts>>

Invalidate(t) ==
  /\ task[t].pc = "invalidate"
  /\ InvalidateIdentity(task[t].reg) /\ task' = Stopped(t)
  /\ UNCHANGED <<disk, nextId, catalog, op, passes, ops, ghosts>>

\* The roots of Pi and Prime overlap, or there is no root.
NoRoots(t) ==
  /\ task[t].pc = "alloc" /\ task' = Stopped(t)
  /\ UNCHANGED <<disk, index, catalog, op, passes, ops, ghosts>>

Allocate(t) ==
  /\ task[t].pc = "alloc"
  /\ IF Known(task[t].reg)
     THEN /\ proj' = [proj EXCEPT !.gen = @ + 1]
          /\ task' = [task EXCEPT ![t].pc = "walk", ![t].gen = proj.gen + 1, ![t].todo = Paths,
                        ![t].known = IF task[t].full THEN {}
                                     ELSE {<<r.id, r.path, r.ino, r.stamp>> : r \in rows},
                        ![t].complete = TRUE, ![t].quiet = TRUE]
     ELSE task' = Stopped(t) /\ UNCHANGED proj
  /\ UNCHANGED <<disk, rows, nextId, catalog, op, passes, ops, ghosts>>

\* The walk begins by resolving the project's path.
WalkFails(t) ==
  /\ task[t].pc = "walk" /\ task[t].todo = Paths /\ dir = 0 /\ task' = Stopped(t)
  /\ UNCHANGED <<disk, index, catalog, op, passes, ops, ghosts>>

KnownAt(t, p) == {k \in task[t].known : k[2] = p /\ <<k[3], k[4]>> = Fingerprint(files[p])}
\* One name is looked at.  A name that was listed and is gone, and a file whose
\* header does not say whose it is, leave the pass incomplete.
Visit(t, p) ==
  /\ task[t].pc = "walk" /\ p \in task[t].todo
  /\ LET f == files[p] IN
     \E vanished \in {b \in BOOLEAN : b => ~Present(p) /\ ~task[t].quiet} :
     task' = [task EXCEPT ![t].todo = @ \ {p},
                          ![t].found = IF f.cwd = "mine" /\ KnownAt(t, p) = {} THEN @ \o <<[path |-> p, file |-> f]>> ELSE @,
                          ![t].same = IF f.cwd = "mine" THEN @ \cup KnownAt(t, p) ELSE @,
                          ![t].complete = @ /\ f.cwd # "bad" /\ ~vanished]
  /\ UNCHANGED <<disk, index, catalog, op, passes, ops, ghosts>>

Found(t) == {task[t].found[i] : i \in DOMAIN task[t].found}
VerifyBatch(t) ==
  /\ task[t].pc = "walk" /\ task[t].todo = {}
  /\ task' = IF \A d \in Found(t) : files[d.path] = d.file
             THEN [task EXCEPT ![t].pc = "resolve", ![t].site = 2]
             ELSE Stopped(t)
  /\ UNCHANGED <<disk, index, catalog, op, passes, ops, ghosts>>

---------------------------------------------------------------------------
(* The commit, one transaction.  Each file found is stored in turn: a row  *)
(* of the same file keeps its id, any other row at the same path goes.     *)

RowOf(d, id, gen, ident) == [id |-> id, path |-> d.path, ino |-> d.file.ino, stamp |-> d.file.stamp,
                             body |-> d.file.body, gen |-> gen, under |-> ident]
PersistScan(s, d, gen, ident) ==
  LET match == {r \in s.rows : r.ino = d.file.ino}
      id == IF match = {} THEN s.next ELSE (CHOOSE r \in match : TRUE).id
  IN [rows |-> {r \in s.rows : r.path # d.path /\ r.id # id} \cup {RowOf(d, id, gen, ident)},
      next |-> IF match = {} THEN s.next + 1 ELSE s.next]

MarkUnchanged(R, same, gen) ==
  {IF \E k \in same : k[1] = r.id /\ <<k[3], k[4]>> = <<r.ino, r.stamp>> THEN [r EXCEPT !.gen = gen] ELSE r : r \in R}
Marked(R, same) == {k \in same : \E r \in R : k[1] = r.id /\ <<k[3], k[4]>> = <<r.ino, r.stamp>>}

Swept(R, gen, complete) == IF complete THEN {r \in R : r.gen >= gen} ELSE R

Commit(t) ==
  /\ task[t].pc = "commit"
  /\ LET r == task[t]
         stored == FoldLeft(LAMBDA s, d : PersistScan(s, d, r.gen, r.expected),
                            [rows |-> rows, next |-> nextId], r.found)
         complete == r.complete /\ Marked(stored.rows, r.same) = r.same
     IN IF /\ \A d \in Found(t) : Fingerprint(files[d.path]) = Fingerprint(d.file)
           /\ Known(r.reg) /\ proj.gen = r.gen
        THEN /\ rows' = Swept(MarkUnchanged(stored.rows, r.same, r.gen), r.gen, complete)
             /\ nextId' = stored.next
             /\ task' = [task EXCEPT ![t].pc = "resolve", ![t].site = 3, ![t].complete = complete,
                                     ![t].known = {}, ![t].found = <<>>, ![t].same = {}]
        ELSE task' = Stopped(t) /\ UNCHANGED <<rows, nextId>>
  /\ UNCHANGED <<disk, proj, catalog, op, passes, ops, ghosts>>

Finish(t) ==
  /\ task[t].pc = "done"
  /\ IF ~Known(task[t].reg) THEN UNCHANGED catalog
     ELSE IF task[t].complete
     THEN freshness' = "current" /\ sinceFull' = IF task[t].full THEN 0 ELSE sinceFull + 1
     ELSE freshness' = "degraded" /\ UNCHANGED sinceFull
  /\ task' = [task EXCEPT ![t] = IdleTask]
  /\ UNCHANGED <<disk, index, op, passes, ops, ghosts>>

PassStep(t) == \/ Gate(t) \/ Resolve(t) \/ Check(t) \/ Invalidate(t) \/ NoRoots(t) \/ Allocate(t) \/ WalkFails(t)
               \/ (\E p \in Paths : Visit(t, p)) \/ VerifyBatch(t) \/ Commit(t) \/ Finish(t)

---------------------------------------------------------------------------
(* The user's commands.                                                    *)

OpResolve(k) ==
  /\ op.pc = "idle" /\ ops < MaxOp /\ ops' = ops + 1
  /\ dir # 0 \/ k = "trust"
  /\ k = "trust" => proj.reg # 0
  /\ IF dir # 0
     THEN op' = [kind |-> k, reg |-> proj.reg, seen |-> dir, pc |-> "check"] /\ UNCHANGED proj
     ELSE MarkMissing(proj.reg, TRUE) /\ UNCHANGED op
  /\ UNCHANGED <<disk, rows, nextId, catalog, task, passes, ghosts>>

Register ==
  /\ op.kind = "register" /\ op.pc = "check" /\ op' = IdleOp
  /\ IF proj.reg # 0 /\ proj.ident = op.seen THEN UNCHANGED <<proj, rows>>
     ELSE /\ proj' = IF proj.reg = 0 THEN [NoProject EXCEPT !.reg = ops + 1, !.ident = op.seen, !.trust = "restricted"]
                     ELSE [proj EXCEPT !.ident = op.seen, !.trust = "restricted", !.missing = FALSE]
          /\ rows' = {}
  /\ raced' = (raced \/ (proj'.ident # proj.ident /\ \E t \in Tasks : task[t].pc = "commit"))
  /\ IF proj'.trust # "trusted" THEN InvalidateFreshness ELSE UNCHANGED freshness
  /\ UNCHANGED <<disk, nextId, sinceFull, task, passes, ops, approved>>

TrustCheck ==
  /\ op.kind = "trust" /\ op.pc = "check"
  /\ IF IdentityMatches(op.reg, op.seen) THEN op' = [op EXCEPT !.pc = "grant"] /\ MarkMissing(op.reg, FALSE)
     ELSE op' = [op EXCEPT !.pc = "invalidate"] /\ UNCHANGED proj
  /\ UNCHANGED <<disk, rows, nextId, catalog, task, passes, ops, ghosts>>
TrustInvalidate ==
  /\ op.kind = "trust" /\ op.pc = "invalidate" /\ op' = IdleOp
  /\ InvalidateIdentity(op.reg) /\ InvalidateFreshness
  /\ UNCHANGED <<disk, nextId, sinceFull, task, passes, ops, ghosts>>
TrustGrant ==
  /\ op.kind = "trust" /\ op.pc = "grant" /\ op' = IdleOp
  /\ proj' = [proj EXCEPT !.trust = "trusted"] /\ approved' = op.seen
  /\ UNCHANGED <<disk, rows, nextId, catalog, task, passes, ops, raced>>

RestrictTrust ==
  /\ op.pc = "idle" /\ ops < MaxOp /\ ops' = ops + 1 /\ proj.reg # 0
  /\ proj' = [proj EXCEPT !.trust = "restricted"]
  /\ UNCHANGED <<disk, rows, nextId, catalog, task, op, passes, ghosts>>

RemoveProject ==
  /\ op.pc = "idle" /\ ops < MaxOp /\ ops' = ops + 1 /\ proj.reg # 0
  /\ proj' = NoProject /\ rows' = {} /\ freshness' = "cached" /\ sinceFull' = 0
  /\ UNCHANGED <<disk, nextId, task, op, passes, ghosts>>

OpStep == \/ (\E k \in {"register", "trust"} : OpResolve(k)) \/ Register
          \/ TrustCheck \/ TrustInvalidate \/ TrustGrant \/ RestrictTrust \/ RemoveProject

Next == DiskStep \/ OpStep \/ \E t \in Tasks : Begin(t) \/ PassStep(t)
Spec == Init /\ [][Next]_vars

---------------------------------------------------------------------------
(* Properties.                                                             *)

\* The shape of rows and passes: every row has an id already given out and a
\* generation already allocated, and a pass that reads has such a generation.
TypeOK ==
  /\ \A r \in rows : r.id \in 1..(nextId - 1) /\ r.path \in Paths /\ r.gen \in 1..proj.gen
  /\ proj.trust \in {"none", "restricted", "trusted"} /\ (proj.reg = 0 <=> proj = NoProject)
  /\ freshness \in {"cached", "refreshing", "current", "degraded"}
  /\ \A t \in Tasks : task[t].pc = "walk" /\ Known(task[t].reg) => task[t].gen \in 1..proj.gen

\* A path and a file each have one row: neither renames, nor replacements, nor
\* two passes in a row leave two sessions for one file (persist_index_scan_in_transaction).
OneRowPerFile == \A r, s \in rows : (r.path = s.path \/ r.ino = s.ino) => r = s

\* A session id never passes to another file, whatever takes its path.
IdNeverMoves == [][\A r \in rows, s \in rows' : r.id = s.id => r.ino = s.ino]_vars

\* A complete pass over a disk that did not change while it read leaves exactly
\* the project's files in the index, each with the stamp it has on disk; a full
\* pass leaves the contents too, whatever was rewritten unseen before.
CompletePassExact ==
  \A t \in Tasks : task[t].quiet /\ task[t].complete /\ task[t].site = 3 /\ Known(task[t].reg)
                   /\ proj.ident = task[t].expected /\ task[t].pc = "resolve" =>
    LET mine == {p \in Paths : files[p].cwd = "mine"}
    IN \/ rows = {}    \* the folder was checked and found replaced since
       \/ /\ {<<r.path, r.ino, r.stamp>> : r \in rows} = {<<p, files[p].ino, files[p].stamp>> : p \in mine}
          /\ task[t].full => {<<r.path, r.body>> : r \in rows} = {<<p, files[p].body>> : p \in mine}

\* A pass that could not look at every file forgets nothing: the rows of files it
\* did not replace are all still there (commit_verified_project_discovery_batch).
IncompleteKeeps ==
  [][\A t \in Tasks : task[t].pc = "commit" /\ task'[t].site = 3 /\ ~task'[t].complete =>
       \A r \in rows : (\E s \in rows' : s.ino = r.ino) \/ (\E s \in rows' : s.path = r.path)]_vars

\* Rows are of the folder that is registered: a folder that took the place of
\* another shows none of its history.  The exception is a registration between
\* the last check of a pass and its commit.
RowsOfThisFolder == ~raced => \A r \in rows : r.under = proj.ident

\* Trust is held only by the folder it was given to, through replacements,
\* repeated registrations and late invalidations.
TrustOfThisFolder == proj.trust = "trusted" => proj.ident = approved

=============================================================================
