------------------------------- MODULE GitReview -------------------------------
(***************************************************************************)
(* Reviewing the git changes of a chat's folder (review_api.rs).           *)
(*                                                                         *)
(* One path has a committed, a staged and a work-tree content, each absent *)
(* or a value for every region of the file.  The person is shown the       *)
(* difference of an area and later stages, unstages or reverts it, whole   *)
(* or one hunk of it.  Every command reads git's status, recomputes the    *)
(* difference and compares its fingerprint, and then lets git change the   *)
(* index or the work tree: three steps between which agents and the        *)
(* person's own tools edit files and use git.                              *)
(***************************************************************************)
EXTENDS Naturals, FiniteSets

CONSTANTS
  Region, Val,
  Huge,        \* values too large to show
  Absent,
  Ita,         \* an index entry that only announces the file
  Conflict,    \* an unmerged index entry
  Task,        \* commands that run at the same time
  None,
  MaxEdit, MaxView

VARIABLES
  head, index, work,
  views,       \* the differences the person was shown, with their fingerprints
  task,
  trash,       \* contents moved to the trash
  done,        \* the change that a command just made
  edits

vars == <<head, index, work, views, task, trash, done, edits>>

Content == [Region -> Val]
Idle == [op |-> "idle"]
Area == {"staged", "unstaged", "untracked"}

----------------------------------------------------------------------------
(* Status and differences.                                                 *)

\* entry_in: whether the path is listed in an area, and as what.
EntryIn(area) ==
  CASE area = "untracked" -> IF index = Absent /\ work # Absent THEN "added" ELSE "none"
    [] area = "staged" -> IF index \in {Ita, Conflict} \/ index = head THEN "none" ELSE "changed"
    [] area = "unstaged" ->
         IF index = Conflict THEN "conflict"
         ELSE IF index = Absent \/ index = work THEN "none"
         ELSE IF index = Ita /\ work # Absent THEN "ita" ELSE "changed"

\* git::diff and untracked_view: both sides of an area; the fingerprint stands for
\* them.
Diff(area) ==
  CASE area = "staged" -> [area |-> area, old |-> head, new |-> index]
    [] area = "unstaged" -> [area |-> area, old |-> IF index = Ita THEN Absent ELSE index, new |-> work]
    [] area = "untracked" -> [area |-> area, old |-> Absent, new |-> work]

Empty(v) == v.old = v.new

\* The hunks of a difference; a new or deleted file has none of its own.
Hunks(v) == IF v.old \in Content /\ v.new \in Content THEN {h \in Region : v.old[h] # v.new[h]} ELSE {}

\* display_text: whether the text of the difference can be shown.
Showable(v) == \A side \in {v.old, v.new} \cap Content : \A h \in Region :
                 side[h] \in Huge => v.old \in Content /\ v.new \in Content /\ v.old[h] = v.new[h]

\* diff.
View(area) ==
  /\ EntryIn(area) \in {"added", "changed", "ita"}
  /\ ~Empty(Diff(area))
  /\ Cardinality(views) < MaxView
  /\ views' = views \cup {Diff(area)}
  /\ done' = None
  /\ UNCHANGED <<head, index, work, task, trash, edits>>

----------------------------------------------------------------------------
(* Commands.                                                               *)

\* fixed_change and the rules of stage, unstage and revert on areas and selections.
Offered(op, v, entry, sel) ==
  /\ entry # "conflict"
  /\ sel # Region => entry = "changed"
  /\ CASE op = "stage" -> v.area # "staged"
       [] op = "unstage" -> v.area = "staged"
       [] op = "revert" -> v.area # "staged" /\ entry # "ita"

\* locate_entry; the selection is the whole change or one hunk.
Begin(t, op, v, sel) ==
  /\ task[t] = Idle
  /\ LET entry == EntryIn(v.area)
     IN /\ entry # "none"
        /\ Offered(op, v, entry, sel)
        /\ task' = [task EXCEPT ![t] = [op |-> op, pc |-> "check", view |-> v, sel |-> sel, entry |-> entry]]
  /\ done' = None
  /\ UNCHANGED <<head, index, work, views, trash, edits>>

\* The recomputed difference has the reviewed fingerprint.
Matches(v, now) == now = v /\ ~Empty(now)

\* revert: what a revert loses must be shown first.
Revertible(v) == v.area = "untracked" \/ Showable(v)

\* reviewed_patch or untracked_view, and the refusals after it.
Recompute(t) ==
  /\ task[t].op # "idle" /\ task[t].pc = "check"
  /\ LET now == Diff(task[t].view.area)
         sel == task[t].sel
     IN IF /\ Matches(task[t].view, now)
           /\ task[t].op = "revert" => Revertible(now)
           /\ sel # Region => sel \subseteq Hunks(now)
        THEN task' = [task EXCEPT ![t] = [op |-> task[t].op, pc |-> "git", view |-> now, sel |-> sel,
                                          entry |-> task[t].entry, asked |-> task[t].view]]
        ELSE task' = [task EXCEPT ![t] = Idle]
  /\ done' = None
  /\ UNCHANGED <<head, index, work, views, trash, edits>>

\* git apply of a patch from one side to the other: every changed region and, for a
\* whole file, the file itself must be as the patch says.
Applies(target, from, to, sel) ==
  IF from \in Content /\ to \in Content
  THEN target \in Content /\ \A h \in sel : from[h] # to[h] => target[h] = from[h]
  ELSE target = from

Applied(target, from, to, sel) ==
  IF from \in Content /\ to \in Content
  THEN [h \in Region |-> IF h \in sel /\ from[h] # to[h] THEN to[h] ELSE target[h]]
  ELSE to

Finish(t, how, before, after) ==
  /\ task' = [task EXCEPT ![t] = Idle]
  /\ done' = [op |-> task[t].op, how |-> how, view |-> task[t].asked, sel |-> task[t].sel,
              before |-> before, after |-> after]

Fails(t) ==
  /\ task' = [task EXCEPT ![t] = Idle]
  /\ done' = None
  /\ UNCHANGED <<index, work>>

\* The git step of stage and unstage through git apply --cached.
ApplyIndex(t) ==
  /\ task[t].op \in {"stage", "unstage"} /\ task[t].pc = "git"
  /\ task[t].entry = "changed"
  /\ LET v == task[t].view
         from == IF task[t].op = "stage" THEN v.old ELSE v.new
         to == IF task[t].op = "stage" THEN v.new ELSE v.old
         after == Applied(index, from, to, task[t].sel)
     IN IF Applies(index, from, to, task[t].sel)
        THEN index' = after /\ Finish(t, "apply", index, after) /\ UNCHANGED work
        ELSE Fails(t)
  /\ UNCHANGED <<head, views, trash, edits>>

\* git add of a new file stages what the file holds then.
AddPath(t) ==
  /\ task[t].op = "stage" /\ task[t].pc = "git"
  /\ task[t].entry \in {"added", "ita"}
  /\ IF work = Absent /\ index = Absent THEN Fails(t)
     ELSE index' = work /\ Finish(t, "add", index, work) /\ UNCHANGED work
  /\ UNCHANGED <<head, views, trash, edits>>

\* The reversed patch is applied to the work tree.
RevertTracked(t) ==
  /\ task[t].op = "revert" /\ task[t].pc = "git" /\ task[t].entry = "changed"
  /\ LET v == task[t].view
         after == Applied(work, v.new, v.old, task[t].sel)
     IN IF Applies(work, v.new, v.old, task[t].sel)
        THEN work' = after /\ Finish(t, "apply", work, after) /\ UNCHANGED index
        ELSE Fails(t)
  /\ UNCHANGED <<head, views, trash, edits>>

\* A new file is moved to the trash, with what it holds then.
Trash(t) ==
  /\ task[t].op = "revert" /\ task[t].pc = "git" /\ task[t].entry = "added"
  /\ IF work = Absent THEN Fails(t) /\ UNCHANGED trash
     ELSE /\ work' = Absent
          /\ trash' = trash \cup {work}
          /\ Finish(t, "trash", work, Absent)
          /\ UNCHANGED index
  /\ UNCHANGED <<head, views, edits>>

----------------------------------------------------------------------------
(* Agents and the person's own tools.                                      *)

EditFile ==
  /\ \/ work \in Content /\ \E h \in Region : \E v \in Val \ {work[h]} : work' = [work EXCEPT ![h] = v]
     \/ work \in Content /\ work' = Absent
     \/ work = Absent /\ \E v \in Val : work' = [h \in Region |-> v]
  /\ UNCHANGED <<head, index>>

UseGit ==
  \/ index # work /\ index' = work /\ UNCHANGED <<head, work>>                  \* add
  \/ index = Absent /\ work # Absent /\ index' = Ita /\ UNCHANGED <<head, work>> \* add --intent-to-add
  \/ index \notin {Ita, Conflict, head} /\ head' = index /\ UNCHANGED <<index, work>> \* commit
  \/ index = head /\ head \in Content /\ index' = Conflict /\ UNCHANGED <<head, work>> \* a merge stops
  \/ index # head /\ index' = head /\ UNCHANGED <<head, work>>                  \* reset

Elsewhere ==
  /\ edits < MaxEdit
  /\ edits' = edits + 1
  /\ EditFile \/ UseGit
  /\ done' = None
  /\ UNCHANGED <<views, task, trash>>

----------------------------------------------------------------------------
Init ==
  /\ \E v \in Val \ Huge : head \in {Absent, [h \in Region |-> v]}
  /\ index = head
  /\ work = head
  /\ views = {}
  /\ task = [t \in Task |-> Idle]
  /\ trash = {} /\ done = None
  /\ edits = 0

Next ==
  \/ \E area \in Area : View(area)
  \/ \E t \in Task :
       \/ \E op \in {"stage", "unstage", "revert"}, v \in views, sel \in {Region} \cup {{h} : h \in Region} :
            Begin(t, op, v, sel)
       \/ Recompute(t) \/ ApplyIndex(t) \/ AddPath(t) \/ RevertTracked(t) \/ Trash(t)
  \/ Elsewhere

Spec == Init /\ [][Next]_vars

----------------------------------------------------------------------------
\* The path has one of the forms git gives it, and the person's views are real
\* differences.
TypeOK ==
  /\ head \in Content \cup {Absent}
  /\ index \in Content \cup {Absent, Ita, Conflict}
  /\ work \in Content \cup {Absent}
  /\ \A v \in views : v.area \in Area /\ {v.old, v.new} \subseteq Content \cup {Absent} /\ v.old # v.new
  /\ trash \subseteq Content

From(d) == IF d.op = "stage" THEN d.view.old ELSE d.view.new
To(d) == IF d.op = "stage" THEN d.view.new ELSE d.view.old

\* Whatever git applies for a command is the change the person reviewed: a hunk
\* changes that region alone from one reviewed side to the other, a whole change
\* every region that differed, and nothing else.
AppliesReviewed ==
  done # None /\ done.how = "apply" =>
    IF done.before \in Content /\ done.after \in Content
    THEN \A h \in Region :
           IF h \in done.sel /\ From(done)[h] # To(done)[h]
           THEN done.before[h] = From(done)[h] /\ done.after[h] = To(done)[h]
           ELSE done.after[h] = done.before[h]
    ELSE done.sel = Region /\ done.before = From(done) /\ done.after = To(done)

\* A revert loses nothing for good that the person was not shown: the lost text
\* was in a difference that can be shown, or the file is in the trash.
LossShown ==
  done # None /\ done.op = "revert" =>
    IF done.how = "trash" THEN done.before \in trash
    ELSE \A h \in Region : done.before \in Content /\ (done.after \notin Content \/ done.after[h] # done.before[h])
           => done.before[h] \notin Huge

=============================================================================
