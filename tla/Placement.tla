----------------------------- MODULE Placement -----------------------------
(***************************************************************************)
(* Chats in git worktrees that PiUI manages (placement_api.rs,             *)
(* workspace_placement.rs, session_placement.rs).                          *)
(*                                                                         *)
(* A chat has a placement record that names its worktree folder.  Creating *)
(* a chat in a new or a shared worktree, opening a chat, and removing a    *)
(* worktree (with its chats, or an orphan) each run git outside the        *)
(* operation gate and change records under it, so their steps interleave   *)
(* with each other, with turns and with edits by agents and the person.    *)
(* A removal that would lose uncommitted changes needs the fingerprint of  *)
(* the listing the person confirmed.                                       *)
(***************************************************************************)
EXTENDS Naturals, FiniteSets

CONSTANTS
  Chat, Root, Path,
  Task,       \* commands that run at the same time
  None,
  MaxEdit,    \* edits of uncommitted files
  MaxFail     \* failed starts, failed git commands and crashes

VARIABLES
  folder,     \* what is at each managed path: none, tree or empty
  work,       \* the uncommitted contents of each worktree; 0 is unchanged
  place,      \* placement records
  chat,       \* registry row and live status of each chat
  shown,      \* the changes that the last refused removal of a root reported
  task,
  edits, fails,
  stray,      \* worktrees left behind by a failed start, a failed mark or a crash
  crossed,    \* chats whose worktree an overlapping removal or failed start took away
  lost        \* a removal lost changes of files it had not listed

vars == <<folder, work, place, chat, shown, task, edits, fails, stray, crossed, lost>>

Version == 0..MaxEdit
Clean == [p \in Path |-> 0]
Idle == [op |-> "idle"]
Live == {"starting", "idle", "busy"}
Exists(c) == chat[c] \in Live \cup {"closed"}

Changed(w) == {p \in Path : w[p] # 0}
Active(c) == place[c] # None /\ ~place[c].gone
In(r) == {c \in Chat : place[c] # None /\ place[c].root = r}
ActiveIn(r) == {c \in In(r) : ~place[c].gone}

Fail == fails < MaxFail /\ fails' = fails + 1
Becomes(t, rec) == task' = [task EXCEPT ![t] = rec]
Done(t) == Becomes(t, Idle)

----------------------------------------------------------------------------
(* Chats.                                                                  *)

\* plan_worktree: the folder is free.
NewWorktree(t, c, r) ==
  /\ task[t] = Idle
  /\ chat[c] = "none" /\ place[c] = None
  /\ \A u \in Task : task[u].op \in {"new", "share", "open"} => task[u].chat # c
  /\ folder[r] = "none"
  /\ Becomes(t, [op |-> "new", pc |-> "add", chat |-> c, root |-> r])
  /\ UNCHANGED <<folder, work, place, chat, shown, edits, fails, stray, crossed, lost>>

\* git worktree add; another command may have taken the folder.
AddWorktree(t) ==
  /\ task[t].op = "new" /\ task[t].pc = "add"
  /\ LET r == task[t].root
     IN IF folder[r] = "none"
        THEN /\ folder' = [folder EXCEPT ![r] = "tree"]
             /\ work' = [work EXCEPT ![r] = Clean]
             /\ shown' = [shown EXCEPT ![r] = Clean]
             /\ Becomes(t, [task[t] EXCEPT !.pc = "place"])
        ELSE Done(t) /\ UNCHANGED <<folder, work, shown>>
  /\ UNCHANGED <<place, chat, edits, fails, stray, crossed, lost>>

\* create_chat in the worktree of another chat: verify_worktree runs after the
\* binding was read.
ShareWorktree(t, c, s) ==
  /\ task[t] = Idle
  /\ chat[c] = "none" /\ place[c] = None
  /\ \A u \in Task : task[u].op \in {"new", "share", "open"} => task[u].chat # c
  /\ Exists(s) /\ Active(s)
  /\ folder[place[s].root] = "tree"
  /\ Becomes(t, [op |-> "share", pc |-> "place", chat |-> c, root |-> place[s].root])
  /\ UNCHANGED <<folder, work, place, chat, shown, edits, fails, stray, crossed, lost>>

\* Whether a removal has marked the worktree and git has it now.
BeingRemoved(r) == \E t \in Task : task[t].op = "remove" /\ task[t].pc = "git" /\ task[t].root = r

Saved(c, r) == place' = [place EXCEPT ![c] = [root |-> r, gone |-> FALSE]]

\* create_placed_session saves the record before anything starts.
SavePlacement(t) ==
  /\ task[t].op \in {"new", "share"} /\ task[t].pc = "place"
  /\ LET c == task[t].chat
         r == task[t].root
     IN /\ Saved(c, r)
        /\ crossed' = IF BeingRemoved(r) \/ folder[r] # "tree"
                         \/ \E s \in In(r) : place[s].gone /\ Exists(s)
                      THEN crossed \cup {c} ELSE crossed
  /\ Becomes(t, [task[t] EXCEPT !.pc = "launch"])
  /\ UNCHANGED <<folder, work, chat, shown, edits, fails, stray, lost>>

\* Mutant: a removed worktree whose folder is still there is used.
LaunchCwdAnyway(c) == folder[place[c].root] # "none"

\* launch_cwd.
LaunchCwd(c) == ~place[c].gone /\ folder[place[c].root] # "none"

\* open_session of a closed chat; git verifies its worktree outside the gate.
OpenChat(t, c) ==
  /\ task[t] = Idle
  /\ chat[c] = "closed" /\ Active(c)
  /\ folder[place[c].root] = "tree"
  /\ Becomes(t, [op |-> "open", pc |-> "launch", chat |-> c, root |-> place[c].root])
  /\ UNCHANGED <<folder, work, place, chat, shown, edits, fails, stray, crossed, lost>>

\* What a failed creation leaves: no record, and no worktree unless git refuses.
Withdraw(t) ==
  LET c == task[t].chat
      r == task[t].root
      made == task[t].op = "new"
      removed == made /\ folder[r] = "tree" /\ work[r] = Clean
  IN /\ place' = IF task[t].op = "open" THEN place ELSE [place EXCEPT ![c] = None]
     /\ folder' = IF removed THEN [folder EXCEPT ![r] = "none"] ELSE folder
     /\ stray' = IF made /\ ~removed THEN stray \cup {r} ELSE stray
     /\ crossed' = IF removed THEN crossed \cup (In(r) \ {c}) ELSE crossed
     /\ Done(t)

\* prepare_launch and prepare_open, under the operation gate.
Launch(t) ==
  /\ task[t].op \in {"new", "share", "open"} /\ task[t].pc = "launch"
  /\ LET c == task[t].chat
     IN IF chat[c] \in Live \cup {"deleted"}
        THEN Done(t) /\ UNCHANGED <<chat, place, folder, stray, crossed>>
        ELSE IF LaunchCwd(c)
        THEN /\ chat' = [chat EXCEPT ![c] = "starting"]
             /\ Becomes(t, [task[t] EXCEPT !.pc = "start"])
             /\ UNCHANGED <<place, folder, stray, crossed>>
        ELSE Withdraw(t) /\ UNCHANGED chat
  /\ UNCHANGED <<work, shown, edits, fails, lost>>

Started(t) ==
  /\ task[t].op \in {"new", "share", "open"} /\ task[t].pc = "start"
  /\ chat' = [chat EXCEPT ![task[t].chat] = "idle"]
  /\ Done(t)
  /\ UNCHANGED <<folder, work, place, shown, edits, fails, stray, crossed, lost>>

StartFails(t) ==
  /\ task[t].op \in {"new", "share", "open"} /\ task[t].pc = "start"
  /\ Fail
  /\ chat' = [chat EXCEPT ![task[t].chat] = IF task[t].op = "open" THEN "closed" ELSE "none"]
  /\ Withdraw(t)
  /\ UNCHANGED <<work, shown, edits, lost>>

Turn(c) ==
  /\ \/ chat[c] = "idle" /\ chat' = [chat EXCEPT ![c] = "busy"]
     \/ chat[c] = "busy" /\ chat' = [chat EXCEPT ![c] = "idle"]
     \/ chat[c] = "idle" /\ chat' = [chat EXCEPT ![c] = "closed"]
     \/ chat[c] = "closed" /\ chat' = [chat EXCEPT ![c] = "deleted"]
  /\ UNCHANGED <<folder, work, place, shown, task, edits, fails, stray, crossed, lost>>

\* An agent or the person changes a file of a worktree, or undoes it.
Edit(r, p, v) ==
  /\ folder[r] = "tree"
  /\ edits < MaxEdit
  /\ work[r][p] # v
  /\ work' = [work EXCEPT ![r][p] = v]
  /\ edits' = edits + 1
  /\ UNCHANGED <<folder, place, chat, shown, task, fails, stray, crossed, lost>>

----------------------------------------------------------------------------
(* Removal.                                                                *)

\* The fingerprint names the changed paths and how they changed, not their contents.
Confirmed(r) == Changed(shown[r]) = Changed(work[r])

\* The managed worktrees that are listed, and those among them without a chat.
Managed == {r \in Root : ActiveIn(r) # {}}
Orphaned(r) == r \in Managed /\ \A c \in ActiveIn(r) : ~Exists(c)

\* The checks of remove_worktree and remove_orphan_worktree before the gate.
CheckRemoval(t, r, orphan, discard) ==
  /\ task[t] = Idle
  /\ IF orphan THEN Orphaned(r) ELSE \E c \in ActiveIn(r) : Exists(c)
  /\ folder[r] # "empty"
  /\ LET dirty == folder[r] = "tree" /\ Changed(work[r]) # {}
     IN IF dirty /\ ~discard
        THEN shown' = [shown EXCEPT ![r] = work[r]] /\ UNCHANGED task
        ELSE /\ dirty => Confirmed(r)
             /\ Becomes(t, [op |-> "remove", pc |-> "mark", root |-> r, orphan |-> orphan,
                         present |-> folder[r] = "tree", force |-> dirty,
                         listed |-> Changed(work[r]), named |-> Changed(shown[r])])
             /\ UNCHANGED shown
  /\ UNCHANGED <<folder, work, place, chat, edits, fails, stray, crossed, lost>>

\* Chats that stop_idle_session refuses to stop.
Working(r) == {c \in ActiveIn(r) : chat[c] \in {"starting", "busy"}}

Marked(r, gone) ==
  place' = [c \in Chat |-> IF c \in In(r) THEN [place[c] EXCEPT !.gone = gone] ELSE place[c]]

\* Under the gate: the chats stop and every record is marked.
Mark(t) ==
  /\ task[t].op = "remove" /\ task[t].pc = "mark"
  /\ LET r == task[t].root
         bound == {c \in ActiveIn(r) : Exists(c)}
     IN IF task[t].orphan /\ bound # {}
        THEN Done(t) /\ UNCHANGED <<chat, place>>
        ELSE IF ~task[t].orphan /\ Working(r) # {}
        THEN /\ \E S \in SUBSET {c \in bound : chat[c] = "idle"} :
                  chat' = [c \in Chat |-> IF c \in S THEN "closed" ELSE chat[c]]
             /\ Done(t)
             /\ UNCHANGED place
        ELSE /\ chat' = [c \in Chat |-> IF c \in bound THEN "closed" ELSE chat[c]]
             /\ Marked(r, TRUE)
             /\ Becomes(t, [task[t] EXCEPT !.pc = "git"])
  /\ UNCHANGED <<folder, work, shown, edits, fails, stray, crossed, lost>>

\* git worktree remove; without force git keeps a changed worktree.  A removed
\* worktree of chats leaves an empty folder for their histories.
GitRemoves(t) ==
  /\ task[t].op = "remove" /\ task[t].pc = "git"
  /\ LET r == task[t].root
     IN /\ task[t].present => folder[r] = "tree" /\ (task[t].force \/ work[r] = Clean)
        /\ folder' = [folder EXCEPT ![r] = IF task[t].orphan THEN "none" ELSE "empty"]
        /\ work' = [work EXCEPT ![r] = Clean]
        /\ lost' = (lost \/ ~(task[t].listed \subseteq task[t].named))
        /\ stray' = stray \ {r}
  /\ Done(t)
  /\ UNCHANGED <<place, chat, shown, edits, fails, crossed>>

\* git refused or failed: the records are marked present again.
GitRefuses(t) ==
  /\ task[t].op = "remove" /\ task[t].pc = "git" /\ task[t].present
  /\ LET r == task[t].root
     IN /\ IF folder[r] = "tree" /\ (task[t].force \/ work[r] = Clean) THEN Fail ELSE UNCHANGED fails
        /\ Marked(r, FALSE)
        /\ crossed' = IF \E u \in Task \ {t} : task[u].op = "remove" /\ task[u].root = r
                      THEN crossed \cup In(r) ELSE crossed
  /\ Done(t)
  /\ UNCHANGED <<folder, work, chat, shown, edits, stray, lost>>

\* The host stops and starts again; records and folders stay as they are.
Crash ==
  /\ Fail
  /\ stray' = stray \cup {task[t].root : t \in {u \in Task : task[u].op \in {"new", "remove"}}}
  /\ task' = [t \in Task |-> Idle]
  /\ chat' = [c \in Chat |-> IF chat[c] \in Live THEN "closed" ELSE chat[c]]
  /\ UNCHANGED <<folder, work, place, shown, edits, crossed, lost>>

----------------------------------------------------------------------------
Init ==
  /\ folder = [r \in Root |-> "none"]
  /\ work = [r \in Root |-> Clean]
  /\ place = [c \in Chat |-> None]
  /\ chat = [c \in Chat |-> "none"]
  /\ shown = [r \in Root |-> Clean]
  /\ task = [t \in Task |-> Idle]
  /\ edits = 0 /\ fails = 0
  /\ stray = {} /\ crossed = {} /\ lost = FALSE

Next ==
  \/ \E t \in Task, c \in Chat :
       \/ \E r \in Root : NewWorktree(t, c, r)
       \/ \E s \in Chat : ShareWorktree(t, c, s)
       \/ OpenChat(t, c)
  \/ \E t \in Task :
       \/ AddWorktree(t) \/ SavePlacement(t) \/ Launch(t) \/ Started(t) \/ StartFails(t)
       \/ Mark(t) \/ GitRemoves(t) \/ GitRefuses(t)
  \/ \E t \in Task, r \in Root, orphan, discard \in BOOLEAN : CheckRemoval(t, r, orphan, discard)
  \/ \E c \in Chat : Turn(c)
  \/ \E r \in Root, p \in Path, v \in Version : Edit(r, p, v)
  \/ Crash

Spec == Init /\ [][Next]_vars

----------------------------------------------------------------------------
\* Folders, records, chats and commands have their shape; a chat with a row has a
\* placement record.
TypeOK ==
  /\ folder \in [Root -> {"none", "tree", "empty"}]
  /\ work \in [Root -> [Path -> Version]] /\ shown \in [Root -> [Path -> Version]]
  /\ place \in [Chat -> [root: Root, gone: BOOLEAN] \cup {None}]
  /\ chat \in [Chat -> Live \cup {"none", "closed", "deleted"}]
  /\ \A c \in Chat : chat[c] # "none" => place[c] # None

\* A chat that runs has a worktree that exists and that no removal has marked or
\* is deleting, unless it shares one that was being removed when it was placed, that
\* another chat's failed start took back, or that two removals worked on at once.
RunsInItsWorktree ==
  \A c \in Chat : chat[c] \in Live /\ c \notin crossed =>
    ~place[c].gone /\ folder[place[c].root] = "tree" /\ ~BeingRemoved(place[c].root)

\* The changes a removal's check finds are discarded only when each changed file
\* was in the listing the person confirmed.
LossListed == ~lost

\* A worktree folder that no command works on is still managed: some record names
\* it as present, so that it is listed and can be removed.
StaysManaged ==
  \A r \in Root :
    /\ folder[r] = "tree"
    /\ r \notin stray
    /\ \A t \in Task : task[t].op \in {"new", "remove"} => task[t].root # r
    => r \in Managed
=============================================================================
