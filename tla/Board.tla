-------------------------------- MODULE Board --------------------------------
(***************************************************************************)
(* One project board (board/ops.rs, board/agent.rs) and the engine that    *)
(* starts and finishes its runs (board_runs.rs).  Every change of the      *)
(* board is one transaction on b, saved before it becomes current; run     *)
(* starts, their queue and the engine's sweeps are tasks between           *)
(* transactions.  Runs are the orchestration's: run is what the engine     *)
(* sees of them.  Titles, texts, labels, links to chats and the layout of  *)
(* columns are left out.                                                   *)
(***************************************************************************)
EXTENDS Naturals, Sequences, FiniteSets, SequencesExt

CONSTANTS
  Card,          \* cards
  Mate, Always,  \* teammates, and those whose rule starts a run at once
  Urgent,        \* cards that go first in the queue
  MaxRun,        \* bound on the runs started
  Limit,         \* settings.max_concurrent_runs
  MateLimit,     \* a teammate's max_concurrent_runs
  MaxDepth,      \* MAX_TRIGGER_CHAIN_DEPTH
  MaxEdit,       \* bound on the edits of persons and agents
  MaxFault       \* bound on failed writes and restarts

ASSUME BoardType ==
  /\ Always \subseteq Mate /\ Urgent \subseteq Card
  /\ IsFiniteSet(Card) /\ IsFiniteSet(Mate)
  /\ {MaxRun, Limit, MateLimit, MaxDepth, MaxEdit, MaxFault} \subseteq Nat

Run == 1..MaxRun
Nobody == "none"
Free == 0                    \* an unclaimed card; a run's claim is the run
Agent == MaxRun + 1          \* claimed by a chat agent, whose lease may expire
Expired == MaxRun + 2
Status == {"Backlog", "Todo", "InProgress", "InReview", "Blocked", "Closed"}
Startable == {"Todo", "InProgress", "Blocked"}
Start == [c : Card, m : Mate, d : 0..(MaxDepth + 1)]

VARIABLES
  b,        \* the board document
  mates,    \* teammates that can take cards
  born,     \* cards created so far
  run, of, by, depth, \* status, card, teammate and chain depth of each run
  minted,   \* run identities handed out
  plans,    \* starts decided by a committed transaction
  gate,     \* the start that holds start_gate
  engine,   \* what the engine is doing
  known,    \* runs the engine saw end
  freed,    \* active runs whose card a person took back
  swept,    \* active runs whose claim a sweep took
  records,  \* how often each run's end was recorded, up to twice
  edits, faults

runs == <<run, of, by, depth, minted>>
ghosts == <<freed, swept, records>>
vars == <<b, mates, born, runs, plans, gate, engine, known, ghosts, edits, faults>>

Plan == [c : Card, m : Mate, d : 0..(MaxDepth + 1), asked : BOOLEAN]
NoGate == [pc |-> "free"]
Idle == [pc |-> "idle"]
Gates ==
  {NoGate, [pc |-> "drain"]}
    \cup [pc : {"full", "room"}, plan : Plan]
    \cup [pc : {"claimed"}, plan : Plan, r : Run, prev : Status]
Undo == [k : {"moved", "assigned", "claimed", "parent"}, from : Status \cup Mate \cup Card \cup {Nobody},
         to : Status \cup Mate \cup Card \cup {Nobody}]
Proposal == [k : {"move", "assign"}, c : Card, m : Mate \cup {Nobody}]

\* Every variable has its type.
TypeOK ==
  /\ b \in [enabled : BOOLEAN, cards : SUBSET Card, st : [Card -> Status], who : [Card -> Mate \cup {Nobody}],
            claim : [Card -> 0..Expired], blk : [Card -> SUBSET Card], par : [Card -> Card \cup {Nobody}],
            links : [Card -> SUBSET Run], ended : [Card -> SUBSET Run], pend : SUBSET (Card \X Mate),
            queue : Seq(Start), undo : [Card -> SUBSET Undo], blkUndo : [Card -> SUBSET SUBSET Card],
            props : SUBSET Proposal]
  /\ mates \subseteq Mate /\ born \subseteq Card
  /\ run \in [Run -> {"none", "minted", "active", "succeeded", "failed", "cancelled"}]
  /\ of \in [Run -> Card \cup {Nobody}] /\ by \in [Run -> Mate \cup {Nobody}] /\ depth \in [Run -> 0..(MaxDepth + 1)]
  /\ minted \in 0..MaxRun /\ plans \subseteq Plan /\ gate \in Gates
  /\ engine.pc \in {"idle", "finishing", "drain", "draining", "sweeping"}
  /\ known \subseteq Run /\ freed \subseteq Run /\ swept \subseteq Run /\ records \in [Run -> 0..2]
  /\ edits \in 0..MaxEdit /\ faults \in 0..MaxFault

-----------------------------------------------------------------------------
(* Pieces of transactions. *)

Active == {r \in Run : run[r] = "active"}
Ended == {r \in Run : run[r] \in {"succeeded", "failed", "cancelled"}}
ClaimLive(d, c) == d.claim[c] \notin {Free, Expired}
Edit == edits < MaxEdit /\ edits' = edits + 1 /\ b.enabled
Fault == faults < MaxFault /\ faults' = faults + 1

WithoutQueued(d, C, M) == [d EXCEPT !.queue = SelectSeq(@, LAMBDA q : q.c \notin C \/ q.m \notin M)]

\* unblock_dependents: blocked cards whose last open blocker is c.
Unblocked(d, c) ==
  {x \in d.cards : d.st[x] = "Blocked" /\ c \in d.blk[x] /\ \A y \in d.blk[x] : d.st[y] = "Closed"}

\* set_status_in: closing releases the claim, and a closed or backlog card leaves the queue.
SetStatus(d, c, to) ==
  IF d.st[c] = to THEN d
  ELSE LET moved == [d EXCEPT !.st[c] = to, !.claim[c] = IF to = "Closed" THEN Free ELSE @]
           left == IF to \in {"Closed", "Backlog"} THEN WithoutQueued(moved, {c}, Mate) ELSE moved
           free == IF to = "Closed" THEN Unblocked(moved, c) ELSE {}
       IN [left EXCEPT !.st = [x \in Card |-> IF x \in free THEN "Todo" ELSE @[x]]]

\* Cards a move to todo or a closed blocker may wake.
Woken(d, c, to) ==
  IF d.st[c] = to THEN {} ELSE IF to = "Closed" THEN Unblocked([d EXCEPT !.st[c] = to], c) ELSE {}

\* own_run_card; actor is the acting run, or Free.
OwnCard(d, c, actor) == actor # Free /\ (d.claim[c] = actor \/ actor \in d.links[c])

\* wake_in: what the rule of m does for card c.  ready: runs can start and the
\* card's last start is over START_COOLDOWN_SECONDS old; either may be false.
Wakes(d, c, m, actor) == d.st[c] \in Startable /\ ~ClaimLive(d, c) /\ m \in mates /\ ~OwnCard(d, c, actor)
AtOnce(d, c, rule, deep, ready) == rule = "always" /\ deep <= MaxDepth /\ ready

Pended(d, c, m, rule, deep, actor, ready) ==
  IF Wakes(d, c, m, actor) /\ rule # "never" /\ ~AtOnce(d, c, rule, deep, ready)
  THEN [d EXCEPT !.pend = @ \cup {<<c, m>>}] ELSE d

Planned(d, c, m, rule, deep, actor, ready) ==
  IF Wakes(d, c, m, actor) /\ AtOnce(d, c, rule, deep, ready)
  THEN {[c |-> c, m |-> m, d |-> deep, asked |-> FALSE]} ELSE {}

OnAssign(m) == IF m \in Always THEN "always" ELSE "ask"

\* wake_assignee for each card of a set, in one transaction.
WakeAssignees(d, S, deep, ready) ==
  LET have == {c \in S : d.who[c] # Nobody}
      asked == {c \in have : Wakes(d, c, d.who[c], Free) /\ ~AtOnce(d, c, OnAssign(d.who[c]), deep, ready)}
  IN /\ b' = [d EXCEPT !.pend = @ \cup {<<c, d.who[c]>> : c \in asked}]
     /\ plans' = plans \cup UNION {Planned(d, c, d.who[c], OnAssign(d.who[c]), deep, Free, ready) : c \in have}

\* assign_in: waiting starts of another teammate leave.
Assigned(d, c, m) ==
  IF d.who[c] = m THEN d
  ELSE WithoutQueued([d EXCEPT !.who[c] = m, !.pend = {p \in @ : p[1] # c \/ p[2] = m}],
                     {c}, Mate \ {m})

Undoable(d, c, k, from, to) == [d EXCEPT !.undo[c] = @ \cup {[k |-> k, from |-> from, to |-> to]}]

\* An active run that loses its card to a person.
FreedBy(d) == freed' = freed \cup {r \in Run : \E c \in b.cards : b.claim[c] = r /\ (c \notin d.cards \/ d.claim[c] # r)}

-----------------------------------------------------------------------------
(* Commands of the person and the agent's tool. *)

OnlyBoard == UNCHANGED <<mates, runs, gate, engine, known, swept, records, faults>>

\* create_card, and the agent's create in auto mode.
CreateCard(c, to) ==
  /\ Edit /\ c \notin born /\ to \in {"Backlog", "Todo"}
  /\ born' = born \cup {c}
  /\ b' = [b EXCEPT !.cards = @ \cup {c}, !.st[c] = to]
  /\ UNCHANGED <<plans, freed>> /\ OnlyBoard

\* move_card by the person.
MoveCard(c, to, ready) ==
  /\ Edit /\ c \in b.cards /\ b.st[c] # to
  /\ LET d == Undoable(SetStatus(b, c, to), c, "moved", b.st[c], to)
     IN /\ WakeAssignees(d, Woken(b, c, to) \cup (IF to = "Todo" THEN {c} ELSE {}), 0, ready)
        /\ FreedBy(d)
  /\ UNCHANGED born /\ OnlyBoard

\* The agent's move: closing is a proposal; nothing is woken.
AgentMoves(c, to) ==
  /\ Edit /\ c \in b.cards /\ b.st[c] # to
  /\ b' = IF to = "Closed" THEN [b EXCEPT !.props = @ \cup {[k |-> "move", c |-> c, m |-> Nobody]}]
          ELSE Undoable(SetStatus(b, c, to), c, "moved", b.st[c], to)
  /\ UNCHANGED <<born, plans, freed>> /\ OnlyBoard

\* delete_card: a run's card stays; nothing refers to a deleted card.
DeleteCard(c) ==
  /\ Edit /\ c \in b.cards /\ b.claim[c] \notin Run
  /\ b' = [WithoutQueued(b, {c}, Mate) EXCEPT
            !.cards = @ \ {c}, !.claim[c] = Free, !.pend = {p \in @ : p[1] # c}, !.props = {p \in @ : p.c # c},
            !.blk = [x \in Card |-> @[x] \ {c}],
            !.par = [x \in Card |-> IF @[x] = c THEN Nobody ELSE @[x]]]
  /\ UNCHANGED <<born, plans, freed>> /\ OnlyBoard

\* assign, by the person (depth 0) or by an agent whose run has some depth.
Assign(c, m, rule, deep, self, ready) ==
  /\ Edit /\ c \in b.cards
  /\ m = Nobody \/ m \in mates
  /\ b.who[c] # m \/ rule = "always"
  /\ LET d == IF b.who[c] = m THEN b ELSE Undoable(Assigned(b, c, m), c, "assigned", b.who[c], m)
     IN IF m = Nobody THEN b' = d /\ UNCHANGED plans
        ELSE /\ b' = Pended(d, c, m, rule, deep, self, ready)
             /\ plans' = plans \cup Planned(d, c, m, rule, deep, self, ready)
  /\ UNCHANGED <<born, freed>> /\ OnlyBoard

PersonAssigns(c, m, ready) == \E rule \in {"never", "always"} \cup (IF m = Nobody THEN {} ELSE {OnAssign(m)}) :
                              (rule = "always" => m # Nobody) /\ Assign(c, m, rule, 0, Free, ready)
AgentAssigns(c, m, actor, ready) == b.who[c] # m /\ Assign(c, m, OnAssign(m), IF actor = Free THEN 1 ELSE depth[actor] + 1, actor, ready)

\* comment with a mention of m.
Comment(c, m, ready) ==
  /\ Edit /\ c \in b.cards /\ m \in mates
  /\ b' = Pended(b, c, m, OnAssign(m), 0, Free, ready)
  /\ plans' = plans \cup Planned(b, c, m, OnAssign(m), 0, Free, ready)
  /\ UNCHANGED <<born, freed>> /\ OnlyBoard

\* start_run and an accepted pending start ask for the gate themselves.
StartRun(c) ==
  /\ Edit /\ c \in b.cards /\ b.who[c] # Nobody
  /\ plans' = plans \cup {[c |-> c, m |-> b.who[c], d |-> 0, asked |-> FALSE]}
  /\ UNCHANGED <<b, born, freed>> /\ OnlyBoard

ResolvePendingStart(p, accept) ==
  /\ Edit /\ p \in b.pend
  /\ IF accept THEN plans' = plans \cup {[c |-> p[1], m |-> p[2], d |-> 0, asked |-> TRUE]} /\ UNCHANGED b
     ELSE b' = [b EXCEPT !.pend = @ \ {p}] /\ UNCHANGED plans
  /\ UNCHANGED <<born, freed>> /\ OnlyBoard

\* claim_in and release_in; the person may release any claim.
ClaimCard(c) ==
  /\ Edit /\ c \in b.cards /\ b.st[c] # "Closed" /\ ~ClaimLive(b, c)
  /\ b' = Undoable([b EXCEPT !.claim[c] = Agent], c, "claimed", Nobody, Nobody)
  /\ UNCHANGED <<born, plans, freed>> /\ OnlyBoard

ReleaseClaim(c, person) ==
  /\ Edit /\ c \in b.cards /\ b.claim[c] # Free
  /\ person \/ b.claim[c] \in {Agent, Expired}
  /\ LET d == [b EXCEPT !.claim[c] = Free] IN b' = d /\ FreedBy(d)
  /\ UNCHANGED <<born, plans>> /\ OnlyBoard

\* apply_patch_in: blockers, and a parent that makes no cycle (validate_parent).
EditBlockers(c, S) ==
  /\ Edit /\ c \in b.cards /\ S \subseteq b.cards \ {c} /\ S # b.blk[c]
  /\ b' = [b EXCEPT !.blk[c] = S, !.blkUndo[c] = @ \cup {b.blk[c]}]
  /\ UNCHANGED <<born, plans, freed>> /\ OnlyBoard

RECURSIVE Ancestors(_, _)
Ancestors(d, c) == IF d.par[c] = Nobody THEN {} ELSE {d.par[c]} \cup Ancestors(d, d.par[c])

ParentOK(d, c, p) == p = Nobody \/ (p \in d.cards /\ p # c /\ c \notin Ancestors(d, p))

EditParent(c, p) ==
  /\ Edit /\ c \in b.cards /\ p # b.par[c] /\ ParentOK(b, c, p)
  /\ b' = Undoable([b EXCEPT !.par[c] = p], c, "parent", b.par[c], p)
  /\ UNCHANGED <<born, plans, freed>> /\ OnlyBoard

\* undo_in: only while the card still shows the change, and never to a deleted card.
UndoneDoc(d, c, u) ==
  CASE u.k = "moved"    -> SetStatus(d, c, u.from)
    [] u.k = "assigned" -> [d EXCEPT !.who[c] = u.from]
    [] u.k = "claimed"  -> [d EXCEPT !.claim[c] = Free]
    [] u.k = "parent"   -> [d EXCEPT !.par[c] = IF u.from \in d.cards THEN u.from ELSE Nobody]

CanUndo(d, c, u) ==
  CASE u.k = "moved"    -> d.st[c] = u.to
    [] u.k = "assigned" -> d.who[c] = u.to
    [] u.k = "claimed"  -> d.claim[c] \in {Agent, Expired}
    [] u.k = "parent"   -> ParentOK(d, c, IF u.from \in d.cards THEN u.from ELSE Nobody)

UndoChange(c, u) ==
  /\ Edit /\ c \in b.cards /\ u \in b.undo[c] /\ CanUndo(b, c, u)
  /\ LET d == [UndoneDoc(b, c, u) EXCEPT !.undo[c] = @ \ {u}] IN b' = d /\ FreedBy(d)
  /\ UNCHANGED <<born, plans>> /\ OnlyBoard

UndoBlockers(c, S) ==
  /\ Edit /\ c \in b.cards /\ S \in b.blkUndo[c]
  /\ b' = [b EXCEPT !.blk[c] = S \cap b.cards, !.blkUndo[c] = @ \ {S}]
  /\ UNCHANGED <<born, plans, freed>> /\ OnlyBoard

\* propose_in (proposal mode) and resolve_proposal.
Propose(c, m) ==
  /\ Edit /\ c \in b.cards /\ m \in mates
  /\ b' = [b EXCEPT !.props = @ \cup {[k |-> "assign", c |-> c, m |-> m]}]
  /\ UNCHANGED <<born, plans, freed>> /\ OnlyBoard

ResolveProposal(p, accept, ready) ==
  /\ Edit /\ p \in b.props
  /\ LET rest == [b EXCEPT !.props = @ \ {p}]
         closed == SetStatus(rest, p.c, "Closed")
         given == Assigned(rest, p.c, p.m)
     IN IF ~accept THEN b' = rest /\ UNCHANGED <<plans, freed>>
        ELSE IF p.k = "move" THEN WakeAssignees(closed, Woken(rest, p.c, "Closed"), 0, ready) /\ FreedBy(closed)
        ELSE /\ p.m \in mates /\ UNCHANGED freed
             /\ IF b.who[p.c] = p.m THEN b' = given /\ UNCHANGED plans
                ELSE /\ b' = Pended(given, p.c, p.m, OnAssign(p.m), 0, Free, ready)
                     /\ plans' = plans \cup Planned(given, p.c, p.m, OnAssign(p.m), 0, Free, ready)
  /\ UNCHANGED born /\ OnlyBoard

SetEnabled ==
  /\ edits < MaxEdit /\ edits' = edits + 1
  /\ b' = [b EXCEPT !.enabled = ~@]
  /\ UNCHANGED <<born, plans, freed>> /\ OnlyBoard

\* teammates_api: disabling forgets its queued starts, deleting all it was given.
DisableTeammate(m) ==
  /\ edits < MaxEdit /\ edits' = edits + 1 /\ m \in mates
  /\ mates' = mates \ {m}
  /\ \/ b' = WithoutQueued(b, Card, {m})
     \/ b' = [WithoutQueued(b, Card, {m}) EXCEPT
               !.pend = {p \in @ : p[2] # m}, !.who = [c \in Card |-> IF @[c] = m THEN Nobody ELSE @[c]]]
  /\ UNCHANGED <<born, plans, freed, runs, gate, engine, known, swept, records, faults>>

Commands ==
  \/ \E c \in Card, to \in Status : CreateCard(c, to) \/ AgentMoves(c, to) \/ \E ready \in BOOLEAN : MoveCard(c, to, ready)
  \/ \E c \in Card : DeleteCard(c) \/ StartRun(c) \/ ClaimCard(c) \/ \E person \in BOOLEAN : ReleaseClaim(c, person)
  \/ \E c \in Card, m \in Mate \cup {Nobody}, ready \in BOOLEAN : PersonAssigns(c, m, ready)
  \/ \E c \in Card, m \in Mate, ready \in BOOLEAN :
       Comment(c, m, ready) \/ Propose(c, m) \/ \E actor \in Active \cup {Free} : AgentAssigns(c, m, actor, ready)
  \/ \E p \in b.pend, accept \in BOOLEAN : ResolvePendingStart(p, accept)
  \/ \E c \in Card : (\E S \in SUBSET Card : EditBlockers(c, S) \/ UndoBlockers(c, S))
                     \/ (\E p \in Card \cup {Nobody} : EditParent(c, p)) \/ (\E u \in b.undo[c] : UndoChange(c, u))
  \/ \E p \in b.props, accept, ready \in BOOLEAN : ResolveProposal(p, accept, ready)
  \/ SetEnabled \/ \E m \in Mate : DisableTeammate(m)

-----------------------------------------------------------------------------
(* start_card_run, with start_gate held from the checks to the run's creation. *)

Capacity(m) == Cardinality(Active) < Limit /\ Cardinality({r \in Active : by[r] = m}) < MateLimit
Refused(p) ==
  p.m \notin mates \/ p.d > MaxDepth \/ ~b.enabled \/ p.c \notin b.cards \/ b.st[p.c] = "Closed" \/ ClaimLive(b, p.c)

Unasked(d, p) == IF p.asked THEN [d EXCEPT !.pend = @ \ {<<p.c, p.m>>}] ELSE d
Dequeued(d, c) == WithoutQueued(d, {c}, Mate)

\* A plan asks for the gate; with no run engine, or refused, it ends here.
StartChecks(p) ==
  /\ p \in plans /\ gate = NoGate
  /\ plans' = plans \ {p}
  /\ gate' = IF Refused(p) THEN NoGate ELSE [pc |-> IF Capacity(p.m) THEN "room" ELSE "full", plan |-> p]
  /\ UNCHANGED <<b, mates, born, runs, engine, known, ghosts, edits, faults>>

StartUnavailable(p) ==
  /\ p \in plans /\ gate = NoGate
  /\ plans' = plans \ {p}
  /\ UNCHANGED <<b, mates, born, runs, gate, engine, known, ghosts, edits, faults>>

\* The gate goes back to the drain that holds it, or is free.
GateBack == gate' = IF engine.pc = "draining" THEN [pc |-> "drain"] ELSE NoGate

\* enqueue: a card waits once.
Enqueued(d, p) ==
  IF \E i \in DOMAIN d.queue : d.queue[i].c = p.c /\ d.queue[i].m = p.m THEN d
  ELSE [d EXCEPT !.queue = Append(SelectSeq(@, LAMBDA q : q.c # p.c), [c |-> p.c, m |-> p.m, d |-> p.d])]

StartQueues ==
  /\ gate.pc = "full" /\ GateBack
  /\ LET p == gate.plan
     IN \/ b.enabled /\ p.c \in b.cards /\ b' = Unasked(Enqueued(b, p), p) /\ UNCHANGED faults
        \/ /\ IF b.enabled /\ p.c \in b.cards THEN Fault ELSE UNCHANGED faults
           /\ b' = IF engine.pc = "draining" THEN Dequeued(b, p.c) ELSE b
  /\ UNCHANGED <<mates, born, runs, plans, engine, known, ghosts, edits>>

\* One generation: claim, inProgress, link, and no waiting start left.  Past
\* MaxRun every start fails as one whose run is not created.
Claimed(p, r) ==
  [SetStatus(b, p.c, "InProgress") EXCEPT
    !.claim[p.c] = r, !.links[p.c] = @ \cup {r}, !.pend = {q \in @ : q[1] # p.c},
    !.queue = SelectSeq(@, LAMBDA q : q.c # p.c)]

StillFree(p) == b.enabled /\ p.c \in b.cards /\ b.st[p.c] # "Closed" /\ ~ClaimLive(b, p.c)

StartClaims ==
  /\ gate.pc = "room"
  /\ LET p == gate.plan  r == minted + 1
     IN \/ /\ StillFree(p) /\ minted < MaxRun
           /\ b' = Claimed(p, r)
           /\ minted' = r /\ of' = [of EXCEPT ![r] = p.c] /\ by' = [by EXCEPT ![r] = p.m]
           /\ depth' = [depth EXCEPT ![r] = p.d] /\ run' = [run EXCEPT ![r] = "minted"]
           /\ gate' = [pc |-> "claimed", plan |-> p, r |-> r, prev |-> b.st[p.c]]
           /\ UNCHANGED faults
        \/ /\ IF StillFree(p) /\ minted < MaxRun THEN Fault ELSE UNCHANGED faults
           /\ b' = IF engine.pc = "draining" THEN Dequeued(b, p.c) ELSE b
           /\ GateBack /\ UNCHANGED runs
  /\ UNCHANGED <<mates, born, plans, engine, known, ghosts, edits>>

\* create_board_run, and what an accepted request does next.
RunCreated ==
  /\ gate.pc = "claimed" /\ gate.plan.m \in mates
  /\ run' = [run EXCEPT ![gate.r] = "active"]
  /\ GateBack
  /\ UNCHANGED <<b, mates, born, of, by, depth, minted, plans, engine, known, ghosts, edits, faults>>


RolledBack(d, c, r, prev) ==
  IF c \notin d.cards THEN d
  ELSE [d EXCEPT !.claim[c] = IF @ = r THEN Free ELSE @, !.links[c] = @ \ {r},
                 !.st[c] = IF @ = "InProgress" /\ prev # "InProgress" THEN prev ELSE @]

RunNotCreated ==
  /\ gate.pc = "claimed"
  /\ run' = [run EXCEPT ![gate.r] = "none"]
  /\ LET d == RolledBack(b, gate.plan.c, gate.r, gate.prev)
     IN \/ b' = (IF engine.pc = "draining" THEN Dequeued(d, gate.plan.c) ELSE d) /\ UNCHANGED faults
        \/ UNCHANGED b /\ Fault
  /\ GateBack
  /\ UNCHANGED <<mates, born, of, by, depth, minted, plans, engine, known, ghosts, edits>>

\* The orchestration ends a run; leases run out.
RunEnds(r, how) ==
  /\ r \in Active /\ run' = [run EXCEPT ![r] = how]
  /\ UNCHANGED <<b, mates, born, of, by, depth, minted, plans, gate, engine, known, ghosts, edits, faults>>

\* push_activity keeps MAX_ACTIVITY_PER_CARD entries: the record of a cancelled
\* run, which leaves no comment, is the one a long history forgets.
ActivityTrimmed(c, r) ==
  /\ r \in b.ended[c] /\ run[r] = "cancelled" /\ b' = [b EXCEPT !.ended[c] = @ \ {r}]
  /\ UNCHANGED <<mates, born, runs, plans, gate, engine, known, ghosts, edits, faults>>

LeaseExpires(c) ==
  /\ b.claim[c] = Agent /\ b' = [b EXCEPT !.claim[c] = Expired]
  /\ UNCHANGED <<mates, born, runs, plans, gate, engine, known, ghosts, edits, faults>>

-----------------------------------------------------------------------------
(* The engine: BoardRunEngine. *)

\* observe: runs that ended since the last look.
Observes ==
  /\ engine = Idle /\ Ended \ known # {}
  /\ engine' = [pc |-> "finishing", todo |-> Ended \ known]
  /\ known' = known \cup Ended
  /\ UNCHANGED <<b, mates, born, runs, plans, gate, ghosts, edits, faults>>

\* needs_run_end and finish_run: the end is recorded once, the claim released
\* and the card moved while the run still held it.
NeedsEnd(d, c, r) == c \in d.cards /\ (d.claim[c] = r \/ (r \in d.links[c] /\ r \notin d.ended[c]))

EndStatus(c, r) ==
  IF b.claim[c] # r \/ b.st[c] = "Closed" \/ run[r] = "cancelled" THEN b.st[c]
  ELSE IF run[r] = "succeeded" THEN "InReview" ELSE "Blocked"

EndDoc(c, r) ==
  [b EXCEPT !.claim[c] = IF @ = r THEN Free ELSE @, !.ended[c] = @ \cup {r},
            !.st[c] = IF r \in b.ended[c] THEN @ ELSE EndStatus(c, r)]

Finishes(r) ==
  /\ engine.pc = "finishing" /\ r \in engine.todo
  /\ engine' = [engine EXCEPT !.todo = @ \ {r}]
  /\ LET c == of[r]
     IN \/ /\ NeedsEnd(b, c, r)
           /\ b' = EndDoc(c, r)
           /\ records' = [records EXCEPT ![r] = IF r \in b.ended[c] \/ @ = 2 THEN @ ELSE @ + 1]
           /\ UNCHANGED faults
        \/ NeedsEnd(b, c, r) /\ Fault /\ UNCHANGED <<b, records>>
        \/ ~NeedsEnd(b, c, r) /\ UNCHANGED <<b, records, faults>>
  /\ UNCHANGED <<mates, born, runs, plans, gate, known, freed, swept, edits>>

FinishesAll ==
  /\ engine.pc = "finishing" /\ engine.todo = {}
  /\ engine' = [pc |-> "drain"]
  /\ UNCHANGED <<b, mates, born, runs, plans, gate, known, ghosts, edits, faults>>

\* queued_starts: priority, then age.
InOrder(queue) ==
  SelectSeq(queue, LAMBDA q : q.c \in Urgent) \o SelectSeq(queue, LAMBDA q : q.c \notin Urgent)

DrainBegins ==
  /\ engine.pc = "drain"
  /\ IF b.queue = <<>> THEN engine' = Idle /\ UNCHANGED gate
     ELSE /\ gate = NoGate /\ gate' = [pc |-> "drain"]
          /\ engine' = [pc |-> "draining", list |-> InOrder(b.queue)]
  /\ UNCHANGED <<b, mates, born, runs, plans, known, ghosts, edits, faults>>

Applies(q) == b.enabled /\ q.c \in b.cards /\ b.who[q.c] = q.m /\ b.st[q.c] \in Startable /\ q.m \in mates

DrainNext ==
  /\ engine.pc = "draining" /\ gate.pc = "drain" /\ engine.list # <<>>
  /\ LET q == Head(engine.list)
         p == [c |-> q.c, m |-> q.m, d |-> q.d, asked |-> FALSE]
         listed == \E i \in DOMAIN b.queue : b.queue[i].c = q.c /\ b.queue[i].m = q.m
     IN IF ~listed THEN UNCHANGED <<b, gate>>
        ELSE IF ~Applies(q) \/ Refused(p) THEN b' = Dequeued(b, q.c) /\ UNCHANGED gate
        ELSE gate' = [pc |-> IF Capacity(q.m) THEN "room" ELSE "full", plan |-> p] /\ UNCHANGED b
  /\ engine' = [engine EXCEPT !.list = Tail(@)]
  /\ UNCHANGED <<mates, born, runs, plans, known, ghosts, edits, faults>>

DrainEnds ==
  /\ engine.pc = "draining" /\ gate.pc = "drain" /\ engine.list = <<>>
  /\ engine' = Idle /\ gate' = NoGate
  /\ UNCHANGED <<b, mates, born, runs, plans, known, ghosts, edits, faults>>

\* sweep: the active runs are read first, the claims looked at later.
SweepBegins ==
  /\ engine = Idle
  /\ engine' = [pc |-> "sweeping", active |-> Active]
  /\ UNCHANGED <<b, mates, born, runs, plans, gate, known, ghosts, edits, faults>>

Stale(c) == b.claim[c] = Expired \/ (b.claim[c] \in Run /\ b.claim[c] \notin engine.active)

SweepClaims ==
  /\ engine.pc = "sweeping"
  /\ b' = [b EXCEPT !.claim = [c \in Card |-> IF Stale(c) THEN Free ELSE @[c]]]
  /\ swept' = swept \cup {b.claim[c] : c \in {x \in Card : Stale(x) /\ b.claim[x] \in Run /\ run[b.claim[x]] \in {"minted", "active"}}}
  /\ engine' = [pc |-> "drain"]
  /\ UNCHANGED <<mates, born, runs, plans, gate, known, freed, records, edits, faults>>

\* A restart loses the tasks; the first observation reports every ended run.
Restart ==
  /\ Fault
  /\ plans' = {} /\ gate' = NoGate
  /\ run' = [r \in Run |-> IF run[r] = "minted" THEN "none" ELSE run[r]]
  /\ engine' = [pc |-> "finishing", todo |-> Ended] /\ known' = Ended
  /\ UNCHANGED <<b, mates, born, of, by, depth, minted, ghosts, edits>>

-----------------------------------------------------------------------------
\* A board someone has worked on: cards assigned or not, one blocked by the
\* others, or blocked by them once and an undo away from it.
Init ==
  /\ \E first \in (SUBSET Card) \ {{}}, m \in Mate \cup {Nobody} : \E x \in first, S, once \in SUBSET first :
       /\ x \notin S \cup once /\ (S = {} \/ once = {})
       /\ b = [enabled |-> TRUE, cards |-> first,
               st |-> [c \in Card |-> IF c = x /\ S # {} THEN "Blocked" ELSE "Todo"],
               who |-> [c \in Card |-> IF c \in first THEN m ELSE Nobody], claim |-> [c \in Card |-> Free],
               blk |-> [c \in Card |-> IF c = x THEN S ELSE {}], par |-> [c \in Card |-> Nobody],
               links |-> [c \in Card |-> {}], ended |-> [c \in Card |-> {}], pend |-> {}, queue |-> <<>>,
               undo |-> [c \in Card |-> {}],
               blkUndo |-> [c \in Card |-> IF c = x /\ once # {} THEN {once} ELSE {}], props |-> {}]
  /\ mates = Mate /\ born = b.cards
  /\ run = [r \in Run |-> "none"] /\ of = [r \in Run |-> Nobody] /\ by = [r \in Run |-> Nobody]
  /\ depth = [r \in Run |-> 0] /\ minted = 0
  /\ plans = {} /\ gate = NoGate /\ engine = [pc |-> "finishing", todo |-> {}] /\ known = {}
  /\ freed = {} /\ swept = {} /\ records = [r \in Run |-> 0] /\ edits = 0 /\ faults = 0

Starts == (\E p \in plans : StartChecks(p)) \/ StartQueues \/ StartClaims \/ RunCreated \/ RunNotCreated
Engine == Observes \/ (\E r \in Run : Finishes(r)) \/ FinishesAll \/ DrainBegins \/ DrainNext \/ DrainEnds
          \/ SweepClaims
Environment ==
  \/ \E r \in Run, how \in {"succeeded", "failed", "cancelled"} : RunEnds(r, how)
  \/ \E c \in Card : LeaseExpires(c) \/ \E r \in Run : ActivityTrimmed(c, r)
  \/ \E p \in plans : StartUnavailable(p)

Next == Commands \/ Starts \/ Engine \/ SweepBegins \/ Environment \/ Restart

Spec == Init /\ [][Next]_vars

-----------------------------------------------------------------------------
Lost == freed \cup swept

\* A run keeps its card: from the generation that starts it to the record of
\* its end it holds the card's claim, so a card has one run at a time, unless
\* a person took the card back or a sweep that began before the start did.
RunHoldsCard ==
  \A r \in Run \ Lost : run[r] \in {"minted", "active"} => of[r] \in b.cards /\ b.claim[of[r]] = r

\* A claim names a run that exists or is being created, or will be swept: a
\* rolled back or finished run leaves no claim behind unless a write failed.
ClaimsAreReal ==
  faults = 0 => \A c \in b.cards : b.claim[c] \in Run => run[b.claim[c]] # "none"

\* A closed card is claimed by nobody (set_status_in, claim_in, start).
ClosedIsFree == \A c \in b.cards : b.st[c] = "Closed" => b.claim[c] = Free

\* start_gate makes the capacity check and the creation of the run agree.
LimitRespected ==
  Cardinality(Active) <= Limit /\ \A m \in Mate : Cardinality({r \in Active : by[r] = m}) <= MateLimit

\* Nothing on the board refers to a deleted card, also after an undo, and
\* parents form no cycle.
NoDangling ==
  /\ \A c \in b.cards : b.blk[c] \subseteq b.cards /\ b.par[c] \in b.cards \cup {Nobody}
  /\ \A c \in b.cards : c \notin Ancestors(b, c)
  /\ \A p \in b.pend : p[1] \in b.cards
  /\ \A i \in DOMAIN b.queue : b.queue[i].c \in b.cards
  /\ \A i, j \in DOMAIN b.queue : b.queue[i].c = b.queue[j].c => i = j

\* The end of a run is recorded on its card at most once, across restarts, as
\* long as the card's bounded history keeps the record.
EndRecordedOnce == \A r \in Run : records[r] > 1 => run[r] = "cancelled"


=============================================================================
