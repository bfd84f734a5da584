------------------------------ MODULE Triggers ------------------------------
(***************************************************************************)
(* Event automations, orchestration_triggers.rs: the engine that observes  *)
(* committed generations and changed files of one project, decides which   *)
(* rules fire, and claims each firing (claim_event_in of                   *)
(* orchestration_api.rs).  Rules of FileRule wait for changed files, rules *)
(* of EndRule for the end of a run of their source command.  A run is the  *)
(* position of its record in runs; a change of files by 0 is a person's.   *)
(***************************************************************************)
EXTENDS Naturals, Sequences, FiniteSets, FiniteSetsExt

CONSTANTS
  FileRule, EndRule, Command,
  Target,       \* the launch command a rule starts
  Source,       \* the launch command an EndRule waits for
  MaxDepth,     \* MAX_TRIGGER_CHAIN_DEPTH
  Cooldown, SelfGrace, Attribution, \* EVENT_COOLDOWN_SECONDS and the two graces
  Debounce, Longest, \* quiet period of a file rule and its bound
  MaxTime, MaxRun, MaxEvent  \* bounds: clock, runs, user commands and restarts

Rule == FileRule \cup EndRule
Runs == 1..MaxRun
Unset == MaxTime + 100
Never == [first |-> Unset, last |-> Unset, by |-> {}, held |-> FALSE]

VARIABLES
  now,
  paused, rules, runs,   \* the committed generation
  fresh,     \* the engine's commits channel has an unseen generation
  core,      \* TriggerCore
  batches,   \* change batches in the engine's channel: who changed the files
  firings,   \* firings still to be claimed
  events,
  late,      \* a batch waited while the engine waited for the operation gate
  owed       \* ends of runs a rule must record, while this host runs

vars == <<now, paused, rules, runs, fresh, core, batches, firings, events, late, owed>>
store == <<paused, rules, runs>>

Entry(trig, before) == [trig |-> trig, before |-> before, burst |-> Never]
NoEntry == Entry(Unset, 0)

\* Every variable has its type; no run is deeper than the limit.
TypeOK ==
  /\ now \in 0..MaxTime /\ paused \in BOOLEAN /\ fresh \in BOOLEAN /\ late \in BOOLEAN
  /\ \A r \in Rule : /\ rules[r].on \in BOOLEAN /\ rules[r].trig \in 0..MaxEvent
                     /\ rules[r].seen \subseteq [trig : 0..MaxEvent, cause : 0..Unset]
                     /\ {rules[r].last, rules[r].started} \subseteq 0..MaxTime \cup {Unset}
  /\ Len(runs) <= MaxRun
  /\ \A i \in 1..Len(runs) : /\ runs[i].of \in Rule /\ runs[i].cmd \in Command
                             /\ runs[i].depth \in 0..MaxDepth /\ runs[i].live \in BOOLEAN
  /\ core.known \in [Runs -> {"none", "active", "done"}] /\ core.ended \in [Runs -> 0..MaxTime \cup {Unset}]
  /\ \A r \in FileRule : core.rule[r].before \in 0..(MaxTime + Cooldown)
  /\ batches \subseteq 0..MaxRun

\* The rules of a new core: sync_rules with nothing known before.
Synced(old) ==
  [r \in FileRule |->
     LET until == IF rules[r].last = Unset THEN 0 ELSE rules[r].last + Cooldown
     IN IF ~rules[r].on THEN NoEntry
        ELSE IF old[r].trig = rules[r].trig
          THEN [old[r] EXCEPT !.before = Max({@, until})]
        ELSE Entry(rules[r].trig, IF until > now THEN until ELSE 0)]
KnownOf(rs) == [i \in Runs |-> IF i > Len(rs) THEN "none" ELSE IF rs[i].live THEN "active" ELSE "done"]
NewCore ==
  [paused |-> paused, known |-> KnownOf(runs), ended |-> [i \in Runs |-> Unset],
   rule |-> Synced([r \in FileRule |-> NoEntry])]

\* Enabled rules and one run, of any depth, a rule has just started.
Init ==
  /\ now = 0 /\ paused = FALSE /\ fresh = FALSE
  /\ \E s \in Rule, depth \in 1..MaxDepth :
       /\ rules = [r \in Rule |-> [on |-> TRUE, trig |-> 0, seen |-> IF r = s THEN {[trig |-> 0, cause |-> 0]} ELSE {},
                                  last |-> IF r = s THEN 0 ELSE Unset, started |-> IF r = s THEN 0 ELSE Unset]]
       /\ runs = <<[of |-> s, cmd |-> Target[s], depth |-> depth, live |-> TRUE, cause |-> 0, trig |-> 0, at |-> 0, by |-> {}, held |-> FALSE]>>
  /\ core = NewCore /\ batches = {} /\ firings = {} /\ events = 0 /\ late = FALSE /\ owed = {}
-----------------------------------------------------------------------------
(* The engine.                                                             *)

Looping == firings = {}

\* recent: runs seen active, and runs whose end was seen.
Recent(i) == core.known[i] = "active" \/ core.ended[i] # Unset
\* Mutant: the changes of a run that has ended are not its own.
OwnWhileActive(r) == \E i \in 1..Len(runs) : runs[i].of = r /\ core.known[i] = "active"
OwnRunRecent(r) ==
  \E i \in 1..Len(runs) :
    /\ runs[i].of = r /\ Recent(i)
    /\ core.known[i] = "active" \/ now < core.ended[i] + SelfGrace

\* finished_firings of the runs whose end is news.
Ended == {i \in 1..Len(runs) : ~runs[i].live /\ core.known[i] # "done"}
NewlyFinished == Ended
Finished ==
  {[rule |-> r, trig |-> rules[r].trig, cause |-> i, depth |-> runs[i].depth + 1, by |-> {i}, held |-> FALSE] :
     r \in {r \in EndRule : rules[r].on}, i \in NewlyFinished}
\* observe, then the watches are reconciled.
Observe ==
  /\ Looping /\ fresh /\ fresh' = FALSE
  /\ core' = [paused |-> paused, known |-> KnownOf(runs),
              ended |-> [i \in Runs |-> IF i \in Ended THEN now ELSE IF i <= Len(runs) /\ runs[i].live THEN Unset ELSE core.ended[i]],
              rule |-> [r \in FileRule |-> LET e == Synced(core.rule)[r] IN [e EXCEPT !.burst.held = (@ \/ (paused /\ e.burst # Never))]]]
  /\ firings' = {f \in Finished : Source[f.rule] = runs[f.cause].cmd}
  /\ UNCHANGED <<now, store, batches, events, late, owed>>

\* file_changes: the rules whose own run made no recent changes note the batch.
Noted(r, c) ==
  LET b == core.rule[r].burst
  IN [core.rule[r] EXCEPT !.burst =
        [first |-> IF b = Never THEN now ELSE b.first, last |-> now, by |-> b.by \cup {c}, held |-> b.held]]
TakeBatch(c) ==
  /\ Looping /\ c \in batches /\ batches' = batches \ {c}
  /\ core' = IF core.paused THEN core
             ELSE [core EXCEPT !.rule = [r \in FileRule |->
                     IF core.rule[r] = NoEntry \/ core.rule[r].trig = Unset \/ OwnRunRecent(r) THEN @[r] ELSE Noted(r, c)]]
  /\ UNCHANGED <<now, store, fresh, firings, events, late, owed>>

DepthOf(b) ==
  LET near == {i \in 1..Len(runs) : Recent(i) /\ (core.known[i] = "active" \/ core.ended[i] + Attribution >= b.first)}
  IN IF near = {} THEN 1 ELSE Max({runs[i].depth : i \in near}) + 1
DueAt(r) ==
  LET b == core.rule[r].burst
  IN IF b = Never THEN Unset ELSE Max({Min({b.last + Debounce, b.first + Longest}), core.rule[r].before})
\* due: the bursts whose quiet period and cooldown have passed.
Timer ==
  LET dues == {r \in FileRule : DueAt(r) <= now}
  IN /\ Looping /\ ~core.paused /\ dues # {}
     /\ core' = [core EXCEPT !.rule = [r \in FileRule |->
                   IF r \in dues THEN [@[r] EXCEPT !.burst = Never, !.before = now + Cooldown] ELSE @[r]]]
     /\ firings' = {[rule |-> r, trig |-> core.rule[r].trig, cause |-> core.rule[r].burst.last,
                     depth |-> DepthOf(core.rule[r].burst), by |-> core.rule[r].burst.by, held |-> core.rule[r].burst.held] :
                      r \in {r \in dues : ~OwnRunRecent(r)}}
     /\ UNCHANGED <<now, store, fresh, batches, events, late, owed>>
\* due during a pause: the timer of an idle engine runs out after an hour.
IdleTimer ==
  /\ Looping /\ core.paused /\ \E r \in FileRule : core.rule[r].burst # Never
  /\ core' = [core EXCEPT !.rule = [r \in FileRule |-> [@[r] EXCEPT !.burst = Never]]]
  /\ UNCHANGED <<now, store, fresh, batches, firings, events, late, owed>>

Cooling(r) == rules[r].started # Unset /\ now < rules[r].started + Cooldown
Overlaps(r) == \E i \in 1..Len(runs) : runs[i].of = r /\ runs[i].live
Starts(f, admitted) ==
  ~paused /\ f.depth <= MaxDepth /\ admitted /\ ~Cooling(f.rule) /\ ~Overlaps(f.rule)
Fire(f) ==
  LET r == f.rule
      key == [trig |-> f.trig, cause |-> f.cause]
      stale == ~rules[r].on \/ rules[r].trig # f.trig
      known == key \in rules[r].seen \/ \E i \in 1..Len(runs) : runs[i].of = r /\ runs[i].trig = f.trig /\ runs[i].cause = f.cause
  IN /\ f \in firings /\ firings' = firings \ {f}
     /\ IF stale \/ known THEN UNCHANGED <<rules, runs, fresh>>
        ELSE \E admitted \in BOOLEAN :
               LET start == Starts(f, admitted)
               IN /\ start => Len(runs) < MaxRun
                  /\ runs' = IF start
                             THEN Append(runs, [of |-> r, cmd |-> Target[r], depth |-> f.depth, live |-> TRUE, cause |-> f.cause,
                                                trig |-> f.trig, at |-> now, by |-> f.by, held |-> f.held])
                             ELSE runs
                  /\ rules' = [rules EXCEPT ![r] = [@ EXCEPT !.seen = @ \cup {key}, !.last = now,
                                                       !.started = IF start THEN now ELSE @]]
                  /\ fresh' = TRUE
     /\ owed' = owed \ {<<r, f.trig, f.cause>>}
     /\ UNCHANGED <<now, paused, core, batches, events, late>>
-----------------------------------------------------------------------------
(* Runs, files, people and time.                                           *)

RunEnds(i) ==
  /\ i \in 1..Len(runs) /\ runs[i].live /\ runs' = [runs EXCEPT ![i].live = FALSE] /\ fresh' = TRUE
  /\ owed' = owed \cup {<<r, rules[r].trig, i>> : r \in {r \in EndRule : rules[r].on /\ Source[r] = runs[i].cmd
                                                        /\ [trig |-> rules[r].trig, cause |-> i] \notin rules[r].seen}}
  /\ UNCHANGED <<now, paused, rules, core, batches, firings, events, late>>

Acts == events < MaxEvent /\ events' = events + 1
\* A step is repeated, which opens the finished run again.
Repeat(i) ==
  /\ Acts /\ i \in 1..Len(runs) /\ ~runs[i].live /\ runs' = [runs EXCEPT ![i].live = TRUE] /\ fresh' = TRUE
  /\ owed' = {o \in owed : o[3] # i}
  /\ UNCHANGED <<now, paused, rules, core, batches, firings, late>>
\* A changed rule, or a rule whose launch command changed, starts over disabled.
Edit(r) ==
  /\ Acts /\ rules' = [rules EXCEPT ![r].on = FALSE, ![r].trig = @ + 1] /\ fresh' = TRUE
  /\ owed' = {o \in owed : o[1] # r}
  /\ UNCHANGED <<now, paused, runs, core, batches, firings, late>>
Enable(r) ==
  /\ ~rules[r].on /\ rules' = [rules EXCEPT ![r].on = TRUE] /\ fresh' = TRUE
  /\ UNCHANGED <<now, paused, runs, core, batches, firings, events, late, owed>>
Pause ==
  /\ Acts /\ ~paused /\ paused' = TRUE /\ fresh' = TRUE
  /\ UNCHANGED <<now, rules, runs, core, batches, firings, late, owed>>
Resume ==
  /\ paused /\ paused' = FALSE /\ fresh' = TRUE
  /\ UNCHANGED <<now, rules, runs, core, batches, firings, events, late, owed>>
Restart ==
  /\ Acts /\ core' = NewCore /\ fresh' = FALSE /\ batches' = {} /\ firings' = {} /\ owed' = {}
  /\ UNCHANGED <<now, store, late>>

\* A person or a working run changes files that a rule matches, in a watched
\* folder.  The watcher holds a batch back, so an idle engine has seen the
\* commits before it.
Change(c) ==
  /\ c \in 0..Len(runs) /\ (c > 0 => runs[c].live)
  /\ ~core.paused /\ \E r \in FileRule : core.rule[r].trig # Unset
  /\ fresh => ~Looping
  /\ batches' = batches \cup {c} /\ batches' # batches
  /\ late' = (late \/ fresh)
  /\ UNCHANGED <<now, store, fresh, core, firings, events, owed>>

\* The engine handles what is ready at once, unless a claim waits for the gate.
Ready == fresh \/ batches # {} \/ (~core.paused /\ \E r \in FileRule : DueAt(r) <= now)
Tick ==
  /\ now < MaxTime /\ (Ready => ~Looping) /\ now' = now + 1
  /\ late' = (late \/ Ready)
  /\ UNCHANGED <<store, fresh, core, batches, firings, events, owed>>

Next ==
  \/ Observe \/ (\E c \in batches : TakeBatch(c)) \/ Timer \/ IdleTimer \/ (\E f \in firings : Fire(f))
  \/ \E i \in Runs : RunEnds(i) \/ Repeat(i)
  \/ \E r \in Rule : Edit(r) \/ Enable(r)
  \/ Pause \/ Resume \/ Restart \/ (\E c \in 0..MaxRun : Change(c)) \/ Tick
Spec == Init /\ [][Next]_vars
-----------------------------------------------------------------------------
\* Loop protection, first layer: a rule is never started by file changes of a
\* run it started itself, although the engine learns of runs and of changes
\* through two channels and judges both when the burst is over.
NoSelfFire ==
  late \/ \A i \in 1..Len(runs) : runs[i].of \in FileRule =>
            \A c \in runs[i].by : c > 0 => runs[c].of # runs[i].of

\* Second layer: a run is deeper than every run that caused it, so a chain of
\* causes is never longer than the recorded depth says.
ChainCovers == late \/ \A i \in 1..Len(runs) : \A c \in runs[i].by : c > 0 => runs[i].depth > runs[c].depth

\* Third layer: one rule starts at most one run per cooldown, across edits,
\* pauses and restarts.
CooldownHolds ==
  \A i, j \in 1..Len(runs) : i < j /\ runs[i].of = runs[j].of => runs[j].at >= runs[i].at + Cooldown

\* An engine at rest has recorded the end of every run for every rule that
\* waited for it.
EndsRecorded == Looping /\ ~fresh => owed = {}

=============================================================================
