---------------------------- MODULE Automations ----------------------------
(***************************************************************************)
(* Timed automations: the worker of orchestration_scheduler.rs that wakes  *)
(* for due schedules, claim_due_schedule of orchestration_api.rs, the      *)
(* commands that save, enable and delete schedules, save launch commands   *)
(* and pause everything, and restarts of the application.  Time is counted *)
(* in instants; a schedule runs once or at a fixed interval.               *)
(***************************************************************************)
EXTENDS Naturals, Sequences, FiniteSets, SequencesExt

CONSTANTS
  Sched, Command,
  Target,    \* the launch command each schedule starts
  Anchor,    \* its first due time
  Every,     \* its interval, 0 for a schedule that runs once
  SkipsMissed, SkipsOverlap, \* the schedules with those policies
  Begun,     \* the schedules whose first run has started and goes on
  MaxOcc,    \* MAX_STORED_OCCURRENCES
  MaxTime, MaxRev, MaxEvent  \* bounds: clock, revisions, pauses and restarts

Never == MaxTime + 100

VARIABLES
  now,
  up,       \* PiUI runs
  since,    \* missed_boundary: the host start or the last resume
  paused,   \* automations_paused, durable
  cmd,      \* revision of each launch command
  sched,    \* the stored schedules
  runs,     \* the runs schedules started
  worker,   \* timed_schedule_loop
  permit,   \* the Notify permit of timed_wake
  user,     \* the command that holds the operation gate
  events,
  blocked,  \* instants that came while PiUI was closed or paused
  raced,    \* the worker read the boundary of a pause that was not over
  stalled   \* why a claim failed that wakes nobody: a failed write or a save

vars == <<now, up, since, paused, cmd, sched, runs, worker, permit, user, events, blocked, raced, stalled>>
store == <<paused, cmd, sched, runs>>

Idle == [pc |-> "top", until |-> 0, at |-> 0, missed |-> 0, keys |-> [s \in Sched |-> Never], moved |-> FALSE]
Due(s) == IF sched[s].on THEN sched[s].due ELSE Never
Live(r) == r.active
RunsOf(s) == {r \in runs : r.of = s}

\* Every variable has its type, and a schedule's history is bounded by its
\* limit or by the runs it started.
TypeOK ==
  /\ now \in 0..MaxTime /\ up \in BOOLEAN /\ since \in 0..MaxTime /\ paused \in BOOLEAN
  /\ cmd \in [Command -> 0..MaxRev]
  /\ sched \in [Sched -> [rev : 0..MaxRev, trig : 0..MaxRev, on : BOOLEAN, here : BOOLEAN,
                          cmdRev : 0..MaxRev, due : 0..(MaxTime + 3) \cup {Never}, occ : Seq([trig : 0..MaxRev, at : 0..MaxTime, run : BOOLEAN])]]
  /\ runs \subseteq [of : Sched, trig : 0..MaxRev, at : 0..MaxTime, active : BOOLEAN]
  /\ worker.pc \in {"top", "look", "keys", "claim", "wait", "sleep", "off"} /\ permit \in BOOLEAN
  /\ user \in {"idle", "note", "wake"}
  /\ \A s \in Sched : Len(sched[s].occ) <= MaxOcc \/ Len(sched[s].occ) <= Cardinality(RunsOf(s))

-----------------------------------------------------------------------------
(* Nominal times.                                                          *)

LatestAtOrBefore(s, t) ==
  IF Anchor[s] > t THEN Never
  ELSE IF Every[s] = 0 THEN Anchor[s] ELSE Anchor[s] + Every[s] * ((t - Anchor[s]) \div Every[s])
FirstAfter(s, t) ==
  IF Every[s] = 0 THEN Never ELSE IF Anchor[s] > t THEN Anchor[s] ELSE Anchor[s] + Every[s] * ((t - Anchor[s]) \div Every[s] + 1)

Init ==
  /\ now = 0 /\ up = TRUE /\ since = 0 /\ paused = FALSE /\ cmd = [c \in Command |-> 0]
  /\ sched = [s \in Sched |-> [rev |-> 0, trig |-> 0, on |-> TRUE, here |-> TRUE, cmdRev |-> 0,
                               due |-> IF s \in Begun THEN Anchor[s] + Every[s] ELSE Anchor[s],
                               occ |-> IF s \in Begun THEN <<[trig |-> 0, at |-> Anchor[s], run |-> TRUE]>> ELSE <<>>]]
  /\ runs = {[of |-> s, trig |-> 0, at |-> Anchor[s], active |-> TRUE] : s \in Begun}
  /\ worker = Idle /\ permit = FALSE /\ user = "idle"
  /\ events = 0 /\ blocked = {} /\ raced = FALSE /\ stalled = "no"

\* push_occurrence: the oldest records go first, but never one whose run is
\* still active.
Active(s, o) == o.run /\ \E r \in runs : r.of = s /\ r.trig = o.trig /\ r.at = o.at /\ r.active
Pushed(s, o) ==
  LET all == Append(sched[s].occ, o)
      over == IF Len(all) > MaxOcc THEN Len(all) - MaxOcc ELSE 0
      old == {i \in 1..Len(all) : ~(Active(s, all[i]) \/ (i = Len(all) /\ o.run))}
      kept == {i \in 1..Len(all) : i \notin old \/ Cardinality({j \in old : j <= i}) > over}
  IN LET order == SetToSortSeq(kept, <) IN [i \in 1..Len(order) |-> all[order[i]]]
-----------------------------------------------------------------------------
(* The worker.                                                             *)

AtTop(pc) == up /\ worker.pc = pc

\* A pause is waited out without a timer.
Top ==
  /\ AtTop("top") /\ worker' = [Idle EXCEPT !.pc = IF paused THEN "wait" ELSE "look"]
  /\ UNCHANGED <<now, up, since, store, permit, user, events, blocked, raced, stalled>>

\* next_schedule_due, the clock and the boundary of what counts as missed.
Look ==
  LET due == Min({Due(s) : s \in Sched})
  IN /\ AtTop("look")
     /\ worker' = IF due = Never THEN [Idle EXCEPT !.pc = "wait"]
                  ELSE IF due <= now THEN [Idle EXCEPT !.pc = "keys", !.at = now, !.missed = since]
                  ELSE [Idle EXCEPT !.pc = "sleep", !.until = due]
     /\ raced' = (raced \/ (due <= now /\ (paused \/ user = "note")))
     /\ UNCHANGED <<now, up, since, store, permit, user, events, blocked, stalled>>

\* due_schedule_keys: the schedules and the revisions they had.
Keys ==
  /\ AtTop("keys")
  /\ worker' = [worker EXCEPT !.pc = "claim",
                  !.keys = [s \in Sched |-> IF Due(s) <= worker.at THEN sched[s].rev ELSE Never]]
  /\ UNCHANGED <<now, up, since, store, permit, user, events, blocked, raced, stalled>>

Waiting == {s \in Sched : worker.keys[s] # Never}

Missed(s, nominal) == sched[s].due < worker.missed \/ nominal > sched[s].due
Overlaps(s) == \E i \in 1..Len(sched[s].occ) : Active(s, sched[s].occ[i])
Starts(s, nominal, admitted) ==
  /\ sched[s].cmdRev = cmd[Target[s]] /\ admitted
  /\ s \in SkipsOverlap => ~Overlaps(s)
  /\ s \in SkipsMissed => ~Missed(s, nominal)
  /\ [of |-> s, trig |-> sched[s].trig, at |-> nominal] \notin {[of |-> r.of, trig |-> r.trig, at |-> r.at] : r \in runs}
Claim(s) ==
  LET latest == LatestAtOrBefore(s, worker.at)
      nominal == IF latest = Never THEN sched[s].due ELSE latest
      changed == sched[s].cmdRev # cmd[Target[s]]
      good == ~paused /\ sched[s].here /\ sched[s].on /\ sched[s].rev = worker.keys[s] /\ sched[s].due <= worker.at
  IN /\ AtTop("claim") /\ user = "idle" /\ s \in Waiting
     /\ \/ /\ good /\ sched[s].rev < MaxRev
           /\ \E admitted \in BOOLEAN :
                LET start == Starts(s, nominal, admitted)
                    next == FirstAfter(s, nominal)
                IN /\ runs' = IF start THEN runs \cup {[of |-> s, trig |-> sched[s].trig, at |-> nominal, active |-> TRUE]} ELSE runs
                   /\ sched' = [sched EXCEPT ![s] =
                        [@ EXCEPT !.rev = @ + 1, !.due = next, !.on = ~changed /\ next # Never,
                                  !.occ = Pushed(s, [trig |-> sched[s].trig, at |-> nominal, run |-> start])]]
           /\ worker' = [worker EXCEPT !.keys[s] = Never, !.moved = TRUE] /\ UNCHANGED stalled
        \/ /\ ~good /\ worker' = [worker EXCEPT !.keys[s] = Never]
           /\ UNCHANGED <<runs, sched, stalled>>
        \/ \* The generation cannot be written.
           /\ good /\ worker' = [worker EXCEPT !.keys[s] = Never] /\ stalled' = "write"
           /\ UNCHANGED <<runs, sched>>
     /\ UNCHANGED <<now, up, since, paused, cmd, permit, user, events, blocked, raced>>

\* Nothing claimed: the worker waits to be woken rather than try again.
ClaimEnd ==
  /\ AtTop("claim") /\ Waiting = {}
  /\ worker' = [Idle EXCEPT !.pc = IF worker.moved THEN "top" ELSE "wait"]
  /\ UNCHANGED <<now, up, since, store, permit, user, events, blocked, raced, stalled>>

Woken ==
  /\ up /\ worker.pc \in {"wait", "sleep"} /\ permit
  /\ permit' = FALSE /\ worker' = Idle
  /\ UNCHANGED <<now, up, since, store, user, events, blocked, raced, stalled>>
Timer ==
  /\ AtTop("sleep") /\ now >= worker.until /\ worker' = Idle
  /\ UNCHANGED <<now, up, since, store, permit, user, events, blocked, raced, stalled>>
-----------------------------------------------------------------------------
(* Commands, under the operation gate: the commit, then the wake-up.       *)

Commits(step) == up /\ user = "idle" /\ user' = step

\* save_schedule: a changed execution starts over, disabled.
SaveSchedule(s, changed) ==
  /\ Commits("wake") /\ sched[s].here /\ sched[s].rev < MaxRev
  /\ sched' = [sched EXCEPT ![s] =
       IF changed THEN [@ EXCEPT !.rev = @ + 1, !.trig = @ + 1, !.on = FALSE, !.cmdRev = 0, !.due = Anchor[s]]
       ELSE [@ EXCEPT !.rev = @ + 1]]
  /\ UNCHANGED <<now, up, since, paused, cmd, runs, worker, permit, events, blocked, raced, stalled>>
SetEnabled(s, on) ==
  /\ Commits("wake") /\ sched[s].here /\ sched[s].on # on /\ sched[s].rev < MaxRev
  /\ on => sched[s].due # Never
  /\ sched' = [sched EXCEPT ![s] = [@ EXCEPT !.rev = @ + 1, !.on = on, !.cmdRev = IF on THEN cmd[Target[s]] ELSE 0]]
  /\ UNCHANGED <<now, up, since, paused, cmd, runs, worker, permit, events, blocked, raced, stalled>>
DeleteSchedule(s) ==
  /\ Commits("wake") /\ sched[s].here
  /\ sched' = [sched EXCEPT ![s] = [@ EXCEPT !.here = FALSE, !.on = FALSE, !.occ = <<>>]]
  /\ UNCHANGED <<now, up, since, paused, cmd, runs, worker, permit, events, blocked, raced, stalled>>

\* after_save of a launch command: a changed execution disables its schedules,
\* another change carries their approval over.  It wakes nobody.
\* Mutant: the schedules keep the revision they were enabled for.
FollowsNever(s, c, changed) ==
  IF Target[s] # c \/ ~sched[s].on \/ ~changed THEN sched[s]
  ELSE [sched[s] EXCEPT !.rev = @ + 1, !.trig = @ + 1, !.on = FALSE, !.cmdRev = 0, !.due = Anchor[s]]
Follows(s, c, changed) ==
  IF Target[s] # c \/ ~sched[s].on THEN sched[s]
  ELSE IF changed THEN [sched[s] EXCEPT !.rev = @ + 1, !.trig = @ + 1, !.on = FALSE, !.cmdRev = 0, !.due = Anchor[s]]
  ELSE [sched[s] EXCEPT !.cmdRev = cmd[c] + 1]
SaveCommand(c, changed) ==
  /\ up /\ user = "idle" /\ cmd[c] < MaxRev /\ \A s \in Sched : Target[s] = c => sched[s].rev < MaxRev
  /\ cmd' = [cmd EXCEPT ![c] = @ + 1]
  /\ sched' = [s \in Sched |-> Follows(s, c, changed)]
  /\ stalled' = IF worker.pc \in {"keys", "claim"} /\ \E s \in Sched : Due(s) <= worker.at /\ sched'[s].rev # sched[s].rev
                THEN "save" ELSE stalled
  /\ UNCHANGED <<now, up, since, paused, runs, worker, permit, user, events, blocked, raced>>

\* apply_automations_paused: the flag is written, the resume noted, the worker woken.
Pause ==
  /\ Commits("wake") /\ ~paused /\ paused' = TRUE /\ events < MaxEvent /\ events' = events + 1
  /\ UNCHANGED <<now, up, since, cmd, sched, runs, worker, permit, blocked, raced, stalled>>
Resume ==
  /\ Commits("note") /\ paused /\ paused' = FALSE /\ blocked' = blocked \ {now}
  /\ UNCHANGED <<now, up, since, cmd, sched, runs, worker, permit, events, raced, stalled>>
Note ==
  /\ up /\ user = "note" /\ user' = "wake" /\ since' = now
  /\ UNCHANGED <<now, up, store, worker, permit, events, blocked, raced, stalled>>
Wake ==
  /\ up /\ user = "wake" /\ user' = "idle" /\ permit' = TRUE
  /\ UNCHANGED <<now, up, since, store, worker, events, blocked, raced, stalled>>
-----------------------------------------------------------------------------
RunEnds(r) ==
  /\ r.active /\ runs' = (runs \ {r}) \cup {[r EXCEPT !.active = FALSE]}
  /\ UNCHANGED <<now, up, since, paused, cmd, sched, worker, permit, user, events, blocked, raced, stalled>>
Tick ==
  /\ now < MaxTime /\ now' = now + 1
  /\ blocked' = IF up /\ ~paused THEN blocked ELSE blocked \cup {now + 1}
  /\ UNCHANGED <<up, since, store, worker, permit, user, events, raced, stalled>>
Quit ==
  /\ up /\ events < MaxEvent /\ events' = events + 1
  /\ up' = FALSE /\ worker' = [Idle EXCEPT !.pc = "off"] /\ permit' = FALSE /\ user' = "idle"
  /\ UNCHANGED <<now, since, store, blocked, raced, stalled>>
Start ==
  /\ ~up /\ up' = TRUE /\ since' = now /\ worker' = Idle /\ blocked' = IF paused THEN blocked ELSE blocked \ {now}
  /\ UNCHANGED <<now, store, permit, user, events, raced, stalled>>

Worker == Top \/ Look \/ Keys \/ (\E s \in Sched : Claim(s)) \/ ClaimEnd \/ Woken \/ Timer
Next ==
  \/ Worker
  \/ \E s \in Sched : DeleteSchedule(s) \/ \E b \in BOOLEAN : (SaveSchedule(s, b) \/ SetEnabled(s, b))
  \/ \E c \in Command, b \in BOOLEAN : SaveCommand(c, b)
  \/ Pause \/ Resume \/ Note \/ Wake
  \/ \E r \in runs : RunEnds(r)
  \/ Tick \/ Quit \/ Start
Spec == Init /\ [][Next]_vars

-----------------------------------------------------------------------------
\* An enabled schedule runs the launch command it was enabled for: every save
\* of the command either carries the approval over or disables the schedule
\* (after_save), so claim_due_schedule never meets a changed command.
EnabledForCurrent == \A s \in Sched : sched[s].on => sched[s].cmdRev = cmd[Target[s]]

\* A schedule that skips missed runs never starts one for an instant that came
\* while PiUI was closed or paused, unless the worker read the boundary during
\* the pause or before its end was noted.
NoMissedStart == raced \/ \A r \in runs : r.of \in SkipsMissed => r.at \notin blocked

\* A schedule that skips overlapping runs has one active run at most, although
\* the history its check reads is trimmed.
NoOverlap == \A s \in SkipsOverlap : sched[s].here => Cardinality({r \in RunsOf(s) : Live(r)}) <= 1

\* The next due time lies ahead of every time already recorded for the rule,
\* so no occurrence is claimed twice.
DueAhead ==
  \A s \in Sched : \A i \in 1..Len(sched[s].occ) :
    sched[s].occ[i].trig = sched[s].trig /\ sched[s].due # Never => sched[s].due > sched[s].occ[i].at

=============================================================================
