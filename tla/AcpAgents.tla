----------------------------- MODULE AcpAgents -----------------------------
(***************************************************************************)
(* The registry of ACP agents (acp_agents.rs, with resolution and version  *)
(* probes of acp.rs), for one agent id.                                    *)
(*                                                                         *)
(* A descriptor of the id comes from the person or from an enabled plugin. *)
(* The person's decisions (trusted command line, confirmed version,        *)
(* allowed secret names) bind to the exact descriptor and are saved under  *)
(* a revision.  Resolving a program and asking it for its version happen   *)
(* outside the lock: a check, a trust decision and a start each work with  *)
(* the descriptor and decisions they read first, while others change them  *)
(* and programs are moved and updated.                                     *)
(***************************************************************************)
EXTENDS Naturals, FiniteSets

CONSTANTS
  Own,         \* descriptors the person may add
  Plugged,     \* descriptors plugins may contribute
  Line,        \* command lines a program may resolve to
  Good, Old,   \* versions within and below the verified range
  News,        \* versions above it
  Tasks,
  None,
  MaxCmd,      \* commands, checks and starts
  MaxWorld,    \* moves and updates of programs, changes of plugins, failed probes and saves
  MaxBoth      \* both together

VARIABLES
  own, plug,   \* the person's and the plugins' descriptor of the id
  dec,         \* the saved decision: of one descriptor, with line, version and secrets
  rev,         \* the revision of the saved document
  found,       \* the latest discovery: line and version (and the descriptor it was made for)
  at, ver,     \* where each program resolves, which version each command line has
  task,        \* checks, trust decisions and starts in progress
  view,        \* what the person last saw: the descriptor, its command line and version, the revision
  began,       \* the last start: what was started, and what the person had approved when it began
  said,        \* the lines, versions and secrets the person approved since the descriptor was added
  mixed,       \* the discovery stored last was made from a superseded descriptor or decision
  cmds, world

vars == <<own, plug, dec, rev, found, at, ver, task, view, began, said, mixed, cmds, world>>

Desc == Own \cup Plugged
Ver == {Good, Old} \cup News
Idle == [op |-> "idle"]
NoDecision == [of |-> None, line |-> None, ver |-> None, secret |-> FALSE]

Cmd == cmds < MaxCmd /\ cmds + world < MaxBoth /\ cmds' = cmds + 1
World == world < MaxWorld /\ cmds + world < MaxBoth /\ world' = world + 1

\* find: the person's descriptor hides a plugin's.
Current == IF own # None THEN own ELSE plug


\* decision: only of this exact descriptor.
Decision(d) == IF dec.of = d THEN dec ELSE NoDecision

\* decision_entry: reset when the descriptor changed.
Entry(d) == IF dec.of = d THEN dec ELSE [NoDecision EXCEPT !.of = d]

MayExecute(decision, line) == decision.line # None /\ decision.line = line

\* resolve_acp_command: the command line a descriptor's program stands for now.
Resolved(d) == at[d]

\* run_version_command: the version, or nothing when it fails, hangs or prints none.
VersionCommand(line) == {ver[line], "failed"}

\* probe_acp_version and version_report, for a command that may run.
Reports(decision, line) ==
  IF line # None /\ MayExecute(decision, line) THEN VersionCommand(line) ELSE {None}

\* version_gate.
Gate(report, decision) ==
  \/ report = Good
  \/ report \in News /\ decision.ver = report

----------------------------------------------------------------------------
NoApproval == [line |-> {}, ver |-> {}, secret |-> {}]

\* The Settings page reads the registry.
View ==
  /\ Current # None /\ found # None
  /\ view' = [of |-> Current, line |-> found.line, ver |-> found.ver, rev |-> rev]
  /\ view # view'
  /\ began' = None
  /\ UNCHANGED <<own, plug, dec, rev, found, at, ver, task, said, mixed, cmds, world>>

\* transact: refused when the document has moved on.
Save(expected, d) == expected = rev /\ dec' = d /\ rev' = rev + 1

\* A check or a start reads the descriptor and its decision.
Reads(op) ==
  IF Current' = None THEN Idle
  ELSE [op |-> op, pc |-> "probe", of |-> Current', dec |-> Decision(Current)', said |-> IF op = "launch" THEN said' ELSE NoApproval]

Check(t) ==
  /\ Cmd /\ task[t] = Idle /\ Current # None
  /\ began' = None
  /\ UNCHANGED <<own, plug, dec, rev, found, at, ver, view, said, mixed, world>>
  /\ task' = [task EXCEPT ![t] = Reads("check")]

Launch(t) ==
  /\ Cmd /\ task[t] = Idle /\ Current # None
  /\ UNCHANGED <<own, plug, dec, rev, found, at, ver, view, began, said, mixed, world>>
  /\ task' = [task EXCEPT ![t] = Reads("launch")]

\* Resolution, and the version command when it may run; it may fail.
Probe(t) ==
  /\ task[t].op \in {"check", "launch"} /\ task[t].pc = "probe"
  /\ LET line == Resolved(task[t].of)
     IN \E r \in Reports(task[t].dec, line) :
          /\ IF r = "failed" THEN World ELSE UNCHANGED world
          /\ task' = [task EXCEPT ![t] = [op |-> @.op, pc |-> "store", of |-> @.of, dec |-> @.dec, said |-> @.said,
                                          line |-> line, report |-> r]]
  /\ UNCHANGED <<own, plug, dec, rev, found, at, ver, view, began, said, mixed, cmds>>

\* What the task read is no longer what is registered.
Superseded(t) == task[t].of # Current \/ task[t].dec # Decision(Current)

Stored(t) ==
  /\ found' = [of |-> task[t].of, line |-> task[t].line, ver |-> task[t].report]
  /\ mixed' = Superseded(t)
  /\ task' = [task EXCEPT ![t] = Idle]
  /\ UNCHANGED <<own, plug, dec, rev, at, ver, view, said, cmds, world>>

StoreCheck(t) ==
  /\ task[t].op = "check" /\ task[t].pc = "store"
  /\ Stored(t) /\ UNCHANGED began

\* launch: the discovery is stored, and the agent starts or is refused.
StoreLaunch(t) ==
  /\ task[t].op = "launch" /\ task[t].pc = "store"
  /\ Stored(t)
  /\ began' = IF task[t].report # None /\ Gate(task[t].report, task[t].dec)
              THEN [of |-> task[t].of, line |-> task[t].line, ver |-> task[t].report, secret |-> task[t].dec.secret, said |-> task[t].said]
              ELSE None

\* trust: the descriptor the person reviewed, resolved again before it is saved.
Trust(t) ==
  /\ Cmd /\ task[t] = Idle /\ view # None /\ Current # None
  /\ view.of = Current
  /\ task' = [task EXCEPT ![t] = [op |-> "trust", pc |-> "resolve", of |-> Current, line |-> view.line, rev |-> view.rev]]
  /\ began' = None
  /\ UNCHANGED <<own, plug, dec, rev, found, at, ver, view, said, mixed, world>>

TrustResolves(t) ==
  /\ task[t].op = "trust" /\ task[t].pc = "resolve"
  /\ task' = IF Resolved(task[t].of) # None /\ Resolved(task[t].of) = task[t].line
             THEN [task EXCEPT ![t].pc = "save"] ELSE [task EXCEPT ![t] = Idle]
  /\ UNCHANGED <<own, plug, dec, rev, found, at, ver, view, began, said, mixed, cmds, world>>

TrustSaves(t) ==
  /\ task[t].op = "trust" /\ task[t].pc = "save"
  /\ UNCHANGED <<own, plug, found, at, ver, view, began, mixed, cmds>>
  /\ \/ /\ Save(task[t].rev, [Entry(task[t].of) EXCEPT !.line = task[t].line])
        /\ said' = [said EXCEPT !.line = @ \cup {<<task[t].of, task[t].line>>}]
        /\ task' = [task EXCEPT ![t] = Reads("check")]
        /\ UNCHANGED world
     \/ /\ task[t].rev # rev /\ task' = [task EXCEPT ![t] = Idle]
        /\ UNCHANGED <<dec, rev, said, world>>
     \/ /\ World /\ task' = [task EXCEPT ![t] = Idle]
        /\ UNCHANGED <<dec, rev, said>>

\* confirm_version: of the version the last discovery reported.
ConfirmVersion ==
  /\ Cmd /\ view # None /\ Current # None /\ found # None
  /\ found.ver \in News /\ view.ver = found.ver
  /\ Save(view.rev, [Entry(Current) EXCEPT !.ver = found.ver])
  /\ said' = [said EXCEPT !.ver = @ \cup {<<Current, found.ver>>}]
  /\ began' = None
  /\ UNCHANGED <<own, plug, found, at, ver, task, view, mixed, world>>

\* allow_secrets: exactly the names of the request, none withdraws.
AllowSecrets(on) ==
  /\ Cmd /\ view # None /\ Current # None /\ view.of = Current
  /\ Save(view.rev, [Entry(Current) EXCEPT !.secret = on])
  /\ said' = [said EXCEPT !.secret = IF on THEN @ \cup {Current} ELSE @ \ {Current}]
  /\ began' = None
  /\ UNCHANGED <<own, plug, found, at, ver, task, view, mixed, world>>

\* add: earlier decisions of the id go; the new descriptor is resolved.
Add(t, d) ==
  /\ Cmd /\ task[t] = Idle /\ own = None
  /\ Save(rev, NoDecision)
  /\ own' = d /\ said' = NoApproval
  /\ began' = None
  /\ UNCHANGED <<plug, found, at, ver, view, mixed, world>>
  /\ task' = [task EXCEPT ![t] = Reads("check")]

\* remove: the descriptor, its decisions and its discovery.
Remove ==
  /\ Cmd /\ own # None /\ view # None
  /\ Save(view.rev, NoDecision)
  /\ own' = None /\ said' = NoApproval
  /\ found' = None
  /\ mixed' = (plug # None)
  /\ began' = None
  /\ UNCHANGED <<plug, at, ver, task, view, world>>

\* set_plugin_agents: a new id is checked, a changed descriptor is not.
SetPlugin(t, p) ==
  /\ World /\ task[t] = Idle /\ p # plug
  /\ plug' = p
  /\ found' = IF p = None /\ own = None THEN None ELSE found
  /\ mixed' = IF own # None THEN mixed ELSE plug # None /\ p # None
  /\ began' = None
  /\ UNCHANGED <<own, dec, rev, at, ver, view, said, cmds>>
  /\ task' = IF plug = None /\ own = None THEN [task EXCEPT ![t] = Reads("check")] ELSE task

\* Programs are installed, moved and updated.
Move(d, line) ==
  /\ World /\ at[d] # line
  /\ at' = [at EXCEPT ![d] = line]
  /\ began' = None
  /\ UNCHANGED <<own, plug, dec, rev, found, ver, task, view, said, mixed, cmds>>

Update(line, v) ==
  /\ World /\ ver[line] # v
  /\ ver' = [ver EXCEPT ![line] = v]
  /\ began' = None
  /\ UNCHANGED <<own, plug, dec, rev, found, at, task, view, said, mixed, cmds>>

\* The host starts again: open, then the first discovery.
Restart(t) ==
  /\ World
  /\ found' = None /\ view' = None /\ began' = None /\ mixed' = FALSE
  /\ UNCHANGED <<own, plug, dec, rev, at, ver, said, cmds>>
  /\ task' = [r \in Tasks |-> IF r = t THEN Reads("check") ELSE Idle]

Init ==
  /\ own = None /\ plug \in Plugged \cup {None}
  /\ dec = NoDecision /\ rev = 0 /\ found = None
  /\ \E line \in Line : at = [d \in Desc |-> line]
  /\ \E v \in {Good} \cup News : ver = [line \in Line |-> v]
  /\ view = None /\ began = None /\ said = NoApproval /\ mixed = FALSE
  /\ cmds = 0 /\ world = 0
  /\ \E t \in Tasks : task = [r \in Tasks |-> IF r = t /\ plug # None
                                          THEN [op |-> "check", pc |-> "probe", of |-> plug, dec |-> NoDecision, said |-> NoApproval]
                                          ELSE Idle]

Next ==
  \/ View \/ ConfirmVersion \/ Remove
  \/ \E on \in BOOLEAN : AllowSecrets(on)
  \/ \E t \in Tasks :
       \/ Check(t) \/ Launch(t) \/ Probe(t) \/ StoreCheck(t) \/ StoreLaunch(t)
       \/ Trust(t) \/ TrustResolves(t) \/ TrustSaves(t) \/ Restart(t)
       \/ \E d \in Own : Add(t, d)
       \/ \E p \in Plugged \cup {None} : SetPlugin(t, p)
  \/ \E d \in Desc, line \in Line \cup {None} : Move(d, line)
  \/ \E line \in Line, v \in Ver : Update(line, v)

Spec == Init /\ [][Next]_vars

----------------------------------------------------------------------------
\* The registry has its shape; decisions are kept only of descriptors.
TypeOK ==
  /\ own \in Own \cup {None} /\ plug \in Plugged \cup {None}
  /\ dec.of \in Desc \cup {None} /\ dec.line \in Line \cup {None} /\ dec.ver \in Ver \cup {None}
  /\ dec.of = None => dec = NoDecision
  /\ \A t \in Tasks : task[t].op \in {"idle", "check", "launch", "trust"}

\* An agent is started only with the command line, a version and the secrets that
\* the person had approved for that exact descriptor when the start began, and
\* after it was last added.
RunsApproved ==
  began # None =>
    /\ <<began.of, began.line>> \in began.said.line
    /\ began.ver = Good \/ <<began.of, began.ver>> \in began.said.ver
    /\ began.secret => began.of \in began.said.secret

\* Once nothing is in progress, the discovery of a registered agent is of its
\* descriptor and has a version whenever the agent may run, except when it was
\* stored by someone who had read a superseded descriptor or decision, or a plugin's
\* descriptor changed or came back.
Discovered ==
  Current # None /\ ~mixed /\ (\A t \in Tasks : task[t] = Idle) =>
    /\ found # None /\ (found # None => found.of = Current)
    /\ found # None /\ MayExecute(Decision(Current), found.line) => found.ver # None

=============================================================================
