---------------------------- MODULE Definitions ----------------------------
(***************************************************************************)
(* The saved definitions of one project: agent profiles, teams, pipelines  *)
(* and launch commands (save_definition, delete_definition and save_graph  *)
(* of orchestration_api.rs), the reference rules of sub-pipeline steps     *)
(* (subpipelines.rs), the automations that name a launch command, and the  *)
(* teammates that generate and wrap definitions (teammates_api.rs).        *)
(*                                                                         *)
(* Every operation is one store transaction under the operation gate: it   *)
(* is refused as a whole, which changes nothing, or committed as a whole.  *)
(* A graph editor reads the definitions of a launch command at one time    *)
(* and saves them at another, with the revisions it read.                  *)
(*                                                                         *)
(* A pipeline is abstracted to what the reference rules read: whether it   *)
(* takes an input (none, an optional or a required one), the outputs it    *)
(* declares, and at most one sub-pipeline step.                            *)
(***************************************************************************)
EXTENDS Naturals, FiniteSets

CONSTANTS
  Profile, Team, Pipe, Cmd,   \* ids a person's definitions can have
  Mate,                       \* teammates
  Agent(_), Crew(_), Flow(_), Start(_),
                              \* ids generated for a teammate's definitions
  Inputs, Outputs, Wants,     \* what pipelines declare and steps expect
  Edited,                     \* launch commands the graph editor opens
  Spawns,                     \* the spawn grants profiles are saved with
  None, Gone,                 \* absent; a teammate that was deleted
  MaxRev,                     \* largest revision of each kind
  MaxAuto                     \* most automations

VARIABLES
  db,      \* the stored definitions, by kind and id
  mates,   \* the stored teammates
  autos,   \* the automations: the command started and the command waited for
  open,    \* what the graph editor read
  lost     \* whether an editor overwrote a definition it had not read (history)

vars == <<db, mates, autos, open, lost>>

Kind == {"profile", "team", "pipe", "cmd"}
Ids(k) == CASE k = "profile" -> Profile [] k = "team" -> Team
            [] k = "pipe" -> Pipe [] OTHER -> Cmd

Steps == [cmd: Cmd, maps: BOOLEAN, wants: Wants]
Value(k) ==
  CASE k = "profile" -> [spawn: Spawns]
    [] k = "team" -> [members: {{p} : p \in Profile}]
    [] k = "pipe" -> [input: Inputs, gives: Outputs, step: Steps \cup {None}]
    [] OTHER -> [team: Team, pipe: Pipe, mark: Mate \cup {None}]
Stored(k) == [rev: 0..MaxRev[k], is: Value(k)]

Present(d, k) == {i \in Ids(k) : d[k][i] # None}
Is(d, k, i) == d[k][i].is

----------------------------------------------------------------------------
(* Sub-pipeline references.                                                *)

\* Saved pipelines with a sub-pipeline step, and the launch commands they run.
Callers(d) == {x \in Present(d, "pipe") : Is(d, "pipe", x).step # None}
Called(d) == {Is(d, "pipe", x).step.cmd : x \in Callers(d)}

PipelineOf(d, c) ==
  IF c \in Present(d, "cmd") /\ Is(d, "cmd", c).pipe \in Present(d, "pipe")
  THEN Is(d, "pipe", Is(d, "cmd", c).pipe)
  ELSE None

\* The launch commands that running c runs directly.
Runs(d, c) ==
  LET p == PipelineOf(d, c)
  IN IF p = None \/ p.step = None THEN {} ELSE {p.step.cmd}

\* A reference cycle: launch commands each of which runs another of them.
Cyclic(d) == \E S \in SUBSET Cmd \ {{}} : \A c \in S : Runs(d, c) \cap S # {}

InputsFit(step, child) ==
  /\ step.maps => child.input # "none"
  /\ child.input = "required" => step.maps

ResultFieldsFit(step, child) == child.gives = {} \/ step.wants \subseteq child.gives

StepFits(step, child) == InputsFit(step, child) /\ ResultFieldsFit(step, child)

\* Mutant: a step may run a command that is not saved.
SavedPipelineFitsLoosely(d, x) == ~Cyclic(d)

\* The rules a saved pipeline's own step must meet.
SavedPipelineFits(d, x) ==
  LET step == Is(d, "pipe", x).step
  IN /\ step # None => /\ PipelineOf(d, step.cmd) # None
                       /\ InputsFit(step, PipelineOf(d, step.cmd))
     /\ ~Cyclic(d)

\* The child that command c ran before a change from d0 to d that saved pipeline
\* x and pointed command r at another pipeline; Gone when c is not affected.
PreviousChild(d0, d, x, r, c) ==
  LET old(y) == IF d0.pipe[y] = None THEN None ELSE Is(d0, "pipe", y)
  IN IF c = r THEN old(Is(d0, "cmd", c).pipe)
     ELSE IF x # None /\ c \in Present(d, "cmd") /\ Is(d, "cmd", c).pipe = x THEN old(x)
     ELSE Gone

\* Every other saved step that fitted its child before the change still does.
ParentsFit(d0, d, x, r) ==
  \A y \in Callers(d) \ {x} :
    LET step == Is(d, "pipe", y).step
        before == PreviousChild(d0, d, x, r, step.cmd)
        after == PipelineOf(d, step.cmd)
    IN (before # Gone /\ after # None /\ ~StepFits(step, after))
         => (before # None /\ ~StepFits(step, before))

\* The command a save pointed at another pipeline.
Retargeted(d0, d, c) ==
  IF d0.cmd[c] # None /\ Is(d0, "cmd", c).pipe # Is(d, "cmd", c).pipe THEN c ELSE None

CheckReferences(d0, d, k, i) ==
  CASE k = "pipe" -> SavedPipelineFits(d, i) /\ ParentsFit(d0, d, i, None)
    [] k = "cmd" -> ~Cyclic(d) /\ ParentsFit(d0, d, None, Retargeted(d0, d, i))
    [] OTHER -> TRUE

----------------------------------------------------------------------------
(* Saving and deleting one definition.                                     *)

ValidForWorkspace(d, k, i, v) ==
  CASE k = "profile" -> v.spawn \subseteq Present(d, k) \cup {i}
    [] k = "team" -> v.members \subseteq Present(d, "profile")
    [] k = "pipe" -> TRUE
    [] OTHER -> v.team \in Present(d, "team") /\ v.pipe \in Present(d, "pipe")

\* The revision a request expects: none for a new definition.
Expects(d, k, i, e) == IF d[k][i] = None THEN e = None ELSE e = d[k][i].rev

Put(d, k, i, v) ==
  [d EXCEPT ![k][i] = [rev |-> IF d[k][i] = None THEN 0 ELSE d[k][i].rev + 1, is |-> v]]

Room(d, k, i) == d[k][i] # None => d[k][i].rev < MaxRev[k]

\* Who still needs definition i of kind k.
Used(d, k, i) ==
  CASE k = "profile" -> \/ \E t \in Present(d, "team") : i \in Is(d, "team", t).members
                        \/ \E p \in Present(d, "profile") : i \in Is(d, "profile", p).spawn
    [] k = "team" -> \E c \in Present(d, "cmd") : Is(d, "cmd", c).team = i
    [] k = "pipe" -> \E c \in Present(d, "cmd") : Is(d, "cmd", c).pipe = i
    [] OTHER -> \/ \E m \in Mate : mates[m] \notin {None, Gone} /\ mates[m].cmd = i
                \/ i \in Called(d)
                \/ \E a \in autos : a.cmd = i \/ a.source = i

\* The editor's view after the definitions became d: `moved` are the definitions
\* it read that changed since, `reborn` those deleted in the meantime.
Watch(d) ==
  IF open = None THEN None
  ELSE [open EXCEPT
         !.moved = @ \cup {n \in DOMAIN open.revs : d[n[1]][n[2]] # db[n[1]][n[2]]},
         !.reborn = @ \cup {n \in DOMAIN open.revs : d[n[1]][n[2]] = None}]

Commit(d) == db' = d /\ open' = Watch(d)

SaveDefinition(k, i, v, e) ==
  LET d == Put(db, k, i, v)
  IN /\ ValidForWorkspace(db, k, i, v)
     /\ Expects(db, k, i, e)
     /\ Room(db, k, i)
     /\ CheckReferences(db, d, k, i)
     /\ Commit(d)
     /\ UNCHANGED <<mates, autos, lost>>

DeleteDefinition(k, i) ==
  /\ i \in Present(db, k)
  /\ ~Used(db, k, i)
  /\ Commit([db EXCEPT ![k][i] = None])
  /\ UNCHANGED <<mates, autos, lost>>

\* save_schedule and delete_schedule: both launch commands must be saved.
SaveAutomation(c, s) ==
  /\ c \in Present(db, "cmd")
  /\ s # None => s \in Present(db, "cmd")
  /\ Cardinality(autos) < MaxAuto
  /\ autos' = autos \cup {[cmd |-> c, source |-> s]}
  /\ UNCHANGED <<db, mates, open, lost>>

DeleteAutomation(a) ==
  /\ a \in autos
  /\ autos' = autos \ {a}
  /\ UNCHANGED <<db, mates, open, lost>>

----------------------------------------------------------------------------
(* Saving a graph: a profile, a team, a pipeline and a launch command.     *)

\* The definitions a graph names.
Names(g) == {<<"profile", g.profile>>, <<"team", g.team>>, <<"pipe", g.pipe>>, <<"cmd", g.cmd>>}

Grants(g) == {S \in Spawns : S \subseteq {g.profile}}

Applied(d, g, body, spawn, mark) ==
  LET d1 == Put(d, "profile", g.profile, [spawn |-> spawn])
      d2 == Put(d1, "team", g.team, [members |-> {g.profile}])
      d3 == Put(d2, "pipe", g.pipe, body)
  IN Put(d3, "cmd", g.cmd, [team |-> g.team, pipe |-> g.pipe, mark |-> mark])

GraphAccepted(d0, d, g) ==
  /\ \A n \in Names(g) : Room(d0, n[1], n[2])
  /\ SavedPipelineFits(d, g.pipe)
  /\ ParentsFit(d0, d, g.pipe, Retargeted(d0, d, g.cmd))

\* openGraph: the editor reads a launch command and the definitions it needs.
OpenGraph(c) ==
  /\ open = None
  /\ c \in Present(db, "cmd") \cap Edited
  /\ LET k == Is(db, "cmd", c)
         g == [cmd |-> c, team |-> k.team, pipe |-> k.pipe,
               profile |-> CHOOSE p \in Profile : Is(db, "team", k.team).members = {p}]
     IN open' = [graph |-> g,
                 revs |-> [n \in Names(g) |-> db[n[1]][n[2]].rev],
                 moved |-> {}, reborn |-> {}]
  /\ UNCHANGED <<db, mates, autos, lost>>

\* The editor saves what it read, changed; its document has no teammate mark.
SaveOpenGraph(body, spawn) ==
  /\ open # None
  /\ LET g == open.graph
         d == Applied(db, g, body, spawn, None)
     IN /\ \A n \in Names(g) : Expects(db, n[1], n[2], open.revs[n])
        /\ GraphAccepted(db, d, g)
        /\ db' = d
        /\ lost' = (lost \/ open.moved \ open.reborn # {})
        /\ open' = None
  /\ UNCHANGED <<mates, autos>>

CloseGraph ==
  /\ open # None
  /\ open' = None
  /\ UNCHANGED <<db, mates, autos, lost>>

\* A new graph, with ids that are free.
SaveNewGraph(g, body, spawn) ==
  LET d == Applied(db, g, body, spawn, None)
  IN /\ \A n \in Names(g) : db[n[1]][n[2]] = None
     /\ GraphAccepted(db, d, g)
     /\ Commit(d)
     /\ UNCHANGED <<mates, autos, lost>>

----------------------------------------------------------------------------
(* Teammates.                                                              *)

Simple(m) == mates[m] \notin {None, Gone} /\ mates[m].simple

\* The launch command that a simple teammate generated and still manages.
Manages(d, m) ==
  /\ Simple(m)
  /\ mates[m].cmd \in Present(d, "cmd")
  /\ Is(d, "cmd", mates[m].cmd).mark = m

ManagedIds(m) ==
  IF Manages(db, m)
  THEN LET k == Is(db, "cmd", mates[m].cmd)
       IN [profile |-> Agent(m), team |-> k.team, pipe |-> k.pipe, cmd |-> mates[m].cmd]
  ELSE [profile |-> Agent(m), team |-> Crew(m), pipe |-> Flow(m), cmd |-> Start(m)]

\* A one-step pipeline with a required card input.
CardPipeline == [input |-> "required", gives |-> {}, step |-> None]

SaveSimple(m) ==
  LET g == ManagedIds(m)
      d == Applied(db, g, CardPipeline, {}, m)
  IN /\ mates[m] # Gone
     /\ GraphAccepted(db, d, g)
     /\ Commit(d)
     /\ mates' = [mates EXCEPT ![m] = [simple |-> TRUE, cmd |-> g.cmd]]
     /\ UNCHANGED <<autos, lost>>

\* May the managed command go once m no longer names it?
Removable(d, m) ==
  LET c == mates[m].cmd
  IN /\ ~\E a \in autos : a.cmd = c \/ a.source = c
     /\ ~\E o \in Mate \ {m} : mates[o] \notin {None, Gone} /\ mates[o].cmd = c
     /\ c \notin Called(d)

\* What is left when the command m manages goes: its pipeline, its team and m's
\* profile go too unless something else uses them.
RemoveManaged(d, m) ==
  LET k == Is(d, "cmd", mates[m].cmd)
      d1 == [d EXCEPT !.cmd[mates[m].cmd] = None]
      d2 == IF Used(d1, "pipe", k.pipe) THEN d1 ELSE [d1 EXCEPT !.pipe[k.pipe] = None]
      d3 == IF Used(d2, "team", k.team) THEN d2 ELSE [d2 EXCEPT !.team[k.team] = None]
      needed == \/ \E t \in Present(d3, "team") : Agent(m) \in Is(d3, "team", t).members
                \/ \E p \in Present(d3, "profile") \ {Agent(m)} :
                     Agent(m) \in Is(d3, "profile", p).spawn
  IN IF needed THEN d3 ELSE [d3 EXCEPT !.profile[Agent(m)] = None]

Released(m) == IF Manages(db, m) THEN RemoveManaged(db, m) ELSE db

\* A teammate that wraps a launch command of the person's own.
SavePipelineMate(m, c) ==
  /\ mates[m] # Gone
  /\ Manages(db, m) => Removable(db, m)
  /\ c \in Present(Released(m), "cmd")
  /\ Is(Released(m), "cmd", c).mark = None
  /\ Commit(Released(m))
  /\ mates' = [mates EXCEPT ![m] = [simple |-> FALSE, cmd |-> c]]
  /\ UNCHANGED <<autos, lost>>

DeleteMate(m) ==
  /\ mates[m] \notin {None, Gone}
  /\ Manages(db, m) => Removable(db, m)
  /\ Commit(Released(m))
  /\ mates' = [mates EXCEPT ![m] = Gone]
  /\ UNCHANGED <<autos, lost>>

----------------------------------------------------------------------------
\* Marks a person's save of a command carries: none, or the one it has.
Marks(c) == {None} \cup (IF db.cmd[c] = None THEN {} ELSE {Is(db, "cmd", c).mark})

Values(k, i) == IF k = "cmd" THEN [team: Team, pipe: Pipe, mark: Marks(i)] ELSE Value(k)

Init ==
  /\ db = [k \in Kind |-> [i \in Ids(k) |-> None]]
  /\ mates = [m \in Mate |-> None]
  /\ autos = {}
  /\ open = None
  /\ lost = FALSE

Next ==
  \/ \E k \in Kind : \E i \in Ids(k) :
       \/ \E v \in Values(k, i), e \in 0..MaxRev[k] \cup {None} : SaveDefinition(k, i, v, e)
       \/ DeleteDefinition(k, i)
  \/ \E c \in Cmd : OpenGraph(c) \/ \E s \in Cmd \cup {None} : SaveAutomation(c, s)
  \/ \E a \in autos : DeleteAutomation(a)
  \/ \E body \in Value("pipe"), spawn \in Spawns :
       \/ open # None /\ spawn \in Grants(open.graph) /\ SaveOpenGraph(body, spawn)
       \/ \E g \in [profile: Profile, team: Team, pipe: Pipe, cmd: Cmd] :
            spawn \in Grants(g) /\ SaveNewGraph(g, body, spawn)
  \/ CloseGraph
  \/ \E m \in Mate : \/ SaveSimple(m)
                     \/ DeleteMate(m)
                     \/ \E c \in Cmd : SavePipelineMate(m, c)

Spec == Init /\ [][Next]_vars

----------------------------------------------------------------------------
\* Every stored value has its shape, and the editor's view names stored kinds.
TypeOK ==
  /\ \A k \in Kind : \A i \in Ids(k) : db[k][i] = None \/ db[k][i] \in Stored(k)
  /\ \A m \in Mate : mates[m] \in {None, Gone} \cup [simple: BOOLEAN, cmd: Cmd]
  /\ autos \subseteq [cmd: Cmd, source: Cmd \cup {None}] /\ Cardinality(autos) <= MaxAuto
  /\ open # None => /\ DOMAIN open.revs = Names(open.graph)
                    /\ open.moved \subseteq Names(open.graph)
                    /\ open.reborn \subseteq open.moved
  /\ lost \in BOOLEAN

\* No stored reference dangles: the profiles of teams and spawn grants, the team
\* and pipeline of every launch command, and the launch commands that steps,
\* automations and teammates name are all saved.
ReferencesResolve ==
  /\ \A t \in Present(db, "team") : Is(db, "team", t).members \subseteq Present(db, "profile")
  /\ \A p \in Present(db, "profile") : Is(db, "profile", p).spawn \subseteq Present(db, "profile")
  /\ \A c \in Present(db, "cmd") : /\ Is(db, "cmd", c).team \in Present(db, "team")
                                   /\ Is(db, "cmd", c).pipe \in Present(db, "pipe")
  /\ Called(db) \subseteq Present(db, "cmd")
  /\ \A a \in autos : {a.cmd, a.source} \subseteq Present(db, "cmd") \cup {None}
  /\ \A m \in Mate : mates[m] \notin {None, Gone} => mates[m].cmd \in Present(db, "cmd")

\* No launch command runs itself, directly or through the pipelines it runs.
NoneRunsItself ==
  LET Below(S) == UNION {Runs(db, c) : c \in S}
  IN \A c \in Cmd : c \notin Below({c}) \cup Below(Below({c})) \cup Below(Below(Below({c})))

\* A saved sub-pipeline step that fits its child keeps fitting it, whichever other
\* definition is saved, retargeted or generated, until its own pipeline is saved.
FitKept ==
  [][\A x \in Present(db, "pipe") \cap Present(db', "pipe") :
       LET step == Is(db, "pipe", x).step
       IN /\ db'.pipe[x] = db.pipe[x]
          /\ step # None
          /\ PipelineOf(db, step.cmd) # None
          /\ StepFits(step, PipelineOf(db, step.cmd))
          => /\ PipelineOf(db', step.cmd) # None
             /\ StepFits(step, PipelineOf(db', step.cmd))]_vars

\* An editor's graph never overwrites a definition that changed after the editor
\* read it, unless that definition was deleted and made again in the meantime.
EditsKept == ~lost

============================================================================
