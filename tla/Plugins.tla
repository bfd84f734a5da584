------------------------------ MODULE Plugins ------------------------------
(***************************************************************************)
(* The plugin registry (plugins/mod.rs, plugins/registry.rs and the        *)
(* commands of plugins/api.rs): packages are staged for review, installed  *)
(* or loaded for development, verified again at start-up, reloaded,        *)
(* enabled, removed, given settings and chosen as the theme, by commands   *)
(* that run beside each other and name the registry revision they saw.     *)
(* A package is its version; Shape is what the user trusts of a            *)
(* development plugin, its permissions and backend entry.  The backend     *)
(* process is in PluginBackends.                                           *)
(***************************************************************************)
EXTENDS Naturals, FiniteSets

CONSTANTS
  Id,         \* plugin ids
  Op,         \* command slots
  Version,    \* package versions; 0 is an unreadable package
  Shape,      \* permissions and backend entry of a version
  MaxPlugins, \* MAX_PLUGINS
  MaxStage,   \* bound on the reviews
  MaxRev,     \* bound on the registry revisions
  MaxEvent,   \* bound on the edits of source folders and restarts together
  NoId

Stage == 1..MaxStage
Read == Version \cup {0}

VARIABLES
  folder,  \* the user's source folder of each plugin
  place,   \* PiUI's copy of each review: staging, packages or none
  disk,    \* the version in that copy
  doc,     \* the registry document: revision, plugins and theme
  loaded,  \* the packages verified in memory
  staged,  \* reviews waiting for the user
  acp,     \* plugins whose ACP agents are registered
  op,      \* commands in progress
  acked,   \* settings acknowledged to the user since the plugin was added
  edits, crashes,
  stale,   \* plugins whose package was read while another command changed them
  crossed  \* two registrations of ACP agents ran beside each other

vars == <<folder, place, disk, doc, loaded, staged, acp, op, acked, edits, crashes, stale, crossed>>

Absent == [src |-> "none", dir |-> 0, v |-> 0, enabled |-> FALSE, settings |-> {}]
NotLoaded == [here |-> FALSE, v |-> 0, good |-> FALSE]
NoReview == [here |-> FALSE, src |-> "none", id |-> NoId, v |-> 0]
Idle == [again |-> FALSE, pc |-> "idle", id |-> NoId, rev |-> 0, dir |-> 0, review |-> NoReview,
         recs |-> [i \in Id |-> Absent], seen |-> [i \in Id |-> NotLoaded], set |-> {}, agents |-> {}]
Setting == Op
Plugin == [src : {"none", "installed", "dev"}, dir : 0..MaxStage, v : Read, enabled : BOOLEAN,
           settings : SUBSET Setting]
Loaded == [here : BOOLEAN, v : Read, good : BOOLEAN]
StagedReview == [here : BOOLEAN, src : {"none", "installed", "dev"}, id : Id \cup {NoId}, v : Read]

Known == {i \in Id : doc.plugins[i] # Absent}

\* Every variable has its type, a copy is listed exactly while its files are
\* there, and the registry never outgrows its limit, however many reviews wait
\* (MAX_PLUGINS).
TypeOK ==
  /\ folder \in [Id -> Read] /\ disk \in [Stage -> Read]
  /\ place \in [Stage -> {"none", "staging", "packages"}]
  /\ doc.rev \in 0..MaxRev /\ doc.plugins \in [Id -> Plugin] /\ doc.theme \in Id \cup {NoId}
  /\ loaded \in [Id -> Loaded] /\ staged \in [Stage -> StagedReview] /\ acp \subseteq Id
  /\ \A o \in Op : /\ op[o].pc \in {"idle", "snapshot", "read", "insert", "move", "commit", "tidy",
                                    "delete", "save", "theme", "agents", "register"}
                   /\ op[o].recs \in [Id -> Plugin] /\ op[o].seen \in [Id -> Loaded]
  /\ acked \in [Id -> SUBSET Setting]
  /\ \A k \in Stage : place[k] = "none" <=> disk[k] = 0
  /\ Cardinality(Known) <= MaxPlugins

\* A registry opened with no plugin, or with one from an earlier run.
Init ==
  /\ folder \in [Id -> Version]
  /\ \E rec \in {Absent} \cup {[src |-> s, dir |-> IF s = "dev" THEN 0 ELSE 1, v |-> v, enabled |-> TRUE, settings |-> {}] :
                 s \in {"installed", "dev"}, v \in Version} :
       \E i \in Id :
         /\ doc = [rev |-> 0, plugins |-> [j \in Id |-> IF j = i THEN rec ELSE Absent], theme |-> NoId]
         /\ place = [k \in Stage |-> IF k = rec.dir THEN "packages" ELSE "none"]
         /\ disk = [k \in Stage |-> IF k = rec.dir THEN rec.v ELSE 0]
  /\ loaded = [i \in Id |-> NotLoaded] /\ staged = [k \in Stage |-> NoReview] /\ acp = {}
  /\ op = [o \in Op |-> Idle] /\ acked = [i \in Id |-> {}]
  /\ edits = 0 /\ crashes = 0 /\ stale = {} /\ crossed = FALSE
-----------------------------------------------------------------------------
\* load(): an installed copy must be the version the user trusted, a
\* development folder must keep its shape.
Good(rec, v) == v # 0 /\ IF rec.src = "installed" THEN v = rec.v ELSE Shape[v] = Shape[rec.v]
Load(i, rec) ==
  LET v == IF rec.src = "dev" THEN folder[i] ELSE IF rec.dir = 0 THEN 0 ELSE disk[rec.dir]
  IN [here |-> TRUE, v |-> v, good |-> Good(rec, v)]

\* active_packages(): enabled and verified without problems.
Active(i) == doc.plugins[i].enabled /\ loaded[i].here /\ loaded[i].good

Free(o) == op[o] = Idle
After == [Idle EXCEPT !.pc = "agents"]
Dropped(k) == [j \in Stage |-> IF j = k THEN "none" ELSE place[j]]
Files == [k \in Stage |-> IF place'[k] = "none" THEN 0 ELSE disk[k]]

Current(o) == op[o].rev = doc.rev /\ doc.rev < MaxRev
Changed(o, i) == stale' = stale \cup
  {j \in {i} : \E p \in Op \ {o} : op[p].pc \in {"read", "insert", "tidy"} /\ op[p].recs[i] # Absent}
-----------------------------------------------------------------------------
(* Reviews.                                                                *)

\* stage(): a plugin is loaded one way only, and within the limit.  Reviews
\* older than their time are dropped with their copies.
Stages(i, src, expired) ==
  /\ folder[i] # 0
  /\ doc.plugins[i].src \in {"none", src}
  /\ i \notin Known => Cardinality(Known) < MaxPlugins
  /\ \E k \in Stage :
       /\ staged[k] = NoReview /\ place[k] = "none" /\ \A j \in 1..(k - 1) : staged[j] # NoReview \/ place[j] # "none" \/ j \in expired
       /\ staged' = [j \in Stage |-> IF j = k THEN [here |-> TRUE, src |-> src, id |-> i, v |-> folder[i]]
                                     ELSE IF j \in expired THEN NoReview ELSE staged[j]]
       /\ place' = [j \in Stage |-> IF j = k /\ src = "installed" THEN "staging"
                                    ELSE IF j \in expired THEN "none" ELSE place[j]]
       /\ disk' = [j \in Stage |-> IF j = k /\ src = "installed" THEN folder[i]
                                   ELSE IF j \in expired THEN 0 ELSE disk[j]]
Pick(i, src) ==
  /\ \E expired \in SUBSET {k \in Stage : staged[k].here} : Stages(i, src, expired)
  /\ UNCHANGED <<folder, doc, loaded, acp, op, acked, edits, crashes, stale, crossed>>
Discard(k) ==
  /\ staged[k].here /\ staged' = [staged EXCEPT ![k] = NoReview]
  /\ place' = Dropped(k) /\ disk' = Files
  /\ UNCHANGED <<folder, doc, loaded, acp, op, acked, edits, crashes, stale, crossed>>
-----------------------------------------------------------------------------
(* Installing.                                                             *)

\* The review is taken, once; one that waited too long is dropped.
InstallTake(o, k) ==
  /\ Free(o) /\ staged[k].here
  /\ staged' = [staged EXCEPT ![k] = NoReview]
  /\ \/ place' = Dropped(k) /\ disk' = Files /\ UNCHANGED op
     \/ /\ op' = [op EXCEPT ![o] = [Idle EXCEPT !.pc = "move", !.id = staged[k].id,
                                                !.rev = doc.rev, !.review = staged[k],
                                                !.dir = IF staged[k].src = "dev" THEN 0 ELSE k]]
        /\ UNCHANGED <<place, disk>>
  /\ UNCHANGED <<folder, doc, loaded, acp, acked, edits, crashes, stale, crossed>>

\* The files are read again and moved to packages/ if they are what was
\* reviewed.
Same(o) ==
  LET r == op[o].review IN
  IF r.src = "dev" THEN folder[r.id] # 0 /\ Shape[folder[r.id]] = Shape[r.v] ELSE disk[op[o].dir] = r.v
Moved(o) == [k \in Stage |-> IF k = op[o].dir THEN "packages" ELSE place[k]]
InstallMove(o) ==
  /\ op[o].pc = "move"
  /\ IF Same(o)
     THEN /\ op' = [op EXCEPT ![o].pc = "commit"]
          /\ place' = Moved(o) /\ disk' = Files
     ELSE op' = [op EXCEPT ![o] = Idle] /\ place' = Dropped(op[o].dir) /\ disk' = Files
  /\ UNCHANGED <<folder, doc, loaded, staged, acp, acked, edits, crashes, stale, crossed>>

\* An update keeps the settings; a refused commit deletes the new copy.
Room(i) == i \in Known \/ Cardinality(Known) < MaxPlugins
Refused(o) == Dropped(op[o].dir)
InstallCommit(o) ==
  LET i == op[o].id
      r == op[o].review
      rec == [src |-> r.src, dir |-> op[o].dir, v |-> r.v,
              enabled |-> TRUE, settings |-> doc.plugins[i].settings]
  IN /\ op[o].pc = "commit"
     /\ \/ /\ Current(o) /\ Room(i)
           /\ doc' = [doc EXCEPT !.rev = @ + 1, !.plugins[i] = rec]
           /\ op' = [op EXCEPT ![o].pc = "tidy", ![o].dir = doc.plugins[i].dir,
                               ![o].recs = [Idle.recs EXCEPT ![i] = rec]]
           /\ Changed(o, i) /\ UNCHANGED <<place, disk>>
        \/ /\ op' = [op EXCEPT ![o] = Idle]
           /\ place' = Refused(o) /\ disk' = Files /\ UNCHANGED <<doc, stale>>
     /\ UNCHANGED <<folder, loaded, staged, acp, acked, edits, crashes, crossed>>

\* The previous copy goes, then the new one is verified like any other.
InstallTidy(o) ==
  LET i == op[o].id IN
  /\ op[o].pc = "tidy"
  /\ place' = Dropped(op[o].dir) /\ disk' = Files
  /\ op' = [op EXCEPT ![o].pc = "insert", ![o].dir = 0, ![o].seen[i] = Load(i, op[o].recs[i])]
  /\ UNCHANGED <<folder, doc, loaded, staged, acp, acked, edits, crashes, stale, crossed>>
-----------------------------------------------------------------------------
(* Verification and reload.                                                *)

\* verify(): the records are copied, the packages read, the results kept.
VerifyStart(o) ==
  /\ Free(o) /\ \A i \in Id : ~loaded[i].here
  /\ op' = [op EXCEPT ![o] = [Idle EXCEPT !.pc = "read", !.recs = doc.plugins]]
  /\ UNCHANGED <<folder, place, disk, doc, loaded, staged, acp, acked, edits, crashes, stale, crossed>>
VerifyRead(o) ==
  /\ op[o].pc = "read"
  /\ op' = [op EXCEPT ![o].pc = "insert",
                      ![o].seen = [i \in Id |-> IF op[o].recs[i] = Absent THEN NotLoaded ELSE Load(i, op[o].recs[i])]]
  /\ UNCHANGED <<folder, place, disk, doc, loaded, staged, acp, acked, edits, crashes, stale, crossed>>

\* reload() of a development plugin, for the revision the user saw.
Reload(o, i) ==
  /\ Free(o) /\ doc.plugins[i].src = "dev"
  /\ op' = [op EXCEPT ![o] = [Idle EXCEPT !.again = TRUE, !.pc = "insert", !.id = i,
                 !.recs = [Idle.recs EXCEPT ![i] = doc.plugins[i]],
                 !.seen = [Idle.seen EXCEPT ![i] = Load(i, doc.plugins[i])]]]
  /\ UNCHANGED <<folder, place, disk, doc, loaded, staged, acp, acked, edits, crashes, stale, crossed>>

\* A reloaded plugin whose shape changed is staged for another review.
Insert(o) ==
  LET seen == op[o].seen
      review == op[o].again /\ ~seen[op[o].id].good /\ seen[op[o].id].v # 0
  IN /\ op[o].pc = "insert"
     /\ loaded' = [i \in Id |-> IF seen[i].here THEN seen[i] ELSE loaded[i]]
     /\ \/ /\ review
           /\ \E expired \in SUBSET {k \in Stage : staged[k].here} : Stages(op[o].id, "dev", expired)
        \/ UNCHANGED <<staged, place, disk>>
     /\ op' = [op EXCEPT ![o] = After]
     /\ stale' = stale \cup {i \in Id : seen[i].here /\ \E p \in Op \ {o} : op[p].pc \in {"insert", "tidy"} /\ op[p].recs[i] # Absent}
     /\ UNCHANGED <<folder, doc, acp, acked, edits, crashes, crossed>>
-----------------------------------------------------------------------------
(* The other commands.                                                     *)

SetEnabled(o, i, b) ==
  /\ Free(o) /\ i \in Known /\ doc.plugins[i].enabled # b /\ doc.rev < MaxRev
  /\ doc' = [doc EXCEPT !.rev = @ + 1, !.plugins[i].enabled = b]
  /\ op' = [op EXCEPT ![o] = After]
  /\ UNCHANGED <<folder, place, disk, loaded, staged, acp, acked, edits, crashes, stale, crossed>>

\* remove(): the record, the verified package and the theme go together; the
\* copy is deleted afterwards.
ThemeWithout(i) == IF doc.theme = i THEN NoId ELSE doc.theme
Delete(o, i) ==
  /\ Free(o) /\ i \in Known /\ doc.rev < MaxRev
  /\ doc' = [rev |-> doc.rev + 1, plugins |-> [doc.plugins EXCEPT ![i] = Absent], theme |-> ThemeWithout(i)]
  /\ loaded' = [loaded EXCEPT ![i] = NotLoaded] /\ acked' = [acked EXCEPT ![i] = {}]
  /\ op' = [op EXCEPT ![o] = [Idle EXCEPT !.pc = "delete", !.dir = doc.plugins[i].dir]]
  /\ Changed(o, i)
  /\ UNCHANGED <<folder, place, disk, staged, acp, edits, crashes, crossed>>
DeleteFiles(o) ==
  /\ op[o].pc = "delete"
  /\ place' = Dropped(op[o].dir) /\ disk' = Files
  /\ op' = [op EXCEPT ![o] = After]
  /\ UNCHANGED <<folder, doc, loaded, staged, acp, acked, edits, crashes, stale, crossed>>

Merged(o, i) == doc.plugins[i].settings \cup {o}
SetSettings(o, i) ==
  /\ Free(o) /\ Active(i)
  /\ op' = [op EXCEPT ![o] = [Idle EXCEPT !.pc = "save", !.id = i, !.rev = doc.rev,
                                          !.set = Merged(o, i)]]
  /\ UNCHANGED <<folder, place, disk, doc, loaded, staged, acp, acked, edits, crashes, stale, crossed>>
SaveSettings(o) ==
  LET i == op[o].id IN
  /\ op[o].pc = "save" /\ op' = [op EXCEPT ![o] = Idle]
  /\ \/ /\ Current(o) /\ i \in Known
        /\ doc' = [doc EXCEPT !.rev = @ + 1, !.plugins[i].settings = op[o].set]
        /\ acked' = [acked EXCEPT ![i] = @ \cup {o}]
     \/ UNCHANGED <<doc, acked>>
  /\ UNCHANGED <<folder, place, disk, loaded, staged, acp, edits, crashes, stale, crossed>>
SetTheme(o, i) ==
  /\ Free(o) /\ Active(i) /\ doc.theme # i
  /\ op' = [op EXCEPT ![o] = [Idle EXCEPT !.pc = "theme", !.id = i, !.rev = doc.rev]]
  /\ UNCHANGED <<folder, place, disk, doc, loaded, staged, acp, acked, edits, crashes, stale, crossed>>
SaveTheme(o) ==
  /\ op[o].pc = "theme" /\ op' = [op EXCEPT ![o] = Idle]
  /\ \/ Current(o) /\ doc' = [doc EXCEPT !.rev = @ + 1, !.theme = op[o].id]
     \/ UNCHANGED doc
  /\ UNCHANGED <<folder, place, disk, loaded, staged, acp, acked, edits, crashes, stale, crossed>>

\* sync_acp(): the active plugins are listed, then their agents registered.
Agents(o) ==
  /\ op[o].pc = "agents"
  /\ op' = [op EXCEPT ![o].pc = "register", ![o].agents = {i \in Id : Active(i)}]
  /\ UNCHANGED <<folder, place, disk, doc, loaded, staged, acp, acked, edits, crashes, stale, crossed>>
Register(o) ==
  /\ op[o].pc = "register" /\ op' = [op EXCEPT ![o] = Idle]
  /\ acp' = op[o].agents
  /\ crossed' = (crossed \/ \E p \in Op \ {o} : op[p].pc = "register")
  /\ UNCHANGED <<folder, place, disk, doc, loaded, staged, acked, edits, crashes, stale>>
-----------------------------------------------------------------------------
\* The user or a developer changes a source folder.
Edit(i) ==
  /\ edits + crashes < MaxEvent /\ edits' = edits + 1
  /\ \E v \in Version \ {folder[i]} : folder' = [folder EXCEPT ![i] = v]
  /\ UNCHANGED <<place, disk, doc, loaded, staged, acp, op, acked, crashes, stale, crossed>>

\* open(): reviews never survive a restart; packages are verified again.
Restart ==
  /\ edits + crashes < MaxEvent /\ crashes' = crashes + 1
  /\ place' = [k \in Stage |-> IF place[k] = "staging" THEN "none" ELSE place[k]]
  /\ disk' = Files
  /\ loaded' = [i \in Id |-> NotLoaded] /\ staged' = [k \in Stage |-> NoReview]
  /\ acp' = {} /\ op' = [o \in Op |-> Idle] /\ stale' = {} /\ crossed' = FALSE
  /\ UNCHANGED <<folder, doc, acked, edits>>

Next ==
  \/ \E i \in Id, src \in {"installed", "dev"} : Pick(i, src)
  \/ \E k \in Stage : Discard(k) \/ \E o \in Op : InstallTake(o, k)
  \/ \E o \in Op : \/ InstallMove(o) \/ InstallCommit(o) \/ InstallTidy(o) \/ VerifyStart(o)
                   \/ VerifyRead(o) \/ Insert(o) \/ DeleteFiles(o) \/ SaveSettings(o) \/ SaveTheme(o)
                   \/ Agents(o) \/ Register(o)
  \/ \E o \in Op, i \in Id : \/ Reload(o, i) \/ Delete(o, i) \/ SetSettings(o, i) \/ SetTheme(o, i)
                             \/ \E b \in BOOLEAN : SetEnabled(o, i, b)
  \/ \E i \in Id : Edit(i)
  \/ Restart
Spec == Init /\ [][Next]_vars
-----------------------------------------------------------------------------
\* Every installed plugin on record has its copy, and it is the version that
\* was reviewed: through updates, refused commits, removals and restarts.
RecordedIsOnDisk ==
  \A i \in Id : LET rec == doc.plugins[i] IN
    rec.src = "installed" => place[rec.dir] = "packages" /\ disk[rec.dir] = rec.v

\* Without a restart in the middle of a command, PiUI keeps no copy that is
\* neither on record, under review nor in a command's hands.
NoCopyLeft ==
  crashes = 0 =>
    \A k \in Stage : place[k] # "none" =>
      \/ staged[k].here
      \/ \E i \in Id : doc.plugins[i].dir = k
      \/ \E o \in Op : op[o].dir = k

\* The theme belongs to a plugin on record, although the check that the plugin
\* is active and the write are two steps (set_theme).
ThemeIsKnown == doc.theme # NoId => doc.theme \in Known

\* Settings acknowledged to the user stay until the plugin is removed: two
\* windows that save at once do not lose each other's values.
SettingsStay == \A i \in Id : acked[i] \subseteq doc.plugins[i].settings

\* An active plugin runs what the user trusted: its verified package matches
\* its record, unless the package was read while another command changed it.
ActiveIsTrusted ==
  \A i \in Id \ stale :
    Active(i) /\ (\A o \in Op : op[o].pc \in {"tidy", "insert"} => op[o].recs[i] = Absent)
      => Good(doc.plugins[i], loaded[i].v)

\* With no command in progress the registered ACP agents are those of the
\* active plugins, unless two registrations ran beside each other.
AgentsFollow ==
  (\A o \in Op : Free(o)) /\ ~crossed /\ (\E i \in Id : loaded[i].here) => acp = {i \in Id : Active(i)}

=============================================================================
