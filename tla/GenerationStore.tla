-------------------------- MODULE GenerationStore --------------------------
(***************************************************************************)
(* The host's durable documents.  Five stores keep one document each as    *)
(* numbered generation files in a directory of their own:                  *)
(*                                                                         *)
(*   journal   pipeline runs, definitions and schedules                    *)
(*             (orchestration_store.rs)                                    *)
(*   library   pipeline templates (pipeline_library.rs)                    *)
(*   registry  chat sessions (workspace_store.rs), with cached receipts    *)
(*   outbox    the message queue of one chat (workspace_store.rs)          *)
(*   board     the board of one project (board/store.rs)                   *)
(*                                                                         *)
(* They share one protocol.  A save creates a new file, writes it, syncs   *)
(* it, and only then shows its document and removes older files.  They     *)
(* differ in how a save numbers its file, how many files it leaves, and    *)
(* what opening the directory does with a file it cannot load.             *)
(*                                                                         *)
(* The process may end between any two steps.  A loss of power also tears  *)
(* or removes files that were never synced; the name of a synced file is   *)
(* taken to survive.  Each store has one writer at a time (a mutex), and   *)
(* readers see the document in memory at any moment.                       *)
(***************************************************************************)

EXTENDS Integers, FiniteSets, TLAPS

CONSTANTS Stores,    \* the stores of this instance
          Doc,       \* documents
          Rejected,  \* documents a save accepts and opening refuses
          Empty,     \* the document of a directory without a loadable file
          Receipt,   \* values of the registry's cached part
          NoReceipt, \* its initial value
          Offline,   \* what readers see while the process is down
          Kept,      \* files the board leaves behind a save
          MaxGen,    \* the last generation number (2^64 - 1 in the code)
          MaxCrash,  \* bound on the times the process ends
          MaxTrouble, \* bound on I/O errors outside the write itself
          MaxDamage  \* bound on files damaged at rest

AllStores == {"journal", "library", "registry", "outbox", "board"}

ASSUME StoreAssumption ==
    /\ Stores \subseteq AllStores
    /\ Rejected \subseteq Doc
    /\ Empty \in Doc \ Rejected
    /\ NoReceipt \in Receipt
    /\ Offline \notin Doc
    /\ Kept \in Nat \ {0}
    /\ MaxGen \in Nat
    /\ MaxCrash \in Nat
    /\ MaxTrouble \in Nat
    /\ MaxDamage \in Nat

Gen == 1 .. MaxGen

Value == [doc : Doc, receipts : Receipt]
Blank == [doc |-> Empty, receipts |-> NoReceipt]

VARIABLES store,     \* which of the stores this is
          files,     \* the directory: a file, torn, whole or absent, per number
          phase,     \* where the writer stands, "down" between two lives
          staged,    \* generation and value being saved
          current,   \* generation and value in memory
          counter,   \* next_generation of library and registry
          unsynced,  \* cached receipts not yet in a file
          confirmed, \* generation and value of the last confirmed save
          failed,    \* generations whose save was reported as failed
          saves,     \* generations of all confirmed saves
          crashes, trouble, damage

memory == <<current, counter, unsynced>>
history == <<confirmed, failed, saves>>
bounds == <<crashes, trouble, damage>>
vars == <<store, files, phase, staged, memory, history, bounds>>

Absent == [is |-> "absent", val |-> Blank, synced |-> FALSE]
Torn == [is |-> "torn", val |-> Blank, synced |-> FALSE]
Whole(v) == [is |-> "whole", val |-> v, synced |-> FALSE]
Synced(v) == [is |-> "whole", val |-> v, synced |-> TRUE]

File == [is : {"absent", "torn", "whole"}, val : Value, synced : BOOLEAN]
Versioned == [gen : 0 .. MaxGen, val : Value]
Nothing == [gen |-> 0, val |-> Blank]

Exists(g) == files[g].is # "absent"

(* A file that parses, names its own generation and passes validation. *)
Loadable(g) == files[g].is = "whole" /\ files[g].val.doc \notin Rejected

(* n is the highest member of S, or 0 when S has none. *)
IsHighest(n, S) ==
    \/ n \in S /\ \A g \in S : g <= n
    \/ n = 0 /\ S = {}

Present == {g \in Gen : Exists(g)}
LoadableSet == {g \in Gen : Loadable(g)}

Init ==
    /\ store \in Stores
    /\ files = [g \in Gen |-> Absent]
    /\ phase = "idle"
    /\ staged = Nothing
    /\ current = Nothing
    /\ counter = 0
    /\ unsynced = FALSE
    /\ confirmed = Nothing
    /\ failed = {}
    /\ saves = {}
    /\ crashes = 0 /\ trouble = 0 /\ damage = 0

-----------------------------------------------------------------------------
(* An I/O error that the code ignores or recovers from. *)
Troubled ==
    /\ trouble < MaxTrouble
    /\ trouble' = trouble + 1

(* The number of the next file: after the document in memory (journal,     *)
(* outbox), after next_generation (library, registry), or after the        *)
(* highest number in the directory (board).                                *)
NextGeneration(g) ==
    \/ store \in {"journal", "outbox"} /\ g = current.gen + 1
    \/ store \in {"library", "registry"} /\ g = counter + 1
    \/ store = "board" /\ IsHighest(g - 1, Present)

(* persist begins: the file is created under a free number.  An exhausted  *)
(* number or a file that already has the name fails the save and changes   *)
(* nothing, which is no step.  The board takes a directory it cannot list  *)
(* for an empty one.                                                       *)
Create(v) ==
    /\ phase = "idle"
    /\ \E g \in Gen :
          /\ \/ NextGeneration(g) /\ UNCHANGED trouble
             \/ store = "board" /\ g = 1 /\ Troubled
          /\ ~Exists(g)
          /\ staged' = [gen |-> g, val |-> v]
          /\ files' = [files EXCEPT ![g] = Torn]
          /\ failed' = failed \ {g}
    /\ phase' = "created"
    /\ UNCHANGED <<store, memory, confirmed, saves, crashes, damage>>

(* A transaction replaces the document; receipts in memory go with it.     *)
(* Library and board write nothing when the document did not change.       *)
Save(d) ==
    /\ store \in {"library", "board"} => d # current.val.doc
    /\ Create([current.val EXCEPT !.doc = d])

(* update_cached: readers see new receipts before any file holds them. *)
UpdateCached(r) ==
    /\ store = "registry" /\ phase = "idle"
    /\ r # current.val.receipts
    /\ current' = [current EXCEPT !.val.receipts = r]
    /\ unsynced' = TRUE
    /\ UNCHANGED <<store, files, phase, staged, counter, history, bounds>>

(* flush_cached writes the receipts as a generation of their own. *)
FlushCached ==
    /\ store = "registry" /\ unsynced
    /\ Create(current.val)

(* write_all and flush: every byte is written, none is forced to disk. *)
Write ==
    /\ phase = "created"
    /\ files' = [files EXCEPT ![staged.gen] = Whole(staged.val)]
    /\ phase' = "written"
    /\ UNCHANGED <<store, staged, memory, history, bounds>>

(* Variant: sync_all is left out. *)
SkipSync ==
    /\ phase = "written"
    /\ phase' = "synced"
    /\ UNCHANGED <<store, files, staged, memory, history, bounds>>

(* sync_all. *)
Sync ==
    /\ phase = "written"
    /\ files' = [files EXCEPT ![staged.gen] = Synced(staged.val)]
    /\ phase' = "synced"
    /\ UNCHANGED <<store, staged, memory, history, bounds>>

(* write_all, flush or sync_all fails: the file is removed, the removal's  *)
(* own failure is ignored, and the save is reported as failed.             *)
WriteFails ==
    /\ phase \in {"created", "written"}
    /\ \/ /\ files' = [files EXCEPT ![staged.gen] = Absent]
          /\ UNCHANGED trouble
       \/ Troubled /\ UNCHANGED files
    /\ failed' = failed \cup {staged.gen}
    /\ phase' = "idle"
    /\ UNCHANGED <<store, staged, memory, confirmed, saves, crashes, damage>>

(* The staged document replaces the one in memory. *)
Show ==
    /\ current' = staged
    /\ counter' = staged.gen
    /\ unsynced' = FALSE
    /\ confirmed' = staged
    /\ saves' = saves \cup {staged.gen}

(* Every store but the board shows the document before it removes files. *)
Publish ==
    /\ phase = "synced"
    /\ phase' = "cleaning"
    /\ IF store = "board"
       THEN UNCHANGED <<memory, confirmed, saves>>
       ELSE Show
    /\ UNCHANGED <<store, files, staged, failed, crashes, trouble, damage>>

(* Variant: one file fewer is kept. *)
KeepFewer == IF store = "board" THEN staged.gen - (Kept - 2) ELSE staged.gen + 1

KeepFrom == IF store = "board" THEN staged.gen - (Kept - 1) ELSE staged.gen

(* One removal of remove_older_generations; the order is the directory's. *)
RemoveOlder(g) ==
    /\ phase = "cleaning"
    /\ Exists(g)
    /\ g < KeepFrom
    /\ files' = [files EXCEPT ![g] = Absent]
    /\ UNCHANGED <<store, phase, staged, memory, history, bounds>>

(* The save returns, whether or not every removal succeeded.  The board's  *)
(* service shows the document only now.  The outbox reports a failed save  *)
(* when it cannot list the files to remove.                                *)
Finish ==
    /\ phase = "cleaning"
    /\ phase' = "idle"
    /\ IF store = "board"
       THEN Show
       ELSE UNCHANGED <<memory, confirmed, saves>>
    /\ \/ UNCHANGED <<failed, trouble>>
       \/ store = "outbox" /\ Troubled /\ failed' = failed \cup {staged.gen}
    /\ UNCHANGED <<store, files, staged, crashes, damage>>

-----------------------------------------------------------------------------
Unsafe == {g \in Gen : Exists(g) /\ ~files[g].synced}

(* The process ends.  With the machine's power, files never synced may     *)
(* come back torn or not at all.                                           *)
Crash ==
    /\ phase # "down" /\ crashes < MaxCrash
    /\ \E lost \in SUBSET Unsafe : \E after \in {Torn, Absent} :
          files' = [g \in Gen |-> IF g \in lost THEN after ELSE files[g]]
    /\ phase' = "down"
    /\ current' = Nothing /\ counter' = 0 /\ unsynced' = FALSE
    /\ crashes' = crashes + 1
    /\ UNCHANGED <<store, staged, history, trouble, damage>>

(* A file at rest is damaged: it no longer parses. *)
Decay(g) ==
    /\ damage < MaxDamage
    /\ phase \in {"idle", "down"}
    /\ files[g].is = "whole"
    /\ files' = [files EXCEPT ![g] = [Torn EXCEPT !.synced = TRUE]]
    /\ damage' = damage + 1
    /\ UNCHANGED <<store, phase, staged, memory, history, crashes, trouble>>

Load(n) == IF n = 0 THEN Nothing ELSE [gen |-> n, val |-> files[n].val]

(* Opening the directory.  A file that cannot be read counts as one that   *)
(* does not parse.  The journal also removes what it cannot load; the      *)
(* outbox refuses to open unless its newest file loads; library and        *)
(* registry number the next file after every file they found.              *)
OpenReading(readable) ==
    /\ \E n \in 0 .. MaxGen :
          /\ IsHighest(n, readable)
          /\ store = "outbox" => IsHighest(n, Present)
          /\ current' = Load(n)
    /\ \E discarded \in
             IF store = "journal" THEN SUBSET (Present \ readable) ELSE {{}} :
          files' = [g \in Gen |-> IF g \in discarded THEN Absent ELSE files[g]]
    /\ \E n \in 0 .. MaxGen : IsHighest(n, Present) /\ counter' = n

Open ==
    /\ phase = "down"
    /\ \/ OpenReading(LoadableSet) /\ UNCHANGED trouble
       \/ \E g \in LoadableSet : OpenReading(LoadableSet \ {g}) /\ Troubled
    /\ phase' = "idle"
    /\ unsynced' = FALSE
    /\ UNCHANGED <<store, staged, history, crashes, damage>>

-----------------------------------------------------------------------------
Next ==
    \/ \E d \in Doc : Save(d)
    \/ \E r \in Receipt : UpdateCached(r)
    \/ FlushCached
    \/ Write
    \/ Sync
    \/ WriteFails
    \/ Publish
    \/ \E g \in Gen : RemoveOlder(g)
    \/ Finish
    \/ Crash
    \/ \E g \in Gen : Decay(g)
    \/ Open

Spec == Init /\ [][Next]_vars

-----------------------------------------------------------------------------
Phases == {"idle", "created", "written", "synced", "cleaning", "down"}

TypeOK ==
    /\ store \in Stores
    /\ files \in [Gen -> File]
    /\ phase \in Phases
    /\ staged \in Versioned
    /\ current \in Versioned
    /\ counter \in 0 .. MaxGen
    /\ unsynced \in BOOLEAN
    /\ confirmed \in Versioned
    /\ failed \subseteq Gen
    /\ saves \subseteq Gen
    /\ crashes \in 0 .. MaxCrash
    /\ trouble \in 0 .. MaxTrouble
    /\ damage \in 0 .. MaxDamage

(* Whatever the moment the process or the machine stops, the next opening  *)
(* finds the last confirmed save or a later one: its file stays, synced    *)
(* and with its document, until a later one is synced.  Opening loads the  *)
(* highest loadable file, so it never goes back behind a confirmed save.   *)
ConfirmedSurvives ==
    confirmed.gen > 0 =>
        \E g \in Gen :
            /\ g >= confirmed.gen
            /\ Loadable(g) /\ files[g].synced
            /\ g = confirmed.gen => files[g].val = confirmed.val

(* Readers never see the document of a save that was reported as failed,   *)
(* neither in the same life of the process nor after a restart.            *)
FailedStaysOut == phase # "down" => current.gen \notin failed

(* Receipts of the registry that are not marked unsynced are in the file   *)
(* of the current generation: a crash loses only what update_cached marked *)
(* and never the document it was cached beside.                            *)
OnlyReceiptsAtRisk ==
    store = "registry" /\ phase = "idle" /\ current.gen > 0 =>
        /\ files[current.gen].val.doc = current.val.doc
        /\ ~unsynced => files[current.gen].val = current.val

(* A later save is never hidden behind an earlier file: the file a save is *)
(* writing has the highest number among all files that could be loaded.    *)
SaveIsNewest ==
    phase \in {"created", "written", "synced", "cleaning"} =>
        \A g \in LoadableSet : g <= staged.gen

\* What a store promises together: a confirmed document survives crashes, a write that
\* was refused does not come back, at most the receipt of the newest save is at risk,
\* and a save is the newest generation.
StoreSound ==
  /\ TypeOK
  /\ ConfirmedSurvives
  /\ FailedStaysOut
  /\ OnlyReceiptsAtRisk
  /\ SaveIsNewest

(* Opening the outbox never falls back to a queue older than the last      *)
(* confirmed one, whichever files are damaged, torn or unreadable.         *)
NeverOlder ==
    [][phase = "down" /\ phase' = "idle" /\ store = "outbox"
          => current'.gen >= confirmed.gen]_vars

(* The board survives damage: while fewer files were damaged than saved    *)
(* boards are among the last Kept numbers of its directory, some board     *)
(* still loads.  A file an interrupted save left takes one of the numbers. *)
PreviousKept ==
    store = "board" =>
        \A top \in Gen :
            IsHighest(top, Present) =>
                \/ damage >= Cardinality({g \in saves : g > top - Kept})
                \/ LoadableSet # {}

(* The store as a register: what a restart may show besides the confirmed  *)
(* document, and what readers see.                                         *)
Doubt == {files[g].val.doc : g \in {h \in LoadableSet : h > confirmed.gen}}
Visible == IF phase = "down" THEN Offline ELSE current.val.doc

Register == INSTANCE DurableRegister WITH
    confirmed <- confirmed.val.doc, doubt <- Doubt, visible <- Visible

(* However it numbers its files, a store is a durable register: confirmed  *)
(* saves stay, a restart shows the confirmed document or an unconfirmed    *)
(* one that had reached the disk, and nothing else is ever shown.          *)
ImplementsRegister == Register!Spec

-----------------------------------------------------------------------------
(***************************************************************************)
(* On a disk whose only faults are failing writes and lost unsynced files, *)
(* every store keeps its confirmed saves, never shows a save it reported   *)
(* as failed, and implements a durable register: for any documents, any    *)
(* number of generations, any number kept, and any number of crashes.      *)
(*                                                                         *)
(* ConfirmedSurvives is not inductive: nothing in it says that the file a  *)
(* save creates, and will later make current and clean up behind, is ahead *)
(* of the confirmed one.  StoreInv adds how the numbers in memory relate   *)
(* to the numbers in the directory, and what the staged file holds.        *)
(***************************************************************************)

(* The assumption on the disk and on the documents: no error outside the   *)
(* writes, no damage at rest, and opening accepts what was saved.          *)
SoundDisk == MaxTrouble = 0 /\ MaxDamage = 0 /\ Rejected = {}

Saving == phase \in {"created", "written", "synced"}

(* The number the next file follows, for the stores that remember it. *)
Base == IF store \in {"journal", "outbox"} THEN current.gen ELSE counter

(* The file of the save in progress is what the save has made of it. *)
StagedFile ==
    /\ Saving \/ phase = "cleaning" => staged.gen \in Gen
    /\ phase = "created" => files[staged.gen] = Torn
    /\ phase = "written" => files[staged.gen] = Whole(staged.val)
    /\ phase \in {"synced", "cleaning"} => files[staged.gen] = Synced(staged.val)

(* A save that is not confirmed yet is ahead of the confirmed one; the     *)
(* others but the board's are shown and confirmed before the cleaning.     *)
StagedAhead ==
    /\ Saving \/ (phase = "cleaning" /\ store = "board") => confirmed.gen < staged.gen
    /\ phase = "cleaning" /\ store # "board" =>
          confirmed = staged /\ current = staged /\ counter = staged.gen

(* Memory is never behind the confirmed save, nor behind a loadable file   *)
(* other than the one being saved.                                         *)
MemoryAhead ==
    /\ phase # "down" /\ store # "board" => confirmed.gen <= Base
    /\ Saving /\ store # "board" => staged.gen = Base + 1
    /\ phase # "down" /\ store # "board" =>
          \A g \in LoadableSet : g <= Base \/ (Saving /\ g = staged.gen)
    /\ (Saving \/ phase = "cleaning") /\ store = "board" =>
          \A g \in LoadableSet : g <= staged.gen

(* The file numbered like the confirmed save holds its value. *)
ConfirmedFile ==
    /\ confirmed.gen \in Gen /\ Loadable(confirmed.gen)
          => files[confirmed.gen].val = confirmed.val
    /\ confirmed.gen = 0 => confirmed.val = Blank

(* A failed save has no file, and its number is not the one in memory. *)
FailedGone ==
    /\ \A g \in failed : files[g] = Absent
    /\ phase # "down" => current.gen \notin failed
    /\ phase \notin {"down", "cleaning"} /\ current.gen # 0 =>
          current.gen \in Gen /\ Exists(current.gen)
    /\ Saving => current.gen # staged.gen
    /\ Saving \/ phase = "cleaning" => staged.gen \notin failed

StoreInv ==
    /\ TypeOK
    /\ ConfirmedSurvives
    /\ StagedFile
    /\ StagedAhead
    /\ MemoryAhead
    /\ ConfirmedFile
    /\ FailedGone

-----------------------------------------------------------------------------
(* The files an action writes are files. *)
LEMMA FileTypes ==
    /\ Blank \in Value /\ Nothing \in Versioned
    /\ Absent \in File /\ Torn \in File
    /\ \A v \in Value : Whole(v) \in File /\ Synced(v) \in File
<1>1. Blank \in Value
  BY StoreAssumption DEF Blank, Value
<1>2. QED
  BY <1>1, StoreAssumption DEF Nothing, Versioned, Absent, Torn, Whole, Synced, File

(* A sound disk has no error outside the writes and no damage. *)
LEMMA Untroubled ==
    ASSUME SoundDisk, TypeOK
    PROVE  /\ ~Troubled
           /\ \A g \in Gen : ~Decay(g)
BY DEF SoundDisk, TypeOK, Troubled, Decay

(* A new store is empty. *)
LEMMA StoreInit == Init => StoreInv
<1> SUFFICES ASSUME Init PROVE StoreInv
  OBVIOUS
<1>1. TypeOK
  <2>1. files \in [Gen -> File]
    BY FileTypes DEF Init
  <2>2. 0 \in 0 .. MaxGen /\ 0 \in 0 .. MaxCrash /\ 0 \in 0 .. MaxTrouble /\ 0 \in 0 .. MaxDamage
    BY StoreAssumption
  <2>3. QED
    BY <2>1, <2>2, FileTypes DEF Init, TypeOK, Phases
<1>2. ConfirmedSurvives /\ StagedFile /\ StagedAhead
  BY DEF Init, ConfirmedSurvives, StagedFile, StagedAhead, Saving, Nothing
<1>3. MemoryAhead
  BY DEF Init, MemoryAhead, Base, Saving, LoadableSet, Loadable, Absent, Nothing
<1>4. ConfirmedFile /\ FailedGone
  BY DEF Init, ConfirmedFile, FailedGone, Saving, Nothing, Gen
<1>5. QED
  BY <1>1, <1>2, <1>3, <1>4 DEF StoreInv

(* A new file takes a free number above every loadable file. *)
LEMMA CreateKeeps ==
    ASSUME SoundDisk, StoreInv, NEW v \in Value, Create(v)
    PROVE  StoreInv'
<1> USE StoreAssumption DEF StoreInv, SoundDisk
<1>0. PICK g \in Gen : /\ NextGeneration(g) /\ ~Exists(g) /\ UNCHANGED trouble
                      /\ staged' = [gen |-> g, val |-> v]
                      /\ files' = [files EXCEPT ![g] = Torn]
                      /\ failed' = failed \ {g}
  BY Untroubled DEF Create
<1>1. /\ phase = "idle" /\ phase' = "created"
      /\ UNCHANGED <<store, current, counter, unsynced, confirmed, saves, crashes, damage>>
  BY DEF Create, memory
<1>2. g \in Nat /\ g > 0 /\ confirmed.gen \in Nat /\ current.gen \in Nat
  BY DEF Gen, TypeOK, Versioned
<1>3. \A h \in Gen : h # g => files'[h] = files[h]
  BY <1>0 DEF TypeOK
<1>4. files'[g] = Torn /\ staged'.gen = g
  BY <1>0 DEF TypeOK
<1>5. \A h \in LoadableSet : h < g
  <2>1. CASE store = "board"
    BY <1>0, <1>2, <2>1 DEF NextGeneration, IsHighest, Present, LoadableSet, Loadable, Exists, Gen
  <2>2. CASE store # "board"
    BY <1>0, <1>1, <1>2, <2>2 DEF NextGeneration, MemoryAhead, Base, Saving, TypeOK, Versioned, Gen, LoadableSet
  <2>3. QED
    BY <2>1, <2>2
<1>6. LoadableSet' \subseteq LoadableSet
  BY <1>3, <1>4 DEF LoadableSet, Loadable, Torn
<1>7. confirmed.gen < g
  <2>1. CASE confirmed.gen = 0
    BY <1>2, <2>1
  <2>2. CASE confirmed.gen > 0
    BY <1>2, <1>5, <2>2 DEF ConfirmedSurvives, LoadableSet, Gen
  <2>3. QED
    BY <1>2, <2>1, <2>2
<1>a. TypeOK'
  BY <1>0, <1>1, FileTypes DEF TypeOK, Phases, Versioned, Gen
<1>b. ConfirmedSurvives'
  BY <1>0, <1>1, <1>3 DEF ConfirmedSurvives, Loadable, Exists
<1>c. StagedFile'
  BY <1>1, <1>4 DEF StagedFile, Saving
<1>d. StagedAhead'
  BY <1>1, <1>4, <1>7 DEF StagedAhead, Saving
<1>e. MemoryAhead'
  BY <1>0, <1>1, <1>2, <1>4, <1>5, <1>6 DEF MemoryAhead, Base, Saving, NextGeneration, LoadableSet, Gen
<1>f. ConfirmedFile'
  BY <1>1, <1>2, <1>3, <1>7 DEF ConfirmedFile, Loadable
<1>g. FailedGone'
  <2>1. \A h \in failed' : files'[h] = Absent
    BY <1>0, <1>3 DEF FailedGone, TypeOK
  <2>2. current.gen # 0 => current.gen \in Gen /\ Exists(current.gen) /\ current.gen # g
    BY <1>0, <1>1 DEF FailedGone
  <2>3. (current.gen # 0 => current.gen \in Gen /\ Exists(current.gen))'
    BY <1>1, <1>3, <2>2 DEF Exists
  <2>4. current'.gen # g /\ current'.gen \notin failed' /\ g \notin failed'
    BY <1>0, <1>1, <1>2, <2>2 DEF FailedGone
  <2>5. QED
    BY <1>1, <1>4, <2>1, <2>3, <2>4 DEF FailedGone, Saving
<1>q. QED
  BY <1>a, <1>b, <1>c, <1>d, <1>e, <1>f, <1>g

(* Cached receipts change no file and no number. *)
LEMMA UpdateCachedKeeps ==
    ASSUME SoundDisk, StoreInv, NEW r \in Receipt, UpdateCached(r)
    PROVE  StoreInv'
<1> USE StoreAssumption DEF StoreInv, SoundDisk
<1>1. /\ phase = "idle" /\ current'.gen = current.gen /\ current' \in Versioned
      /\ unsynced' = TRUE
      /\ UNCHANGED <<store, files, phase, staged, counter, confirmed, failed, saves, crashes, trouble, damage>>
  BY DEF UpdateCached, TypeOK, Versioned, Value, history, bounds
<1>2. LoadableSet' = LoadableSet
  BY <1>1 DEF LoadableSet, Loadable
<1>a. TypeOK'
  BY <1>1 DEF TypeOK
<1>b. ConfirmedSurvives'
  BY <1>1 DEF ConfirmedSurvives, Loadable
<1>c. StagedFile'
  BY <1>1 DEF StagedFile, Saving
<1>d. StagedAhead'
  BY <1>1 DEF StagedAhead, Saving
<1>e. MemoryAhead'
  BY <1>1, <1>2 DEF MemoryAhead, Base, Saving
<1>f. ConfirmedFile'
  BY <1>1 DEF ConfirmedFile, Loadable
<1>g. FailedGone'
  BY <1>1 DEF FailedGone, Saving, Exists
<1>q. QED
  BY <1>a, <1>b, <1>c, <1>d, <1>e, <1>f, <1>g

(* The staged file becomes whole; no other file changes. *)
LEMMA WriteKeeps ==
    ASSUME SoundDisk, StoreInv, Write
    PROVE  StoreInv'
<1> USE StoreAssumption DEF StoreInv, SoundDisk
<1>1. /\ phase = "created" /\ phase' = "written"
      /\ files' = [files EXCEPT ![staged.gen] = Whole(staged.val)]
      /\ UNCHANGED <<store, staged, current, counter, unsynced, confirmed, failed, saves, crashes, trouble, damage>>
  BY DEF Write, memory, history, bounds
<1>2. staged.gen \in Gen /\ staged.val \in Value /\ staged.gen \in Nat /\ confirmed.gen \in Nat
  BY <1>1 DEF StagedFile, Saving, TypeOK, Versioned, Gen
<1>3. \A h \in Gen : h # staged.gen => files'[h] = files[h]
  BY <1>1 DEF TypeOK
<1>4. files'[staged.gen] = Whole(staged.val) /\ files[staged.gen] = Torn
  BY <1>1, <1>2 DEF TypeOK, StagedFile
<1>5. \A h \in LoadableSet' : h \in LoadableSet \/ h = staged.gen
  BY <1>3 DEF LoadableSet, Loadable
<1>a. TypeOK'
  BY <1>1, <1>2, FileTypes DEF TypeOK, Phases
<1>b. ConfirmedSurvives'
  BY <1>1, <1>3, <1>4 DEF ConfirmedSurvives, Loadable, Torn, Whole
<1>c. StagedFile'
  BY <1>1, <1>2, <1>4 DEF StagedFile, Saving
<1>d. StagedAhead'
  BY <1>1 DEF StagedAhead, Saving
<1>e. MemoryAhead'
  BY <1>1, <1>2, <1>5 DEF MemoryAhead, Base, Saving
<1>f. ConfirmedFile'
  BY <1>1, <1>2, <1>3 DEF ConfirmedFile, Loadable, StagedAhead, Saving
<1>g. FailedGone'
  <2>1. \A h \in failed' : files'[h] = Absent
    BY <1>1, <1>3 DEF FailedGone, Saving, TypeOK
  <2>2. (current.gen # 0 => current.gen \in Gen /\ Exists(current.gen))'
    BY <1>1, <1>3 DEF FailedGone, Saving, Exists
  <2>3. QED
    BY <1>1, <2>1, <2>2 DEF FailedGone, Saving
<1>q. QED
  BY <1>a, <1>b, <1>c, <1>d, <1>e, <1>f, <1>g

(* The staged file becomes synced; no other file changes. *)
LEMMA SyncKeeps ==
    ASSUME SoundDisk, StoreInv, Sync
    PROVE  StoreInv'
<1> USE StoreAssumption DEF StoreInv, SoundDisk
<1>1. /\ phase = "written" /\ phase' = "synced"
      /\ files' = [files EXCEPT ![staged.gen] = Synced(staged.val)]
      /\ UNCHANGED <<store, staged, current, counter, unsynced, confirmed, failed, saves, crashes, trouble, damage>>
  BY DEF Sync, memory, history, bounds
<1>2. staged.gen \in Gen /\ staged.val \in Value /\ staged.gen \in Nat /\ confirmed.gen \in Nat
  BY <1>1 DEF StagedFile, Saving, TypeOK, Versioned, Gen
<1>3. \A h \in Gen : h # staged.gen => files'[h] = files[h]
  BY <1>1 DEF TypeOK
<1>4. files'[staged.gen] = Synced(staged.val) /\ files[staged.gen] = Whole(staged.val)
  BY <1>1, <1>2 DEF TypeOK, StagedFile
<1>5. \A h \in LoadableSet' : h \in LoadableSet \/ h = staged.gen
  BY <1>3 DEF LoadableSet, Loadable
<1>a. TypeOK'
  BY <1>1, <1>2, FileTypes DEF TypeOK, Phases
<1>b. ConfirmedSurvives'
  BY <1>1, <1>3, <1>4 DEF ConfirmedSurvives, Loadable, Torn, Whole
<1>c. StagedFile'
  BY <1>1, <1>2, <1>4 DEF StagedFile, Saving
<1>d. StagedAhead'
  BY <1>1 DEF StagedAhead, Saving
<1>e. MemoryAhead'
  BY <1>1, <1>2, <1>5 DEF MemoryAhead, Base, Saving
<1>f. ConfirmedFile'
  BY <1>1, <1>2, <1>3 DEF ConfirmedFile, Loadable, StagedAhead, Saving
<1>g. FailedGone'
  <2>1. \A h \in failed' : files'[h] = Absent
    BY <1>1, <1>3 DEF FailedGone, Saving, TypeOK
  <2>2. (current.gen # 0 => current.gen \in Gen /\ Exists(current.gen))'
    BY <1>1, <1>3 DEF FailedGone, Saving, Exists
  <2>3. QED
    BY <1>1, <2>1, <2>2 DEF FailedGone, Saving
<1>q. QED
  BY <1>a, <1>b, <1>c, <1>d, <1>e, <1>f, <1>g

(* A failed save removes its own file, which nothing refers to. *)
LEMMA WriteFailsKeeps ==
    ASSUME SoundDisk, StoreInv, WriteFails
    PROVE  StoreInv'
<1> USE StoreAssumption DEF StoreInv, SoundDisk
<1>1. /\ Saving /\ phase # "synced" /\ phase' = "idle"
      /\ files' = [files EXCEPT ![staged.gen] = Absent]
      /\ failed' = failed \cup {staged.gen}
      /\ UNCHANGED <<store, staged, current, counter, unsynced, confirmed, saves, crashes, trouble, damage>>
  BY Untroubled DEF WriteFails, Saving, memory
<1>2. staged.gen \in Gen /\ staged.val \in Value /\ staged.gen \in Nat /\ confirmed.gen \in Nat
  BY <1>1 DEF StagedFile, Saving, TypeOK, Versioned, Gen
<1>3. \A h \in Gen : h # staged.gen => files'[h] = files[h]
  BY <1>1 DEF TypeOK
<1>4. files'[staged.gen] = Absent /\ ~files[staged.gen].synced
  BY <1>1, <1>2 DEF TypeOK, StagedFile, Saving, Torn, Whole
<1>5. \A h \in LoadableSet' : h \in LoadableSet /\ h # staged.gen
  BY <1>3, <1>4 DEF LoadableSet, Loadable, Absent
<1>a. TypeOK'
  BY <1>1, <1>2, FileTypes DEF TypeOK, Phases
<1>b. ConfirmedSurvives'
  BY <1>1, <1>3, <1>4 DEF ConfirmedSurvives, Loadable
<1>c. StagedFile'
  BY <1>1 DEF StagedFile, Saving
<1>d. StagedAhead'
  BY <1>1 DEF StagedAhead, Saving
<1>e. MemoryAhead'
  BY <1>1, <1>2, <1>5 DEF MemoryAhead, Base, Saving
<1>f. ConfirmedFile'
  BY <1>1, <1>2, <1>3 DEF ConfirmedFile, Loadable, StagedAhead
<1>g. FailedGone'
  <2>1. \A h \in failed' : files'[h] = Absent
    BY <1>1, <1>3, <1>4 DEF FailedGone, TypeOK
  <2>2. (current.gen # 0 => current.gen \in Gen /\ Exists(current.gen))'
    BY <1>1, <1>3 DEF FailedGone, Saving, Exists
  <2>3. current'.gen \notin failed'
    BY <1>1 DEF FailedGone, Saving
  <2>4. QED
    BY <1>1, <2>1, <2>2, <2>3 DEF FailedGone, Saving
<1>q. QED
  BY <1>a, <1>b, <1>c, <1>d, <1>e, <1>f, <1>g

(* A synced file is shown, or on the board still waits for the cleaning. *)
LEMMA PublishKeeps ==
    ASSUME SoundDisk, StoreInv, Publish
    PROVE  StoreInv'
<1> USE StoreAssumption DEF StoreInv, SoundDisk
<1>1. /\ phase = "synced" /\ phase' = "cleaning"
      /\ UNCHANGED <<store, files, staged, failed, crashes, trouble, damage>>
  BY DEF Publish
<1>2. /\ store = "board" => UNCHANGED <<current, counter, unsynced, confirmed, saves>>
      /\ store # "board" => /\ current' = staged /\ counter' = staged.gen /\ unsynced' = FALSE
                            /\ confirmed' = staged /\ saves' = saves \cup {staged.gen}
  BY DEF Publish, Show, memory
<1>3. staged \in Versioned /\ staged.gen \in Gen /\ staged.gen \in Nat /\ staged.gen > 0 /\ staged.gen <= MaxGen
  BY <1>1 DEF StagedFile, Saving, TypeOK, Gen
<1>4. files[staged.gen] = Synced(staged.val)
  BY <1>1 DEF StagedFile
<1>5. LoadableSet' = LoadableSet
  BY <1>1 DEF LoadableSet, Loadable
<1>a. TypeOK'
  <2>1. CASE store = "board"
    BY <1>1, <1>2, <2>1 DEF TypeOK, Phases
  <2>2. CASE store # "board"
    <3>1. counter' \in 0 .. MaxGen /\ saves' \subseteq Gen
      BY <1>2, <1>3, <2>2 DEF TypeOK
    <3>2. QED
      BY <1>1, <1>2, <1>3, <2>2, <3>1 DEF TypeOK, Phases
  <2>3. QED
    BY <2>1, <2>2
<1>b. ConfirmedSurvives'
  <2>1. CASE store = "board"
    BY <1>1, <1>2, <2>1 DEF ConfirmedSurvives, Loadable
  <2>2. CASE store # "board"
    BY <1>1, <1>2, <1>3, <1>4, <2>2 DEF ConfirmedSurvives, Loadable, Synced
  <2>3. QED
    BY <2>1, <2>2
<1>c. StagedFile'
  BY <1>1 DEF StagedFile, Saving
<1>d. StagedAhead'
  BY <1>1, <1>2 DEF StagedAhead, Saving
<1>e. MemoryAhead'
  <2>1. CASE store = "board"
    BY <1>1, <1>2, <1>5, <2>1 DEF MemoryAhead, Saving
  <2>2. CASE store # "board"
    <3>1. Base' = staged.gen /\ confirmed' = staged
      BY <1>1, <1>2, <2>2 DEF Base
    <3>2. counter \in Nat /\ current.gen \in Nat
      BY DEF TypeOK, Versioned
    <3>3. \A h \in LoadableSet : h <= staged.gen
      BY <1>1, <1>3, <2>2, <3>2 DEF MemoryAhead, Base, Saving, LoadableSet, Gen
    <3>4. QED
      BY <1>1, <1>3, <1>5, <2>2, <3>1, <3>3 DEF MemoryAhead, Saving
  <2>3. QED
    BY <2>1, <2>2
<1>f. ConfirmedFile'
  BY <1>1, <1>2, <1>3, <1>4 DEF ConfirmedFile, Loadable, Synced
<1>g. FailedGone'
  BY <1>1, <1>2 DEF FailedGone, Saving
<1>q. QED
  BY <1>a, <1>b, <1>c, <1>d, <1>e, <1>f, <1>g

(* Cleaning removes only files below the staged one, which is synced. *)
LEMMA RemoveOlderKeeps ==
    ASSUME SoundDisk, StoreInv, NEW g \in Gen, RemoveOlder(g)
    PROVE  StoreInv'
<1> USE StoreAssumption DEF StoreInv, SoundDisk
<1>1. /\ phase = "cleaning" /\ g < KeepFrom
      /\ files' = [files EXCEPT ![g] = Absent]
      /\ UNCHANGED <<store, phase, staged, current, counter, unsynced, confirmed, failed, saves, crashes, trouble, damage>>
  BY DEF RemoveOlder, memory, history, bounds
<1>2. staged.gen \in Gen /\ staged.gen \in Nat /\ confirmed.gen \in Nat /\ g \in Nat
  BY <1>1 DEF StagedFile, TypeOK, Versioned, Gen
<1>3. g < staged.gen
  BY <1>1, <1>2 DEF KeepFrom
<1>4. files'[g] = Absent /\ \A h \in Gen : h # g => files'[h] = files[h]
  BY <1>1 DEF TypeOK
<1>5. files[staged.gen] = Synced(staged.val) /\ files'[staged.gen] = Synced(staged.val)
  BY <1>1, <1>2, <1>3, <1>4 DEF StagedFile
<1>6. LoadableSet' \subseteq LoadableSet
  BY <1>4 DEF LoadableSet, Loadable, Absent
<1>7. confirmed.gen < staged.gen \/ confirmed = staged
  BY <1>1 DEF StagedAhead
<1>a. TypeOK'
  BY <1>1, FileTypes DEF TypeOK, Phases
<1>b. ConfirmedSurvives'
  <2>1. Loadable(staged.gen)' /\ files'[staged.gen].synced /\ files'[staged.gen].val = staged.val
    BY <1>1, <1>5 DEF Loadable, Synced
  <2>2. QED
    BY <1>1, <1>2, <1>7, <2>1 DEF ConfirmedSurvives
<1>c. StagedFile'
  BY <1>1, <1>2, <1>5 DEF StagedFile, Saving
<1>d. StagedAhead'
  BY <1>1 DEF StagedAhead, Saving
<1>e. MemoryAhead'
  BY <1>1, <1>6 DEF MemoryAhead, Base, Saving
<1>f. ConfirmedFile'
  BY <1>1, <1>4 DEF ConfirmedFile, Loadable, Absent
<1>g. FailedGone'
  <2>1. \A h \in failed' : files'[h] = Absent
    BY <1>1, <1>4 DEF FailedGone, TypeOK
  <2>2. QED
    BY <1>1, <2>1 DEF FailedGone, Saving
<1>q. QED
  BY <1>a, <1>b, <1>c, <1>d, <1>e, <1>f, <1>g

(* The save returns; the board shows its document. *)
LEMMA FinishKeeps ==
    ASSUME SoundDisk, StoreInv, Finish
    PROVE  StoreInv'
<1> USE StoreAssumption DEF StoreInv, SoundDisk
<1>1. /\ phase = "cleaning" /\ phase' = "idle"
      /\ UNCHANGED <<store, files, staged, failed, crashes, trouble, damage>>
  BY Untroubled DEF Finish
<1>2. /\ store # "board" => UNCHANGED <<current, counter, unsynced, confirmed, saves>>
      /\ store = "board" => /\ current' = staged /\ counter' = staged.gen /\ unsynced' = FALSE
                            /\ confirmed' = staged /\ saves' = saves \cup {staged.gen}
  BY DEF Finish, Show, memory
<1>3. staged \in Versioned /\ staged.gen \in Gen /\ staged.gen \in Nat /\ staged.gen > 0 /\ staged.gen <= MaxGen
  BY <1>1 DEF StagedFile, TypeOK, Gen
<1>4. files[staged.gen] = Synced(staged.val)
  BY <1>1 DEF StagedFile
<1>5. LoadableSet' = LoadableSet
  BY <1>1 DEF LoadableSet, Loadable
<1>6. confirmed' = staged /\ current' = staged /\ (store # "board" => confirmed = staged /\ current = staged)
  BY <1>1, <1>2 DEF StagedAhead
<1>a. TypeOK'
  <2>1. CASE store # "board"
    BY <1>1, <1>2, <2>1 DEF TypeOK, Phases
  <2>2. CASE store = "board"
    <3>1. counter' \in 0 .. MaxGen /\ saves' \subseteq Gen
      BY <1>2, <1>3, <2>2 DEF TypeOK
    <3>2. QED
      BY <1>1, <1>2, <1>3, <2>2, <3>1 DEF TypeOK, Phases
  <2>3. QED
    BY <2>1, <2>2
<1>b. ConfirmedSurvives'
  BY <1>1, <1>3, <1>4, <1>6 DEF ConfirmedSurvives, Loadable, Synced
<1>c. StagedFile'
  BY <1>1 DEF StagedFile, Saving
<1>d. StagedAhead'
  BY <1>1 DEF StagedAhead, Saving
<1>e. MemoryAhead'
  <2>1. CASE store = "board"
    BY <1>1, <2>1 DEF MemoryAhead, Saving
  <2>2. CASE store # "board"
    BY <1>1, <1>2, <1>5, <2>2 DEF MemoryAhead, Base, Saving
  <2>3. QED
    BY <2>1, <2>2
<1>f. ConfirmedFile'
  BY <1>1, <1>3, <1>4, <1>6 DEF ConfirmedFile, Synced
<1>g. FailedGone'
  BY <1>1, <1>3, <1>4, <1>6 DEF FailedGone, Saving, Exists, Synced
<1>q. QED
  BY <1>a, <1>b, <1>c, <1>d, <1>e, <1>f, <1>g

(* A crash touches no synced file. *)
LEMMA CrashKeeps ==
    ASSUME SoundDisk, StoreInv, Crash
    PROVE  StoreInv'
<1> USE StoreAssumption DEF StoreInv, SoundDisk
<1>1. /\ phase' = "down" /\ crashes < MaxCrash /\ crashes' = crashes + 1
      /\ current' = Nothing /\ counter' = 0 /\ unsynced' = FALSE
      /\ UNCHANGED <<store, staged, confirmed, failed, saves, trouble, damage>>
  BY DEF Crash, history
<1>2. PICK lost \in SUBSET Unsafe, after \in {Torn, Absent} :
         files' = [g \in Gen |-> IF g \in lost THEN after ELSE files[g]]
  BY DEF Crash
<1>3. \A g \in Gen : files'[g] = files[g] \/ (Exists(g) /\ ~files[g].synced /\ files'[g].is # "whole")
  BY <1>2 DEF Unsafe, Torn, Absent
<1>4. files' \in [Gen -> File]
  BY <1>2, FileTypes DEF TypeOK
<1>5. crashes' \in 0 .. MaxCrash /\ 0 \in 0 .. MaxGen
  BY <1>1 DEF TypeOK
<1>a. TypeOK'
  BY <1>1, <1>4, <1>5, FileTypes DEF TypeOK, Phases
<1>b. ConfirmedSurvives'
  BY <1>1, <1>3 DEF ConfirmedSurvives, Loadable
<1>c. StagedFile'
  BY <1>1 DEF StagedFile, Saving
<1>d. StagedAhead'
  BY <1>1 DEF StagedAhead, Saving
<1>e. MemoryAhead'
  BY <1>1 DEF MemoryAhead, Saving
<1>f. ConfirmedFile'
  BY <1>1, <1>3 DEF ConfirmedFile, Loadable
<1>g. FailedGone'
  <2>0. \A g \in failed : g \in Gen /\ files[g] = Absent /\ ~Exists(g)
    <3>1. failed \subseteq Gen /\ Absent.is = "absent"
      BY DEF TypeOK, Absent
    <3>2. QED
      BY <3>1 DEF FailedGone, Exists
  <2>1. \A g \in failed' : files'[g] = Absent
    BY <1>1, <1>3, <2>0
  <2>2. QED
    BY <1>1, <2>1 DEF FailedGone, Saving
<1>q. QED
  BY <1>a, <1>b, <1>c, <1>d, <1>e, <1>f, <1>g

(* Opening loads the highest file, which the confirmed save bounds from below. *)
LEMMA OpenKeeps ==
    ASSUME SoundDisk, StoreInv, Open
    PROVE  StoreInv'
<1> USE StoreAssumption DEF StoreInv, SoundDisk
<1>1. /\ phase = "down" /\ phase' = "idle" /\ unsynced' = FALSE
      /\ OpenReading(LoadableSet)
      /\ UNCHANGED <<store, staged, confirmed, failed, saves, crashes, trouble, damage>>
  BY Untroubled DEF Open, history
<1>2. PICK n \in 0 .. MaxGen : IsHighest(n, LoadableSet) /\ current' = Load(n)
  BY <1>1 DEF OpenReading
<1>3. PICK m \in 0 .. MaxGen : IsHighest(m, Present) /\ counter' = m
  BY <1>1 DEF OpenReading
<1>4. \E discarded \in SUBSET (Present \ LoadableSet) :
         files' = [g \in Gen |-> IF g \in discarded THEN Absent ELSE files[g]]
  BY <1>1 DEF OpenReading
<1>5. files' \in [Gen -> File]
  BY <1>4, FileTypes DEF TypeOK
<1>6. \A g \in Gen : files'[g] = files[g] \/ (files'[g] = Absent /\ Exists(g) /\ ~Loadable(g))
  BY <1>4 DEF Present, LoadableSet
<1>7. LoadableSet' = LoadableSet
  BY <1>6 DEF LoadableSet, Loadable, Absent
<1>8. /\ n \in Nat /\ m \in Nat /\ confirmed.gen \in Nat
      /\ \A g \in LoadableSet : g \in Gen /\ g \in Nat /\ g > 0 /\ g <= n /\ g <= m
  BY <1>2, <1>3 DEF IsHighest, Present, LoadableSet, Loadable, Exists, Gen, TypeOK, Versioned
<1>9. current'.gen = n /\ (n # 0 => n \in LoadableSet)
  BY <1>2 DEF Load, Nothing, IsHighest
<1>10. confirmed.gen <= n /\ confirmed.gen <= m
  BY <1>8 DEF ConfirmedSurvives, LoadableSet
<1>11. current' \in Versioned
  <2>1. CASE n = 0
    BY <1>2, <2>1, FileTypes DEF Load
  <2>2. CASE n # 0
    <3>1. files[n] \in File
      BY <1>8, <1>9, <2>2 DEF TypeOK
    <3>2. QED
      BY <1>2, <2>2, <3>1 DEF Load, File, Versioned
  <2>3. QED
    BY <2>1, <2>2
<1>a. TypeOK'
  BY <1>1, <1>3, <1>5, <1>11 DEF TypeOK, Phases
<1>b. ConfirmedSurvives'
  BY <1>1, <1>6 DEF ConfirmedSurvives, Loadable
<1>c. StagedFile'
  BY <1>1 DEF StagedFile, Saving
<1>d. StagedAhead'
  BY <1>1 DEF StagedAhead, Saving
<1>e. MemoryAhead'
  BY <1>1, <1>3, <1>7, <1>8, <1>9, <1>10 DEF MemoryAhead, Base, Saving
<1>f. ConfirmedFile'
  BY <1>1, <1>6 DEF ConfirmedFile, Loadable, Absent
<1>g. FailedGone'
  <2>0. \A g \in failed : g \in Gen /\ files[g] = Absent /\ g \notin LoadableSet
    <3>1. failed \subseteq Gen /\ Absent.is = "absent"
      BY DEF TypeOK, Absent
    <3>2. QED
      BY <3>1 DEF FailedGone, LoadableSet, Loadable
  <2>1. \A g \in failed' : files'[g] = Absent /\ g \in Gen /\ g \notin LoadableSet
    BY <1>1, <1>6, <2>0
  <2>2. current'.gen \notin failed'
    <3>1. 0 \notin Gen
      BY DEF Gen
    <3>2. QED
      BY <1>9, <2>1, <3>1
  <2>3. (current.gen # 0 => current.gen \in Gen /\ Exists(current.gen))'
    BY <1>7, <1>9 DEF LoadableSet, Loadable, Exists
  <2>4. QED
    BY <1>1, <2>1, <2>2, <2>3 DEF FailedGone, Saving
<1>q. QED
  BY <1>a, <1>b, <1>c, <1>d, <1>e, <1>f, <1>g

(* A step that changes nothing. *)
LEMMA StutterKeeps ==
    ASSUME StoreInv, UNCHANGED vars
    PROVE  StoreInv'
BY DEF vars, memory, history, bounds, StoreInv, TypeOK, ConfirmedSurvives, StagedFile, StagedAhead, MemoryAhead,
       ConfirmedFile, FailedGone, Saving, Base, LoadableSet, Loadable, Exists

(* Every step of every store keeps the invariant. *)
LEMMA StoreNext ==
    ASSUME SoundDisk, StoreInv, [Next]_vars
    PROVE  StoreInv'
<1>1. TypeOK
  BY DEF StoreInv
<1>2. ASSUME NEW d \in Doc, Save(d) PROVE StoreInv'
  <2>1. [current.val EXCEPT !.doc = d] \in Value
    BY <1>1 DEF TypeOK, Versioned, Value
  <2>2. QED
    BY <1>2, <2>1, CreateKeeps DEF Save
<1>3. ASSUME FlushCached PROVE StoreInv'
  <2>1. current.val \in Value
    BY <1>1 DEF TypeOK, Versioned
  <2>2. QED
    BY <1>3, <2>1, CreateKeeps DEF FlushCached
<1>4. ASSUME NEW r \in Receipt, UpdateCached(r) PROVE StoreInv'
  BY <1>4, UpdateCachedKeeps
<1>5. ASSUME NEW g \in Gen, RemoveOlder(g) PROVE StoreInv'
  BY <1>5, RemoveOlderKeeps
<1>6. \A g \in Gen : ~Decay(g)
  BY <1>1, Untroubled
<1>7. QED
  BY <1>2, <1>3, <1>4, <1>5, <1>6, WriteKeeps, SyncKeeps, WriteFailsKeeps, PublishKeeps, FinishKeeps, CrashKeeps,
     OpenKeeps, StutterKeeps DEF Next

(* The invariant holds in every reachable state of every store. *)
THEOREM StoreInvariant ==
    ASSUME SoundDisk
    PROVE  Spec => []StoreInv
BY StoreInit, StoreNext, PTL DEF Spec

(* transact, save_composer and save lose no confirmed document, wherever   *)
(* the process or the machine stops.                                       *)
THEOREM ConfirmedAlwaysSurvives ==
    ASSUME SoundDisk
    PROVE  Spec => []ConfirmedSurvives
<1>1. StoreInv => ConfirmedSurvives
  BY DEF StoreInv
<1>2. QED
  BY <1>1, StoreInvariant, PTL

(* A document whose save returned an error is never shown, in this life of *)
(* the process or in a later one.                                          *)
THEOREM FailedAlwaysStaysOut ==
    ASSUME SoundDisk
    PROVE  Spec => []FailedStaysOut
<1>1. StoreInv => FailedStaysOut
  BY DEF StoreInv, FailedGone, FailedStaysOut
<1>2. QED
  BY <1>1, StoreInvariant, PTL

(* The number of a save is above that of every loadable file, so a later   *)
(* opening cannot prefer an older document.                                *)
THEOREM SaveAlwaysNewest ==
    ASSUME SoundDisk
    PROVE  Spec => []SaveIsNewest
<1>1. StoreInv => SaveIsNewest
  <2> SUFFICES ASSUME StoreInv, phase \in {"created", "written", "synced", "cleaning"}, NEW g \in LoadableSet
               PROVE  g <= staged.gen
    BY DEF SaveIsNewest
  <2>1. g \in Nat /\ staged.gen \in Nat /\ Base \in Nat
    BY StoreAssumption DEF StoreInv, TypeOK, Versioned, LoadableSet, Gen, Base
  <2>2. CASE store = "board"
    BY <2>2 DEF StoreInv, MemoryAhead, Saving
  <2>3. CASE store # "board" /\ phase = "cleaning"
    <3>1. Base = staged.gen
      BY <2>3 DEF Base, StoreInv, StagedAhead
    <3>2. QED
      BY <2>1, <2>3, <3>1 DEF StoreInv, MemoryAhead, Saving
  <2>4. CASE store # "board" /\ phase # "cleaning"
    BY <2>1, <2>4 DEF StoreInv, MemoryAhead, Saving
  <2>5. QED
    BY <2>2, <2>3, <2>4
<1>2. QED
  BY <1>1, StoreInvariant, PTL

-----------------------------------------------------------------------------
(* OnlyReceiptsAtRisk is stated between saves; while a save is under way   *)
(* the file of the document in memory must stay as it is, since a failing  *)
(* write goes back to that document.                                       *)
MemoryFile ==
    store = "registry" /\ phase # "down" /\ current.gen # 0 =>
        /\ current.gen \in Gen
        /\ files[current.gen].val.doc = current.val.doc
        /\ ~unsynced => files[current.gen].val = current.val

(* A step that leaves memory, and the file memory came from, alone. *)
LEMMA MemoryFileUntouched ==
    ASSUME MemoryFile, store' = store, current' = current, unsynced' = unsynced, phase # "down",
           current.gen \in Gen => files'[current.gen] = files[current.gen]
    PROVE  MemoryFile'
BY DEF MemoryFile

(* Every step of the registry's store keeps the file of what it shows. *)
LEMMA MemoryFileNext ==
    ASSUME SoundDisk, StoreInv, MemoryFile, [Next]_vars
    PROVE  MemoryFile'
<1> USE StoreAssumption
<1>0. /\ TypeOK /\ files \in [Gen -> File]
      /\ Saving => current.gen # staged.gen
      /\ Saving \/ phase = "cleaning" => staged.gen \in Gen
      /\ phase \in {"synced", "cleaning"} => files[staged.gen] = Synced(staged.val)
  BY DEF StoreInv, TypeOK, FailedGone, StagedFile
<1>1. ASSUME NEW v, Create(v) PROVE MemoryFile'
  <2>1. PICK g \in Gen : ~Exists(g) /\ files' = [files EXCEPT ![g] = Torn]
    BY <1>1 DEF Create
  <2>2. /\ phase = "idle" /\ store' = store /\ current' = current /\ unsynced' = unsynced
    BY <1>1 DEF Create, memory
  <2>3. current.gen \in Gen => current.gen # g
    <3>1. current.gen # 0 => Exists(current.gen)
      BY <2>2 DEF StoreInv, FailedGone
    <3>2. 0 \notin Gen
      BY DEF Gen
    <3>3. QED
      BY <2>1, <3>1, <3>2
  <2>4. current.gen \in Gen => files'[current.gen] = files[current.gen]
    BY <1>0, <2>1, <2>3
  <2>5. QED
    BY <2>2, <2>4, MemoryFileUntouched
<1>2. ASSUME NEW r \in Receipt, UpdateCached(r) PROVE MemoryFile'
  <2>1. /\ store' = store /\ files' = files /\ phase' = phase /\ phase = "idle" /\ unsynced' = TRUE
        /\ current' = [current EXCEPT !.val.receipts = r]
    BY <1>2 DEF UpdateCached
  <2>2. current \in Versioned
    BY <1>0 DEF TypeOK
  <2>3. current'.gen = current.gen /\ current'.val.doc = current.val.doc
    BY <2>1, <2>2 DEF Versioned, Value
  <2>4. QED
    BY <2>1, <2>3 DEF MemoryFile
<1>3. ASSUME Write \/ Sync \/ WriteFails PROVE MemoryFile'
  <2>1. /\ Saving /\ store' = store /\ current' = current /\ unsynced' = unsynced
    BY <1>3 DEF Write, Sync, WriteFails, Saving, memory
  <2>2. \E f : files' = [files EXCEPT ![staged.gen] = f]
    BY <1>0, <1>3, Untroubled DEF Write, Sync, WriteFails
  <2>3. current.gen \in Gen => files'[current.gen] = files[current.gen]
    BY <1>0, <2>1, <2>2
  <2>4. QED
    BY <2>1, <2>3, MemoryFileUntouched DEF Saving
<1>4. ASSUME Publish PROVE MemoryFile'
  <2>1. /\ phase = "synced" /\ store' = store /\ files' = files
        /\ store = "registry" => current' = staged
    BY <1>4 DEF Publish, Show
  <2>2. store = "registry" => files[staged.gen].val = staged.val /\ staged.gen \in Gen
    BY <1>0, <2>1 DEF Saving, Synced
  <2>3. QED
    BY <2>1, <2>2 DEF MemoryFile
<1>5. ASSUME NEW g \in Gen, RemoveOlder(g) PROVE MemoryFile'
  <2>1. /\ phase = "cleaning" /\ store' = store /\ current' = current /\ unsynced' = unsynced
        /\ files' = [files EXCEPT ![g] = Absent] /\ g < KeepFrom
    BY <1>5 DEF RemoveOlder, memory
  <2>2. store = "registry" => current.gen = KeepFrom
    BY <2>1 DEF StoreInv, StagedAhead, KeepFrom
  <2>3. g \in Nat
    BY DEF Gen
  <2>4. store = "registry" /\ current.gen \in Gen => files'[current.gen] = files[current.gen]
    BY <1>0, <2>1, <2>2, <2>3
  <2>5. QED
    BY <2>1, <2>4 DEF MemoryFile
<1>6. ASSUME Finish PROVE MemoryFile'
  BY <1>6 DEF Finish, MemoryFile, memory
<1>7. ASSUME Crash PROVE MemoryFile'
  BY <1>7 DEF Crash, MemoryFile
<1>8. ASSUME Open PROVE MemoryFile'
  <2>1. /\ store' = store /\ unsynced' = FALSE /\ OpenReading(LoadableSet)
    BY <1>0, <1>8, Untroubled DEF Open
  <2>2. PICK n \in 0 .. MaxGen : current' = Load(n)
    BY <2>1 DEF OpenReading
  <2>3. store = "registry" => \A g \in Gen : files'[g] = files[g]
    BY <2>1 DEF OpenReading
  <2>4. current'.gen # 0 => current'.gen = n /\ n \in Gen /\ current'.val = files[n].val
    BY <2>2 DEF Load, Nothing, Gen
  <2>5. QED
    BY <2>1, <2>3, <2>4 DEF MemoryFile
<1>9. ASSUME UNCHANGED vars PROVE MemoryFile'
  BY <1>9 DEF vars, memory, MemoryFile
<1>10. \A g \in Gen : ~Decay(g)
  BY <1>0, Untroubled
<1>11. QED
  BY <1>1, <1>2, <1>3, <1>4, <1>5, <1>6, <1>7, <1>8, <1>9, <1>10 DEF Next, Save, FlushCached

(* On a sound disk every store keeps what it confirmed, never shows what   *)
(* it reported as failed, puts nothing but receipts at risk between saves, *)
(* and saves behind no older file.                                         *)
THEOREM StoreAlwaysSound ==
    ASSUME SoundDisk
    PROVE  Spec => []StoreSound
<1>1. Init => MemoryFile
  BY DEF Init, MemoryFile, Nothing
<1>2. Spec => []MemoryFile
  BY <1>1, MemoryFileNext, StoreInvariant, PTL DEF Spec
<1>3. StoreInv /\ MemoryFile => TypeOK /\ OnlyReceiptsAtRisk
  <2>1. StoreInv => TypeOK /\ current.gen \in Nat
    BY DEF StoreInv, TypeOK, Versioned
  <2>2. StoreInv /\ MemoryFile => OnlyReceiptsAtRisk
    BY <2>1 DEF MemoryFile, OnlyReceiptsAtRisk
  <2>3. QED
    BY <2>1, <2>2
<1>4. TypeOK /\ ConfirmedSurvives /\ FailedStaysOut /\ OnlyReceiptsAtRisk /\ SaveIsNewest => StoreSound
  BY DEF StoreSound
<1>5. QED
  BY <1>2, <1>3, <1>4, StoreInvariant, ConfirmedAlwaysSurvives, FailedAlwaysStaysOut, SaveAlwaysNewest, PTL

-----------------------------------------------------------------------------
(* A step that changes no document readers or a restart could see. *)
LEMMA SameDocuments ==
    ASSUME Doubt' = Doubt, Visible' = Visible, confirmed'.val.doc = confirmed.val.doc
    PROVE  [Register!Next]_(Register!vars)
BY DEF Register!vars

(* A save under way does not show through: creating a file adds nothing a  *)
(* restart could load.                                                     *)
LEMMA CreateRefines ==
    ASSUME SoundDisk, StoreInv, NEW v \in Value, Create(v)
    PROVE  [Register!Next]_(Register!vars)
<1>1. PICK g \in Gen : ~Exists(g) /\ files' = [files EXCEPT ![g] = Torn]
  BY DEF Create
<1>2. phase = "idle" /\ phase' = "created" /\ UNCHANGED <<current, confirmed>>
  BY DEF Create, memory
<1>3. /\ \A h \in Gen : h # g => files'[h] = files[h]
      /\ ~Loadable(g) /\ ~Loadable(g)'
  BY <1>1 DEF StoreInv, TypeOK, Exists, Loadable, Torn
<1>4. Doubt' = Doubt
  BY <1>2, <1>3 DEF Doubt, LoadableSet, Loadable
<1>5. QED
  BY <1>2, <1>4, SameDocuments DEF Visible

(* A whole file reaches the disk. *)
LEMMA WriteRefines ==
    ASSUME SoundDisk, StoreInv, Write
    PROVE  [Register!Next]_(Register!vars)
<1>1. /\ phase = "created" /\ phase' = "written"
      /\ files' = [files EXCEPT ![staged.gen] = Whole(staged.val)]
      /\ UNCHANGED <<staged, current, confirmed>>
  BY DEF Write, memory, history
<1>2. /\ staged.gen \in Gen /\ staged.gen > confirmed.gen /\ staged.val.doc \in Doc
      /\ files[staged.gen] = Torn
  BY <1>1 DEF StoreInv, StagedFile, StagedAhead, Saving, TypeOK, Versioned, Value
<1>3. files'[staged.gen] = Whole(staged.val) /\ \A h \in Gen : h # staged.gen => files'[h] = files[h]
  BY <1>1, <1>2 DEF StoreInv, TypeOK
<1>4. ~Loadable(staged.gen) /\ Loadable(staged.gen)' /\ files'[staged.gen].val.doc = staged.val.doc
  <2>1. Torn.is = "torn" /\ Whole(staged.val).is = "whole" /\ Whole(staged.val).val = staged.val
    BY DEF Torn, Whole
  <2>2. QED
    BY <1>1, <1>2, <1>3, <2>1 DEF Loadable, SoundDisk
<1>5. Doubt' = Doubt \cup {staged.val.doc}
  <2>1. LoadableSet' = LoadableSet \cup {staged.gen}
    <3>1. \A h \in Gen : h # staged.gen => (Loadable(h)' <=> Loadable(h))
      BY <1>3 DEF Loadable
    <3>2. QED
      BY <1>1, <1>2, <1>4, <3>1 DEF LoadableSet
  <2>2. QED
    BY <1>1, <1>2, <1>3, <1>4, <2>1 DEF Doubt, LoadableSet
<1>6. Visible # Offline /\ Visible' = Visible
  BY <1>1, StoreAssumption DEF Visible, StoreInv, TypeOK, Versioned, Value
<1>7. Register!Reach(staged.val.doc)
  BY <1>1, <1>5, <1>6 DEF Register!Reach
<1>8. QED
  BY <1>2, <1>7 DEF Register!Next

(* Files taken back or removed can only end doubts. *)
LEMMA ShrinkingRefines ==
    ASSUME Visible' = Visible, confirmed' = confirmed,
           \A g \in Gen : Loadable(g)' => Loadable(g) /\ files'[g] = files[g]
    PROVE  [Register!Next]_(Register!vars)
<1>1. Doubt' \subseteq Doubt
  BY DEF Doubt, LoadableSet
<1>2. Register!Withdraw
  BY <1>1 DEF Register!Withdraw
<1>3. QED
  BY <1>2 DEF Register!Next

(* A save is confirmed: its file is the newest, so every doubt ends. *)
LEMMA ShowRefines ==
    ASSUME SoundDisk, StoreInv, phase \in {"synced", "cleaning"}, phase' # "down",
           confirmed.gen < staged.gen, SaveIsNewest, UNCHANGED files, Show
    PROVE  [Register!Next]_(Register!vars)
<1>1. /\ staged.gen \in Gen /\ staged.val.doc \in Doc /\ confirmed.gen \in Nat
      /\ files[staged.gen] = Synced(staged.val)
  BY DEF StoreInv, StagedFile, Saving, TypeOK, Versioned, Value, Gen
<1>2. staged.gen \in LoadableSet /\ files[staged.gen].val.doc = staged.val.doc
  BY <1>1 DEF LoadableSet, Loadable, Synced, SoundDisk
<1>3. staged.val.doc \in Doubt
  BY <1>1, <1>2 DEF Doubt
<1>4. Doubt' = {}
  <2>1. \A g \in LoadableSet : g \in Nat /\ g <= staged.gen
    BY DEF SaveIsNewest, LoadableSet, Gen
  <2>2. LoadableSet' = LoadableSet
    BY DEF LoadableSet, Loadable
  <2>3. \A g \in LoadableSet : ~(g > staged.gen)
    BY <1>1, <2>1 DEF Gen
  <2>4. QED
    BY <2>2, <2>3 DEF Doubt, Show
<1>5. Visible # Offline /\ Visible' = staged.val.doc /\ confirmed'.val.doc = staged.val.doc
  BY StoreAssumption DEF Visible, Show, StoreInv, TypeOK, Versioned, Value
<1>6. Register!Confirm(staged.val.doc)
  BY <1>3, <1>4, <1>5 DEF Register!Confirm
<1>7. QED
  BY <1>1, <1>6 DEF Register!Next

(* A crash takes the store offline and can only end doubts. *)
LEMMA CrashRefines ==
    ASSUME StoreInv, Crash
    PROVE  [Register!Next]_(Register!vars)
<1>1. PICK lost \in SUBSET Unsafe, after \in {Torn, Absent} :
         files' = [g \in Gen |-> IF g \in lost THEN after ELSE files[g]]
  BY DEF Crash
<1>2. phase # "down" /\ phase' = "down" /\ confirmed' = confirmed
  BY DEF Crash, history
<1>3. \A g \in Gen : Loadable(g)' => Loadable(g) /\ files'[g] = files[g]
  BY <1>1 DEF Loadable, Torn, Absent
<1>4. Doubt' \subseteq Doubt
  BY <1>2, <1>3 DEF Doubt, LoadableSet
<1>5. Visible # Offline /\ Visible' = Offline
  BY <1>2, StoreAssumption DEF Visible, StoreInv, TypeOK, Versioned, Value
<1>6. Register!Stop
  BY <1>2, <1>4, <1>5 DEF Register!Stop
<1>7. QED
  BY <1>6 DEF Register!Next

(* Opening shows the confirmed document or one in doubt. *)
LEMMA OpenRefines ==
    ASSUME SoundDisk, StoreInv, Open
    PROVE  [Register!Next]_(Register!vars)
<1>1. phase = "down" /\ phase' = "idle" /\ confirmed' = confirmed /\ OpenReading(LoadableSet)
  BY Untroubled DEF Open, history, StoreInv
<1>2. PICK n \in 0 .. MaxGen : IsHighest(n, LoadableSet) /\ current' = Load(n)
  BY <1>1 DEF OpenReading
<1>3. PICK discarded \in SUBSET (Present \ LoadableSet) :
         files' = [g \in Gen |-> IF g \in discarded THEN Absent ELSE files[g]]
  BY <1>1 DEF OpenReading
<1>4. \A g \in Gen : (Loadable(g)' <=> Loadable(g)) /\ (Loadable(g) => files'[g] = files[g])
  <2>1. Absent.is = "absent"
    BY DEF Absent
  <2>2. QED
    BY <1>3, <2>1 DEF Loadable, LoadableSet
<1>5. Doubt' = Doubt
  BY <1>1, <1>4 DEF Doubt, LoadableSet
<1>6. Visible = Offline /\ Visible' = current'.val.doc
  BY <1>1 DEF Visible
<1>7. current'.val.doc \in {confirmed.val.doc} \cup Doubt
  <2>1. n \in Nat /\ confirmed.gen \in Nat /\ \A g \in LoadableSet : g \in Gen /\ g \in Nat /\ g <= n
    BY <1>2, StoreAssumption DEF IsHighest, LoadableSet, Gen, StoreInv, TypeOK, Versioned
  <2>2. confirmed.gen <= n
    BY <2>1 DEF StoreInv, ConfirmedSurvives, LoadableSet
  <2>3. CASE n = 0
    BY <1>2, <2>1, <2>2, <2>3 DEF Load, Nothing, StoreInv, ConfirmedFile
  <2>4. CASE n # 0 /\ n = confirmed.gen
    <3>1. n \in LoadableSet
      BY <1>2, <2>4 DEF IsHighest
    <3>2. QED
      BY <1>2, <2>4, <3>1 DEF Load, StoreInv, ConfirmedFile, LoadableSet
  <2>5. CASE n # 0 /\ n # confirmed.gen
    <3>1. n \in LoadableSet /\ n > confirmed.gen
      BY <1>2, <2>1, <2>2, <2>5 DEF IsHighest
    <3>2. QED
      BY <1>2, <2>5, <3>1 DEF Load, Doubt
  <2>6. QED
    BY <2>3, <2>4, <2>5
<1>8. Register!Restart
  BY <1>1, <1>5, <1>6, <1>7 DEF Register!Restart
<1>9. QED
  BY <1>8 DEF Register!Next

(* Every step of a store is a step of the register or changes nothing it   *)
(* shows.                                                                  *)
LEMMA StepRefines ==
    ASSUME SoundDisk, StoreInv, SaveIsNewest, [Next]_vars
    PROVE  [Register!Next]_(Register!vars)
<1>0. TypeOK
  BY DEF StoreInv
<1>1. ASSUME NEW d \in Doc, Save(d) PROVE [Register!Next]_(Register!vars)
  <2>1. [current.val EXCEPT !.doc = d] \in Value
    BY <1>0 DEF TypeOK, Versioned, Value
  <2>2. QED
    BY <1>1, <2>1, CreateRefines DEF Save
<1>2. ASSUME FlushCached PROVE [Register!Next]_(Register!vars)
  <2>1. current.val \in Value
    BY <1>0 DEF TypeOK, Versioned
  <2>2. QED
    BY <1>2, <2>1, CreateRefines DEF FlushCached
<1>3. ASSUME NEW r \in Receipt, UpdateCached(r) PROVE [Register!Next]_(Register!vars)
  <2>1. UNCHANGED <<files, phase, confirmed>>
    BY <1>3 DEF UpdateCached, history
  <2>2. current'.val.doc = current.val.doc
    BY <1>0, <1>3 DEF UpdateCached, TypeOK, Versioned, Value
  <2>3. QED
    BY <2>1, <2>2, SameDocuments DEF Doubt, Visible, LoadableSet, Loadable
<1>4. ASSUME Sync PROVE [Register!Next]_(Register!vars)
  <2>1. /\ phase = "written" /\ phase' = "synced" /\ UNCHANGED <<current, confirmed>>
        /\ files' = [files EXCEPT ![staged.gen] = Synced(staged.val)]
    BY <1>4 DEF Sync, memory, history
  <2>2. files[staged.gen] = Whole(staged.val)
    BY <2>1 DEF StoreInv, StagedFile
  <2>3. \A g \in Gen : files'[g].is = files[g].is /\ files'[g].val = files[g].val
    BY <1>0, <2>1, <2>2 DEF TypeOK, Whole, Synced
  <2>4. Doubt' = Doubt
    BY <2>1, <2>3 DEF Doubt, LoadableSet, Loadable
  <2>5. QED
    BY <2>1, <2>4, SameDocuments DEF Visible
<1>5. ASSUME WriteFails PROVE [Register!Next]_(Register!vars)
  <2>1. /\ phase # "down" /\ phase' = "idle" /\ UNCHANGED <<current, confirmed>>
        /\ files' = [files EXCEPT ![staged.gen] = Absent]
    BY <1>0, <1>5, Untroubled DEF WriteFails, memory
  <2>2. \A g \in Gen : Loadable(g)' => Loadable(g) /\ files'[g] = files[g]
    BY <1>0, <2>1 DEF TypeOK, Loadable, Absent
  <2>3. QED
    BY <2>1, <2>2, ShrinkingRefines DEF Visible
<1>6. ASSUME NEW g \in Gen, RemoveOlder(g) PROVE [Register!Next]_(Register!vars)
  <2>1. /\ UNCHANGED <<phase, current, confirmed>>
        /\ files' = [files EXCEPT ![g] = Absent]
    BY <1>6 DEF RemoveOlder, memory, history
  <2>2. \A h \in Gen : Loadable(h)' => Loadable(h) /\ files'[h] = files[h]
    BY <1>0, <2>1 DEF TypeOK, Loadable, Absent
  <2>3. QED
    BY <2>1, <2>2, ShrinkingRefines DEF Visible
<1>7. ASSUME Publish PROVE [Register!Next]_(Register!vars)
  <2>1. CASE store = "board"
    BY <1>7, <2>1, SameDocuments DEF Publish, memory, Doubt, Visible, LoadableSet, Loadable
  <2>2. CASE store # "board"
    BY <1>7, <2>2, ShowRefines DEF Publish, StoreInv, StagedAhead, Saving
  <2>3. QED
    BY <2>1, <2>2
<1>8. ASSUME Finish PROVE [Register!Next]_(Register!vars)
  <2>1. CASE store # "board"
    BY <1>8, <2>1, SameDocuments DEF Finish, memory, Doubt, Visible, LoadableSet, Loadable
  <2>2. CASE store = "board"
    BY <1>8, <2>2, ShowRefines DEF Finish, StoreInv, StagedAhead
  <2>3. QED
    BY <2>1, <2>2
<1>9. ASSUME UNCHANGED vars PROVE [Register!Next]_(Register!vars)
  BY <1>9, SameDocuments DEF vars, memory, history, Doubt, Visible, LoadableSet, Loadable
<1>10. \A g \in Gen : ~Decay(g)
  BY <1>0, Untroubled
<1>11. QED
  BY <1>1, <1>2, <1>3, <1>4, <1>5, <1>6, <1>7, <1>8, <1>9, <1>10, WriteRefines, CrashRefines, OpenRefines DEF Next

(* Journal, library, registry, outbox and board each implement a durable   *)
(* register.                                                               *)
THEOREM StoreIsRegister ==
    ASSUME SoundDisk
    PROVE  Spec => ImplementsRegister
<1>1. Init => Register!Init
  <2> SUFFICES ASSUME Init PROVE Register!Init
    OBVIOUS
  <2>1. Doubt = {}
    BY DEF Init, Doubt, LoadableSet, Loadable, Absent
  <2>2. Visible = Empty /\ confirmed.val.doc = Empty
    BY DEF Init, Visible, Nothing, Blank
  <2>3. QED
    BY <2>1, <2>2 DEF Register!Init
<1>2. StoreInv /\ SaveIsNewest /\ [Next]_vars => [Register!Next]_(Register!vars)
  BY StepRefines
<1>3. QED
  BY <1>1, <1>2, StoreInvariant, SaveAlwaysNewest, PTL DEF Spec, ImplementsRegister, Register!Spec

=============================================================================
