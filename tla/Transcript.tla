----------------------------- MODULE Transcript -----------------------------
(***************************************************************************)
(* What piui-index makes of a Pi session file, a JSONL log that Pi appends *)
(* to: the report that discovery streams into the catalog, the report of   *)
(* the full scan, the bounded tree of entries, and the generic timeline    *)
(* blocks.  A frame is one line; `tail` says that bytes follow the last    *)
(* newline.  The catalog is built while the frames stream by; everything   *)
(* else is a function of the whole log.                                    *)
(***************************************************************************)
EXTENDS Naturals, Sequences, FiniteSets, SequencesExt

CONSTANTS Frames,      \* the lines Pi (or a damaged disk) may append
          MaxFrames,   \* bound on the length of the log
          MaxNodes,    \* TREE_MAX_NODES
          MaxDepth,    \* TREE_MAX_DEPTH
          MaxOutput    \* TREE_MAX_OUTPUT_NODES

VARIABLES log, tail, acc

vars == <<log, tail, acc>>

Null == "none"

\* The first of two optional values that is present.
Or(x, y) == IF x # Null THEN x ELSE y

Known(f) == f.type # "other"

-----------------------------------------------------------------------------
\* Fields read by both scanners: the header lines, and the entry of a line.

NoFields == [name |-> Null, cwd |-> Null, created |-> Null, model |-> Null]

\* A later header line wins where it carries the field.
HeaderFields(r, f) ==
  IF f.type \notin {"session", "session_info"} THEN r
  ELSE [r EXCEPT !.name = Or(f.name, @), !.created = Or(f.stamp, @),
                 !.cwd = IF f.cwd = "too long" THEN @ ELSE Or(f.cwd, @)]

BadHeader(f) == f.type \in {"session", "session_info"} /\ f.cwd = "too long"

\* The entry of a line; a type the scanner does not know yields no content.
EntryOf(f) == [f EXCEPT !.role = IF Known(f) THEN @ ELSE Null,
                        !.preview = IF Known(f) THEN @ ELSE Null,
                        !.model = IF Known(f) THEN @ ELSE Null]

-----------------------------------------------------------------------------
\* CatalogAccumulator: one line at a time, no entry is kept.

NoCatalog == NoFields @@ [first |-> Null, last |-> Null, updated |-> Null,
                          entries |-> 0, compactions |-> 0,
                          unknown |-> FALSE, damaged |-> FALSE]

CatalogEntry(r, e) ==
  [r EXCEPT !.entries = @ + 1,
            !.compactions = IF e.type = "compaction" THEN @ + 1 ELSE @,
            !.model = Or(e.model, @),
            !.first = IF @ = Null /\ e.role = "user" THEN e.preview ELSE @,
            !.last = IF e.role \in {"user", "assistant"} THEN Or(e.preview, @) ELSE @,
            !.updated = Or(e.stamp, @)]

CatalogFrame(r, f) ==
  IF f.shape # "object" \/ f.long THEN [r EXCEPT !.damaged = TRUE]
  ELSE LET h == [HeaderFields(r, f) EXCEPT !.unknown = @ \/ ~Known(f),
                                           !.damaged = @ \/ BadHeader(f),
                                           !.model = IF f.type \in {"session", "session_info"}
                                                       THEN Or(f.model, @) ELSE @]
       IN IF f.type = "session" THEN h ELSE CatalogEntry(h, EntryOf(f))

ParseState(damaged, torn, unknown) ==
  CASE damaged -> "corrupt"
    [] ~damaged /\ torn -> "partial"
    [] ~damaged /\ ~torn /\ unknown -> "unsupported"
    [] OTHER -> "healthy"

CatalogReport ==
  [name |-> acc.name, cwd |-> acc.cwd, created |-> acc.created, model |-> acc.model,
   updated |-> Or(acc.updated, acc.created), first |-> acc.first, last |-> acc.last,
   entries |-> acc.entries, compactions |-> acc.compactions,
   state |-> ParseState(acc.damaged, tail, acc.unknown)]

-----------------------------------------------------------------------------
\* project_tree: the forest of entries, from parent links nobody vouches for.

Objects == SelectSeq(log, LAMBDA f : f.shape = "object")

Entries ==
  LET s == SelectSeq(Objects, LAMBDA f : f.type # "session") IN [i \in DOMAIN s |-> EntryOf(s[i])]

\* The ids of the nodes, in file order: the first entry of an id is its node.
NodeOrder(es) ==
  FoldLeft(LAMBDA o, e : IF e.id = Null \/ Contains(o, e.id) \/ Len(o) >= MaxNodes
                           THEN o ELSE Append(o, e.id), <<>>, es)

NodeLimitHit(es) ==
  LET order == NodeOrder(es) IN \E i \in DOMAIN es : es[i].id # Null /\ ~Contains(order, es[i].id)

FirstOf(es, id) == CHOOSE i \in DOMAIN es : es[i].id = id /\ \A j \in 1 .. i - 1 : es[j].id # id

SourceParents(es) == [id \in ToSet(NodeOrder(es)) |-> es[FirstOf(es, id)].parent]

Orphans(parents) == {id \in DOMAIN parents : parents[id] # Null /\ parents[id] \notin DOMAIN parents}

Parent(parents, id) == IF id \in DOMAIN parents THEN parents[id] ELSE Null

\* One walk along the parent links, up to a node of an earlier walk or of this one.
RECURSIVE Walk(_, _, _, _)
Walk(parents, done, path, id) ==
  IF id = Null \/ id \in done THEN [path |-> path, cycle |-> <<>>]
  ELSE IF Contains(path, id)
    THEN [path |-> path,
          cycle |-> SubSeq(path, CHOOSE i \in DOMAIN path : path[i] = id, Len(path))]
    ELSE Walk(parents, done, Append(path, id), Parent(parents, id))

\* The colour marking: every walk starts at an unseen node and marks its path.
Cycles(order, parents) ==
  FoldLeft(LAMBDA r, id :
             IF id \in r.done THEN r
             ELSE LET w == Walk(parents, r.done, <<>>, id)
                  IN [done |-> r.done \cup ToSet(w.path),
                      cycles |-> IF w.cycle = <<>> THEN r.cycles
                                                   ELSE r.cycles \cup {ToSet(w.cycle)}],
           [done |-> {}, cycles |-> {}], order).cycles

Position(order, id) == CHOOSE i \in DOMAIN order : order[i] = id

\* The member of a cycle whose link is cut: the earliest in the file.
Breaker(order, cycle) ==
  CHOOSE id \in cycle : \A other \in cycle : Position(order, id) <= Position(order, other)

CutCycles(order, parents) ==
  LET breakers == {Breaker(order, c) : c \in Cycles(order, parents)}
  IN [id \in DOMAIN parents |-> IF id \in breakers THEN Null ELSE parents[id]]

\* Depths are computed from the root end of each path; a node that would be
\* deeper than the limit becomes a root.
RECURSIVE Unknown(_, _, _, _)
Unknown(parents, depth, path, id) ==
  IF id \notin DOMAIN parents \/ id \in DOMAIN depth THEN path
  ELSE Unknown(parents, depth, Append(path, id), parents[id])

Depths(order, parents) ==
  FoldLeft(LAMBDA r, start :
      FoldLeft(LAMBDA s, id :
                 LET p == s.parents[id]
                     d == IF p \in DOMAIN s.depth THEN s.depth[p] + 1 ELSE 0
                 IN IF d > MaxDepth
                      THEN [parents |-> [s.parents EXCEPT ![id] = Null],
                            depth |-> (id :> 0) @@ s.depth, cuts |-> s.cuts + 1]
                      ELSE [s EXCEPT !.depth = (id :> d) @@ @],
               r, Reverse(Unknown(r.parents, r.depth, <<>>, start))),
    [parents |-> parents, depth |-> <<>>, cuts |-> 0], order)

\* The nodes handed out: their visible parent and their visible children.
Shown(order) == SubSeq(order, 1, IF Len(order) < MaxOutput THEN Len(order) ELSE MaxOutput)

VisibleParent(order, parents, id) ==
  IF parents[id] # Null /\ Contains(Shown(order), parents[id]) THEN parents[id] ELSE Null

Children(order, parents, id) ==
  SelectSeq(order, LAMBDA c : parents[c] = id /\ Contains(Shown(order), c))

Tree(es) ==
  LET order == NodeOrder(es)
      source == SourceParents(es)
      deep == Depths(order, CutCycles(order, source))
      parents == deep.parents
      shown == Shown(order)
      orphans == Orphans(source)
      parent == [id \in ToSet(shown) |-> VisibleParent(order, parents, id)]
      children == [id \in ToSet(shown) |-> Children(order, parents, id)]
      leaves == SelectSeq(shown, LAMBDA id : children[id] = <<>>)
  IN [order |-> shown,
      parent |-> parent,
      children |-> children,
      depth |-> deep.depth,
      roots |-> {id \in ToSet(shown) : parent[id] = Null \/ id \in orphans},
      orphans |-> orphans \cap ToSet(shown),
      cycle |-> UNION Cycles(order, source) \cap ToSet(shown),
      branches |-> Cardinality({id \in ToSet(shown) : Len(children[id]) > 1}),
      leaf |-> IF leaves = <<>> THEN Null ELSE Last(leaves),
      limited |-> NodeLimitHit(es) \/ deep.cuts > 0 \/ Len(order) > MaxOutput]

\* read_only_tree: the path from the last leaf to its root.
RECURSIVE PathToRoot(_, _, _)
PathToRoot(tree, path, id) ==
  IF id = Null \/ Contains(path, id) THEN path
  ELSE PathToRoot(tree, Append(path, id), tree.parent[id])

CurrentPath(tree) == ToSet(PathToRoot(tree, <<>>, tree.leaf))

-----------------------------------------------------------------------------
\* scan_bytes: the report of a whole log.

Duplicate(es) == \E i, j \in DOMAIN es : i < j /\ es[i].id # Null /\ es[i].id = es[j].id

\* The last model named by a header or an entry.
LastModel == FoldLeft(LAMBDA x, f : Or(EntryOf(f).model, x), Null, Objects)

FirstPreview(es) ==
  LET s == SelectSeq(es, LAMBDA e : e.role = "user" /\ e.preview # Null)
  IN IF s = <<>> THEN Null ELSE Head(s).preview

LastPreview(es) ==
  LET s == SelectSeq(es, LAMBDA e : e.role \in {"user", "assistant"} /\ e.preview # Null)
  IN IF s = <<>> THEN Null ELSE Last(s).preview

LastStamp(es) ==
  LET s == SelectSeq(es, LAMBDA e : e.stamp # Null) IN IF s = <<>> THEN Null ELSE Last(s).stamp

Damaged == \E i \in DOMAIN log : log[i].shape # "object" \/ BadHeader(log[i])

ScanReport ==
  LET es == Entries
      h == FoldLeft(HeaderFields, NoFields, Objects)
  IN [name |-> h.name, cwd |-> h.cwd, created |-> h.created, model |-> LastModel,
      updated |-> Or(LastStamp(es), h.created), first |-> FirstPreview(es), last |-> LastPreview(es),
      entries |-> Len(es),
      compactions |-> Cardinality({i \in DOMAIN es : es[i].type = "compaction"}),
      state |-> ParseState(Damaged \/ Duplicate(es) \/ Tree(es).limited, tail,
                           \E i \in DOMAIN Objects : ~Known(Objects[i]))]

-----------------------------------------------------------------------------
\* generic_blocks: one block per entry; a parent is the only entry of that id.

BlockParents(es) ==
  [i \in DOMAIN es |->
     LET named == {j \in DOMAIN es : es[j].id = es[i].parent /\ es[i].parent # Null}
     IN IF Cardinality(named) = 1 /\ named # {i} THEN CHOOSE j \in named : TRUE ELSE 0]

\* drop_cyclic_timeline_parent_links: walk from each block to a settled one;
\* the links of a cycle that is met are dropped, all of them.
RECURSIVE BlockWalk(_, _, _, _)
BlockWalk(parents, settled, path, i) ==
  IF i = 0 \/ i \in settled THEN [path |-> path, cycle |-> {}]
  ELSE IF Contains(path, i)
    THEN [path |-> path,
          cycle |-> ToSet(SubSeq(path, CHOOSE k \in DOMAIN path : path[k] = i, Len(path)))]
    ELSE BlockWalk(parents, settled, Append(path, i), parents[i])

DropCyclicLinks(parents) ==
  FoldLeft(LAMBDA r, start :
             IF start \in r.settled THEN r
             ELSE LET w == BlockWalk(r.parents, r.settled, <<>>, start)
                  IN [settled |-> r.settled \cup ToSet(w.path),
                      parents |-> [i \in DOMAIN r.parents |->
                                     IF i \in w.cycle THEN 0 ELSE r.parents[i]]],
           [settled |-> {}, parents |-> parents], [i \in DOMAIN parents |-> i]).parents

GenericBlocks(es) ==
  LET links == DropCyclicLinks(BlockParents(es)) IN [i \in DOMAIN es |-> [parent |-> links[i]]]

-----------------------------------------------------------------------------
Init == log = <<>> /\ tail = FALSE /\ acc = NoCatalog

\* Bytes of the next line are in the file, its newline is not.
WriteTail == ~tail /\ Len(log) < MaxFrames /\ tail' = TRUE /\ UNCHANGED <<log, acc>>

\* The newline completes the line, and a reader that streams the file takes it.
EndLine(f) ==
  /\ tail
  /\ tail' = FALSE
  /\ log' = Append(log, f)
  /\ acc' = CatalogFrame(acc, f)

Next == WriteTail \/ \E f \in Frames : EndLine(f)

Spec == Init /\ [][Next]_vars
-----------------------------------------------------------------------------
\* Reference definitions for the properties.

RECURSIVE Above(_, _, _)
Above(link, x, steps) ==
  IF steps = 0 \/ x \notin DOMAIN link THEN {} ELSE {link[x]} \cup Above(link, link[x], steps - 1)

Ancestors(link, x) == Above(link, x, Cardinality(DOMAIN link)) \cap DOMAIN link

OnCycle(link) == {x \in DOMAIN link : x \in Ancestors(link, x)}

\* The projected tree keeps within its limits, its lists name nodes of the
\* tree, and the catalog's fields are of their types (ScanReport, TreeProjection).
TypeOK ==
  \A tree \in {Tree(Entries)} :
     /\ log \in Seq(Frames) /\ tail \in BOOLEAN
     /\ Len(tree.order) <= MaxOutput
     /\ Cardinality(DOMAIN tree.depth) <= MaxNodes
     /\ \A id \in DOMAIN tree.depth : tree.depth[id] <= MaxDepth
     /\ tree.leaf \in ToSet(tree.order) \cup {Null}
     /\ acc.entries \in 0 .. MaxFrames /\ acc.compactions \in 0 .. acc.entries

\* The report that discovery streams (CatalogAccumulator) says of a log what the
\* full scan (scan_bytes) says of it, whenever no line is over the catalog's line
\* limit; only what the tree reveals can make the full scan call it corrupt.
CatalogAgrees ==
  (\A i \in DOMAIN log : ~log[i].long) =>
    \A scan \in {ScanReport} :
      \/ CatalogReport = scan
      \/ /\ Duplicate(Entries) \/ Tree(Entries).limited
         /\ CatalogReport = [scan EXCEPT !.state = CatalogReport.state]
         /\ scan.state = "corrupt"

\* project_tree returns a forest: parents and children are each other's inverse,
\* exactly the nodes without a visible parent are roots, from every node the
\* parent links end at a root, and the current path runs from a root to the leaf.
TreeIsForest ==
  \A tree \in {Tree(Entries)} : LET nodes == ToSet(tree.order)
  IN /\ \A id \in nodes : ToSet(tree.children[id]) = {c \in nodes : tree.parent[c] = id}
     /\ \A id \in nodes : IsInjective(tree.children[id])
     /\ tree.roots = {id \in nodes : tree.parent[id] = Null}
     /\ \A id \in nodes : ({id} \cup Ancestors(tree.parent, id)) \cap tree.roots # {}
     /\ OnCycle(tree.parent) = {}
     /\ tree.leaf # Null =>
          /\ tree.children[tree.leaf] = <<>>
          /\ CurrentPath(tree) = {tree.leaf} \cup (Ancestors(tree.parent, tree.leaf) \ {Null})
     /\ nodes # {} => tree.leaf # Null

\* The colour marking finds exactly the nodes that are their own ancestors, and
\* cuts of each cycle the link of its earliest node; every other link survives
\* unless its parent is unknown, out of sight or too deep.
OnlyNeededCuts ==
  \A tree \in {Tree(Entries)}, source \in {SourceParents(Entries)}, order \in {NodeOrder(Entries)} :
  LET nodes == ToSet(tree.order)
      cyclic == OnCycle(source)
  IN /\ tree.cycle = cyclic \cap nodes
     /\ tree.orphans = {id \in nodes : source[id] \notin DOMAIN source \cup {Null}}
     /\ \A id \in nodes :
          LET first == id \in cyclic
                       /\ \A other \in Ancestors(source, id) : Position(order, id) <= Position(order, other)
          IN \/ tree.parent[id] = source[id]
             \/ tree.parent[id] = Null /\ (\/ first
                                           \/ source[id] \notin nodes
                                           \/ tree.depth[source[id]] = MaxDepth)
     /\ \A id \in nodes : id \in cyclic
          => \E other \in cyclic : other \in Ancestors(source, id)
               /\ other \in nodes => tree.parent[other] = Null

\* A generic block's parent is the only other entry with the id it names, and
\* exactly the links that lie on a cycle are dropped
\* (drop_cyclic_timeline_parent_links), so that no block is above itself.
BlockLinksExact ==
  \A link \in {BlockParents(Entries)}, blocks \in {GenericBlocks(Entries)} :
     LET cyclic == OnCycle(link)
     IN \A i \in DOMAIN blocks : blocks[i].parent = IF i \in cyclic THEN 0 ELSE link[i]
=============================================================================
