----------------------------- MODULE GitOutput -----------------------------
(***************************************************************************)
(* Reading what git prints (git/patch.rs, git/status.rs).                  *)
(*                                                                         *)
(* A patch is the printed difference of one path: header lines and hunks   *)
(* whose bodies are counted, because a removed or added line may look like *)
(* a header.  The parser reads it line by line; a hunk is then split at    *)
(* its context lines into parts that must apply alone.  A status is a      *)
(* stream of records in which a moved path takes the next field, whatever  *)
(* that field looks like.                                                  *)
(***************************************************************************)
EXTENDS Naturals, Sequences, FiniteSets

CONSTANTS
  Patch,       \* printed differences: [kind, gap, bodies], bodies the rows of each hunk
  Status       \* printed statuses: sequences of changes

VARIABLES
  input,       \* what git printed, and what it meant
  pos,         \* the next line or record
  got,         \* what was parsed so far
  left         \* lines of the current hunk that are still to come

vars == <<input, pos, got, left>>

\* The first byte of a body line.
First(k) == CASE k \in {"-", "---"} -> "-" [] k \in {"+", "+++"} -> "+" [] k \in {" ", "blank"} -> " " [] OTHER -> k

Kinds(rows) == [i \in 1..Len(rows) |-> First(rows[i])]
OldSide(rows) == Cardinality({i \in 1..Len(rows) : First(rows[i]) \in {" ", "-"}})
NewSide(rows) == Cardinality({i \in 1..Len(rows) : First(rows[i]) \in {" ", "+"}})

----------------------------------------------------------------------------
(* What git prints.                                                        *)

Line(k) == [k |-> k]
Lines(ks) == [i \in 1..Len(ks) |-> Line(ks[i])]

\* The line of the old and of the new side before which hunk n starts.
Before(p, n) ==
  IF n = 1 THEN [old |-> p.gap, new |-> p.gap]
  ELSE [old |-> 2 * p.gap + OldSide(p.bodies[1]), new |-> 2 * p.gap + NewSide(p.bodies[1])]

\* An empty side is printed with the line before it.
Header(p, n) ==
  LET rows == p.bodies[n]
      at(side, count) == IF count = 0 THEN side ELSE side + 1
  IN [k |-> "@@", old |-> at(Before(p, n).old, OldSide(rows)), oldLines |-> OldSide(rows),
      new |-> at(Before(p, n).new, NewSide(rows)), newLines |-> NewSide(rows)]

Top(p) ==
  CASE p.kind \in {"text", "junk"} -> <<"diff", "index", "---", "+++">>
    [] p.kind = "mode" -> <<"diff", "mode", "mode", "index", "---", "+++">>
    [] p.kind = "new" -> <<"diff", "new", "index", "---", "+++">>
    [] p.kind = "deleted" -> <<"diff", "deleted", "index", "---", "+++">>
    [] p.kind = "renamed" -> <<"diff", "rename", "rename", "index", "---", "+++">>
    [] p.kind = "binary" -> <<"diff", "index", "binary", "data">>

Printed(p) ==
  Lines(Top(p)) \o
  (IF Len(p.bodies) > 0 THEN <<Header(p, 1)>> \o Lines(p.bodies[1]) ELSE <<>>) \o
  (IF Len(p.bodies) > 1 THEN <<Header(p, 2)>> \o Lines(p.bodies[2]) ELSE <<>>)

----------------------------------------------------------------------------
(* FilePatch::parse.                                                       *)

NoSection == [flags |-> {}, hunks |-> <<>>]
Reading == input.what = "patch" /\ pos <= Len(input.text)
Kind == input.text[pos].k
InBody == left.old > 0 \/ left.new > 0
Hunks == got.hunks

HeaderFlags == {"mode", "new", "deleted", "rename", "---", "+++", "binary"}

\* Header lines up to the first hunk; binary data is skipped.
ReadHeader ==
  /\ Reading /\ ~InBody /\ Kind \notin {"@@", "\\"}
  /\ Hunks = <<>>
  /\ got' = [got EXCEPT !.flags = @ \cup ({Kind} \cap HeaderFlags)]
  /\ pos' = pos + 1
  /\ UNCHANGED <<input, left>>

ReadHunk ==
  /\ Reading /\ ~InBody /\ Kind = "@@"
  /\ LET h == input.text[pos]
     IN /\ got' = [got EXCEPT !.hunks = Append(@, [old |-> h.old, oldLines |-> h.oldLines, new |-> h.new,
                                                   newLines |-> h.newLines, rows |-> <<>>])]
        /\ left' = [old |-> h.oldLines, new |-> h.newLines]
  /\ pos' = pos + 1
  /\ UNCHANGED input

\* A line of the body by its counts; after them only the marker of a missing newline.
InThisBody(k) == InBody \/ k = "\\"

Took(k) == [old |-> IF First(k) \in {" ", "-"} THEN 1 ELSE 0, new |-> IF First(k) \in {" ", "+"} THEN 1 ELSE 0]

Fits(k) == First(k) \in {" ", "-", "+", "\\"} /\ Took(k).old <= left.old /\ Took(k).new <= left.new

ReadBody ==
  /\ Reading /\ Hunks # <<>> /\ InThisBody(Kind) /\ Fits(Kind)
  /\ LET t == Took(Kind)
     IN /\ left' = [old |-> left.old - t.old, new |-> left.new - t.new]
        /\ got' = [got EXCEPT !.hunks[Len(Hunks)].rows = Append(@, Kind)]
  /\ pos' = pos + 1
  /\ UNCHANGED input

\* PatchError::Malformed.
Refuse ==
  /\ Reading /\ Hunks # <<>>
  /\ IF InBody THEN Kind = "@@" \/ ~InThisBody(Kind) \/ ~Fits(Kind) ELSE Kind \notin {"@@", "\\"}
  /\ got' = [got EXCEPT !.flags = @ \cup {"malformed"}]
  /\ pos' = Len(input.text) + 1
  /\ UNCHANGED <<input, left>>

\* hunks_selectable.
Selectable(g) ==
  /\ g.flags \cap {"binary", "new", "deleted", "rename"} = {}
  /\ {"---", "+++"} \subseteq g.flags
  /\ g.hunks # <<>>

----------------------------------------------------------------------------
(* split_hunk.                                                             *)

\* The rows of a hunk without the markers, which stay with the row before them.
Rows(h) == SelectSeq(Kinds(h.rows), LAMBDA k : k # "\\")
IsChange(rows, i) == rows[i] # " "

\* The ends of the runs of changed rows.
RunStarts(rows) == {i \in 1..Len(rows) : IsChange(rows, i) /\ (i = 1 \/ ~IsChange(rows, i - 1))}
RunEnd(rows, s) == CHOOSE e \in s..Len(rows) : /\ \A i \in s..e : IsChange(rows, i)
                                               /\ e = Len(rows) \/ ~IsChange(rows, e + 1)

PartOf(h, first, last) ==
  LET rows == Rows(h)
  IN [first |-> first, last |-> last,
      old |-> h.old + OldSide(SubSeq(rows, 1, first - 1)), oldLines |-> OldSide(SubSeq(rows, first, last)),
      new |-> h.new + NewSide(SubSeq(rows, 1, first - 1)), newLines |-> NewSide(SubSeq(rows, first, last))]

\* One part for each run, with the context up to the runs beside it.
Parts(h) ==
  LET rows == Rows(h)
      starts == RunStarts(rows)
      first(s) == IF \A r \in starts : r >= s THEN 1
                  ELSE LET p == CHOOSE r \in starts : r < s /\ \A q \in starts : q < s => q <= r
                       IN RunEnd(rows, p) + 1
      last(s) == IF \A r \in starts : r <= s THEN Len(rows)
                 ELSE (CHOOSE r \in starts : r > s /\ \A q \in starts : q > s => q >= r) - 1
  IN IF Cardinality(starts) < 2
     THEN {[first |-> 1, last |-> Len(rows), old |-> h.old, oldLines |-> h.oldLines,
            new |-> h.new, newLines |-> h.newLines]}
     ELSE {PartOf(h, first(s), last(s)) : s \in starts}

----------------------------------------------------------------------------
(* parse_status.                                                           *)

\* The fields git prints for a change.  A path is a field of its own after a moved
\* one, and may look like the start of a record.
Record(t, x, y, path) == [t |-> t, x |-> x, y |-> y, path |-> path]
Fields(c) ==
  CASE c.how = "renamed" -> <<Record("2", "R", c.y, c.path), Record(c.looks, ".", ".", c.from)>>
    [] c.how = "copied" -> <<Record("2", "C", c.y, c.path), Record(c.looks, ".", ".", c.from)>>
    [] c.how = "moved" -> <<Record("2", ".", "R", c.path), Record(c.looks, ".", ".", c.from)>>
    [] c.how = "changed" -> <<Record("1", c.x, c.y, c.path)>>
    [] c.how = "conflict" -> <<Record("u", ".", ".", c.path)>>
    [] c.how = "untracked" -> <<Record("?", ".", ".", c.path)>>

Stream(changes) == IF Len(changes) = 1 THEN Fields(changes[1]) ELSE Fields(changes[1]) \o Fields(changes[2])

Shown(path) == path # "hidden"
NoReport == [entries |-> {}, hidden |-> 0]

\* push_changed.
Changed(r, x, y, path, from) ==
  LET w == IF y \in {"R", "C"} THEN "M" ELSE y
  IN IF Shown(path)
     THEN [r EXCEPT !.entries = @ \cup {[path |-> path, index |-> x, work |-> w, ita |-> w = "A", from |-> from]}]
     ELSE [r EXCEPT !.hidden = @ + 1]

\* push_moved.
Moved(r, x, y, path, from) ==
  IF x = "R"
  THEN IF Shown(from) THEN Changed(r, "R", y, path, from)
       ELSE Changed([r EXCEPT !.hidden = @ + 1], "A", y, path, "none")
  ELSE IF x = "C" THEN Changed(r, "A", y, path, "none")
  ELSE Changed(Changed(r, ".", "D", from, "none"), x, "A", path, "none")

Listing == input.what = "status" /\ pos <= Len(input.text)

\* A moved path takes the next field too.
FieldsOf(t) == IF t = "2" THEN 2 ELSE 1

ReadRecord ==
  /\ Listing
  /\ LET f == input.text[pos]
     IN /\ got' = CASE f.t = "1" -> Changed(got, f.x, f.y, f.path, "none")
                    [] f.t = "2" -> Moved(got, f.x, f.y, f.path, input.text[pos + 1].path)
                    [] f.t \in {"u", "?"} ->
                         IF Shown(f.path)
                         THEN [got EXCEPT !.entries = @ \cup {[path |-> f.path, index |-> f.t, work |-> f.t,
                                                               ita |-> FALSE, from |-> "none"]}]
                         ELSE [got EXCEPT !.hidden = @ + 1]
        /\ pos' = pos + FieldsOf(f.t)
  /\ UNCHANGED <<input, left>>

----------------------------------------------------------------------------
Init ==
  /\ \/ /\ input \in {[what |-> "patch", of |-> p, text |-> Printed(p)] : p \in Patch}
        /\ got = NoSection
     \/ /\ input \in {[what |-> "status", of |-> s, text |-> Stream(s)] : s \in Status}
        /\ got = NoReport
  /\ pos = 1
  /\ left = [old |-> 0, new |-> 0]

Next == ReadHeader \/ ReadHunk \/ ReadBody \/ Refuse \/ ReadRecord

Spec == Init /\ [][Next]_vars

----------------------------------------------------------------------------
Printing(n) == Header(input.of, n)

\* Every difference git prints is parsed to its end, and its hunks are the printed
\* ones, whatever their lines look like; hunks of a file that is new, deleted,
\* renamed or binary are never offered.  Other text is refused.
ParsesExactly ==
  input.what = "patch" /\ ~Reading =>
    IF input.of.kind = "junk" THEN "malformed" \in got.flags ELSE
    /\ "malformed" \notin got.flags /\ ~InBody
    /\ Len(Hunks) = Len(input.of.bodies)
    /\ \A n \in 1..Len(Hunks) :
         /\ Hunks[n].rows = input.of.bodies[n]
         /\ Hunks[n].old = Printing(n).old /\ Hunks[n].new = Printing(n).new
    /\ Selectable(got) <=> input.of.kind \in {"text", "mode"} /\ Hunks # <<>>

\* The lines of both sides that a hunk stands for, by number: <<line, row>>.
SideLines(h, sides, start) ==
  LET rows == Rows(h)
      at(i) == Cardinality({j \in 1..i : rows[j] \in sides})
  IN {<<start + at(i) - 1, i>> : i \in {j \in 1..Len(rows) : rows[j] \in sides}}
PartLines(h, p, sides, start) ==
  {<<start + Cardinality({j \in p.first..l[2] : Rows(h)[j] \in sides}) - 1, l[2]>> :
     l \in {m \in SideLines(h, sides, start) : m[2] \in p.first..p.last}}

\* The parts of a hunk change each changed line exactly once, each has one run of
\* changes with context around it, and its header gives the exact position of its
\* lines on both sides.
PartsExact ==
  input.what = "patch" /\ ~Reading /\ Selectable(got) /\ "malformed" \notin got.flags =>
    \A n \in 1..Len(Hunks) :
      LET h == Hunks[n]
          rows == Rows(h)
      IN /\ \A i \in 1..Len(rows) : IsChange(rows, i) =>
              Cardinality({p \in Parts(h) : i \in p.first..p.last}) = 1
         /\ \A p \in Parts(h) :
              /\ Cardinality(RunStarts(SubSeq(rows, p.first, p.last))) <= 1
              /\ p.oldLines = OldSide(SubSeq(rows, p.first, p.last))
              /\ p.newLines = NewSide(SubSeq(rows, p.first, p.last))
              /\ PartLines(h, p, {" ", "-"}, p.old) \subseteq SideLines(h, {" ", "-"}, h.old)
              /\ PartLines(h, p, {" ", "+"}, p.new) \subseteq SideLines(h, {" ", "+"}, h.new)

\* The paths a change touches.
Touched(c) == IF c.how = "moved" THEN {c.path, c.from} ELSE {c.path}

\* Every path git reports as changed is listed or counted as one that cannot be
\* shown, under the letters of its change, and nothing else is listed.
StatusExact ==
  input.what = "status" /\ ~Listing =>
    LET all == UNION {Touched(input.of[i]) : i \in 1..Len(input.of)}
    IN /\ {e.path : e \in got.entries} = {p \in all : Shown(p)}
       /\ "hidden" \in all => got.hidden > 0
       /\ \A i \in 1..Len(input.of) : LET c == input.of[i] IN
            /\ c.how = "renamed" /\ Shown(c.path) /\ Shown(c.from) =>
                 \E e \in got.entries : e.path = c.path /\ e.index = "R" /\ e.from = c.from
            /\ c.how = "untracked" /\ Shown(c.path) =>
                 \E e \in got.entries : e.path = c.path /\ e.index = "?"
=============================================================================
