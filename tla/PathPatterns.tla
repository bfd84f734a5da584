---------------------------- MODULE PathPatterns ----------------------------
(***************************************************************************)
(* The path patterns of "files changed" rules, automation_paths.rs: how a  *)
(* pattern's text is parsed, and how it is matched.  match_tokens keeps    *)
(* one backtrack point and is a loop, so it is a state machine here; it    *)
(* and the recursive functions are checked against reference definitions   *)
(* that say which parts of a path each part of a pattern stands for.       *)
(***************************************************************************)
EXTENDS Naturals, Sequences, FiniteSets, SequencesExt

CONSTANTS
  Letter,     \* ordinary characters, with their codes in Code
  Code,
  MaxTokens, MaxName, MaxParts, MaxText, MaxBraces \* bounds on the inputs

Lit(c) == [k |-> "lit", not |-> FALSE, set |-> {c}, items |-> <<>>]
One == [k |-> "one", not |-> FALSE, set |-> {}, items |-> <<>>]
Wild == [k |-> "any", not |-> FALSE, set |-> {}, items |-> <<>>]
Class(negated, items) ==
  [k |-> "class", not |-> negated, items |-> items,
   set |-> {c \in DOMAIN Code : \E i \in 1..Len(items) : Code[items[i][1]] <= Code[c] /\ Code[c] <= Code[items[i][Len(items[i])]]}]
Globstar == <<[k |-> "globstar"]>>

VARIABLES
  input,   \* the pattern and the path or text under work
  token, position, star, \* match_tokens: its indices and its backtrack point
  answer   \* "open", "yes" or "no"
vars == <<input, token, position, star, answer>>

\* Every variable has its type and the indices stay inside their sequences.
TypeOK ==
  /\ token \in 1..(Len(input.tokens) + 1) /\ position \in 1..(Len(input.name) + 1)
  /\ answer \in {"open", "yes", "no"}
  /\ star = <<>> \/ (star[1] \in 1..Len(input.tokens) /\ star[2] \in 1..position)

Some == CHOOSE c \in Letter : TRUE
Names == SeqOf(Letter, MaxName)
Tokens == SeqOf({Lit(c) : c \in Letter} \cup {One, Wild, Class(TRUE, <<<<Some>>>>)}, MaxTokens)
Segment == {Globstar} \cup {<<t>> : t \in {Lit(c) : c \in Letter} \cup {Wild}}
Empty == [tokens |-> <<>>, name |-> <<>>, segments |-> <<>>, parts |-> <<>>, text |-> <<>>, braces |-> <<>>]

\* One kind of input at a time.
Init ==
  /\ token = 1 /\ position = 1 /\ star = <<>> /\ answer = "open"
  /\ \/ \E t \in Tokens, n \in Names : input = [Empty EXCEPT !.tokens = t, !.name = n]
     \/ \E s \in SeqOf(Segment, MaxParts) \ {<<>>}, p \in SeqOf({<<c>> : c \in Letter}, MaxParts) :
          input = [Empty EXCEPT !.segments = s, !.parts = p]
     \/ \E t \in SeqOf(Letter \cup {"*", "?", "[", "]", "!", "-"}, MaxText) : input = [Empty EXCEPT !.text = t]
     \/ \E t \in SeqOf({Some, "{", "}", ",", "/"}, MaxBraces) : input = [Empty EXCEPT !.braces = t]
-----------------------------------------------------------------------------
(* match_tokens.                                                           *)

Fits(t, c) == IF t.k = "one" THEN TRUE ELSE (c \in t.set) # t.not

Open == answer = "open" /\ position <= Len(input.name)
Here == token <= Len(input.tokens)
Star ==
  /\ Open /\ Here /\ input.tokens[token].k = "any"
  /\ star' = <<token, position>> /\ token' = token + 1 /\ UNCHANGED <<input, position, answer>>
Matched == Here /\ input.tokens[token].k # "any" /\ Fits(input.tokens[token], input.name[position])
Advance ==
  /\ Open /\ Matched
  /\ token' = token + 1 /\ position' = position + 1 /\ UNCHANGED <<input, star, answer>>
Backtrack ==
  /\ Open /\ (Here => input.tokens[token].k # "any") /\ ~Matched /\ star # <<>>
  /\ token' = star[1] + 1 /\ position' = star[2] + 1 /\ star' = <<star[1], star[2] + 1>>
  /\ UNCHANGED <<input, answer>>
Refuse ==
  /\ Open /\ (Here => input.tokens[token].k # "any") /\ ~Matched /\ star = <<>>
  /\ answer' = "no" /\ UNCHANGED <<input, token, position, star>>
\* Mutant: tokens that are left over do not matter.
EndAnywhere ==
  /\ answer = "open" /\ position > Len(input.name) /\ answer' = "yes"
  /\ UNCHANGED <<input, token, position, star>>
End ==
  /\ answer = "open" /\ position > Len(input.name)
  /\ answer' = IF \A i \in token..Len(input.tokens) : input.tokens[i].k = "any" THEN "yes" ELSE "no"
  /\ UNCHANGED <<input, token, position, star>>

Next == Star \/ Advance \/ Backtrack \/ Refuse \/ End
Spec == Init /\ [][Next]_vars
-----------------------------------------------------------------------------
(* match_segments and matches.                                             *)

\* What a name matches, by its definition: token i stands for the characters
\* after cut i - 1 up to cut i.
Stands(tokens, name) ==
  \E cut \in [0..Len(tokens) -> 0..Len(name)] :
    /\ cut[0] = 0 /\ cut[Len(tokens)] = Len(name)
    /\ \A i \in 1..Len(tokens) :
         IF tokens[i].k = "any" THEN cut[i - 1] <= cut[i]
         ELSE cut[i] = cut[i - 1] + 1 /\ Fits(tokens[i], name[cut[i]])

From(s, i) == SubSeq(s, i, Len(s))
RECURSIVE MatchSegments(_, _)
MatchSegments(segments, parts) ==
  IF segments = <<>> THEN parts = <<>>
  ELSE IF segments[1] = Globstar
    THEN \E skip \in 0..Len(parts) : MatchSegments(Tail(segments), From(parts, skip + 1))
  ELSE parts # <<>> /\ Stands(segments[1], parts[1]) /\ MatchSegments(Tail(segments), Tail(parts))
Matches(segments, parts) ==
  parts # <<>> /\ \E end \in 1..Len(parts) : MatchSegments(segments, SubSeq(parts, 1, end))
-----------------------------------------------------------------------------
(* Parsing.                                                                *)

Error == <<[k |-> "error"]>>
Has(text, c) == \E i \in 1..Len(text) : text[i] = c
At(text, c) == Min({i \in 1..Len(text) : text[i] = c})

\* The items of a character class up to its "]": the items and what follows,
\* or Error.
RECURSIVE Items(_, _)
Items(text, items) ==
  IF text = <<>> THEN [ok |-> FALSE, items |-> items, rest |-> <<>>]
  ELSE IF text[1] = "]" THEN [ok |-> items # <<>>, items |-> items, rest |-> Tail(text)]
  ELSE IF text[1] = "[" THEN [ok |-> FALSE, items |-> items, rest |-> <<>>]
  ELSE IF Len(text) > 1 /\ text[2] = "-"
    THEN IF Len(text) = 2 \/ text[3] = "]" \/ Code[text[3]] < Code[text[1]]
         THEN [ok |-> FALSE, items |-> items, rest |-> <<>>]
         ELSE Items(From(text, 4), Append(items, <<text[1], text[3]>>))
  ELSE Items(Tail(text), Append(items, <<text[1]>>))

RECURSIVE ParseTokens(_)
ParseTokens(text) ==
  IF text = <<>> THEN <<>>
  ELSE IF text[1] = "]" THEN Error
  ELSE IF text[1] = "["
    THEN LET negated == Len(text) > 1 /\ text[2] = "!"
             body == Items(From(text, IF negated THEN 3 ELSE 2), <<>>)
         IN IF ~body.ok THEN Error
            ELSE LET rest == ParseTokens(body.rest)
                 IN IF rest = Error THEN Error ELSE <<Class(negated, body.items)>> \o rest
  ELSE LET rest == ParseTokens(Tail(text))
       IN IF rest = Error THEN Error
          ELSE <<IF text[1] = "*" THEN Wild ELSE IF text[1] = "?" THEN One ELSE Lit(text[1])>> \o rest
DoubleStar(text) == \E i \in 1..(Len(text) - 1) : text[i] = "*" /\ text[i + 1] = "*"
ParseSegment(text) ==
  IF text \in {<<>>, <<".">>, <<".", ".">>} THEN Error
  ELSE IF text = <<"*", "*">> THEN Globstar
  ELSE IF DoubleStar(text) THEN Error
  ELSE ParseTokens(text)

RECURSIVE Options(_)
Options(inner) ==
  IF ~Has(inner, ",") THEN <<inner>>
  ELSE <<SubSeq(inner, 1, At(inner, ",") - 1)>> \o Options(From(inner, At(inner, ",") + 1))
Wrong == {<<"error">>}
Refused(inner) == Has(inner, "{") \/ Has(inner, "/")
RECURSIVE ExpandBraces(_)
ExpandBraces(text) ==
  IF ~Has(text, "{") THEN IF Has(text, "}") THEN Wrong ELSE {text}
  ELSE LET open == At(text, "{")
           after == From(text, open)
       IN IF ~Has(after, "}") THEN Wrong
          ELSE LET close == open + At(after, "}") - 1
                   inner == SubSeq(text, open + 1, close - 1)
                   options == Options(inner)
                   rest == ExpandBraces(From(text, close + 1))
               IN IF \/ Refused(inner) \/ Len(options) < 2 \/ \E i \in 1..Len(options) : options[i] = <<>>
                     \/ Has(SubSeq(text, 1, open - 1), "}") \/ rest = Wrong
                  THEN Wrong
                  ELSE {SubSeq(text, 1, open - 1) \o options[i] \o r : i \in 1..Len(options), r \in rest}
Body(text) == IF text # <<>> /\ text[Len(text)] = "/" THEN SubSeq(text, 1, Len(text) - 1) ELSE text
Anchored(text) == Has(Body(text), "/")
-----------------------------------------------------------------------------
(* Properties.                                                             *)

\* match_tokens, with its one backtrack point, answers what the pattern means.
TokensExact ==
  /\ answer = "yes" => Stands(input.tokens, input.name)
  /\ answer = "no" => ~Stands(input.tokens, input.name)

\* A pattern that matches a folder matches everything inside it, and nothing
\* else: matches accepts a path exactly when the pattern followed by "**" does.
FoldersCover ==
  input.parts # <<>> =>
    (Matches(input.segments, input.parts) <=> MatchSegments(Append(input.segments, Globstar), input.parts))

\* The text of a token.
Text(t) ==
  IF t.k = "any" THEN <<"*">>
  ELSE IF t.k = "one" THEN <<"?">>
  ELSE IF t.k = "lit" THEN <<CHOOSE c \in t.set : TRUE>>
  ELSE <<"[">> \o (IF t.not THEN <<"!">> ELSE <<>>)
         \o FlattenSeq([i \in 1..Len(t.items) |-> IF Len(t.items[i]) = 1 THEN t.items[i]
                                               ELSE <<t.items[i][1], "-", t.items[i][2]>>]) \o <<"]">>
\* A name pattern that is accepted reads back as its text: parse_segment drops
\* and invents nothing.
ReadsBack ==
  LET tokens == ParseSegment(input.text)
  IN input.text # <<>> /\ tokens \notin {Error, Globstar} =>
       FlattenSeq([i \in 1..Len(tokens) |-> Text(tokens[i])]) = input.text

\* Every alternative of a pattern with braces is anchored exactly when the
\* pattern is: anchoring is decided once, before the braces are expanded.
AnchoringAgrees ==
  LET body == Body(input.braces)
  IN ExpandBraces(body) # Wrong => \A a \in ExpandBraces(body) : Has(a, "/") = Anchored(input.braces)
=============================================================================
