------------------------------ MODULE ArgParse ------------------------------
(***************************************************************************)
(* libArgParse: the recursive descent parser behind every gWhisper command *)
(* line and every tab completion.                                          *)
(*                                                                         *)
(* A grammar is a tree of elements.  Parse returns how the text was matched*)
(* and the candidates for its continuation; a candidate is the text of a   *)
(* parse tree, in which "stop" forbids to continue it.  Texts are sequences*)
(* of characters.                                                          *)
(***************************************************************************)
EXTENDS Integers, SequencesExt, FiniteSets

CONSTANTS
  Chars,   \* the characters of a command line
  Keys,    \* the names of elements that injectors ask for
  Levels   \* a sequence of sets: the elements of grammars up to each height

Texts == Seq(Chars)
Seen  == [Keys -> Texts]  \* what the named elements have matched, at first nothing

Nothing == [name \in Keys |-> <<>>]

Height == Len(Levels)
Elements(n) == IF n = 0 THEN {} ELSE Levels[n]

\* What the parser of an element is called with, and the one of the children
\* behind a child; main is TRUE for those of the root.
Call(g, t, depth, seen)    == [g |-> g, t |-> t, depth |-> depth, seen |-> seen]
Rest(t, depth, seen, main) == [t |-> t, depth |-> depth, seen |-> seen, main |-> main]
Calls(n) == [g : Elements(n), t : Texts, depth : {0, 1}, seen : Seen]
Rests    == [t : Texts, depth : {0, 1}, seen : Seen, main : BOOLEAN]

Blank == " "

From(t, n) == SubSeq(t, n + 1, Len(t))

\* The elements of a grammar; the name of an element is set with Named.
Fix(s)         == [kind |-> "fix", name |-> "", s |-> s]
Rex(class, n)  == [kind |-> "rex", name |-> "", class |-> class, least |-> n]
Ws             == [kind |-> "ws", name |-> ""]
Esc(stops, e)  == [kind |-> "esc", name |-> "", stops |-> stops \cup {e}, escape |-> e]
Alt(children)  == [kind |-> "alt", name |-> "", children |-> children]
Cat(children)  == [kind |-> "cat", name |-> "", children |-> children]
Rep(child)     == [kind |-> "rep", name |-> "", child |-> child]
Opt(child)     == [kind |-> "opt", name |-> "", child |-> child]
Inj(keys, by)  == [kind |-> "inj", name |-> "", keys |-> keys, by |-> by]
Named(name, g) == [g EXCEPT !.name = name]

----------------------------------------------------------------------------
(* Which grammars there are.                                               *)

\* An element that takes a character whenever it matches, as those in taking do.
Takes(g, taking) ==
  \/ g.kind = "fix" /\ g.s # <<>>
  \/ g.kind = "rex" /\ g.least > 0
  \/ g.kind = "ws"
  \/ g.kind = "alt" /\ g.children # <<>> /\ \A n \in DOMAIN g.children : g.children[n] \in taking
  \/ g.kind = "cat" /\ \E n \in DOMAIN g.children : g.children[n] \in taking
  \/ g.kind = "inj" /\ \A k \in DOMAIN g.by : g.by[k] \in taking

taking[n \in 0 .. Height] ==
  IF n = 0 THEN {} ELSE LET lower == taking[n - 1] IN {g \in Elements(n) : Takes(g, lower)}

\* An element whose children are no higher than n.
WellFormed(g, n) ==
  \/ g.kind = "fix" /\ g.s \in Texts
  \/ g.kind = "rex" /\ g.least \in Nat
  \/ g.kind = "ws"
  \/ g.kind = "esc"
  \/ g.kind = "opt" /\ g.child \in Elements(n)
  \/ g.kind = "rep" /\ g.child \in taking[n]
  \/ g.kind \in {"alt", "cat"} /\ g.children \in Seq(Elements(n))
  \/ g.kind = "inj" /\ g.keys \in Seq(Keys) /\ \A k \in DOMAIN g.by : g.by[k] \in Elements(n)

\* Arguments are separated by blanks.  A repetition of what may match nothing would
\* not end.
ASSUME GrammarAssumption ==
  /\ Blank \in Chars
  /\ Height \in Nat \ {0} /\ \A n \in 1 .. Height : \A g \in Elements(n) : WellFormed(g, n - 1)

\* What an option holds takes a character, so an option that is there is seen.
ASSUME OptionAssumption ==
  \A n \in 1 .. Height : \A g \in Elements(n) : g.kind = "opt" => g.child \in taking[n - 1]

----------------------------------------------------------------------------
(* Results.                                                                *)

Candidate(raw, stop) == [raw |-> raw, stop |-> stop]

ParseRc(type, ok, len, cands, raw) ==
  [type |-> type, ok |-> ok, len |-> len, cands |-> cands, raw |-> raw]

Good(rc)    == rc.type = "success"
Missing(rc) == rc.type = "missingText"
Failed(rc)  == rc.type = "retrievingGrammarFailed"
Unexpected  == ParseRc("unexpectedText", 0, 0, <<>>, <<>>)
Fail        == ParseRc("retrievingGrammarFailed", 0, 0, <<>>, <<>>)
Start       == ParseRc("success", 0, 0, <<>>, <<>>)
Match(s)    == ParseRc("success", Len(s), Len(s), <<>>, s)

----------------------------------------------------------------------------
(* The elements without children.                                          *)

ParseFixedString(s, t) ==
  CASE IsPrefix(s, t) -> Match(s)
    [] IsStrictPrefix(t, s) -> ParseRc("missingText", 0, Len(t), <<Candidate(s, FALSE)>>, <<>>)
    [] OTHER -> Unexpected

\* The longest beginning of t whose characters are in class.
Span(class, t) ==
  CHOOSE n \in 0 .. Len(t) : /\ \A i \in 1 .. n : t[i] \in class
                             /\ n < Len(t) => t[n + 1] \notin class

\* Regular expressions of the form [class]{least,}; half of one is no match.
ParseRegEx(class, least, t) ==
  LET n == Span(class, t)
  IN  CASE n >= least -> Match(SubSeq(t, 1, n))
        [] n < least /\ t = <<>> -> ParseRc("missingText", 0, 0, <<>>, <<>>)
        [] OTHER -> ParseRc("unexpectedText", 0, Len(t), <<>>, <<>>)

\* Mutant: the end of the text is counted as a space.
ParseWhiteSpace_OneMore(t) ==
  LET n == Span({Blank}, t)
  IN  CASE n > 0 -> [Match(SubSeq(t, 1, n)) EXCEPT !.len = @ + 1]
        [] n = 0 /\ t = <<>> -> ParseRc("missingText", 0, 0, <<Candidate(<<Blank>>, FALSE)>>, <<>>)
        [] OTHER -> Unexpected

ParseWhiteSpace(t) ==
  LET n == Span({Blank}, t)
  IN  CASE n > 0 -> Match(SubSeq(t, 1, n))
        [] n = 0 /\ t = <<>> -> ParseRc("missingText", 0, 0, <<Candidate(<<Blank>>, FALSE)>>, <<>>)
        [] OTHER -> Unexpected

\* The characters of a string that escape the next one.
Escapes(stops, escape, t) ==
  LET escapes[i \in 0 .. Len(t)] ==
        /\ i > 0 /\ i < Len(t) /\ t[i] = escape /\ t[i + 1] \in stops
        /\ ~escapes[i - 1]
  IN  escapes

\* The end of the string is the first character of stops that is not escaped and
\* does not escape the next one.
EscapedLength(stops, escape, t) ==
  LET escapes == Escapes(stops, escape, t)
      Ends(n) == n < Len(t) => t[n + 1] \in stops /\ ~escapes[n] /\ ~escapes[n + 1]
  IN  CHOOSE n \in 0 .. Len(t) : Ends(n) /\ \A m \in 0 .. n - 1 : ~Ends(m)

ParseEscapedString(stops, escape, t) == Match(SubSeq(t, 1, EscapedLength(stops, escape, t)))

----------------------------------------------------------------------------
(* The elements with children.  P gives the results of parsing a child; seen*)
(* is what the named children of the root have matched so far, which an     *)
(* injector asks for its keys.                                              *)

Stopped(cands) == [i \in DOMAIN cands |-> Candidate(cands[i].raw, TRUE)]

OptionalCandidates(r) ==
  IF r.type = "unexpectedText" THEN <<>>
  ELSE Stopped(r.cands) \o (IF r.ok = 0 THEN <<Candidate(<<>>, TRUE)>> ELSE <<>>)

\* Mutant: what was matched of an option that is not taken is kept.
ParseOptional_KeepsRaw(P, g, t, seen) ==
  LET r == P[Call(g.child, t, 1, seen)]
  IN  CASE Good(r) -> ParseRc("success", r.ok, r.len, OptionalCandidates(r), r.raw)
        [] Missing(r) /\ r.len >= 1 -> ParseRc("missingText", 0, r.len, OptionalCandidates(r), r.raw)
        [] Failed(r) -> ParseRc(r.type, 0, 0, OptionalCandidates(r), r.raw)
        [] OTHER -> ParseRc("success", 0, 0, OptionalCandidates(r), r.raw)

\* An option of which something is there is taken.
ParseOptional(P, g, t, seen) ==
  LET r == P[Call(g.child, t, 1, seen)]
  IN  CASE Good(r) -> ParseRc("success", r.ok, r.len, OptionalCandidates(r), r.raw)
        [] Missing(r) /\ r.len >= 1 -> ParseRc("missingText", 0, r.len, OptionalCandidates(r), <<>>)
        [] Failed(r) -> ParseRc(r.type, 0, 0, OptionalCandidates(r), <<>>)
        [] OTHER -> ParseRc("success", 0, 0, OptionalCandidates(r), <<>>)

Repeated(rc, cands) == [i \in DOMAIN cands |-> Candidate(rc.raw \o cands[i].raw, TRUE)]

\* Mutant: a repetition that is half there is as good as none.
Repeat_HalfIsGood(P, g, t, seen, state) ==
  LET rc    == state.rc
      r     == P[Call(g.child, From(t, rc.ok), 1, seen)]
      ok    == rc.ok + r.ok
      len   == rc.len + r.len
      raw   == rc.raw \o r.raw
      cands == Repeated(rc, r.cands)
      end(result) == [rc |-> result, on |-> FALSE]
  IN  CASE ~state.on -> state
        [] state.on /\ Good(r) -> [rc |-> ParseRc("success", ok, len, <<>>, raw), on |-> TRUE]
        [] state.on /\ Missing(r) -> end(ParseRc("success", ok, len, cands, raw))
        [] state.on /\ Failed(r) -> end(ParseRc(r.type, rc.ok, rc.len, cands, rc.raw))
        [] OTHER -> end(rc)

\* One repetition: rc holds those that are matched, and on says that there may be more.
Repeat(P, g, t, seen, state) ==
  LET rc    == state.rc
      r     == P[Call(g.child, From(t, rc.ok), 1, seen)]
      ok    == rc.ok + r.ok
      len   == rc.len + r.len
      raw   == rc.raw \o r.raw
      cands == Repeated(rc, r.cands)
      type  == IF rc.ok = Len(t) THEN "success" ELSE r.type
      end(result) == [rc |-> result, on |-> FALSE]
  IN  CASE ~state.on -> state
        [] state.on /\ Good(r) -> [rc |-> ParseRc("success", ok, len, <<>>, raw), on |-> TRUE]
        [] state.on /\ Missing(r) -> end(ParseRc(type, ok, len, cands, raw))
        [] state.on /\ Failed(r) -> end(ParseRc(type, rc.ok, rc.len, cands, rc.raw))
        [] OTHER -> end(rc)

\* The first k repetitions.
Repetitions(P, g, t, seen, k) ==
  LET state[n \in 0 .. k] ==
        IF n = 0 THEN [rc |-> Start, on |-> TRUE] ELSE Repeat(P, g, t, seen, state[n - 1])
  IN  state[k]

\* Each repetition but the last takes a character.
ParseRepetition(P, g, t, seen) == Repetitions(P, g, t, seen, Len(t) + 1).rc

Goods(r)  == {i \in DOMAIN r : Good(r[i])}
Maybes(r) == {i \in DOMAIN r : Missing(r[i])}

\* Of the children of an alternation that match, the last of those that match most.
Winner(r) ==
  CHOOSE i \in Goods(r) : \A j \in Goods(r) : r[j].ok < r[i].ok \/ (r[j].ok = r[i].ok /\ j <= i)

\* Mutant: beside a winner nothing is suggested.
OtherCandidates_None(r) == <<>>

\* Candidates of the children that branch off behind the winner.
OtherCandidates(r) ==
  FlattenSeq([i \in DOMAIN r |->
                IF i \in (Goods(r) \cup Maybes(r)) \ {Winner(r)} /\ r[i].len >= r[Winner(r)].len
                THEN r[i].cands ELSE <<>>])

\* The children are parsed without forks first, and the one that is selected
\* again with them.
ParseAlternation(P, g, t, depth, seen) ==
  LET I         == DOMAIN g.children
      r         == [i \in I |-> P[Call(g.children[i], t, 0, seen)]]
      failed    == \E i \in I : Failed(r[i])
      forked(i) == P[Call(g.children[i], t, depth, seen)].cands
      unique    == Cardinality(Maybes(r)) = 1
      only      == CHOOSE i \in Maybes(r) : TRUE
      cands     == IF unique THEN forked(only) ELSE FlattenSeq([i \in I |-> r[i].cands])
      raw       == IF unique THEN r[only].raw ELSE <<>>
  IN  CASE Goods(r) # {} ->
             ParseRc(IF failed THEN "retrievingGrammarFailed" ELSE "success",
                     r[Winner(r)].ok, r[Winner(r)].len,
                     forked(Winner(r)) \o OtherCandidates(r), r[Winner(r)].raw)
        [] Goods(r) = {} /\ failed -> ParseRc("retrievingGrammarFailed", 0, 0, cands, raw)
        [] Goods(r) = {} /\ ~failed /\ I = {} -> Start
        [] Goods(r) = {} /\ ~failed /\ I # {} /\ cands = <<>> -> ParseRc("unexpectedText", 0, 0, <<>>, raw)
        [] OTHER -> ParseRc("missingText", 0, Len(t), cands, raw)

Prefixed(raw, cands) == [i \in DOMAIN cands |-> Candidate(raw \o cands[i].raw, cands[i].stop)]

\* Mutant: a stopped candidate is continued, too.
Forks_IgnoresStop(r, rest, depth, seen, first) ==
  LET many == Len(r.cands) > 1
      longer == rest[Rest(<<>>, IF many THEN depth - 1 ELSE depth, seen, FALSE)].cands
      fork(c) ==
        CASE depth = 0 /\ many /\ first  -> <<c>>
          [] depth = 0 /\ many /\ ~first -> <<>>
          [] OTHER -> IF longer = <<>> THEN <<Candidate(c.raw, TRUE)>> ELSE Prefixed(c.raw, longer)
  IN  FlattenSeq([n \in DOMAIN r.cands |-> fork(r.cands[n])])

\* A candidate of a child with the result r is continued by the children behind
\* it, which is what rest parses, as long as it is the only one or depth allows
\* to fork.
Forks(r, rest, depth, seen, first) ==
  LET many == Len(r.cands) > 1
      fork(c) ==
        LET longer == IF c.stop THEN <<>>
                      ELSE rest[Rest(<<>>, IF many THEN depth - 1 ELSE depth, seen, FALSE)].cands
        IN  CASE depth = 0 /\ many /\ first  -> <<c>>
              [] depth = 0 /\ many /\ ~first -> <<>>
              [] OTHER -> IF longer = <<>> THEN <<Candidate(c.raw, TRUE)>> ELSE Prefixed(c.raw, longer)
  IN  FlattenSeq([n \in DOMAIN r.cands |-> fork(r.cands[n])])

\* A child, and the children behind it.  The names of the root's children (main)
\* are noted, but not for what continues a candidate.
ParseChild(P, child, rest, t, depth, seen, main, first) ==
  LET r     == P[Call(child, t, 1, seen)]
      known == IF main /\ child.name \in Keys THEN [seen EXCEPT ![child.name] = r.raw] ELSE seen
      s     == rest[Rest(From(t, r.len), depth, known, main)]
      cands == Forks(r, rest, depth, seen, first)
  IN  CASE Good(r)    -> ParseRc(s.type, r.ok + s.ok, r.len + s.len, cands \o Prefixed(r.raw, s.cands),
                                 r.raw \o s.raw)
        [] Missing(r) -> ParseRc(r.type, r.ok, r.len, cands, r.raw)
        [] OTHER      -> ParseRc(r.type, r.ok, r.len, cands, <<>>)

\* The last n children.
LastChildren(P, g, n) ==
  LET last[k \in 0 .. n] ==
        [c \in Rests |->
           IF k = 0 THEN Start
           ELSE ParseChild(P, g.children[Len(g.children) - k + 1], last[k - 1],
                           c.t, c.depth, c.seen, c.main, k = Len(g.children))]
  IN  last[n]

ParseConcatenation(P, g, t, depth, seen, main) ==
  IF g.children = <<>> THEN Fail
  ELSE LastChildren(P, g, Len(g.children))[Rest(t, depth, seen, main)]

\* getGrammar: the grammar that the server gives for what its keys have matched;
\* it is asked for while candidates are continued, too, before they have matched.
KeyOf(g, seen) == [i \in DOMAIN g.keys |-> seen[g.keys[i]]]
Injected(g, seen) == KeyOf(g, seen) \in DOMAIN g.by
GrammarOf(g, seen) == g.by[KeyOf(g, seen)]

ParseElement(P, g, t, depth, seen) ==
  CASE g.kind = "fix" -> ParseFixedString(g.s, t)
    [] g.kind = "rex" -> ParseRegEx(g.class, g.least, t)
    [] g.kind = "ws"  -> ParseWhiteSpace(t)
    [] g.kind = "esc" -> ParseEscapedString(g.stops, g.escape, t)
    [] g.kind = "opt" -> ParseOptional(P, g, t, seen)
    [] g.kind = "rep" -> ParseRepetition(P, g, t, seen)
    [] g.kind = "alt" -> ParseAlternation(P, g, t, depth, seen)
    [] g.kind = "cat" -> ParseConcatenation(P, g, t, depth, seen, FALSE)
    [] g.kind = "inj" -> IF Injected(g, seen) THEN P[Call(GrammarOf(g, seen), t, depth, seen)] ELSE Fail

\* The parsers of the elements up to each height.
parse[n \in 0 .. Height] ==
  [c \in Calls(n) |-> ParseElement(parse[n - 1], c.g, c.t, c.depth, c.seen)]

\* main() parses the arguments with the grammar of constructGrammar.
ParseMain(g, t) == ParseConcatenation(parse[Height - 1], g, t, 1, Nothing, TRUE)

Accepted(t, rc) == Good(rc) /\ rc.ok = Len(t)
=============================================================================
