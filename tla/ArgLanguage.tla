---------------------------- MODULE ArgLanguage ----------------------------
(***************************************************************************)
(* The language of a grammar of ArgParse, defined without parsing: what    *)
(* the parser and its candidates are measured against.                     *)
(*                                                                         *)
(* E gives the ends of a child: the positions of a text at which a match   *)
(* that starts behind position i may end.                                  *)
(***************************************************************************)
EXTENDS ArgParse

Spot(g, t, i, seen) == [g |-> g, t |-> t, i |-> i, seen |-> seen]
Spots(n) == [g : Elements(n), t : Texts, i : Nat, seen : Seen]

Inside(class, t, i, j) == \A n \in i + 1 .. j : t[n] \in class

\* Each character of stops is escaped, or escapes the next one.
Escaped(g, t, i, j) ==
  \E S \in SUBSET {n \in i + 2 .. j : t[n] \in g.stops /\ t[n - 1] = g.escape} :
    \A n \in i + 1 .. j : IF n \in S THEN n - 1 \notin S ELSE t[n] \in g.stops => n + 1 \in S

\* Where repetitions end; new holds the positions that one more has reached.
EndsOfMany(E, g, t, i, seen) ==
  LET many[k \in 0 .. Len(t)] ==
        IF k = 0 THEN [all |-> {i}, new |-> {i}]
        ELSE LET I == many[k - 1]
                 J == (UNION {E[Spot(g.child, t, j, seen)] : j \in I.new}) \ I.all
             IN  [all |-> I.all \cup J, new |-> J]
  IN  many[Len(t) - i].all

\* Where a concatenation can stand behind n of its children: the position, and
\* what the named children have matched, which counts for those of the root (main).
Place(i, seen) == [at |-> i, seen |-> seen]

Places(E, g, t, i, seen, main, n) ==
  LET Behind(child, p) ==
        {Place(j, IF main /\ child.name \in Keys
                  THEN [p.seen EXCEPT ![child.name] = SubSeq(t, p.at + 1, j)] ELSE p.seen) :
         j \in E[Spot(child, t, p.at, p.seen)]}
      places[k \in 0 .. n] ==
        IF k = 0 THEN {Place(i, seen)} ELSE UNION {Behind(g.children[k], p) : p \in places[k - 1]}
  IN  places[n]

EndsOf(E, g, t, i, seen, main) ==
  LET J == i .. Len(t)
  IN  CASE g.kind = "fix" -> {j \in J : SubSeq(t, i + 1, j) = g.s}
        [] g.kind = "rex" -> {j \in J : j - i >= g.least /\ Inside(g.class, t, i, j)}
        [] g.kind = "ws"  -> {j \in J : j > i /\ Inside({Blank}, t, i, j)}
        [] g.kind = "esc" -> {j \in J : Escaped(g, t, i, j)}
        [] g.kind = "opt" -> {i} \cup E[Spot(g.child, t, i, seen)]
        [] g.kind = "rep" -> EndsOfMany(E, g, t, i, seen)
        [] g.kind = "alt" -> IF g.children = <<>> THEN {i}  \* a message without fields
                             ELSE UNION {E[Spot(g.children[n], t, i, seen)] : n \in DOMAIN g.children}
        [] g.kind = "cat" -> {p.at : p \in Places(E, g, t, i, seen, main, Len(g.children))}
        [] g.kind = "inj" -> IF Injected(g, seen) THEN E[Spot(GrammarOf(g, seen), t, i, seen)] ELSE {}

ends[n \in 0 .. Height] ==
  [s \in Spots(n) |-> EndsOf(ends[n - 1], s.g, s.t, s.i, s.seen, FALSE)]

InLanguage(g, t) == Len(t) \in EndsOf(ends[Height - 1], g, t, 0, Nothing, TRUE)

\* The places at which some child of a concatenation starts.
Starts(E, g, t, i, seen, main) ==
  UNION {{[child |-> g.children[k], at |-> p.at, seen |-> p.seen] :
          p \in Places(E, g, t, i, seen, main, k - 1)} : k \in DOMAIN g.children}

\* The text behind position i can be continued to a match of g, a regular expression
\* with characters of its class, an escape with what it escapes.  V says so of the
\* children.
ViableOf(V, E, g, t, i, seen, main) ==
  \/ Len(t) \in EndsOf(E, g, t, i, seen, main)
  \/ CASE g.kind = "fix" -> IsPrefix(From(t, i), g.s)
       [] g.kind = "rex" -> Inside(g.class, t, i, Len(t))
       [] g.kind = "ws"  -> i = Len(t)
       [] g.kind = "esc" -> \E c \in g.stops : Escaped(g, Append(t, c), i, Len(t) + 1)
       [] g.kind = "opt" -> V[Spot(g.child, t, i, seen)]
       [] g.kind = "rep" -> \E j \in EndsOfMany(E, g, t, i, seen) : V[Spot(g.child, t, j, seen)]
       [] g.kind = "alt" -> \E n \in DOMAIN g.children : V[Spot(g.children[n], t, i, seen)]
       [] g.kind = "cat" -> \E p \in Starts(E, g, t, i, seen, main) : V[Spot(p.child, t, p.at, p.seen)]
       [] g.kind = "inj" -> Injected(g, seen) /\ V[Spot(GrammarOf(g, seen), t, i, seen)]

viable[n \in 0 .. Height] ==
  [s \in Spots(n) |-> ViableOf(viable[n - 1], ends[n - 1], s.g, s.t, s.i, s.seen, FALSE)]

CanContinue(g, t) == ViableOf(viable[Height - 1], ends[Height - 1], g, t, 0, Nothing, TRUE)

\* The characters with which a fixed string or white space continues the text.
NextFixed(X, E, g, t, i, seen, main) ==
  CASE g.kind = "fix" -> IF IsStrictPrefix(From(t, i), g.s) THEN {g.s[Len(t) - i + 1]} ELSE {}
    [] g.kind = "ws"  -> IF i = Len(t) THEN {Blank} ELSE {}
    [] g.kind = "opt" -> X[Spot(g.child, t, i, seen)]
    [] g.kind = "rep" -> UNION {X[Spot(g.child, t, j, seen)] : j \in EndsOfMany(E, g, t, i, seen)}
    [] g.kind = "alt" -> UNION {X[Spot(g.children[n], t, i, seen)] : n \in DOMAIN g.children}
    [] g.kind = "cat" -> UNION {X[Spot(p.child, t, p.at, p.seen)] : p \in Starts(E, g, t, i, seen, main)}
    [] g.kind = "inj" -> IF Injected(g, seen) THEN X[Spot(GrammarOf(g, seen), t, i, seen)] ELSE {}
    [] OTHER -> {}

nextFixed[n \in 0 .. Height] ==
  [s \in Spots(n) |-> NextFixed(nextFixed[n - 1], ends[n - 1], s.g, s.t, s.i, s.seen, FALSE)]

FixedWays(g, t) == NextFixed(nextFixed[Height - 1], ends[Height - 1], g, t, 0, Nothing, TRUE)
=============================================================================
