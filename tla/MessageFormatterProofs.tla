------------------------ MODULE MessageFormatterProofs ------------------------
(***************************************************************************)
(* Proofs about MessageFormatter: the text for humans tells messages apart *)
(* in exactly what is shown of them, for all types of messages.            *)
(*                                                                         *)
(* Texts are put together from pieces without any escaping, so two of them *)
(* could be the same although the pieces are not.  They are when a string  *)
(* holds a quote; what rules it out for all other messages is what may     *)
(* follow a piece: nothing, or a new line that has less guides than the    *)
(* lines of the piece.  Texts are apart if they are different     *)
(* whatever follows them.                                                  *)
(***************************************************************************)
EXTENDS MessageFormatter, MessageParserProofs, SequenceTheorems

LOCAL INSTANCE SequencesExt

----------------------------------------------------------------------------
(* Lists.                                                                  *)

LEMMA ListIs ==
  ASSUME NEW s
  PROVE  /\ IsList(s) => Len(s) \in Nat /\ DOMAIN s = 1 .. Len(s) /\ s = [i \in 1 .. Len(s) |-> s[i]]
         /\ \A S : s \in Seq(S) => IsList(s)
<1>1. ASSUME IsList(s) PROVE Len(s) \in Nat /\ DOMAIN s = 1 .. Len(s) /\ s = [i \in 1 .. Len(s) |-> s[i]]
  <2> DEFINE S == {s[i] : i \in DOMAIN s}
  <2>1. s \in Seq(S)
    BY <1>1 DEF IsList
  <2> HIDE DEF S
  <2>2. Len(s) \in Nat /\ s \in [1 .. Len(s) -> S]
    BY <2>1
  <2> QED
    BY <2>2
<1>2. ASSUME NEW S, s \in Seq(S) PROVE IsList(s)
  <2> DEFINE T == {s[i] : i \in DOMAIN s}
  <2>1. Len(s) \in Nat /\ s \in [1 .. Len(s) -> S]
    BY <1>2
  <2>2. s \in [1 .. Len(s) -> T]
    BY <2>1
  <2> HIDE DEF T
  <2>3. s \in Seq(T)
    BY <2>1, <2>2
  <2> QED
    BY <2>3 DEF IsList, T
<1> QED
  BY <1>1, <1>2

\* Lists are the same if they have the same length and members.
LEMMA SameList ==
  ASSUME NEW s, NEW t, IsList(s), IsList(t), Len(s) = Len(t), \A i \in 1 .. Len(s) : s[i] = t[i]
  PROVE  s = t
<1>1. s = [i \in 1 .. Len(s) |-> s[i]] /\ t = [i \in 1 .. Len(t) |-> t[i]]
  BY ListIs
<1> HIDE DEF IsList
<1> QED
  BY <1>1

\* A function of the first natural numbers.
LEMMA FunctionList ==
  ASSUME NEW n \in Nat, NEW f, f = [i \in 1 .. n |-> f[i]]
  PROVE  IsList(f) /\ Len(f) = n
<1> DEFINE S == {f[i] : i \in 1 .. n}
<1>1. f \in [1 .. n -> S]
  OBVIOUS
<1> HIDE DEF S
<1>2. f \in Seq(S) /\ Len(f) = n
  BY <1>1
<1> QED
  BY <1>2, ListIs

LEMMA TupleLists ==
  /\ IsList(<<>>) /\ Len(<<>>) = 0
  /\ \A a : IsList(<<a>>) /\ Len(<<a>>) = 1 /\ <<a>>[1] = a
  /\ \A a, b : IsList(<<a, b>>) /\ Len(<<a, b>>) = 2 /\ <<a, b>>[1] = a /\ <<a, b>>[2] = b
<1>1. <<>> \in Seq({})
  OBVIOUS
<1>2. \A a : <<a>> \in Seq({a})
  OBVIOUS
<1>3. \A a, b : <<a, b>> \in Seq({a, b})
  OBVIOUS
<1> QED
  BY <1>1, <1>2, <1>3, ListIs

\* The lists over a common set.
LEMMA CommonSet ==
  ASSUME NEW a, NEW b, NEW c, IsList(a), IsList(b), IsList(c)
  PROVE  \E S : a \in Seq(S) /\ b \in Seq(S) /\ c \in Seq(S)
<1> DEFINE A == {a[i] : i \in DOMAIN a}
           B == {b[i] : i \in DOMAIN b}
           C == {c[i] : i \in DOMAIN c}
<1>1. a \in Seq(A) /\ b \in Seq(B) /\ c \in Seq(C)
  BY DEF IsList
<1> HIDE DEF A, B, C
<1>2. a \in Seq(A \cup B \cup C) /\ b \in Seq(A \cup B \cup C) /\ c \in Seq(A \cup B \cup C)
  BY <1>1
<1> QED
  BY <1>2

\* What concatenation makes of lists.
LEMMA ConcatLists ==
  ASSUME NEW a, NEW b, IsList(a), IsList(b)
  PROVE  /\ IsList(a \o b) /\ Len(a \o b) = Len(a) + Len(b)
         /\ \A i \in 1 .. Len(a) : (a \o b)[i] = a[i]
         /\ \A i \in 1 .. Len(b) : (a \o b)[Len(a) + i] = b[i]
<1>1. PICK S : a \in Seq(S) /\ b \in Seq(S)
  BY CommonSet
<1>2. /\ a \o b \in Seq(S) /\ Len(a \o b) = Len(a) + Len(b)
      /\ \A i \in 1 .. Len(a) + Len(b) : (a \o b)[i] = IF i <= Len(a) THEN a[i] ELSE b[i - Len(a)]
  BY <1>1, ConcatProperties
<1>3. IsList(a \o b) /\ Len(a) \in Nat /\ Len(b) \in Nat
  BY <1>2, ListIs
<1> HIDE DEF IsList
<1>4. \A i \in 1 .. Len(a) : i \in 1 .. Len(a) + Len(b) /\ i <= Len(a)
  BY <1>3
<1>5. \A i \in 1 .. Len(b) : Len(a) + i \in 1 .. Len(a) + Len(b) /\ ~(Len(a) + i <= Len(a)) /\ (Len(a) + i) - Len(a) = i
  BY <1>3
<1> QED
  BY <1>2, <1>3, <1>4, <1>5

\* The first member is that of the first list, if it has one.
LEMMA ConcatFirst ==
  ASSUME NEW a, NEW b, IsList(a), IsList(b), Len(a) > 0
  PROVE  IsList(a \o b) /\ Len(a \o b) > 0 /\ (a \o b)[1] = a[1]
<1>1. Len(a) \in Nat /\ Len(b) \in Nat /\ 1 \in 1 .. Len(a)
  BY ListIs
<1>2. /\ IsList(a \o b) /\ Len(a \o b) = Len(a) + Len(b)
      /\ \A i \in 1 .. Len(a) : (a \o b)[i] = a[i]
  BY ConcatLists
<1> QED
  BY <1>1, <1>2

LEMMA ConcatEmpty ==
  ASSUME NEW a, IsList(a)
  PROVE  <<>> \o a = a /\ a \o <<>> = a
<1>1. PICK S : a \in Seq(S)
  BY CommonSet
<1> QED
  BY <1>1, ConcatEmptySeq

LEMMA ConcatThree ==
  ASSUME NEW a, NEW b, NEW c, IsList(a), IsList(b), IsList(c)
  PROVE  (a \o b) \o c = a \o (b \o c)
<1>1. PICK S : a \in Seq(S) /\ b \in Seq(S) /\ c \in Seq(S)
  BY CommonSet
<1> QED
  BY <1>1, ConcatAssociative

LEMMA ConcatCancel ==
  ASSUME NEW a, NEW b, NEW c, IsList(a), IsList(b), IsList(c), a \o b = a \o c
  PROVE  b = c
<1>1. PICK S : a \in Seq(S) /\ b \in Seq(S) /\ c \in Seq(S)
  BY CommonSet
<1>2. \A s, t, v \in Seq(S) : s \o t = s \o v => t = v
  BY ConcatSimplifications
<1> QED
  BY <1>1, <1>2

----------------------------------------------------------------------------
(* What may follow a piece of a text.                                      *)

\* In place of a number of guides: anything may follow.
Anything == -1

\* The first token of a line that belongs to a message with some number of guides,
\* or to one in it.
IsDeep(token, depth) == token[1] \in {"line", "element", "map"} /\ token[2] \in Nat /\ token[2] >= depth

Follows(f, depth) ==
  /\ IsList(f)
  /\ depth = Anything \/ f = <<>> \/ (f[1] = NewLine /\ (Len(f) > 1 => ~IsDeep(f[2], depth)))

\* Texts that are different whatever follows them.
Apart(depth, a, b) == \A f, g : Follows(f, depth) /\ Follows(g, depth) => a \o f # b \o g

\* Texts tell values apart.
Tells(depth, a, b, x, y) ==
  /\ IsList(a) /\ IsList(b)
  /\ x = y => a = b
  /\ x # y => Apart(depth, a, b)

\* Less guides, less that may follow.
LEMMA ApartBelow ==
  ASSUME NEW a, NEW b, NEW depth \in Nat, NEW d \in Nat, d <= depth
  PROVE  /\ Apart(depth, a, b) => Apart(d, a, b)
         /\ Apart(Anything, a, b) => Apart(d, a, b)
<1>1. \A f : Follows(f, d) => Follows(f, Anything)
  BY DEF Follows
<1>2. \A token : IsDeep(token, depth) => IsDeep(token, d)
  BY DEF IsDeep
<1>3. \A f : Follows(f, d) => Follows(f, depth)
  BY <1>2 DEF Follows, Anything
<1> QED
  BY <1>1, <1>3 DEF Apart

LEMMA ApartSame ==
  ASSUME NEW depth, NEW a, NEW b, Apart(depth, a, b)
  PROVE  Apart(depth, b, a) /\ a # b
<1>1. Follows(<<>>, depth)
  BY TupleLists DEF Follows
<1> QED
  BY <1>1 DEF Apart

\* Behind the same text, texts are apart if they are.
LEMMA ApartBehind ==
  ASSUME NEW depth, NEW a, NEW b, NEW c, IsList(a), IsList(b), IsList(c), Apart(depth, a, b)
  PROVE  Apart(depth, c \o a, c \o b)
<1> SUFFICES ASSUME NEW f, NEW g, Follows(f, depth), Follows(g, depth)
             PROVE  (c \o a) \o f # (c \o b) \o g
  BY DEF Apart
<1>1. IsList(f) /\ IsList(g)
  BY DEF Follows
<1>2. (c \o a) \o f = c \o (a \o f)
  BY ONLY <1>1, IsList(c), IsList(a), ConcatThree
<1>3. (c \o b) \o g = c \o (b \o g)
  BY ONLY <1>1, IsList(c), IsList(b), ConcatThree
<1>4. IsList(a \o f) /\ IsList(b \o g)
  BY <1>1, ConcatLists
<1>5. a \o f # b \o g
  BY DEF Apart
<1>6. c \o (a \o f) # c \o (b \o g)
  BY <1>4, <1>5, ConcatCancel
<1> QED
  BY <1>2, <1>3, <1>6

\* What may come before what may follow.
Leads(depth, s, e) == \A f : Follows(f, depth) => Follows(s \o f, e)

\* Texts that are apart stay so before what may follow them.
LEMMA ApartBefore ==
  ASSUME NEW depth, NEW e, NEW a, NEW b, NEW s, NEW t, IsList(a), IsList(b), IsList(s), IsList(t),
         Apart(e, a, b), Leads(depth, s, e), Leads(depth, t, e)
  PROVE  Apart(depth, a \o s, b \o t)
<1> SUFFICES ASSUME NEW f, NEW g, Follows(f, depth), Follows(g, depth)
             PROVE  (a \o s) \o f # (b \o t) \o g
  BY DEF Apart
<1>1. IsList(f) /\ IsList(g) /\ Follows(s \o f, e) /\ Follows(t \o g, e)
  BY DEF Follows, Leads
<1>2. (a \o s) \o f = a \o (s \o f)
  <2>1. IsList(a) /\ IsList(s) /\ IsList(f)
    BY <1>1
  <2> QED
    BY ONLY <2>1, ConcatThree
<1>3. (b \o t) \o g = b \o (t \o g)
  <2>1. IsList(b) /\ IsList(t) /\ IsList(g)
    BY <1>1
  <2> QED
    BY ONLY <2>1, ConcatThree
<1> QED
  BY <1>1, <1>2, <1>3 DEF Apart

\* Texts that differ in some token.
LEMMA ApartAt ==
  ASSUME NEW a, NEW b, IsList(a), IsList(b), NEW i \in 1 .. Len(a), i \in 1 .. Len(b), a[i] # b[i], NEW depth
  PROVE  Apart(depth, a, b)
<1> SUFFICES ASSUME NEW f, NEW g, Follows(f, depth), Follows(g, depth) PROVE a \o f # b \o g
  BY DEF Apart
<1>1. IsList(f) /\ IsList(g)
  BY DEF Follows
<1>2. (a \o f)[i] = a[i] /\ (b \o g)[i] = b[i]
  BY <1>1, ConcatLists
<1> QED
  BY <1>2

\* The first token tells.
LEMMA FirstTells ==
  ASSUME NEW a, NEW b, IsList(a), IsList(b), Len(a) > 0, Len(b) > 0,
         NEW x, NEW y, x = y => a = b, x # y => a[1] # b[1], NEW depth
  PROVE  Tells(depth, a, b, x, y)
<1>1. 1 \in 1 .. Len(a) /\ 1 \in 1 .. Len(b)
  BY ListIs
<1> QED
  BY <1>1, ApartAt DEF Tells

\* A text that is not empty, and does not begin like what follows, and none.
LEMMA ApartFromNone ==
  ASSUME NEW a, IsList(a), Len(a) > 0, a[1] # NewLine, NEW depth \in Nat
  PROVE  Apart(depth, <<>>, a)
<1> SUFFICES ASSUME NEW f, NEW g, Follows(f, depth), Follows(g, depth), <<>> \o f = a \o g PROVE FALSE
  BY DEF Apart
<1>1. IsList(f) /\ IsList(g) /\ depth # Anything
  BY DEF Follows, Anything
<1>2. Len(a) \in Nat /\ Len(g) \in Nat
  BY <1>1, ListIs
<1>3. (a \o g)[1] = a[1] /\ Len(a \o g) > 0 /\ f = a \o g
  BY <1>1, <1>2, ConcatLists, ConcatEmpty
<1>4. f # <<>>
  BY <1>3, TupleLists
<1> QED
  BY <1>1, <1>3, <1>4 DEF Follows

----------------------------------------------------------------------------
(* Pieces one after the other.                                             *)

\* FlattenSeq puts piece behind piece.
Flattens(P, flat) ==
  /\ FlattenSeq(P) = flat[Len(P)] /\ flat[0] = <<>>
  /\ \A i \in 1 .. Len(P) : flat[i] = flat[i - 1] \o P[i]
  /\ \A i \in 0 .. Len(P) : IsList(flat[i])

ListOfLists(P) == IsList(P) /\ \A i \in 1 .. Len(P) : IsList(P[i])

LEMMA FlattenIs ==
  ASSUME NEW P, ListOfLists(P)
  PROVE  \E flat : Flattens(P, flat)
<1> DEFINE N == Len(P)
           next(x, i) == x \o P[i]
           body(h, n) == [i \in 1 .. n |-> IF i = 1 THEN P[i] ELSE next(h[i - 1], i)]
           chosen == CHOOSE h : h = body(h, N)
           flat == [i \in 0 .. N |-> IF i = 0 THEN <<>> ELSE chosen[i]]
<1>1. N \in Nat /\ P = [i \in 1 .. N |-> P[i]] /\ \A i \in 1 .. N : IsList(P[i])
  BY ListIs DEF ListOfLists
<1>2. FlattenSeq(P) = IF N = 0 THEN P ELSE chosen[N]
  BY DEF FlattenSeq
<1> HIDE DEF N, next
<1> DEFINE T == {n \in 0 .. N : \E h : h = body(h, n)}
<1>3. 0 \in T
  <2> DEFINE h == [i \in 1 .. 0 |-> 0]
  <2>1. h = body(h, 0)
    OBVIOUS
  <2> HIDE DEF h, body
  <2> QED
    BY <1>1, <2>1
<1>4. ASSUME NEW n \in 0 .. N - 1, n \in T PROVE n + 1 \in T
  <2>1. PICK h : h = body(h, n)
    BY <1>4
  <2> DEFINE f == [i \in 1 .. n + 1 |-> IF i = n + 1 THEN (IF n = 0 THEN P[1] ELSE next(h[n], n + 1)) ELSE h[i]]
  <2>2. ASSUME NEW i \in 1 .. n + 1 PROVE f[i] = IF i = 1 THEN P[i] ELSE next(f[i - 1], i)
    <3>1. CASE i = n + 1 /\ n = 0
      BY <3>1
    <3>2. CASE i = n + 1 /\ n # 0
      <4>1. i # 1 /\ i - 1 = n /\ n \in 1 .. n + 1 /\ n # n + 1
        BY <1>1, <3>2
      <4>2. f[i] = next(h[n], i) /\ f[n] = h[n]
        BY <3>2, <4>1
      <4> HIDE DEF f
      <4> QED
        BY <4>1, <4>2
    <3>3. CASE i # n + 1
      <4>1. i \in 1 .. n /\ (i # 1 => i - 1 \in 1 .. n + 1 /\ i - 1 # n + 1)
        BY <1>1, <3>3
      <4>2. h[i] = IF i = 1 THEN P[i] ELSE next(h[i - 1], i)
        BY <2>1, <4>1
      <4>3. f[i] = h[i] /\ (i # 1 => f[i - 1] = h[i - 1])
        BY <3>3, <4>1
      <4> HIDE DEF f
      <4> QED
        BY <4>2, <4>3
    <3> QED
      BY <3>1, <3>2, <3>3
  <2>3. f = body(f, n + 1)
    <3>1. f = [i \in 1 .. n + 1 |-> f[i]]
      OBVIOUS
    <3> HIDE DEF f
    <3> QED
      BY <2>2, <3>1
  <2>4. n + 1 \in 0 .. N
    BY <1>1
  <2> HIDE DEF f, body
  <2> QED
    BY <2>3, <2>4
<1>5. chosen = body(chosen, N)
  <2>1. 0 .. N \subseteq T
    <3> HIDE DEF T
    <3> QED
      BY <1>1, <1>3, <1>4, Induction
  <2>2. N \in T
    <3> HIDE DEF T
    <3> QED
      BY <1>1, <2>1
  <2> HIDE DEF body
  <2>3. \E h : h = body(h, N)
    BY <2>2
  <2> QED
    BY <2>3
<1> HIDE DEF chosen, T
<1>6. \A i \in 1 .. N : chosen[i] = IF i = 1 THEN P[i] ELSE next(chosen[i - 1], i)
  BY <1>5
<1>7. flat[0] = <<>> /\ \A i \in 1 .. N : flat[i] = chosen[i]
  BY <1>1
<1>8. FlattenSeq(P) = flat[N]
  <2>1. CASE N = 0
    BY <1>1, <1>2, <1>7, <2>1
  <2>2. CASE N # 0
    BY <1>1, <1>2, <1>7, <2>2
  <2> QED
    BY <2>1, <2>2
<1> HIDE DEF flat
<1>9. \A i \in 1 .. N : flat[i] = flat[i - 1] \o P[i]
  <2> TAKE i \in 1 .. N
  <2>1. CASE i = 1
    <3>1. flat[i - 1] = <<>> /\ flat[i] = P[i]
      BY <1>6, <1>7, <2>1
    <3> QED
      BY <1>1, <3>1, ConcatEmpty
  <2>2. CASE i # 1
    <3>1. i - 1 \in 1 .. N
      BY <1>1, <2>2
    <3> QED
      BY <1>6, <1>7, <2>2, <3>1 DEF next
  <2> QED
    BY <2>1, <2>2
<1>10. \A i \in 0 .. N : IsList(flat[i])
  <2> DEFINE L == {i \in 0 .. N : IsList(flat[i])}
  <2>1. 0 \in L
    BY <1>1, <1>7, TupleLists
  <2>2. ASSUME NEW n \in 0 .. N - 1, n \in L PROVE n + 1 \in L
    <3>1. n + 1 \in 1 .. N /\ (n + 1) - 1 = n /\ IsList(flat[n])
      BY <1>1, <2>2
    <3>2. flat[n + 1] = flat[n] \o P[n + 1] /\ IsList(P[n + 1])
      BY <1>1, <1>9, <3>1
    <3>3. IsList(flat[n + 1])
      BY <3>1, <3>2, ConcatLists
    <3> QED
      BY <1>1, <3>1, <3>3
  <2>3. 0 .. N \subseteq L
    <3> HIDE DEF L
    <3> QED
      BY <1>1, <2>1, <2>2, Induction
  <2> QED
    BY <2>3
<1> QED
  BY <1>7, <1>8, <1>9, <1>10 DEF Flattens, N

LEMMA FlattenList ==
  ASSUME NEW P, ListOfLists(P)
  PROVE  IsList(FlattenSeq(P))
<1>1. PICK flat : Flattens(P, flat)
  BY FlattenIs
<1>2. Len(P) \in 0 .. Len(P)
  BY ListIs DEF ListOfLists
<1> QED
  BY <1>1, <1>2 DEF Flattens

\* If pieces are the same or apart, and some are apart, then all of them together
\* are apart, as long as no piece hides what it follows.
LEMMA FlattenApart ==
  ASSUME NEW P, NEW Q, ListOfLists(P), ListOfLists(Q), Len(P) = Len(Q), NEW depth,
         \A i \in 1 .. Len(P) : P[i] = Q[i] \/ Apart(depth, P[i], Q[i]),
         \A i \in 2 .. Len(P) : Leads(depth, P[i], depth) /\ Leads(depth, Q[i], depth),
         \E i \in 1 .. Len(P) : P[i] # Q[i]
  PROVE  Apart(depth, FlattenSeq(P), FlattenSeq(Q))
<1> DEFINE N == Len(P)
<1>1. PICK p : Flattens(P, p)
  BY FlattenIs
<1>2. PICK q : Flattens(Q, q)
  BY FlattenIs
<1>3. N \in Nat /\ N = Len(Q) /\ \A i \in 1 .. N : IsList(P[i]) /\ IsList(Q[i])
  BY ListIs DEF ListOfLists
<1>4. /\ FlattenSeq(P) = p[N] /\ FlattenSeq(Q) = q[N] /\ p[0] = <<>> /\ q[0] = <<>>
      /\ \A i \in 1 .. N : p[i] = p[i - 1] \o P[i] /\ q[i] = q[i - 1] \o Q[i]
      /\ \A i \in 0 .. N : IsList(p[i]) /\ IsList(q[i])
  BY <1>1, <1>2 DEF Flattens
<1>5. /\ \A i \in 1 .. N : P[i] = Q[i] \/ Apart(depth, P[i], Q[i])
      /\ \A i \in 2 .. N : Leads(depth, P[i], depth) /\ Leads(depth, Q[i], depth)
      /\ \E i \in 1 .. N : P[i] # Q[i]
  OBVIOUS
<1> HIDE DEF N
<1> DEFINE Same(n) == p[n] = q[n] /\ \A i \in 1 .. n : P[i] = Q[i]
           T == {n \in 0 .. N : Same(n) \/ Apart(depth, p[n], q[n])}
<1>6. 0 \in T
  BY <1>3, <1>4
<1>7. ASSUME NEW n \in 0 .. N - 1, n \in T PROVE n + 1 \in T
  <2>1. n + 1 \in 1 .. N /\ (n + 1) - 1 = n /\ n \in 0 .. N /\ n + 1 \in 0 .. N
    BY <1>3
  <2>2. p[n + 1] = p[n] \o P[n + 1] /\ q[n + 1] = q[n] \o Q[n + 1]
    BY <1>4, <2>1
  <2>3. IsList(p[n]) /\ IsList(q[n]) /\ IsList(P[n + 1]) /\ IsList(Q[n + 1])
    BY <1>3, <1>4, <2>1
  <2>4. CASE Same(n) /\ P[n + 1] = Q[n + 1]
    <3>1. \A i \in 1 .. n + 1 : i = n + 1 \/ i \in 1 .. n
      BY <1>3
    <3>2. Same(n + 1)
      BY <2>2, <2>4, <3>1
    <3> HIDE DEF Same
    <3> QED
      BY <2>1, <3>2
  <2>5. CASE Same(n) /\ P[n + 1] # Q[n + 1]
    <3>1. Apart(depth, P[n + 1], Q[n + 1])
      BY <1>5, <2>1, <2>5
    <3>2. Apart(depth, p[n] \o P[n + 1], p[n] \o Q[n + 1])
      BY <2>3, <3>1, ApartBehind
    <3>3. Apart(depth, p[n + 1], q[n + 1])
      BY <2>2, <2>5, <3>2
    <3> HIDE DEF Same
    <3> QED
      BY <2>1, <3>3
  <2>6. CASE Apart(depth, p[n], q[n])
    <3>1. n # 0
      BY <1>4, <2>6, ApartSame
    <3>2. n + 1 \in 2 .. N
      BY <1>3, <2>1, <3>1
    <3>3. Leads(depth, P[n + 1], depth) /\ Leads(depth, Q[n + 1], depth)
      BY <1>5, <3>2
    <3>4. Apart(depth, p[n] \o P[n + 1], q[n] \o Q[n + 1])
      BY <2>3, <2>6, <3>3, ApartBefore
    <3> HIDE DEF Same
    <3> QED
      BY <2>1, <2>2, <3>4
  <2> QED
    BY <1>7, <2>4, <2>5, <2>6
<1>8. 0 .. N \subseteq T
  <2> HIDE DEF T
  <2> QED
    BY <1>3, <1>6, <1>7, Induction
<1>9. ~Same(N)
  BY <1>5
<1>10. N \in T
  BY <1>3, <1>8
<1> QED
  BY <1>4, <1>9, <1>10

\* What the first pieces tell of all of them together.
LEMMA FlattenFirst ==
  ASSUME NEW P, ListOfLists(P), Len(P) > 0
  PROVE  \E rest : /\ IsList(rest) /\ FlattenSeq(P) = P[1] \o rest
                   /\ Len(P) = 1 => rest = <<>>
                   /\ Len(P) > 1 /\ Len(P[2]) > 0 => Len(rest) > 0
<1> DEFINE N == Len(P)
           Rest(n, rest, t) == /\ IsList(rest) /\ t = P[1] \o rest
                               /\ n = 1 => rest = <<>>
                               /\ n > 1 /\ Len(P[2]) > 0 => Len(rest) > 0
<1>1. PICK flat : Flattens(P, flat)
  BY FlattenIs
<1>2. N \in Nat /\ \A i \in 1 .. N : IsList(P[i])
  BY ListIs DEF ListOfLists
<1>3. FlattenSeq(P) = flat[N] /\ flat[0] = <<>> /\ N > 0 /\ \A i \in 1 .. N : flat[i] = flat[i - 1] \o P[i]
  BY <1>1 DEF Flattens
<1> HIDE DEF N
<1> DEFINE T == {k \in 0 .. N - 1 : \E rest : Rest(k + 1, rest, flat[k + 1])}
<1>4. 0 \in T
  <2>1. 1 \in 1 .. N /\ 1 - 1 = 0 /\ 0 + 1 = 1 /\ 0 \in 0 .. N - 1
    BY <1>2, <1>3
  <2>2. IsList(P[1]) /\ flat[1] = <<>> \o P[1]
    BY <1>2, <1>3, <2>1
  <2>3. flat[1] = P[1] \o <<>> /\ IsList(<<>>)
    BY <2>2, ConcatEmpty, TupleLists
  <2>4. Rest(1, <<>>, flat[1])
    BY <2>3
  <2> HIDE DEF Rest
  <2> QED
    BY <2>1, <2>4
<1>5. ASSUME NEW k \in 0 .. (N - 1) - 1, k \in T PROVE k + 1 \in T
  <2>1. PICK rest : Rest(k + 1, rest, flat[k + 1])
    BY <1>5
  <2> DEFINE n == (k + 1) + 1
  <2>2. n \in 1 .. N /\ n - 1 = k + 1 /\ k + 1 \in 0 .. N - 1 /\ 1 \in 1 .. N /\ n > 1
    BY <1>2
  <2>3. flat[n] = flat[k + 1] \o P[n] /\ IsList(P[n]) /\ IsList(P[1]) /\ IsList(rest)
    BY <1>2, <1>3, <2>1, <2>2
  <2>4. flat[n] = P[1] \o (rest \o P[n])
    <3>1. (P[1] \o rest) \o P[n] = P[1] \o (rest \o P[n])
      <4> DEFINE p == P[1]
                 q == P[n]
      <4>1. IsList(p) /\ IsList(q) /\ IsList(rest)
        BY <2>3
      <4> HIDE DEF p, q
      <4>2. (p \o rest) \o q = p \o (rest \o q)
        BY ONLY <4>1, ConcatThree
      <4> QED
        BY <4>2 DEF p, q
    <3>2. flat[k + 1] = P[1] \o rest
      BY <2>1
    <3> QED
      BY <2>3, <3>1, <3>2
  <2>5. IsList(rest \o P[n]) /\ Len(rest \o P[n]) = Len(rest) + Len(P[n])
    BY <2>3, ConcatLists
  <2>6. Len(rest) \in Nat /\ Len(P[n]) \in Nat
    BY <2>3, ListIs
  <2>7. Len(P[2]) > 0 => Len(rest) + Len(P[n]) > 0
    <3>1. CASE k = 0
      <4>1. n = 2
        BY <3>1
      <4> HIDE DEF n
      <4> QED
        BY <2>6, <4>1
    <3>2. CASE k # 0
      <4>1. k + 1 > 1
        BY <1>2, <3>2
      <4> HIDE DEF n
      <4> QED
        BY <2>1, <2>6, <4>1
    <3> QED
      BY <3>1, <3>2
  <2>8. Rest(n, rest \o P[n], flat[n])
    BY <2>2, <2>4, <2>5, <2>7
  <2> HIDE DEF Rest
  <2> QED
    BY <2>2, <2>8
<1>6. 0 .. N - 1 \subseteq T
  <2>1. N - 1 \in Nat
    BY <1>2, <1>3
  <2> HIDE DEF T
  <2> QED
    BY <1>4, <1>5, <2>1, Induction
<1>7. N - 1 \in 0 .. N - 1 /\ (N - 1) + 1 = N
  BY <1>2, <1>3
<1>8. \E rest : Rest(N, rest, flat[N])
  BY <1>6, <1>7
<1> QED
  BY <1>3, <1>8 DEF N

\* Together the pieces tell what they tell one by one.
LEMMA PiecesTell ==
  ASSUME NEW P, NEW Q, ListOfLists(P), ListOfLists(Q), Len(P) = Len(Q), NEW depth, NEW x, NEW y,
         \A i \in 1 .. Len(P) : P[i] = Q[i] \/ Apart(depth, P[i], Q[i]),
         \A i \in 2 .. Len(P) : Leads(depth, P[i], depth) /\ Leads(depth, Q[i], depth),
         x = y => \A i \in 1 .. Len(P) : P[i] = Q[i],
         x # y => \E i \in 1 .. Len(P) : P[i] # Q[i]
  PROVE  Tells(depth, FlattenSeq(P), FlattenSeq(Q), x, y)
<1>1. IsList(FlattenSeq(P)) /\ IsList(FlattenSeq(Q))
  BY FlattenList
<1>2. x = y => P = Q
  BY SameList DEF ListOfLists
<1>3. x # y => Apart(depth, FlattenSeq(P), FlattenSeq(Q))
  BY FlattenApart
<1> QED
  BY <1>1, <1>2, <1>3 DEF Tells

\* A new line comes before what follows.
LEMMA LineLeads ==
  ASSUME NEW depth \in Nat, NEW q, IsList(q), Len(q) > 0 => ~IsDeep(q[1], depth)
  PROVE  Leads(depth, <<NewLine>> \o q, depth)
<1> SUFFICES ASSUME NEW f, Follows(f, depth) PROVE Follows((<<NewLine>> \o q) \o f, depth)
  BY DEF Leads
<1> DEFINE t == (<<NewLine>> \o q) \o f
<1>1. IsList(f) /\ depth # Anything /\ (f # <<>> => f[1] = NewLine)
  BY DEF Follows, Anything
<1>2. IsList(<<NewLine>>) /\ Len(<<NewLine>>) = 1 /\ <<NewLine>>[1] = NewLine
  BY TupleLists
<1>3. t = <<NewLine>> \o (q \o f)
  BY ONLY <1>1, <1>2, IsList(q), ConcatThree
<1>4. /\ IsList(q \o f) /\ Len(q \o f) = Len(q) + Len(f) /\ Len(q) \in Nat /\ Len(f) \in Nat
      /\ \A i \in 1 .. Len(q) : (q \o f)[i] = q[i]
      /\ \A i \in 1 .. Len(f) : (q \o f)[Len(q) + i] = f[i]
  BY <1>1, ConcatLists, ListIs
<1> DEFINE r == q \o f
<1> HIDE DEF r
<1>5. IsList(<<NewLine>> \o r) /\ (<<NewLine>> \o r)[1] = NewLine /\ Len(<<NewLine>> \o r) = 1 + Len(r)
      /\ \A i \in 1 .. Len(r) : (<<NewLine>> \o r)[1 + i] = r[i]
  <2>1. IsList(r) /\ 1 \in 1 .. 1
    BY <1>4 DEF r
  <2> QED
    BY <1>2, <2>1, ConcatLists
<1>6. ASSUME Len(r) > 0 PROVE ~IsDeep(r[1], depth)
  <2>1. CASE Len(q) > 0
    <3>1. r[1] = q[1]
      BY <1>4, <2>1 DEF r
    <3> QED
      BY <2>1, <3>1
  <2>2. CASE Len(q) = 0
    <3>1. Len(f) > 0 /\ Len(q) + 1 = 1 /\ 1 \in 1 .. Len(f)
      BY <1>4, <1>6, <2>2 DEF r
    <3>2. r[1] = f[1]
      BY <1>4, <3>1 DEF r
    <3>3. f # <<>>
      BY <3>1, TupleLists
    <3>4. ~IsDeep(NewLine, depth)
      BY DEF IsDeep, NewLine
    <3> QED
      BY <1>1, <3>2, <3>3, <3>4
  <2> QED
    BY <1>4, <2>1, <2>2
<1>7. t = <<NewLine>> \o r /\ Len(r) \in Nat
  BY <1>3, <1>4 DEF r
<1> HIDE DEF t
<1>8. Len(t) > 1 => ~IsDeep(t[2], depth)
  <2> SUFFICES ASSUME Len(t) > 1 PROVE ~IsDeep(t[2], depth)
    OBVIOUS
  <2>1. Len(r) > 0 /\ 1 \in 1 .. Len(r) /\ 1 + 1 = 2
    BY <1>5, <1>7
  <2>2. t[2] = r[1]
    BY <1>5, <1>7, <2>1
  <2> QED
    BY <1>6, <2>1, <2>2
<1>9. Follows(t, depth)
  BY <1>5, <1>7, <1>8 DEF Follows
<1> QED
  BY <1>9 DEF t

----------------------------------------------------------------------------
(* Scalars.                                                                *)

\* What is shown of a scalar.
ShownScalar(fd, v) == IF fd.kind = "float" THEN Rounded(v) ELSE v

\* The dump of the bytes tells them apart.
LEMMA BytesTell ==
  ASSUME NEW v, NEW w, IsList(v), IsList(w), NEW depth, NEW mod, mod # "raw"
  PROVE  LET a == StringFromBytes(v, depth, mod)
             b == StringFromBytes(w, depth, mod)
         IN  Tells(Anything, a, b, v, w) /\ Len(a) > 0 /\ a[1] = <<"size", Len(v)>>
<1> DEFINE piece(u, i) == IF Len(u) > 8 /\ i % 8 = 1 THEN << <<"address", depth, i - 1>>, <<"byte", u[i]>> >>
                          ELSE << <<"byte", u[i]>> >>
           P(u) == [i \in 1 .. Len(u) |-> piece(u, i)]
           text(u) == << <<"size", Len(u)>> >> \o FlattenSeq(P(u))
<1>1. Len(v) \in Nat /\ Len(w) \in Nat /\ DOMAIN v = 1 .. Len(v) /\ DOMAIN w = 1 .. Len(w)
  BY ListIs
<1>2. StringFromBytes(v, depth, mod) = text(v) /\ StringFromBytes(w, depth, mod) = text(w)
  BY <1>1 DEF StringFromBytes
<1>3. ASSUME NEW u, Len(u) \in Nat
      PROVE  /\ ListOfLists(P(u)) /\ Len(P(u)) = Len(u)
             /\ IsList(text(u)) /\ Len(text(u)) > 0 /\ text(u)[1] = <<"size", Len(u)>>
  <2>1. \A i \in 1 .. Len(u) : IsList(piece(u, i))
    BY TupleLists
  <2>2. P(u) = [i \in 1 .. Len(u) |-> P(u)[i]] /\ \A i \in 1 .. Len(u) : P(u)[i] = piece(u, i)
    OBVIOUS
  <2> HIDE DEF P, piece
  <2>3. ListOfLists(P(u)) /\ Len(P(u)) = Len(u)
    BY <1>3, <2>1, <2>2, FunctionList DEF ListOfLists
  <2>4. IsList(FlattenSeq(P(u)))
    BY <2>3, FlattenList
  <2> DEFINE rest == FlattenSeq(P(u))
             head == << <<"size", Len(u)>> >>
  <2>5. IsList(head) /\ Len(head) = 1 /\ head[1] = <<"size", Len(u)>>
    BY TupleLists
  <2>6. Len(rest) \in Nat
    BY <2>4, ListIs
  <2> HIDE DEF rest, head
  <2>7. IsList(head \o rest) /\ Len(head \o rest) > 0 /\ (head \o rest)[1] = head[1]
    <3>1. IsList(rest) /\ 1 \in 1 .. Len(head)
      BY <2>4, <2>5 DEF rest
    <3>2. /\ IsList(head \o rest) /\ Len(head \o rest) = Len(head) + Len(rest)
          /\ \A i \in 1 .. Len(head) : (head \o rest)[i] = head[i]
      BY ONLY <2>5, <3>1, ConcatLists
    <3> QED
      BY <2>5, <2>6, <3>1, <3>2
  <2> QED
    BY <2>3, <2>5, <2>7 DEF head, rest
<1>4. ASSUME v # w PROVE Apart(Anything, text(v), text(w))
  <2>1. CASE Len(v) # Len(w)
    <3>1. <<"size", Len(v)>> # <<"size", Len(w)>>
      BY <2>1
    <3>2. IsList(text(v)) /\ IsList(text(w)) /\ Len(text(v)) > 0 /\ Len(text(w)) > 0
          /\ text(v)[1] # text(w)[1]
      BY <1>1, <1>3, <3>1
    <3> HIDE DEF text
    <3>3. 1 \in 1 .. Len(text(v)) /\ 1 \in 1 .. Len(text(w))
      BY <3>2, ListIs
    <3> QED
      BY <3>2, <3>3, ApartAt
  <2>2. CASE Len(v) = Len(w)
    <3>1. \E i \in 1 .. Len(v) : v[i] # w[i]
      BY <1>4, <2>2, SameList
    <3>2. ASSUME NEW i \in 1 .. Len(v)
          PROVE  /\ v[i] = w[i] => piece(v, i) = piece(w, i)
                 /\ v[i] # w[i] => Apart(Anything, piece(v, i), piece(w, i)) /\ piece(v, i) # piece(w, i)
      <4>1. v[i] = w[i] => piece(v, i) = piece(w, i)
        BY <2>2
      <4>2. ASSUME v[i] # w[i] PROVE Apart(Anything, piece(v, i), piece(w, i))
        <5>1. <<"byte", v[i]>> # <<"byte", w[i]>>
          BY <4>2
        <5>2. CASE Len(v) > 8 /\ i % 8 = 1
          <6> DEFINE A == <<"address", depth, i - 1>>
                     V == <<"byte", v[i]>>
                     W == <<"byte", w[i]>>
          <6>1. piece(v, i) = <<A, V>> /\ piece(w, i) = <<A, W>> /\ V # W
            BY <2>2, <5>1, <5>2
          <6> HIDE DEF A, V, W
          <6>2. /\ IsList(<<A, V>>) /\ Len(<<A, V>>) = 2 /\ <<A, V>>[2] = V
                /\ IsList(<<A, W>>) /\ Len(<<A, W>>) = 2 /\ <<A, W>>[2] = W
            BY TupleLists
          <6>3. 2 \in 1 .. Len(<<A, V>>) /\ 2 \in 1 .. Len(<<A, W>>)
            BY <6>2
          <6>4. Apart(Anything, <<A, V>>, <<A, W>>)
            BY ONLY <6>1, <6>2, <6>3, ApartAt
          <6> HIDE DEF piece
          <6> QED
            BY <6>1, <6>4
        <5>3. CASE ~(Len(v) > 8 /\ i % 8 = 1)
          <6> DEFINE V == <<"byte", v[i]>>
                     W == <<"byte", w[i]>>
          <6>1. piece(v, i) = <<V>> /\ piece(w, i) = <<W>> /\ V # W
            BY <2>2, <5>1, <5>3
          <6> HIDE DEF V, W
          <6>2. /\ IsList(<<V>>) /\ Len(<<V>>) = 1 /\ <<V>>[1] = V
                /\ IsList(<<W>>) /\ Len(<<W>>) = 1 /\ <<W>>[1] = W
            BY TupleLists
          <6>3. 1 \in 1 .. Len(<<V>>) /\ 1 \in 1 .. Len(<<W>>)
            BY <6>2
          <6>4. Apart(Anything, <<V>>, <<W>>)
            BY ONLY <6>1, <6>2, <6>3, ApartAt
          <6> HIDE DEF piece
          <6> QED
            BY <6>1, <6>4
        <5> QED
          BY <5>2, <5>3
      <4> HIDE DEF piece
      <4> QED
        BY <4>1, <4>2, ApartSame
    <3> DEFINE p == P(v)
               q == P(w)
    <3>3. \A i \in 1 .. Len(v) : p[i] = piece(v, i) /\ q[i] = piece(w, i)
      BY <2>2
    <3>4. ListOfLists(p) /\ Len(p) = Len(v) /\ ListOfLists(q) /\ Len(q) = Len(v)
      BY <1>1, <1>3, <2>2
    <3> HIDE DEF piece, p, q
    <3>5. \A i \in 1 .. Len(v) : p[i] = q[i] \/ Apart(Anything, p[i], q[i])
      BY <3>2, <3>3
    <3>6. \E i \in 1 .. Len(v) : p[i] # q[i]
      BY <3>1, <3>2, <3>3
    <3>7. ASSUME NEW i \in 2 .. Len(v) PROVE Leads(Anything, p[i], Anything) /\ Leads(Anything, q[i], Anything)
      <4>1. IsList(p[i]) /\ IsList(q[i])
        BY <1>1, <3>4 DEF ListOfLists
      <4> QED
        BY <4>1, ConcatLists DEF Leads, Follows
    <3>8. Apart(Anything, FlattenSeq(p), FlattenSeq(q))
      BY ONLY <3>4, <3>5, <3>6, <3>7, FlattenApart
    <3> DEFINE head == << <<"size", Len(v)>> >>
    <3>9. text(v) = head \o FlattenSeq(p) /\ text(w) = head \o FlattenSeq(q)
      BY <2>2 DEF p, q
    <3>10. IsList(head) /\ IsList(FlattenSeq(p)) /\ IsList(FlattenSeq(q))
      BY <3>4, FlattenList, TupleLists
    <3> HIDE DEF head, text
    <3>11. Apart(Anything, head \o FlattenSeq(p), head \o FlattenSeq(q))
      BY ONLY <3>8, <3>10, ApartBehind
    <3> QED
      BY <3>9, <3>11
  <2> QED
    BY <2>1, <2>2
<1>5. IsList(text(v)) /\ IsList(text(w)) /\ Len(text(v)) > 0 /\ text(v)[1] = <<"size", Len(v)>>
  BY <1>1, <1>3
<1> HIDE DEF text
<1> QED
  BY <1>2, <1>4, <1>5 DEF Tells

\* A list of tokens without a quote.
StringFits(v) == IsList(v) /\ QuoteFree(v)

Quoted(v) == <<Quote>> \o v \o <<Quote>>

LEMMA QuotedIs ==
  ASSUME NEW v, StringFits(v)
  PROVE  /\ IsList(Quoted(v)) /\ Len(Quoted(v)) = Len(v) + 2 /\ Quoted(v)[1] = Quote
         /\ \A i \in 1 .. Len(v) : Quoted(v)[i + 1] = v[i] /\ v[i] # Quote
         /\ Quoted(v)[Len(v) + 2] = Quote /\ Len(v) \in Nat
<1> DEFINE q == <<Quote>>
           qv == q \o v
<1>1. Len(v) \in Nat /\ DOMAIN v = 1 .. Len(v) /\ IsList(v)
  BY ListIs DEF StringFits
<1>2. IsList(q) /\ Len(q) = 1 /\ q[1] = Quote
  BY TupleLists
<1>3. Quoted(v) = qv \o q
  BY DEF Quoted
<1> HIDE DEF q
<1>4. IsList(q) /\ IsList(v)
  BY <1>1, <1>2
<1>5. /\ IsList(q \o v) /\ Len(q \o v) = Len(q) + Len(v)
      /\ \A i \in 1 .. Len(q) : (q \o v)[i] = q[i]
      /\ \A i \in 1 .. Len(v) : (q \o v)[Len(q) + i] = v[i]
  BY ONLY <1>4, ConcatLists
<1>6. /\ IsList(qv) /\ Len(qv) = 1 + Len(v)
      /\ \A i \in 1 .. Len(q) : qv[i] = q[i]
      /\ \A i \in 1 .. Len(v) : qv[1 + i] = v[i]
  BY <1>2, <1>5
<1> HIDE DEF qv
<1>7. IsList(qv) /\ IsList(q)
  BY <1>6, <1>4
<1>8. /\ IsList(qv \o q) /\ Len(qv \o q) = Len(qv) + Len(q)
      /\ \A i \in 1 .. Len(qv) : (qv \o q)[i] = qv[i]
      /\ \A i \in 1 .. Len(q) : (qv \o q)[Len(qv) + i] = q[i]
  BY ONLY <1>7, ConcatLists
<1>9. Quoted(v)[1] = Quote
  BY <1>1, <1>2, <1>3, <1>6, <1>8
<1>10. Quoted(v)[Len(v) + 2] = Quote
  <2>1. Len(qv) + 1 = Len(v) + 2 /\ 1 \in 1 .. Len(q)
    BY <1>1, <1>2, <1>6
  <2> QED
    BY <1>2, <1>3, <1>8, <2>1
<1>11. ASSUME NEW i \in 1 .. Len(v) PROVE Quoted(v)[i + 1] = v[i] /\ v[i] # Quote
  <2>1. i + 1 = 1 + i /\ 1 + i \in 1 .. Len(qv)
    BY <1>1, <1>6
  <2>2. v[i] # Quote
    BY <1>1 DEF StringFits, QuoteFree
  <2> QED
    BY <1>3, <1>6, <1>8, <2>1, <2>2
<1> QED
  BY <1>1, <1>2, <1>3, <1>6, <1>8, <1>9, <1>10, <1>11

\* Between quotes, strings that hold none are told apart: they end at the same quote.
LEMMA QuotedTells ==
  ASSUME NEW v, NEW w, StringFits(v), StringFits(w)
  PROVE  Tells(Anything, Quoted(v), Quoted(w), v, w)
<1> DEFINE a == Quoted(v)
           b == Quoted(w)
<1>1. /\ IsList(a) /\ Len(a) = Len(v) + 2
      /\ \A i \in 1 .. Len(v) : a[i + 1] = v[i] /\ v[i] # Quote
      /\ a[Len(v) + 2] = Quote /\ Len(v) \in Nat
  BY QuotedIs
<1>2. /\ IsList(b) /\ Len(b) = Len(w) + 2
      /\ \A i \in 1 .. Len(w) : b[i + 1] = w[i] /\ w[i] # Quote
      /\ b[Len(w) + 2] = Quote /\ Len(w) \in Nat
  BY QuotedIs
<1>3. v = w => a = b
  OBVIOUS
<1> HIDE DEF a, b
<1>4. ASSUME v # w PROVE \E j \in 1 .. Len(a) : j \in 1 .. Len(b) /\ a[j] # b[j]
  <2>1. CASE Len(v) = Len(w)
    <3>1. PICK i \in 1 .. Len(v) : v[i] # w[i]
      BY <1>4, <2>1, SameList DEF StringFits
    <3>2. i + 1 \in 1 .. Len(a) /\ i + 1 \in 1 .. Len(b) /\ i \in 1 .. Len(w)
      BY <1>1, <1>2, <2>1
    <3>3. a[i + 1] = v[i] /\ b[i + 1] = w[i]
      BY <1>1, <1>2, <3>2
    <3> QED
      BY <3>1, <3>2, <3>3
  <2>2. CASE Len(v) < Len(w)
    <3> DEFINE n == Len(v) + 1
    <3>1. n \in 1 .. Len(w) /\ n + 1 = Len(v) + 2 /\ n + 1 \in 1 .. Len(a) /\ n + 1 \in 1 .. Len(b)
      BY <1>1, <1>2, <2>2
    <3> HIDE DEF n
    <3>2. a[n + 1] = Quote /\ b[n + 1] # Quote
      BY <1>1, <1>2, <3>1
    <3> QED
      BY <3>1, <3>2
  <2>3. CASE Len(w) < Len(v)
    <3> DEFINE n == Len(w) + 1
    <3>1. n \in 1 .. Len(v) /\ n + 1 = Len(w) + 2 /\ n + 1 \in 1 .. Len(a) /\ n + 1 \in 1 .. Len(b)
      BY <1>1, <1>2, <2>3
    <3> HIDE DEF n
    <3>2. b[n + 1] = Quote /\ a[n + 1] # Quote
      BY <1>1, <1>2, <3>1
    <3> QED
      BY <3>1, <3>2
  <2> QED
    BY <1>1, <1>2, <2>1, <2>2, <2>3
<1>5. ASSUME v # w PROVE Apart(Anything, a, b)
  BY <1>1, <1>2, <1>4, <1>5, ApartAt
<1>6. Tells(Anything, a, b, v, w)
  BY <1>1, <1>2, <1>3, <1>5 DEF Tells
<1> QED
  BY <1>6 DEF a, b

\* What is printed first of a scalar that is not bytes or a string.
FirstOf(fd, v) ==
  CASE fd.kind \in {"int", "uint", "fixed", "float"} -> <<"dec", ShownScalar(fd, v)>>
    [] fd.kind = "bool"   -> <<"bool", v>>
    [] fd.kind = "enum"   -> <<"name", v>>

LEMMA ScalarFirst ==
  ASSUME NEW fd, fd.kind \in Kinds \ {"message", "bytes", "string"}, NEW mod \in {"default", "dec"},
         fd.kind = "int" => mod # "dec", NEW v, NEW depth
  PROVE  LET a == ScalarToString(fd, v, depth, mod)
         IN  IsList(a) /\ Len(a) > 0 /\ a[1] = FirstOf(fd, v)
<1> DEFINE a == ScalarToString(fd, v, depth, mod)
           first == FirstOf(fd, v)
<1>1. a = << first >> \/ \E h : a = << first, h >>
  <2>1. CASE fd.kind = "int"
    <3>1. a = StringFromInt(v, fd.of, "default") /\ first = <<"dec", v>>
      BY <2>1 DEF ScalarToString, FirstOf, ShownScalar
    <3> QED
      BY <3>1 DEF StringFromInt
  <2>2. CASE fd.kind \in {"uint", "fixed"}
    <3>1. a = StringFromUInt(v, fd.of, mod) /\ first = <<"dec", v>>
      BY <2>2 DEF ScalarToString, FirstOf, ShownScalar
    <3>2. CASE mod = "dec"
      BY <3>1, <3>2 DEF StringFromUInt
    <3>3. CASE mod = "default"
      BY <3>1, <3>3 DEF StringFromUInt
    <3> QED
      BY <3>2, <3>3
  <2>3. CASE fd.kind = "float"
    BY <2>3 DEF ScalarToString, FirstOf, ShownScalar, StringFromFloat
  <2>4. CASE fd.kind = "bool"
    BY <2>4 DEF ScalarToString, FirstOf
  <2>5. CASE fd.kind = "enum"
    BY <2>5 DEF ScalarToString, FirstOf
  <2> QED
    BY <2>1, <2>2, <2>3, <2>4, <2>5 DEF Kinds
<1> HIDE DEF a, first
<1>2. IsList(a) /\ Len(a) > 0 /\ a[1] = first
  BY <1>1, TupleLists
<1> QED
  BY <1>2 DEF a, first

\* The text of a scalar tells what is shown of it, and that it is set.
LEMMA ScalarTells ==
  ASSUME NEW fd, fd.kind \in Kinds \ {"message"}, NEW mod \in {"default", "dec"},
         fd.kind = "int" => mod # "dec", NEW v, NEW w, NEW depth,
         fd.kind = "bytes" => IsList(v) /\ IsList(w),
         fd.kind = "string" => StringFits(v) /\ StringFits(w)
  PROVE  LET a == ScalarToString(fd, v, depth, mod)
             b == ScalarToString(fd, w, depth, mod)
         IN  /\ Tells(Anything, a, b, ShownScalar(fd, v), ShownScalar(fd, w))
             /\ Len(a) > 0 /\ a[1] # <<"not set">>
<1> DEFINE a == ScalarToString(fd, v, depth, mod)
           b == ScalarToString(fd, w, depth, mod)
<1>1. CASE fd.kind = "bytes"
  <2>1. a = StringFromBytes(v, depth + 1, mod) /\ b = StringFromBytes(w, depth + 1, mod)
    BY <1>1 DEF ScalarToString
  <2>2. ShownScalar(fd, v) = v /\ ShownScalar(fd, w) = w
    BY <1>1 DEF ShownScalar
  <2> HIDE DEF a, b
  <2>3. Tells(Anything, a, b, v, w) /\ Len(a) > 0 /\ a[1] = <<"size", Len(v)>>
    BY <1>1, <2>1, BytesTell
  <2>4. a[1] # <<"not set">>
    BY <2>3
  <2> QED
    BY <2>2, <2>3, <2>4 DEF a, b
<1>2. CASE fd.kind \notin {"bytes", "string"}
  <2>1. IsList(a) /\ Len(a) > 0 /\ a[1] = FirstOf(fd, v) /\ IsList(b) /\ Len(b) > 0 /\ b[1] = FirstOf(fd, w)
    BY <1>2, ScalarFirst
  <2>2. ASSUME ShownScalar(fd, v) = ShownScalar(fd, w) PROVE a = b
    <3>1. CASE fd.kind = "float"
      BY <2>2, <3>1 DEF ShownScalar, ScalarToString, StringFromFloat
    <3>2. CASE fd.kind # "float"
      BY <2>2, <3>2 DEF ShownScalar
    <3> QED
      BY <3>1, <3>2
  <2>3. ASSUME ShownScalar(fd, v) # ShownScalar(fd, w) PROVE a[1] # b[1]
    <3>1. CASE fd.kind \in {"int", "uint", "fixed", "float"}
      BY <2>1, <2>3, <3>1 DEF FirstOf
    <3>2. CASE fd.kind = "bool"
      BY <2>1, <2>3, <3>2 DEF FirstOf, ShownScalar
    <3>3. CASE fd.kind = "enum"
      BY <2>1, <2>3, <3>3 DEF FirstOf, ShownScalar
    <3> QED
      BY <1>2, <3>1, <3>2, <3>3 DEF Kinds
  <2>4. a[1] # <<"not set">>
    <3>1. FirstOf(fd, v) # <<"not set">>
      BY <1>2 DEF FirstOf, Kinds
    <3> QED
      BY <2>1, <3>1
  <2> HIDE DEF a, b
  <2>5. Tells(Anything, a, b, ShownScalar(fd, v), ShownScalar(fd, w))
    BY <2>1, <2>2, <2>3, FirstTells
  <2> QED
    BY <2>1, <2>4, <2>5 DEF a, b
<1>3. CASE fd.kind = "string"
  <2>1. a = Quoted(v) /\ b = Quoted(w) /\ ShownScalar(fd, v) = v /\ ShownScalar(fd, w) = w
    BY <1>3 DEF ScalarToString, StringFromString, Quoted, ShownScalar
  <2>2. StringFits(v) /\ StringFits(w)
    BY <1>3
  <2> HIDE DEF a, b
  <2>3. Tells(Anything, a, b, v, w)
    BY <2>1, <2>2, QuotedTells
  <2>4. Len(a) > 0 /\ a[1] = Quote
    BY <2>1, <2>2, QuotedIs
  <2>5. Quote # <<"not set">>
    BY DEF Quote
  <2> QED
    BY <2>1, <2>3, <2>4, <2>5 DEF a, b
<1> QED
  BY <1>1, <1>2, <1>3

\* The text of the key of an entry tells the key.
LEMMA KeyTells ==
  ASSUME NEW fd, fd.kind \in {"int", "uint", "string"}, NEW k, NEW l,
         fd.kind = "string" => StringFits(k) /\ StringFits(l)
  PROVE  Tells(Anything, MapKey(fd, k), MapKey(fd, l), k, l)
<1>1. CASE fd.kind = "string"
  <2>1. MapKey(fd, k) = Quoted(k) /\ MapKey(fd, l) = Quoted(l)
    BY <1>1 DEF MapKey, StringFromString, Quoted
  <2> QED
    BY <1>1, <2>1, QuotedTells
<1>2. CASE fd.kind # "string"
  <2>1. ASSUME NEW j PROVE IsList(MapKey(fd, j)) /\ Len(MapKey(fd, j)) > 0 /\ MapKey(fd, j)[1] = <<"dec", j>>
    <3> DEFINE t == <<"dec", j>>
    <3>1. \E h : MapKey(fd, j) = << t, h >>
      <4>1. CASE fd.kind = "int"
        BY <4>1 DEF MapKey, StringFromInt
      <4>2. CASE fd.kind = "uint"
        BY <4>2 DEF MapKey, StringFromUInt
      <4> QED
        BY <1>2, <4>1, <4>2
    <3> HIDE DEF t
    <3> QED
      BY <3>1, TupleLists DEF t
  <2>2. k # l => MapKey(fd, k)[1] # MapKey(fd, l)[1]
    BY <2>1
  <2> QED
    BY <2>1, <2>2, FirstTells
<1> QED
  BY <1>1, <1>2

----------------------------------------------------------------------------
(* Fields that are not repeated.                                           *)

\* A text that begins with a deep line, on a new line, and none.
LEMMA ApartFromLine ==
  ASSUME NEW a, IsList(a), Len(a) > 0, NEW depth \in Nat, IsDeep(a[1], depth)
  PROVE  Apart(depth, <<>>, <<NewLine>> \o a)
<1> SUFFICES ASSUME NEW f, NEW g, Follows(f, depth), Follows(g, depth)
             PROVE  <<>> \o f # (<<NewLine>> \o a) \o g
  BY DEF Apart
<1> DEFINE line == <<NewLine>> \o a
           rest == a \o g
<1>1. IsList(f) /\ IsList(g) /\ IsList(<<NewLine>>) /\ Len(<<NewLine>>) = 1
  BY TupleLists DEF Follows
<1>2. line \o g = <<NewLine>> \o rest
  BY ONLY <1>1, IsList(a), ConcatThree
<1>3. IsList(rest) /\ Len(rest) > 0 /\ rest[1] = a[1]
  BY ONLY <1>1, IsList(a), Len(a) > 0, ConcatFirst
<1> HIDE DEF line, rest
<1>4. Len(rest) \in Nat /\ 1 \in 1 .. Len(rest)
  BY <1>3, ListIs
<1>5. /\ Len(<<NewLine>> \o rest) = 1 + Len(rest)
      /\ (<<NewLine>> \o rest)[1 + 1] = rest[1]
  BY <1>1, <1>3, <1>4, ConcatLists
<1>6. Len(<<NewLine>> \o rest) > 1 /\ IsDeep((<<NewLine>> \o rest)[2], depth)
  BY <1>3, <1>4, <1>5
<1>7. <<NewLine>> \o rest # <<>>
  BY <1>6, TupleLists
<1>8. depth # Anything
  BY DEF Anything
<1>9. f # <<NewLine>> \o rest
  BY <1>6, <1>7, <1>8 DEF Follows
<1>10. <<>> \o f = f
  BY <1>1, ConcatEmpty
<1> QED
  BY <1>2, <1>9, <1>10 DEF line

\* If one of two texts is empty, the other one begins with a line.
OpensAlike(depth, a, b) ==
  /\ Len(a) = 0 /\ Len(b) > 0 => IsDeep(b[1], depth)
  /\ Len(b) = 0 /\ Len(a) > 0 => IsDeep(a[1], depth)

MessageTells(depth, a, b, x, y) == Tells(depth, a, b, x, y) /\ OpensAlike(depth, a, b)

\* The text of a message in a field, with its type before it.
Typed(type, text) == << <<"type", type>> >> \o (IF text = <<>> THEN <<>> ELSE << NewLine >> \o text)

LEMMA TypedFirst ==
  ASSUME NEW text, IsList(text), NEW type
  PROVE  IsList(Typed(type, text)) /\ Len(Typed(type, text)) > 0 /\ Typed(type, text)[1] = <<"type", type>>
<1> DEFINE rest == IF text = <<>> THEN <<>> ELSE << NewLine >> \o text
           head == << <<"type", type>> >>
<1>1. IsList(head) /\ Len(head) = 1 /\ head[1] = <<"type", type>>
  BY TupleLists
<1>2. IsList(rest)
  BY TupleLists, ConcatLists
<1>3. Typed(type, text) = head \o rest
  BY DEF Typed
<1> HIDE DEF head, rest
<1>4. IsList(head \o rest) /\ Len(head \o rest) > 0 /\ (head \o rest)[1] = head[1]
  BY ONLY <1>1, <1>2, ConcatFirst
<1> QED
  BY <1>1, <1>3, <1>4

LEMMA TypedTells ==
  ASSUME NEW depth \in Nat, NEW a, NEW b, NEW x, NEW y, MessageTells(depth, a, b, x, y), NEW type
  PROVE  Tells(depth, Typed(type, a), Typed(type, b), x, y)
<1> DEFINE rest(t) == IF t = <<>> THEN <<>> ELSE << NewLine >> \o t
           head == << <<"type", type>> >>
<1>1. IsList(a) /\ IsList(b) /\ (x = y => a = b) /\ (x # y => Apart(depth, a, b))
  BY DEF MessageTells, Tells
<1>2. IsList(head) /\ Len(head) = 1 /\ head[1] = <<"type", type>>
  BY TupleLists
<1>3. IsList(rest(a)) /\ IsList(rest(b))
  BY <1>1, TupleLists, ConcatLists
<1>4. Typed(type, a) = head \o rest(a) /\ Typed(type, b) = head \o rest(b)
  BY DEF Typed
<1>5. ASSUME x # y PROVE Apart(depth, rest(a), rest(b))
  <2>1. Apart(depth, a, b)
    BY <1>1, <1>5
  <2>2. CASE a = <<>> /\ b = <<>>
    BY <2>1, <2>2, ApartSame
  <2>3. CASE a # <<>> /\ b # <<>>
    <3>1. IsList(<<NewLine>>)
      BY TupleLists
    <3>2. Apart(depth, <<NewLine>> \o a, <<NewLine>> \o b)
      BY ONLY <1>1, <2>1, <3>1, ApartBehind
    <3> QED
      BY <2>3, <3>2
  <2>4. ASSUME NEW t, IsList(t), t # <<>> PROVE Len(t) > 0
    <3>1. Len(t) = 0 => t = <<>>
      BY <2>4, SameList, TupleLists
    <3> QED
      BY <2>4, <3>1, ListIs
  <2>5. CASE a = <<>> /\ b # <<>>
    <3>1. Len(a) = 0 /\ Len(b) > 0
      BY <1>1, <2>4, <2>5, TupleLists
    <3>2. IsDeep(b[1], depth)
      BY <3>1 DEF MessageTells, OpensAlike
    <3>3. Apart(depth, <<>>, <<NewLine>> \o b)
      BY <1>1, <3>1, <3>2, ApartFromLine
    <3> QED
      BY <2>5, <3>3
  <2>6. CASE a # <<>> /\ b = <<>>
    <3>1. Len(b) = 0 /\ Len(a) > 0
      BY <1>1, <2>4, <2>6, TupleLists
    <3>2. IsDeep(a[1], depth)
      BY <3>1 DEF MessageTells, OpensAlike
    <3>3. Apart(depth, <<NewLine>> \o a, <<>>)
      BY <1>1, <3>1, <3>2, ApartFromLine, ApartSame
    <3> QED
      BY <2>6, <3>3
  <2> QED
    BY <2>2, <2>3, <2>5, <2>6
<1>6. x = y => rest(a) = rest(b)
  BY <1>1
<1> HIDE DEF head, rest
<1>7. ASSUME x # y PROVE Apart(depth, head \o rest(a), head \o rest(b))
  BY ONLY <1>2, <1>3, <1>5, <1>7, ApartBehind
<1>8. IsList(Typed(type, a)) /\ IsList(Typed(type, b))
  BY <1>1, TypedFirst
<1> QED
  BY <1>4, <1>6, <1>7, <1>8 DEF Tells

\* Texts of values that are set or not.
None == <<"not set">>

LEMMA OptionalTells ==
  ASSUME NEW depth, NEW v, NEW w, NEW a, NEW b, NEW x, NEW y,
         v = Unset => a = <<None>>, v # Unset => IsList(a) /\ Len(a) > 0 /\ a[1] # None,
         w = Unset => b = <<None>>, w # Unset => IsList(b) /\ Len(b) > 0 /\ b[1] # None,
         v # Unset /\ w # Unset => Tells(depth, a, b, x, y)
  PROVE  Tells(depth, a, b, IF v = Unset THEN {} ELSE {x}, IF w = Unset THEN {} ELSE {y})
<1>1. IsList(<<None>>) /\ Len(<<None>>) = 1 /\ <<None>>[1] = None
  BY TupleLists
<1>2. IsList(a) /\ Len(a) > 0 /\ IsList(b) /\ Len(b) > 0
  BY <1>1
<1>3. CASE v # Unset /\ w # Unset
  BY <1>3 DEF Tells
<1>4. CASE v = Unset /\ w = Unset
  BY <1>2, <1>4 DEF Tells
<1>5. CASE v = Unset /\ w # Unset
  <2>1. a[1] # b[1]
    BY <1>1, <1>5
  <2>2. {} # {y}
    OBVIOUS
  <2> QED
    BY <1>2, <1>5, <2>1, <2>2, FirstTells
<1>6. CASE v # Unset /\ w = Unset
  <2>1. a[1] # b[1]
    BY <1>1, <1>6
  <2>2. {x} # {}
    OBVIOUS
  <2> QED
    BY <1>2, <1>6, <2>1, <2>2, FirstTells
<1> QED
  BY <1>3, <1>4, <1>5, <1>6

\* A value that can be in a field, and is no string with a quote.
Legible(fd, v) == ValueFits(fd, v) /\ (fd.kind = "string" => QuoteFree(v))

\* A value that is set, or not.
Settable(fd, v) == v = Unset \/ Legible(fd, v)

\* The texts of the messages in two fields tell what is shown of them.
SubTells(depth, A, B, X, Y, fd, v, w) ==
  fd.kind = "message" =>
    /\ v # Unset => IsList(A[<<fd.of, v>>])
    /\ w # Unset => IsList(B[<<fd.of, w>>])
    /\ v # Unset /\ w # Unset =>
         MessageTells(depth, A[<<fd.of, v>>], B[<<fd.of, w>>], X[<<fd.of, v>>], Y[<<fd.of, w>>])

\* What is printed of a value, and what is shown of it.
ValueText(sub, fd, v, depth, mod) ==
  IF v = Unset THEN <<None>>
  ELSE IF fd.kind # "message" THEN ScalarToString(fd, v, depth, mod)
  ELSE Typed(fd.of, sub[<<fd.of, v>>])

ValueShown(sub, fd, v) == IF fd.kind # "message" THEN ShownScalar(fd, v) ELSE sub[<<fd.of, v>>]

LEMMA ValueTells ==
  ASSUME NEW fd, fd.kind \in Kinds, NEW depth \in Nat,
         NEW mod \in {"default", "dec"}, fd.kind = "int" => mod # "dec",
         NEW A, NEW B, NEW X, NEW Y, NEW v, NEW w, Settable(fd, v), Settable(fd, w),
         SubTells(depth + 1, A, B, X, Y, fd, v, w)
  PROVE  Tells(depth + 1, ValueText(A, fd, v, depth, mod), ValueText(B, fd, w, depth, mod),
               ShownValue(X, fd, v), ShownValue(Y, fd, w))
<1> DEFINE a == ValueText(A, fd, v, depth, mod)
           b == ValueText(B, fd, w, depth, mod)
           x == ValueShown(X, fd, v)
           y == ValueShown(Y, fd, w)
<1>1. /\ ShownValue(X, fd, v) = IF v = Unset THEN {} ELSE {x}
      /\ ShownValue(Y, fd, w) = IF w = Unset THEN {} ELSE {y}
  BY DEF ShownValue, ValueShown, ShownScalar
<1>2. v = Unset => a = <<None>>
  BY DEF ValueText
<1>3. w = Unset => b = <<None>>
  BY DEF ValueText
<1>4. ASSUME fd.kind # "message"
      PROVE  /\ v # Unset => IsList(a) /\ Len(a) > 0 /\ a[1] # None
             /\ w # Unset => IsList(b) /\ Len(b) > 0 /\ b[1] # None
             /\ v # Unset /\ w # Unset => Tells(depth + 1, a, b, x, y)
  <2>1. ASSUME NEW u, NEW t, Legible(fd, u), Legible(fd, t)
        PROVE  LET c == ScalarToString(fd, u, depth, mod)
                   d == ScalarToString(fd, t, depth, mod)
               IN  /\ Tells(Anything, c, d, ShownScalar(fd, u), ShownScalar(fd, t))
                   /\ Len(c) > 0 /\ c[1] # None
    BY <1>4, <2>1, ScalarTells DEF Legible, ValueFits, StringFits, None
  <2>2. v # Unset => a = ScalarToString(fd, v, depth, mod) /\ Legible(fd, v) /\ x = ShownScalar(fd, v)
    BY <1>4 DEF ValueText, Settable, ValueShown
  <2>3. w # Unset => b = ScalarToString(fd, w, depth, mod) /\ Legible(fd, w) /\ y = ShownScalar(fd, w)
    BY <1>4 DEF ValueText, Settable, ValueShown
  <2> HIDE DEF a, b, x, y
  <2>4. v # Unset => IsList(a) /\ Len(a) > 0 /\ a[1] # None
    BY <2>1, <2>2 DEF Tells
  <2>5. w # Unset => IsList(b) /\ Len(b) > 0 /\ b[1] # None
    BY <2>1, <2>3 DEF Tells
  <2>6. v # Unset /\ w # Unset => Tells(Anything, a, b, x, y)
    BY <2>1, <2>2, <2>3
  <2>7. Tells(Anything, a, b, x, y) => Tells(depth + 1, a, b, x, y)
    BY ApartBelow DEF Tells
  <2> QED
    BY <2>4, <2>5, <2>6, <2>7
<1>5. ASSUME fd.kind = "message"
      PROVE  /\ v # Unset => IsList(a) /\ Len(a) > 0 /\ a[1] # None
             /\ w # Unset => IsList(b) /\ Len(b) > 0 /\ b[1] # None
             /\ v # Unset /\ w # Unset => Tells(depth + 1, a, b, x, y)
  <2> DEFINE s == A[<<fd.of, v>>]
             t == B[<<fd.of, w>>]
  <2>1. v # Unset => a = Typed(fd.of, s) /\ IsList(s)
    BY <1>5 DEF ValueText, SubTells
  <2>2. w # Unset => b = Typed(fd.of, t) /\ IsList(t)
    BY <1>5 DEF ValueText, SubTells
  <2>3. v # Unset /\ w # Unset => MessageTells(depth + 1, s, t, x, y)
    BY <1>5 DEF SubTells, ValueShown
  <2>4. <<"type", fd.of>> # None
    BY DEF None
  <2> HIDE DEF a, b, x, y, s, t
  <2>5. depth + 1 \in Nat
    OBVIOUS
  <2>6. v # Unset => IsList(a) /\ Len(a) > 0 /\ a[1] # None
    BY <2>1, <2>4, TypedFirst
  <2>7. w # Unset => IsList(b) /\ Len(b) > 0 /\ b[1] # None
    BY <2>2, <2>4, TypedFirst
  <2>8. v # Unset /\ w # Unset => Tells(depth + 1, Typed(fd.of, s), Typed(fd.of, t), x, y)
    BY ONLY <2>3, <2>5, TypedTells
  <2> QED
    BY <2>1, <2>2, <2>6, <2>7, <2>8
<1> HIDE DEF a, b, x, y
<1>7. /\ v # Unset => IsList(a) /\ Len(a) > 0 /\ a[1] # None
      /\ w # Unset => IsList(b) /\ Len(b) > 0 /\ b[1] # None
      /\ v # Unset /\ w # Unset => Tells(depth + 1, a, b, x, y)
  BY <1>4, <1>5
<1>8. Tells(depth + 1, a, b, IF v = Unset THEN {} ELSE {x}, IF w = Unset THEN {} ELSE {y})
  BY ONLY <1>2, <1>3, <1>7, OptionalTells
<1> QED
  BY <1>1, <1>8 DEF a, b

\* The text of a field that is not repeated is that of its value.
LEMMA FieldValueIs ==
  ASSUME NEW fd, ~IsRepeated(fd), NEW sub, NEW msg, NEW depth, NEW mod
  PROVE  FieldValueToString(sub, msg, fd, depth, mod) = ValueText(sub, fd, msg[fd.name], depth, mod)
BY DEF FieldValueToString, ValueText, HasField, Typed, None

----------------------------------------------------------------------------
(* Repeated fields.                                                        *)

\* The text of an element tells what is shown of it.
LEMMA ElementTells ==
  ASSUME NEW fd, fd.kind \in Kinds, NEW depth \in Nat, NEW A, NEW B, NEW X, NEW Y, NEW v, NEW w,
         Legible(fd, v), Legible(fd, w), SubTells(depth + 1, A, B, X, Y, fd, v, w)
  PROVE  Tells(depth + 1, RepeatedFieldValueToString(A, fd, v, depth, "default"),
               RepeatedFieldValueToString(B, fd, w, depth, "default"),
               ShownValue(X, fd, v), ShownValue(Y, fd, w))
<1> DEFINE a == RepeatedFieldValueToString(A, fd, v, depth, "default")
           b == RepeatedFieldValueToString(B, fd, w, depth, "default")
           x == ValueShown(X, fd, v)
           y == ValueShown(Y, fd, w)
<1>1. ShownValue(X, fd, v) = {x} /\ ShownValue(Y, fd, w) = {y}
  BY DEF ShownValue, ValueShown, ShownScalar, Legible, ValueFits
<1>2. CASE fd.kind # "message"
  <2>1. a = ScalarToString(fd, v, depth, "default") /\ x = ShownScalar(fd, v)
    BY <1>2 DEF RepeatedFieldValueToString, ValueShown
  <2>2. b = ScalarToString(fd, w, depth, "default") /\ y = ShownScalar(fd, w)
    BY <1>2 DEF RepeatedFieldValueToString, ValueShown
  <2> HIDE DEF a, b, x, y
  <2>3. Tells(Anything, a, b, x, y)
    BY <1>2, <2>1, <2>2, ScalarTells DEF Legible, ValueFits, StringFits
  <2>4. Tells(depth + 1, a, b, x, y)
    BY <2>3, ApartBelow DEF Tells
  <2> QED
    BY <1>1, <2>4 DEF Tells, a, b
<1>3. CASE fd.kind = "message"
  <2> DEFINE s == A[<<fd.of, v>>]
             t == B[<<fd.of, w>>]
             head == << <<"type", fd.of>>, NewLine >>
  <2>1. a = head \o s /\ b = head \o t
    BY <1>3 DEF RepeatedFieldValueToString
  <2>2. Tells(depth + 1, s, t, x, y)
    BY <1>3 DEF SubTells, MessageTells, ValueShown, Legible, ValueFits
  <2>3. IsList(head)
    BY TupleLists
  <2> HIDE DEF a, b, x, y, s, t, head
  <2>4. IsList(s) /\ IsList(t) /\ (x = y => s = t) /\ (x # y => Apart(depth + 1, s, t))
    BY <2>2 DEF Tells
  <2>5. IsList(a) /\ IsList(b)
    BY <2>1, <2>3, <2>4, ConcatLists
  <2>6. x # y => Apart(depth + 1, a, b)
    BY <2>1, <2>3, <2>4, ApartBehind
  <2>7. x = y => a = b
    BY <2>1, <2>4
  <2> QED
    BY <1>1, <2>5, <2>6, <2>7 DEF Tells, a, b
<1> QED
  BY <1>2, <1>3

\* The text of a repeated field, also when it is empty.
ElementText(sub, fd, v, depth, i) ==
  << ElementLine(depth, fd, i, Len(v)) >> \o RepeatedFieldValueToString(sub, fd, v[i], depth, "default")

ElementPieces(sub, fd, v, depth) ==
  [i \in 1 .. Len(v) |->
     (IF i = 1 THEN <<>> ELSE << NewLine >>) \o << ElementLine(depth, fd, i, Len(v)) >>
     \o RepeatedFieldValueToString(sub, fd, v[i], depth, "default")]

RepeatedText(sub, fd, v, depth) ==
  (IF v = <<>> THEN << ElementLine(depth, fd, 0, 0) >> ELSE <<>>) \o RepeatedToString(sub, fd, v, depth)

LEMMA ElementTextIs ==
  ASSUME NEW sub, NEW fd, NEW v, IsList(v), NEW depth \in Nat, NEW i \in 1 .. Len(v),
         IsList(RepeatedFieldValueToString(sub, fd, v[i], depth, "default"))
  PROVE  /\ IsList(ElementText(sub, fd, v, depth, i)) /\ Len(ElementText(sub, fd, v, depth, i)) > 0
         /\ ElementText(sub, fd, v, depth, i)[1] = ElementLine(depth, fd, i, Len(v))
<1> DEFINE line == ElementLine(depth, fd, i, Len(v))
           text == RepeatedFieldValueToString(sub, fd, v[i], depth, "default")
<1>1. IsList(<<line>>) /\ Len(<<line>>) > 0 /\ <<line>>[1] = line /\ IsList(text)
  BY TupleLists
<1> HIDE DEF line, text
<1>2. IsList(<<line>> \o text) /\ Len(<<line>> \o text) > 0 /\ (<<line>> \o text)[1] = <<line>>[1]
  BY ONLY <1>1, ConcatFirst
<1> QED
  BY <1>1, <1>2 DEF ElementText, line, text

LEMMA ElementPieceIs ==
  ASSUME NEW sub, NEW fd, NEW v, IsList(v), NEW depth \in Nat, NEW i \in 1 .. Len(v),
         IsList(RepeatedFieldValueToString(sub, fd, v[i], depth, "default"))
  PROVE  /\ IsList(ElementPieces(sub, fd, v, depth)[i])
         /\ i = 1 => ElementPieces(sub, fd, v, depth)[i] = ElementText(sub, fd, v, depth, i)
         /\ i # 1 => Leads(depth + 1, ElementPieces(sub, fd, v, depth)[i], depth + 1)
<1> DEFINE line == ElementLine(depth, fd, i, Len(v))
           text == RepeatedFieldValueToString(sub, fd, v[i], depth, "default")
           head == IF i = 1 THEN <<>> ELSE << NewLine >>
           p == ElementPieces(sub, fd, v, depth)[i]
           rest == ElementText(sub, fd, v, depth, i)
<1>1. p = (head \o <<line>>) \o text /\ rest = <<line>> \o text
  BY DEF ElementPieces, ElementText
<1>2. ~IsDeep(line, depth + 1)
  BY DEF IsDeep, ElementLine
<1>3. IsList(text) /\ IsList(rest) /\ rest[1] = line
  BY ElementTextIs
<1>4. IsList(<<line>>) /\ IsList(<<>>) /\ IsList(<<NewLine>>)
  BY TupleLists
<1> HIDE DEF line, text, p, rest
<1>5. p = head \o rest
  <2>1. IsList(head)
    BY <1>4
  <2>2. (head \o <<line>>) \o text = head \o (<<line>> \o text)
    BY ONLY <1>3, <1>4, <2>1, ConcatThree
  <2> QED
    BY <1>1, <2>2
<1>6. CASE i = 1
  <2>1. p = rest
    BY <1>3, <1>5, <1>6, ConcatEmpty
  <2> QED
    BY <1>3, <1>6, <2>1 DEF rest, p
<1>7. CASE i # 1
  <2>1. p = <<NewLine>> \o rest
    BY <1>5, <1>7
  <2>2. IsList(p)
    BY <1>3, <1>4, <2>1, ConcatLists
  <2>3. Leads(depth + 1, p, depth + 1)
    BY <1>2, <1>3, <2>1, LineLeads
  <2> QED
    BY <1>7, <2>2, <2>3 DEF p
<1> QED
  BY <1>6, <1>7

\* What is shown of a repeated field.
RepeatedShown(sub, fd, v) == [i \in DOMAIN v |-> ShownValue(sub, fd, v[i])]

\* Its text begins with the line of the first element, or of none.
LEMMA RepeatedFirst ==
  ASSUME NEW sub, NEW fd, NEW v, IsList(v), NEW depth \in Nat,
         \A i \in 1 .. Len(v) : IsList(RepeatedFieldValueToString(sub, fd, v[i], depth, "default"))
  PROVE  LET a == RepeatedText(sub, fd, v, depth)
         IN  /\ IsList(a) /\ Len(a) > 0
             /\ a[1] = ElementLine(depth, fd, IF Len(v) = 0 THEN 0 ELSE 1, Len(v))
             /\ Len(v) # 0 => a = FlattenSeq(ElementPieces(sub, fd, v, depth))
             /\ ListOfLists(ElementPieces(sub, fd, v, depth)) /\ Len(ElementPieces(sub, fd, v, depth)) = Len(v)
<1> DEFINE P == ElementPieces(sub, fd, v, depth)
           a == RepeatedText(sub, fd, v, depth)
           none == ElementLine(depth, fd, 0, 0)
<1>1. Len(v) \in Nat /\ (Len(v) = 0 <=> v = <<>>)
  BY ListIs, SameList, TupleLists
<1>2. P = [i \in 1 .. Len(v) |-> P[i]]
  BY DEF ElementPieces
<1>3. \A i \in 1 .. Len(v) : IsList(P[i])
  BY ElementPieceIs
<1>4. RepeatedToString(sub, fd, v, depth) = FlattenSeq(P)
  BY DEF RepeatedToString, ElementPieces
<1>5. a = (IF v = <<>> THEN <<none>> ELSE <<>>) \o FlattenSeq(P)
  BY <1>4 DEF RepeatedText
<1>6. \A i \in 1 .. Len(v) : i = 1 => Len(P[i]) > 0 /\ P[i][1] = ElementLine(depth, fd, 1, Len(v))
  <2> SUFFICES ASSUME NEW i \in 1 .. Len(v), i = 1
               PROVE  Len(P[i]) > 0 /\ P[i][1] = ElementLine(depth, fd, i, Len(v))
    OBVIOUS
  <2>1. P[i] = ElementText(sub, fd, v, depth, i)
    BY ElementPieceIs
  <2>2. Len(ElementText(sub, fd, v, depth, i)) > 0
    BY ElementTextIs
  <2>3. ElementText(sub, fd, v, depth, i)[1] = ElementLine(depth, fd, i, Len(v))
    BY ElementTextIs
  <2> QED
    BY <2>1, <2>2, <2>3
<1> HIDE DEF P, a, none
<1>7. ListOfLists(P) /\ Len(P) = Len(v)
  BY <1>1, <1>2, <1>3, FunctionList DEF ListOfLists
<1>8. IsList(FlattenSeq(P)) /\ IsList(<<none>>) /\ Len(<<none>>) > 0 /\ <<none>>[1] = none
  BY <1>7, FlattenList, TupleLists
<1>9. CASE Len(v) = 0
  <2>1. a = <<none>> \o FlattenSeq(P)
    BY <1>1, <1>5, <1>9
  <2>2. IsList(a) /\ Len(a) > 0 /\ a[1] = none
    BY <1>8, <2>1, ConcatFirst
  <2> QED
    BY <1>7, <1>9, <2>2 DEF a, P, none
<1>10. CASE Len(v) # 0
  <2>1. a = FlattenSeq(P)
    BY <1>1, <1>5, <1>8, <1>10, ConcatEmpty
  <2>2. 1 \in 1 .. Len(v) /\ Len(P) > 0
    BY <1>1, <1>7, <1>10
  <2>3. IsList(P[1]) /\ Len(P[1]) > 0 /\ P[1][1] = ElementLine(depth, fd, 1, Len(v))
    BY <1>3, <1>6, <2>2
  <2>4. PICK rest : IsList(rest) /\ FlattenSeq(P) = P[1] \o rest
    BY <1>7, <2>2, FlattenFirst
  <2>5. IsList(a) /\ Len(a) > 0 /\ a[1] = P[1][1]
    BY <2>1, <2>3, <2>4, ConcatFirst
  <2> QED
    BY <1>7, <1>10, <2>1, <2>3, <2>5 DEF a, P
<1> QED
  BY <1>9, <1>10

\* The text of a repeated field tells what is shown of it.
LEMMA RepeatedTells ==
  ASSUME NEW fd, fd.kind \in Kinds, NEW depth \in Nat, NEW A, NEW B, NEW X, NEW Y, NEW v, NEW w,
         IsList(v), IsList(w),
         \A i \in 1 .. Len(v) : Legible(fd, v[i]), \A i \in 1 .. Len(w) : Legible(fd, w[i]),
         \A i \in 1 .. Len(v) : SubTells(depth + 1, A, A, X, X, fd, v[i], v[i]),
         \A i \in 1 .. Len(w) : SubTells(depth + 1, B, B, Y, Y, fd, w[i], w[i]),
         \A i \in 1 .. Len(v) : \A j \in 1 .. Len(w) : SubTells(depth + 1, A, B, X, Y, fd, v[i], w[j])
  PROVE  Tells(depth + 1, RepeatedText(A, fd, v, depth), RepeatedText(B, fd, w, depth),
               RepeatedShown(X, fd, v), RepeatedShown(Y, fd, w))
<1> DEFINE P == ElementPieces(A, fd, v, depth)
           Q == ElementPieces(B, fd, w, depth)
           a == RepeatedText(A, fd, v, depth)
           b == RepeatedText(B, fd, w, depth)
           s(i) == RepeatedFieldValueToString(A, fd, v[i], depth, "default")
           t(i) == RepeatedFieldValueToString(B, fd, w[i], depth, "default")
           x == RepeatedShown(X, fd, v)
           y == RepeatedShown(Y, fd, w)
<1>1. /\ Len(v) \in Nat /\ Len(w) \in Nat
      /\ (Len(v) = 0 <=> v = <<>>) /\ (Len(w) = 0 <=> w = <<>>)
      /\ DOMAIN v = 1 .. Len(v) /\ DOMAIN w = 1 .. Len(w)
  BY ListIs, SameList, TupleLists
<1>2. \A i \in 1 .. Len(v) : IsList(s(i))
  BY ElementTells DEF Tells
<1>3. \A i \in 1 .. Len(w) : IsList(t(i))
  BY ElementTells DEF Tells
<1>4. /\ IsList(a) /\ Len(a) > 0
      /\ a[1] = ElementLine(depth, fd, IF Len(v) = 0 THEN 0 ELSE 1, Len(v))
      /\ Len(v) # 0 => a = FlattenSeq(P)
      /\ ListOfLists(P) /\ Len(P) = Len(v)
  BY <1>2, RepeatedFirst
<1>5. /\ IsList(b) /\ Len(b) > 0
      /\ b[1] = ElementLine(depth, fd, IF Len(w) = 0 THEN 0 ELSE 1, Len(w))
      /\ Len(w) # 0 => b = FlattenSeq(Q)
      /\ ListOfLists(Q) /\ Len(Q) = Len(w)
  BY <1>3, RepeatedFirst
<1>6. CASE Len(v) # Len(w)
  <2>1. x # y
    <3>1. DOMAIN x = 1 .. Len(v) /\ DOMAIN y = 1 .. Len(w)
      BY <1>1 DEF RepeatedShown
    <3> HIDE DEF x, y
    <3>2. 1 .. Len(v) # 1 .. Len(w)
      <4>1. CASE Len(v) > Len(w)
        <5>1. Len(v) \in 1 .. Len(v) /\ Len(v) \notin 1 .. Len(w)
          BY <1>1, <4>1
        <5> QED
          BY <5>1
      <4>2. CASE Len(w) > Len(v)
        <5>1. Len(w) \in 1 .. Len(w) /\ Len(w) \notin 1 .. Len(v)
          BY <1>1, <4>2
        <5> QED
          BY <5>1
      <4>3. Len(v) > Len(w) \/ Len(w) > Len(v)
        <5>1. Len(v) \in Int /\ Len(w) \in Int
          BY <1>1
        <5> QED
          BY ONLY <1>6, <5>1
      <4> QED
        BY <4>1, <4>2, <4>3
    <3> QED
      BY <3>1, <3>2
  <2>2. a[1] # b[1]
    <3>1. a[1][5] = Len(v) /\ b[1][5] = Len(w)
      BY <1>4, <1>5 DEF ElementLine
    <3> QED
      BY <1>6, <3>1
  <2> HIDE DEF a, b, x, y
  <2>3. Tells(depth + 1, a, b, x, y)
    BY <1>4, <1>5, <2>1, <2>2, FirstTells
  <2> QED
    BY <2>3 DEF a, b, x, y
<1>7. CASE Len(v) = Len(w) /\ Len(v) = 0
  <2>1. v = w /\ v = <<>>
    BY <1>1, <1>7
  <2>2. a = << ElementLine(depth, fd, 0, 0) >> \o FlattenSeq(P) /\ b = << ElementLine(depth, fd, 0, 0) >> \o FlattenSeq(Q)
    BY <2>1 DEF RepeatedText, RepeatedToString, ElementPieces
  <2>3. x = y
    BY <1>1, <1>7 DEF RepeatedShown
  <2>4. Len(P) = Len(Q) /\ IsList(P) /\ IsList(Q) /\ \A i \in 1 .. Len(P) : P[i] = Q[i]
    BY <1>4, <1>5, <1>7 DEF ListOfLists
  <2> HIDE DEF a, b, x, y, P, Q
  <2>5. P = Q
    BY <2>4, SameList
  <2>6. Tells(depth + 1, a, b, x, y)
    BY <1>4, <1>5, <2>2, <2>3, <2>5 DEF Tells
  <2> QED
    BY <2>6 DEF a, b, x, y
<1>8. CASE Len(v) = Len(w) /\ Len(v) # 0
  <2>1. ASSUME NEW i \in 1 .. Len(v)
        PROVE  /\ ShownValue(X, fd, v[i]) = ShownValue(Y, fd, w[i]) => P[i] = Q[i]
               /\ ShownValue(X, fd, v[i]) # ShownValue(Y, fd, w[i]) => Apart(depth + 1, P[i], Q[i]) /\ P[i] # Q[i]
    <3> DEFINE head == IF i = 1 THEN <<>> ELSE << NewLine >>
               line == << ElementLine(depth, fd, i, Len(v)) >>
               xi == ShownValue(X, fd, v[i])
               yi == ShownValue(Y, fd, w[i])
               si == s(i)
               ti == t(i)
    <3>1. i \in 1 .. Len(w)
      BY <1>8
    <3>2. Tells(depth + 1, si, ti, xi, yi)
      BY <3>1, ElementTells
    <3>3. P[i] = (head \o line) \o si
      BY DEF ElementPieces
    <3>4. Q[i] = (head \o line) \o ti
      BY <1>8, <3>1 DEF ElementPieces
    <3>5. IsList(head) /\ IsList(line)
      BY TupleLists
    <3> HIDE DEF head, line, xi, yi, si, ti, P, Q
    <3>6. IsList(head \o line) /\ IsList(si) /\ IsList(ti)
      BY <3>2, <3>5, ConcatLists DEF Tells
    <3>7. xi = yi => P[i] = Q[i]
      BY <3>2, <3>3, <3>4 DEF Tells
    <3>8. xi # yi => Apart(depth + 1, P[i], Q[i])
      BY <3>2, <3>3, <3>4, <3>6, ApartBehind DEF Tells
    <3>9. Apart(depth + 1, P[i], Q[i]) => P[i] # Q[i]
      BY ApartSame
    <3> QED
      BY <3>7, <3>8, <3>9 DEF xi, yi
  <2>2. \A i \in 2 .. Len(v) : Leads(depth + 1, P[i], depth + 1)
    <3>1. \A i \in 2 .. Len(v) : i \in 1 .. Len(v) /\ i # 1
      BY <1>1
    <3> QED
      BY <1>2, <3>1, ElementPieceIs
  <2>3. \A i \in 2 .. Len(v) : Leads(depth + 1, Q[i], depth + 1)
    <3>1. \A i \in 2 .. Len(v) : i \in 1 .. Len(w) /\ i # 1
      BY <1>1, <1>8
    <3> QED
      BY <1>3, <3>1, ElementPieceIs
  <2>4. /\ x = [i \in 1 .. Len(v) |-> ShownValue(X, fd, v[i])]
        /\ y = [i \in 1 .. Len(v) |-> ShownValue(Y, fd, w[i])]
    BY <1>1, <1>8 DEF RepeatedShown
  <2>5. x = y => \A i \in 1 .. Len(v) : ShownValue(X, fd, v[i]) = ShownValue(Y, fd, w[i])
    BY <2>4
  <2>6. x # y => \E i \in 1 .. Len(v) : ShownValue(X, fd, v[i]) # ShownValue(Y, fd, w[i])
    BY <2>4
  <2> HIDE DEF a, b, x, y, P, Q
  <2>7. \A i \in 1 .. Len(v) : P[i] = Q[i] \/ Apart(depth + 1, P[i], Q[i])
    BY <2>1
  <2>8. x = y => \A i \in 1 .. Len(v) : P[i] = Q[i]
    BY <2>1, <2>5
  <2>9. x # y => \E i \in 1 .. Len(v) : P[i] # Q[i]
    BY <2>1, <2>6
  <2>10. ListOfLists(P) /\ ListOfLists(Q) /\ Len(P) = Len(v) /\ Len(Q) = Len(v)
    BY <1>4, <1>5, <1>8
  <2>11. Tells(depth + 1, FlattenSeq(P), FlattenSeq(Q), x, y)
    BY ONLY <2>2, <2>3, <2>7, <2>8, <2>9, <2>10, PiecesTell
  <2>12. Tells(depth + 1, a, b, x, y)
    BY <1>4, <1>5, <1>8, <2>11
  <2> QED
    BY <2>12 DEF a, b, x, y
<1> QED
  BY <1>6, <1>7, <1>8

----------------------------------------------------------------------------
(* Maps in the simple format.                                              *)

\* The members and the keys of a list of entries.
Entries(v) == {v[i] : i \in 1 .. Len(v)}
Keys(v) == {v[i]["key"] : i \in 1 .. Len(v)}

Distinct(v) == \A i, j \in 1 .. Len(v) : v[i]["key"] = v[j]["key"] => i = j

Placed(fd, v) == \A i \in 1 .. Len(v) : /\ fd.kind # "string" => v[i]["key"] \in Int
                                        /\ fd.kind = "string" => v[i]["key"] \in DOMAIN StringPlace

\* The key of a place.
KeyAt(fd, K, i) == CHOOSE k \in K : Cardinality({l \in K : PlaceOf(fd, l) < PlaceOf(fd, k)}) = i - 1

LEMMA KeysCounted ==
  ASSUME NEW v, IsList(v), Distinct(v)
  PROVE  IsFiniteSet(Keys(v)) /\ Cardinality(Keys(v)) = Len(v)
<1> DEFINE f == [i \in 1 .. Len(v) |-> v[i]["key"]]
<1>1. Len(v) \in Nat
  BY ListIs
<1>2. \A i, j \in 1 .. Len(v) : f[i] = f[j] => i = j
  BY DEF Distinct
<1>3. /\ \A i \in 1 .. Len(v) : f[i] \in Keys(v)
      /\ \A k \in Keys(v) : \E i \in 1 .. Len(v) : f[i] = k
  BY DEF Keys
<1> HIDE DEF f
<1> QED
  BY <1>1, <1>2, <1>3, Counted

\* The entries in the order of their keys.
LEMMA Sorted ==
  ASSUME NEW fd, NEW v, IsList(v), Distinct(v), Placed(fd, v)
  PROVE  LET s == InOrder(fd, v)
         IN  /\ DOMAIN s = 1 .. Len(v)
             /\ \A i \in 1 .. Len(v) : s[i] \in Entries(v) /\ s[i]["key"] = KeyAt(fd, Keys(v), i)
             /\ \A e \in Entries(v) : \E i \in 1 .. Len(v) : s[i] = e
<1> DEFINE n == Len(v)
           E == Entries(v)
           K == Keys(v)
           place == [k \in K |-> PlaceOf(fd, k)]
           Before(k) == {l \in K : PlaceOf(fd, l) < PlaceOf(fd, k)}
           s == InOrder(fd, v)
<1>1. n \in Nat /\ DOMAIN v = 1 .. n
  BY ListIs
<1>2. IsFiniteSet(K) /\ Cardinality(K) = n
  BY KeysCounted
<1>3. \A k \in K : place[k] \in Int
  BY PlacesAssumption DEF Placed, PlaceOf, Keys
<1>4. \A k, l \in K : place[k] = place[l] => k = l
  BY PlacesAssumption DEF Placed, PlaceOf, Keys
<1>5. ASSUME NEW k \in K PROVE Rank(K, place, k) = Cardinality(Before(k))
  BY DEF Rank
<1>6. K = {e["key"] : e \in E}
  BY DEF Entries, Keys
<1>7. \A e, f \in E : e["key"] = f["key"] => e = f
  BY DEF Entries, Distinct
<1>8. s = [i \in 1 .. n |-> CHOOSE e \in E : Cardinality(Before(e["key"])) = i - 1]
  <2>1. E = {v[i] : i \in DOMAIN v}
    BY <1>1 DEF Entries
  <2> QED
    BY <1>1, <1>6, <2>1 DEF InOrder
<1> HIDE DEF place, K, E, n, s
<1>9. /\ \A k \in K : Rank(K, place, k) \in 0 .. n - 1
      /\ \A k, l \in K : Rank(K, place, k) = Rank(K, place, l) => k = l
      /\ \A r \in 0 .. n - 1 : \E k \in K : Rank(K, place, k) = r
  BY <1>2, <1>3, <1>4, Ranks
<1>10. /\ \A k \in K : Cardinality(Before(k)) \in 0 .. n - 1
       /\ \A k, l \in K : Cardinality(Before(k)) = Cardinality(Before(l)) => k = l
       /\ \A r \in 0 .. n - 1 : \E k \in K : Cardinality(Before(k)) = r
  <2> HIDE DEF Before
  <2> QED
    BY <1>5, <1>9
<1>11. ASSUME NEW i \in 1 .. n
       PROVE  /\ s[i] \in E /\ Cardinality(Before(s[i]["key"])) = i - 1
              /\ s[i]["key"] = KeyAt(fd, K, i)
  <2>1. i - 1 \in 0 .. n - 1
    BY <1>1
  <2>2. PICK k \in K : Cardinality(Before(k)) = i - 1
    BY <1>10, <2>1
  <2>3. PICK e \in E : k = e["key"]
    BY <1>6
  <2>4. s[i] = CHOOSE f \in E : Cardinality(Before(f["key"])) = i - 1
    BY <1>8
  <2>5. KeyAt(fd, K, i) = CHOOSE l \in K : Cardinality(Before(l)) = i - 1
    BY DEF KeyAt
  <2> HIDE DEF Before
  <2>6. s[i] \in E /\ Cardinality(Before(s[i]["key"])) = i - 1
    BY <2>2, <2>3, <2>4
  <2>7. KeyAt(fd, K, i) \in K /\ Cardinality(Before(KeyAt(fd, K, i))) = i - 1
    BY <2>2, <2>5
  <2>8. s[i]["key"] \in K
    BY <1>6, <2>6
  <2> QED
    BY <1>10, <2>6, <2>7, <2>8
<1>12. ASSUME NEW e \in E PROVE \E i \in 1 .. n : s[i] = e
  <2>1. e["key"] \in K
    BY <1>6
  <2> DEFINE r == Cardinality(Before(e["key"]))
  <2>2. r \in 0 .. n - 1
    BY <1>10, <2>1
  <2> HIDE DEF r
  <2>3. r + 1 \in 1 .. n /\ (r + 1) - 1 = r
    BY <1>1, <2>2
  <2> HIDE DEF Before
  <2>4. s[r + 1] \in E /\ Cardinality(Before(s[r + 1]["key"])) = r
    BY <1>11, <2>3
  <2>5. s[r + 1]["key"] \in K /\ Cardinality(Before(e["key"])) = r
    BY <1>6, <2>4 DEF r
  <2>6. s[r + 1]["key"] = e["key"]
    BY <1>10, <2>1, <2>4, <2>5
  <2> QED
    BY <1>7, <2>3, <2>4, <2>6
<1>13. DOMAIN s = 1 .. n
  BY <1>8
<1> QED
  BY <1>11, <1>12, <1>13 DEF s, E, K, n

\* What is shown of an entry; signed values behind unsigned keys are not.
EntryShown(sub, type, e) ==
  <<e["key"], IF MessageTypes[type][1].kind = "uint" /\ MessageTypes[type][2].kind = "int" THEN {}
              ELSE ShownValue(sub, MessageTypes[type][2], e["value"])>>

\* The fields of the entries of maps in the simple format.
SimpleEntries(type) ==
  /\ MessageTypes[type][1].kind \in {"int", "uint", "string"}
  /\ MessageTypes[type][2].kind \in Kinds \ {"message"}
  /\ MessageTypes[type][2].name = "value" /\ ~IsRepeated(MessageTypes[type][2])

EntryFits(type, e) == Legible(MessageTypes[type][1], e["key"]) /\ Legible(MessageTypes[type][2], e["value"])

\* The text of the value of an entry tells what is shown of it.
EntryMode(type) == IF MessageTypes[type][1].kind = "uint" THEN "dec" ELSE "default"

LEMMA EntryValueTells ==
  ASSUME NEW type, SimpleEntries(type), NEW depth \in Nat, NEW e, NEW f,
         EntryFits(type, e), EntryFits(type, f),
         NEW A, NEW B, NEW X, NEW Y
  PROVE  LET fd == MessageTypes[type][2]
         IN  Tells(depth + 1, FieldValueToString(A, e, fd, depth, EntryMode(type)),
                   FieldValueToString(B, f, fd, depth, EntryMode(type)),
                   EntryShown(X, type, e)[2], EntryShown(Y, type, f)[2])
<1> DEFINE fd == MessageTypes[type][2]
           mod == EntryMode(type)
           v == e["value"]
           w == f["value"]
           a == ScalarToString(fd, v, depth, mod)
           b == ScalarToString(fd, w, depth, mod)
           Hidden == MessageTypes[type][1].kind = "uint" /\ fd.kind = "int"
<1>1. fd.name = "value" /\ ~IsRepeated(fd) /\ fd.kind \in Kinds \ {"message"}
  BY DEF SimpleEntries
<1>2. /\ v # Unset /\ w # Unset /\ (fd.kind = "bytes" => IsList(v) /\ IsList(w))
      /\ fd.kind = "string" => StringFits(v) /\ StringFits(w)
  BY DEF EntryFits, Legible, ValueFits, StringFits
<1>3. FieldValueToString(A, e, fd, depth, mod) = a /\ FieldValueToString(B, f, fd, depth, mod) = b
  BY <1>1, <1>2 DEF FieldValueToString, HasField
<1>4. CASE Hidden
  <2>1. a = <<>> /\ b = <<>>
    BY <1>4 DEF ScalarToString, StringFromInt, EntryMode
  <2>2. EntryShown(X, type, e)[2] = EntryShown(Y, type, f)[2]
    BY <1>4 DEF EntryShown
  <2> HIDE DEF a, b
  <2> QED
    BY <1>3, <2>1, <2>2, TupleLists DEF Tells
<1>5. CASE ~Hidden
  <2>1. mod \in {"default", "dec"} /\ (fd.kind = "int" => mod # "dec")
    BY <1>5 DEF EntryMode
  <2>2. EntryShown(X, type, e)[2] = {ShownScalar(fd, v)} /\ EntryShown(Y, type, f)[2] = {ShownScalar(fd, w)}
    BY <1>1, <1>2, <1>5 DEF EntryShown, ShownValue, ShownScalar
  <2> HIDE DEF mod, fd, v, w
  <2>3. Tells(Anything, a, b, ShownScalar(fd, v), ShownScalar(fd, w))
    BY <1>1, <1>2, <2>1, ScalarTells
  <2>4. Tells(depth + 1, a, b, ShownScalar(fd, v), ShownScalar(fd, w))
    BY <2>3, ApartBelow DEF Tells
  <2> HIDE DEF a, b
  <2>5. Tells(depth + 1, a, b, {ShownScalar(fd, v)}, {ShownScalar(fd, w)})
    BY <2>4 DEF Tells
  <2> QED
    BY <1>3, <2>2, <2>5 DEF mod, fd
<1> QED
  BY <1>4, <1>5

\* The text of an entry tells what is shown of it.
LEMMA EntryTells ==
  ASSUME NEW type, SimpleEntries(type), NEW depth \in Nat, NEW e, NEW f,
         EntryFits(type, e), EntryFits(type, f),
         NEW A, NEW B, NEW X, NEW Y
  PROVE  Tells(depth + 1, MapEntry(A, type, e, depth), MapEntry(B, type, f, depth),
               EntryShown(X, type, e), EntryShown(Y, type, f))
<1> DEFINE key == MessageTypes[type][1]
           fd == MessageTypes[type][2]
           head == << NewLine, EntryLine(depth + 1) >>
           arrow == << <<"=>">> >>
           k == MapKey(key, e["key"])
           l == MapKey(key, f["key"])
           v == FieldValueToString(A, e, fd, depth, EntryMode(type))
           w == FieldValueToString(B, f, fd, depth, EntryMode(type))
           x == EntryShown(X, type, e)
           y == EntryShown(Y, type, f)
           a == MapEntry(A, type, e, depth)
           b == MapEntry(B, type, f, depth)
<1>1. a = ((head \o k) \o arrow) \o v /\ b = ((head \o l) \o arrow) \o w
  BY DEF MapEntry, EntryMode
<1>2. Tells(Anything, k, l, e["key"], f["key"])
  <2>1. key.kind = "string" => StringFits(e["key"]) /\ StringFits(f["key"])
    BY DEF EntryFits, Legible, ValueFits, StringFits
  <2> QED
    BY <2>1, KeyTells DEF SimpleEntries
<1>3. Tells(depth + 1, v, w, x[2], y[2])
  BY EntryValueTells
<1>4. x[1] = e["key"] /\ y[1] = f["key"] /\ (x = y <=> x[1] = y[1] /\ x[2] = y[2])
  BY DEF EntryShown
<1>5. IsList(head) /\ IsList(arrow)
  BY TupleLists
<1> HIDE DEF head, arrow, k, l, v, w, x, y, a, b
<1>6. IsList(k) /\ IsList(l) /\ IsList(v) /\ IsList(w)
  BY <1>2, <1>3 DEF Tells
<1>7. IsList(head \o k) /\ IsList((head \o k) \o arrow) /\ IsList(head \o l) /\ IsList((head \o l) \o arrow)
  BY <1>5, <1>6, ConcatLists
<1>8. IsList(a) /\ IsList(b)
  BY <1>1, <1>6, <1>7, ConcatLists
<1>9. ASSUME x = y PROVE a = b
  <2>1. k = l /\ v = w
    BY <1>2, <1>3, <1>4, <1>9 DEF Tells
  <2> QED
    BY <1>1, <2>1
<1>10. ASSUME x[1] # y[1] PROVE Apart(depth + 1, a, b)
  <2>1. Apart(Anything, k, l)
    BY <1>2, <1>4, <1>10 DEF Tells
  <2>2. Apart(Anything, head \o k, head \o l)
    BY <1>5, <1>6, <2>1, ApartBehind
  <2> DEFINE p == head \o k
             q == head \o l
             s == arrow \o v
             t == arrow \o w
  <2>3. IsList(p) /\ IsList(q) /\ IsList(s) /\ IsList(t)
    BY <1>5, <1>6, <1>7, ConcatLists
  <2>4. a = p \o s
    <3>2. IsList(p) /\ IsList(arrow) /\ IsList(v)
      BY <1>5, <1>6, <2>3
    <3> HIDE DEF p
    <3>1. (p \o arrow) \o v = p \o (arrow \o v)
      BY ONLY <3>2, ConcatThree
    <3> QED
      BY <1>1, <3>1 DEF p
  <2>5. b = q \o t
    <3>2. IsList(q) /\ IsList(arrow) /\ IsList(w)
      BY <1>5, <1>6, <2>3
    <3> HIDE DEF q
    <3>1. (q \o arrow) \o w = q \o (arrow \o w)
      BY ONLY <3>2, ConcatThree
    <3> QED
      BY <1>1, <3>1 DEF q
  <2> HIDE DEF p, q, s, t
  <2>6. Leads(depth + 1, s, Anything) /\ Leads(depth + 1, t, Anything)
    BY <2>3, ConcatLists DEF Leads, Follows
  <2>7. Apart(Anything, p, q)
    BY <2>2 DEF p, q
  <2>8. Apart(depth + 1, p \o s, q \o t)
    BY <2>3, <2>6, <2>7, ApartBefore
  <2> QED
    BY <2>4, <2>5, <2>8
<1>11. ASSUME x[1] = y[1], x[2] # y[2] PROVE Apart(depth + 1, a, b)
  <2>1. k = l
    BY <1>2, <1>4, <1>11 DEF Tells
  <2>2. Apart(depth + 1, v, w)
    BY <1>3, <1>11 DEF Tells
  <2> DEFINE p == (head \o k) \o arrow
  <2>3. IsList(p) /\ a = p \o v /\ b = p \o w
    BY <1>1, <1>7, <2>1
  <2> HIDE DEF p
  <2> QED
    BY <1>6, <2>2, <2>3, ApartBehind
<1>12. Tells(depth + 1, a, b, x, y)
  BY <1>4, <1>8, <1>9, <1>10, <1>11 DEF Tells
<1> QED
  BY <1>12 DEF a, b, x, y

\* An entry is on a line of its own.
LEMMA EntryLeads ==
  ASSUME NEW type, NEW depth \in Nat, NEW e, NEW sub,
         IsList(MapKey(MessageTypes[type][1], e["key"])),
         IsList(FieldValueToString(sub, e, MessageTypes[type][2], depth, EntryMode(type)))
  PROVE  Leads(depth + 1, MapEntry(sub, type, e, depth), depth + 1)
<1> DEFINE line == EntryLine(depth + 1)
           arrow == << <<"=>">> >>
           k == MapKey(MessageTypes[type][1], e["key"])
           v == FieldValueToString(sub, e, MessageTypes[type][2], depth, EntryMode(type))
           a == MapEntry(sub, type, e, depth)
<1>1. a = ((<<NewLine, line>> \o k) \o arrow) \o v
  BY DEF MapEntry, EntryMode
<1>2. ~IsDeep(line, depth + 1)
  BY DEF IsDeep, EntryLine
<1> HIDE DEF line
<1>3. <<NewLine, line>> = <<NewLine>> \o <<line>>
  OBVIOUS
<1>4. IsList(arrow) /\ IsList(<<NewLine>>) /\ IsList(<<line>>) /\ Len(<<line>>) > 0 /\ <<line>>[1] = line
  BY TupleLists
<1> HIDE DEF arrow, k, v, a
<1> DEFINE h == <<NewLine>>
           g == <<line>>
<1>18. a = (((h \o g) \o k) \o arrow) \o v
  BY <1>1, <1>3
<1>5. IsList(h) /\ IsList(g) /\ IsList(k) /\ IsList(v) /\ IsList(arrow)
  BY <1>4 DEF k, v
<1>6. Len(g) > 0 /\ g[1] = line
  BY <1>4
<1> HIDE DEF h, g
<1>7. (h \o g) \o k = h \o (g \o k)
  <2>1. IsList(h) /\ IsList(g) /\ IsList(k)
    BY <1>5
  <2> QED
    BY ONLY <2>1, ConcatThree
<1>8. IsList(g \o k) /\ Len(g \o k) > 0 /\ (g \o k)[1] = g[1]
  BY ONLY <1>5, <1>6, ConcatFirst
<1> DEFINE gk == g \o k
<1> HIDE DEF gk
<1>9. IsList(gk) /\ Len(gk) > 0 /\ gk[1] = line
  BY <1>6, <1>8 DEF gk
<1>10. (h \o gk) \o arrow = h \o (gk \o arrow)
  <2>1. IsList(h) /\ IsList(gk) /\ IsList(arrow)
    BY <1>5, <1>9
  <2> QED
    BY ONLY <2>1, ConcatThree
<1>11. IsList(gk \o arrow) /\ Len(gk \o arrow) > 0 /\ (gk \o arrow)[1] = gk[1]
  BY ONLY <1>5, <1>9, ConcatFirst
<1> DEFINE gka == gk \o arrow
<1> HIDE DEF gka
<1>12. IsList(gka) /\ Len(gka) > 0 /\ gka[1] = line
  BY <1>9, <1>11 DEF gka
<1>13. (h \o gka) \o v = h \o (gka \o v)
  <2>1. IsList(h) /\ IsList(gka) /\ IsList(v)
    BY <1>5, <1>12
  <2> QED
    BY ONLY <2>1, ConcatThree
<1>14. IsList(gka \o v) /\ Len(gka \o v) > 0 /\ (gka \o v)[1] = gka[1]
  BY ONLY <1>5, <1>12, ConcatFirst
<1> DEFINE q == gka \o v
<1> HIDE DEF q
<1>15. IsList(q) /\ q[1] = line
  BY <1>12, <1>14 DEF q
<1>16. a = h \o q
  BY <1>18, <1>7, <1>10, <1>13 DEF gk, gka, q
<1>17. Leads(depth + 1, <<NewLine>> \o q, depth + 1)
  BY <1>2, <1>15, LineLeads
<1> QED
  BY <1>16, <1>17 DEF h, a

\* The text of a map in the simple format, also when it is empty.
MapPieces(sub, fd, v, depth) ==
  [i \in 1 .. Len(v) |-> MapEntry(sub, fd.of, InOrder(MessageTypes[fd.of][1], v)[i], depth)]

MapText(sub, fd, v, depth) ==
  (IF v = <<>> THEN << ElementLine(depth, fd, 0, 0) >> ELSE <<>>) \o SimpleMap(sub, fd, v, depth)

LEMMA MapTextIs ==
  ASSUME NEW sub, NEW fd, NEW v, IsList(v), NEW depth
  PROVE  LET kind == MessageTypes[fd.of][1].kind
             text == MapText(sub, fd, v, depth)
         IN  /\ v = <<>> => text = << ElementLine(depth, fd, 0, 0) >>
             /\ v # <<>> /\ kind = "bool" => text = <<>>
             /\ v # <<>> /\ kind = "fixed" => text = <<Abort>>
             /\ v # <<>> /\ kind \notin {"bool", "fixed"} /\ ListOfLists(MapPieces(sub, fd, v, depth)) =>
                  text = << MapTitle(depth, fd, Len(v)) >> \o FlattenSeq(MapPieces(sub, fd, v, depth))
<1> DEFINE kind == MessageTypes[fd.of][1].kind
           text == MapText(sub, fd, v, depth)
           P == MapPieces(sub, fd, v, depth)
           empty == IF v = <<>> THEN << ElementLine(depth, fd, 0, 0) >> ELSE <<>>
           map == SimpleMap(sub, fd, v, depth)
           title == << MapTitle(depth, fd, Len(v)) >>
<1>1. text = empty \o map
  BY DEF MapText
<1>2. v = <<>> => map = <<>>
  BY DEF SimpleMap
<1>3. v # <<>> /\ kind = "bool" => map = <<>>
  BY DEF SimpleMap
<1>4. v # <<>> /\ kind = "fixed" => map = <<Abort>>
  BY DEF SimpleMap
<1>5. P = [i \in DOMAIN v |-> MapEntry(sub, fd.of, InOrder(MessageTypes[fd.of][1], v)[i], depth)]
  BY ListIs DEF MapPieces
<1>6. v # <<>> /\ kind \notin {"bool", "fixed"} => map = title \o FlattenSeq(P)
  BY <1>5 DEF SimpleMap
<1>7. IsList(title) /\ IsList(<<>>) /\ IsList(<<Abort>>) /\ IsList(<< ElementLine(depth, fd, 0, 0) >>)
  BY TupleLists
<1>8. /\ v = <<>> => empty = << ElementLine(depth, fd, 0, 0) >>
      /\ v # <<>> => empty = <<>>
  OBVIOUS
<1> HIDE DEF empty, map, title, P, text, kind
<1>9. ListOfLists(P) => IsList(title \o FlattenSeq(P))
  BY <1>7, FlattenList, ConcatLists
<1>10. v = <<>> => text = << ElementLine(depth, fd, 0, 0) >>
  BY <1>1, <1>2, <1>7, <1>8, ConcatEmpty
<1>11. v # <<>> /\ kind = "bool" => text = <<>>
  BY <1>1, <1>3, <1>7, <1>8, ConcatEmpty
<1>12. v # <<>> /\ kind = "fixed" => text = <<Abort>>
  BY <1>1, <1>4, <1>7, <1>8, ConcatEmpty
<1>13. v # <<>> /\ kind \notin {"bool", "fixed"} /\ ListOfLists(P) => text = title \o FlattenSeq(P)
  BY <1>1, <1>6, <1>8, <1>9, ConcatEmpty
<1> QED
  BY <1>10, <1>11, <1>12, <1>13 DEF kind, text, P, title

\* What is known of the entries in a map.
MapFits(fd, v) ==
  /\ IsList(v) /\ Distinct(v)
  /\ MessageTypes[fd.of][1].kind \in {"int", "uint", "string"} => Placed(MessageTypes[fd.of][1], v)
  /\ \A e \in Entries(v) : EntryFits(fd.of, e)

\* The pieces of the text of a map.
LEMMA MapPiecesAre ==
  ASSUME NEW sub, NEW fd, NEW v, MapFits(fd, v), SimpleEntries(fd.of), NEW depth \in Nat
  PROVE  /\ ListOfLists(MapPieces(sub, fd, v, depth)) /\ Len(MapPieces(sub, fd, v, depth)) = Len(v)
         /\ \A i \in 1 .. Len(v) : Leads(depth + 1, MapPieces(sub, fd, v, depth)[i], depth + 1)
<1> DEFINE P == MapPieces(sub, fd, v, depth)
           key == MessageTypes[fd.of][1]
           s == InOrder(key, v)
           text(e) == MapEntry(sub, fd.of, e, depth)
<1>1. Len(v) \in Nat
  BY ListIs DEF MapFits
<1>2. \A i \in 1 .. Len(v) : s[i] \in Entries(v)
  BY Sorted DEF MapFits, SimpleEntries
<1>3. ASSUME NEW e \in Entries(v) PROVE IsList(text(e)) /\ Leads(depth + 1, text(e), depth + 1)
  <2>1. EntryFits(fd.of, e)
    BY DEF MapFits
  <2>2. IsList(text(e))
    BY <2>1, EntryTells DEF Tells
  <2>3. IsList(FieldValueToString(sub, e, MessageTypes[fd.of][2], depth, EntryMode(fd.of)))
    BY <2>1, EntryValueTells DEF Tells
  <2>4. IsList(MapKey(key, e["key"]))
    <3>1. key.kind = "string" => StringFits(e["key"])
      BY <2>1 DEF EntryFits, Legible, ValueFits, StringFits
    <3> QED
      BY <3>1, KeyTells DEF Tells, SimpleEntries
  <2>5. Leads(depth + 1, text(e), depth + 1)
    BY <2>3, <2>4, EntryLeads
  <2> QED
    BY <2>2, <2>5
<1>4. P = [i \in 1 .. Len(v) |-> text(s[i])]
  BY DEF MapPieces
<1> HIDE DEF P, s, text
<1>5. \A i \in 1 .. Len(v) : P[i] = text(s[i])
  BY <1>4
<1>6. P = [i \in 1 .. Len(v) |-> P[i]]
  BY <1>4
<1>7. IsList(P) /\ Len(P) = Len(v)
  BY <1>1, <1>6, FunctionList
<1>8. \A i \in 1 .. Len(v) : IsList(P[i]) /\ Leads(depth + 1, P[i], depth + 1)
  BY <1>2, <1>3, <1>5
<1>9. ListOfLists(P) /\ Len(P) = Len(v) /\ \A i \in 1 .. Len(v) : Leads(depth + 1, P[i], depth + 1)
  BY <1>7, <1>8 DEF ListOfLists
<1> QED
  BY <1>9 DEF P

\* What is shown of the entries, whatever their order.
EntriesShown(sub, fd, v) == {EntryShown(sub, fd.of, e) : e \in Entries(v)}

\* Entries that are shown alike have the same keys, and come in the same order.
LEMMA SameEntries ==
  ASSUME NEW fd, NEW v, NEW w, MapFits(fd, v), MapFits(fd, w), SimpleEntries(fd.of), NEW X, NEW Y
  PROVE  LET s == InOrder(MessageTypes[fd.of][1], v)
             t == InOrder(MessageTypes[fd.of][1], w)
         IN  /\ EntriesShown(X, fd, v) = EntriesShown(Y, fd, w) =>
                  /\ Len(v) = Len(w)
                  /\ \A i \in 1 .. Len(v) : EntryShown(X, fd.of, s[i]) = EntryShown(Y, fd.of, t[i])
             /\ EntriesShown(X, fd, v) # EntriesShown(Y, fd, w) /\ Len(v) = Len(w) =>
                  \E i \in 1 .. Len(v) : EntryShown(X, fd.of, s[i]) # EntryShown(Y, fd.of, t[i])
<1> DEFINE key == MessageTypes[fd.of][1]
           s == InOrder(key, v)
           t == InOrder(key, w)
           E == Entries(v)
           F == Entries(w)
           K == Keys(v)
           L == Keys(w)
           f(e) == EntryShown(X, fd.of, e)
           g(e) == EntryShown(Y, fd.of, e)
           x == EntriesShown(X, fd, v)
           y == EntriesShown(Y, fd, w)
<1>1. /\ \A i \in 1 .. Len(v) : s[i] \in E /\ s[i]["key"] = KeyAt(key, K, i)
      /\ \A e \in E : \E i \in 1 .. Len(v) : s[i] = e
  BY Sorted DEF MapFits, SimpleEntries
<1>2. /\ \A i \in 1 .. Len(w) : t[i] \in F /\ t[i]["key"] = KeyAt(key, L, i)
      /\ \A e \in F : \E i \in 1 .. Len(w) : t[i] = e
  BY Sorted DEF MapFits, SimpleEntries
<1>3. Len(v) = Cardinality(K) /\ Len(w) = Cardinality(L)
  BY KeysCounted DEF MapFits
<1>4. K = {e["key"] : e \in E} /\ L = {e["key"] : e \in F}
  BY DEF Keys, Entries
<1>5. \A c, d \in F : c["key"] = d["key"] => c = d
  BY DEF MapFits, Distinct, Entries
<1>6. \A e : f(e)[1] = e["key"] /\ g(e)[1] = e["key"]
  BY DEF EntryShown
<1>7. x = {f(e) : e \in E} /\ y = {g(e) : e \in F}
  BY DEF EntriesShown
<1> HIDE DEF key, s, t, E, F, K, L, f, g, x, y
<1>8. K = {z[1] : z \in x} /\ L = {z[1] : z \in y}
  <2>1. \A k \in K : \E z \in x : k = z[1]
    BY <1>4, <1>6, <1>7
  <2>2. \A z \in x : z[1] \in K
    BY <1>4, <1>6, <1>7
  <2>3. \A k \in L : \E z \in y : k = z[1]
    BY <1>4, <1>6, <1>7
  <2>4. \A z \in y : z[1] \in L
    BY <1>4, <1>6, <1>7
  <2> QED
    BY <2>1, <2>2, <2>3, <2>4
<1>9. ASSUME x = y PROVE Len(v) = Len(w) /\ \A i \in 1 .. Len(v) : f(s[i]) = g(t[i])
  <2>1. K = L
    BY <1>8, <1>9
  <2>2. Len(v) = Len(w)
    BY <1>3, <2>1
  <2> SUFFICES ASSUME NEW i \in 1 .. Len(v) PROVE f(s[i]) = g(t[i])
    BY <2>2
  <2>3. s[i] \in E /\ t[i] \in F /\ s[i]["key"] = t[i]["key"]
    BY <1>1, <1>2, <2>1, <2>2
  <2>4. f(s[i]) \in y
    BY <1>7, <1>9, <2>3
  <2>5. PICK d \in F : f(s[i]) = g(d)
    BY <1>7, <2>4
  <2>6. d["key"] = t[i]["key"]
    BY <1>6, <2>3, <2>5
  <2> QED
    BY <1>5, <2>3, <2>5, <2>6
<1>10. ASSUME Len(v) = Len(w), \A i \in 1 .. Len(v) : f(s[i]) = g(t[i]) PROVE x = y
  <2>1. ASSUME NEW z \in x PROVE z \in y
    <3>1. PICK e \in E : z = f(e)
      BY <1>7
    <3>2. PICK i \in 1 .. Len(v) : s[i] = e
      BY <1>1
    <3>3. z = g(t[i]) /\ t[i] \in F
      BY <1>2, <1>10, <3>1, <3>2
    <3> QED
      BY <1>7, <3>3
  <2>2. ASSUME NEW z \in y PROVE z \in x
    <3>1. PICK e \in F : z = g(e)
      BY <1>7
    <3>2. PICK i \in 1 .. Len(w) : t[i] = e
      BY <1>2
    <3>3. z = f(s[i]) /\ s[i] \in E
      BY <1>1, <1>10, <3>1, <3>2
    <3> QED
      BY <1>7, <3>3
  <2> QED
    BY <2>1, <2>2
<1> QED
  BY <1>9, <1>10 DEF x, y, s, t, f, g, key

\* The text of a map with entries that are printed tells what is shown of them.
LEMMA SimpleMapTells ==
  ASSUME NEW fd, NEW v, NEW w, MapFits(fd, v), MapFits(fd, w), SimpleEntries(fd.of), NEW depth \in Nat,
         NEW A, NEW B, NEW X, NEW Y
  PROVE  Tells(depth + 1, MapText(A, fd, v, depth), MapText(B, fd, w, depth),
               EntriesShown(X, fd, v), EntriesShown(Y, fd, w))
<1> DEFINE a == MapText(A, fd, v, depth)
           b == MapText(B, fd, w, depth)
           P == MapPieces(A, fd, v, depth)
           Q == MapPieces(B, fd, w, depth)
           p == FlattenSeq(P)
           q == FlattenSeq(Q)
           x == EntriesShown(X, fd, v)
           y == EntriesShown(Y, fd, w)
           none == ElementLine(depth, fd, 0, 0)
           title(n) == MapTitle(depth, fd, n)
           s == InOrder(MessageTypes[fd.of][1], v)
           t == InOrder(MessageTypes[fd.of][1], w)
<1>1. /\ ListOfLists(P) /\ Len(P) = Len(v)
      /\ \A i \in 1 .. Len(v) : Leads(depth + 1, P[i], depth + 1)
  BY MapPiecesAre
<1>2. /\ ListOfLists(Q) /\ Len(Q) = Len(w)
      /\ \A i \in 1 .. Len(w) : Leads(depth + 1, Q[i], depth + 1)
  BY MapPiecesAre
<1>3. IsList(v) /\ IsList(w)
  BY DEF MapFits
<1>4. MessageTypes[fd.of][1].kind \notin {"bool", "fixed"}
  BY DEF SimpleEntries
<1>5. /\ v = <<>> => a = <<none>>
      /\ v # <<>> => a = <<title(Len(v))>> \o p
  BY <1>1, <1>3, <1>4, MapTextIs
<1>6. /\ w = <<>> => b = <<none>>
      /\ w # <<>> => b = <<title(Len(w))>> \o q
  BY <1>2, <1>3, <1>4, MapTextIs
<1>7. /\ Len(v) \in Nat /\ Len(w) \in Nat
      /\ (Len(v) = 0 <=> v = <<>>) /\ (Len(w) = 0 <=> w = <<>>)
  BY <1>3, ListIs, SameList, TupleLists
<1>8. IsList(p) /\ IsList(q)
  BY <1>1, <1>2, FlattenList
<1>9. none[1] = "element" /\ \A n : title(n)[1] = "map" /\ title(n)[4] = n
  BY DEF ElementLine, MapTitle
<1>10. /\ x = y => Len(v) = Len(w) /\ \A i \in 1 .. Len(v) : EntryShown(X, fd.of, s[i]) = EntryShown(Y, fd.of, t[i])
       /\ x # y /\ Len(v) = Len(w) =>
            \E i \in 1 .. Len(v) : EntryShown(X, fd.of, s[i]) # EntryShown(Y, fd.of, t[i])
  BY SameEntries
<1>11. ASSUME NEW i \in 1 .. Len(v), Len(v) = Len(w)
       PROVE  Tells(depth + 1, P[i], Q[i], EntryShown(X, fd.of, s[i]), EntryShown(Y, fd.of, t[i]))
  <2>1. s[i] \in Entries(v) /\ t[i] \in Entries(w)
    BY <1>11, Sorted DEF MapFits, SimpleEntries
  <2>2. P[i] = MapEntry(A, fd.of, s[i], depth) /\ Q[i] = MapEntry(B, fd.of, t[i], depth)
    BY <1>11 DEF MapPieces
  <2>3. EntryFits(fd.of, s[i]) /\ EntryFits(fd.of, t[i])
    BY <2>1 DEF MapFits
  <2> QED
    BY <2>2, <2>3, EntryTells
<1> HIDE DEF a, b, P, Q, p, q, x, y, none, title
<1>12. /\ IsList(<<none>>) /\ Len(<<none>>) = 1 /\ <<none>>[1] = none
       /\ \A n : IsList(<<title(n)>>) /\ Len(<<title(n)>>) = 1 /\ <<title(n)>>[1] = title(n)
  BY TupleLists
<1>13. ASSUME v # <<>> PROVE IsList(a) /\ Len(a) > 0 /\ a[1] = title(Len(v))
  <2> DEFINE h == <<title(Len(v))>>
  <2>1. IsList(h) /\ Len(h) > 0 /\ h[1] = title(Len(v)) /\ a = h \o p
    BY <1>5, <1>12, <1>13
  <2> HIDE DEF h
  <2> QED
    BY <1>8, <2>1, ConcatFirst
<1>14. ASSUME w # <<>> PROVE IsList(b) /\ Len(b) > 0 /\ b[1] = title(Len(w))
  <2> DEFINE h == <<title(Len(w))>>
  <2>1. IsList(h) /\ Len(h) > 0 /\ h[1] = title(Len(w)) /\ b = h \o q
    BY <1>6, <1>12, <1>14
  <2> HIDE DEF h
  <2> QED
    BY <1>8, <2>1, ConcatFirst
<1>15. IsList(a) /\ Len(a) > 0 /\ IsList(b) /\ Len(b) > 0
  <2>1. IsList(<<none>>) /\ Len(<<none>>) > 0
    BY <1>12
  <2>2. v = <<>> => a = <<none>>
    BY <1>5
  <2>3. w = <<>> => b = <<none>>
    BY <1>6
  <2> QED
    BY <1>13, <1>14, <2>1, <2>2, <2>3
<1>16. CASE Len(v) # Len(w)
  <2>1. x # y
    BY <1>10, <1>16
  <2>2. a[1] # b[1]
    <3>1. CASE v = <<>>
      <4>1. w # <<>>
        BY <1>7, <1>16, <3>1
      <4>2. a[1] = none /\ b[1] = title(Len(w))
        BY <1>5, <1>12, <1>14, <3>1, <4>1
      <4>3. a[1][1] = "element" /\ b[1][1] = "map"
        BY <1>9, <4>2
      <4> QED
        BY <4>3
    <3>2. CASE w = <<>>
      <4>1. v # <<>>
        BY <1>7, <1>16, <3>2
      <4>2. b[1] = none /\ a[1] = title(Len(v))
        BY <1>6, <1>12, <1>13, <3>2, <4>1
      <4>3. a[1][1] = "map" /\ b[1][1] = "element"
        BY <1>9, <4>2
      <4> QED
        BY <4>3
    <3>3. CASE v # <<>> /\ w # <<>>
      <4>1. a[1][4] = Len(v) /\ b[1][4] = Len(w)
        BY <1>9, <1>13, <1>14, <3>3
      <4> QED
        BY <1>16, <4>1
    <3> QED
      BY <3>1, <3>2, <3>3
  <2> QED
    <3>1. Tells(depth + 1, a, b, x, y)
      BY <1>15, <2>1, <2>2, FirstTells
    <3> QED
      BY <3>1 DEF a, b, x, y
<1>17. CASE Len(v) = Len(w) /\ Len(v) = 0
  <2>1. a = b
    BY <1>5, <1>6, <1>7, <1>17
  <2>2. x = y
    <3>1. Entries(v) = {} /\ Entries(w) = {}
      BY <1>17 DEF Entries
    <3> QED
      BY <3>1 DEF x, y, EntriesShown
  <2>3. Tells(depth + 1, a, b, x, y)
    BY <1>15, <2>1, <2>2 DEF Tells
  <2> QED
    BY <2>3 DEF a, b, x, y
<1>18. CASE Len(v) = Len(w) /\ Len(v) # 0
  <2> DEFINE xs(i) == EntryShown(X, fd.of, s[i])
             ys(i) == EntryShown(Y, fd.of, t[i])
             n == Len(v)
  <2>1. \A i \in 1 .. n : Tells(depth + 1, P[i], Q[i], xs(i), ys(i))
    BY <1>11, <1>18
  <2>2. /\ x = y => \A i \in 1 .. n : xs(i) = ys(i)
        /\ x # y => \E i \in 1 .. n : xs(i) # ys(i)
    BY <1>10, <1>18
  <2>3. n \in Nat /\ Len(P) = n /\ Len(Q) = n
    BY <1>1, <1>2, <1>7, <1>18
  <2> HIDE DEF xs, ys, n
  <2>4. \A i \in 1 .. n : /\ xs(i) = ys(i) => P[i] = Q[i]
                          /\ xs(i) # ys(i) => Apart(depth + 1, P[i], Q[i]) /\ P[i] # Q[i]
    BY <2>1, ApartSame DEF Tells
  <2>5. \A i \in 1 .. n : P[i] = Q[i] \/ Apart(depth + 1, P[i], Q[i])
    BY <2>4
  <2>6. x = y => \A i \in 1 .. n : P[i] = Q[i]
    BY <2>2, <2>4
  <2>7. x # y => \E i \in 1 .. n : P[i] # Q[i]
    BY <2>2, <2>4
  <2>8. \A i \in 2 .. n : Leads(depth + 1, P[i], depth + 1) /\ Leads(depth + 1, Q[i], depth + 1)
    <3>1. \A i \in 2 .. n : i \in 1 .. n
      BY <2>3
    <3>2. n = Len(v) /\ n = Len(w)
      BY <1>18 DEF n
    <3> QED
      BY <1>1, <1>2, <3>1, <3>2
  <2>9. Tells(depth + 1, p, q, x, y)
    <3>1. ListOfLists(P) /\ ListOfLists(Q)
      BY <1>1, <1>2
    <3>2. Tells(depth + 1, FlattenSeq(P), FlattenSeq(Q), x, y)
      BY ONLY <2>3, <2>5, <2>6, <2>7, <2>8, <3>1, PiecesTell
    <3> QED
      BY <3>2 DEF p, q
  <2> DEFINE h == <<title(Len(v))>>
  <2>10. a = h \o p /\ b = h \o q /\ IsList(h)
    BY <1>5, <1>6, <1>7, <1>12, <1>18
  <2> HIDE DEF h
  <2>11. x # y => Apart(depth + 1, a, b)
    BY <1>8, <2>9, <2>10, ApartBehind DEF Tells
  <2>12. x = y => a = b
    BY <2>9, <2>10 DEF Tells
  <2>13. Tells(depth + 1, a, b, x, y)
    BY <1>15, <2>11, <2>12 DEF Tells
  <2> QED
    BY <2>13 DEF a, b, x, y
<1> QED
  BY <1>16, <1>17, <1>18

\* The fields of the entries of a map that IsMapEntryPrimitive accepts.
LEMMA PrimitiveEntries ==
  ASSUME NEW fd, IsMapEntryPrimitive(fd.of), IsEntry(fd.of), fd.of \in DOMAIN MessageTypes
  PROVE  LET key   == MessageTypes[fd.of][1]
             value == MessageTypes[fd.of][2]
         IN  /\ key.kind \in {"int", "uint", "fixed", "bool", "string"} /\ key.name = "key"
             /\ value.kind \in Kinds \ {"message"} /\ value.name = "value" /\ ~IsRepeated(value)
             /\ value \in Fields(fd.of) /\ key \in Fields(fd.of)
<1> DEFINE type == MessageTypes[fd.of]
<1>1. Len(type) = 2 /\ DOMAIN type = 1 .. Len(type) /\ \A f \in Fields(fd.of) : f.kind \in Kinds
  BY TypesAssumption DEF IsEntry
<1>2. type[1] \in Fields(fd.of) /\ type[2] \in Fields(fd.of)
  BY <1>1 DEF Fields
<1>3. type[2].kind \in Kinds
  BY <1>1, <1>2
<1> QED
  BY <1>2, <1>3 DEF IsEntry, IsMapEntryPrimitive, IsRepeated

\* The text of a map in the simple format tells what is shown of it.
LEMMA MapTells ==
  ASSUME NEW fd, IsMapEntryPrimitive(fd.of), IsEntry(fd.of), fd.of \in DOMAIN MessageTypes,
         NEW v, NEW w, MapFits(fd, v), MapFits(fd, w), NEW depth \in Nat, NEW A, NEW B, NEW X, NEW Y
  PROVE  Tells(depth + 1, MapText(A, fd, v, depth), MapText(B, fd, w, depth),
               ShownEntries(X, fd, v), ShownEntries(Y, fd, w))
<1> DEFINE kind == MessageTypes[fd.of][1].kind
           a == MapText(A, fd, v, depth)
           b == MapText(B, fd, w, depth)
           x == ShownEntries(X, fd, v)
           y == ShownEntries(Y, fd, w)
           none == ElementLine(depth, fd, 0, 0)
<1>1. kind \in {"int", "uint", "fixed", "bool", "string"}
  BY PrimitiveEntries
<1>2. IsList(v) /\ IsList(w)
  BY DEF MapFits
<1>3. CASE kind \in {"int", "uint", "string"}
  <2>1. SimpleEntries(fd.of)
    BY <1>3, PrimitiveEntries DEF SimpleEntries
  <2>2. Tells(depth + 1, a, b, EntriesShown(X, fd, v), EntriesShown(Y, fd, w))
    BY <2>1, SimpleMapTells
  <2>3. ASSUME NEW Z, NEW u, IsList(u) PROVE ShownEntries(Z, fd, u) = EntriesShown(Z, fd, u)
    <3>1. DOMAIN u = 1 .. Len(u)
      BY <2>3, ListIs
    <3>2. ShownEntries(Z, fd, u) = {EntryShown(Z, fd.of, u[i]) : i \in 1 .. Len(u)}
      BY <1>3, <3>1 DEF ShownEntries, EntryShown
    <3> QED
      BY <3>2 DEF EntriesShown, Entries
  <2>4. x = EntriesShown(X, fd, v) /\ y = EntriesShown(Y, fd, w)
    BY <1>2, <2>3
  <2> QED
    BY <2>2, <2>4
<1>4. CASE kind \in {"bool", "fixed"}
  <2>1. x = (v = <<>>) /\ y = (w = <<>>)
    BY <1>4 DEF ShownEntries
  <2>2. IsList(<<>>) /\ IsList(<<none>>) /\ IsList(<<Abort>>) /\ Len(<<none>>) > 0 /\ Len(<<Abort>>) > 0
        /\ <<none>>[1] = none /\ <<Abort>>[1] = Abort
    BY TupleLists
  <2>3. none # Abort /\ none # NewLine
    BY DEF ElementLine, Abort, NewLine
  <2> DEFINE other == IF kind = "bool" THEN <<>> ELSE <<Abort>>
  <2>4. a = (IF v = <<>> THEN <<none>> ELSE other) /\ b = (IF w = <<>> THEN <<none>> ELSE other)
    BY <1>2, <1>4, MapTextIs
  <2>5. Apart(depth + 1, <<>>, <<none>>) /\ Apart(depth + 1, <<none>>, <<>>)
    <3> HIDE DEF none
    <3>1. Apart(depth + 1, <<>>, <<none>>)
      BY <2>2, <2>3, ApartFromNone
    <3> QED
      BY <3>1, ApartSame
  <2>6. Apart(depth + 1, <<Abort>>, <<none>>) /\ Apart(depth + 1, <<none>>, <<Abort>>)
    <3> HIDE DEF none
    <3>1. <<none>>[1] # <<Abort>>[1] /\ 1 \in 1 .. Len(<<none>>) /\ 1 \in 1 .. Len(<<Abort>>)
      BY <2>2, <2>3, TupleLists
    <3>2. Apart(depth + 1, <<none>>, <<Abort>>)
      BY ONLY <2>2, <3>1, ApartAt
    <3> QED
      BY <3>2, ApartSame
  <2>7. IsList(other) /\ Apart(depth + 1, other, <<none>>) /\ Apart(depth + 1, <<none>>, other)
    BY <2>2, <2>5, <2>6
  <2>8. (x = y) <=> (v = <<>> <=> w = <<>>)
    BY <2>1
  <2> HIDE DEF a, b, x, y, none, other
  <2>9. CASE v = <<>> <=> w = <<>>
    <3>1. a = b /\ IsList(a)
      BY <2>2, <2>4, <2>7, <2>9
    <3>2. Tells(depth + 1, a, b, x, y)
      BY <2>8, <2>9, <3>1 DEF Tells
    <3> QED
      BY <3>2 DEF a, b, x, y
  <2>10. CASE ~(v = <<>> <=> w = <<>>)
    <3>1. IsList(a) /\ IsList(b) /\ Apart(depth + 1, a, b) /\ x # y
      BY <2>2, <2>4, <2>7, <2>8, <2>10
    <3>2. Tells(depth + 1, a, b, x, y)
      BY <3>1 DEF Tells
    <3> QED
      BY <3>2 DEF a, b, x, y
  <2> QED
    BY <2>9, <2>10
<1> QED
  BY <1>1, <1>3, <1>4

\* How the text of a map in the simple format begins.
LEMMA MapFirst ==
  ASSUME NEW fd, IsMapEntryPrimitive(fd.of), IsEntry(fd.of), fd.of \in DOMAIN MessageTypes,
         NEW v, MapFits(fd, v), NEW depth \in Nat, NEW sub
  PROVE  LET kind == MessageTypes[fd.of][1].kind
             a    == MapText(sub, fd, v, depth)
         IN  /\ IsList(a)
             /\ Len(a) > 0 => a[1] \in {ElementLine(depth, fd, 0, 0), MapTitle(depth, fd, Len(v)), Abort}
             /\ Len(a) = 0 => kind = "bool"
             /\ kind = "bool" /\ Len(a) > 0 => a[1] = ElementLine(depth, fd, 0, 0)
<1> DEFINE kind == MessageTypes[fd.of][1].kind
           a == MapText(sub, fd, v, depth)
           none == ElementLine(depth, fd, 0, 0)
           title == MapTitle(depth, fd, Len(v))
           P == MapPieces(sub, fd, v, depth)
<1>1. kind \in {"int", "uint", "fixed", "bool", "string"}
  BY PrimitiveEntries
<1>2. IsList(v)
  BY DEF MapFits
<1>3. /\ v = <<>> => a = <<none>>
      /\ v # <<>> /\ kind = "bool" => a = <<>>
      /\ v # <<>> /\ kind = "fixed" => a = <<Abort>>
      /\ v # <<>> /\ kind \notin {"bool", "fixed"} /\ ListOfLists(P) => a = <<title>> \o FlattenSeq(P)
  BY <1>2, MapTextIs
<1>4. kind \in {"int", "uint", "string"} => ListOfLists(P)
  <2> SUFFICES ASSUME kind \in {"int", "uint", "string"} PROVE ListOfLists(P)
    OBVIOUS
  <2>1. SimpleEntries(fd.of)
    BY PrimitiveEntries DEF SimpleEntries
  <2> QED
    BY <2>1, MapPiecesAre
<1> HIDE DEF kind, a, none, title, P
<1>5. /\ IsList(<<>>) /\ Len(<<>>) = 0
      /\ IsList(<<none>>) /\ Len(<<none>>) > 0 /\ <<none>>[1] = none
      /\ IsList(<<Abort>>) /\ Len(<<Abort>>) > 0 /\ <<Abort>>[1] = Abort
      /\ IsList(<<title>>) /\ Len(<<title>>) > 0 /\ <<title>>[1] = title
  BY TupleLists
<1>6. CASE v = <<>>
  <2>1. IsList(a) /\ Len(a) > 0 /\ a[1] = none
    BY <1>3, <1>5, <1>6
  <2>2. Len(a) \in Nat
    BY <2>1, ListIs
  <2> QED
    BY <2>1, <2>2 DEF kind, a, none, title
<1>7. CASE v # <<>> /\ kind = "bool"
  <2>1. IsList(a) /\ Len(a) = 0
    BY <1>3, <1>5, <1>7
  <2> QED
    BY <1>7, <2>1 DEF kind, a, none, title
<1>8. CASE v # <<>> /\ kind = "fixed"
  <2>1. IsList(a) /\ Len(a) > 0 /\ a[1] = Abort
    BY <1>3, <1>5, <1>8
  <2>2. Len(a) \in Nat /\ kind # "bool"
    BY <1>8, <2>1, ListIs
  <2> QED
    BY <2>1, <2>2 DEF kind, a, none, title
<1>9. CASE v # <<>> /\ kind \in {"int", "uint", "string"}
  <2> DEFINE h == <<title>>
  <2>1. ListOfLists(P) /\ a = h \o FlattenSeq(P) /\ IsList(h) /\ Len(h) > 0 /\ h[1] = title
    BY <1>3, <1>4, <1>5, <1>9
  <2> HIDE DEF h
  <2>2. IsList(FlattenSeq(P))
    BY <2>1, FlattenList
  <2>3. IsList(a) /\ Len(a) > 0 /\ a[1] = title
    BY <2>1, <2>2, ConcatFirst
  <2>4. Len(a) \in Nat /\ kind # "bool"
    BY <1>9, <2>3, ListIs
  <2> QED
    BY <2>3, <2>4 DEF kind, a, none, title
<1> QED
  BY <1>1, <1>6, <1>7, <1>8, <1>9

----------------------------------------------------------------------------
(* Fields.                                                                 *)

\* The texts of the messages in two messages tell what is shown of them.
SubsTell(depth, A, B, X, Y, S, T) ==
  /\ \A p \in S : IsList(A[p])
  /\ \A q \in T : IsList(B[q])
  /\ \A p \in S : \A q \in T : p[1] = q[1] => MessageTells(depth, A[p], B[q], X[p], Y[q])

\* The messages in a field.
MessagesIn(fd, msg) == IF fd.kind = "message" THEN {<<fd.of, v>> : v \in ValuesIn(fd, msg)} ELSE {}

LEMMA SubsOfValues ==
  ASSUME NEW fd, NEW m, NEW k, NEW depth, NEW A, NEW B, NEW X, NEW Y,
         SubsTell(depth, A, B, X, Y, MessagesIn(fd, m), MessagesIn(fd, k)),
         NEW v, NEW w, v \in ValuesIn(fd, m) \/ v = Unset, w \in ValuesIn(fd, k) \/ w = Unset
  PROVE  /\ SubTells(depth, A, B, X, Y, fd, v, w)
         /\ SubTells(depth, A, A, X, X, fd, v, v)
         /\ SubTells(depth, B, B, Y, Y, fd, w, w)
<1> SUFFICES ASSUME fd.kind = "message"
             PROVE  /\ SubTells(depth, A, B, X, Y, fd, v, w)
                    /\ SubTells(depth, A, A, X, X, fd, v, v)
                    /\ SubTells(depth, B, B, Y, Y, fd, w, w)
  BY DEF SubTells
<1> DEFINE p == <<fd.of, v>>
           q == <<fd.of, w>>
<1>1. p[1] = q[1]
  OBVIOUS
<1>2. /\ v # Unset => p \in MessagesIn(fd, m)
      /\ w # Unset => q \in MessagesIn(fd, k)
  BY DEF MessagesIn
<1> HIDE DEF p, q
<1>3. /\ v # Unset => IsList(A[p])
      /\ w # Unset => IsList(B[q])
      /\ v # Unset /\ w # Unset => MessageTells(depth, A[p], B[q], X[p], Y[q])
  BY <1>1, <1>2 DEF SubsTell
<1>4. \A s, x : IsList(s) => MessageTells(depth, s, s, x, x)
  BY DEF MessageTells, Tells, OpensAlike
<1> QED
  BY <1>3, <1>4 DEF SubTells, p, q

\* A message of protobuf in which no string holds a quote.
Readable(m) == MessageFits(m) /\ QuoteFreeMessage(m)

\* The text of a field tells what is shown of it.
FieldShown(sub, fd, msg, simple) == ShownField(sub, fd, msg[fd.name], simple)

\* How the text of a field begins.
Begins(fd, depth, a, b) ==
  /\ Len(a) > 0 => ~IsDeep(a[1], depth + 1)
  /\ Len(b) > 0 => ~IsDeep(b[1], depth + 1)
  /\ OpensAlike(depth, a, b)

LEMMA OneFieldTells ==
  ASSUME NEW fd, fd.kind \in Kinds, ~IsRepeated(fd), NEW m, NEW k, NEW depth \in Nat,
         Settable(fd, m[fd.name]), Settable(fd, k[fd.name]), NEW A, NEW B, NEW X, NEW Y,
         SubsTell(depth + 1, A, B, X, Y, MessagesIn(fd, m), MessagesIn(fd, k)), NEW simple
  PROVE  LET a == FieldToString(A, m, fd, depth, simple)
             b == FieldToString(B, k, fd, depth, simple)
         IN  /\ Tells(depth + 1, a, b, FieldShown(X, fd, m, simple), FieldShown(Y, fd, k, simple))
             /\ Begins(fd, depth, a, b)
<1> DEFINE v == m[fd.name]
           w == k[fd.name]
           s == ValueText(A, fd, v, depth, "default")
           t == ValueText(B, fd, w, depth, "default")
           x == ShownValue(X, fd, v)
           y == ShownValue(Y, fd, w)
           line == LineOf(depth, fd)
           a == FieldToString(A, m, fd, depth, simple)
           b == FieldToString(B, k, fd, depth, simple)
<1>1. a = <<line>> \o s /\ b = <<line>> \o t
  BY FieldValueIs DEF FieldToString
<1>2. FieldShown(X, fd, m, simple) = x /\ FieldShown(Y, fd, k, simple) = y
  BY DEF FieldShown, ShownField
<1>3. (v \in ValuesIn(fd, m) \/ v = Unset) /\ (w \in ValuesIn(fd, k) \/ w = Unset)
  BY DEF ValuesIn
<1>4. SubTells(depth + 1, A, B, X, Y, fd, v, w)
  BY <1>3, SubsOfValues
<1>5. Tells(depth + 1, s, t, x, y)
  BY <1>4, ValueTells
<1>6. ~IsDeep(line, depth + 1)
  BY DEF IsDeep, LineOf
<1> HIDE DEF v, w, s, t, x, y, line, a, b
<1> DEFINE h == <<line>>
<1>7. IsList(h) /\ Len(h) > 0 /\ h[1] = line /\ a = h \o s /\ b = h \o t
  BY <1>1, TupleLists
<1>8. IsList(s) /\ IsList(t)
  BY <1>5 DEF Tells
<1> HIDE DEF h
<1>9. IsList(a) /\ Len(a) > 0 /\ a[1] = line
  BY <1>7, <1>8, ConcatFirst
<1>10. IsList(b) /\ Len(b) > 0 /\ b[1] = line
  BY <1>7, <1>8, ConcatFirst
<1>11. x # y => Apart(depth + 1, a, b)
  BY <1>5, <1>7, <1>8, ApartBehind DEF Tells
<1>12. x = y => a = b
  BY <1>5, <1>7 DEF Tells
<1>13. Tells(depth + 1, a, b, x, y)
  BY <1>9, <1>10, <1>11, <1>12 DEF Tells
<1>14. Begins(fd, depth, a, b)
  BY <1>6, <1>9, <1>10 DEF Begins, OpensAlike
<1> QED
  BY <1>2, <1>13, <1>14 DEF a, b

LEMMA ManyFieldTells ==
  ASSUME NEW fd, fd.kind \in Kinds, IsRepeated(fd), NEW simple, ~IsSimpleMap(fd, simple), NEW m, NEW k, NEW depth \in Nat,
         FieldFits(fd, m[fd.name]), FieldFits(fd, k[fd.name]), QuoteFreeField(fd, m), QuoteFreeField(fd, k),
         NEW A, NEW B, NEW X, NEW Y,
         SubsTell(depth + 1, A, B, X, Y, MessagesIn(fd, m), MessagesIn(fd, k))
  PROVE  LET a == FieldToString(A, m, fd, depth, simple)
             b == FieldToString(B, k, fd, depth, simple)
         IN  /\ Tells(depth + 1, a, b, FieldShown(X, fd, m, simple), FieldShown(Y, fd, k, simple))
             /\ Begins(fd, depth, a, b)
<1> DEFINE v == m[fd.name]
           w == k[fd.name]
           x == RepeatedShown(X, fd, v)
           y == RepeatedShown(Y, fd, w)
           a == RepeatedText(A, fd, v, depth)
           b == RepeatedText(B, fd, w, depth)
<1>1. FieldToString(A, m, fd, depth, simple) = a /\ FieldToString(B, k, fd, depth, simple) = b
  BY DEF FieldToString, RepeatedText
<1>2. FieldShown(X, fd, m, simple) = x /\ FieldShown(Y, fd, k, simple) = y
  BY DEF FieldShown, ShownField, RepeatedShown
<1>3. IsList(v) /\ IsList(w) /\ DOMAIN v = 1 .. Len(v) /\ DOMAIN w = 1 .. Len(w)
  BY ListIs DEF FieldFits
<1>5. (\A i \in 1 .. Len(v) : v[i] \in ValuesIn(fd, m)) /\ (\A i \in 1 .. Len(w) : w[i] \in ValuesIn(fd, k))
  BY <1>3 DEF ValuesIn
<1>4. (\A i \in 1 .. Len(v) : Legible(fd, v[i])) /\ (\A i \in 1 .. Len(w) : Legible(fd, w[i]))
  <2>1. (\A i \in 1 .. Len(v) : ValueFits(fd, v[i])) /\ (\A i \in 1 .. Len(w) : ValueFits(fd, w[i]))
    BY <1>3 DEF FieldFits
  <2> QED
    BY <1>5, <2>1 DEF Legible, QuoteFreeField
<1> HIDE DEF v, w, x, y, a, b
<1>6. \A i \in 1 .. Len(v) : \A j \in 1 .. Len(w) : SubTells(depth + 1, A, B, X, Y, fd, v[i], w[j])
  BY <1>5, SubsOfValues
<1>7. \A i \in 1 .. Len(v) : SubTells(depth + 1, A, A, X, X, fd, v[i], v[i])
  <2> TAKE i \in 1 .. Len(v)
  <2> DEFINE u == Unset
  <2>1. v[i] \in ValuesIn(fd, m)
    BY <1>5
  <2> QED
    BY <2>1, SubsOfValues
<1>8. \A i \in 1 .. Len(w) : SubTells(depth + 1, B, B, Y, Y, fd, w[i], w[i])
  <2> TAKE i \in 1 .. Len(w)
  <2>1. w[i] \in ValuesIn(fd, k)
    BY <1>5
  <2> QED
    BY <2>1, SubsOfValues
<1>9. Tells(depth + 1, a, b, x, y)
  BY <1>3, <1>4, <1>6, <1>7, <1>8, RepeatedTells DEF a, b, x, y
<1>10. \A i \in 1 .. Len(v) : IsList(RepeatedFieldValueToString(A, fd, v[i], depth, "default"))
  BY <1>4, <1>7, ElementTells DEF Tells
<1>11. \A i \in 1 .. Len(w) : IsList(RepeatedFieldValueToString(B, fd, w[i], depth, "default"))
  BY <1>4, <1>8, ElementTells DEF Tells
<1>12. Len(a) > 0 /\ ~IsDeep(a[1], depth + 1)
  <2>1. Len(a) > 0 /\ a[1] = ElementLine(depth, fd, IF Len(v) = 0 THEN 0 ELSE 1, Len(v))
    BY <1>3, <1>10, RepeatedFirst DEF a
  <2> QED
    BY <2>1 DEF IsDeep, ElementLine
<1>13. Len(b) > 0 /\ ~IsDeep(b[1], depth + 1)
  <2>1. Len(b) > 0 /\ b[1] = ElementLine(depth, fd, IF Len(w) = 0 THEN 0 ELSE 1, Len(w))
    BY <1>3, <1>11, RepeatedFirst DEF b
  <2> QED
    BY <2>1 DEF IsDeep, ElementLine
<1>14. Begins(fd, depth, a, b)
  BY <1>12, <1>13 DEF Begins, OpensAlike
<1> QED
  BY <1>1, <1>2, <1>9, <1>14

LEMMA MapFieldTells ==
  ASSUME NEW type \in DOMAIN MessageTypes, NEW fd \in Fields(type), NEW simple, IsSimpleMap(fd, simple),
         NEW m, NEW k, NEW depth \in Nat, FieldFits(fd, m[fd.name]), FieldFits(fd, k[fd.name]),
         KeysPlaced(fd, m[fd.name]), KeysPlaced(fd, k[fd.name]), NEW A, NEW B, NEW X, NEW Y,
         \A p \in MessagesIn(fd, m) : Readable(p), \A q \in MessagesIn(fd, k) : Readable(q)
  PROVE  LET a == FieldToString(A, m, fd, depth, simple)
             b == FieldToString(B, k, fd, depth, simple)
         IN  /\ Tells(depth + 1, a, b, FieldShown(X, fd, m, simple), FieldShown(Y, fd, k, simple))
             /\ Begins(fd, depth, a, b)
<1> DEFINE v == m[fd.name]
           w == k[fd.name]
           x == ShownEntries(X, fd, v)
           y == ShownEntries(Y, fd, w)
           a == MapText(A, fd, v, depth)
           b == MapText(B, fd, w, depth)
           kind == MessageTypes[fd.of][1].kind
<1>1. fd.label = "map" /\ IsRepeated(fd) /\ fd.kind = "message" /\ IsEntry(fd.of) /\ fd.of \in DOMAIN MessageTypes
      /\ IsMapEntryPrimitive(fd.of)
  BY TypesAssumption DEF IsSimpleMap, IsRepeated
<1>2. FieldToString(A, m, fd, depth, simple) = a /\ FieldToString(B, k, fd, depth, simple) = b
  BY <1>1 DEF FieldToString, MapText
<1>3. FieldShown(X, fd, m, simple) = x /\ FieldShown(Y, fd, k, simple) = y
  BY <1>1 DEF FieldShown, ShownField
<1>4. ASSUME NEW z, FieldFits(fd, z[fd.name]), KeysPlaced(fd, z[fd.name]), \A p \in MessagesIn(fd, z) : Readable(p)
      PROVE  MapFits(fd, z[fd.name])
  <2> DEFINE u == z[fd.name]
             key == MessageTypes[fd.of][1]
             value == MessageTypes[fd.of][2]
  <2>1. /\ IsList(u) /\ \A i \in DOMAIN u : ValueFits(fd, u[i])
        /\ \A i, j \in DOMAIN u : u[i]["key"] = u[j]["key"] => i = j
    BY <1>1, <1>4 DEF FieldFits
  <2>2. DOMAIN u = 1 .. Len(u)
    BY <2>1, ListIs
  <2>3. Distinct(u)
    BY <2>1, <2>2 DEF Distinct
  <2>4. key.kind \in {"int", "uint", "string"} => Placed(key, u)
    BY <1>1, <1>4, <2>2 DEF KeysPlaced, Placed
  <2>5. /\ value.kind \in Kinds \ {"message"} /\ value.name = "value" /\ ~IsRepeated(value)
        /\ value \in Fields(fd.of) /\ value.oneof = ""
        /\ key.kind # "message" /\ key.name = "key" /\ ~IsRepeated(key) /\ key \in Fields(fd.of) /\ key.oneof = ""
    BY <1>1, PrimitiveEntries DEF IsEntry, IsRepeated
  <2>6. ASSUME NEW e \in Entries(u) PROVE EntryFits(fd.of, e)
    <3>1. <<fd.of, e>> \in MessagesIn(fd, z)
      BY <1>1, <2>2 DEF Entries, MessagesIn, ValuesIn
    <3>2. MessageFits(<<fd.of, e>>) /\ QuoteFreeMessage(<<fd.of, e>>)
      BY <1>4, <3>1 DEF Readable
    <3>3. ASSUME NEW f \in Fields(fd.of), f.kind # "message", f.oneof = "", ~IsRepeated(f) PROVE Legible(f, e[f.name])
      <4>1. FieldFits(f, e[f.name]) /\ QuoteFreeField(f, e)
        BY <3>2 DEF MessageFits, QuoteFreeMessage
      <4>2. ValueFits(f, e[f.name])
        BY <3>3, <4>1 DEF FieldFits
      <4>3. e[f.name] \in ValuesIn(f, e)
        BY <3>3, <4>2 DEF ValuesIn, ValueFits
      <4> QED
        BY <4>1, <4>2, <4>3 DEF Legible, QuoteFreeField
    <3> QED
      BY <2>5, <3>3 DEF EntryFits
  <2> QED
    BY <2>1, <2>3, <2>4, <2>6 DEF MapFits
<1>5. MapFits(fd, v) /\ MapFits(fd, w)
  BY <1>4
<1>6. Tells(depth + 1, a, b, x, y)
  BY <1>1, <1>5, MapTells
<1>7. /\ Len(a) > 0 => a[1] \in {ElementLine(depth, fd, 0, 0), MapTitle(depth, fd, Len(v)), Abort}
      /\ Len(a) = 0 => kind = "bool"
      /\ kind = "bool" /\ Len(a) > 0 => a[1] = ElementLine(depth, fd, 0, 0)
  BY <1>1, <1>5, MapFirst
<1>8. /\ Len(b) > 0 => b[1] \in {ElementLine(depth, fd, 0, 0), MapTitle(depth, fd, Len(w)), Abort}
      /\ Len(b) = 0 => kind = "bool"
      /\ kind = "bool" /\ Len(b) > 0 => b[1] = ElementLine(depth, fd, 0, 0)
  BY <1>1, <1>5, MapFirst
<1>9. /\ \A n : ~IsDeep(MapTitle(depth, fd, n), depth + 1)
      /\ ~IsDeep(ElementLine(depth, fd, 0, 0), depth + 1) /\ IsDeep(ElementLine(depth, fd, 0, 0), depth)
      /\ ~IsDeep(Abort, depth + 1)
  BY DEF IsDeep, MapTitle, ElementLine, Abort
<1> HIDE DEF v, w, x, y, a, b, kind
<1>10. Begins(fd, depth, a, b)
  BY <1>7, <1>8, <1>9 DEF Begins, OpensAlike
<1> QED
  BY <1>2, <1>3, <1>6, <1>10

----------------------------------------------------------------------------
(* Messages.                                                               *)

LEMMA FieldTells ==
  ASSUME NEW type \in DOMAIN MessageTypes, NEW fd \in Fields(type), NEW simple, NEW m, NEW k, NEW depth \in Nat,
         Readable(<<type, m>>), Readable(<<type, k>>), NEW A, NEW B, NEW X, NEW Y,
         \A p \in SubMessages(<<type, m>>) : Readable(p), \A q \in SubMessages(<<type, k>>) : Readable(q),
         SubsTell(depth + 1, A, B, X, Y, SubMessages(<<type, m>>), SubMessages(<<type, k>>))
  PROVE  LET a == FieldToString(A, m, fd, depth, simple)
             b == FieldToString(B, k, fd, depth, simple)
         IN  /\ Tells(depth + 1, a, b, FieldShown(X, fd, m, simple), FieldShown(Y, fd, k, simple))
             /\ Begins(fd, depth, a, b)
<1>1. fd.kind \in Kinds
  BY TypesAssumption
<1>2. /\ FieldFits(fd, m[fd.name]) /\ KeysPlaced(fd, m[fd.name])
      /\ FieldFits(fd, k[fd.name]) /\ KeysPlaced(fd, k[fd.name])
      /\ QuoteFreeField(fd, m) /\ QuoteFreeField(fd, k)
  BY DEF Readable, MessageFits, QuoteFreeMessage
<1>3. \A z : MessagesIn(fd, z) \subseteq SubMessages(<<type, z>>)
  BY DEF MessagesIn, SubMessages
<1>4. SubsTell(depth + 1, A, B, X, Y, MessagesIn(fd, m), MessagesIn(fd, k))
  BY <1>3 DEF SubsTell
<1>5. CASE ~IsRepeated(fd)
  <2>1. Settable(fd, m[fd.name]) /\ Settable(fd, k[fd.name])
    <3>1. ASSUME NEW z, FieldFits(fd, z[fd.name]), QuoteFreeField(fd, z) PROVE Settable(fd, z[fd.name])
      BY <1>5, <3>1 DEF FieldFits, Settable, Legible, QuoteFreeField, ValuesIn, ValueFits
    <3> QED
      BY <1>2, <3>1
  <2> QED
    BY <1>1, <1>4, <1>5, <2>1, OneFieldTells
<1>6. CASE IsSimpleMap(fd, simple)
  BY <1>2, <1>3, <1>6, MapFieldTells
<1>7. CASE IsRepeated(fd) /\ ~IsSimpleMap(fd, simple)
  BY <1>1, <1>2, <1>4, <1>7, ManyFieldTells
<1> QED
  BY <1>5, <1>6, <1>7

\* The text of a message.
FieldPieces(sub, type, msg, depth, simple) ==
  [i \in DOMAIN MessageTypes[type] |->
     (IF i = 1 THEN <<>> ELSE << NewLine >>) \o FieldToString(sub, msg, MessageTypes[type][i], depth, simple)]

\* The text of a message tells what is shown of it if those of the messages in it do.
LEMMA FieldsTell ==
  ASSUME NEW type \in DOMAIN MessageTypes, NEW simple, NEW m, NEW k, NEW depth \in Nat,
         Readable(<<type, m>>), Readable(<<type, k>>), NEW A, NEW B, NEW X, NEW Y,
         \A p \in SubMessages(<<type, m>>) : Readable(p), \A q \in SubMessages(<<type, k>>) : Readable(q),
         SubsTell(depth + 1, A, B, X, Y, SubMessages(<<type, m>>), SubMessages(<<type, k>>))
  PROVE  MessageTells(depth, FieldsToString(A, <<type, m>>, depth, simple), FieldsToString(B, <<type, k>>, depth, simple),
                      ShownFields(X, <<type, m>>, simple), ShownFields(Y, <<type, k>>, simple))
<1> DEFINE fields == MessageTypes[type]
           n == Len(fields)
           s(i) == FieldToString(A, m, fields[i], depth, simple)
           t(i) == FieldToString(B, k, fields[i], depth, simple)
           xs(i) == FieldShown(X, fields[i], m, simple)
           ys(i) == FieldShown(Y, fields[i], k, simple)
           P == FieldPieces(A, type, m, depth, simple)
           Q == FieldPieces(B, type, k, depth, simple)
           a == FieldsToString(A, <<type, m>>, depth, simple)
           b == FieldsToString(B, <<type, k>>, depth, simple)
           x == ShownFields(X, <<type, m>>, simple)
           y == ShownFields(Y, <<type, k>>, simple)
           h(i) == IF i = 1 THEN <<>> ELSE << NewLine >>
<1>1. n \in Nat /\ DOMAIN fields = 1 .. n /\ \A i \in 1 .. n : fields[i] \in Fields(type)
  BY TypesAssumption DEF Fields
<1>2. a = FlattenSeq(P) /\ b = FlattenSeq(Q)
  BY DEF FieldsToString, FieldPieces
<1>3. ASSUME NEW i \in 1 .. n
      PROVE  Tells(depth + 1, s(i), t(i), xs(i), ys(i)) /\ Begins(fields[i], depth, s(i), t(i))
  BY <1>1, FieldTells
<1>4. x = [name \in FieldNames(type) |-> ShownField(X, FindFieldByName(type, name), m[name], simple)]
      /\ y = [name \in FieldNames(type) |-> ShownField(Y, FindFieldByName(type, name), k[name], simple)]
  BY DEF ShownFields
<1>5. x = y <=> \A i \in 1 .. n : xs(i) = ys(i)
  <2>1. ASSUME NEW fd \in Fields(type)
        PROVE  fd.name \in FieldNames(type) /\ FindFieldByName(type, fd.name) = fd
    BY TypesAssumption DEF FieldNames
  <2>2. ASSUME NEW i \in 1 .. n PROVE x[fields[i].name] = xs(i) /\ y[fields[i].name] = ys(i)
    BY <1>1, <1>4, <2>1 DEF FieldShown
  <2>3. ASSUME x = y PROVE \A i \in 1 .. n : xs(i) = ys(i)
    <3> HIDE DEF x, y, xs, ys
    <3> QED
      BY <2>2, <2>3
  <2>4. ASSUME \A i \in 1 .. n : xs(i) = ys(i) PROVE x = y
    <3>1. ASSUME NEW name \in FieldNames(type) PROVE x[name] = y[name]
      <4>1. PICK i \in 1 .. n : name = fields[i].name
        BY <1>1 DEF FieldNames, Fields
      <4> HIDE DEF x, y, xs, ys
      <4> QED
        BY <2>2, <2>4, <4>1
    <3> QED
      BY <1>4, <3>1
  <2> QED
    BY <2>3, <2>4
<1>6. P = [i \in 1 .. n |-> h(i) \o s(i)] /\ Q = [i \in 1 .. n |-> h(i) \o t(i)]
  BY <1>1 DEF FieldPieces
<1> HIDE DEF n, s, t, xs, ys, P, Q, a, b, x, y
<1>7. \A i \in 1 .. n : IsList(s(i)) /\ IsList(t(i))
  BY <1>3 DEF Tells
<1>8. IsList(<<>>) /\ IsList(<<NewLine>>) /\ Len(<<NewLine>>) > 0 /\ <<NewLine>>[1] = NewLine
  BY TupleLists
<1>9. ASSUME NEW i \in 1 .. n
      PROVE  /\ P[i] = h(i) \o s(i) /\ Q[i] = h(i) \o t(i) /\ IsList(P[i]) /\ IsList(Q[i])
             /\ i = 1 => P[i] = s(i) /\ Q[i] = t(i)
             /\ i # 1 => /\ Len(P[i]) > 0 /\ Len(Q[i]) > 0
                         /\ Leads(depth + 1, P[i], depth + 1) /\ Leads(depth + 1, Q[i], depth + 1)
  <2>1. P[i] = h(i) \o s(i) /\ Q[i] = h(i) \o t(i)
    BY <1>6
  <2>2. IsList(s(i)) /\ IsList(t(i))
    BY <1>7
  <2>3. CASE i = 1
    <3>1. P[i] = s(i) /\ Q[i] = t(i)
      BY <2>1, <2>2, <2>3, ConcatEmpty
    <3> QED
      BY <2>1, <2>2, <2>3, <3>1
  <2>4. CASE i # 1
    <3>1. P[i] = <<NewLine>> \o s(i) /\ Q[i] = <<NewLine>> \o t(i)
      BY <2>1, <2>4
    <3>2. (Len(s(i)) > 0 => ~IsDeep(s(i)[1], depth + 1)) /\ (Len(t(i)) > 0 => ~IsDeep(t(i)[1], depth + 1))
      BY <1>3 DEF Begins
    <3>3. Leads(depth + 1, P[i], depth + 1) /\ Leads(depth + 1, Q[i], depth + 1)
      <4> DEFINE d == depth + 1
                 q == s(i)
                 r == t(i)
      <4>1. d \in Nat /\ IsList(q) /\ IsList(r)
        BY <2>2
      <4>2. (Len(q) > 0 => ~IsDeep(q[1], d)) /\ (Len(r) > 0 => ~IsDeep(r[1], d))
        BY <3>2
      <4>3. P[i] = <<NewLine>> \o q /\ Q[i] = <<NewLine>> \o r
        BY <3>1
      <4> HIDE DEF d, q, r
      <4>4. Leads(d, <<NewLine>> \o q, d)
        BY ONLY <4>1, <4>2, LineLeads
      <4>5. Leads(d, <<NewLine>> \o r, d)
        BY ONLY <4>1, <4>2, LineLeads
      <4>6. Leads(d, P[i], d) /\ Leads(d, Q[i], d)
        BY <4>3, <4>4, <4>5
      <4> QED
        BY <4>6 DEF d
    <3> DEFINE g == <<NewLine>>
    <3>4. IsList(g) /\ Len(g) > 0
      BY <1>8
    <3>5. P[i] = g \o s(i) /\ Q[i] = g \o t(i)
      BY <3>1
    <3> HIDE DEF g
    <3>6. IsList(P[i]) /\ Len(P[i]) > 0 /\ IsList(Q[i]) /\ Len(Q[i]) > 0
      BY <2>2, <3>4, <3>5, ConcatFirst
    <3> QED
      BY <2>1, <2>4, <3>3, <3>6
  <2> QED
    BY <2>3, <2>4
<1>10. P = [i \in 1 .. n |-> P[i]] /\ Q = [i \in 1 .. n |-> Q[i]]
  BY <1>6
<1>11. n \in Nat
  BY <1>1
<1>12. ListOfLists(P) /\ ListOfLists(Q) /\ Len(P) = n /\ Len(Q) = n
  <2>1. IsList(P) /\ Len(P) = n
    BY ONLY <1>10, <1>11, FunctionList
  <2>2. IsList(Q) /\ Len(Q) = n
    BY ONLY <1>10, <1>11, FunctionList
  <2> QED
    BY <1>9, <2>1, <2>2 DEF ListOfLists
<1>13. ASSUME NEW i \in 1 .. n
       PROVE  /\ xs(i) = ys(i) => P[i] = Q[i]
              /\ xs(i) # ys(i) => Apart(depth + 1, P[i], Q[i]) /\ P[i] # Q[i]
  <2>1. xs(i) = ys(i) => P[i] = Q[i]
    <3>1. xs(i) = ys(i) => s(i) = t(i)
      BY <1>3 DEF Tells
    <3>2. P[i] = h(i) \o s(i) /\ Q[i] = h(i) \o t(i)
      BY <1>9
    <3> HIDE DEF h
    <3> QED
      BY ONLY <3>1, <3>2
  <2>2. ASSUME xs(i) # ys(i) PROVE Apart(depth + 1, P[i], Q[i])
    <3>1. Apart(depth + 1, s(i), t(i))
      BY <1>3, <2>2 DEF Tells
    <3>2. IsList(h(i))
      BY <1>8
    <3> HIDE DEF h
    <3>3. Apart(depth + 1, h(i) \o s(i), h(i) \o t(i))
      BY <1>7, <3>1, <3>2, ApartBehind
    <3> QED
      BY <1>9, <3>3
  <2>3. ASSUME Apart(depth + 1, P[i], Q[i]) PROVE P[i] # Q[i]
    <3> DEFINE p == P[i]
               q == Q[i]
    <3>1. Apart(depth + 1, p, q)
      BY <2>3
    <3> HIDE DEF p, q
    <3>2. p # q
      BY ONLY <3>1, ApartSame
    <3> QED
      BY <3>2 DEF p, q
  <2> QED
    BY <2>1, <2>2, <2>3
<1>14. Tells(depth + 1, a, b, x, y)
  <2>1. \A i \in 1 .. n : P[i] = Q[i] \/ Apart(depth + 1, P[i], Q[i])
    BY <1>13
  <2>2. x = y => \A i \in 1 .. n : P[i] = Q[i]
    BY <1>5, <1>13
  <2>3. x # y => \E i \in 1 .. n : P[i] # Q[i]
    BY <1>5, <1>13
  <2>4. \A i \in 2 .. n : Leads(depth + 1, P[i], depth + 1) /\ Leads(depth + 1, Q[i], depth + 1)
    <3>1. \A i \in 2 .. n : i \in 1 .. n /\ i # 1
      BY <1>11
    <3> QED
      BY <1>9, <3>1
  <2>5. Tells(depth + 1, FlattenSeq(P), FlattenSeq(Q), x, y)
    BY ONLY <1>12, <2>1, <2>2, <2>3, <2>4, PiecesTell
  <2> QED
    BY <1>2, <2>5
<1>15. Tells(depth, a, b, x, y)
  <2>1. depth + 1 \in Nat /\ depth <= depth + 1
    OBVIOUS
  <2> QED
    BY <1>14, <2>1, ApartBelow DEF Tells
<1>16. OpensAlike(depth, a, b)
  <2>1. CASE n = 0
    <3>1. x = y
      BY <1>5, <2>1
    <3> QED
      BY <1>15, <3>1 DEF Tells, OpensAlike
  <2>2. CASE n = 1
    <3>1. 1 \in 1 .. n /\ Len(P) > 0 /\ Len(Q) > 0 /\ Len(P) = 1 /\ Len(Q) = 1
      BY <1>12, <2>2
    <3>2. PICK p : FlattenSeq(P) = P[1] \o p /\ p = <<>>
      BY <1>12, <3>1, FlattenFirst
    <3>3. PICK q : FlattenSeq(Q) = Q[1] \o q /\ q = <<>>
      BY <1>12, <3>1, FlattenFirst
    <3>4. P[1] = s(1) /\ Q[1] = t(1) /\ IsList(s(1)) /\ IsList(t(1))
      BY <1>7, <1>9, <3>1
    <3>5. a = s(1) /\ b = t(1)
      BY <1>2, <3>2, <3>3, <3>4, ConcatEmpty
    <3> QED
      BY <1>3, <3>1, <3>5 DEF Begins
  <2>3. CASE n > 1
    <3>1. 1 \in 1 .. n /\ 2 \in 1 .. n /\ Len(P) > 0 /\ Len(Q) > 0 /\ Len(P) > 1 /\ Len(Q) > 1
      BY <1>11, <1>12, <2>3
    <3>2. Len(P[2]) > 0 /\ Len(Q[2]) > 0 /\ IsList(P[1]) /\ IsList(Q[1])
      BY <1>9, <3>1
    <3>3. PICK p : IsList(p) /\ FlattenSeq(P) = P[1] \o p /\ Len(p) > 0
      BY <1>12, <3>1, <3>2, FlattenFirst
    <3>4. PICK q : IsList(q) /\ FlattenSeq(Q) = Q[1] \o q /\ Len(q) > 0
      BY <1>12, <3>1, <3>2, FlattenFirst
    <3>5. Len(a) = Len(P[1]) + Len(p) /\ Len(b) = Len(Q[1]) + Len(q)
      BY <1>2, <3>2, <3>3, <3>4, ConcatLists
    <3>6. Len(P[1]) \in Nat /\ Len(p) \in Nat /\ Len(Q[1]) \in Nat /\ Len(q) \in Nat
      BY <3>2, <3>3, <3>4, ListIs
    <3>7. Len(a) # 0 /\ Len(b) # 0
      BY <3>3, <3>4, <3>5, <3>6
    <3> QED
      BY <3>7 DEF OpensAlike
  <2> QED
    BY <1>11, <2>1, <2>2, <2>3
<1> QED
  BY <1>15, <1>16 DEF MessageTells, a, b, x, y

\* The texts of the messages in a message, level by level.
LEMMA TextsAre ==
  ASSUME NEW root, NEW depth, NEW simple
  PROVE  \A n \in 1 .. MaxDepth :
           TextsIn(root, depth, simple)[n] =
             [m \in MessagesBelow(root, MaxDepth - n) |->
                FieldsToString(TextsIn(root, depth, simple)[n - 1], m, depth + MaxDepth - n, simple)]
<1> DEFINE N == MaxDepth
           b == <<>>
           next(k, s) == [m \in MessagesBelow(root, MaxDepth - k) |-> FieldsToString(s, m, depth + MaxDepth - k, simple)]
           body(h, n) == [k \in 0 .. n |-> IF k = 0 THEN b ELSE next(k, h[k - 1])]
           made == CHOOSE h : h = body(h, N)
<1>0. TextsIn(root, depth, simple) = made
  BY DEF TextsIn
<1>1. N \in Nat
  BY DepthAssumption
<1> HIDE DEF N, b, next
<1> DEFINE T == {n \in 0 .. N : \E h : h = body(h, n)}
<1>2. 0 \in T
  <2> DEFINE h == [k \in 0 .. 0 |-> b]
  <2>1. h = body(h, 0)
    OBVIOUS
  <2> HIDE DEF h, body
  <2> QED
    BY <1>1, <2>1
<1>3. ASSUME NEW n \in 0 .. N - 1, n \in T PROVE n + 1 \in T
  <2>1. PICK h : h = body(h, n)
    BY <1>3
  <2> DEFINE f == [k \in 0 .. n + 1 |-> IF k = n + 1 THEN next(k, h[n]) ELSE h[k]]
  <2>2. ASSUME NEW k \in 0 .. n + 1 PROVE f[k] = IF k = 0 THEN b ELSE next(k, f[k - 1])
    <3>1. CASE k = n + 1
      <4>1. k # 0 /\ k - 1 = n /\ n \in 0 .. n + 1 /\ n # n + 1
        BY <1>1, <3>1
      <4>2. f[k] = next(k, h[n]) /\ f[n] = h[n]
        BY <3>1, <4>1
      <4> HIDE DEF f
      <4> QED
        BY <4>1, <4>2
    <3>2. CASE k # n + 1
      <4>1. k \in 0 .. n /\ (k # 0 => k - 1 \in 0 .. n + 1 /\ k - 1 # n + 1)
        BY <1>1, <3>2
      <4>2. h[k] = IF k = 0 THEN b ELSE next(k, h[k - 1])
        BY <2>1, <4>1
      <4>3. f[k] = h[k] /\ (k # 0 => f[k - 1] = h[k - 1])
        BY <3>2, <4>1
      <4> HIDE DEF f
      <4> QED
        BY <4>2, <4>3
    <3> QED
      BY <3>1, <3>2
  <2>3. f = body(f, n + 1)
    <3>1. f = [k \in 0 .. n + 1 |-> f[k]]
      OBVIOUS
    <3> HIDE DEF f
    <3> QED
      BY <2>2, <3>1
  <2>4. n + 1 \in 0 .. N
    BY <1>1
  <2> HIDE DEF f, body
  <2> QED
    BY <2>3, <2>4
<1>4. body(made, N) = made
  <2>1. 0 .. N \subseteq T
    <3> HIDE DEF T
    <3> QED
      BY <1>1, <1>2, <1>3, Induction
  <2>2. \E h : h = body(h, N)
    BY <1>1, <2>1
  <2> HIDE DEF body
  <2> QED
    BY <2>2
<1> HIDE DEF made, T
<1>5. \A k \in 1 .. N : made[k] = next(k, made[k - 1])
  <2>1. \A k \in 0 .. N : made[k] = IF k = 0 THEN b ELSE next(k, made[k - 1])
    BY <1>4
  <2>2. \A k \in 1 .. N : k \in 0 .. N /\ k # 0
    BY <1>1
  <2> QED
    BY <2>1, <2>2
<1> QED
  BY <1>0, <1>5 DEF N, next

\* What is shown of the messages in a message, level by level.
LEMMA ShownAre ==
  ASSUME NEW root, NEW simple
  PROVE  \A n \in 1 .. MaxDepth :
           ShownIn(root, simple)[n] =
             [m \in MessagesBelow(root, MaxDepth - n) |-> ShownFields(ShownIn(root, simple)[n - 1], m, simple)]
<1> DEFINE N == MaxDepth
           b == <<>>
           next(k, s) == [m \in MessagesBelow(root, MaxDepth - k) |-> ShownFields(s, m, simple)]
           body(h, n) == [k \in 0 .. n |-> IF k = 0 THEN b ELSE next(k, h[k - 1])]
           made == CHOOSE h : h = body(h, N)
<1>0. ShownIn(root, simple) = made
  BY DEF ShownIn
<1>1. N \in Nat
  BY DepthAssumption
<1> HIDE DEF N, b, next
<1> DEFINE T == {n \in 0 .. N : \E h : h = body(h, n)}
<1>2. 0 \in T
  <2> DEFINE h == [k \in 0 .. 0 |-> b]
  <2>1. h = body(h, 0)
    OBVIOUS
  <2> HIDE DEF h, body
  <2> QED
    BY <1>1, <2>1
<1>3. ASSUME NEW n \in 0 .. N - 1, n \in T PROVE n + 1 \in T
  <2>1. PICK h : h = body(h, n)
    BY <1>3
  <2> DEFINE f == [k \in 0 .. n + 1 |-> IF k = n + 1 THEN next(k, h[n]) ELSE h[k]]
  <2>2. ASSUME NEW k \in 0 .. n + 1 PROVE f[k] = IF k = 0 THEN b ELSE next(k, f[k - 1])
    <3>1. CASE k = n + 1
      <4>1. k # 0 /\ k - 1 = n /\ n \in 0 .. n + 1 /\ n # n + 1
        BY <1>1, <3>1
      <4>2. f[k] = next(k, h[n]) /\ f[n] = h[n]
        BY <3>1, <4>1
      <4> HIDE DEF f
      <4> QED
        BY <4>1, <4>2
    <3>2. CASE k # n + 1
      <4>1. k \in 0 .. n /\ (k # 0 => k - 1 \in 0 .. n + 1 /\ k - 1 # n + 1)
        BY <1>1, <3>2
      <4>2. h[k] = IF k = 0 THEN b ELSE next(k, h[k - 1])
        BY <2>1, <4>1
      <4>3. f[k] = h[k] /\ (k # 0 => f[k - 1] = h[k - 1])
        BY <3>2, <4>1
      <4> HIDE DEF f
      <4> QED
        BY <4>2, <4>3
    <3> QED
      BY <3>1, <3>2
  <2>3. f = body(f, n + 1)
    <3>1. f = [k \in 0 .. n + 1 |-> f[k]]
      OBVIOUS
    <3> HIDE DEF f
    <3> QED
      BY <2>2, <3>1
  <2>4. n + 1 \in 0 .. N
    BY <1>1
  <2> HIDE DEF f, body
  <2> QED
    BY <2>3, <2>4
<1>4. body(made, N) = made
  <2>1. 0 .. N \subseteq T
    <3> HIDE DEF T
    <3> QED
      BY <1>1, <1>2, <1>3, Induction
  <2>2. \E h : h = body(h, N)
    BY <1>1, <2>1
  <2> HIDE DEF body
  <2> QED
    BY <2>2
<1> HIDE DEF made, T
<1>5. \A k \in 1 .. N : made[k] = next(k, made[k - 1])
  <2>1. \A k \in 0 .. N : made[k] = IF k = 0 THEN b ELSE next(k, made[k - 1])
    BY <1>4
  <2>2. \A k \in 1 .. N : k \in 0 .. N /\ k # 0
    BY <1>1
  <2> QED
    BY <2>1, <2>2
<1> QED
  BY <1>0, <1>5 DEF N, next

----------------------------------------------------------------------------
(* The text of a message.                                                  *)

\* The messages in a message have types.
LEMMA BelowHasTypes ==
  ASSUME NEW type, NEW msg, Fits(type, msg), Quoteless(type, msg)
  PROVE  \A n \in 0 .. MaxDepth : \A p \in MessagesBelow(<<type, msg>>, n) :
           /\ p = <<p[1], p[2]>> /\ p[1] \in DOMAIN MessageTypes /\ Readable(p)
           /\ n < MaxDepth => SubMessages(p) \subseteq MessagesBelow(<<type, msg>>, n + 1)
<1> DEFINE N == MaxDepth
           below(n) == MessagesBelow(<<type, msg>>, n)
           T == {n \in 0 .. N : \A p \in below(n) : p = <<p[1], p[2]>> /\ p[1] \in DOMAIN MessageTypes}
<1>1. N \in Nat
  BY DepthAssumption
<1>2. below(0) = {<<type, msg>>} /\ \A n \in 1 .. N : below(n) = UNION {SubMessages(p) : p \in below(n - 1)}
  BY MessagesBelowIs
<1>3. type \in DOMAIN MessageTypes /\ \A n \in 0 .. N : \A p \in below(n) : Readable(p)
  BY DEF Fits, Quoteless, Readable
<1> HIDE DEF N, below
<1>4. 0 \in T
  BY <1>1, <1>2, <1>3
<1>5. ASSUME NEW n \in 0 .. N - 1, n \in T PROVE n + 1 \in T
  <2>1. n + 1 \in 1 .. N /\ n + 1 \in 0 .. N /\ (n + 1) - 1 = n
    BY <1>1
  <2>2. below(n + 1) = UNION {SubMessages(p) : p \in below(n)}
    BY <1>2, <2>1
  <2>3. ASSUME NEW q \in below(n + 1) PROVE q = <<q[1], q[2]>> /\ q[1] \in DOMAIN MessageTypes
    <3>1. PICK p \in below(n) : q \in SubMessages(p)
      BY <2>2
    <3>2. p[1] \in DOMAIN MessageTypes
      BY <1>5, <3>1
    <3>3. PICK fd \in Fields(p[1]) : fd.kind = "message" /\ \E v : q = <<fd.of, v>>
      BY <3>1 DEF SubMessages
    <3>4. fd.of \in DOMAIN MessageTypes
      BY <3>2, <3>3, TypesAssumption
    <3> QED
      BY <3>3, <3>4
  <2> QED
    BY <2>1, <2>3
<1>6. 0 .. N \subseteq T
  <2> HIDE DEF T
  <2> QED
    BY <1>1, <1>4, <1>5, Induction
<1>7. ASSUME NEW n \in 0 .. N, NEW p \in below(n), n < N PROVE SubMessages(p) \subseteq below(n + 1)
  <2>1. n + 1 \in 1 .. N /\ (n + 1) - 1 = n
    BY <1>1, <1>7
  <2> QED
    BY <1>2, <2>1
<1> QED
  BY <1>3, <1>6, <1>7 DEF N, below

\* The texts of the messages n levels from the innermost ones.
LevelTells(n, a, b, depth, simple) ==
  \A p \in MessagesBelow(a, MaxDepth - n) : \A q \in MessagesBelow(b, MaxDepth - n) :
    p[1] = q[1] => MessageTells(depth + MaxDepth - n,
                                TextsIn(a, depth, simple)[n][p], TextsIn(b, depth, simple)[n][q],
                                ShownIn(a, simple)[n][p], ShownIn(b, simple)[n][q])

LevelTexts(n, a, depth, simple) ==
  \A p \in MessagesBelow(a, MaxDepth - n) : IsList(TextsIn(a, depth, simple)[n][p])

LEMMA NextLevelTells ==
  ASSUME NEW type, NEW m, Fits(type, m), Quoteless(type, m),
         NEW other, NEW k, Fits(other, k), Quoteless(other, k), NEW depth \in Nat, NEW simple,
         NEW n \in 0 .. MaxDepth - 1, LevelTells(n, <<type, m>>, <<other, k>>, depth, simple),
         LevelTexts(n, <<type, m>>, depth, simple), LevelTexts(n, <<other, k>>, depth, simple)
  PROVE  LevelTells(n + 1, <<type, m>>, <<other, k>>, depth, simple)
<1> DEFINE a == <<type, m>>
           b == <<other, k>>
           l == MaxDepth - (n + 1)
           d == depth + MaxDepth - (n + 1)
           A == TextsIn(a, depth, simple)[n]
           B == TextsIn(b, depth, simple)[n]
           X == ShownIn(a, simple)[n]
           Y == ShownIn(b, simple)[n]
<1>1. MaxDepth \in Nat
  BY DepthAssumption
<1>2. /\ n + 1 \in 1 .. MaxDepth /\ (n + 1) - 1 = n /\ l \in 0 .. MaxDepth /\ l < MaxDepth /\ l + 1 = MaxDepth - n
      /\ d \in Nat /\ d + 1 = depth + MaxDepth - n
  BY <1>1
<1>3. /\ TextsIn(a, depth, simple)[n + 1] = [p \in MessagesBelow(a, l) |-> FieldsToString(A, p, d, simple)]
      /\ TextsIn(b, depth, simple)[n + 1] = [q \in MessagesBelow(b, l) |-> FieldsToString(B, q, d, simple)]
  <2>1. ASSUME NEW root
        PROVE  TextsIn(root, depth, simple)[n + 1] =
                 [p \in MessagesBelow(root, l) |-> FieldsToString(TextsIn(root, depth, simple)[n], p, d, simple)]
    <3> DEFINE i == n + 1
    <3>1. \A j \in 1 .. MaxDepth :
            TextsIn(root, depth, simple)[j] =
              [p \in MessagesBelow(root, MaxDepth - j) |->
                 FieldsToString(TextsIn(root, depth, simple)[j - 1], p, depth + MaxDepth - j, simple)]
      BY TextsAre
    <3>2. i \in 1 .. MaxDepth /\ i - 1 = n /\ l = MaxDepth - i /\ d = depth + MaxDepth - i
      BY <1>2
    <3> HIDE DEF i, l, d
    <3>3. TextsIn(root, depth, simple)[i] =
            [p \in MessagesBelow(root, MaxDepth - i) |->
               FieldsToString(TextsIn(root, depth, simple)[i - 1], p, depth + MaxDepth - i, simple)]
      BY <3>1, <3>2
    <3>4. TextsIn(root, depth, simple)[i] =
            [p \in MessagesBelow(root, l) |-> FieldsToString(TextsIn(root, depth, simple)[n], p, d, simple)]
      BY <3>2, <3>3
    <3> QED
      BY <3>4 DEF i
  <2> QED
    BY <2>1
<1>4. /\ ShownIn(a, simple)[n + 1] = [p \in MessagesBelow(a, l) |-> ShownFields(X, p, simple)]
      /\ ShownIn(b, simple)[n + 1] = [q \in MessagesBelow(b, l) |-> ShownFields(Y, q, simple)]
  <2>1. ShownIn(a, simple)[n + 1] = [p \in MessagesBelow(a, l) |-> ShownFields(X, p, simple)]
    <3> DEFINE i == n + 1
    <3>1. \A j \in 1 .. MaxDepth :
            ShownIn(a, simple)[j] =
              [p \in MessagesBelow(a, MaxDepth - j) |-> ShownFields(ShownIn(a, simple)[j - 1], p, simple)]
      BY ShownAre
    <3>2. i \in 1 .. MaxDepth /\ i - 1 = n
      BY <1>2
    <3> HIDE DEF i
    <3>3. ShownIn(a, simple)[i] =
            [p \in MessagesBelow(a, MaxDepth - i) |-> ShownFields(ShownIn(a, simple)[i - 1], p, simple)]
      BY <3>1, <3>2
    <3>4. ShownIn(a, simple)[i] =
            [p \in MessagesBelow(a, MaxDepth - i) |-> ShownFields(X, p, simple)]
      BY <3>2, <3>3
    <3> QED
      BY <3>4 DEF i
  <2>2. ShownIn(b, simple)[n + 1] = [q \in MessagesBelow(b, l) |-> ShownFields(Y, q, simple)]
    <3> DEFINE i == n + 1
    <3>1. \A j \in 1 .. MaxDepth :
            ShownIn(b, simple)[j] =
              [q \in MessagesBelow(b, MaxDepth - j) |-> ShownFields(ShownIn(b, simple)[j - 1], q, simple)]
      BY ShownAre
    <3>2. i \in 1 .. MaxDepth /\ i - 1 = n
      BY <1>2
    <3> HIDE DEF i
    <3>3. ShownIn(b, simple)[i] =
            [q \in MessagesBelow(b, MaxDepth - i) |-> ShownFields(ShownIn(b, simple)[i - 1], q, simple)]
      BY <3>1, <3>2
    <3>4. ShownIn(b, simple)[i] =
            [q \in MessagesBelow(b, MaxDepth - i) |-> ShownFields(Y, q, simple)]
      BY <3>2, <3>3
    <3> QED
      BY <3>4 DEF i
  <2> QED
    BY <2>1, <2>2
<1>5. SubsTell(d + 1, A, B, X, Y, MessagesBelow(a, l + 1), MessagesBelow(b, l + 1))
  <2>1. /\ \A p \in MessagesBelow(a, MaxDepth - n) : IsList(A[p])
        /\ \A q \in MessagesBelow(b, MaxDepth - n) : IsList(B[q])
    BY DEF LevelTexts
  <2>2. \A p \in MessagesBelow(a, MaxDepth - n) : \A q \in MessagesBelow(b, MaxDepth - n) :
          p[1] = q[1] => MessageTells(depth + MaxDepth - n, A[p], B[q], X[p], Y[q])
    BY DEF LevelTells
  <2>3. SubsTell(depth + MaxDepth - n, A, B, X, Y, MessagesBelow(a, MaxDepth - n), MessagesBelow(b, MaxDepth - n))
    BY <2>1, <2>2 DEF SubsTell
  <2> HIDE DEF A, B, X, Y, a, b, d, l
  <2> QED
    BY <1>2, <2>3
<1>6. ASSUME NEW p \in MessagesBelow(a, l), NEW q \in MessagesBelow(b, l), p[1] = q[1]
      PROVE  MessageTells(d, FieldsToString(A, p, d, simple), FieldsToString(B, q, d, simple),
                          ShownFields(X, p, simple), ShownFields(Y, q, simple))
  <2>1. /\ p = <<p[1], p[2]>> /\ p[1] \in DOMAIN MessageTypes /\ Readable(p)
        /\ SubMessages(p) \subseteq MessagesBelow(a, l + 1)
    BY <1>2, BelowHasTypes
  <2>2. /\ q = <<p[1], q[2]>> /\ Readable(q)
        /\ SubMessages(q) \subseteq MessagesBelow(b, l + 1)
    BY <1>2, <1>6, BelowHasTypes
  <2>3. /\ \A r \in MessagesBelow(a, l + 1) : Readable(r)
        /\ \A r \in MessagesBelow(b, l + 1) : Readable(r)
    <3>1. l + 1 \in 0 .. MaxDepth
      BY <1>1, <1>2
    <3> QED
      BY <3>1, BelowHasTypes
  <2> HIDE DEF A, B, X, Y, a, b, d, l
  <2>4. SubsTell(d + 1, A, B, X, Y, SubMessages(p), SubMessages(q))
    BY <1>5, <2>1, <2>2 DEF SubsTell
  <2>5. /\ \A r \in SubMessages(p) : Readable(r)
        /\ \A r \in SubMessages(q) : Readable(r)
    BY <2>1, <2>2, <2>3
  <2> DEFINE t == p[1]
             v == p[2]
             w == q[2]
  <2>6. p = <<t, v>> /\ q = <<t, w>> /\ t \in DOMAIN MessageTypes
    BY <2>1, <2>2
  <2> HIDE DEF t, v, w
  <2>7. Readable(<<t, v>>) /\ Readable(<<t, w>>)
    BY <2>1, <2>2, <2>6
  <2>8. SubsTell(d + 1, A, B, X, Y, SubMessages(<<t, v>>), SubMessages(<<t, w>>))
    BY <2>4, <2>6
  <2>9. /\ \A r \in SubMessages(<<t, v>>) : Readable(r)
        /\ \A r \in SubMessages(<<t, w>>) : Readable(r)
    BY <2>5, <2>6
  <2>10. d \in Nat
    BY <1>2
  <2>11. MessageTells(d, FieldsToString(A, <<t, v>>, d, simple), FieldsToString(B, <<t, w>>, d, simple),
                      ShownFields(X, <<t, v>>, simple), ShownFields(Y, <<t, w>>, simple))
    BY <2>6, <2>7, <2>8, <2>9, <2>10, FieldsTell
  <2> QED
    BY <2>6, <2>11
<1>7. ASSUME NEW p \in MessagesBelow(a, l), NEW q \in MessagesBelow(b, l), p[1] = q[1]
      PROVE  MessageTells(d, TextsIn(a, depth, simple)[n + 1][p], TextsIn(b, depth, simple)[n + 1][q],
                          ShownIn(a, simple)[n + 1][p], ShownIn(b, simple)[n + 1][q])
  <2> HIDE DEF A, B, X, Y, a, b, d, l
  <2>1. TextsIn(a, depth, simple)[n + 1][p] = FieldsToString(A, p, d, simple)
        /\ TextsIn(b, depth, simple)[n + 1][q] = FieldsToString(B, q, d, simple)
    BY <1>3
  <2>2. ShownIn(a, simple)[n + 1][p] = ShownFields(X, p, simple)
        /\ ShownIn(b, simple)[n + 1][q] = ShownFields(Y, q, simple)
    BY <1>4
  <2> QED
    BY <1>6, <1>7, <2>1, <2>2
<1> QED
  BY <1>7 DEF LevelTells

\* The text of a message tells what is shown of it, whatever is in it.
LEMMA LevelsTell ==
  ASSUME NEW type, NEW m, Fits(type, m), Quoteless(type, m),
         NEW other, NEW k, Fits(other, k), Quoteless(other, k), NEW depth \in Nat, NEW simple
  PROVE  LevelTells(MaxDepth, <<type, m>>, <<other, k>>, depth, simple)
<1> DEFINE a == <<type, m>>
           b == <<other, k>>
           S == {n \in 0 .. MaxDepth : /\ LevelTells(n, a, a, depth, simple)
                                       /\ LevelTells(n, b, b, depth, simple)
                                       /\ LevelTells(n, a, b, depth, simple)}
<1>1. MaxDepth \in Nat
  BY DepthAssumption
<1>2. 0 \in S
  <2>1. MaxDepth - 0 = MaxDepth /\ MessagesBelow(a, MaxDepth) = {} /\ MessagesBelow(b, MaxDepth) = {}
    BY <1>1 DEF Fits
  <2> HIDE DEF a, b
  <2>2. LevelTells(0, a, a, depth, simple) /\ LevelTells(0, b, b, depth, simple) /\ LevelTells(0, a, b, depth, simple)
    BY <2>1 DEF LevelTells
  <2> QED
    BY <1>1, <2>2
<1>3. ASSUME NEW n \in 0 .. MaxDepth - 1, n \in S PROVE n + 1 \in S
  <2>1. n + 1 \in 0 .. MaxDepth
    BY <1>1
  <2>2. LevelTells(n, a, a, depth, simple) /\ LevelTells(n, b, b, depth, simple) /\ LevelTells(n, a, b, depth, simple)
    BY <1>3
  <2>3. LevelTexts(n, a, depth, simple) /\ LevelTexts(n, b, depth, simple)
    <3> HIDE DEF a, b, S
    <3> QED
      BY <2>2 DEF LevelTells, LevelTexts, MessageTells, Tells
  <2>4. LevelTells(n + 1, a, a, depth, simple)
    BY <2>2, <2>3, NextLevelTells
  <2>5. LevelTells(n + 1, b, b, depth, simple)
    BY <2>2, <2>3, NextLevelTells
  <2>6. LevelTells(n + 1, a, b, depth, simple)
    BY <2>2, <2>3, NextLevelTells
  <2> HIDE DEF a, b
  <2> QED
    BY <2>1, <2>4, <2>5, <2>6
<1>4. 0 .. MaxDepth \subseteq S
  <2> HIDE DEF S
  <2> QED
    BY <1>1, <1>2, <1>3, Induction
<1> QED
  BY <1>1, <1>4

\* Whatever the types and the messages: the texts for humans of two messages of a
\* type in which no string holds a quote are the same if, and only if, what Shown says
\* of them is the same.  Without quotes nothing in a message, line breaks in its strings
\* included, can make its text look like that of another one.
THEOREM TextIsShown ==
  ASSUME NEW type, NEW m, Fits(type, m), Quoteless(type, m), NEW k, Fits(type, k), Quoteless(type, k),
         NEW depth \in Nat, NEW simple
  PROVE  MessageToString(type, m, depth, simple) = MessageToString(type, k, depth, simple) <=>
           Shown(type, m, simple) = Shown(type, k, simple)
<1> DEFINE a == <<type, m>>
           b == <<type, k>>
<1>1. MaxDepth \in Nat /\ MaxDepth - MaxDepth = 0
  BY DepthAssumption
<1>2. a \in MessagesBelow(a, 0) /\ b \in MessagesBelow(b, 0) /\ a[1] = b[1]
  BY MessagesBelowIs
<1>3. LevelTells(MaxDepth, a, b, depth, simple)
  BY LevelsTell
<1>4. MessageTells(depth + MaxDepth - MaxDepth,
                   TextsIn(a, depth, simple)[MaxDepth][a], TextsIn(b, depth, simple)[MaxDepth][b],
                   ShownIn(a, simple)[MaxDepth][a], ShownIn(b, simple)[MaxDepth][b])
  <2> HIDE DEF a, b
  <2> QED
    BY <1>1, <1>2, <1>3 DEF LevelTells
<1>5. Tells(depth + MaxDepth - MaxDepth,
            MessageToString(type, m, depth, simple), MessageToString(type, k, depth, simple),
            Shown(type, m, simple), Shown(type, k, simple))
  BY <1>4 DEF MessageToString, Shown, MessageTells
<1> QED
  BY <1>5, ApartSame DEF Tells

=============================================================================
