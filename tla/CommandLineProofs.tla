-------------------------- MODULE CommandLineProofs --------------------------
(***************************************************************************)
(* What the argument parser does with every grammar and every text.        *)
(*                                                                         *)
(* The result of every element is about the text it was given (Faithful):  *)
(* what it matched is the beginning of the text, and its candidates        *)
(* continue the text or stop on the way.  This is shown by induction over  *)
(* the height of the element, with an induction of their own for the       *)
(* rounds of a repetition and the children of a concatenation.  Together   *)
(* with it goes that an element which has to take something does, which is *)
(* why repetitions end.  With inductions of the same form, a successful    *)
(* result ends where the language of the grammar has an end (Sound), and   *)
(* what is reported to be incomplete, or has candidates, can be continued  *)
(* in that language (Honest).  What the shells make of a candidate keeps   *)
(* what it continues.                                                      *)
(***************************************************************************)
EXTENDS CommandLine, NaturalRecursion, FiniteSetTheorems

----------------------------------------------------------------------------
(* Texts.                                                                  *)

LEMMA PrefixIs ==
  ASSUME NEW s \in Texts, NEW t \in Texts
  PROVE  IsPrefix(s, t) <=> Len(s) <= Len(t) /\ \A i \in 1 .. Len(s) : s[i] = t[i]
<1>1. ASSUME IsPrefix(s, t) PROVE Len(s) <= Len(t) /\ \A i \in 1 .. Len(s) : s[i] = t[i]
  <2>1. Len(s) \in Nat /\ Len(s) <= Len(t) /\ SubSeq(s, 1, Len(s)) = SubSeq(t, 1, Len(s))
    BY <1>1 DEF IsPrefix, Texts
  <2>2. ASSUME NEW i \in 1 .. Len(s) PROVE s[i] = t[i]
    <3>1. SubSeq(s, 1, Len(s))[i] = s[i] /\ SubSeq(t, 1, Len(s))[i] = t[i]
      BY <2>1 DEF Texts
    <3> QED
      BY <2>1, <3>1
  <2> QED
    BY <2>1, <2>2
<1>2. ASSUME Len(s) <= Len(t), \A i \in 1 .. Len(s) : s[i] = t[i] PROVE IsPrefix(s, t)
  <2>1. SubSeq(s, 1, Len(s)) = SubSeq(t, 1, Len(s))
    BY <1>2 DEF Texts
  <2> QED
    BY <1>2, <2>1 DEF IsPrefix
<1> QED
  BY <1>1, <1>2

\* The beginning of a text.
LEMMA BeginningIs ==
  ASSUME NEW t \in Texts, NEW n \in 0 .. Len(t)
  PROVE  /\ SubSeq(t, 1, n) \in Texts /\ Len(SubSeq(t, 1, n)) = n
         /\ \A i \in 1 .. n : SubSeq(t, 1, n)[i] = t[i]
         /\ IsPrefix(SubSeq(t, 1, n), t)
<1>1. /\ SubSeq(t, 1, n) \in Texts /\ Len(SubSeq(t, 1, n)) = n
      /\ \A i \in 1 .. n : SubSeq(t, 1, n)[i] = t[i]
  BY DEF Texts
<1>2. Len(t) \in Nat /\ n <= Len(t)
  BY DEF Texts
<1> DEFINE s == SubSeq(t, 1, n)
<1>3. IsPrefix(s, t)
  <2> HIDE DEF s
  <2>1. s \in Texts /\ Len(s) = n /\ \A i \in 1 .. n : s[i] = t[i]
    BY <1>1 DEF s
  <2> QED
    BY <1>2, <2>1, PrefixIs
<1> QED
  BY <1>1, <1>3

LEMMA FromIs ==
  ASSUME NEW t \in Texts, NEW n \in 0 .. Len(t)
  PROVE  /\ From(t, n) \in Texts /\ Len(From(t, n)) = Len(t) - n
         /\ \A i \in 1 .. Len(t) - n : From(t, n)[i] = t[n + i]
  BY DEF Texts, From

LEMMA EmptyText == <<>> \in Texts /\ Len(<<>>) = 0
  BY DEF Texts

LEMMA JoinIs ==
  ASSUME NEW s \in Texts, NEW t \in Texts
  PROVE  /\ s \o t \in Texts /\ Len(s \o t) = Len(s) + Len(t)
         /\ \A i \in 1 .. Len(s) : (s \o t)[i] = s[i]
         /\ \A i \in 1 .. Len(t) : (s \o t)[Len(s) + i] = t[i]
  BY DEF Texts

\* What is in front of a beginning of the rest is a beginning of the text, and what
\* is in front of a continuation of the rest is a continuation of the text.
LEMMA InFront ==
  ASSUME NEW t \in Texts, NEW n \in 0 .. Len(t), NEW s \in Texts
  PROVE  /\ IsPrefix(s, From(t, n)) => IsPrefix(SubSeq(t, 1, n) \o s, t)
         /\ IsPrefix(From(t, n), s) => IsPrefix(t, SubSeq(t, 1, n) \o s)
<1> DEFINE u == SubSeq(t, 1, n)
           v == From(t, n)
           w == u \o s
<1>1. u \in Texts /\ Len(u) = n /\ \A i \in 1 .. n : u[i] = t[i]
  BY BeginningIs
<1>2. v \in Texts /\ Len(v) = Len(t) - n /\ \A i \in 1 .. Len(t) - n : v[i] = t[n + i]
  BY FromIs
<1>3. /\ w \in Texts /\ Len(w) = n + Len(s)
      /\ \A i \in 1 .. n : w[i] = u[i]
      /\ \A i \in 1 .. Len(s) : w[n + i] = s[i]
  <2> HIDE DEF u
  <2> QED
    BY <1>1, JoinIs
<1>4. Len(t) \in Nat /\ Len(s) \in Nat /\ n \in Nat
  BY DEF Texts
<1> HIDE DEF u, v, w
<1>5. ASSUME IsPrefix(s, v) PROVE IsPrefix(w, t)
  <2>1. Len(s) <= Len(v) /\ \A i \in 1 .. Len(s) : s[i] = v[i]
    BY <1>2, <1>5, PrefixIs
  <2>2. ASSUME NEW i \in 1 .. Len(w) PROVE w[i] = t[i]
    <3>1. CASE i <= n
      BY <1>1, <1>3, <1>4, <3>1
    <3>2. CASE i > n
      <4>1. i - n \in 1 .. Len(s) /\ n + (i - n) = i /\ i - n \in 1 .. Len(t) - n
        BY <1>2, <1>3, <1>4, <2>1, <3>2
      <4>2. w[i] = s[i - n] /\ s[i - n] = v[i - n] /\ v[i - n] = t[i]
        BY <1>2, <1>3, <2>1, <4>1
      <4> QED
        BY <4>2
    <3> QED
      BY <1>4, <3>1, <3>2
  <2>3. Len(w) <= Len(t)
    BY <1>2, <1>3, <1>4, <2>1
  <2> QED
    BY <1>3, <2>2, <2>3, PrefixIs
<1>6. ASSUME IsPrefix(v, s) PROVE IsPrefix(t, w)
  <2>1. Len(v) <= Len(s) /\ \A i \in 1 .. Len(v) : v[i] = s[i]
    BY <1>2, <1>6, PrefixIs
  <2>2. ASSUME NEW i \in 1 .. Len(t) PROVE t[i] = w[i]
    <3>1. CASE i <= n
      BY <1>1, <1>3, <1>4, <3>1
    <3>2. CASE i > n
      <4>1. i - n \in 1 .. Len(s) /\ n + (i - n) = i /\ i - n \in 1 .. Len(t) - n
        BY <1>2, <1>3, <1>4, <2>1, <3>2
      <4>2. w[i] = s[i - n] /\ s[i - n] = v[i - n] /\ v[i - n] = t[i]
        BY <1>2, <1>3, <2>1, <4>1
      <4> QED
        BY <4>2
    <3> QED
      BY <1>4, <3>1, <3>2
  <2>3. Len(t) <= Len(w)
    BY <1>2, <1>3, <1>4, <2>1
  <2> QED
    BY <1>3, <2>2, <2>3, PrefixIs
<1> QED
  BY <1>5, <1>6 DEF u, v, w

\* Two matches behind one another are a match.
LEMMA Joined ==
  ASSUME NEW t \in Texts, NEW n \in 0 .. Len(t), NEW k \in 0 .. Len(t) - n
  PROVE  SubSeq(t, 1, n) \o SubSeq(From(t, n), 1, k) = SubSeq(t, 1, n + k)
<1> DEFINE u == SubSeq(t, 1, n)
           v == From(t, n)
           x == SubSeq(v, 1, k)
           w == SubSeq(t, 1, n + k)
           y == u \o x
<1>1. u \in Texts /\ Len(u) = n /\ \A i \in 1 .. n : u[i] = t[i]
  BY BeginningIs
<1>2. v \in Texts /\ Len(v) = Len(t) - n /\ \A i \in 1 .. Len(t) - n : v[i] = t[n + i]
  BY FromIs
<1>3. Len(t) \in Nat /\ n \in Nat /\ k \in Nat /\ n + k \in 0 .. Len(t) /\ k \in 0 .. Len(v)
  BY <1>2 DEF Texts
<1>4. x \in Texts /\ Len(x) = k /\ \A i \in 1 .. k : x[i] = v[i]
  BY <1>2, <1>3, BeginningIs
<1>5. w \in Texts /\ Len(w) = n + k /\ \A i \in 1 .. n + k : w[i] = t[i]
  BY <1>3, BeginningIs
<1>6. /\ y \in Texts /\ Len(y) = n + k
      /\ \A i \in 1 .. n : y[i] = u[i]
      /\ \A i \in 1 .. k : y[n + i] = x[i]
  <2> HIDE DEF u, x
  <2> QED
    BY <1>1, <1>4, JoinIs
<1> HIDE DEF u, v, w, x, y
<1>7. ASSUME NEW i \in 1 .. n + k PROVE y[i] = w[i]
  <2>1. CASE i <= n
    BY <1>1, <1>3, <1>5, <1>6, <2>1
  <2>2. CASE i > n
    <3>1. i - n \in 1 .. k /\ n + (i - n) = i /\ i - n \in 1 .. Len(t) - n
      BY <1>3, <2>2
    <3>2. y[i] = x[i - n] /\ x[i - n] = v[i - n] /\ v[i - n] = t[i]
      BY <1>2, <1>4, <1>6, <3>1
    <3> QED
      BY <1>5, <3>2
  <2> QED
    BY <1>3, <2>1, <2>2
<1>8. y = w
  BY <1>3, <1>5, <1>6, <1>7 DEF Texts
<1> QED
  BY <1>8 DEF u, v, w, x, y

LEMMA PrefixLonger ==
  ASSUME NEW t \in Texts, NEW c \in Texts, NEW s \in Texts, IsPrefix(t, c)
  PROVE  IsPrefix(t, c \o s)
<1>1. Len(t) <= Len(c) /\ \A i \in 1 .. Len(t) : t[i] = c[i]
  BY PrefixIs
<1>2. /\ c \o s \in Texts /\ Len(c \o s) = Len(c) + Len(s)
      /\ \A i \in 1 .. Len(c) : (c \o s)[i] = c[i]
  BY JoinIs
<1>3. Len(t) \in Nat /\ Len(c) \in Nat /\ Len(s) \in Nat
  BY DEF Texts
<1>4. Len(t) <= Len(c \o s) /\ \A i \in 1 .. Len(t) : t[i] = (c \o s)[i]
  BY <1>1, <1>2, <1>3
<1> QED
  BY <1>2, <1>4, PrefixIs

LEMMA SameText ==
  ASSUME NEW s \in Texts, NEW t \in Texts, Len(s) = Len(t), \A i \in 1 .. Len(s) : s[i] = t[i]
  PROVE  s = t
  BY DEF Texts

\* What is behind a beginning of what is behind a position.
LEMMA Further ==
  ASSUME NEW t \in Texts, NEW i \in 0 .. Len(t), NEW k \in 0 .. Len(t) - i
  PROVE  /\ i + k \in 0 .. Len(t)
         /\ From(From(t, i), k) = From(t, i + k)
         /\ SubSeq(From(t, i), 1, k) = SubSeq(t, i + 1, i + k)
         /\ \A n \in i + 1 .. i + k : n - i \in 1 .. k /\ From(t, i)[n - i] = t[n]
<1> DEFINE u == From(t, i)
           x == From(u, k)
           y == From(t, i + k)
           v == SubSeq(u, 1, k)
           w == SubSeq(t, i + 1, i + k)
<1>1. Len(t) \in Nat /\ i \in Nat /\ k \in Nat /\ i + k \in 0 .. Len(t) /\ Len(t) - i \in Nat
  BY DEF Texts
<1>2. u \in Texts /\ Len(u) = Len(t) - i /\ \A n \in 1 .. Len(t) - i : u[n] = t[i + n]
  BY FromIs
<1>3. x \in Texts /\ Len(x) = Len(u) - k /\ \A n \in 1 .. Len(u) - k : x[n] = u[k + n]
  <2>1. k \in 0 .. Len(u)
    BY <1>2
  <2> HIDE DEF u
  <2> QED
    BY <1>2, <2>1, FromIs
<1>4. y \in Texts /\ Len(y) = Len(t) - (i + k) /\ \A n \in 1 .. Len(t) - (i + k) : y[n] = t[i + k + n]
  <2> DEFINE j == i + k
  <2>1. j \in 0 .. Len(t)
    BY <1>1
  <2> HIDE DEF j
  <2>2. LET z == From(t, j) IN z \in Texts /\ Len(z) = Len(t) - j /\ \A n \in 1 .. Len(t) - j : z[n] = t[j + n]
    BY <2>1, FromIs
  <2> QED
    BY <2>2 DEF j
<1>5. v \in Texts /\ Len(v) = k /\ \A n \in 1 .. k : v[n] = u[n]
  <2>1. k \in 0 .. Len(u)
    BY <1>2
  <2> HIDE DEF u
  <2> QED
    BY <1>2, <2>1, BeginningIs
<1>6. w \in Texts /\ Len(w) = k /\ \A n \in 1 .. k : w[n] = t[i + n]
  BY <1>1 DEF Texts
<1> HIDE DEF u, v, w, x, y
<1>7. x = y
  <2>1. Len(x) = Len(y) /\ Len(x) \in Nat
    BY <1>1, <1>2, <1>3, <1>4
  <2>2. ASSUME NEW n \in 1 .. Len(x) PROVE x[n] = y[n]
    <3>1. k + n \in 1 .. Len(t) - i /\ i + (k + n) = i + k + n /\ n \in 1 .. Len(u) - k /\ n \in 1 .. Len(t) - (i + k)
      BY <1>1, <1>2, <1>3, <2>1
    <3> QED
      BY <1>2, <1>3, <1>4, <3>1
  <2> QED
    BY <1>3, <1>4, <2>1, <2>2, SameText
<1>8. v = w
  <2>1. ASSUME NEW n \in 1 .. k PROVE v[n] = w[n]
    <3>1. n \in 1 .. Len(t) - i
      BY <1>1
    <3> QED
      BY <1>2, <1>5, <1>6, <3>1
  <2> QED
    BY <1>5, <1>6, <2>1, SameText
<1>9. \A n \in i + 1 .. i + k : n - i \in 1 .. k /\ u[n - i] = t[n]
  <2> TAKE n \in i + 1 .. i + k
  <2>1. n - i \in 1 .. k /\ n - i \in 1 .. Len(t) - i /\ i + (n - i) = n
    BY <1>1
  <2> QED
    BY <1>2, <2>1
<1> QED
  BY <1>1, <1>7, <1>8, <1>9 DEF u, v, w, x, y

----------------------------------------------------------------------------
(* Sequences of sequences.                                                 *)

LEMMA FlattenIs ==
  ASSUME NEW S, NEW ss \in Seq(Seq(S))
  PROVE  FlattenSeq(ss) \in Seq(S)
<1> DEFINE N == Len(ss)
           body(f) == [i \in 1 .. N |-> IF i = 1 THEN ss[i] ELSE f[i - 1] \o ss[i]]
           flatten == CHOOSE f : f = body(f)
<1>1. N \in Nat /\ \A i \in 1 .. N : ss[i] \in Seq(S)
  OBVIOUS
<1>2. CASE N = 0
  <2>1. ss = <<>>
    BY <1>2
  <2> QED
    BY <1>2, <2>1 DEF FlattenSeq
<1>3. CASE N # 0
  <2>1. FlattenSeq(ss) = flatten[N]
    BY <1>3 DEF FlattenSeq
  <2> DEFINE M == N - 1
             step == [a \in (1 .. M) \X Seq(S) |-> a[2] \o ss[a[1] + 1]]
  <2>2. M \in Nat /\ 1 \in 1 .. N /\ \A i \in 1 .. M : i + 1 \in 1 .. N
    BY <1>1, <1>3
  <2>3. step \in [(1 .. M) \X Seq(S) -> Seq(S)]
    <3> SUFFICES ASSUME NEW a \in (1 .. M) \X Seq(S) PROVE a[2] \o ss[a[1] + 1] \in Seq(S)
      OBVIOUS
    <3>1. a[1] \in 1 .. M /\ a[2] \in Seq(S)
      OBVIOUS
    <3>2. ss[a[1] + 1] \in Seq(S)
      BY <1>1, <2>2, <3>1
    <3> QED
      BY <3>1, <3>2
  <2>4. \A i \in 1 .. M, x \in Seq(S) : step[<<i, x>>] = x \o ss[i + 1]
    OBVIOUS
  <2> HIDE DEF step, M, N
  <2>5. ss[1] \in Seq(S)
    BY <1>1, <2>2
  <2>6. Defines(M, Seq(S), ss[1], step)
    BY ONLY <2>2, <2>3, <2>5, Recursion
  <2>7. PICK g \in [0 .. M -> Seq(S)] : g[0] = ss[1] /\ \A i \in 1 .. M : g[i] = step[<<i, g[i - 1]>>]
    BY <2>6 DEF Defines
  <2> DEFINE f == [i \in 1 .. N |-> g[i - 1]]
  <2>8. \A i \in 1 .. N : f[i] = IF i = 1 THEN ss[i] ELSE f[i - 1] \o ss[i]
    <3> TAKE i \in 1 .. N
    <3>1. CASE i = 1
      BY <2>7, <3>1
    <3>2. CASE i # 1
      <4>1. i - 1 \in 1 .. M /\ i - 1 \in 1 .. N /\ (i - 1) - 1 \in 0 .. M /\ (i - 1) + 1 = i
        BY <1>1, <3>2 DEF M
      <4>2. f[i] = g[i - 1] /\ f[i - 1] = g[(i - 1) - 1]
        BY <4>1
      <4>3. g[i - 1] = g[(i - 1) - 1] \o ss[i]
        BY <2>4, <2>7, <4>1
      <4> QED
        BY <3>2, <4>2, <4>3
    <3> QED
      BY <3>1, <3>2
  <2>9. f = body(f)
    BY <2>8
  <2>10. flatten = body(flatten)
    <3> HIDE DEF body, f
    <3> QED
      BY <2>9
  <2>11. \A i \in 1 .. N : flatten[i] = IF i = 1 THEN ss[i] ELSE flatten[i - 1] \o ss[i]
    <3> HIDE DEF flatten
    <3> QED
      BY <2>10
  <2> HIDE DEF flatten, body, f
  <2> DEFINE T == {n \in 0 .. M : flatten[n + 1] \in Seq(S)}
  <2>12. 0 \in T
    BY <2>2, <2>5, <2>11
  <2>13. ASSUME NEW n \in 0 .. M - 1, n \in T PROVE n + 1 \in T
    <3>1. n + 1 \in 0 .. M /\ (n + 1) + 1 \in 1 .. N /\ (n + 1) + 1 # 1 /\ ((n + 1) + 1) - 1 = n + 1
      BY <1>1, <2>2 DEF M
    <3>2. flatten[(n + 1) + 1] = flatten[n + 1] \o ss[(n + 1) + 1]
      BY <2>11, <3>1
    <3>3. flatten[n + 1] \in Seq(S) /\ ss[(n + 1) + 1] \in Seq(S)
      BY <1>1, <2>13, <3>1
    <3>4. flatten[(n + 1) + 1] \in Seq(S)
      BY <3>2, <3>3
    <3> QED
      BY <3>1, <3>4
  <2>14. 0 .. M \subseteq T
    <3> HIDE DEF T
    <3> QED
      BY <2>2, <2>12, <2>13, Induction
  <2>15. M \in 0 .. M /\ M + 1 = N
    BY <1>1, <2>2 DEF M
  <2>16. flatten[N] \in Seq(S)
    BY <2>14, <2>15
  <2> QED
    BY <2>1, <2>16
<1> QED
  BY <1>2, <1>3

----------------------------------------------------------------------------
(* Results.                                                                *)

ResultTypes == {"success", "missingText", "unexpectedText", "retrievingGrammarFailed"}
Candidates  == [raw : Texts, stop : BOOLEAN]
Results     == [type : ResultTypes, ok : Nat, len : Nat, cands : Seq(Candidates), raw : Texts]

\* A candidate may replace a text if none of the two contradicts the other; one
\* that may still be continued continues the text.
Fits(t, c) == IsPrefix(t, c.raw) \/ (c.stop /\ IsPrefix(c.raw, t))

Fitting(t) == {c \in Candidates : Fits(t, c)}

\* The results that tell the truth about a text.
Faithful(t) ==
  {r \in Results :
     /\ r.ok <= r.len /\ r.len <= Len(t) /\ IsPrefix(r.raw, t)
     /\ Good(r) => r.ok = r.len /\ r.raw = SubSeq(t, 1, r.ok)
     /\ r.cands \in Seq(Fitting(t))}

LEMMA FaithfulIs ==
  ASSUME NEW t \in Texts, NEW r \in Faithful(t)
  PROVE  /\ r.type \in ResultTypes /\ r.ok \in Nat /\ r.len \in Nat /\ r.raw \in Texts
         /\ r.ok <= r.len /\ r.len <= Len(t) /\ IsPrefix(r.raw, t)
         /\ Good(r) => r.ok = r.len /\ r.raw = SubSeq(t, 1, r.ok)
         /\ r.cands \in Seq(Fitting(t))
         /\ r = ParseRc(r.type, r.ok, r.len, r.cands, r.raw)
         /\ Len(t) \in Nat
  BY DEF Faithful, Results, ParseRc, Texts

LEMMA ParseRcFaithful ==
  ASSUME NEW t \in Texts, NEW type \in ResultTypes, NEW ok \in Nat, NEW len \in Nat,
         NEW cands \in Seq(Fitting(t)), NEW raw \in Texts,
         ok <= len, len <= Len(t), IsPrefix(raw, t),
         type = "success" => ok = len /\ raw = SubSeq(t, 1, ok)
  PROVE  ParseRc(type, ok, len, cands, raw) \in Faithful(t)
<1>1. cands \in Seq(Candidates)
  BY DEF Fitting
<1> QED
  BY <1>1 DEF Faithful, Results, ParseRc, Good

LEMMA NoText ==
  ASSUME NEW t \in Texts
  PROVE  /\ Len(t) \in Nat /\ 0 <= Len(t) /\ <<>> \in Texts /\ IsPrefix(<<>>, t) /\ SubSeq(t, 1, 0) = <<>>
         /\ <<>> \in Seq(Fitting(t))
         /\ t \in Texts /\ IsPrefix(t, t)
<1>1. Len(t) \in Nat /\ <<>> \in Texts /\ SubSeq(t, 1, 0) = <<>> /\ Len(<<>>) = 0
  BY DEF Texts
<1>2. IsPrefix(<<>>, t) /\ IsPrefix(t, t)
  BY <1>1, PrefixIs
<1> QED
  BY <1>1, <1>2

LEMMA ConstantResults ==
  ASSUME NEW t \in Texts
  PROVE  Unexpected \in Faithful(t) /\ Fail \in Faithful(t) /\ Start \in Faithful(t)
  BY NoText, ParseRcFaithful DEF Unexpected, Fail, Start, ResultTypes

LEMMA MatchFaithful ==
  ASSUME NEW t \in Texts, NEW n \in 0 .. Len(t)
  PROVE  Match(SubSeq(t, 1, n)) \in Faithful(t)
<1> DEFINE s == SubSeq(t, 1, n)
<1>1. s \in Texts /\ Len(s) = n /\ IsPrefix(s, t)
  BY BeginningIs
<1>2. n \in Nat /\ n <= n /\ n <= Len(t) /\ "success" \in ResultTypes
  BY DEF Texts, ResultTypes
<1>3. ParseRc("success", n, n, <<>>, s) \in Faithful(t)
  BY <1>1, <1>2, NoText, ParseRcFaithful
<1> QED
  BY <1>1, <1>3 DEF Match

\* One candidate.
LEMMA OneCandidate ==
  ASSUME NEW t \in Texts, NEW raw \in Texts, NEW stop \in BOOLEAN, Fits(t, Candidate(raw, stop))
  PROVE  <<Candidate(raw, stop)>> \in Seq(Fitting(t))
  BY DEF Fitting, Candidates, Candidate

----------------------------------------------------------------------------
(* The elements without children.                                          *)

\* The smallest number up to a bound that is in a set.
LEMMA SmallestUpTo ==
  ASSUME NEW N \in Nat, NEW S, N \in S
  PROVE  \E n \in 0 .. N : n \in S /\ \A m \in 0 .. n - 1 : m \notin S
<1> DEFINE T == {n \in 0 .. N : n \in S}
<1>1. T \in SUBSET Nat /\ T # {}
  OBVIOUS
<1>2. PICK n \in T : \A m \in T : n <= m
  BY <1>1, Smallest
<1>3. ASSUME NEW m \in 0 .. n - 1 PROVE m \notin S
  <2>1. m \in 0 .. N /\ ~(n <= m)
    BY <1>2
  <2> QED
    BY <1>2, <2>1
<1> QED
  BY <1>2, <1>3

LEMMA SpanIs ==
  ASSUME NEW class, NEW t \in Texts
  PROVE  /\ Span(class, t) \in 0 .. Len(t)
         /\ \A i \in 1 .. Span(class, t) : t[i] \in class
         /\ Span(class, t) < Len(t) => t[Span(class, t) + 1] \notin class
<1> DEFINE S == {n \in 0 .. Len(t) : n < Len(t) => t[n + 1] \notin class}
<1>1. Len(t) \in Nat
  BY DEF Texts
<1>2. Len(t) \in S
  BY <1>1
<1>3. PICK n \in 0 .. Len(t) : n \in S /\ \A m \in 0 .. n - 1 : m \notin S
  <2> HIDE DEF S
  <2> QED
    BY <1>1, <1>2, SmallestUpTo
<1>4. \A i \in 1 .. n : t[i] \in class
  <2> TAKE i \in 1 .. n
  <2>1. i - 1 \in 0 .. n - 1 /\ i - 1 \in 0 .. Len(t) /\ i - 1 < Len(t) /\ (i - 1) + 1 = i
    BY <1>1
  <2> QED
    BY <1>3, <2>1
<1>5. n < Len(t) => t[n + 1] \notin class
  BY <1>3
<1> HIDE DEF S
<1> QED
  BY <1>4, <1>5 DEF Span

LEMMA EscapedLengthIs ==
  ASSUME NEW stops, NEW escape, NEW t \in Texts
  PROVE  LET escapes == Escapes(stops, escape, t)
             Ends(n) == n < Len(t) => t[n + 1] \in stops /\ ~escapes[n] /\ ~escapes[n + 1]
             n       == EscapedLength(stops, escape, t)
         IN  n \in 0 .. Len(t) /\ Ends(n) /\ \A m \in 0 .. n - 1 : ~Ends(m)
<1> DEFINE escapes == Escapes(stops, escape, t)
           Ends(n) == n < Len(t) => t[n + 1] \in stops /\ ~escapes[n] /\ ~escapes[n + 1]
           S == {n \in 0 .. Len(t) : Ends(n)}
<1>1. Len(t) \in Nat
  BY DEF Texts
<1>2. Len(t) \in S
  BY <1>1
<1>3. PICK n \in 0 .. Len(t) : n \in S /\ \A m \in 0 .. n - 1 : m \notin S
  <2> HIDE DEF S
  <2> QED
    BY <1>1, <1>2, SmallestUpTo
<1>4. Ends(n) /\ \A m \in 0 .. n - 1 : m \in 0 .. Len(t) /\ ~Ends(m)
  BY <1>1, <1>3
<1>5. EscapedLength(stops, escape, t) =
        CHOOSE k \in 0 .. Len(t) : Ends(k) /\ \A m \in 0 .. k - 1 : ~Ends(m)
  BY DEF EscapedLength
<1> HIDE DEF Ends, escapes
<1>6. LET k == EscapedLength(stops, escape, t)
      IN  k \in 0 .. Len(t) /\ Ends(k) /\ \A m \in 0 .. k - 1 : ~Ends(m)
  BY <1>4, <1>5
<1> QED
  BY <1>6 DEF Ends, escapes

LEMMA FixedStringFaithful ==
  ASSUME NEW s \in Texts, NEW t \in Texts
  PROVE  ParseFixedString(s, t) \in Faithful(t)
<1>1. CASE IsPrefix(s, t)
  <2>1. Len(s) \in 0 .. Len(t) /\ s = SubSeq(t, 1, Len(s))
    BY <1>1 DEF IsPrefix, Texts
  <2>2. Match(s) \in Faithful(t)
    BY <2>1, MatchFaithful
  <2> QED
    BY <1>1, <2>2 DEF ParseFixedString, IsStrictPrefix, IsPrefix, Texts
<1>2. CASE ~IsPrefix(s, t) /\ IsStrictPrefix(t, s)
  <2> DEFINE cands == <<Candidate(s, FALSE)>>
  <2>1. cands \in Seq(Fitting(t))
    BY <1>2, OneCandidate DEF Fits, Candidate, IsStrictPrefix
  <2> HIDE DEF cands
  <2>2. ParseRc("missingText", 0, Len(t), cands, <<>>) \in Faithful(t)
    <3>1. "missingText" \in ResultTypes /\ "missingText" # "success" /\ Len(t) \in Nat /\ 0 \in Nat
      BY NoText DEF ResultTypes
    <3> QED
      BY <2>1, <3>1, NoText, ParseRcFaithful
  <2> USE DEF cands
  <2> QED
    BY <1>2, <2>2 DEF ParseFixedString
<1>3. CASE ~IsPrefix(s, t) /\ ~IsStrictPrefix(t, s)
  BY <1>3, ConstantResults DEF ParseFixedString
<1> QED
  BY <1>1, <1>2, <1>3

LEMMA RegExFaithful ==
  ASSUME NEW class, NEW least \in Nat, NEW t \in Texts
  PROVE  ParseRegEx(class, least, t) \in Faithful(t)
<1> DEFINE n == Span(class, t)
<1>1. n \in 0 .. Len(t) /\ n \in Nat
  BY SpanIs DEF Texts
<1>2. Match(SubSeq(t, 1, n)) \in Faithful(t)
  BY <1>1, MatchFaithful
<1>3. /\ ParseRc("missingText", 0, 0, <<>>, <<>>) \in Faithful(t)
      /\ ParseRc("unexpectedText", 0, Len(t), <<>>, <<>>) \in Faithful(t)
  <2>1. /\ "missingText" \in ResultTypes /\ "missingText" # "success"
        /\ "unexpectedText" \in ResultTypes /\ "unexpectedText" # "success"
    BY DEF ResultTypes
  <2>2. Len(t) \in Nat /\ 0 \in Nat /\ 0 <= Len(t) /\ 0 <= 0 /\ Len(t) <= Len(t)
    BY NoText
  <2>3. ParseRc("missingText", 0, 0, <<>>, <<>>) \in Faithful(t)
    BY <2>1, <2>2, NoText, ParseRcFaithful
  <2>4. ParseRc("unexpectedText", 0, Len(t), <<>>, <<>>) \in Faithful(t)
    BY <2>1, <2>2, NoText, ParseRcFaithful
  <2> QED
    BY <2>3, <2>4
<1> HIDE DEF n
<1>4. ParseRegEx(class, least, t) =
        CASE n >= least -> Match(SubSeq(t, 1, n))
          [] n < least /\ t = <<>> -> ParseRc("missingText", 0, 0, <<>>, <<>>)
          [] OTHER -> ParseRc("unexpectedText", 0, Len(t), <<>>, <<>>)
  BY DEF ParseRegEx, n
<1>5. CASE n >= least
  <2>1. ~(n < least)
    BY <1>1, <1>5
  <2> QED
    BY <1>2, <1>4, <1>5, <2>1
<1>6. CASE ~(n >= least)
  <2>1. n < least
    BY <1>1, <1>6
  <2> QED
    BY <1>3, <1>4, <1>6, <2>1
<1> QED
  BY <1>5, <1>6

LEMMA WhiteSpaceFaithful ==
  ASSUME NEW t \in Texts, Blank \in Chars
  PROVE  ParseWhiteSpace(t) \in Faithful(t)
<1> DEFINE n == Span({Blank}, t)
<1>1. n \in 0 .. Len(t) /\ n \in Nat
  BY SpanIs DEF Texts
<1>2. Match(SubSeq(t, 1, n)) \in Faithful(t)
  BY <1>1, MatchFaithful
<1>3. ASSUME t = <<>>
      PROVE  ParseRc("missingText", 0, 0, <<Candidate(<<Blank>>, FALSE)>>, <<>>) \in Faithful(t)
  <2>1. <<Blank>> \in Texts
    BY DEF Texts
  <2>2. IsPrefix(t, <<Blank>>)
    BY <1>3, <2>1, NoText
  <2>3. <<Candidate(<<Blank>>, FALSE)>> \in Seq(Fitting(t))
    BY <2>1, <2>2, OneCandidate DEF Fits, Candidate
  <2> QED
    BY <2>3, NoText, ParseRcFaithful DEF ResultTypes
<1> HIDE DEF n
<1>4. ParseWhiteSpace(t) =
        CASE n > 0 -> Match(SubSeq(t, 1, n))
          [] n = 0 /\ t = <<>> -> ParseRc("missingText", 0, 0, <<Candidate(<<Blank>>, FALSE)>>, <<>>)
          [] OTHER -> Unexpected
  BY DEF ParseWhiteSpace, n
<1>5. CASE n > 0
  <2>1. ~(n = 0)
    BY <1>1, <1>5
  <2> QED
    BY <1>2, <1>4, <1>5, <2>1
<1>6. CASE ~(n > 0)
  BY <1>1, <1>3, <1>4, <1>6, ConstantResults
<1> QED
  BY <1>5, <1>6

LEMMA EscapedStringFaithful ==
  ASSUME NEW stops, NEW escape, NEW t \in Texts
  PROVE  ParseEscapedString(stops, escape, t) \in Faithful(t)
<1>1. EscapedLength(stops, escape, t) \in 0 .. Len(t)
  BY EscapedLengthIs
<1> QED
  BY <1>1, MatchFaithful DEF ParseEscapedString

----------------------------------------------------------------------------
(* The elements with children.                                             *)

\* What parses the elements up to some height: the results are faithful, and a
\* match of an element that takes a character does.
Parsers(n) ==
  {P \in [Calls(n) -> Results] :
     \A c \in Calls(n) : P[c] \in Faithful(c.t) /\ (c.g \in taking[n] /\ Good(P[c]) => P[c].ok > 0)}

LEMMA ChildFaithful ==
  ASSUME NEW n, NEW P \in Parsers(n), NEW g \in Elements(n), NEW t \in Texts, NEW depth \in {0, 1},
         NEW seen \in Seen
  PROVE  LET r == P[Call(g, t, depth, seen)]
         IN  r \in Faithful(t) /\ (g \in taking[n] /\ Good(r) => r.ok > 0)
<1>1. Call(g, t, depth, seen) \in Calls(n) /\ Call(g, t, depth, seen).t = t /\ Call(g, t, depth, seen).g = g
  BY DEF Call, Calls
<1> QED
  BY <1>1 DEF Parsers

LEMMA SequenceIs ==
  ASSUME NEW S, NEW n \in Nat, NEW m \in [1 .. n -> S]
  PROVE  m \in Seq(S) /\ Len(m) = n
  OBVIOUS

LEMMA StoppedFits ==
  ASSUME NEW t \in Texts, NEW cands \in Seq(Fitting(t))
  PROVE  Stopped(cands) \in Seq(Fitting(t))
<1>1. Len(cands) \in Nat /\ DOMAIN cands = 1 .. Len(cands)
  OBVIOUS
<1>2. ASSUME NEW i \in 1 .. Len(cands) PROVE Candidate(cands[i].raw, TRUE) \in Fitting(t)
  <2>1. cands[i] \in Fitting(t)
    OBVIOUS
  <2> QED
    BY <2>1 DEF Fitting, Candidates, Candidate, Fits
<1>3. Stopped(cands) \in [1 .. Len(cands) -> Fitting(t)]
  <2> HIDE DEF Fitting
  <2> QED
    BY <1>1, <1>2 DEF Stopped
<1> QED
  BY <1>1, <1>3, SequenceIs

LEMMA OptionalCandidatesFit ==
  ASSUME NEW t \in Texts, NEW r \in Faithful(t)
  PROVE  OptionalCandidates(r) \in Seq(Fitting(t))
<1>1. Stopped(r.cands) \in Seq(Fitting(t))
  BY FaithfulIs, StoppedFits
<1>2. <<Candidate(<<>>, TRUE)>> \in Seq(Fitting(t))
  BY NoText, OneCandidate DEF Fits, Candidate
<1>3. <<>> \in Seq(Fitting(t))
  OBVIOUS
<1> DEFINE x == Stopped(r.cands)
           y == IF r.ok = 0 THEN <<Candidate(<<>>, TRUE)>> ELSE <<>>
           F == Fitting(t)
<1>4. x \in Seq(F) /\ y \in Seq(F)
  BY <1>1, <1>2, <1>3
<1>5. OptionalCandidates(r) = IF r.type = "unexpectedText" THEN <<>> ELSE x \o y
  BY DEF OptionalCandidates
<1>6. x \o y \in Seq(F)
  <2> HIDE DEF x, y, F
  <2> QED
    BY <1>4
<1> HIDE DEF x, y
<1> QED
  BY <1>3, <1>5, <1>6

LEMMA OptionalFaithful ==
  ASSUME NEW n, NEW P \in Parsers(n), NEW g, g.child \in Elements(n), NEW t \in Texts, NEW seen \in Seen
  PROVE  ParseOptional(P, g, t, seen) \in Faithful(t)
<1> DEFINE r == P[Call(g.child, t, 1, seen)]
           o == OptionalCandidates(r)
<1>1. r \in Faithful(t)
  BY ChildFaithful
<1>2. /\ r.type \in ResultTypes /\ r.ok \in Nat /\ r.len \in Nat /\ r.raw \in Texts
      /\ r.ok <= r.len /\ r.len <= Len(t) /\ IsPrefix(r.raw, t)
      /\ Good(r) => r.ok = r.len /\ r.raw = SubSeq(t, 1, r.ok)
  BY ONLY <1>1, t \in Texts, FaithfulIs
<1>3. o \in Seq(Fitting(t))
  BY <1>1, OptionalCandidatesFit
<1>4. ParseOptional(P, g, t, seen) =
        CASE Good(r) -> ParseRc("success", r.ok, r.len, o, r.raw)
          [] Missing(r) /\ r.len >= 1 -> ParseRc("missingText", 0, r.len, o, <<>>)
          [] Failed(r) -> ParseRc(r.type, 0, 0, o, <<>>)
          [] OTHER -> ParseRc("success", 0, 0, o, <<>>)
  BY DEF ParseOptional
<1> HIDE DEF r, o
<1>5. CASE Good(r)
  <2>1. ParseRc("success", r.ok, r.len, o, r.raw) \in Faithful(t)
    BY <1>2, <1>3, <1>5, ParseRcFaithful DEF ResultTypes
  <2> QED
    BY <1>4, <1>5, <2>1 DEF Good, Missing, Failed
<1>6. CASE Missing(r) /\ r.len >= 1
  <2>1. "missingText" \in ResultTypes /\ "missingText" # "success" /\ 0 \in Nat /\ 0 <= r.len
    BY <1>2 DEF ResultTypes
  <2>2. ParseRc("missingText", 0, r.len, o, <<>>) \in Faithful(t)
    BY <1>2, <1>3, <2>1, NoText, ParseRcFaithful
  <2> QED
    BY <1>4, <1>6, <2>2 DEF Good, Missing, Failed
<1>7. CASE Failed(r)
  <2>1. ParseRc(r.type, 0, 0, o, <<>>) \in Faithful(t)
    BY <1>2, <1>3, NoText, ParseRcFaithful
  <2> QED
    BY <1>4, <1>7, <2>1 DEF Good, Missing, Failed
<1>8. CASE ~Good(r) /\ ~(Missing(r) /\ r.len >= 1) /\ ~Failed(r)
  <2>1. "success" \in ResultTypes /\ 0 \in Nat /\ 0 <= 0
    BY DEF ResultTypes
  <2>2. ParseRc("success", 0, 0, o, <<>>) \in Faithful(t)
    BY <1>3, <2>1, NoText, ParseRcFaithful
  <2> QED
    BY <1>4, <1>8, <2>2
<1> QED
  BY <1>5, <1>6, <1>7, <1>8

----------------------------------------------------------------------------
(* Repetitions.                                                            *)

\* What a candidate of the rest becomes behind a match.
LEMMA BehindFits ==
  ASSUME NEW t \in Texts, NEW n \in 0 .. Len(t), NEW raw, raw = SubSeq(t, 1, n),
         NEW c \in Fitting(From(t, n)), NEW stop \in BOOLEAN, c.stop => stop
  PROVE  Candidate(raw \o c.raw, stop) \in Fitting(t)
<1>1. raw \in Texts /\ c.raw \in Texts /\ Fits(From(t, n), c)
  BY BeginningIs DEF Fitting, Candidates
<1>2. raw \o c.raw \in Texts
  BY <1>1, JoinIs
<1>3. /\ IsPrefix(c.raw, From(t, n)) => IsPrefix(raw \o c.raw, t)
      /\ IsPrefix(From(t, n), c.raw) => IsPrefix(t, raw \o c.raw)
  BY <1>1, InFront
<1> QED
  BY <1>1, <1>2, <1>3 DEF Fitting, Candidates, Candidate, Fits

LEMMA RepeatedFits ==
  ASSUME NEW t \in Texts, NEW r, r.ok \in 0 .. Len(t), r.raw = SubSeq(t, 1, r.ok),
         NEW cands \in Seq(Fitting(From(t, r.ok)))
  PROVE  Repeated(r, cands) \in Seq(Fitting(t))
<1>1. Len(cands) \in Nat /\ DOMAIN cands = 1 .. Len(cands)
  OBVIOUS
<1>2. ASSUME NEW i \in 1 .. Len(cands) PROVE Candidate(r.raw \o cands[i].raw, TRUE) \in Fitting(t)
  <2>1. cands[i] \in Fitting(From(t, r.ok))
    OBVIOUS
  <2> QED
    BY <2>1, BehindFits
<1>3. Repeated(r, cands) \in [1 .. Len(cands) -> Fitting(t)]
  BY <1>1, <1>2 DEF Repeated
<1> QED
  BY <1>1, <1>3, SequenceIs

\* While there may be more repetitions, all were matches.
RepeatStates(t) ==
  {s \in [rc : Faithful(t), on : BOOLEAN] : s.on => Good(s.rc) /\ s.rc.cands = <<>>}

LEMMA RepeatFaithful ==
  ASSUME NEW n, NEW P \in Parsers(n), NEW g, g.child \in Elements(n), NEW t \in Texts, NEW seen \in Seen,
         NEW state \in RepeatStates(t)
  PROVE  Repeat(P, g, t, seen, state) \in RepeatStates(t)
<1> DEFINE q    == state.rc
           u    == From(t, q.ok)
           r    == P[Call(g.child, u, 1, seen)]
           type == IF q.ok = Len(t) THEN "success" ELSE r.type
<1>1. state \in [rc : Faithful(t), on : BOOLEAN]
  BY DEF RepeatStates
<1>2. CASE ~state.on
  BY <1>2 DEF Repeat
<1>3. CASE state.on
  <2>1. q \in Faithful(t) /\ Good(q) /\ q.cands = <<>>
    BY <1>1, <1>3 DEF RepeatStates
  <2>2. /\ q.ok \in Nat /\ q.len \in Nat /\ q.raw \in Texts /\ q.ok = q.len /\ q.len <= Len(t)
        /\ q.raw = SubSeq(t, 1, q.ok) /\ q = ParseRc(q.type, q.ok, q.len, q.cands, q.raw)
        /\ Len(t) \in Nat /\ q.type \in ResultTypes /\ IsPrefix(q.raw, t)
    BY <2>1, FaithfulIs
  <2>3. q.ok \in 0 .. Len(t)
    BY <2>2
  <2>4. u \in Texts /\ Len(u) = Len(t) - q.ok
    BY <2>3, FromIs
  <2>5. r \in Faithful(u)
    BY <2>4, ChildFaithful
  <2> HIDE DEF u, r
  <2>6. /\ r.type \in ResultTypes /\ r.ok \in Nat /\ r.len \in Nat /\ r.raw \in Texts
        /\ r.ok <= r.len /\ r.len <= Len(u) /\ IsPrefix(r.raw, u)
        /\ Good(r) => r.ok = r.len /\ r.raw = SubSeq(u, 1, r.ok)
        /\ r.cands \in Seq(Fitting(u))
    BY ONLY <2>4, <2>5, FaithfulIs
  <2>7. Repeated(q, r.cands) \in Seq(Fitting(t))
    BY <2>2, <2>3, <2>6, RepeatedFits DEF u
  <2> DEFINE joined == q.raw \o r.raw
             cands  == Repeated(q, r.cands)
  <2>8. /\ joined \in Texts /\ IsPrefix(joined, t)
        /\ Good(r) => joined = SubSeq(t, 1, q.ok + r.ok)
    <3>1. joined \in Texts
      BY <2>2, <2>6, JoinIs
    <3>2. IsPrefix(joined, t)
      BY <2>2, <2>3, <2>6, InFront DEF u
    <3>3. ASSUME Good(r) PROVE joined = SubSeq(t, 1, q.ok + r.ok)
      <4>1. r.ok \in 0 .. Len(t) - q.ok
        BY <2>2, <2>4, <2>6
      <4> QED
        BY <2>2, <2>3, <2>6, <3>3, <4>1, Joined DEF u
    <3> QED
      BY <3>1, <3>2, <3>3
  <2>9. /\ q.ok + r.ok \in Nat /\ q.len + r.len \in Nat
        /\ q.ok + r.ok <= q.len + r.len /\ q.len + r.len <= Len(t)
    BY <2>2, <2>4, <2>6
  <2> DEFINE end(result) == [rc |-> result, on |-> FALSE]
             more        == ParseRc("success", q.ok + r.ok, q.len + r.len, <<>>, joined)
             missing     == ParseRc(type, q.ok + r.ok, q.len + r.len, cands, joined)
             failed      == ParseRc(type, q.ok, q.len, cands, q.raw)
  <2>10. Repeat(P, g, t, seen, state) =
           CASE ~state.on -> state
             [] state.on /\ Good(r) -> [rc |-> more, on |-> TRUE]
             [] state.on /\ Missing(r) -> end(missing)
             [] state.on /\ Failed(r) -> end(failed)
             [] OTHER -> end(q)
    BY DEF Repeat, u, r
  <2>11. Good(r) => more \in Faithful(t)
    <3> HIDE DEF q, joined, cands
    <3> SUFFICES ASSUME Good(r) PROVE more \in Faithful(t)
      OBVIOUS
    <3>1. q.ok + r.ok = q.len + r.len /\ <<>> \in Seq(Fitting(t)) /\ "success" \in ResultTypes
      BY <2>2, <2>6, NoText DEF ResultTypes
    <3> QED
      BY <2>8, <2>9, <3>1, ParseRcFaithful
  <2>12. type \in ResultTypes
    BY <2>6 DEF ResultTypes
  <2>13. ASSUME Missing(r), type = "success"
         PROVE  q.ok + r.ok = q.len + r.len /\ joined = SubSeq(t, 1, q.ok + r.ok)
    <3>1. q.ok = Len(t)
      BY <2>13 DEF Missing
    <3>2. r.ok = 0 /\ r.len = 0
      BY <2>2, <2>4, <2>6, <3>1
    <3>3. SubSeq(t, 1, q.ok) = t
      BY <3>1 DEF Texts
    <3>4. r.raw = <<>>
      <4> HIDE DEF q
      <4>1. Len(u) = 0 /\ Len(r.raw) \in Nat
        BY <2>2, <2>4, <2>6, <3>1 DEF Texts
      <4>2. Len(r.raw) <= 0
        BY <2>4, <2>6, <4>1, PrefixIs
      <4>3. r.raw \in Seq(Chars) /\ Len(r.raw) = 0
        BY <2>6, <4>1, <4>2 DEF Texts
      <4> QED
        BY <4>3
    <3>5. joined = t
      BY <2>2, <3>3, <3>4 DEF Texts
    <3> HIDE DEF q, joined
    <3>6. q.ok + r.ok = q.ok /\ q.ok = q.len + r.len
      BY <2>2, <3>2
    <3> QED
      BY <3>3, <3>5, <3>6
  <2>14. Missing(r) => missing \in Faithful(t)
    <3> HIDE DEF q, joined, type
    <3> SUFFICES ASSUME Missing(r) PROVE missing \in Faithful(t)
      OBVIOUS
    <3> QED
      BY <2>7, <2>8, <2>9, <2>12, <2>13, ParseRcFaithful
  <2>15. failed \in Faithful(t)
    <3> HIDE DEF q, type
    <3>1. q.ok <= q.len
      BY <2>2
    <3> QED
      BY <2>2, <2>7, <2>12, <3>1, ParseRcFaithful
  <2> HIDE DEF q, missing, failed
  <2>16. Good(more) /\ more.cands = <<>>
    BY DEF ParseRc, Good
  <2> HIDE DEF more
  <2>17. \A result \in Faithful(t) : end(result) \in RepeatStates(t)
    BY DEF RepeatStates
  <2>18. ~(Good(r) /\ Missing(r)) /\ ~(Good(r) /\ Failed(r)) /\ ~(Missing(r) /\ Failed(r))
    BY DEF Good, Missing, Failed
  <2> HIDE DEF end
  <2>19. CASE Good(r)
    BY <1>3, <2>10, <2>11, <2>16, <2>18, <2>19 DEF RepeatStates
  <2>20. CASE Missing(r)
    BY <1>3, <2>10, <2>14, <2>17, <2>18, <2>20
  <2>21. CASE Failed(r)
    BY <1>3, <2>10, <2>15, <2>17, <2>18, <2>21
  <2>22. CASE ~Good(r) /\ ~Missing(r) /\ ~Failed(r)
    BY <1>3, <2>1, <2>10, <2>17, <2>22 DEF q
  <2> QED
    BY <2>19, <2>20, <2>21, <2>22
<1> QED
  BY <1>1, <1>2, <1>3

\* The states of a repetition one after another.
RepeatRun(P, g, t, seen, k, state) ==
  /\ state[0] = [rc |-> Start, on |-> TRUE]
  /\ \A i \in 1 .. k : state[i] = Repeat(P, g, t, seen, state[i - 1])
  /\ \A i \in 0 .. k : state[i] \in RepeatStates(t)
  /\ Repetitions(P, g, t, seen, k) = state[k]

LEMMA RepetitionsRun ==
  ASSUME NEW n, NEW P \in Parsers(n), NEW g, g.child \in Elements(n), NEW t \in Texts, NEW seen \in Seen,
         NEW k \in Nat
  PROVE  \E state : RepeatRun(P, g, t, seen, k, state)
<1> DEFINE S == RepeatStates(t)
           b == [rc |-> Start, on |-> TRUE]
           next(s) == Repeat(P, g, t, seen, s)
           step == [a \in (1 .. k) \X S |-> next(a[2])]
           body(f) == [i \in 0 .. k |-> IF i = 0 THEN b ELSE next(f[i - 1])]
           state == CHOOSE f : f = body(f)
<1>1. b \in S
  BY ConstantResults DEF RepeatStates, Start, ParseRc, Good
<1>2. \A s \in S : next(s) \in S
  BY RepeatFaithful
<1>3. Repetitions(P, g, t, seen, k) = state[k]
  BY DEF Repetitions
<1> HIDE DEF next, S, b
<1>4. step \in [(1 .. k) \X S -> S] /\ \A i \in 1 .. k, s \in S : step[<<i, s>>] = next(s)
  BY <1>2
<1> HIDE DEF step
<1>5. Defines(k, S, b, step)
  BY ONLY <1>1, <1>4, k \in Nat, Recursion
<1>6. PICK f \in [0 .. k -> S] : f[0] = b /\ \A i \in 1 .. k : f[i] = step[<<i, f[i - 1]>>]
  BY <1>5 DEF Defines
<1>7. \A i \in 0 .. k : f[i] = IF i = 0 THEN b ELSE next(f[i - 1])
  <2> TAKE i \in 0 .. k
  <2>1. CASE i = 0
    BY <1>6, <2>1
  <2>2. CASE i # 0
    <3>1. i \in 1 .. k /\ i - 1 \in 0 .. k
      BY <2>2
    <3> QED
      BY <1>4, <1>6, <2>2, <3>1
  <2> QED
    BY <2>1, <2>2
<1>8. f = body(f)
  BY <1>6, <1>7
<1>9. state = body(state)
  <2> HIDE DEF body
  <2> QED
    BY <1>8
<1> HIDE DEF state
<1>10. state[0] = b /\ \A i \in 1 .. k : state[i] = next(state[i - 1])
  <2>1. \A i \in 0 .. k : state[i] = IF i = 0 THEN b ELSE next(state[i - 1])
    BY <1>9
  <2>2. 0 \in 0 .. k /\ \A i \in 1 .. k : i \in 0 .. k /\ i # 0
    OBVIOUS
  <2> QED
    BY <2>1, <2>2
<1> HIDE DEF body
<1> DEFINE T == {i \in 0 .. k : state[i] \in S}
<1>11. 0 \in T
  BY <1>1, <1>10
<1>12. ASSUME NEW i \in 0 .. k - 1, i \in T PROVE i + 1 \in T
  <2>1. i + 1 \in 1 .. k /\ (i + 1) - 1 = i /\ state[i] \in S
    BY <1>12
  <2> QED
    BY <1>2, <1>10, <2>1
<1>13. 0 .. k \subseteq T
  <2> HIDE DEF T
  <2> QED
    BY <1>11, <1>12, Induction
<1>14. \A i \in 0 .. k : state[i] \in S
  BY <1>13
<1> QED
  BY <1>3, <1>10, <1>14 DEF RepeatRun, S, b, next

LEMMA RepetitionFaithful ==
  ASSUME NEW n, NEW P \in Parsers(n), NEW g, g.child \in Elements(n), NEW t \in Texts, NEW seen \in Seen
  PROVE  ParseRepetition(P, g, t, seen) \in Faithful(t)
<1>1. Len(t) + 1 \in Nat /\ Len(t) + 1 \in 0 .. Len(t) + 1
  BY DEF Texts
<1>2. PICK state : RepeatRun(P, g, t, seen, Len(t) + 1, state)
  BY <1>1, RepetitionsRun
<1>3. Repetitions(P, g, t, seen, Len(t) + 1) \in RepeatStates(t)
  BY <1>1, <1>2 DEF RepeatRun
<1> QED
  BY <1>3 DEF ParseRepetition, RepeatStates

\* A repetition of an element that takes a character ends by itself: the bound of
\* the model is never what ends it.
LEMMA RepetitionEnds ==
  ASSUME NEW n, NEW P \in Parsers(n), NEW g, g.child \in Elements(n), g.child \in taking[n],
         NEW t \in Texts, NEW seen \in Seen
  PROVE  ~Repetitions(P, g, t, seen, Len(t) + 1).on
<1> DEFINE k == Len(t) + 1
<1>1. Len(t) \in Nat /\ k \in Nat /\ k \in 0 .. k
  BY DEF Texts
<1>2. PICK state : RepeatRun(P, g, t, seen, k, state)
  BY <1>1, RepetitionsRun
<1> DEFINE T == {i \in 0 .. k : state[i].on => i <= state[i].rc.ok}
<1>3. 0 \in T
  BY <1>1, <1>2 DEF RepeatRun, Start, ParseRc
<1>4. ASSUME NEW i \in 0 .. k - 1, i \in T PROVE i + 1 \in T
  <2> DEFINE s == state[i]
             r == P[Call(g.child, From(t, s.rc.ok), 1, seen)]
  <2>1. i + 1 \in 1 .. k /\ (i + 1) - 1 = i /\ i \in 0 .. k /\ i + 1 \in 0 .. k
    BY <1>1
  <2>2. state[i + 1] = Repeat(P, g, t, seen, s) /\ s \in RepeatStates(t)
    BY <1>2, <2>1 DEF RepeatRun
  <2> SUFFICES ASSUME state[i + 1].on PROVE i + 1 <= state[i + 1].rc.ok
    BY <2>1
  <2>3. s.on /\ Good(r) /\ state[i + 1].rc.ok = s.rc.ok + r.ok
    <3>1. s.on
      BY <2>2 DEF Repeat
    <3> HIDE DEF s
    <3>2. Good(r)
      <4> SUFFICES ASSUME ~Good(r) PROVE FALSE
        OBVIOUS
      <4>1. CASE Missing(r)
        BY <2>2, <3>1, <4>1 DEF Repeat
      <4>2. CASE Failed(r)
        <5>1. ~Missing(r)
          BY <4>2 DEF Missing, Failed
        <5> QED
          BY <2>2, <3>1, <4>2, <5>1 DEF Repeat
      <4>3. CASE ~Missing(r) /\ ~Failed(r)
        BY <2>2, <3>1, <4>3 DEF Repeat
      <4> QED
        BY <4>1, <4>2, <4>3
    <3> DEFINE len == s.rc.len + r.len
               raw == s.rc.raw \o r.raw
               to  == ParseRc("success", s.rc.ok + r.ok, len, <<>>, raw)
    <3>3. state[i + 1] = [rc |-> to, on |-> TRUE]
      BY <2>2, <3>1, <3>2 DEF Repeat
    <3>4. to.ok = s.rc.ok + r.ok
      BY DEF ParseRc
    <3> QED
      BY <3>1, <3>2, <3>3, <3>4
  <2>4. s.rc \in Faithful(t) /\ i <= s.rc.ok
    BY <1>4, <2>2, <2>3 DEF RepeatStates
  <2>5. s.rc.ok \in 0 .. Len(t) /\ s.rc.ok \in Nat
    BY <1>1, <2>4, FaithfulIs
  <2>6. From(t, s.rc.ok) \in Texts
    BY <2>5, FromIs
  <2>7. r \in Faithful(From(t, s.rc.ok)) /\ r.ok > 0
    BY <2>3, <2>6, ChildFaithful
  <2>8. r.ok \in Nat
    BY <2>6, <2>7, FaithfulIs
  <2> HIDE DEF r, s
  <2> QED
    BY <2>3, <2>4, <2>5, <2>7, <2>8
<1>5. 0 .. k \subseteq T
  <2> HIDE DEF T
  <2> QED
    BY <1>1, <1>3, <1>4, Induction
<1>6. state[k] \in RepeatStates(t) /\ (state[k].on => k <= state[k].rc.ok)
  <2>1. k \in T
    BY <1>1, <1>5
  <2> QED
    BY <1>1, <1>2, <2>1 DEF RepeatRun
<1>7. state[k].rc.ok <= Len(t) /\ state[k].rc.ok \in Nat
  <2> HIDE DEF k
  <2>1. state[k].rc \in Faithful(t)
    BY <1>6 DEF RepeatStates
  <2>2. /\ state[k].rc.ok \in Nat /\ state[k].rc.len \in Nat
        /\ state[k].rc.ok <= state[k].rc.len /\ state[k].rc.len <= Len(t)
    BY <2>1, FaithfulIs
  <2> QED
    BY <1>1, <2>2
<1>8. ~state[k].on
  BY <1>1, <1>6, <1>7
<1> QED
  BY <1>2, <1>8 DEF RepeatRun

----------------------------------------------------------------------------
(* Alternations.                                                           *)

LEMMA WinnerIs ==
  ASSUME NEW t \in Texts, NEW N \in Nat, NEW r \in [1 .. N -> Faithful(t)], Goods(r) # {}
  PROVE  Winner(r) \in Goods(r)
<1> DEFINE G == Goods(r)
           L == Len(t)
           A == {a \in Nat : \E j \in G : a = L - r[j].ok}
<1>1. L \in Nat /\ G \subseteq 1 .. N
  BY DEF Goods, Texts
<1>2. \A j \in G : r[j].ok \in 0 .. L
  <2> TAKE j \in G
  <2>1. r[j] \in Faithful(t)
    BY <1>1
  <2>2. r[j].ok \in Nat /\ r[j].len \in Nat /\ r[j].ok <= r[j].len /\ r[j].len <= Len(t)
    BY <2>1, FaithfulIs
  <2> QED
    BY <1>1, <2>2
<1> HIDE DEF G, L
<1>3. A # {}
  <2>1. PICK j \in G : TRUE
    BY DEF G
  <2>2. L - r[j].ok \in Nat
    BY <1>1, <1>2
  <2> QED
    BY <2>2
<1>4. PICK a \in A : \A x \in A : a <= x
  <2>1. A \in SUBSET Nat
    OBVIOUS
  <2> HIDE DEF A
  <2> QED
    BY <1>3, <2>1, Smallest
<1> DEFINE B == {b \in Nat : \E j \in G : r[j].ok = L - a /\ b = N - j}
<1>5. B # {}
  <2>1. PICK j \in G : a = L - r[j].ok
    BY <1>4
  <2>2. r[j].ok = L - a /\ N - j \in Nat
    BY <1>1, <1>2, <2>1
  <2> QED
    BY <2>2
<1>6. PICK b \in B : \A x \in B : b <= x
  <2>1. B \in SUBSET Nat
    OBVIOUS
  <2> HIDE DEF B
  <2> QED
    BY <1>5, <2>1, Smallest
<1>7. PICK i \in G : r[i].ok = L - a /\ b = N - i
  BY <1>6
<1>8. ASSUME NEW j \in G PROVE r[j].ok < r[i].ok \/ (r[j].ok = r[i].ok /\ j <= i)
  <2>1. L - r[j].ok \in A
    BY <1>1, <1>2
  <2>2. a <= L - r[j].ok
    BY <1>4, <2>1
  <2>3. r[j].ok <= L - a /\ r[j].ok \in Nat /\ L - a \in Int
    BY <1>1, <1>2, <1>4, <2>2
  <2>4. CASE r[j].ok = L - a
    <3>1. N - j \in B
      BY <1>1, <2>4
    <3>2. b <= N - j
      BY <1>6, <3>1
    <3> QED
      BY <1>1, <1>7, <2>4, <3>2
  <2>5. CASE r[j].ok # L - a
    BY <1>7, <2>3, <2>5
  <2> QED
    BY <2>4, <2>5
<1> QED
  BY <1>7, <1>8 DEF Winner, G

LEMMA OtherCandidatesFit ==
  ASSUME NEW t \in Texts, NEW N \in Nat, NEW r \in [1 .. N -> Faithful(t)]
  PROVE  /\ OtherCandidates(r) \in Seq(Fitting(t))
         /\ FlattenSeq([i \in 1 .. N |-> r[i].cands]) \in Seq(Fitting(t))
<1> DEFINE F == Fitting(t)
           W == Winner(r)
           some == [i \in 1 .. N |->
                      IF i \in (Goods(r) \cup Maybes(r)) \ {W} /\ r[i].len >= r[W].len
                      THEN r[i].cands ELSE <<>>]
           all == [i \in 1 .. N |-> r[i].cands]
<1>1. \A i \in 1 .. N : r[i].cands \in Seq(F)
  BY FaithfulIs
<1>2. DOMAIN r = 1 .. N /\ <<>> \in Seq(F)
  OBVIOUS
<1> HIDE DEF F, W
<1>3. some \in [1 .. N -> Seq(F)] /\ all \in [1 .. N -> Seq(F)]
  BY <1>1, <1>2
<1>4. some \in Seq(Seq(F)) /\ all \in Seq(Seq(F))
  <2> HIDE DEF some, all
  <2> QED
    BY ONLY <1>3, N \in Nat, SequenceIs
<1>5. OtherCandidates(r) = FlattenSeq(some)
  BY <1>2 DEF OtherCandidates, W
<1> HIDE DEF some
<1> QED
  BY <1>4, <1>5, FlattenIs DEF F

\* Of an element without children, and of one that takes none of their text.
ChildrenIn(g, n) == g.children \in Seq(Elements(n))

LEMMA AlternationFaithful ==
  ASSUME NEW n, NEW P \in Parsers(n), NEW g, ChildrenIn(g, n), NEW t \in Texts, NEW depth \in {0, 1},
         NEW seen \in Seen
  PROVE  LET a == ParseAlternation(P, g, t, depth, seen)
         IN  /\ a \in Faithful(t)
             /\ g.children # <<>> /\ (\A i \in DOMAIN g.children : g.children[i] \in taking[n]) /\ Good(a)
                  => a.ok > 0
<1> DEFINE N         == Len(g.children)
           I         == DOMAIN g.children
           r         == [i \in I |-> P[Call(g.children[i], t, 0, seen)]]
           failed    == \E i \in I : Failed(r[i])
           forked(i) == P[Call(g.children[i], t, depth, seen)].cands
           unique    == Cardinality(Maybes(r)) = 1
           only      == CHOOSE i \in Maybes(r) : TRUE
           cands     == IF unique THEN forked(only) ELSE FlattenSeq([i \in I |-> r[i].cands])
           raw       == IF unique THEN r[only].raw ELSE <<>>
           W         == Winner(r)
           type      == IF failed THEN "retrievingGrammarFailed" ELSE "success"
           won       == ParseRc(type, r[W].ok, r[W].len, forked(W) \o OtherCandidates(r), r[W].raw)
           a         == ParseAlternation(P, g, t, depth, seen)
<1>1. a = CASE Goods(r) # {} -> won
            [] Goods(r) = {} /\ failed -> ParseRc("retrievingGrammarFailed", 0, 0, cands, raw)
            [] Goods(r) = {} /\ ~failed /\ I = {} -> Start
            [] Goods(r) = {} /\ ~failed /\ I # {} /\ cands = <<>> -> ParseRc("unexpectedText", 0, 0, <<>>, raw)
            [] OTHER -> ParseRc("missingText", 0, Len(t), cands, raw)
  BY DEF ParseAlternation
<1>2. N \in Nat /\ I = 1 .. N /\ \A i \in I : g.children[i] \in Elements(n)
  BY DEF ChildrenIn
<1>3. ASSUME NEW i \in I
      PROVE  /\ r[i] \in Faithful(t) /\ (g.children[i] \in taking[n] /\ Good(r[i]) => r[i].ok > 0)
             /\ forked(i) \in Seq(Fitting(t))
  <2>1. g.children[i] \in Elements(n) /\ 0 \in {0, 1}
    BY <1>2
  <2>2. P[Call(g.children[i], t, depth, seen)] \in Faithful(t)
    BY <2>1, ChildFaithful
  <2>3. forked(i) \in Seq(Fitting(t))
    BY <2>2, FaithfulIs
  <2>4. LET q == P[Call(g.children[i], t, 0, seen)]
        IN  q \in Faithful(t) /\ (g.children[i] \in taking[n] /\ Good(q) => q.ok > 0)
    BY <2>1, ChildFaithful
  <2> QED
    BY <2>3, <2>4
<1>4. r \in [1 .. N -> Faithful(t)]
  BY <1>2, <1>3
<1> HIDE DEF r, forked, N, I
<1>5. Maybes(r) \subseteq I /\ Goods(r) \subseteq I
  BY <1>2, <1>4 DEF Maybes, Goods
<1>6. unique => only \in Maybes(r)
  <2> SUFFICES ASSUME unique PROVE Maybes(r) # {}
    OBVIOUS
  <2> QED
    BY FS_EmptySet
<1>7. cands \in Seq(Fitting(t))
  <2>1. CASE unique
    BY <1>3, <1>5, <1>6, <2>1
  <2>2. CASE ~unique
    <3>1. FlattenSeq([i \in 1 .. N |-> r[i].cands]) \in Seq(Fitting(t))
      BY <1>2, <1>4, OtherCandidatesFit
    <3> QED
      BY <1>2, <2>2, <3>1
  <2> QED
    BY <2>1, <2>2
<1>8. raw \in Texts /\ IsPrefix(raw, t)
  <2>1. CASE unique
    <3>1. r[only] \in Faithful(t)
      BY <1>3, <1>5, <1>6, <2>1
    <3> QED
      BY <2>1, <3>1, FaithfulIs
  <2>2. CASE ~unique
    BY <2>2, NoText
  <2> QED
    BY <2>1, <2>2
<1> HIDE DEF failed, unique, only, cands, raw
<1>9. CASE Goods(r) # {}
  <2>1. W \in Goods(r) /\ W \in I
    BY <1>2, <1>4, <1>5, <1>9, WinnerIs
  <2> HIDE DEF W
  <2>2. Good(r[W]) /\ r[W] \in Faithful(t) /\ (g.children[W] \in taking[n] => r[W].ok > 0)
    BY <1>3, <2>1 DEF Goods
  <2>3. /\ r[W].ok \in Nat /\ r[W].len \in Nat /\ r[W].raw \in Texts
        /\ r[W].ok <= r[W].len /\ r[W].len <= Len(t) /\ IsPrefix(r[W].raw, t)
        /\ r[W].ok = r[W].len /\ r[W].raw = SubSeq(t, 1, r[W].ok)
    BY <2>2, FaithfulIs
  <2> DEFINE F == Fitting(t)
             x == forked(W)
             y == OtherCandidates(r)
  <2>4. x \in Seq(F) /\ y \in Seq(F)
    BY <1>2, <1>3, <1>4, <2>1, OtherCandidatesFit
  <2>5. x \o y \in Seq(F)
    <3> HIDE DEF x, y, F
    <3> QED
      BY <2>4
  <2>6. type \in ResultTypes
    BY DEF ResultTypes
  <2> HIDE DEF x, y, type
  <2>7. ParseRc(type, r[W].ok, r[W].len, x \o y, r[W].raw) \in Faithful(t)
    BY <2>3, <2>5, <2>6, ParseRcFaithful
  <2>8. a = ParseRc(type, r[W].ok, r[W].len, x \o y, r[W].raw)
    BY <1>1, <1>9 DEF x, y, W
  <2>9. a.ok = r[W].ok
    BY <2>8 DEF ParseRc
  <2> HIDE DEF a
  <2> QED
    BY <2>1, <2>2, <2>7, <2>8, <2>9 DEF I, a
<1>10. CASE Goods(r) = {}
  <2>1. /\ "retrievingGrammarFailed" \in ResultTypes /\ "retrievingGrammarFailed" # "success"
        /\ "unexpectedText" \in ResultTypes /\ "unexpectedText" # "success"
        /\ "missingText" \in ResultTypes /\ "missingText" # "success"
    BY DEF ResultTypes
  <2>2. 0 \in Nat /\ 0 <= 0 /\ Len(t) <= Len(t)
    BY NoText
  <2>3. ParseRc("retrievingGrammarFailed", 0, 0, cands, raw) \in Faithful(t)
    BY <1>7, <1>8, <2>1, <2>2, NoText, ParseRcFaithful
  <2>4. ParseRc("unexpectedText", 0, 0, <<>>, raw) \in Faithful(t)
    BY <1>8, <2>1, <2>2, NoText, ParseRcFaithful
  <2>5. ParseRc("missingText", 0, Len(t), cands, raw) \in Faithful(t)
    BY <1>7, <1>8, <2>1, <2>2, NoText, ParseRcFaithful
  <2>6. Start \in Faithful(t)
    BY ConstantResults
  <2>7. Good(a) => I = {}
    BY <1>1, <1>10, <2>1 DEF Good, ParseRc
  <2>8. I = {} => g.children = <<>>
    BY <1>2 DEF ChildrenIn, N
  <2>9. a \in Faithful(t)
    <3> HIDE DEF a
    <3> QED
      BY <1>1, <1>10, <2>3, <2>4, <2>5, <2>6
  <2> HIDE DEF a
  <2> QED
    BY <2>7, <2>8, <2>9 DEF a
<1> QED
  BY <1>9, <1>10

----------------------------------------------------------------------------
(* Concatenations.                                                         *)

\* What parses the children behind a child, which may take a character.
RestParsers(takes) ==
  {R \in [Rests -> Results] :
     \A c \in Rests : R[c] \in Faithful(c.t) /\ (takes /\ Good(R[c]) => R[c].ok > 0)}

LEMMA RestFaithful ==
  ASSUME NEW takes, NEW R \in RestParsers(takes), NEW t \in Texts, NEW depth \in {0, 1}, NEW seen \in Seen,
         NEW main \in BOOLEAN
  PROVE  LET s == R[Rest(t, depth, seen, main)]
         IN  s \in Faithful(t) /\ (takes /\ Good(s) => s.ok > 0)
<1>1. Rest(t, depth, seen, main) \in Rests /\ Rest(t, depth, seen, main).t = t
  BY DEF Rest, Rests
<1> QED
  BY <1>1 DEF RestParsers

LEMMA PrefixedBehind ==
  ASSUME NEW t \in Texts, NEW n \in 0 .. Len(t), NEW raw, raw = SubSeq(t, 1, n),
         NEW cands \in Seq(Fitting(From(t, n)))
  PROVE  Prefixed(raw, cands) \in Seq(Fitting(t))
<1>1. Len(cands) \in Nat /\ DOMAIN cands = 1 .. Len(cands)
  OBVIOUS
<1>2. ASSUME NEW i \in 1 .. Len(cands) PROVE Candidate(raw \o cands[i].raw, cands[i].stop) \in Fitting(t)
  <2>1. cands[i] \in Fitting(From(t, n))
    OBVIOUS
  <2>2. cands[i].stop \in BOOLEAN
    BY <2>1 DEF Fitting, Candidates
  <2> QED
    BY <2>1, <2>2, BehindFits
<1>3. Prefixed(raw, cands) \in [1 .. Len(cands) -> Fitting(t)]
  BY <1>1, <1>2 DEF Prefixed
<1> QED
  BY <1>1, <1>3, SequenceIs

\* A candidate that may be continued continues the text, and so does whatever is
\* put behind it.
LEMMA PrefixedLonger ==
  ASSUME NEW t \in Texts, NEW raw \in Texts, IsPrefix(t, raw), NEW cands \in Seq(Candidates)
  PROVE  Prefixed(raw, cands) \in Seq(Fitting(t))
<1>1. Len(cands) \in Nat /\ DOMAIN cands = 1 .. Len(cands)
  OBVIOUS
<1>2. ASSUME NEW i \in 1 .. Len(cands) PROVE Candidate(raw \o cands[i].raw, cands[i].stop) \in Fitting(t)
  <2>1. cands[i] \in Candidates
    OBVIOUS
  <2>2. cands[i].stop \in BOOLEAN /\ cands[i].raw \in Texts
    BY <2>1 DEF Candidates
  <2>3. IsPrefix(t, raw \o cands[i].raw)
    BY <2>2, PrefixLonger
  <2>4. raw \o cands[i].raw \in Texts
    BY <2>2, JoinIs
  <2> QED
    BY <2>2, <2>3, <2>4 DEF Fitting, Candidates, Candidate, Fits
<1>3. Prefixed(raw, cands) \in [1 .. Len(cands) -> Fitting(t)]
  BY <1>1, <1>2 DEF Prefixed
<1> QED
  BY <1>1, <1>3, SequenceIs

LEMMA ForksFit ==
  ASSUME NEW takes, NEW rest \in RestParsers(takes), NEW t \in Texts, NEW r \in Faithful(t),
         NEW depth \in {0, 1}, NEW seen \in Seen, NEW first \in BOOLEAN
  PROVE  Forks(r, rest, depth, seen, first) \in Seq(Fitting(t))
<1> DEFINE many == Len(r.cands) > 1
           longer(c) == IF c.stop THEN <<>>
                        ELSE rest[Rest(<<>>, IF many THEN depth - 1 ELSE depth, seen, FALSE)].cands
           fork(c) == CASE depth = 0 /\ many /\ first  -> <<c>>
                        [] depth = 0 /\ many /\ ~first -> <<>>
                        [] OTHER -> IF longer(c) = <<>> THEN <<Candidate(c.raw, TRUE)>>
                                    ELSE Prefixed(c.raw, longer(c))
           F == Fitting(t)
           forks == [n \in DOMAIN r.cands |-> fork(r.cands[n])]
<1>1. r.cands \in Seq(F)
  BY FaithfulIs
<1>2. ASSUME NEW c \in F PROVE fork(c) \in Seq(F)
  <2>1. c.raw \in Texts /\ c.stop \in BOOLEAN /\ (~c.stop => IsPrefix(t, c.raw)) /\ Fits(t, c)
    BY DEF Fitting, Candidates, Fits
  <2>2. Candidate(c.raw, TRUE) \in F
    BY <2>1 DEF Fitting, Candidates, Candidate, Fits
  <2>3. CASE depth = 0 /\ many
    <3>1. <<c>> \in Seq(F) /\ <<>> \in Seq(F)
      <4> HIDE DEF F
      <4> QED
        OBVIOUS
    <3>2. fork(c) = <<c>> \/ fork(c) = <<>>
      <4> HIDE DEF longer
      <4>1. CASE first
        BY <2>3, <4>1
      <4>2. CASE ~first
        BY <2>3, <4>2
      <4> QED
        BY <4>1, <4>2
    <3> HIDE DEF fork, F
    <3> QED
      BY <3>1, <3>2
  <2>4. CASE ~(depth = 0 /\ many)
    <3> DEFINE d == IF many THEN depth - 1 ELSE depth
               s == rest[Rest(<<>>, d, seen, FALSE)]
               l == longer(c)
    <3>1. d \in {0, 1}
      BY <2>4
    <3> HIDE DEF d
    <3>2. s \in Faithful(<<>>)
      BY <3>1, EmptyText, RestFaithful
    <3>3. s.cands \in Seq(Candidates)
      BY <3>2 DEF Faithful, Results
    <3>4. l = IF c.stop THEN <<>> ELSE s.cands
      BY DEF d
    <3> HIDE DEF s, l
    <3>5. fork(c) = IF l = <<>> THEN <<Candidate(c.raw, TRUE)>> ELSE Prefixed(c.raw, l)
      BY <2>4 DEF l
    <3>6. CASE l = <<>>
      <4>1. <<Candidate(c.raw, TRUE)>> \in Seq(F)
        <5> DEFINE x == Candidate(c.raw, TRUE)
        <5>1. x \in F
          BY <2>2
        <5> HIDE DEF F, x
        <5>2. <<x>> \in Seq(F)
          BY <5>1
        <5> QED
          BY <5>2 DEF x
      <4> HIDE DEF F, fork
      <4> QED
        BY <3>5, <3>6, <4>1
    <3>7. CASE l # <<>>
      <4>1. ~c.stop /\ l = s.cands
        BY <3>4, <3>7
      <4>2. Prefixed(c.raw, l) \in Seq(F)
        BY <2>1, <3>3, <4>1, PrefixedLonger
      <4> HIDE DEF F, fork
      <4> QED
        BY <3>5, <3>7, <4>2
    <3> HIDE DEF fork
    <3> QED
      BY <3>6, <3>7
  <2> HIDE DEF fork
  <2> QED
    BY <2>3, <2>4
<1>3. Forks(r, rest, depth, seen, first) = FlattenSeq(forks)
  BY DEF Forks
<1> HIDE DEF fork, F
<1>4. Len(r.cands) \in Nat /\ DOMAIN r.cands = 1 .. Len(r.cands)
  BY <1>1
<1>5. forks \in [1 .. Len(r.cands) -> Seq(F)]
  BY <1>1, <1>2, <1>4
<1> HIDE DEF forks
<1>6. forks \in Seq(Seq(F))
  BY ONLY <1>4, <1>5, SequenceIs
<1> QED
  BY <1>3, <1>6, FlattenIs DEF F

LEMMA ChildOfConcatenationFaithful ==
  ASSUME NEW n, NEW P \in Parsers(n), NEW child \in Elements(n), NEW takes, NEW rest \in RestParsers(takes),
         NEW t \in Texts, NEW depth \in {0, 1}, NEW seen \in Seen, NEW main \in BOOLEAN, NEW first \in BOOLEAN
  PROVE  LET q == ParseChild(P, child, rest, t, depth, seen, main, first)
         IN  q \in Faithful(t) /\ (takes \/ child \in taking[n] => (Good(q) => q.ok > 0))
<1> DEFINE r     == P[Call(child, t, 1, seen)]
           known == IF main /\ child.name \in Keys THEN [seen EXCEPT ![child.name] = r.raw] ELSE seen
           u     == From(t, r.len)
           s     == rest[Rest(u, depth, known, main)]
           cands == Forks(r, rest, depth, seen, first)
           q     == ParseChild(P, child, rest, t, depth, seen, main, first)
           F     == Fitting(t)
           more  == Prefixed(r.raw, s.cands)
<1>1. q = CASE Good(r)    -> ParseRc(s.type, r.ok + s.ok, r.len + s.len, cands \o more, r.raw \o s.raw)
            [] Missing(r) -> ParseRc(r.type, r.ok, r.len, cands, r.raw)
            [] OTHER      -> ParseRc(r.type, r.ok, r.len, cands, <<>>)
  BY DEF ParseChild
<1>2. r \in Faithful(t) /\ (child \in taking[n] /\ Good(r) => r.ok > 0)
  BY ChildFaithful
<1> HIDE DEF r, q
<1>3. /\ r.type \in ResultTypes /\ r.ok \in Nat /\ r.len \in Nat /\ r.raw \in Texts
      /\ r.ok <= r.len /\ r.len <= Len(t) /\ IsPrefix(r.raw, t)
      /\ Good(r) => r.ok = r.len /\ r.raw = SubSeq(t, 1, r.ok)
      /\ Len(t) \in Nat
  BY ONLY <1>2, t \in Texts, FaithfulIs
<1>4. cands \in Seq(F)
  BY <1>2, ForksFit
<1>5. known \in Seen
  BY <1>3 DEF Seen
<1>6. r.len \in 0 .. Len(t)
  BY <1>3
<1>7. u \in Texts /\ Len(u) = Len(t) - r.len
  BY <1>6, FromIs
<1> HIDE DEF cands, known, F
<1>8. CASE Good(r)
  <2>1. s \in Faithful(u) /\ (takes /\ Good(s) => s.ok > 0)
    <3> HIDE DEF u
    <3> QED
      BY <1>5, <1>7, RestFaithful
  <2> HIDE DEF s
  <2>2. /\ s.type \in ResultTypes /\ s.ok \in Nat /\ s.len \in Nat /\ s.raw \in Texts
        /\ s.ok <= s.len /\ s.len <= Len(u) /\ IsPrefix(s.raw, u)
        /\ Good(s) => s.ok = s.len /\ s.raw = SubSeq(u, 1, s.ok)
        /\ s.cands \in Seq(Fitting(u))
    BY ONLY <1>7, <2>1, FaithfulIs
  <2>3. r.ok = r.len /\ r.raw = SubSeq(t, 1, r.len)
    BY <1>3, <1>8
  <2>4. more \in Seq(F)
    BY <1>6, <2>2, <2>3, PrefixedBehind DEF F
  <2> HIDE DEF more
  <2>5. cands \o more \in Seq(F)
    BY <1>4, <2>4
  <2> DEFINE raw == r.raw \o s.raw
             all == cands \o more
  <2>6. raw \in Texts
    BY <1>3, <2>2, JoinIs
  <2>7. IsPrefix(raw, t)
    BY <1>6, <2>2, <2>3, InFront
  <2>8. Good(s) => raw = SubSeq(t, 1, r.ok + s.ok)
    <3> SUFFICES ASSUME Good(s) PROVE raw = SubSeq(t, 1, r.ok + s.ok)
      OBVIOUS
    <3>1. s.ok \in 0 .. Len(t) - r.len /\ s.raw = SubSeq(u, 1, s.ok)
      BY <1>3, <1>7, <2>2
    <3> QED
      BY <1>6, <2>3, <3>1, Joined
  <2>9. /\ r.ok + s.ok \in Nat /\ r.len + s.len \in Nat
        /\ r.ok + s.ok <= r.len + s.len /\ r.len + s.len <= Len(t)
        /\ Good(s) => r.ok + s.ok = r.len + s.len
    <3>1. r.ok = r.len /\ r.len \in Nat /\ Len(t) \in Nat
      BY <1>3, <2>3
    <3>2. /\ s.ok \in Nat /\ s.len \in Nat /\ s.ok <= s.len /\ s.len <= Len(t) - r.len
          /\ Good(s) => s.ok = s.len
      BY <1>7, <2>2
    <3> QED
      BY ONLY <3>1, <3>2
  <2> HIDE DEF raw, all
  <2>10. ParseRc(s.type, r.ok + s.ok, r.len + s.len, all, raw) \in Faithful(t)
    <3>1. s.type = "success" => r.ok + s.ok = r.len + s.len /\ raw = SubSeq(t, 1, r.ok + s.ok)
      BY <2>8, <2>9 DEF Good
    <3> QED
      BY <2>2, <2>5, <2>6, <2>7, <2>9, <3>1, ParseRcFaithful DEF all, F
  <2>11. q = ParseRc(s.type, r.ok + s.ok, r.len + s.len, all, raw)
    <3>1. ~Missing(r)
      BY <1>8 DEF Good, Missing
    <3> QED
      BY <1>1, <1>8, <3>1 DEF all, raw
  <2>12. q \in Faithful(t) /\ q.type = s.type /\ q.ok = r.ok + s.ok
    BY <2>10, <2>11 DEF ParseRc
  <2>13. takes \/ child \in taking[n] => (Good(q) => q.ok > 0)
    <3> SUFFICES ASSUME takes \/ child \in taking[n], Good(q) PROVE q.ok > 0
      OBVIOUS
    <3>1. Good(s)
      BY <2>12 DEF Good
    <3>2. CASE takes
      BY <1>3, <2>1, <2>2, <2>12, <3>1, <3>2
    <3>3. CASE child \in taking[n]
      BY <1>2, <1>3, <1>8, <2>2, <2>12, <3>3
    <3> QED
      BY <3>2, <3>3
  <2> QED
    BY <2>12, <2>13 DEF q
<1>9. CASE ~Good(r)
  <2>1. ParseRc(r.type, r.ok, r.len, cands, r.raw) \in Faithful(t)
    BY <1>3, <1>4, <1>9, ParseRcFaithful DEF F, Good
  <2>2. ParseRc(r.type, r.ok, r.len, cands, <<>>) \in Faithful(t)
    BY <1>3, <1>4, <1>9, NoText, ParseRcFaithful DEF F, Good
  <2>3. q = ParseRc(r.type, r.ok, r.len, cands, r.raw) \/ q = ParseRc(r.type, r.ok, r.len, cands, <<>>)
    BY <1>1, <1>9
  <2>4. q \in Faithful(t)
    BY <2>1, <2>2, <2>3
  <2>5. ~Good(q)
    BY <1>9, <2>3 DEF Good, ParseRc
  <2> QED
    BY <2>4, <2>5 DEF q
<1> QED
  BY <1>8, <1>9

\* Some of the last k children takes a character.
LastTake(g, n, k) == \E i \in Len(g.children) - k + 1 .. Len(g.children) : g.children[i] \in taking[n]

\* What parses the last children, one more after another.
ChildrenRun(P, g, n, m, last) ==
  /\ last[0] = [c \in Rests |-> Start]
  /\ \A k \in 1 .. m :
       last[k] = [c \in Rests |-> ParseChild(P, g.children[Len(g.children) - k + 1], last[k - 1],
                                            c.t, c.depth, c.seen, c.main, k = Len(g.children))]
  /\ \A k \in 0 .. m : last[k] \in RestParsers(LastTake(g, n, k))
  /\ LastChildren(P, g, m) = last[m]

LEMMA LastChildrenRun ==
  ASSUME NEW n, NEW P \in Parsers(n), NEW g, ChildrenIn(g, n), NEW m \in 0 .. Len(g.children)
  PROVE  \E last : ChildrenRun(P, g, n, m, last)
<1> DEFINE N == Len(g.children)
           child(k) == g.children[N - k + 1]
           S == [k \in 0 .. m |-> RestParsers(LastTake(g, n, k))]
           b == [c \in Rests |-> Start]
           next(k, R) == [c \in Rests |-> ParseChild(P, child(k), R, c.t, c.depth, c.seen, c.main, k = N)]
           X == RestParsers(FALSE)
           step == [a \in (1 .. m) \X X |-> next(a[1], a[2])]
           body(f) == [k \in 0 .. m |->
                         [c \in Rests |->
                            IF k = 0 THEN Start
                            ELSE ParseChild(P, g.children[N - k + 1], f[k - 1],
                                            c.t, c.depth, c.seen, c.main, k = N)]]
           last == CHOOSE f : f = body(f)
<1>1. N \in Nat /\ m \in Nat /\ m <= N /\ \A i \in 1 .. N : g.children[i] \in Elements(n)
  BY DEF ChildrenIn
<1>2. LastChildren(P, g, m) = last[m]
  BY DEF LastChildren
<1>3. \A c \in Rests : c.t \in Texts /\ c.depth \in {0, 1} /\ c.seen \in Seen /\ c.main \in BOOLEAN
  BY DEF Rests
<1>4. \A t \in Texts : Faithful(t) \subseteq Results
  BY DEF Faithful
<1>5. b \in RestParsers(LastTake(g, n, 0))
  <2>1. ~LastTake(g, n, 0)
    BY <1>1 DEF LastTake
  <2>2. \A c \in Rests : Start \in Faithful(c.t)
    BY <1>3, ConstantResults
  <2>3. b \in [Rests -> Results]
    BY <1>3, <1>4, <2>2
  <2> QED
    BY <2>1, <2>2, <2>3 DEF RestParsers
<1>6. ASSUME NEW k \in 1 .. m, NEW R \in RestParsers(LastTake(g, n, k - 1))
      PROVE  next(k, R) \in RestParsers(LastTake(g, n, k))
  <2>1. N - k + 1 \in 1 .. N
    BY <1>1
  <2>2. child(k) \in Elements(n)
    BY <1>1, <2>1
  <2>3. LastTake(g, n, k) => LastTake(g, n, k - 1) \/ child(k) \in taking[n]
    <3> SUFFICES ASSUME LastTake(g, n, k), ~(child(k) \in taking[n]) PROVE LastTake(g, n, k - 1)
      OBVIOUS
    <3>1. PICK i \in N - k + 1 .. N : g.children[i] \in taking[n]
      BY DEF LastTake
    <3>2. i # N - k + 1
      BY <3>1
    <3>3. i \in N - (k - 1) + 1 .. N
      BY <1>1, <3>2
    <3> QED
      BY <3>1, <3>3 DEF LastTake
  <2> DEFINE q(c) == ParseChild(P, child(k), R, c.t, c.depth, c.seen, c.main, k = N)
             takes == LastTake(g, n, k - 1)
  <2> HIDE DEF child
  <2>4. ASSUME NEW c \in Rests
        PROVE  q(c) \in Faithful(c.t) /\ (takes \/ child(k) \in taking[n] => (Good(q(c)) => q(c).ok > 0))
    <3> DEFINE first == k = N
               it == child(k)
    <3>1. first \in BOOLEAN
      OBVIOUS
    <3>2. R \in RestParsers(takes)
      BY DEF takes
    <3>3. c.t \in Texts /\ c.depth \in {0, 1} /\ c.seen \in Seen /\ c.main \in BOOLEAN
      BY <1>3
    <3>4. it \in Elements(n)
      BY <2>2
    <3>5. q(c) = ParseChild(P, it, R, c.t, c.depth, c.seen, c.main, first)
      BY DEF q
    <3> HIDE DEF takes, first, it, q
    <3>6. LET x == ParseChild(P, it, R, c.t, c.depth, c.seen, c.main, first)
          IN  x \in Faithful(c.t) /\ (takes \/ it \in taking[n] => (Good(x) => x.ok > 0))
      BY ONLY P \in Parsers(n), <3>1, <3>2, <3>3, <3>4, ChildOfConcatenationFaithful
    <3> QED
      BY <3>5, <3>6 DEF it
  <2> HIDE DEF q
  <2>5. [c \in Rests |-> q(c)] \in RestParsers(LastTake(g, n, k))
    <3>1. [c \in Rests |-> q(c)] \in [Rests -> Results]
      BY <1>3, <1>4, <2>4
    <3> QED
      BY <2>3, <2>4, <3>1 DEF RestParsers
  <2> QED
    BY <2>5 DEF q
<1>7. \A k \in Int : RestParsers(LastTake(g, n, k)) \subseteq X
  BY DEF RestParsers
<1> HIDE DEF next, b, X
<1>8. Steps(m, S, step)
  <2> SUFFICES ASSUME NEW k \in 1 .. m, NEW R \in S[k - 1] PROVE step[<<k, R>>] \in S[k]
    BY DEF Steps
  <2>1. k - 1 \in 0 .. m /\ k \in 0 .. m /\ k - 1 \in Int
    BY <1>1
  <2>2. R \in RestParsers(LastTake(g, n, k - 1)) /\ R \in X
    BY <1>7, <2>1
  <2>3. step[<<k, R>>] = next(k, R)
    BY <2>2
  <2> QED
    BY <1>6, <2>1, <2>2, <2>3
<1>9. b \in S[0]
  BY <1>1, <1>5
<1>10. \A k \in 1 .. m : \A R \in S[k - 1] : step[<<k, R>>] = next(k, R)
  <2> TAKE k \in 1 .. m
  <2> TAKE R \in S[k - 1]
  <2>1. k - 1 \in 0 .. m /\ k - 1 \in Int
    BY <1>1
  <2>2. R \in X
    BY <1>7, <2>1
  <2> QED
    BY <2>2
<1>11. \A k \in 0 .. m : S[k] = RestParsers(LastTake(g, n, k))
  OBVIOUS
<1> HIDE DEF S, step
<1>12. DefinesIn(m, S, b, step)
  BY ONLY <1>1, <1>8, <1>9, DependentRecursion
<1>13. PICK f : /\ DOMAIN f = 0 .. m /\ f = [i \in 0 .. m |-> f[i]] /\ f[0] = b
                /\ \A i \in 1 .. m : f[i] = step[<<i, f[i - 1]>>]
                /\ \A i \in 0 .. m : f[i] \in S[i]
  BY <1>12 DEF DefinesIn
<1> DEFINE value(h, k) == IF k = 0 THEN b ELSE next(k, h[k - 1])
<1>14. \A h : body(h) = [k \in 0 .. m |-> value(h, k)]
  <2> TAKE h
  <2>1. ASSUME NEW k \in 0 .. m
        PROVE  [c \in Rests |->
                  IF k = 0 THEN Start
                  ELSE ParseChild(P, g.children[N - k + 1], h[k - 1], c.t, c.depth, c.seen, c.main, k = N)]
                 = value(h, k)
    <3>1. CASE k = 0
      BY <3>1 DEF b
    <3>2. CASE k # 0
      BY <3>2 DEF next
    <3> QED
      BY <3>1, <3>2
  <2> QED
    BY <2>1
<1> HIDE DEF body
<1>15. \A k \in 0 .. m : f[k] = value(f, k)
  <2> TAKE k \in 0 .. m
  <2>1. CASE k = 0
    BY <1>13, <2>1
  <2>2. CASE k # 0
    <3>1. k \in 1 .. m /\ k - 1 \in 0 .. m
      BY <1>1, <2>2
    <3>2. f[k] = step[<<k, f[k - 1]>>] /\ f[k - 1] \in S[k - 1]
      BY <1>13, <3>1
    <3> QED
      BY <1>10, <2>2, <3>1, <3>2
  <2> QED
    BY <2>1, <2>2
<1> HIDE DEF value
<1>16. f = body(f)
  BY <1>13, <1>14, <1>15
<1>17. last = body(last)
  BY <1>16
<1> HIDE DEF last
<1>18. \A k \in 0 .. m : last[k] = value(last, k)
  BY <1>14, <1>17
<1> DEFINE T == {k \in 0 .. m : last[k] \in S[k]}
<1>19. 0 \in T
  BY <1>1, <1>9, <1>18 DEF value
<1>20. ASSUME NEW k \in 0 .. m - 1, k \in T PROVE k + 1 \in T
  <2>1. /\ k + 1 \in 1 .. m /\ (k + 1) - 1 = k /\ last[k] \in S[k]
        /\ k + 1 \in 0 .. m /\ k + 1 # 0 /\ k \in 0 .. m
    BY <1>1, <1>20
  <2>2. last[k + 1] = next(k + 1, last[k])
    BY <1>18, <2>1 DEF value
  <2>3. next(k + 1, last[k]) \in RestParsers(LastTake(g, n, k + 1))
    BY <1>6, <1>11, <2>1
  <2> QED
    BY <1>11, <2>1, <2>2, <2>3
<1>21. 0 .. m \subseteq T
  <2> HIDE DEF T
  <2> QED
    BY <1>1, <1>19, <1>20, Induction
<1>22. \A k \in 0 .. m : last[k] \in RestParsers(LastTake(g, n, k))
  BY <1>11, <1>21
<1>23. last[0] = [c \in Rests |-> Start]
  <2>1. 0 \in 0 .. m
    BY <1>1
  <2> QED
    BY <1>18, <2>1 DEF value, b
<1>24. \A k \in 1 .. m : last[k] = next(k, last[k - 1])
  <2>1. \A k \in 1 .. m : k \in 0 .. m /\ k # 0
    BY <1>1
  <2> QED
    BY <1>18, <2>1 DEF value
<1> QED
  BY <1>2, <1>22, <1>23, <1>24 DEF ChildrenRun, next

LEMMA LastChildrenFaithful ==
  ASSUME NEW n, NEW P \in Parsers(n), NEW g, ChildrenIn(g, n), NEW m \in 0 .. Len(g.children)
  PROVE  LastChildren(P, g, m) \in RestParsers(LastTake(g, n, m))
<1>1. PICK last : ChildrenRun(P, g, n, m, last)
  BY LastChildrenRun
<1>2. m \in 0 .. m
  OBVIOUS
<1> QED
  BY <1>1, <1>2 DEF ChildrenRun

LEMMA ConcatenationFaithful ==
  ASSUME NEW n, NEW P \in Parsers(n), NEW g, ChildrenIn(g, n), NEW t \in Texts, NEW depth \in {0, 1},
         NEW seen \in Seen, NEW main \in BOOLEAN
  PROVE  LET a == ParseConcatenation(P, g, t, depth, seen, main)
         IN  /\ a \in Faithful(t)
             /\ (\E i \in DOMAIN g.children : g.children[i] \in taking[n]) /\ Good(a) => a.ok > 0
<1> DEFINE N == Len(g.children)
           R == LastChildren(P, g, N)
           s == R[Rest(t, depth, seen, main)]
           a == ParseConcatenation(P, g, t, depth, seen, main)
           takes == LastTake(g, n, N)
<1>1. N \in Nat /\ DOMAIN g.children = 1 .. N /\ N \in 0 .. N
  BY DEF ChildrenIn
<1>2. R \in RestParsers(takes)
  BY <1>1, LastChildrenFaithful
<1>3. s \in Faithful(t) /\ (takes /\ Good(s) => s.ok > 0)
  <2> HIDE DEF R, takes
  <2> QED
    BY <1>2, RestFaithful
<1>4. (\E i \in DOMAIN g.children : g.children[i] \in taking[n]) => takes
  BY <1>1 DEF LastTake
<1>5. CASE g.children = <<>>
  <2>1. a = Fail
    BY <1>5 DEF ParseConcatenation
  <2>2. Fail \in Faithful(t) /\ ~Good(Fail)
    BY ConstantResults DEF Fail, Good, ParseRc
  <2> HIDE DEF a
  <2> QED
    BY <2>1, <2>2 DEF a
<1>6. CASE g.children # <<>>
  <2>1. a = s
    BY <1>6 DEF ParseConcatenation
  <2> HIDE DEF a, s
  <2> QED
    BY <1>3, <1>4, <2>1 DEF a
<1> QED
  BY <1>5, <1>6

----------------------------------------------------------------------------
(* Elements.                                                               *)

LEMMA TakingIs ==
  /\ taking[0] = {}
  /\ \A n \in 1 .. Height : taking[n] = {g \in Elements(n) : Takes(g, taking[n - 1])}
<1> DEFINE value(n, lower) == {g \in Elements(n) : Takes(g, lower)}
           body(f) == [n \in 0 .. Height |-> IF n = 0 THEN {} ELSE value(n, f[n - 1])]
           U == UNION {Elements(n) : n \in 0 .. Height}
           step == [a \in (1 .. Height) \X SUBSET U |-> value(a[1], a[2])]
<1>1. Height \in Nat
  BY GrammarAssumption
<1>2. taking = CHOOSE f : f = body(f)
  BY DEF taking
<1>3. step \in [(1 .. Height) \X SUBSET U -> SUBSET U]
  <2> SUFFICES ASSUME NEW a \in (1 .. Height) \X SUBSET U PROVE value(a[1], a[2]) \subseteq U
    OBVIOUS
  <2>1. a[1] \in 0 .. Height
    OBVIOUS
  <2> QED
    BY <2>1
<1>4. \A i \in 1 .. Height, x \in SUBSET U : step[<<i, x>>] = value(i, x)
  OBVIOUS
<1>5. {} \in SUBSET U
  OBVIOUS
<1> HIDE DEF step, U, value
<1>6. Defines(Height, SUBSET U, {}, step)
  BY ONLY <1>1, <1>3, <1>5, Recursion
<1>7. PICK f \in [0 .. Height -> SUBSET U] :
        f[0] = {} /\ \A i \in 1 .. Height : f[i] = step[<<i, f[i - 1]>>]
  BY <1>6 DEF Defines
<1>8. \A i \in 0 .. Height : f[i] = IF i = 0 THEN {} ELSE value(i, f[i - 1])
  <2> TAKE i \in 0 .. Height
  <2>1. CASE i = 0
    BY <1>7, <2>1
  <2>2. CASE i # 0
    <3>1. i \in 1 .. Height /\ i - 1 \in 0 .. Height
      BY <1>1, <2>2
    <3> QED
      BY <1>4, <1>7, <2>2, <3>1
  <2> QED
    BY <2>1, <2>2
<1>9. f = body(f)
  BY <1>7, <1>8
<1>10. taking = body(taking)
  <2> HIDE DEF body
  <2> QED
    BY <1>2, <1>9
<1>11. \A i \in 0 .. Height : taking[i] = IF i = 0 THEN {} ELSE value(i, taking[i - 1])
  BY <1>10
<1>12. 0 \in 0 .. Height /\ \A i \in 1 .. Height : i \in 0 .. Height /\ i # 0
  BY <1>1
<1> QED
  BY <1>11, <1>12 DEF value

LEMMA TakingInElements ==
  ASSUME NEW n \in 0 .. Height
  PROVE  taking[n] \subseteq Elements(n)
<1>1. CASE n = 0
  BY <1>1, TakingIs
<1>2. CASE n # 0
  <2>1. n \in 1 .. Height
    BY <1>2, GrammarAssumption
  <2> QED
    BY <2>1, TakingIs
<1> QED
  BY <1>1, <1>2

LEMMA MatchIs ==
  ASSUME NEW t \in Texts, NEW n \in 0 .. Len(t)
  PROVE  Match(SubSeq(t, 1, n)).ok = n
<1> DEFINE m == SubSeq(t, 1, n)
<1>1. Len(m) = n
  BY BeginningIs
<1> HIDE DEF m
<1>2. Match(m).ok = n
  BY <1>1 DEF Match, ParseRc
<1> QED
  BY <1>2 DEF m

\* When a match of an element without children takes a character.
LEMMA SimpleTakes ==
  ASSUME NEW t \in Texts, NEW s \in Texts, NEW class, NEW least \in Nat
  PROVE  /\ s # <<>> /\ Good(ParseFixedString(s, t)) => ParseFixedString(s, t).ok > 0
         /\ least > 0 /\ Good(ParseRegEx(class, least, t)) => ParseRegEx(class, least, t).ok > 0
         /\ Good(ParseWhiteSpace(t)) => ParseWhiteSpace(t).ok > 0
<1>1. ASSUME s # <<>>, Good(ParseFixedString(s, t)) PROVE ParseFixedString(s, t).ok > 0
  <2>1. Len(s) > 0
    BY <1>1 DEF Texts
  <2>2. CASE IsPrefix(s, t) /\ ~IsStrictPrefix(t, s)
    BY <2>1, <2>2 DEF ParseFixedString, Match, ParseRc
  <2>3. CASE IsStrictPrefix(t, s)
    <3>1. ~IsPrefix(s, t)
      <4> SUFFICES ASSUME IsPrefix(s, t) PROVE FALSE
        OBVIOUS
      <4>1. IsPrefix(t, s) /\ s # t
        BY <2>3 DEF IsStrictPrefix
      <4>2. Len(s) = Len(t) /\ \A i \in 1 .. Len(s) : s[i] = t[i]
        <5>1. Len(s) \in Nat /\ Len(t) \in Nat
          BY DEF Texts
        <5> QED
          BY <4>1, <5>1, PrefixIs
      <4> QED
        BY <4>1, <4>2 DEF Texts
    <3> QED
      BY <1>1, <2>3, <3>1 DEF ParseFixedString, Good, ParseRc
  <2>4. CASE ~IsPrefix(s, t) /\ ~IsStrictPrefix(t, s)
    BY <1>1, <2>4 DEF ParseFixedString, Good, Unexpected, ParseRc
  <2> QED
    BY <2>2, <2>3, <2>4
<1>2. ASSUME least > 0, Good(ParseRegEx(class, least, t)) PROVE ParseRegEx(class, least, t).ok > 0
  <2> DEFINE n == Span(class, t)
  <2>1. n \in Nat /\ n \in 0 .. Len(t)
    BY SpanIs DEF Texts
  <2>3. ParseRegEx(class, least, t) =
          CASE n >= least -> Match(SubSeq(t, 1, n))
            [] n < least /\ t = <<>> -> ParseRc("missingText", 0, 0, <<>>, <<>>)
            [] OTHER -> ParseRc("unexpectedText", 0, Len(t), <<>>, <<>>)
    BY DEF ParseRegEx
  <2> HIDE DEF n
  <2>4. CASE n >= least
    <3>1. ~(n < least)
      BY <2>1, <2>4
    <3>2. ParseRegEx(class, least, t) = Match(SubSeq(t, 1, n))
      BY <2>3, <2>4, <3>1
    <3>3. ParseRegEx(class, least, t).ok = n
      BY <2>1, <3>2, MatchIs
    <3>4. least \in Nat /\ n \in Nat
      BY <2>1
    <3> QED
      BY <1>2, <2>4, <3>3, <3>4
  <2>5. CASE ~(n >= least)
    BY <1>2, <2>3, <2>5 DEF Good, ParseRc
  <2> QED
    BY <2>4, <2>5
<1>3. ASSUME Good(ParseWhiteSpace(t)) PROVE ParseWhiteSpace(t).ok > 0
  <2> DEFINE n == Span({Blank}, t)
  <2>1. n \in Nat /\ n \in 0 .. Len(t)
    BY SpanIs DEF Texts
  <2>3. ParseWhiteSpace(t) =
          CASE n > 0 -> Match(SubSeq(t, 1, n))
            [] n = 0 /\ t = <<>> -> ParseRc("missingText", 0, 0, <<Candidate(<<Blank>>, FALSE)>>, <<>>)
            [] OTHER -> Unexpected
    BY DEF ParseWhiteSpace
  <2> HIDE DEF n
  <2>4. CASE n > 0
    <3>1. ParseWhiteSpace(t) = Match(SubSeq(t, 1, n))
      <4>1. ~(n = 0)
        BY <2>1, <2>4
      <4> QED
        BY <2>3, <2>4, <4>1
    <3>2. ParseWhiteSpace(t).ok = n
      BY <2>1, <3>1, MatchIs
    <3> QED
      BY <2>4, <3>2
  <2>5. CASE ~(n > 0)
    BY <1>3, <2>3, <2>5 DEF Good, Unexpected, ParseRc
  <2> QED
    BY <2>4, <2>5
<1> QED
  BY <1>1, <1>2, <1>3

LEMMA ElementFaithful ==
  ASSUME NEW n \in 1 .. Height, NEW P \in Parsers(n - 1), NEW g \in Elements(n), NEW t \in Texts,
         NEW depth \in {0, 1}, NEW seen \in Seen
  PROVE  LET r == ParseElement(P, g, t, depth, seen)
         IN  r \in Faithful(t) /\ (g \in taking[n] /\ Good(r) => r.ok > 0)
<1> DEFINE k == n - 1
           r == ParseElement(P, g, t, depth, seen)
<1>1. WellFormed(g, k)
  BY GrammarAssumption
<1>2. g \in taking[n] => Takes(g, taking[k])
  BY TakingIs
<1>3. taking[k] \subseteq Elements(k)
  <2>1. k \in 0 .. Height
    BY GrammarAssumption
  <2> HIDE DEF k
  <2> QED
    BY <2>1, TakingInElements
<1>4. P \in Parsers(k)
  OBVIOUS
<1> HIDE DEF k
<1>5. CASE g.kind = "fix"
  <2>1. g.s \in Texts /\ r = ParseFixedString(g.s, t) /\ (Takes(g, taking[k]) => g.s # <<>>)
    BY <1>1, <1>5 DEF WellFormed, Takes, ParseElement
  <2> HIDE DEF r
  <2> QED
    BY <1>2, <2>1, FixedStringFaithful, SimpleTakes, 0 \in Nat DEF r
<1>6. CASE g.kind = "rex"
  <2>1. g.least \in Nat /\ r = ParseRegEx(g.class, g.least, t) /\ (Takes(g, taking[k]) => g.least > 0)
    BY <1>1, <1>6 DEF WellFormed, Takes, ParseElement
  <2> HIDE DEF r
  <2> QED
    BY <1>2, <2>1, RegExFaithful, SimpleTakes, EmptyText DEF r
<1>7. CASE g.kind = "ws"
  <2>1. Blank \in Chars /\ r = ParseWhiteSpace(t)
    BY <1>7, GrammarAssumption DEF ParseElement
  <2> HIDE DEF r
  <2> QED
    BY <2>1, WhiteSpaceFaithful, SimpleTakes, EmptyText, 0 \in Nat DEF r
<1>8. CASE g.kind = "esc"
  <2>1. r = ParseEscapedString(g.stops, g.escape, t) /\ ~Takes(g, taking[k])
    BY <1>8 DEF Takes, ParseElement
  <2> HIDE DEF r
  <2> QED
    BY <1>2, <2>1, EscapedStringFaithful DEF r
<1>9. CASE g.kind = "opt"
  <2>1. g.child \in Elements(k) /\ r = ParseOptional(P, g, t, seen) /\ ~Takes(g, taking[k])
    BY <1>1, <1>9 DEF WellFormed, Takes, ParseElement
  <2> HIDE DEF r
  <2> QED
    BY <1>2, <1>4, <2>1, OptionalFaithful DEF r
<1>10. CASE g.kind = "rep"
  <2>1. g.child \in taking[k] /\ r = ParseRepetition(P, g, t, seen) /\ ~Takes(g, taking[k])
    BY <1>1, <1>10 DEF WellFormed, Takes, ParseElement
  <2> HIDE DEF r
  <2> QED
    BY <1>2, <1>3, <1>4, <2>1, RepetitionFaithful DEF r
<1>11. CASE g.kind = "alt"
  <2>1. /\ ChildrenIn(g, k) /\ r = ParseAlternation(P, g, t, depth, seen)
        /\ Takes(g, taking[k])
           => g.children # <<>> /\ \A i \in DOMAIN g.children : g.children[i] \in taking[k]
    BY <1>1, <1>11 DEF WellFormed, Takes, ParseElement, ChildrenIn
  <2> HIDE DEF r
  <2> QED
    BY <1>2, <1>4, <2>1, AlternationFaithful DEF r
<1>12. CASE g.kind = "cat"
  <2>1. /\ ChildrenIn(g, k) /\ r = ParseConcatenation(P, g, t, depth, seen, FALSE)
        /\ Takes(g, taking[k]) => \E i \in DOMAIN g.children : g.children[i] \in taking[k]
    BY <1>1, <1>12 DEF WellFormed, Takes, ParseElement, ChildrenIn
  <2> HIDE DEF r
  <2> QED
    BY <1>2, <1>4, <2>1, FALSE \in BOOLEAN, ConcatenationFaithful DEF r
<1>13. CASE g.kind = "inj"
  <2> DEFINE h == GrammarOf(g, seen)
  <2>1. /\ r = IF Injected(g, seen) THEN P[Call(h, t, depth, seen)] ELSE Fail
        /\ \A i \in DOMAIN g.by : g.by[i] \in Elements(k)
        /\ Takes(g, taking[k]) => \A i \in DOMAIN g.by : g.by[i] \in taking[k]
    BY <1>1, <1>13 DEF WellFormed, Takes, ParseElement
  <2>2. CASE Injected(g, seen)
    <3>1. h \in Elements(k) /\ (Takes(g, taking[k]) => h \in taking[k])
      BY <2>1, <2>2 DEF Injected, GrammarOf
    <3> HIDE DEF r, h
    <3> QED
      BY <1>2, <1>4, <2>1, <2>2, <3>1, ChildFaithful DEF r
  <2>3. CASE ~Injected(g, seen)
    <3>1. Fail \in Faithful(t) /\ ~Good(Fail)
      BY ConstantResults DEF Fail, Good, ParseRc
    <3> HIDE DEF r
    <3> QED
      BY <2>1, <2>3, <3>1 DEF r
  <2> QED
    BY <2>2, <2>3
<1> QED
  BY <1>1, <1>5, <1>6, <1>7, <1>8, <1>9, <1>10, <1>11, <1>12, <1>13 DEF WellFormed

\* What parses the elements of each height.
LEMMA ParseFaithful ==
  \A n \in 0 .. Height :
    /\ parse[n] \in Parsers(n)
    /\ parse[n] = [c \in Calls(n) |-> ParseElement(parse[n - 1], c.g, c.t, c.depth, c.seen)]
<1> DEFINE value(n, P) == [c \in Calls(n) |-> ParseElement(P, c.g, c.t, c.depth, c.seen)]
           body(f) == [n \in 0 .. Height |-> value(n, f[n - 1])]
           S == [n \in 0 .. Height |-> Parsers(n)]
           U == UNION {Parsers(n) : n \in 0 .. Height}
           step == [a \in (1 .. Height) \X U |-> value(a[1], a[2])]
           b == value(0, parse)
<1>1. Height \in Nat
  BY GrammarAssumption
<1>2. parse = CHOOSE f : f = body(f)
  BY DEF parse
<1>3. ASSUME NEW n \in 1 .. Height, NEW P \in Parsers(n - 1)
      PROVE  value(n, P) \in Parsers(n)
  <2> DEFINE r(c) == ParseElement(P, c.g, c.t, c.depth, c.seen)
  <2>1. ASSUME NEW c \in Calls(n)
        PROVE  /\ r(c) \in Faithful(c.t) /\ (c.g \in taking[n] /\ Good(r(c)) => r(c).ok > 0)
               /\ r(c) \in Results
    <3>1. c.g \in Elements(n) /\ c.t \in Texts /\ c.depth \in {0, 1} /\ c.seen \in Seen
      BY DEF Calls
    <3>2. r(c) \in Faithful(c.t) /\ (c.g \in taking[n] /\ Good(r(c)) => r(c).ok > 0)
      BY <3>1, ElementFaithful
    <3> HIDE DEF r
    <3> QED
      BY <3>2 DEF Faithful
  <2> HIDE DEF r
  <2>2. [c \in Calls(n) |-> r(c)] \in Parsers(n)
    BY <2>1 DEF Parsers
  <2> QED
    BY <2>2 DEF r
<1>4. \A n \in 0 .. Height : S[n] = Parsers(n)
  OBVIOUS
<1>5. \A n \in 0 .. Height : Parsers(n) \subseteq U
  OBVIOUS
<1>6. Calls(0) = {}
  BY DEF Calls, Elements
<1>7. \A P : value(0, P) = b
  BY <1>6
<1>8. b \in Parsers(0)
  BY <1>6 DEF Parsers
<1> HIDE DEF value, b, U, S
<1>9. \A n \in 1 .. Height : \A P \in S[n - 1] : step[<<n, P>>] = value(n, P) /\ P \in Parsers(n - 1)
  <2> TAKE n \in 1 .. Height
  <2> TAKE P \in S[n - 1]
  <2>1. n - 1 \in 0 .. Height
    BY <1>1
  <2>2. P \in Parsers(n - 1)
    BY <1>4, <2>1
  <2>3. P \in U
    BY <1>5, <2>1, <2>2
  <2> QED
    BY <2>2, <2>3
<1>10. Steps(Height, S, step)
  <2> SUFFICES ASSUME NEW n \in 1 .. Height, NEW P \in S[n - 1] PROVE step[<<n, P>>] \in S[n]
    BY DEF Steps
  <2>1. step[<<n, P>>] = value(n, P) /\ P \in Parsers(n - 1)
    BY <1>9
  <2>2. value(n, P) \in Parsers(n) /\ n \in 0 .. Height
    BY <1>1, <1>3, <2>1
  <2> QED
    BY <1>4, <2>1, <2>2
<1>11. b \in S[0]
  BY <1>1, <1>4, <1>8
<1> HIDE DEF step
<1>12. DefinesIn(Height, S, b, step)
  BY ONLY <1>1, <1>10, <1>11, DependentRecursion
<1>13. PICK f : /\ DOMAIN f = 0 .. Height /\ f = [i \in 0 .. Height |-> f[i]] /\ f[0] = b
                /\ \A i \in 1 .. Height : f[i] = step[<<i, f[i - 1]>>]
                /\ \A i \in 0 .. Height : f[i] \in S[i]
  BY <1>12 DEF DefinesIn
<1>14. \A n \in 0 .. Height : f[n] = value(n, f[n - 1])
  <2> TAKE n \in 0 .. Height
  <2>1. CASE n = 0
    BY <1>7, <1>13, <2>1
  <2>2. CASE n # 0
    <3>1. n \in 1 .. Height /\ n - 1 \in 0 .. Height
      BY <1>1, <2>2
    <3> QED
      BY <1>9, <1>13, <3>1
  <2> QED
    BY <2>1, <2>2
<1>15. f = body(f)
  BY <1>13, <1>14
<1>16. parse = body(parse)
  <2> HIDE DEF body
  <2> QED
    BY <1>2, <1>15
<1>17. \A n \in 0 .. Height : parse[n] = value(n, parse[n - 1])
  BY <1>16
<1> DEFINE T == {n \in 0 .. Height : parse[n] \in Parsers(n)}
<1>18. 0 \in T
  BY <1>1, <1>7, <1>8, <1>17
<1>19. ASSUME NEW n \in 0 .. Height - 1, n \in T PROVE n + 1 \in T
  <2>1. n + 1 \in 1 .. Height /\ (n + 1) - 1 = n /\ parse[n] \in Parsers(n) /\ n + 1 \in 0 .. Height
    BY <1>1, <1>19
  <2>2. parse[n + 1] = value(n + 1, parse[n])
    BY <1>17, <2>1
  <2>3. value(n + 1, parse[n]) \in Parsers(n + 1)
    BY <1>3, <2>1
  <2> QED
    BY <2>1, <2>2, <2>3
<1>20. 0 .. Height \subseteq T
  <2> HIDE DEF T
  <2> QED
    BY <1>1, <1>18, <1>19, Induction
<1> QED
  BY <1>17, <1>20 DEF value

\* Whatever the text, no repetition of a grammar is still at work after as many
\* rounds as there are characters left (Repetition::parse would go on forever).
THEOREM EveryRepetitionEnds ==
  ASSUME NEW n \in 1 .. Height, NEW g \in Elements(n), g.kind = "rep", NEW t \in Texts, NEW seen \in Seen
  PROVE  ~Repetitions(parse[n - 1], g, t, seen, Len(t) + 1).on
<1> DEFINE k == n - 1
<1>1. k \in 0 .. Height
  BY GrammarAssumption
<1>2. parse[k] \in Parsers(k)
  BY <1>1, ParseFaithful
<1>3. g.child \in taking[k]
  <2>1. WellFormed(g, k)
    BY GrammarAssumption
  <2> HIDE DEF k
  <2> QED
    BY <2>1 DEF WellFormed
<1>4. g.child \in Elements(k)
  BY <1>1, <1>3, TakingInElements
<1> HIDE DEF k
<1>5. ~Repetitions(parse[k], g, t, seen, Len(t) + 1).on
  BY <1>2, <1>3, <1>4, RepetitionEnds
<1> QED
  BY <1>5 DEF k

\* main() parses with an element of the grammar whose children are lower.
LEMMA ParseMainFaithful ==
  ASSUME NEW g, ChildrenIn(g, Height - 1), NEW t \in Texts
  PROVE  ParseMain(g, t) \in Faithful(t)
<1>1. Height - 1 \in 0 .. Height
  BY GrammarAssumption
<1>2. parse[Height - 1] \in Parsers(Height - 1)
  BY <1>1, ParseFaithful
<1>3. Nothing \in Seen
  BY EmptyText DEF Nothing, Seen
<1> QED
  BY <1>2, <1>3, TRUE \in BOOLEAN, 1 \in {0, 1}, ConcatenationFaithful DEF ParseMain

----------------------------------------------------------------------------
(* The parser accepts sentences only.  First the elements without children.*)

\* What is matched of the text behind a position ends where the language has an end.
Sound(r, t, i, J) == Good(r) => r.ok \in 0 .. Len(t) - i /\ i + r.ok \in J

LEMMA MatchGood ==
  ASSUME NEW t \in Texts, NEW n \in 0 .. Len(t)
  PROVE  Good(Match(SubSeq(t, 1, n))) /\ Match(SubSeq(t, 1, n)).ok = n
  BY MatchIs DEF Match, ParseRc, Good

LEMMA FixedStringSound ==
  ASSUME NEW E, NEW g, g.kind = "fix", g.s \in Texts, NEW t \in Texts, NEW i \in 0 .. Len(t), NEW seen, NEW main
  PROVE  Sound(ParseFixedString(g.s, From(t, i)), t, i, EndsOf(E, g, t, i, seen, main))
<1> DEFINE u == From(t, i)
           s == g.s
           r == ParseFixedString(s, u)
<1>1. Len(t) \in Nat /\ u \in Texts /\ Len(u) = Len(t) - i /\ s \in Texts /\ Len(s) \in Nat
  BY FromIs DEF Texts
<1> SUFFICES ASSUME Good(r) PROVE r.ok \in 0 .. Len(t) - i /\ i + r.ok \in EndsOf(E, g, t, i, seen, main)
  BY DEF Sound
<1>2. IsPrefix(s, u) /\ r.ok = Len(s)
  BY DEF ParseFixedString, ParseRc, Match, Unexpected, Good
<1>3. Len(s) \in 0 .. Len(t) - i /\ s = SubSeq(u, 1, Len(s))
  <2>1. Len(s) <= Len(u) /\ SubSeq(s, 1, Len(s)) = SubSeq(u, 1, Len(s))
    BY <1>2 DEF IsPrefix
  <2>2. s = SubSeq(s, 1, Len(s))
    BY <1>1 DEF Texts
  <2> QED
    BY <1>1, <2>1, <2>2
<1>4. SubSeq(u, 1, Len(s)) = SubSeq(t, i + 1, i + Len(s)) /\ i + Len(s) \in i .. Len(t)
  BY <1>1, <1>3, Further
<1>5. EndsOf(E, g, t, i, seen, main) = {j \in i .. Len(t) : SubSeq(t, i + 1, j) = s}
  BY DEF EndsOf
<1> HIDE DEF r, s
<1> QED
  BY <1>2, <1>3, <1>4, <1>5

LEMMA SpanInside ==
  ASSUME NEW class, NEW t \in Texts, NEW i \in 0 .. Len(t)
  PROVE  LET n == Span(class, From(t, i)) IN n \in 0 .. Len(t) - i /\ i + n \in i .. Len(t) /\ Inside(class, t, i, i + n)
<1> DEFINE u == From(t, i)
           n == Span(class, u)
<1>1. Len(t) \in Nat /\ u \in Texts /\ Len(u) = Len(t) - i
  BY FromIs DEF Texts
<1>2. n \in 0 .. Len(u) /\ \A k \in 1 .. n : u[k] \in class
  BY <1>1, SpanIs
<1>3. n \in 0 .. Len(t) - i
  BY <1>1, <1>2
<1> HIDE DEF n
<1>4. i + n \in i .. Len(t) /\ \A m \in i + 1 .. i + n : m - i \in 1 .. n /\ u[m - i] = t[m]
  BY <1>1, <1>3, Further
<1> QED
  BY <1>2, <1>3, <1>4 DEF Inside, n

LEMMA RegExSound ==
  ASSUME NEW E, NEW g, g.kind = "rex", g.least \in Nat, NEW t \in Texts, NEW i \in 0 .. Len(t), NEW seen, NEW main
  PROVE  Sound(ParseRegEx(g.class, g.least, From(t, i)), t, i, EndsOf(E, g, t, i, seen, main))
<1> DEFINE u == From(t, i)
           n == Span(g.class, u)
           r == ParseRegEx(g.class, g.least, u)
<1>1. Len(t) \in Nat /\ u \in Texts /\ Len(u) = Len(t) - i
  BY FromIs DEF Texts
<1> SUFFICES ASSUME Good(r) PROVE r.ok \in 0 .. Len(t) - i /\ i + r.ok \in EndsOf(E, g, t, i, seen, main)
  BY DEF Sound
<1>2. n \in 0 .. Len(t) - i /\ i + n \in i .. Len(t) /\ Inside(g.class, t, i, i + n)
  BY SpanInside
<1>3. n >= g.least /\ r = Match(SubSeq(u, 1, n))
  BY DEF ParseRegEx, ParseRc, Good
<1> HIDE DEF n, r
<1>4. r.ok = n
  BY <1>1, <1>2, <1>3, MatchGood
<1>5. EndsOf(E, g, t, i, seen, main) = {j \in i .. Len(t) : j - i >= g.least /\ Inside(g.class, t, i, j)}
  BY DEF EndsOf
<1> QED
  BY <1>2, <1>3, <1>4, <1>5

LEMMA WhiteSpaceSound ==
  ASSUME NEW E, NEW g, g.kind = "ws", NEW t \in Texts, NEW i \in 0 .. Len(t), NEW seen, NEW main
  PROVE  Sound(ParseWhiteSpace(From(t, i)), t, i, EndsOf(E, g, t, i, seen, main))
<1> DEFINE u == From(t, i)
           n == Span({Blank}, u)
           r == ParseWhiteSpace(u)
<1>1. Len(t) \in Nat /\ u \in Texts /\ Len(u) = Len(t) - i
  BY FromIs DEF Texts
<1> SUFFICES ASSUME Good(r) PROVE r.ok \in 0 .. Len(t) - i /\ i + r.ok \in EndsOf(E, g, t, i, seen, main)
  BY DEF Sound
<1>2. n \in 0 .. Len(t) - i /\ i + n \in i .. Len(t) /\ Inside({Blank}, t, i, i + n)
  BY SpanInside
<1>3. n > 0 /\ r = Match(SubSeq(u, 1, n))
  <2>1. r = CASE n > 0 -> Match(SubSeq(u, 1, n))
              [] n = 0 /\ u = <<>> -> ParseRc("missingText", 0, 0, <<Candidate(<<Blank>>, FALSE)>>, <<>>)
              [] OTHER -> Unexpected
    BY DEF ParseWhiteSpace
  <2> HIDE DEF r, n
  <2>2. CASE n > 0
    BY <2>1, <2>2
  <2>3. CASE ~(n > 0)
    BY <2>1, <2>3 DEF ParseRc, Unexpected, Good
  <2> QED
    BY <2>2, <2>3
<1> HIDE DEF n, r
<1>4. r.ok = n
  BY <1>1, <1>2, <1>3, MatchGood
<1>5. EndsOf(E, g, t, i, seen, main) = {j \in i .. Len(t) : j > i /\ Inside({Blank}, t, i, j)}
  BY DEF EndsOf
<1> QED
  BY <1>2, <1>3, <1>4, <1>5

\* Which characters of a string are escaping.
LEMMA EscapesIs ==
  ASSUME NEW stops, NEW escape, NEW t \in Texts
  PROVE  LET e == Escapes(stops, escape, t)
         IN  \A i \in 0 .. Len(t) :
               e[i] <=> i > 0 /\ i < Len(t) /\ t[i] = escape /\ t[i + 1] \in stops /\ ~e[i - 1]
<1> DEFINE N == Len(t)
           may(i) == i > 0 /\ i < N /\ t[i] = escape /\ t[i + 1] \in stops
           step == [a \in (1 .. N) \X BOOLEAN |-> may(a[1]) /\ ~a[2]]
           value(f, i) == i > 0 /\ i < N /\ t[i] = escape /\ t[i + 1] \in stops /\ ~f[i - 1]
           body(f) == [i \in 0 .. N |-> value(f, i)]
           e == CHOOSE f : f = body(f)
<1>1. N \in Nat
  BY DEF Texts
<1>2. Escapes(stops, escape, t) = e
  BY DEF Escapes
<1>3. step \in [(1 .. N) \X BOOLEAN -> BOOLEAN] /\ FALSE \in BOOLEAN
  OBVIOUS
<1>4. \A i \in 1 .. N, x \in BOOLEAN : step[<<i, x>>] = (may(i) /\ ~x)
  OBVIOUS
<1> HIDE DEF step
<1>5. Defines(N, BOOLEAN, FALSE, step)
  BY ONLY <1>1, <1>3, Recursion
<1>6. PICK f \in [0 .. N -> BOOLEAN] : f[0] = FALSE /\ \A i \in 1 .. N : f[i] = step[<<i, f[i - 1]>>]
  BY <1>5 DEF Defines
<1>7. \A i \in 0 .. N : f[i] = value(f, i)
  <2> TAKE i \in 0 .. N
  <2>1. CASE i = 0
    BY <1>6, <2>1
  <2>2. CASE i # 0
    <3>1. i \in 1 .. N /\ i - 1 \in 0 .. N
      BY <1>1, <2>2
    <3>2. f[i - 1] \in BOOLEAN /\ f[i] = step[<<i, f[i - 1]>>]
      BY <1>6, <3>1
    <3>3. f[i] = (may(i) /\ ~f[i - 1])
      BY <1>4, <3>1, <3>2
    <3> QED
      BY <3>3
  <2> QED
    BY <2>1, <2>2
<1> HIDE DEF value
<1>8. f = body(f)
  BY <1>6, <1>7
<1>9. e = body(e)
  <2> HIDE DEF body
  <2> QED
    BY <1>8
<1> HIDE DEF e
<1>10. \A i \in 0 .. N : e[i] = value(e, i)
  BY <1>9
<1> QED
  BY <1>2, <1>10 DEF value

LEMMA EscapedStringSound ==
  ASSUME NEW E, NEW g, g.kind = "esc", NEW t \in Texts, NEW i \in 0 .. Len(t), NEW seen, NEW main
  PROVE  Sound(ParseEscapedString(g.stops, g.escape, From(t, i)), t, i, EndsOf(E, g, t, i, seen, main))
<1> DEFINE u == From(t, i)
           e == Escapes(g.stops, g.escape, u)
           n == EscapedLength(g.stops, g.escape, u)
           Ends(m) == m < Len(u) => u[m + 1] \in g.stops /\ ~e[m] /\ ~e[m + 1]
           r == ParseEscapedString(g.stops, g.escape, u)
           S == {m \in i + 2 .. i + n : e[m - 1 - i]}
<1>1. Len(t) \in Nat /\ i \in Nat /\ u \in Texts /\ Len(u) = Len(t) - i
  BY FromIs DEF Texts
<1> HIDE DEF u
<1>2. \A k \in 0 .. Len(u) :
        e[k] <=> k > 0 /\ k < Len(u) /\ u[k] = g.escape /\ u[k + 1] \in g.stops /\ ~e[k - 1]
  BY <1>1, EscapesIs
<1>3. n \in 0 .. Len(u) /\ Ends(n) /\ \A m \in 0 .. n - 1 : ~Ends(m)
  BY <1>1, EscapedLengthIs
<1>4. r.ok = n
  BY <1>1, <1>3, MatchIs DEF ParseEscapedString
<1> HIDE DEF e, n, r
<1>5. n \in 0 .. Len(t) - i /\ n \in Nat /\ i + n \in i .. Len(t)
  BY <1>1, <1>3
<1>6. \A m \in i + 1 .. i + n : m - i \in 1 .. n /\ u[m - i] = t[m]
  BY <1>5, Further DEF u
<1>7. S \in SUBSET {m \in i + 2 .. i + n : t[m] \in g.stops /\ t[m - 1] = g.escape}
  <2> SUFFICES ASSUME NEW m \in i + 2 .. i + n, e[m - 1 - i] PROVE t[m] \in g.stops /\ t[m - 1] = g.escape
    OBVIOUS
  <2> DEFINE k == m - 1 - i
  <2>1. k \in 0 .. Len(u) /\ m - i = k + 1 /\ (m - 1) - i = k /\ m \in i + 1 .. i + n /\ m - 1 \in i + 1 .. i + n
    BY <1>1, <1>3, <1>5
  <2>2. u[k] = g.escape /\ u[k + 1] \in g.stops
    BY <1>2, <2>1
  <2> HIDE DEF k
  <2> QED
    BY <1>6, <2>1, <2>2
<1>8. ASSUME NEW m \in i + 1 .. i + n, m \in S PROVE m - 1 \notin S
  <2> SUFFICES ASSUME m - 1 \in S PROVE FALSE
    OBVIOUS
  <2>1. e[m - 1 - i] /\ e[(m - 1) - 1 - i]
    BY <1>8
  <2>2. m - 1 - i \in 0 .. Len(u) /\ (m - 1) - 1 - i = (m - 1 - i) - 1
    BY <1>1, <1>3, <1>5
  <2> QED
    BY <1>2, <2>1, <2>2
<1>9. ASSUME NEW m \in i + 1 .. i + n, m \notin S, t[m] \in g.stops PROVE m + 1 \in S
  <2> DEFINE k == m - i
  <2>1. k \in 1 .. n /\ u[k] \in g.stops
    BY <1>6, <1>9
  <2>2. k - 1 \in 0 .. n - 1 /\ (k - 1) + 1 = k /\ k \in 0 .. Len(u) /\ k - 1 \in 0 .. Len(u)
    BY <1>3, <1>5, <2>1
  <2>3. ~e[k - 1]
    <3>1. CASE k = 1
      <4>1. k - 1 = 0 /\ ~(k - 1 > 0)
        BY <3>1
      <4> HIDE DEF k
      <4> QED
        BY <1>2, <2>2, <4>1
    <3>2. CASE k # 1
      <4>1. m \in i + 2 .. i + n /\ m - 1 - i = k - 1
        BY <1>1, <1>5, <2>1, <3>2
      <4> QED
        BY <1>9, <4>1
    <3> QED
      BY <3>1, <3>2
  <2> HIDE DEF k
  <2>4. ~Ends(k - 1)
    BY <1>3, <2>2
  <2>5. e[k]
    BY <2>1, <2>2, <2>3, <2>4
  <2>6. k < Len(u)
    BY <1>2, <2>2, <2>5
  <2>7. k # n
    BY <1>3, <2>5, <2>6
  <2>8. k + 1 \in 1 .. n /\ m + 1 \in i + 2 .. i + n /\ (m + 1) - 1 - i = k
    BY <1>1, <1>5, <2>1, <2>7 DEF k
  <2> QED
    BY <2>5, <2>8
<1>10. Escaped(g, t, i, i + n)
  <2>1. \A m \in i + 1 .. i + n : IF m \in S THEN m - 1 \notin S ELSE t[m] \in g.stops => m + 1 \in S
    BY <1>8, <1>9
  <2> HIDE DEF S
  <2> QED
    BY <1>7, <2>1 DEF Escaped
<1>11. EndsOf(E, g, t, i, seen, main) = {j \in i .. Len(t) : Escaped(g, t, i, j)}
  BY DEF EndsOf
<1> QED
  BY <1>4, <1>5, <1>10, <1>11 DEF Sound, r, u

----------------------------------------------------------------------------
(* The same for the elements with children.                                *)

\* What parses the elements up to some height finds ends of the language only.
Agree(n, P, E) ==
  \A g \in Elements(n), t \in Texts, depth \in {0, 1}, seen \in Seen :
    \A i \in 0 .. Len(t) : Sound(P[Call(g, From(t, i), depth, seen)], t, i, E[Spot(g, t, i, seen)])

LEMMA StartSound ==
  ASSUME NEW t \in Texts, NEW i \in 0 .. Len(t), NEW J, i \in J
  PROVE  Sound(Start, t, i, J)
<1>1. Start.ok = 0
  BY DEF Start, ParseRc
<1>2. i + 0 = i /\ 0 \in 0 .. Len(t) - i
  BY DEF Texts
<1> QED
  BY <1>1, <1>2 DEF Sound

LEMMA OptionalSound ==
  ASSUME NEW n, NEW P, NEW E, Agree(n, P, E), NEW g, g.kind = "opt", g.child \in Elements(n),
         NEW t \in Texts, NEW i \in 0 .. Len(t), NEW seen \in Seen, NEW main
  PROVE  Sound(ParseOptional(P, g, From(t, i), seen), t, i, EndsOf(E, g, t, i, seen, main))
<1> DEFINE r == P[Call(g.child, From(t, i), 1, seen)]
           o == ParseOptional(P, g, From(t, i), seen)
           J == E[Spot(g.child, t, i, seen)]
           cands == OptionalCandidates(r)
<1>1. Sound(r, t, i, J)
  BY DEF Agree
<1>2. EndsOf(E, g, t, i, seen, main) = {i} \cup J
  BY DEF EndsOf
<1>3. o = CASE Good(r) -> ParseRc("success", r.ok, r.len, cands, r.raw)
            [] Missing(r) /\ r.len >= 1 -> ParseRc("missingText", 0, r.len, cands, <<>>)
            [] Failed(r) -> ParseRc(r.type, 0, 0, cands, <<>>)
            [] OTHER -> ParseRc("success", 0, 0, cands, <<>>)
  BY DEF ParseOptional
<1> HIDE DEF o, r, cands, J
<1>4. CASE Good(r)
  <2>1. o = ParseRc("success", r.ok, r.len, cands, r.raw)
    BY <1>3, <1>4 DEF Good, Missing, Failed
  <2>2. o.ok = r.ok
    BY <2>1 DEF ParseRc
  <2> QED
    BY <1>1, <1>2, <1>4, <2>2 DEF Sound, o
<1>5. CASE ~Good(r)
  <2>1. Good(o) => o.ok = 0
    BY <1>3, <1>5 DEF ParseRc, Good, Failed
  <2>2. i + 0 = i /\ 0 \in 0 .. Len(t) - i
    BY DEF Texts
  <2> QED
    BY <1>2, <2>1, <2>2 DEF Sound, o
<1> QED
  BY <1>4, <1>5

LEMMA AlternationSound ==
  ASSUME NEW n, NEW P \in Parsers(n), NEW E, Agree(n, P, E), NEW g, g.kind = "alt", ChildrenIn(g, n),
         NEW t \in Texts, NEW i \in 0 .. Len(t), NEW depth \in {0, 1}, NEW seen \in Seen, NEW main
  PROVE  Sound(ParseAlternation(P, g, From(t, i), depth, seen), t, i, EndsOf(E, g, t, i, seen, main))
<1> DEFINE u         == From(t, i)
           N         == Len(g.children)
           I         == DOMAIN g.children
           r         == [m \in I |-> P[Call(g.children[m], u, 0, seen)]]
           failed    == \E m \in I : Failed(r[m])
           forked(m) == P[Call(g.children[m], u, depth, seen)].cands
           unique    == Cardinality(Maybes(r)) = 1
           only      == CHOOSE m \in Maybes(r) : TRUE
           cands     == IF unique THEN forked(only) ELSE FlattenSeq([m \in I |-> r[m].cands])
           raw       == IF unique THEN r[only].raw ELSE <<>>
           W         == Winner(r)
           type      == IF failed THEN "retrievingGrammarFailed" ELSE "success"
           others    == forked(W) \o OtherCandidates(r)
           won       == ParseRc(type, r[W].ok, r[W].len, others, r[W].raw)
           a         == ParseAlternation(P, g, u, depth, seen)
<1>1. a = CASE Goods(r) # {} -> won
            [] Goods(r) = {} /\ failed -> ParseRc("retrievingGrammarFailed", 0, 0, cands, raw)
            [] Goods(r) = {} /\ ~failed /\ I = {} -> Start
            [] Goods(r) = {} /\ ~failed /\ I # {} /\ cands = <<>> -> ParseRc("unexpectedText", 0, 0, <<>>, raw)
            [] OTHER -> ParseRc("missingText", 0, Len(u), cands, raw)
  BY DEF ParseAlternation
<1>2. u \in Texts
  BY FromIs
<1>3. N \in Nat /\ I = 1 .. N /\ \A m \in I : g.children[m] \in Elements(n)
  BY DEF ChildrenIn
<1>4. EndsOf(E, g, t, i, seen, main) =
        IF g.children = <<>> THEN {i} ELSE UNION {E[Spot(g.children[m], t, i, seen)] : m \in I}
  BY DEF EndsOf
<1>5. ASSUME NEW m \in I
      PROVE  r[m] \in Faithful(u) /\ Sound(r[m], t, i, E[Spot(g.children[m], t, i, seen)])
  <2>1. g.children[m] \in Elements(n) /\ 0 \in {0, 1}
    BY <1>3
  <2>2. P[Call(g.children[m], u, 0, seen)] \in Faithful(u)
    BY <1>2, <2>1, ChildFaithful
  <2>3. Sound(P[Call(g.children[m], u, 0, seen)], t, i, E[Spot(g.children[m], t, i, seen)])
    BY <2>1 DEF Agree
  <2> QED
    BY <2>2, <2>3
<1>6. r \in [1 .. N -> Faithful(u)]
  BY <1>3, <1>5
<1>7. I = {} <=> g.children = <<>>
  BY <1>3 DEF ChildrenIn
<1> HIDE DEF r, N, I, u, failed, cands, raw, others, a
<1>8. CASE Goods(r) # {}
  <2>1. W \in Goods(r) /\ W \in I
    <3>1. W \in Goods(r)
      BY <1>2, <1>3, <1>6, <1>8, WinnerIs
    <3> QED
      BY <1>3, <1>6, <3>1 DEF Goods
  <2> HIDE DEF W
  <2>2. Good(r[W]) /\ Sound(r[W], t, i, E[Spot(g.children[W], t, i, seen)])
    BY <1>5, <2>1 DEF Goods
  <2>3. a = won
    BY <1>1, <1>8
  <2>4. a.ok = r[W].ok
    BY <2>3 DEF ParseRc
  <2>5. g.children # <<>>
    BY <1>7, <2>1
  <2> HIDE DEF won
  <2> QED
    BY <1>4, <2>1, <2>2, <2>4, <2>5 DEF Sound, a, u
<1>9. CASE Goods(r) = {}
  <2>1. Good(a) => I = {} /\ a = Start
    BY <1>1, <1>9 DEF Good, ParseRc
  <2>2. CASE Good(a)
    <3>1. Sound(a, t, i, EndsOf(E, g, t, i, seen, main))
      BY <1>4, <1>7, <2>1, <2>2, StartSound
    <3> QED
      BY <3>1 DEF a, u
  <2>3. CASE ~Good(a)
    BY <2>3 DEF Sound, a, u
  <2> QED
    BY <2>2, <2>3
<1> QED
  BY <1>8, <1>9

\* Where at most so many repetitions end.
ManyRun(E, g, t, i, seen, all) ==
  /\ i \in all[0]
  /\ \A a, b \in 0 .. Len(t) : a <= b => all[a] \subseteq all[b]
  /\ \A k \in 0 .. Len(t) - 1 : \A j \in all[k] : E[Spot(g.child, t, j, seen)] \subseteq all[k + 1]
  /\ EndsOfMany(E, g, t, i, seen) = all[Len(t) - i]

LEMMA EndsOfManyIs ==
  ASSUME NEW E, NEW g, NEW t \in Texts, NEW i \in 0 .. Len(t), NEW seen
  PROVE  \E all : ManyRun(E, g, t, i, seen, all)
<1> DEFINE N == Len(t)
           next(I) == LET J == (UNION {E[Spot(g.child, t, j, seen)] : j \in I.new}) \ I.all
                      IN  [all |-> I.all \cup J, new |-> J]
           b == [all |-> {i}, new |-> {i}]
           body(h, n) == [k \in 0 .. n |-> IF k = 0 THEN b ELSE next(h[k - 1])]
           many == CHOOSE h : h = body(h, N)
<1>1. N \in Nat /\ i \in 0 .. N /\ N - i \in 0 .. N
  BY DEF Texts
<1>2. EndsOfMany(E, g, t, i, seen) = many[N - i].all
  BY DEF EndsOfMany
<1>3. \A I : /\ I.all \subseteq next(I).all /\ next(I).new \subseteq next(I).all
             /\ \A j \in I.new : E[Spot(g.child, t, j, seen)] \subseteq next(I).all
             /\ \A j \in next(I).all : j \in I.all \/ j \in next(I).new
  <2> TAKE I
  <2> DEFINE U == UNION {E[Spot(g.child, t, j, seen)] : j \in I.new}
  <2>1. next(I).all = I.all \cup (U \ I.all) /\ next(I).new = U \ I.all
    OBVIOUS
  <2>2. \A j \in I.new : E[Spot(g.child, t, j, seen)] \subseteq U
    OBVIOUS
  <2> HIDE DEF next, U
  <2> QED
    BY <2>1, <2>2
<1> HIDE DEF N, next
<1> DEFINE T == {n \in 0 .. N : \E h : h = body(h, n)}
<1>4. 0 \in T
  <2> DEFINE h == [k \in 0 .. 0 |-> b]
  <2>1. h = body(h, 0)
    <3>1. \A k \in 0 .. 0 : (IF k = 0 THEN b ELSE next(h[k - 1])) = b
      OBVIOUS
    <3> HIDE DEF b
    <3> QED
      BY <3>1
  <2> HIDE DEF h, body
  <2> QED
    BY <1>1, <2>1
<1>5. ASSUME NEW n \in 0 .. N - 1, n \in T PROVE n + 1 \in T
  <2>1. PICK h : h = body(h, n)
    BY <1>5
  <2> DEFINE f == [k \in 0 .. n + 1 |-> IF k = n + 1 THEN next(h[n]) ELSE h[k]]
  <2>2. n \in Nat /\ n + 1 \in 0 .. N
    BY <1>1
  <2>3. ASSUME NEW k \in 0 .. n + 1 PROVE f[k] = IF k = 0 THEN b ELSE next(f[k - 1])
    <3>1. CASE k = n + 1
      <4>1. k # 0 /\ k - 1 = n /\ n \in 0 .. n + 1 /\ n # n + 1
        BY <2>2, <3>1
      <4>2. f[k] = next(h[n]) /\ f[n] = h[n]
        BY <3>1, <4>1
      <4> HIDE DEF f
      <4> QED
        BY <4>1, <4>2
    <3>2. CASE k # n + 1
      <4>1. k \in 0 .. n
        BY <2>2, <3>2
      <4>2. h[k] = IF k = 0 THEN b ELSE next(h[k - 1])
        BY <2>1, <4>1
      <4>3. f[k] = h[k]
        BY <3>2
      <4>4. k # 0 => k - 1 \in 0 .. n + 1 /\ k - 1 # n + 1
        BY <2>2, <4>1
      <4>5. k # 0 => f[k - 1] = h[k - 1]
        BY <4>4
      <4> HIDE DEF f, b
      <4> QED
        BY <4>2, <4>3, <4>5
    <3> QED
      BY <3>1, <3>2
  <2>4. f = body(f, n + 1)
    <3>1. f = [k \in 0 .. n + 1 |-> f[k]]
      OBVIOUS
    <3> HIDE DEF f, b
    <3> QED
      BY <2>3, <3>1
  <2> HIDE DEF f, body
  <2> QED
    BY <2>2, <2>4
<1>6. N \in T
  <2> HIDE DEF T
  <2>1. 0 .. N \subseteq T
    BY <1>1, <1>4, <1>5, Induction
  <2>2. N \in 0 .. N
    BY <1>1
  <2> QED
    BY <2>1, <2>2
<1>7. many = body(many, N)
  <2>1. \E h : h = body(h, N)
    BY <1>6
  <2> HIDE DEF body
  <2> QED
    BY <2>1
<1> HIDE DEF many, T, b
<1>8. \A k \in 0 .. N : many[k] = IF k = 0 THEN b ELSE next(many[k - 1])
  BY <1>7
<1>9. many[0] = b
  <2>1. 0 \in 0 .. N
    BY <1>1
  <2> QED
    BY <1>8, <2>1
<1>10. ASSUME NEW k \in 0 .. N - 1 PROVE k + 1 \in 0 .. N /\ k \in 0 .. N /\ many[k + 1] = next(many[k])
  <2>1. k + 1 \in 0 .. N /\ k + 1 # 0 /\ (k + 1) - 1 = k /\ k \in 0 .. N
    BY <1>1
  <2> QED
    BY <1>8, <2>1
<1> DEFINE all == [k \in 0 .. N |-> many[k].all]
           new(k) == many[k].new
           C == {k \in 0 .. N : \A j \in all[k] : j \in new(k) \/ E[Spot(g.child, t, j, seen)] \subseteq all[k]}
<1>11. ASSUME NEW k \in 0 .. N - 1
       PROVE  /\ all[k] \subseteq all[k + 1] /\ new(k + 1) \subseteq all[k + 1]
              /\ \A j \in new(k) : E[Spot(g.child, t, j, seen)] \subseteq all[k + 1]
              /\ \A j \in all[k + 1] : j \in all[k] \/ j \in new(k + 1)
  <2>1. k + 1 \in 0 .. N /\ k \in 0 .. N /\ many[k + 1] = next(many[k])
    BY <1>10
  <2>2. all[k] = many[k].all /\ all[k + 1] = next(many[k]).all /\ new(k + 1) = next(many[k]).new
    BY <2>1
  <2> HIDE DEF all
  <2> QED
    BY <1>3, <2>2
<1>12. i \in all[0] /\ new(0) = {i} /\ all[0] = {i}
  BY <1>1, <1>9 DEF b
<1>13. EndsOfMany(E, g, t, i, seen) = all[N - i]
  BY <1>1, <1>2
<1> HIDE DEF all, new
<1>14. 0 \in C
  BY <1>1, <1>12
<1>15. ASSUME NEW k \in 0 .. N - 1, k \in C PROVE k + 1 \in C
  <2>1. k + 1 \in 0 .. N
    BY <1>1
  <2> SUFFICES ASSUME NEW j \in all[k + 1], j \notin new(k + 1)
               PROVE  E[Spot(g.child, t, j, seen)] \subseteq all[k + 1]
    BY <2>1
  <2>2. j \in all[k]
    BY <1>11
  <2> QED
    BY <1>11, <1>15, <2>2
<1>16. 0 .. N \subseteq C
  <2> HIDE DEF C
  <2> QED
    BY <1>1, <1>14, <1>15, Induction
<1>17. \A k \in 0 .. N - 1 : \A j \in all[k] : E[Spot(g.child, t, j, seen)] \subseteq all[k + 1]
  <2> TAKE k \in 0 .. N - 1
  <2>1. k \in C
    BY <1>1, <1>16
  <2> QED
    BY <1>11, <2>1
<1> DEFINE M == {c \in 0 .. N : \A a \in 0 .. c : all[a] \subseteq all[c]}
<1>18. 0 \in M
  BY <1>1
<1>19. ASSUME NEW c \in 0 .. N - 1, c \in M PROVE c + 1 \in M
  <2>1. c + 1 \in 0 .. N
    BY <1>1
  <2>2. ASSUME NEW a \in 0 .. c + 1 PROVE all[a] \subseteq all[c + 1]
    <3>1. CASE a = c + 1
      BY <3>1
    <3>2. CASE a # c + 1
      <4>1. a \in 0 .. c
        BY <3>2
      <4> QED
        BY <1>11, <1>19, <4>1
    <3> QED
      BY <3>1, <3>2
  <2> QED
    BY <2>1, <2>2
<1>20. 0 .. N \subseteq M
  <2> HIDE DEF M
  <2> QED
    BY <1>1, <1>18, <1>19, Induction
<1>21. \A a, c \in 0 .. N : a <= c => all[a] \subseteq all[c]
  <2> SUFFICES ASSUME NEW a \in 0 .. N, NEW c \in 0 .. N, a <= c PROVE all[a] \subseteq all[c]
    OBVIOUS
  <2>1. a \in 0 .. c /\ c \in M
    BY <1>20
  <2> QED
    BY <2>1
<1> QED
  BY <1>12, <1>13, <1>17, <1>21 DEF ManyRun, N

\* The states of a repetition are at ends of as many repetitions or fewer.
LEMMA RepetitionsAtEnds ==
  ASSUME NEW n, NEW P \in Parsers(n), NEW E, Agree(n, P, E), NEW g,
         g.child \in Elements(n), g.child \in taking[n],
         NEW t \in Texts, NEW i \in 0 .. Len(t), NEW seen \in Seen,
         NEW state, RepeatRun(P, g, From(t, i), seen, Len(From(t, i)) + 1, state)
  PROVE  \A m \in 0 .. Len(From(t, i)) + 1 :
           LET o == state[m].rc
           IN  Good(o) => o.ok \in 0 .. Len(t) - i /\ i + o.ok \in EndsOfMany(E, g, t, i, seen)
<1> DEFINE u == From(t, i)
           K == Len(u) + 1
<1>1. Len(t) \in Nat /\ i \in Nat /\ i \in 0 .. Len(t)
  BY DEF Texts
<1>2. u \in Texts /\ Len(u) = Len(t) - i
  BY FromIs
<1> HIDE DEF u
<1>3. Len(u) \in Nat /\ K \in Nat /\ K \in 0 .. K
  BY <1>1, <1>2
<1>4. RepeatRun(P, g, u, seen, K, state)
  BY DEF u
<1>5. PICK all : ManyRun(E, g, t, i, seen, all)
  BY EndsOfManyIs
<1> DEFINE AtEnd(x) == Good(x) => x.ok \in 0 .. Len(u) /\ i + x.ok \in all[x.ok]
           T == {m \in 0 .. K : AtEnd(state[m].rc)}
<1> HIDE DEF K
<1>6. 0 \in T
  <2>1. state[0].rc = Start
    BY <1>4 DEF RepeatRun
  <2>2. Start.ok = 0 /\ i + 0 = i /\ i \in all[0] /\ 0 \in 0 .. Len(u)
    BY <1>1, <1>3, <1>5 DEF Start, ParseRc, ManyRun
  <2>3. 0 \in 0 .. K
    BY <1>3
  <2> QED
    BY <2>1, <2>2, <2>3
<1>7. ASSUME NEW m \in 0 .. K - 1, m \in T PROVE m + 1 \in T
  <2> DEFINE s == state[m]
             q == s.rc
             r == P[Call(g.child, From(u, q.ok), 1, seen)]
             type == IF q.ok = Len(u) THEN "success" ELSE r.type
             cands == Repeated(q, r.cands)
             raw == q.raw \o r.raw
             ok == q.ok + r.ok
             len == q.len + r.len
             more == ParseRc("success", ok, len, <<>>, raw)
             missing == ParseRc(type, ok, len, cands, raw)
             failed == ParseRc(type, q.ok, q.len, cands, q.raw)
             end(result) == [rc |-> result, on |-> FALSE]
  <2>1. m + 1 \in 1 .. K /\ (m + 1) - 1 = m /\ m \in 0 .. K /\ m + 1 \in 0 .. K
    BY <1>3
  <2>2. state[m + 1] = Repeat(P, g, u, seen, s) /\ s \in RepeatStates(u)
    BY <1>4, <2>1 DEF RepeatRun
  <2>3. AtEnd(q)
    BY <1>7
  <2> SUFFICES AtEnd(state[m + 1].rc)
    BY <2>1
  <2>4. state[m + 1] =
          CASE ~s.on -> s
            [] s.on /\ Good(r) -> [rc |-> more, on |-> TRUE]
            [] s.on /\ Missing(r) -> end(missing)
            [] s.on /\ Failed(r) -> end(failed)
            [] OTHER -> end(q)
    BY <2>2 DEF Repeat
  <2>5. CASE ~s.on
    <3>1. state[m + 1] = s
      BY <2>4, <2>5
    <3> QED
      BY <2>3, <3>1
  <2>6. CASE s.on
    <3>1. Good(q) /\ q \in Faithful(u)
      BY <2>2, <2>6 DEF RepeatStates
    <3> HIDE DEF s
    <3>2. q.ok \in 0 .. Len(u) /\ q.ok \in Nat /\ i + q.ok \in all[q.ok]
      BY <1>3, <2>3, <3>1
    <3>3. q.ok \in 0 .. Len(t) - i /\ i + q.ok \in 0 .. Len(t)
      BY <1>1, <1>2, <3>2
    <3>4. From(u, q.ok) = From(t, i + q.ok)
      BY <3>3, Further DEF u
    <3>5. From(u, q.ok) \in Texts /\ Len(From(u, q.ok)) = Len(u) - q.ok
      BY <1>2, <3>2, FromIs
    <3>6. /\ r \in Faithful(From(u, q.ok)) /\ (Good(r) => r.ok > 0)
          /\ Sound(r, t, i + q.ok, E[Spot(g.child, t, i + q.ok, seen)])
      <4>1. r \in Faithful(From(u, q.ok)) /\ (Good(r) => r.ok > 0)
        BY <3>5, ChildFaithful
      <4>2. Sound(P[Call(g.child, From(t, i + q.ok), 1, seen)], t, i + q.ok, E[Spot(g.child, t, i + q.ok, seen)])
        BY <3>3 DEF Agree
      <4> QED
        BY <3>4, <4>1, <4>2
    <3> HIDE DEF r, q
    <3>7. r.ok \in Nat /\ r.ok <= Len(u) - q.ok
      <4>1. r.ok \in Nat /\ r.len \in Nat /\ r.ok <= r.len /\ r.len <= Len(From(u, q.ok))
        BY ONLY <3>5, <3>6, FaithfulIs
      <4> QED
        BY <1>3, <3>2, <3>5, <4>1
    <3>8. ~(Good(r) /\ Missing(r)) /\ ~(Good(r) /\ Failed(r)) /\ ~(Missing(r) /\ Failed(r))
      BY DEF Good, Missing, Failed
    <3> HIDE DEF type, cands, raw, ok, len
    <3>9. CASE Good(r)
      <4>1. state[m + 1].rc = more
        BY <2>4, <2>6, <3>8, <3>9
      <4>2. more.ok = q.ok + r.ok
        BY DEF ParseRc, ok
      <4>3. (i + q.ok) + r.ok \in E[Spot(g.child, t, i + q.ok, seen)]
        BY <3>6, <3>9 DEF Sound
      <4>4. /\ q.ok \in 0 .. Len(t) - 1 /\ q.ok + 1 \in 0 .. Len(t) /\ q.ok + r.ok \in 0 .. Len(t)
            /\ q.ok + r.ok \in 0 .. Len(u) /\ q.ok + 1 <= q.ok + r.ok /\ (i + q.ok) + r.ok = i + (q.ok + r.ok)
        <5>1. r.ok > 0
          BY <3>6, <3>9
        <5>2. q.ok \in Nat /\ r.ok \in Nat /\ r.ok <= Len(u) - q.ok
          BY <3>2, <3>7
        <5>3. q.ok + r.ok \in 0 .. Len(u) /\ Len(u) <= Len(t) /\ Len(u) \in Nat
          BY ONLY <1>1, <1>2, <5>2
        <5>4. q.ok + 1 <= q.ok + r.ok /\ (i + q.ok) + r.ok = i + (q.ok + r.ok)
          BY ONLY <1>1, <5>1, <5>2
        <5> QED
          BY ONLY <1>1, <5>2, <5>3, <5>4
      <4>5. i + (q.ok + r.ok) \in all[q.ok + 1]
        BY <1>5, <3>2, <4>3, <4>4 DEF ManyRun
      <4>6. i + (q.ok + r.ok) \in all[q.ok + r.ok]
        BY <1>5, <4>4, <4>5 DEF ManyRun
      <4> HIDE DEF more
      <4> QED
        BY <4>1, <4>2, <4>4, <4>6
    <3>10. CASE Missing(r)
      <4>1. state[m + 1].rc = missing
        BY <2>4, <2>6, <3>8, <3>10
      <4>2. missing.ok = q.ok + r.ok /\ missing.type = type
        BY DEF ParseRc, ok
      <4>3. Good(missing) => q.ok = Len(u)
        BY <3>10, <4>2 DEF Good, Missing, type
      <4>4. q.ok = Len(u) => q.ok + r.ok = q.ok
        BY <1>3, <3>2, <3>7
      <4> HIDE DEF missing
      <4> QED
        BY <3>2, <4>1, <4>2, <4>3, <4>4
    <3>11. CASE Failed(r)
      <4>1. state[m + 1].rc = failed
        BY <2>4, <2>6, <3>8, <3>11
      <4>2. failed.ok = q.ok
        BY DEF ParseRc
      <4> HIDE DEF failed
      <4> QED
        BY <3>2, <4>1, <4>2
    <3>12. CASE ~Good(r) /\ ~Missing(r) /\ ~Failed(r)
      <4>1. state[m + 1].rc = q
        BY <2>4, <2>6, <3>12
      <4> QED
        BY <3>2, <4>1
    <3> QED
      BY <3>9, <3>10, <3>11, <3>12
  <2> QED
    BY <2>5, <2>6
<1>8. 0 .. K \subseteq T
  <2> HIDE DEF T
  <2> QED
    BY <1>3, <1>6, <1>7, Induction
<1>9. ASSUME NEW m \in 0 .. K, Good(state[m].rc)
      PROVE  state[m].rc.ok \in 0 .. Len(t) - i /\ i + state[m].rc.ok \in EndsOfMany(E, g, t, i, seen)
  <2> DEFINE o == state[m].rc
  <2>1. o.ok \in 0 .. Len(u) /\ i + o.ok \in all[o.ok]
    BY <1>8, <1>9
  <2> HIDE DEF o
  <2>2. o.ok \in 0 .. Len(t) /\ Len(t) - i \in 0 .. Len(t) /\ o.ok <= Len(t) - i
    BY <1>1, <1>2, <2>1
  <2>3. all[o.ok] \subseteq all[Len(t) - i]
    BY <1>5, <2>2 DEF ManyRun
  <2>4. EndsOfMany(E, g, t, i, seen) = all[Len(t) - i]
    BY <1>5 DEF ManyRun
  <2> QED
    BY <1>2, <2>1, <2>3, <2>4 DEF o
<1> QED
  BY <1>9 DEF K, u

LEMMA RepetitionSound ==
  ASSUME NEW n, NEW P \in Parsers(n), NEW E, Agree(n, P, E), NEW g, g.kind = "rep",
         g.child \in Elements(n), g.child \in taking[n],
         NEW t \in Texts, NEW i \in 0 .. Len(t), NEW seen \in Seen, NEW main
  PROVE  Sound(ParseRepetition(P, g, From(t, i), seen), t, i, EndsOf(E, g, t, i, seen, main))
<1> DEFINE u == From(t, i)
           K == Len(u) + 1
           J == EndsOfMany(E, g, t, i, seen)
<1>1. u \in Texts
  BY FromIs
<1>2. K \in Nat /\ K \in 0 .. K
  <2> HIDE DEF u
  <2> QED
    BY <1>1 DEF Texts
<1>3. PICK state : RepeatRun(P, g, u, seen, K, state)
  BY <1>1, <1>2, RepetitionsRun
<1> DEFINE o == state[K].rc
<1>4. ParseRepetition(P, g, u, seen) = o
  BY <1>3 DEF RepeatRun, ParseRepetition
<1>5. Good(o) => o.ok \in 0 .. Len(t) - i /\ i + o.ok \in J
  BY <1>2, <1>3, RepetitionsAtEnds
<1>6. EndsOf(E, g, t, i, seen, main) = J
  BY DEF EndsOf
<1> QED
  BY <1>4, <1>5, <1>6 DEF Sound

\* The place behind a child that ends at j.
After(child, t, p, main, j) ==
  Place(j, IF main /\ child.name \in Keys
           THEN [p.seen EXCEPT ![child.name] = SubSeq(t, p.at + 1, j)] ELSE p.seen)

\* The places behind each of the children.
PlacesRun(E, g, t, i, seen, main, n, places) ==
  /\ Place(i, seen) \in places[0]
  /\ \A k \in 1 .. n : \A p \in places[k - 1] :
       \A j \in E[Spot(g.children[k], t, p.at, p.seen)] : After(g.children[k], t, p, main, j) \in places[k]
  /\ \A k \in 0 .. n : Places(E, g, t, i, seen, main, k) = places[k]

LEMMA PlacesIs ==
  ASSUME NEW E, NEW g, NEW t, NEW i, NEW seen, NEW main, NEW N \in Nat
  PROVE  \E places : PlacesRun(E, g, t, i, seen, main, N, places)
<1> DEFINE Behind(child, p) == {After(child, t, p, main, j) : j \in E[Spot(child, t, p.at, p.seen)]}
           next(k, S) == UNION {Behind(g.children[k], p) : p \in S}
           b == {Place(i, seen)}
           body(h, n) == [k \in 0 .. n |-> IF k = 0 THEN b ELSE next(k, h[k - 1])]
           chosen(n) == CHOOSE h : h = body(h, n)
           places == [k \in 0 .. N |-> chosen(k)[k]]
<1>1. N \in 0 .. N
  OBVIOUS
<1>2. \A n : Places(E, g, t, i, seen, main, n) = chosen(n)[n]
  BY DEF Places, After
<1>3. \A k, S : \A p \in S : \A j \in E[Spot(g.children[k], t, p.at, p.seen)] :
        After(g.children[k], t, p, main, j) \in next(k, S)
  <2> TAKE k, S
  <2> TAKE p \in S
  <2> TAKE j \in E[Spot(g.children[k], t, p.at, p.seen)]
  <2>1. After(g.children[k], t, p, main, j) \in Behind(g.children[k], p)
    OBVIOUS
  <2> HIDE DEF Behind
  <2> QED
    BY <2>1
<1> HIDE DEF next
<1> DEFINE T == {n \in 0 .. N : \E h : h = body(h, n)}
<1>4. 0 \in T
  <2> DEFINE h == [k \in 0 .. 0 |-> b]
  <2>1. h = body(h, 0)
    <3>1. \A k \in 0 .. 0 : (IF k = 0 THEN b ELSE next(k, h[k - 1])) = b
      OBVIOUS
    <3> HIDE DEF b
    <3> QED
      BY <3>1
  <2> HIDE DEF h, body
  <2> QED
    BY <1>1, <2>1
<1>5. ASSUME NEW n \in 0 .. N - 1, n \in T PROVE n + 1 \in T
  <2>1. PICK h : h = body(h, n)
    BY <1>5
  <2> DEFINE f == [k \in 0 .. n + 1 |-> IF k = n + 1 THEN next(n + 1, h[n]) ELSE h[k]]
  <2>2. n \in Nat /\ n + 1 \in 0 .. N
    BY <1>1
  <2>3. ASSUME NEW k \in 0 .. n + 1 PROVE f[k] = IF k = 0 THEN b ELSE next(k, f[k - 1])
    <3>1. CASE k = n + 1
      <4>1. k # 0 /\ k - 1 = n /\ n \in 0 .. n + 1 /\ n # n + 1
        BY <2>2, <3>1
      <4>2. f[k] = next(k, h[n]) /\ f[n] = h[n]
        BY <3>1, <4>1
      <4> HIDE DEF f
      <4> QED
        BY <4>1, <4>2
    <3>2. CASE k # n + 1
      <4>1. k \in 0 .. n
        BY <2>2, <3>2
      <4>2. h[k] = IF k = 0 THEN b ELSE next(k, h[k - 1])
        BY <2>1, <4>1
      <4>3. f[k] = h[k]
        BY <3>2
      <4>4. k # 0 => k - 1 \in 0 .. n + 1 /\ k - 1 # n + 1
        BY <2>2, <4>1
      <4>5. k # 0 => f[k - 1] = h[k - 1]
        BY <4>4
      <4> HIDE DEF f, b
      <4> QED
        BY <4>2, <4>3, <4>5
    <3> QED
      BY <3>1, <3>2
  <2>4. f = body(f, n + 1)
    <3>1. f = [k \in 0 .. n + 1 |-> f[k]]
      OBVIOUS
    <3> HIDE DEF f, b
    <3> QED
      BY <2>3, <3>1
  <2> HIDE DEF f, body
  <2> QED
    BY <2>2, <2>4
<1>6. \A n \in 0 .. N : chosen(n) = body(chosen(n), n)
  <2> SUFFICES ASSUME NEW n \in 0 .. N PROVE chosen(n) = body(chosen(n), n)
    OBVIOUS
  <2>1. n \in T
    <3> HIDE DEF T
    <3> QED
      BY <1>1, <1>4, <1>5, Induction
  <2>2. \E h : h = body(h, n)
    BY <2>1
  <2> HIDE DEF body
  <2> QED
    BY <2>2
<1> HIDE DEF chosen, T, b
<1>7. \A n \in 0 .. N : \A k \in 0 .. n :
        chosen(n)[k] = IF k = 0 THEN b ELSE next(k, chosen(n)[k - 1])
  BY <1>6
<1> HIDE DEF body
<1> DEFINE S == {k \in 0 .. N : \A n \in k .. N : chosen(n)[k] = chosen(k)[k]}
<1>8. 0 \in S
  <2>1. \A n \in 0 .. N : 0 \in 0 .. n
    OBVIOUS
  <2> QED
    BY <1>7, <2>1
<1>9. ASSUME NEW k \in 0 .. N - 1, k \in S PROVE k + 1 \in S
  <2> DEFINE m == k + 1
  <2>1. m \in 0 .. N /\ m \in k .. N /\ m # 0 /\ m - 1 = k /\ m \in 0 .. m
    OBVIOUS
  <2>2. ASSUME NEW n \in m .. N PROVE chosen(n)[m] = chosen(m)[m]
    <3>1. n \in 0 .. N /\ n \in k .. N /\ m \in 0 .. n
      OBVIOUS
    <3> HIDE DEF m
    <3>2. chosen(n)[k] = chosen(k)[k] /\ chosen(m)[k] = chosen(k)[k]
      BY <1>9, <2>1, <3>1
    <3>3. chosen(n)[m] = next(m, chosen(n)[k]) /\ chosen(m)[m] = next(m, chosen(m)[k])
      BY <1>7, <2>1, <3>1
    <3> QED
      BY <3>2, <3>3
  <2> HIDE DEF m
  <2>3. m \in S
    BY <2>1, <2>2
  <2> QED
    BY <2>3 DEF m
<1>10. 0 .. N \subseteq S
  <2> HIDE DEF S
  <2> QED
    BY <1>8, <1>9, Induction
<1>11. Place(i, seen) \in places[0]
  <2>1. 0 \in 0 .. N /\ 0 \in 0 .. 0
    OBVIOUS
  <2>2. chosen(0)[0] = b
    BY <1>7, <2>1
  <2> QED
    BY <2>1, <2>2 DEF b
<1>12. ASSUME NEW k \in 1 .. N PROVE places[k] = next(k, places[k - 1])
  <2>1. k \in 0 .. N /\ k # 0 /\ k \in 0 .. k /\ k - 1 \in 0 .. N /\ k \in k - 1 .. N
    OBVIOUS
  <2>2. chosen(k)[k] = next(k, chosen(k)[k - 1])
    BY <1>7, <2>1
  <2>3. chosen(k)[k - 1] = chosen(k - 1)[k - 1]
    BY <1>10, <2>1
  <2> QED
    BY <2>1, <2>2, <2>3
<1>13. \A k \in 0 .. N : Places(E, g, t, i, seen, main, k) = places[k]
  BY <1>2
<1> HIDE DEF places
<1>14. ASSUME NEW k \in 1 .. N, NEW p \in places[k - 1], NEW j \in E[Spot(g.children[k], t, p.at, p.seen)]
       PROVE  After(g.children[k], t, p, main, j) \in places[k]
  <2> DEFINE before == places[k - 1]
  <2>1. places[k] = next(k, before)
    BY <1>12
  <2>2. p \in before
    OBVIOUS
  <2> HIDE DEF before
  <2>3. After(g.children[k], t, p, main, j) \in next(k, before)
    BY <1>3, <2>2
  <2> QED
    BY <2>1, <2>3
<1> QED
  BY <1>11, <1>13, <1>14 DEF PlacesRun

\* If a child matches and so do those behind it, the match ends where they end.
LEMMA ChildOfConcatenationSound ==
  ASSUME NEW n, NEW P \in Parsers(n), NEW E, Agree(n, P, E), NEW child \in Elements(n),
         NEW takes, NEW rest \in RestParsers(takes), NEW t \in Texts, NEW i \in 0 .. Len(t),
         NEW depth \in {0, 1}, NEW seen \in Seen, NEW main \in BOOLEAN, NEW first \in BOOLEAN, NEW J,
         \A j \in E[Spot(child, t, i, seen)] : j \in 0 .. Len(t) =>
           LET p == After(child, t, Place(i, seen), main, j)
           IN  p.seen \in Seen => Sound(rest[Rest(From(t, j), depth, p.seen, main)], t, j, J)
  PROVE  Sound(ParseChild(P, child, rest, From(t, i), depth, seen, main, first), t, i, J)
<1> DEFINE u     == From(t, i)
           r     == P[Call(child, u, 1, seen)]
           known == IF main /\ child.name \in Keys THEN [seen EXCEPT ![child.name] = r.raw] ELSE seen
           s     == rest[Rest(From(u, r.len), depth, known, main)]
           cands == Forks(r, rest, depth, seen, first)
           all   == cands \o Prefixed(r.raw, s.cands)
           raw   == r.raw \o s.raw
           len   == r.len + s.len
           q     == ParseChild(P, child, rest, u, depth, seen, main, first)
<1>1. q = CASE Good(r)    -> ParseRc(s.type, r.ok + s.ok, len, all, raw)
            [] Missing(r) -> ParseRc(r.type, r.ok, r.len, cands, r.raw)
            [] OTHER      -> ParseRc(r.type, r.ok, r.len, cands, <<>>)
  BY DEF ParseChild
<1>2. u \in Texts /\ Len(u) = Len(t) - i /\ Len(t) \in Nat /\ i \in Nat
  BY FromIs DEF Texts
<1>3. r \in Faithful(u) /\ Sound(r, t, i, E[Spot(child, t, i, seen)])
  <2>1. r \in Faithful(u)
    BY <1>2, ChildFaithful
  <2>2. Sound(r, t, i, E[Spot(child, t, i, seen)])
    BY DEF Agree
  <2> QED
    BY <2>1, <2>2
<1> HIDE DEF q, r, s, cands, all, raw, len
<1>4. CASE Good(r)
  <2> DEFINE j == i + r.ok
  <2>1. r.ok \in 0 .. Len(t) - i /\ j \in E[Spot(child, t, i, seen)]
    BY <1>3, <1>4 DEF Sound
  <2>2. j \in 0 .. Len(t) /\ From(u, r.ok) = From(t, j) /\ SubSeq(u, 1, r.ok) = SubSeq(t, i + 1, j)
    BY <2>1, Further DEF u
  <2>3. r.ok = r.len /\ r.raw = SubSeq(u, 1, r.ok) /\ r.raw \in Texts
    <3> HIDE DEF u
    <3> QED
      BY <1>2, <1>3, <1>4, FaithfulIs
  <2>4. After(child, t, Place(i, seen), main, j).seen = known
    BY <2>2, <2>3 DEF After, Place
  <2>5. known \in Seen
    BY <2>3 DEF Seen
  <2> DEFINE v == rest[Rest(From(t, j), depth, known, main)]
  <2>6. s = v
    BY <2>2, <2>3 DEF s
  <2>7. Sound(v, t, j, J)
    <3> DEFINE p == After(child, t, Place(i, seen), main, j)
    <3> HIDE DEF j
    <3>1. p.seen \in Seen => Sound(rest[Rest(From(t, j), depth, p.seen, main)], t, j, J)
      BY <2>1, <2>2
    <3>2. p.seen = known
      BY <2>4
    <3> DEFINE w == rest[Rest(From(t, j), depth, p.seen, main)]
    <3> HIDE DEF known, p
    <3>3. w = v
      BY <3>2
    <3>4. Sound(w, t, j, J)
      BY <2>5, <3>1, <3>2
    <3> HIDE DEF v, w
    <3> QED
      BY <3>3, <3>4
  <2> HIDE DEF v
  <2>8. Good(s) => s.ok \in 0 .. Len(t) - j /\ j + s.ok \in J
    BY <2>6, <2>7 DEF Sound
  <2>9. q = ParseRc(s.type, r.ok + s.ok, len, all, raw)
    <3>1. ~Missing(r)
      BY <1>4 DEF Good, Missing
    <3> QED
      BY <1>1, <1>4, <3>1
  <2>10. q.type = s.type /\ q.ok = r.ok + s.ok
    BY <2>9 DEF ParseRc
  <2> SUFFICES ASSUME Good(q) PROVE q.ok \in 0 .. Len(t) - i /\ i + q.ok \in J
    BY DEF Sound, q, u
  <2>11. s.ok \in 0 .. Len(t) - j /\ j + s.ok \in J
    BY <2>8, <2>10 DEF Good
  <2>12. r.ok + s.ok \in 0 .. Len(t) - i /\ i + (r.ok + s.ok) = (i + r.ok) + s.ok
    BY <1>2, <2>1, <2>11
  <2> QED
    BY <2>10, <2>11, <2>12
<1>5. CASE ~Good(r)
  <2>1. q.type = r.type
    <3>1. q = ParseRc(r.type, r.ok, r.len, cands, r.raw) \/ q = ParseRc(r.type, r.ok, r.len, cands, <<>>)
      BY <1>1, <1>5
    <3> QED
      BY <3>1 DEF ParseRc
  <2>2. ~Good(q)
    BY <1>5, <2>1 DEF Good
  <2> QED
    BY <2>2 DEF Sound, q, u
<1> QED
  BY <1>4, <1>5

\* The last children end where the places of the concatenation do.
LEMMA ConcatenationSound ==
  ASSUME NEW n, NEW P \in Parsers(n), NEW E, Agree(n, P, E), NEW g, g.kind = "cat", ChildrenIn(g, n),
         NEW t \in Texts, NEW i \in 0 .. Len(t), NEW depth \in {0, 1}, NEW seen \in Seen, NEW main \in BOOLEAN
  PROVE  Sound(ParseConcatenation(P, g, From(t, i), depth, seen, main), t, i, EndsOf(E, g, t, i, seen, main))
<1> DEFINE N == Len(g.children)
           J == EndsOf(E, g, t, i, seen, main)
           child(k) == g.children[N - k + 1]
           R(last, k, j, known) == last[k][Rest(From(t, j), depth, known, main)]
<1>1. N \in Nat /\ N \in 0 .. N /\ \A k \in 1 .. N : g.children[k] \in Elements(n)
  BY DEF ChildrenIn
<1>2. PICK last : ChildrenRun(P, g, n, N, last)
  BY <1>1, LastChildrenRun
<1>3. PICK places : PlacesRun(E, g, t, i, seen, main, N, places)
  BY <1>1, PlacesIs
<1>4. J = {p.at : p \in places[N]}
  BY <1>1, <1>3 DEF EndsOf, PlacesRun
<1> DEFINE T == {k \in 0 .. N : \A j \in 0 .. Len(t), known \in Seen :
                   Place(j, known) \in places[N - k] => Sound(R(last, k, j, known), t, j, J)}
<1> HIDE DEF J, N
<1>5. 0 \in T
  <2> SUFFICES ASSUME NEW j \in 0 .. Len(t), NEW known \in Seen, Place(j, known) \in places[N]
               PROVE  Sound(R(last, 0, j, known), t, j, J)
    BY <1>1
  <2>1. j \in J
    BY <1>4 DEF Place
  <2>2. From(t, j) \in Texts
    BY FromIs
  <2>3. Rest(From(t, j), depth, known, main) \in Rests
    BY <2>2 DEF Rest, Rests
  <2>4. R(last, 0, j, known) = Start
    BY <1>2, <2>3 DEF ChildrenRun
  <2> HIDE DEF R
  <2> QED
    BY <2>1, <2>4, StartSound
<1>6. ASSUME NEW k \in 0 .. N - 1, k \in T PROVE k + 1 \in T
  <2>1. /\ k + 1 \in 1 .. N /\ k + 1 \in 0 .. N /\ k \in 0 .. N /\ (k + 1) - 1 = k /\ N - k \in 1 .. N
        /\ N - (k + 1) = (N - k) - 1 /\ N - (k + 1) + 1 = N - k
    BY <1>1
  <2> SUFFICES ASSUME NEW j \in 0 .. Len(t), NEW known \in Seen, Place(j, known) \in places[(N - k) - 1]
               PROVE  Sound(R(last, k + 1, j, known), t, j, J)
    BY <2>1
  <2> DEFINE u == From(t, j)
             it == g.children[N - k]
             first == k + 1 = N
             rest == last[k]
             takes == LastTake(g, n, k)
  <2>2. u \in Texts
    BY FromIs
  <2>3. Rest(u, depth, known, main) \in Rests
    BY <2>2 DEF Rest, Rests
  <2>4. R(last, k + 1, j, known) = ParseChild(P, it, rest, u, depth, known, main, first)
    <3> DEFINE c == Rest(u, depth, known, main)
    <3>1. last[k + 1] = [x \in Rests |-> ParseChild(P, it, rest, x.t, x.depth, x.seen, x.main, first)]
      BY <1>2, <2>1 DEF ChildrenRun, N
    <3>2. last[k + 1][c] = ParseChild(P, it, rest, c.t, c.depth, c.seen, c.main, first)
      BY <2>3, <3>1
    <3>3. c.t = u /\ c.depth = depth /\ c.seen = known /\ c.main = main
      BY DEF Rest
    <3> HIDE DEF it, rest, u, first
    <3> QED
      BY <3>2, <3>3 DEF u
  <2>5. rest \in RestParsers(takes)
    BY <1>2, <2>1 DEF ChildrenRun
  <2>6. it \in Elements(n) /\ first \in BOOLEAN
    BY <1>1, <2>1
  <2>7. ASSUME NEW e \in E[Spot(it, t, j, known)], e \in 0 .. Len(t)
        PROVE  LET p == After(it, t, Place(j, known), main, e)
               IN  p.seen \in Seen => Sound(rest[Rest(From(t, e), depth, p.seen, main)], t, e, J)
    <3> DEFINE p == After(it, t, Place(j, known), main, e)
               s == p.seen
    <3>1. Place(j, known).at = j /\ Place(j, known).seen = known
      BY DEF Place
    <3>2. p \in places[N - k]
      BY <1>3, <2>1, <3>1 DEF PlacesRun
    <3>3. p = Place(e, s)
      BY DEF After, Place
    <3> HIDE DEF p, s
    <3> SUFFICES ASSUME s \in Seen PROVE Sound(rest[Rest(From(t, e), depth, s, main)], t, e, J)
      BY DEF p, s
    <3>4. Sound(R(last, k, e, s), t, e, J)
      BY <1>6, <2>7, <3>2, <3>3
    <3> QED
      BY <3>4
  <2> HIDE DEF R, it, first, rest, takes
  <2>8. Sound(ParseChild(P, it, rest, From(t, j), depth, known, main, first), t, j, J)
    BY <2>5, <2>6, <2>7, ChildOfConcatenationSound
  <2> QED
    BY <2>4, <2>8
<1>7. 0 .. N \subseteq T
  <2> HIDE DEF T
  <2> QED
    BY <1>1, <1>5, <1>6, Induction
<1>8. Sound(R(last, N, i, seen), t, i, J)
  <2>1. Place(i, seen) \in places[N - N] /\ N \in T
    BY <1>1, <1>3, <1>7 DEF PlacesRun
  <2> HIDE DEF R
  <2> QED
    BY <2>1
<1>9. CASE g.children = <<>>
  <2>1. ParseConcatenation(P, g, From(t, i), depth, seen, main) = Fail
    BY <1>9 DEF ParseConcatenation
  <2>2. ~Good(Fail)
    BY DEF Fail, Good, ParseRc
  <2> QED
    BY <2>1, <2>2 DEF Sound
<1>10. CASE g.children # <<>>
  <2>1. ParseConcatenation(P, g, From(t, i), depth, seen, main) = R(last, N, i, seen)
    BY <1>2, <1>10 DEF ParseConcatenation, ChildrenRun, N
  <2> HIDE DEF R
  <2> QED
    BY <1>8, <2>1 DEF J
<1> QED
  BY <1>9, <1>10

LEMMA ElementSound ==
  ASSUME NEW n \in 1 .. Height, NEW P \in Parsers(n - 1), NEW E, Agree(n - 1, P, E),
         NEW g \in Elements(n), NEW t \in Texts, NEW i \in 0 .. Len(t), NEW depth \in {0, 1}, NEW seen \in Seen
  PROVE  Sound(ParseElement(P, g, From(t, i), depth, seen), t, i, EndsOf(E, g, t, i, seen, FALSE))
<1> DEFINE k == n - 1
           main == FALSE
           u == From(t, i)
           r == ParseElement(P, g, u, depth, seen)
           J == EndsOf(E, g, t, i, seen, main)
<1>1. WellFormed(g, k)
  BY GrammarAssumption
<1>2. taking[k] \subseteq Elements(k)
  <2>1. k \in 0 .. Height
    BY GrammarAssumption
  <2> HIDE DEF k
  <2> QED
    BY <2>1, TakingInElements
<1>3. P \in Parsers(k) /\ Agree(k, P, E) /\ main \in BOOLEAN
  OBVIOUS
<1> HIDE DEF k, main
<1> SUFFICES Sound(r, t, i, J)
  BY DEF main
<1>4. CASE g.kind = "fix"
  <2>1. g.s \in Texts /\ r = ParseFixedString(g.s, u)
    BY <1>1, <1>4 DEF WellFormed, ParseElement
  <2> HIDE DEF r
  <2> QED
    BY <1>4, <2>1, FixedStringSound
<1>5. CASE g.kind = "rex"
  <2>1. g.least \in Nat /\ r = ParseRegEx(g.class, g.least, u)
    BY <1>1, <1>5 DEF WellFormed, ParseElement
  <2> HIDE DEF r
  <2> QED
    BY <1>5, <2>1, RegExSound
<1>6. CASE g.kind = "ws"
  <2>1. r = ParseWhiteSpace(u)
    BY <1>6 DEF ParseElement
  <2> HIDE DEF r
  <2> QED
    BY <1>6, <2>1, WhiteSpaceSound
<1>7. CASE g.kind = "esc"
  <2>1. r = ParseEscapedString(g.stops, g.escape, u)
    BY <1>7 DEF ParseElement
  <2> HIDE DEF r
  <2> QED
    BY <1>7, <2>1, EscapedStringSound
<1>8. CASE g.kind = "opt"
  <2>1. g.child \in Elements(k) /\ r = ParseOptional(P, g, u, seen)
    BY <1>1, <1>8 DEF WellFormed, ParseElement
  <2> HIDE DEF r
  <2> QED
    BY <1>3, <1>8, <2>1, OptionalSound
<1>9. CASE g.kind = "rep"
  <2>1. g.child \in taking[k] /\ g.child \in Elements(k) /\ r = ParseRepetition(P, g, u, seen)
    BY <1>1, <1>2, <1>9 DEF WellFormed, ParseElement
  <2> HIDE DEF r
  <2> QED
    BY <1>3, <1>9, <2>1, RepetitionSound
<1>10. CASE g.kind = "alt"
  <2>1. ChildrenIn(g, k) /\ r = ParseAlternation(P, g, u, depth, seen)
    BY <1>1, <1>10 DEF WellFormed, ParseElement, ChildrenIn
  <2> HIDE DEF r
  <2> QED
    BY <1>3, <1>10, <2>1, AlternationSound
<1>11. CASE g.kind = "cat"
  <2>1. ChildrenIn(g, k) /\ r = ParseConcatenation(P, g, u, depth, seen, main)
    BY <1>1, <1>11 DEF WellFormed, ParseElement, ChildrenIn, main
  <2> HIDE DEF r
  <2> QED
    BY <1>3, <1>11, <2>1, ConcatenationSound
<1>12. CASE g.kind = "inj"
  <2> DEFINE h == GrammarOf(g, seen)
  <2>1. /\ r = IF Injected(g, seen) THEN P[Call(h, u, depth, seen)] ELSE Fail
        /\ \A x \in DOMAIN g.by : g.by[x] \in Elements(k)
    BY <1>1, <1>12 DEF WellFormed, ParseElement
  <2>2. J = IF Injected(g, seen) THEN E[Spot(h, t, i, seen)] ELSE {}
    BY <1>12 DEF EndsOf
  <2>3. CASE Injected(g, seen)
    <3>1. h \in Elements(k)
      BY <2>1, <2>3 DEF Injected, GrammarOf
    <3> HIDE DEF h
    <3>2. Sound(P[Call(h, u, depth, seen)], t, i, E[Spot(h, t, i, seen)])
      BY <1>3, <3>1 DEF Agree
    <3> HIDE DEF r, J
    <3> QED
      BY <2>1, <2>2, <2>3, <3>2
  <2>4. CASE ~Injected(g, seen)
    <3>1. ~Good(Fail)
      BY DEF Fail, Good, ParseRc
    <3> HIDE DEF r
    <3> QED
      BY <2>1, <2>4, <3>1 DEF Sound
  <2> QED
    BY <2>3, <2>4
<1> QED
  BY <1>1, <1>4, <1>5, <1>6, <1>7, <1>8, <1>9, <1>10, <1>11, <1>12 DEF WellFormed

\* The ends of the elements of each height.
LEMMA EndsIs ==
  \A n \in 1 .. Height :
    ends[n] = [s \in Spots(n) |-> EndsOf(ends[n - 1], s.g, s.t, s.i, s.seen, FALSE)]
<1> DEFINE N == Height
           value(n, E) == [s \in Spots(n) |-> EndsOf(E, s.g, s.t, s.i, s.seen, FALSE)]
           body(h, n) == [k \in 0 .. n |-> value(k, h[k - 1])]
           b == value(0, ends)
<1>1. N \in Nat
  BY GrammarAssumption
<1>2. ends = CHOOSE h : h = body(h, N)
  BY DEF ends
<1>3. Spots(0) = {}
  BY DEF Spots, Elements
<1>4. \A E : value(0, E) = b
  BY <1>3
<1> HIDE DEF N, value, b
<1> DEFINE T == {n \in 0 .. N : \E h : h = body(h, n)}
<1>5. 0 \in T
  <2> DEFINE h == [k \in 0 .. 0 |-> b]
  <2>1. h = body(h, 0)
    <3>1. \A k \in 0 .. 0 : value(k, h[k - 1]) = b
      BY <1>4
    <3> QED
      BY <3>1
  <2> HIDE DEF h, body
  <2> QED
    BY <1>1, <2>1
<1>6. ASSUME NEW n \in 0 .. N - 1, n \in T PROVE n + 1 \in T
  <2>1. PICK h : h = body(h, n)
    BY <1>6
  <2> DEFINE f == [k \in 0 .. n + 1 |-> IF k = n + 1 THEN value(n + 1, h[n]) ELSE h[k]]
  <2>2. n \in Nat /\ n + 1 \in 0 .. N
    BY <1>1
  <2>3. ASSUME NEW k \in 0 .. n + 1 PROVE f[k] = value(k, f[k - 1])
    <3>1. CASE k = n + 1
      <4>1. k - 1 = n /\ n \in 0 .. n + 1 /\ n # n + 1
        BY <2>2, <3>1
      <4>2. f[k] = value(k, h[n]) /\ f[n] = h[n]
        BY <3>1, <4>1
      <4> HIDE DEF f
      <4> QED
        BY <4>1, <4>2
    <3>2. CASE k # n + 1
      <4>1. k \in 0 .. n
        BY <2>2, <3>2
      <4>2. h[k] = value(k, h[k - 1])
        BY <2>1, <4>1
      <4>3. f[k] = h[k]
        BY <3>2
      <4>4. CASE k = 0
        BY <1>4, <4>2, <4>3, <4>4
      <4>5. CASE k # 0
        <5>1. k - 1 \in 0 .. n + 1 /\ k - 1 # n + 1
          BY <2>2, <4>1, <4>5
        <5>2. f[k - 1] = h[k - 1]
          BY <5>1
        <5> HIDE DEF f
        <5> QED
          BY <4>2, <4>3, <5>2
      <4> QED
        BY <4>4, <4>5
    <3> QED
      BY <3>1, <3>2
  <2>4. f = body(f, n + 1)
    <3>1. f = [k \in 0 .. n + 1 |-> f[k]]
      OBVIOUS
    <3> HIDE DEF f
    <3> QED
      BY <2>3, <3>1
  <2> HIDE DEF f, body
  <2> QED
    BY <2>2, <2>4
<1>7. N \in T
  <2> HIDE DEF T
  <2>1. 0 .. N \subseteq T
    BY <1>1, <1>5, <1>6, Induction
  <2>2. N \in 0 .. N
    BY <1>1
  <2> QED
    BY <2>1, <2>2
<1>8. ends = body(ends, N)
  <2>1. \E h : h = body(h, N)
    BY <1>7
  <2> HIDE DEF body
  <2> QED
    BY <1>2, <2>1
<1>9. \A k \in 0 .. N : ends[k] = value(k, ends[k - 1])
  BY <1>8
<1>10. \A k \in 1 .. N : ends[k] = value(k, ends[k - 1])
  BY <1>1, <1>9
<1> QED
  BY <1>10, Zenon DEF value, N

\* The parser and the language agree at each height.
LEMMA ParseSound == \A n \in 0 .. Height : Agree(n, parse[n], ends[n])
<1> DEFINE T == {n \in 0 .. Height : Agree(n, parse[n], ends[n])}
<1>1. Height \in Nat
  BY GrammarAssumption
<1>2. 0 \in T
  BY <1>1 DEF Agree, Elements
<1>3. ASSUME NEW k \in 0 .. Height - 1, k \in T PROVE k + 1 \in T
  <2> DEFINE n == k + 1
             P == parse[k]
             E == ends[k]
  <2>1. n \in 1 .. Height /\ n \in 0 .. Height /\ n - 1 = k /\ k \in 0 .. Height
    BY <1>1
  <2>2. P \in Parsers(n - 1) /\ Agree(n - 1, P, E)
    BY <1>3, <2>1, ParseFaithful
  <2>3. /\ parse[n] = [c \in Calls(n) |-> ParseElement(P, c.g, c.t, c.depth, c.seen)]
        /\ ends[n] = [s \in Spots(n) |-> EndsOf(E, s.g, s.t, s.i, s.seen, FALSE)]
    BY <2>1, ParseFaithful, EndsIs
  <2> HIDE DEF n, P, E
  <2> SUFFICES ASSUME NEW g \in Elements(n), NEW t \in Texts, NEW depth \in {0, 1}, NEW seen \in Seen,
                      NEW i \in 0 .. Len(t)
               PROVE  Sound(parse[n][Call(g, From(t, i), depth, seen)], t, i, ends[n][Spot(g, t, i, seen)])
    BY <2>1 DEF Agree, n
  <2> DEFINE c == Call(g, From(t, i), depth, seen)
             s == Spot(g, t, i, seen)
  <2>4. parse[n][c] = ParseElement(P, g, From(t, i), depth, seen)
    <3>1. From(t, i) \in Texts
      BY FromIs
    <3>2. c \in Calls(n) /\ c.g = g /\ c.t = From(t, i) /\ c.depth = depth /\ c.seen = seen
      BY <3>1 DEF Call, Calls
    <3> HIDE DEF c
    <3> QED
      BY <2>3, <3>2
  <2>5. ends[n][s] = EndsOf(E, g, t, i, seen, FALSE)
    <3>1. s \in Spots(n) /\ s.g = g /\ s.t = t /\ s.i = i /\ s.seen = seen
      BY DEF Spot, Spots, Texts
    <3> HIDE DEF s
    <3>2. ends[n][s] = EndsOf(E, s.g, s.t, s.i, s.seen, FALSE)
      BY <2>3, <3>1
    <3> QED
      BY <3>1, <3>2
  <2> HIDE DEF c, s
  <2>6. Sound(ParseElement(P, g, From(t, i), depth, seen), t, i, EndsOf(E, g, t, i, seen, FALSE))
    BY <2>1, <2>2, ElementSound
  <2> QED
    BY <2>4, <2>5, <2>6 DEF c, s
<1>4. 0 .. Height \subseteq T
  <2> HIDE DEF T
  <2> QED
    BY <1>1, <1>2, <1>3, Induction
<1> QED
  BY <1>4

\* What main() accepts is a sentence of the grammar.
LEMMA ParseMainSound ==
  ASSUME NEW g, g.kind = "cat", ChildrenIn(g, Height - 1), NEW t \in Texts, Accepted(t, ParseMain(g, t))
  PROVE  InLanguage(g, t)
<1> DEFINE n == Height - 1
           P == parse[n]
           E == ends[n]
           r == ParseMain(g, t)
           main == TRUE
<1>1. n \in 0 .. Height
  BY GrammarAssumption
<1>2. P \in Parsers(n) /\ Agree(n, P, E) /\ ChildrenIn(g, n) /\ main \in BOOLEAN
  BY <1>1, ParseFaithful, ParseSound
<1>3. Nothing \in Seen
  BY EmptyText DEF Nothing, Seen
<1>4. 0 \in 0 .. Len(t) /\ From(t, 0) = t /\ Len(t) \in Nat
  BY DEF From, Texts
<1>5. r = ParseConcatenation(P, g, t, 1, Nothing, main)
  BY DEF ParseMain
<1>6. Len(t) \in EndsOf(E, g, t, 0, Nothing, main) => InLanguage(g, t)
  BY DEF InLanguage
<1>7. Good(r) /\ r.ok = Len(t)
  BY DEF Accepted
<1> HIDE DEF n, P, E, r, main
<1>8. Sound(ParseConcatenation(P, g, From(t, 0), 1, Nothing, main), t, 0, EndsOf(E, g, t, 0, Nothing, main))
  BY <1>2, <1>3, <1>4, 1 \in {0, 1}, ConcatenationSound
<1>9. Sound(r, t, 0, EndsOf(E, g, t, 0, Nothing, main))
  BY <1>4, <1>5, <1>8
<1>10. 0 + r.ok \in EndsOf(E, g, t, 0, Nothing, main)
  BY <1>7, <1>9 DEF Sound
<1>11. 0 + r.ok = Len(t)
  BY <1>4, <1>7
<1> QED
  BY <1>6, <1>10, <1>11

----------------------------------------------------------------------------
(* What the parser reports to be incomplete, or has candidates for, can    *)
(* become a match.  First the elements without children.                   *)

\* A result that holds out a prospect is about a text that can be continued (v).
Honest(r, v) == Missing(r) \/ r.cands # <<>> => Failed(r) \/ v

LEMMA NothingHeldOut ==
  ASSUME NEW r, Good(r) \/ r.type = "unexpectedText", r.cands = <<>>, NEW v
  PROVE  Honest(r, v)
  BY DEF Honest, Good, Missing

LEMMA ConstantsHonest ==
  ASSUME NEW v
  PROVE  Honest(Unexpected, v) /\ Honest(Fail, v) /\ Honest(Start, v) /\ \A s : Honest(Match(s), v)
<1>1. Honest(Unexpected, v) /\ Honest(Start, v)
  BY DEF Honest, Missing, Unexpected, Start, ParseRc
<1>2. Honest(Fail, v)
  BY DEF Honest, Failed, Fail, ParseRc
<1>3. ASSUME NEW s PROVE Honest(Match(s), v)
  BY DEF Honest, Missing, Match, ParseRc
<1> QED
  BY <1>1, <1>2, <1>3

LEMMA FixedStringHonest ==
  ASSUME NEW V, NEW E, NEW g, g.kind = "fix", g.s \in Texts, NEW t \in Texts, NEW i \in 0 .. Len(t), NEW seen,
         NEW main
  PROVE  Honest(ParseFixedString(g.s, From(t, i)), ViableOf(V, E, g, t, i, seen, main))
<1> DEFINE u == From(t, i)
           s == g.s
           r == ParseFixedString(s, u)
           v == ViableOf(V, E, g, t, i, seen, main)
<1>1. IsPrefix(u, s) => v
  BY DEF ViableOf
<1>2. r = CASE IsPrefix(s, u) -> Match(s)
            [] IsStrictPrefix(u, s) -> ParseRc("missingText", 0, Len(u), <<Candidate(s, FALSE)>>, <<>>)
            [] OTHER -> Unexpected
  BY DEF ParseFixedString
<1> HIDE DEF v, r, u, s
<1>3. CASE ~IsStrictPrefix(u, s)
  <2>1. r = Match(s) \/ r = Unexpected
    BY <1>2, <1>3
  <2>2. Honest(Match(s), v) /\ Honest(Unexpected, v)
    BY ConstantsHonest
  <2> QED
    BY <2>1, <2>2 DEF v, r, u, s
<1>4. CASE IsStrictPrefix(u, s)
  <2>1. v
    BY <1>1, <1>4 DEF IsStrictPrefix
  <2> QED
    BY <2>1 DEF Honest, v, r, u, s
<1> QED
  BY <1>3, <1>4

\* At the end of the text everything is still possible.
LEMMA NoTextLeft ==
  ASSUME NEW t \in Texts, NEW i \in 0 .. Len(t), From(t, i) = <<>>
  PROVE  i = Len(t)
<1>1. Len(From(t, i)) = Len(t) - i /\ Len(t) \in Nat /\ Len(<<>>) = 0
  BY FromIs DEF Texts
<1> QED
  BY <1>1

LEMMA RegExHonest ==
  ASSUME NEW V, NEW E, NEW g, g.kind = "rex", g.least \in Nat, NEW t \in Texts, NEW i \in 0 .. Len(t), NEW seen,
         NEW main
  PROVE  Honest(ParseRegEx(g.class, g.least, From(t, i)), ViableOf(V, E, g, t, i, seen, main))
<1> DEFINE u == From(t, i)
           n == Span(g.class, u)
           r == ParseRegEx(g.class, g.least, u)
           v == ViableOf(V, E, g, t, i, seen, main)
<1>1. i = Len(t) => v
  <2>1. i = Len(t) => Inside(g.class, t, i, Len(t))
    BY DEF Inside, Texts
  <2> QED
    BY <2>1 DEF ViableOf
<1>2. r = CASE n >= g.least -> Match(SubSeq(u, 1, n))
            [] n < g.least /\ u = <<>> -> ParseRc("missingText", 0, 0, <<>>, <<>>)
            [] OTHER -> ParseRc("unexpectedText", 0, Len(u), <<>>, <<>>)
  BY DEF ParseRegEx
<1>3. n \in Nat
  BY SpanInside
<1> HIDE DEF v, r, n
<1>4. CASE n >= g.least
  <2>1. r = Match(SubSeq(u, 1, n))
    BY <1>2, <1>3, <1>4
  <2> HIDE DEF u
  <2>2. Honest(Match(SubSeq(u, 1, n)), v)
    BY ConstantsHonest
  <2> QED
    BY <2>1, <2>2 DEF v, r, u
<1>5. CASE u = <<>>
  BY <1>1, <1>5, NoTextLeft DEF Honest, v, r
<1>6. CASE ~(n >= g.least) /\ u # <<>>
  <2>1. r = ParseRc("unexpectedText", 0, Len(u), <<>>, <<>>)
    BY <1>2, <1>6
  <2>2. r.type = "unexpectedText" /\ r.cands = <<>>
    BY <2>1 DEF ParseRc
  <2>3. Honest(r, v)
    BY <2>2, NothingHeldOut
  <2> QED
    BY <2>3 DEF v, r
<1> QED
  BY <1>4, <1>5, <1>6

LEMMA WhiteSpaceHonest ==
  ASSUME NEW V, NEW E, NEW g, g.kind = "ws", NEW t \in Texts, NEW i \in 0 .. Len(t), NEW seen, NEW main
  PROVE  Honest(ParseWhiteSpace(From(t, i)), ViableOf(V, E, g, t, i, seen, main))
<1> DEFINE u == From(t, i)
           n == Span({Blank}, u)
           r == ParseWhiteSpace(u)
           v == ViableOf(V, E, g, t, i, seen, main)
<1>1. i = Len(t) => v
  BY DEF ViableOf
<1>2. r = CASE n > 0 -> Match(SubSeq(u, 1, n))
            [] n = 0 /\ u = <<>> -> ParseRc("missingText", 0, 0, <<Candidate(<<Blank>>, FALSE)>>, <<>>)
            [] OTHER -> Unexpected
  BY DEF ParseWhiteSpace
<1>3. Honest(Unexpected, v) /\ \A s : Honest(Match(s), v)
  BY ConstantsHonest
<1> HIDE DEF v, r, n
<1>4. CASE u = <<>>
  BY <1>1, <1>4, NoTextLeft DEF Honest, v, r
<1>5. CASE u # <<>>
  <2>1. r = Match(SubSeq(u, 1, n)) \/ r = Unexpected
    BY <1>2, <1>5
  <2> QED
    BY <1>3, <2>1 DEF v, r
<1> QED
  BY <1>4, <1>5

----------------------------------------------------------------------------
(* Whether a grammar could not be retrieved does not depend on the forks   *)
(* that are allowed.                                                       *)

SameFailure(n, P) ==
  \A g \in Elements(n), t \in Texts, depth \in {0, 1}, seen \in Seen :
    Failed(P[Call(g, t, depth, seen)]) <=> Failed(P[Call(g, t, 0, seen)])

\* A concatenation parses its children with forks in any case.
LEMMA ConcatenationType ==
  ASSUME NEW n, NEW P \in Parsers(n), NEW g, ChildrenIn(g, n), NEW t \in Texts, NEW depth \in {0, 1},
         NEW seen \in Seen, NEW main \in BOOLEAN
  PROVE  ParseConcatenation(P, g, t, depth, seen, main).type = ParseConcatenation(P, g, t, 0, seen, main).type
<1> DEFINE N == Len(g.children)
           Same(R) == \A u \in Texts, s \in Seen :
                        R[Rest(u, depth, s, main)].type = R[Rest(u, 0, s, main)].type
<1>1. N \in Nat /\ N \in 0 .. N /\ \A k \in 1 .. N : g.children[k] \in Elements(n)
  BY DEF ChildrenIn
<1>2. PICK last : ChildrenRun(P, g, n, N, last)
  BY <1>1, LastChildrenRun
<1> DEFINE T == {k \in 0 .. N : Same(last[k])}
<1>3. ASSUME NEW u \in Texts, NEW d \in {0, 1}, NEW s \in Seen PROVE Rest(u, d, s, main) \in Rests
  BY DEF Rest, Rests
<1>4. 0 \in T
  <2>1. \A c \in Rests : last[0][c] = Start
    BY <1>2 DEF ChildrenRun
  <2>2. Same(last[0])
    BY <1>3, <2>1
  <2> HIDE DEF Same
  <2> QED
    BY <1>1, <2>2
<1>5. ASSUME NEW k \in 0 .. N - 1, k \in T PROVE k + 1 \in T
  <2> DEFINE it == g.children[N - (k + 1) + 1]
             R == last[k]
             first == k + 1 = N
             q(c) == ParseChild(P, it, R, c.t, c.depth, c.seen, c.main, first)
  <2>1. k + 1 \in 1 .. N /\ k + 1 \in 0 .. N /\ (k + 1) - 1 = k /\ it \in Elements(n)
    <3>1. k + 1 \in 1 .. N /\ k + 1 \in 0 .. N /\ (k + 1) - 1 = k /\ N - (k + 1) + 1 \in 1 .. N
      BY <1>1
    <3> QED
      BY <1>1, <3>1
  <2>2. last[k + 1] = [c \in Rests |-> q(c)]
    BY <1>2, <2>1 DEF ChildrenRun
  <2>3. Same(R)
    BY <1>5
  <2> SUFFICES ASSUME NEW u \in Texts, NEW s \in Seen
               PROVE  last[k + 1][Rest(u, depth, s, main)].type = last[k + 1][Rest(u, 0, s, main)].type
    BY <2>1
  <2> DEFINE r == P[Call(it, u, 1, s)]
             known == IF main /\ it.name \in Keys THEN [s EXCEPT ![it.name] = r.raw] ELSE s
             v == From(u, r.len)
             part(d) == ParseChild(P, it, R, u, d, s, main, first)
             behind(d) == R[Rest(v, d, known, main)]
  <2>4. \A d \in {0, 1} : last[k + 1][Rest(u, d, s, main)] = part(d)
    <3> TAKE d \in {0, 1}
    <3> DEFINE c == Rest(u, d, s, main)
    <3>1. c \in Rests /\ c.t = u /\ c.depth = d /\ c.seen = s /\ c.main = main
      BY <1>3 DEF Rest
    <3> HIDE DEF c, it, R, first
    <3>2. last[k + 1][c] = ParseChild(P, it, R, c.t, c.depth, c.seen, c.main, first)
      BY <2>2, <3>1
    <3> QED
      BY <3>1, <3>2 DEF c
  <2>5. \A d \in {0, 1} : part(d).type = IF Good(r) THEN behind(d).type ELSE r.type
    <3> TAKE d \in {0, 1}
    <3> DEFINE w == behind(d)
               cands == Forks(r, R, d, s, first)
               all == cands \o Prefixed(r.raw, w.cands)
               ok == r.ok + w.ok
               len == r.len + w.len
               raw == r.raw \o w.raw
    <3>1. part(d) = CASE Good(r)    -> ParseRc(w.type, ok, len, all, raw)
                      [] Missing(r) -> ParseRc(r.type, r.ok, r.len, cands, r.raw)
                      [] OTHER      -> ParseRc(r.type, r.ok, r.len, cands, <<>>)
      BY DEF ParseChild
    <3> HIDE DEF r, w, cands, all, ok, len, raw, part
    <3>2. CASE Good(r)
      <4>1. part(d) = ParseRc(w.type, ok, len, all, raw)
        BY <3>1, <3>2 DEF Good, Missing
      <4> QED
        BY <3>2, <4>1 DEF ParseRc, w
    <3>3. CASE ~Good(r)
      <4>1. part(d) = ParseRc(r.type, r.ok, r.len, cands, r.raw) \/ part(d) = ParseRc(r.type, r.ok, r.len, cands, <<>>)
        BY <3>1, <3>3
      <4> QED
        BY <3>3, <4>1 DEF ParseRc
    <3> QED
      BY <3>2, <3>3
  <2>6. Good(r) => known \in Seen /\ v \in Texts
    <3>1. r \in Faithful(u)
      BY <2>1, ChildFaithful
    <3>2. r.raw \in Texts /\ r.len \in Nat /\ r.len <= Len(u) /\ Len(u) \in Nat
      <4> HIDE DEF r
      <4> QED
        BY ONLY <3>1, u \in Texts, FaithfulIs
    <3> HIDE DEF r
    <3>3. r.len \in 0 .. Len(u)
      BY <3>2
    <3>4. v \in Texts
      BY <3>3, FromIs
    <3>5. known \in Seen
      BY <3>2 DEF Seen
    <3> QED
      BY <3>4, <3>5
  <2>7. Good(r) => behind(depth).type = behind(0).type
    <3> HIDE DEF R, known, v, r
    <3> QED
      BY <2>3, <2>6
  <2> HIDE DEF part, behind, r
  <2>8. part(depth).type = part(0).type
    BY <2>5, <2>7
  <2> QED
    BY <2>4, <2>8
<1>6. 0 .. N \subseteq T
  <2> HIDE DEF T
  <2> QED
    BY <1>1, <1>4, <1>5, Induction
<1>7. Same(last[N])
  BY <1>1, <1>6
<1>8. CASE g.children = <<>>
  BY <1>8 DEF ParseConcatenation
<1>9. CASE g.children # <<>>
  <2>1. \A d : ParseConcatenation(P, g, t, d, seen, main) = last[N][Rest(t, d, seen, main)]
    BY <1>2, <1>9 DEF ParseConcatenation, ChildrenRun
  <2>2. last[N][Rest(t, depth, seen, main)].type = last[N][Rest(t, 0, seen, main)].type
    BY <1>7
  <2> QED
    BY <2>1, <2>2
<1> QED
  BY <1>8, <1>9

LEMMA AlternationFailure ==
  ASSUME NEW P, NEW g, NEW t, NEW depth, NEW seen
  PROVE  Failed(ParseAlternation(P, g, t, depth, seen)) <=>
           \E m \in DOMAIN g.children : Failed(P[Call(g.children[m], t, 0, seen)])
<1> DEFINE I         == DOMAIN g.children
           r         == [m \in I |-> P[Call(g.children[m], t, 0, seen)]]
           failed    == \E m \in I : Failed(r[m])
           forked(m) == P[Call(g.children[m], t, depth, seen)].cands
           unique    == Cardinality(Maybes(r)) = 1
           only      == CHOOSE m \in Maybes(r) : TRUE
           cands     == IF unique THEN forked(only) ELSE FlattenSeq([m \in I |-> r[m].cands])
           raw       == IF unique THEN r[only].raw ELSE <<>>
           W         == Winner(r)
           type      == IF failed THEN "retrievingGrammarFailed" ELSE "success"
           others    == forked(W) \o OtherCandidates(r)
           won       == ParseRc(type, r[W].ok, r[W].len, others, r[W].raw)
           a         == ParseAlternation(P, g, t, depth, seen)
<1>1. a = CASE Goods(r) # {} -> won
            [] Goods(r) = {} /\ failed -> ParseRc("retrievingGrammarFailed", 0, 0, cands, raw)
            [] Goods(r) = {} /\ ~failed /\ I = {} -> Start
            [] Goods(r) = {} /\ ~failed /\ I # {} /\ cands = <<>> -> ParseRc("unexpectedText", 0, 0, <<>>, raw)
            [] OTHER -> ParseRc("missingText", 0, Len(t), cands, raw)
  BY DEF ParseAlternation
<1>2. failed <=> \E m \in I : Failed(P[Call(g.children[m], t, 0, seen)])
  OBVIOUS
<1>3. won.type = type
  BY DEF ParseRc
<1> HIDE DEF r, failed, cands, raw, won, I, a
<1>4. CASE Goods(r) # {}
  <2>1. a = won
    BY <1>1, <1>4
  <2> QED
    BY <1>2, <1>3, <2>1 DEF Failed, I, a
<1>5. CASE Goods(r) = {} /\ failed
  <2>1. a = ParseRc("retrievingGrammarFailed", 0, 0, cands, raw)
    BY <1>1, <1>5
  <2> QED
    BY <1>2, <1>5, <2>1 DEF Failed, ParseRc, I, a
<1>6. CASE Goods(r) = {} /\ ~failed
  <2>1. \/ a = Start
        \/ a = ParseRc("unexpectedText", 0, 0, <<>>, raw)
        \/ a = ParseRc("missingText", 0, Len(t), cands, raw)
    BY <1>1, <1>6
  <2>2. ~Failed(a)
    BY <2>1 DEF Failed, ParseRc, Start
  <2> QED
    BY <1>2, <1>6, <2>2 DEF I, a
<1> QED
  BY <1>4, <1>5, <1>6

LEMMA ElementFailure ==
  ASSUME NEW n \in 1 .. Height, NEW P \in Parsers(n - 1), SameFailure(n - 1, P),
         NEW g \in Elements(n), NEW t \in Texts, NEW depth \in {0, 1}, NEW seen \in Seen
  PROVE  Failed(ParseElement(P, g, t, depth, seen)) <=> Failed(ParseElement(P, g, t, 0, seen))
<1> DEFINE k == n - 1
           main == FALSE
           r(d) == ParseElement(P, g, t, d, seen)
<1>1. WellFormed(g, k)
  BY GrammarAssumption
<1>2. P \in Parsers(k) /\ SameFailure(k, P) /\ main \in BOOLEAN
  OBVIOUS
<1> HIDE DEF k, main
<1> SUFFICES Failed(r(depth)) <=> Failed(r(0))
  OBVIOUS
<1>3. CASE g.kind \in {"fix", "rex", "ws", "esc", "opt", "rep"}
  BY <1>3 DEF ParseElement
<1>4. CASE g.kind = "alt"
  <2>1. \A d : r(d) = ParseAlternation(P, g, t, d, seen)
    BY <1>4 DEF ParseElement
  <2> HIDE DEF r
  <2>2. \A d : Failed(r(d)) <=> \E m \in DOMAIN g.children : Failed(P[Call(g.children[m], t, 0, seen)])
    BY <2>1, AlternationFailure
  <2> QED
    BY <2>2
<1>5. CASE g.kind = "cat"
  <2>1. ChildrenIn(g, k) /\ \A d : r(d) = ParseConcatenation(P, g, t, d, seen, main)
    BY <1>1, <1>5 DEF WellFormed, ParseElement, ChildrenIn, main
  <2> HIDE DEF r
  <2>2. r(depth).type = r(0).type
    BY <1>2, <2>1, ConcatenationType
  <2> QED
    BY <2>2 DEF Failed
<1>6. CASE g.kind = "inj"
  <2> DEFINE h == GrammarOf(g, seen)
  <2>1. /\ \A d : r(d) = IF Injected(g, seen) THEN P[Call(h, t, d, seen)] ELSE Fail
        /\ \A x \in DOMAIN g.by : g.by[x] \in Elements(k)
    BY <1>1, <1>6 DEF WellFormed, ParseElement
  <2>2. CASE Injected(g, seen)
    <3>1. h \in Elements(k)
      BY <2>1, <2>2 DEF Injected, GrammarOf
    <3> HIDE DEF h, r
    <3>2. Failed(P[Call(h, t, depth, seen)]) <=> Failed(P[Call(h, t, 0, seen)])
      BY <1>2, <3>1 DEF SameFailure
    <3> QED
      BY <2>1, <2>2, <3>2
  <2>3. CASE ~Injected(g, seen)
    <3> HIDE DEF r
    <3> QED
      BY <2>1, <2>3
  <2> QED
    BY <2>2, <2>3
<1> QED
  BY <1>1, <1>3, <1>4, <1>5, <1>6 DEF WellFormed

LEMMA ParseFailure == \A n \in 0 .. Height : SameFailure(n, parse[n])
<1> DEFINE T == {n \in 0 .. Height : SameFailure(n, parse[n])}
<1>1. Height \in Nat
  BY GrammarAssumption
<1>2. 0 \in T
  BY <1>1 DEF SameFailure, Elements
<1>3. ASSUME NEW k \in 0 .. Height - 1, k \in T PROVE k + 1 \in T
  <2> DEFINE n == k + 1
             P == parse[k]
  <2>1. n \in 1 .. Height /\ n \in 0 .. Height /\ n - 1 = k /\ k \in 0 .. Height
    BY <1>1
  <2>2. P \in Parsers(n - 1) /\ SameFailure(n - 1, P)
    BY <1>3, <2>1, ParseFaithful
  <2>3. parse[n] = [c \in Calls(n) |-> ParseElement(P, c.g, c.t, c.depth, c.seen)]
    BY <2>1, ParseFaithful
  <2> HIDE DEF n, P
  <2> SUFFICES ASSUME NEW g \in Elements(n), NEW t \in Texts, NEW depth \in {0, 1}, NEW seen \in Seen
               PROVE  Failed(parse[n][Call(g, t, depth, seen)]) <=> Failed(parse[n][Call(g, t, 0, seen)])
    BY <2>1 DEF SameFailure, n
  <2>4. \A d \in {0, 1} : parse[n][Call(g, t, d, seen)] = ParseElement(P, g, t, d, seen)
    <3> TAKE d \in {0, 1}
    <3> DEFINE c == Call(g, t, d, seen)
    <3>1. c \in Calls(n) /\ c.g = g /\ c.t = t /\ c.depth = d /\ c.seen = seen
      BY DEF Call, Calls
    <3> HIDE DEF c
    <3>2. parse[n][c] = ParseElement(P, g, t, d, seen)
      BY <2>3, <3>1
    <3> QED
      BY <3>2 DEF c
  <2>5. Failed(ParseElement(P, g, t, depth, seen)) <=> Failed(ParseElement(P, g, t, 0, seen))
    BY <2>1, <2>2, ElementFailure
  <2> QED
    BY <2>4, <2>5
<1>4. 0 .. Height \subseteq T
  <2> HIDE DEF T
  <2> QED
    BY <1>1, <1>2, <1>3, Induction
<1> QED
  BY <1>4

----------------------------------------------------------------------------
(* The prospects of the elements with children.                            *)

\* What parses the elements up to some height holds out prospects of the language only.
Ahead(n, P, V) ==
  \A g \in Elements(n), t \in Texts, depth \in {0, 1}, seen \in Seen :
    \A i \in 0 .. Len(t) : Honest(P[Call(g, From(t, i), depth, seen)], V[Spot(g, t, i, seen)])

LEMMA OptionalHonest ==
  ASSUME NEW n, NEW P \in Parsers(n), NEW E, NEW V, Ahead(n, P, V), NEW g, g.kind = "opt",
         g.child \in Elements(n), g.child \in taking[n],
         NEW t \in Texts, NEW i \in 0 .. Len(t), NEW seen \in Seen, NEW main
  PROVE  Honest(ParseOptional(P, g, From(t, i), seen), ViableOf(V, E, g, t, i, seen, main))
<1> DEFINE u == From(t, i)
           r == P[Call(g.child, u, 1, seen)]
           o == ParseOptional(P, g, u, seen)
           v == V[Spot(g.child, t, i, seen)]
           cands == OptionalCandidates(r)
           w == ViableOf(V, E, g, t, i, seen, main)
<1>1. Honest(r, v)
  BY DEF Ahead
<1>2. r \in Faithful(u) /\ (Good(r) => r.ok > 0)
  <2>1. u \in Texts
    BY FromIs
  <2> HIDE DEF u
  <2> QED
    BY <2>1, ChildFaithful
<1>3. v => w
  BY DEF ViableOf
<1>4. o = CASE Good(r) -> ParseRc("success", r.ok, r.len, cands, r.raw)
            [] Missing(r) /\ r.len >= 1 -> ParseRc("missingText", 0, r.len, cands, <<>>)
            [] Failed(r) -> ParseRc(r.type, 0, 0, cands, <<>>)
            [] OTHER -> ParseRc("success", 0, 0, cands, <<>>)
  BY DEF ParseOptional
<1>5. r.type \in ResultTypes
  <2>1. u \in Texts
    BY FromIs
  <2> HIDE DEF u, r
  <2> QED
    BY <1>2, <2>1, FaithfulIs
<1> HIDE DEF o, r, v, w
<1>6. CASE Failed(r)
  <2>1. o = ParseRc(r.type, 0, 0, cands, <<>>)
    BY <1>4, <1>6 DEF Good, Missing, Failed
  <2>2. Failed(o)
    BY <1>6, <2>1 DEF Failed, ParseRc
  <2> QED
    BY <2>2 DEF Honest, o
<1>7. CASE v
  BY <1>3, <1>7 DEF Honest, o, w
<1>8. CASE ~Failed(r) /\ ~v
  <2>1. ~Missing(r) /\ r.cands = <<>>
    BY <1>1, <1>8 DEF Honest
  <2>2. cands = <<>>
    <3>1. CASE r.type = "unexpectedText"
      BY <3>1 DEF OptionalCandidates
    <3>2. CASE r.type # "unexpectedText"
      <4>1. Good(r)
        BY <1>5, <1>8, <2>1, <3>2 DEF ResultTypes, Good, Missing, Failed
      <4>2. ~(r.ok = 0)
        BY <1>2, <4>1
      <4>3. Stopped(r.cands) = <<>>
        BY <2>1 DEF Stopped
      <4> QED
        BY <3>2, <4>2, <4>3 DEF OptionalCandidates
    <3> QED
      BY <3>1, <3>2
  <2>3. o = ParseRc("success", r.ok, r.len, cands, r.raw) \/ o = ParseRc("success", 0, 0, cands, <<>>)
    BY <1>4, <1>8, <2>1
  <2>4. o.type = "success" /\ o.cands = <<>>
    BY <2>2, <2>3 DEF ParseRc
  <2>5. Honest(o, w)
    BY <2>4, NothingHeldOut DEF Good
  <2> QED
    BY <2>5 DEF o, w
<1> QED
  BY <1>6, <1>7, <1>8

\* A part of a sequence of sequences that holds something does.
LEMMA FlattenHolds ==
  ASSUME NEW N \in Nat, NEW ss \in [1 .. N -> Seq(Candidates)], FlattenSeq(ss) # <<>>
  PROVE  \E m \in 1 .. N : ss[m] # <<>>
<1> SUFFICES ASSUME \A m \in 1 .. N : ss[m] = <<>> PROVE FALSE
  OBVIOUS
<1>1. ss \in [1 .. N -> Seq({})]
  <2>1. \A m \in 1 .. N : ss[m] \in Seq({})
    OBVIOUS
  <2> QED
    BY <2>1
<1>2. ss \in Seq(Seq({}))
  BY <1>1, SequenceIs
<1>3. FlattenSeq(ss) \in Seq({})
  BY <1>2, FlattenIs
<1> DEFINE f == FlattenSeq(ss)
<1>4. f = <<>>
  <2> HIDE DEF f
  <2>1. f \in Seq({})
    BY <1>3 DEF f
  <2>2. Len(f) \in Nat /\ \A m \in 1 .. Len(f) : f[m] \in {}
    BY <2>1
  <2>3. Len(f) = 0
    <3> SUFFICES ASSUME Len(f) # 0 PROVE FALSE
      OBVIOUS
    <3>1. 1 \in 1 .. Len(f)
      BY <2>2
    <3> QED
      BY <2>2, <3>1
  <2> QED
    BY <2>1, <2>3
<1> QED
  BY <1>4

LEMMA OtherCandidatesHold ==
  ASSUME NEW t \in Texts, NEW N \in Nat, NEW r \in [1 .. N -> Faithful(t)],
         OtherCandidates(r) # <<>> \/ FlattenSeq([m \in 1 .. N |-> r[m].cands]) # <<>>
  PROVE  \E m \in 1 .. N : r[m].cands # <<>>
<1> DEFINE C == Candidates
           W == Winner(r)
           some == [m \in 1 .. N |->
                      IF m \in (Goods(r) \cup Maybes(r)) \ {W} /\ r[m].len >= r[W].len
                      THEN r[m].cands ELSE <<>>]
           all == [m \in 1 .. N |-> r[m].cands]
<1>1. \A m \in 1 .. N : r[m].cands \in Seq(C)
  BY DEF Faithful, Results
<1>2. DOMAIN r = 1 .. N /\ <<>> \in Seq(C)
  OBVIOUS
<1> HIDE DEF W, C
<1>3. some \in [1 .. N -> Seq(C)] /\ all \in [1 .. N -> Seq(C)]
  BY <1>1, <1>2
<1>4. OtherCandidates(r) = FlattenSeq(some)
  BY <1>2 DEF OtherCandidates, W
<1>5. \A m \in 1 .. N : some[m] # <<>> \/ all[m] # <<>> => r[m].cands # <<>>
  OBVIOUS
<1> HIDE DEF some
<1>6. FlattenSeq(some) # <<>> \/ FlattenSeq(all) # <<>>
  BY <1>4
<1> HIDE DEF all
<1>7. \E m \in 1 .. N : some[m] # <<>> \/ all[m] # <<>>
  <2>1. CASE FlattenSeq(some) # <<>>
    <3>1. \E m \in 1 .. N : some[m] # <<>>
      BY ONLY <1>3, <2>1, N \in Nat, FlattenHolds DEF C
    <3> QED
      BY <3>1
  <2>2. CASE FlattenSeq(all) # <<>>
    <3>1. \E m \in 1 .. N : all[m] # <<>>
      BY ONLY <1>3, <2>2, N \in Nat, FlattenHolds DEF C
    <3> QED
      BY <3>1
  <2> QED
    BY <1>6, <2>1, <2>2
<1> QED
  BY <1>5, <1>7

\* The forks that are allowed change the candidates of a child, not whether a
\* grammar is missing below it; so either the alternation says that one is, or none
\* is missing below any child.
LEMMA AlternationHonest ==
  ASSUME NEW n, NEW P \in Parsers(n), SameFailure(n, P), NEW E, NEW V, Ahead(n, P, V), NEW g, g.kind = "alt",
         ChildrenIn(g, n), NEW t \in Texts, NEW i \in 0 .. Len(t), NEW depth \in {0, 1}, NEW seen \in Seen, NEW main
  PROVE  Honest(ParseAlternation(P, g, From(t, i), depth, seen), ViableOf(V, E, g, t, i, seen, main))
<1> DEFINE u         == From(t, i)
           N         == Len(g.children)
           I         == DOMAIN g.children
           r         == [m \in I |-> P[Call(g.children[m], u, 0, seen)]]
           failed    == \E m \in I : Failed(r[m])
           forked(m) == P[Call(g.children[m], u, depth, seen)].cands
           unique    == Cardinality(Maybes(r)) = 1
           only      == CHOOSE m \in Maybes(r) : TRUE
           cands     == IF unique THEN forked(only) ELSE FlattenSeq([m \in I |-> r[m].cands])
           raw       == IF unique THEN r[only].raw ELSE <<>>
           W         == Winner(r)
           type      == IF failed THEN "retrievingGrammarFailed" ELSE "success"
           x         == forked(W)
           y         == OtherCandidates(r)
           won       == ParseRc(type, r[W].ok, r[W].len, x \o y, r[W].raw)
           a         == ParseAlternation(P, g, u, depth, seen)
           w         == ViableOf(V, E, g, t, i, seen, main)
<1>1. a = CASE Goods(r) # {} -> won
            [] Goods(r) = {} /\ failed -> ParseRc("retrievingGrammarFailed", 0, 0, cands, raw)
            [] Goods(r) = {} /\ ~failed /\ I = {} -> Start
            [] Goods(r) = {} /\ ~failed /\ I # {} /\ cands = <<>> -> ParseRc("unexpectedText", 0, 0, <<>>, raw)
            [] OTHER -> ParseRc("missingText", 0, Len(u), cands, raw)
  BY DEF ParseAlternation
<1>2. u \in Texts
  BY FromIs
<1>3. N \in Nat /\ I = 1 .. N /\ \A m \in I : g.children[m] \in Elements(n)
  BY DEF ChildrenIn
<1>4. ASSUME NEW m \in I PROVE V[Spot(g.children[m], t, i, seen)] => w
  BY <1>4 DEF ViableOf
<1> HIDE DEF w
<1>5. ASSUME NEW m \in I, ~failed PROVE (r[m].cands # <<>> => w) /\ (forked(m) # <<>> => w)
  <2> DEFINE v == V[Spot(g.children[m], t, i, seen)]
             q(d) == P[Call(g.children[m], u, d, seen)]
  <2>1. g.children[m] \in Elements(n) /\ 0 \in {0, 1}
    BY <1>3
  <2>2. Honest(q(0), v) /\ Honest(q(depth), v)
    BY <2>1 DEF Ahead
  <2>3. Failed(q(depth)) <=> Failed(q(0))
    <3> HIDE DEF u
    <3> QED
      BY <1>2, <2>1 DEF SameFailure
  <2>4. q(0) = r[m]
    OBVIOUS
  <2>5. ~Failed(q(0)) /\ ~Failed(q(depth))
    BY <1>5, <2>3, <2>4
  <2>6. q(0).cands = r[m].cands /\ q(depth).cands = forked(m)
    BY <2>4
  <2> HIDE DEF q, v, r
  <2>7. (q(0).cands # <<>> => v) /\ (q(depth).cands # <<>> => v)
    BY <2>2, <2>5 DEF Honest
  <2> QED
    BY <1>4, <2>6, <2>7 DEF v
<1>6. r \in [1 .. N -> Faithful(u)]
  <2>1. ASSUME NEW m \in I PROVE r[m] \in Faithful(u)
    <3>1. g.children[m] \in Elements(n) /\ 0 \in {0, 1}
      BY <1>3
    <3>2. P[Call(g.children[m], u, 0, seen)] \in Faithful(u)
      BY <1>2, <3>1, ChildFaithful
    <3> QED
      BY <3>2
  <2> QED
    BY <1>3, <2>1
<1>7. Maybes(r) \subseteq I /\ Goods(r) \subseteq I
  BY <1>3, <1>6 DEF Maybes, Goods
<1> HIDE DEF r, N, I, u, a, failed, forked
<1>8. unique => only \in I
  <2> DEFINE M == Maybes(r)
  <2> SUFFICES ASSUME Cardinality(M) = 1 PROVE M # {}
    BY <1>7
  <2> HIDE DEF M
  <2>1. Cardinality({}) # 1
    BY FS_EmptySet
  <2> QED
    BY <2>1
<1>9. y # <<>> \/ FlattenSeq([m \in I |-> r[m].cands]) # <<>> => \E m \in I : r[m].cands # <<>>
  BY <1>2, <1>3, <1>6, OtherCandidatesHold
<1>10. ~failed /\ cands # <<>> => w
  BY <1>5, <1>8, <1>9
<1> HIDE DEF cands, raw, unique, only
<1>11. CASE failed
  <2>1. Failed(won) /\ Failed(ParseRc("retrievingGrammarFailed", 0, 0, cands, raw))
    BY <1>11 DEF Failed, ParseRc
  <2> HIDE DEF won
  <2>2. Failed(a)
    BY <1>1, <1>11, <2>1
  <2> QED
    BY <2>2 DEF Honest, a, u
<1>12. CASE w
  BY <1>12 DEF Honest, a, w, u
<1>13. CASE ~failed /\ ~w
  <2>1. CASE Goods(r) # {}
    <3>1. W \in I
      BY <1>2, <1>3, <1>6, <1>7, <2>1, WinnerIs
    <3> HIDE DEF W
    <3>2. x = <<>>
      BY <1>5, <1>13, <3>1
    <3>3. y = <<>>
      BY <1>5, <1>9, <1>13
    <3>4. x \o y = <<>>
      BY <3>2, <3>3
    <3>5. a = won
      BY <1>1, <2>1
    <3> HIDE DEF x, y
    <3>6. a.type = "success" /\ a.cands = <<>>
      BY <1>13, <3>4, <3>5 DEF ParseRc
    <3>7. Honest(a, w)
      BY <3>6, NothingHeldOut DEF Good
    <3> QED
      BY <3>7 DEF a, w, u
  <2>2. CASE Goods(r) = {}
    <3>1. cands = <<>>
      BY <1>10, <1>13
    <3>2. a = Start \/ a = ParseRc("unexpectedText", 0, 0, <<>>, raw)
      BY <1>1, <1>13, <2>2, <3>1
    <3>3. Honest(Start, w)
      BY ConstantsHonest
    <3>4. LET q == ParseRc("unexpectedText", 0, 0, <<>>, raw) IN q.type = "unexpectedText" /\ q.cands = <<>>
      BY DEF ParseRc
    <3>5. Honest(ParseRc("unexpectedText", 0, 0, <<>>, raw), w)
      BY <3>4, NothingHeldOut
    <3>6. Honest(a, w)
      BY <3>2, <3>3, <3>5
    <3> QED
      BY <3>6 DEF a, w, u
  <2> QED
    BY <2>1, <2>2
<1> QED
  BY <1>11, <1>12, <1>13

\* What is open behind the repetitions that match is open in one more.
LEMMA RepetitionHonest ==
  ASSUME NEW n, NEW P \in Parsers(n), NEW E, Agree(n, P, E), NEW V, Ahead(n, P, V), NEW g, g.kind = "rep",
         g.child \in Elements(n), g.child \in taking[n],
         NEW t \in Texts, NEW i \in 0 .. Len(t), NEW seen \in Seen, NEW main
  PROVE  Honest(ParseRepetition(P, g, From(t, i), seen), ViableOf(V, E, g, t, i, seen, main))
<1> DEFINE u == From(t, i)
           K == Len(u) + 1
           J == EndsOfMany(E, g, t, i, seen)
           w == ViableOf(V, E, g, t, i, seen, main)
<1>1. u \in Texts /\ Len(u) = Len(t) - i
  BY FromIs
<1> HIDE DEF u
<1>2. Len(u) \in Nat /\ K \in Nat /\ K \in 0 .. K /\ Len(t) \in Nat /\ i \in Nat
  BY <1>1 DEF Texts
<1>3. PICK state : RepeatRun(P, g, u, seen, K, state)
  BY <1>1, <1>2, RepetitionsRun
<1>4. \A m \in 0 .. K : LET o == state[m].rc IN Good(o) => o.ok \in 0 .. Len(t) - i /\ i + o.ok \in J
  BY <1>3, RepetitionsAtEnds DEF u
<1>5. (Len(t) \in J => w) /\ \A j \in J : V[Spot(g.child, t, j, seen)] => w
  BY DEF ViableOf, EndsOf
<1> DEFINE T == {m \in 0 .. K : Honest(state[m].rc, w)}
<1> HIDE DEF K, J, w
<1>6. 0 \in T
  <2>1. state[0].rc = Start /\ 0 \in 0 .. K
    BY <1>2, <1>3 DEF RepeatRun
  <2>2. Honest(Start, w)
    BY ConstantsHonest
  <2> QED
    BY <2>1, <2>2
<1>7. ASSUME NEW m \in 0 .. K - 1, m \in T PROVE m + 1 \in T
  <2> DEFINE s == state[m]
             q == s.rc
             r == P[Call(g.child, From(u, q.ok), 1, seen)]
             type == IF q.ok = Len(u) THEN "success" ELSE r.type
             cands == Repeated(q, r.cands)
             raw == q.raw \o r.raw
             ok == q.ok + r.ok
             len == q.len + r.len
             more == ParseRc("success", ok, len, <<>>, raw)
             missing == ParseRc(type, ok, len, cands, raw)
             failed == ParseRc(type, q.ok, q.len, cands, q.raw)
             end(result) == [rc |-> result, on |-> FALSE]
  <2>1. m + 1 \in 1 .. K /\ (m + 1) - 1 = m /\ m \in 0 .. K /\ m + 1 \in 0 .. K
    BY <1>2
  <2>2. state[m + 1] = Repeat(P, g, u, seen, s) /\ s \in RepeatStates(u)
    BY <1>3, <2>1 DEF RepeatRun
  <2>3. Honest(q, w)
    BY <1>7
  <2> SUFFICES Honest(state[m + 1].rc, w)
    BY <2>1
  <2>4. state[m + 1] =
          CASE ~s.on -> s
            [] s.on /\ Good(r) -> [rc |-> more, on |-> TRUE]
            [] s.on /\ Missing(r) -> end(missing)
            [] s.on /\ Failed(r) -> end(failed)
            [] OTHER -> end(q)
    BY <2>2 DEF Repeat
  <2>5. CASE ~s.on
    <3>1. state[m + 1] = s
      BY <2>4, <2>5
    <3> QED
      BY <2>3, <3>1
  <2>6. CASE s.on
    <3>1. Good(q) /\ q \in Faithful(u)
      BY <2>2, <2>6 DEF RepeatStates
    <3> DEFINE j == i + q.ok
    <3>2. q.ok \in 0 .. Len(t) - i /\ j \in J
      BY <1>4, <2>1, <3>1
    <3> HIDE DEF s
    <3>3. j \in 0 .. Len(t) /\ From(u, q.ok) = From(t, j)
      BY <3>2, Further DEF u
    <3>4. Honest(r, V[Spot(g.child, t, j, seen)])
      <4>1. Honest(P[Call(g.child, From(t, j), 1, seen)], V[Spot(g.child, t, j, seen)])
        BY <3>3 DEF Ahead
      <4> QED
        BY <3>3, <4>1
    <3>5. q.ok = Len(u) => j = Len(t)
      BY <1>1, <1>2, <3>2
    <3>6. V[Spot(g.child, t, j, seen)] => w
      BY <1>5, <3>2
    <3>7. j = Len(t) => w
      BY <1>5, <3>2
    <3> HIDE DEF r, q, j
    <3>8. ~(Good(r) /\ Missing(r)) /\ ~(Good(r) /\ Failed(r)) /\ ~(Missing(r) /\ Failed(r))
      BY DEF Good, Missing, Failed
    <3> HIDE DEF cands, raw, ok, len
    <3>9. CASE Good(r)
      <4>1. state[m + 1].rc = more
        BY <2>4, <2>6, <3>8, <3>9
      <4>2. more.type = "success" /\ more.cands = <<>>
        BY DEF ParseRc
      <4> HIDE DEF more
      <4>3. Honest(more, w)
        BY <4>2, NothingHeldOut DEF Good
      <4> QED
        BY <4>1, <4>3
    <3>10. CASE Missing(r)
      <4>1. w
        BY <3>4, <3>6, <3>8, <3>10 DEF Honest
      <4> QED
        BY <4>1 DEF Honest
    <3>11. CASE Failed(r)
      <4>1. state[m + 1].rc = failed
        BY <2>4, <2>6, <3>8, <3>11
      <4>2. CASE q.ok = Len(u)
        BY <3>5, <3>7, <4>2 DEF Honest
      <4>3. CASE q.ok # Len(u)
        <5>1. Failed(failed)
          BY <3>11, <4>3 DEF Failed, ParseRc
        <5> QED
          BY <4>1, <5>1 DEF Honest
      <4> QED
        BY <4>2, <4>3
    <3>12. CASE ~Good(r) /\ ~Missing(r) /\ ~Failed(r)
      <4>1. state[m + 1].rc = q
        BY <2>4, <2>6, <3>12
      <4> QED
        BY <2>3, <4>1
    <3> QED
      BY <3>9, <3>10, <3>11, <3>12
  <2> QED
    BY <2>5, <2>6
<1>8. 0 .. K \subseteq T
  <2> HIDE DEF T
  <2> QED
    BY <1>2, <1>6, <1>7, Induction
<1>9. Honest(state[K].rc, w)
  BY <1>2, <1>8
<1>10. ParseRepetition(P, g, u, seen) = state[K].rc
  BY <1>3 DEF RepeatRun, ParseRepetition, K
<1> QED
  BY <1>9, <1>10 DEF u, w

\* What has no candidates has none to be continued.
LEMMA NoForks ==
  ASSUME NEW r, r.cands = <<>>, NEW rest, NEW depth, NEW seen, NEW first
  PROVE  Forks(r, rest, depth, seen, first) = <<>>
<1>1. DOMAIN r.cands = {}
  OBVIOUS
<1>2. FlattenSeq(<<>>) = <<>>
  BY DEF FlattenSeq
<1>3. \A f : f = [k \in {} |-> f[k]] => f = <<>>
  OBVIOUS
<1> QED
  BY <1>1, <1>2 DEF Forks

\* What a child holds out is a part of w, and so is, behind each of its ends, what
\* the children behind it hold out.
HonestBehind(rest, V, E, child, t, i, depth, seen, main, w) ==
  /\ V[Spot(child, t, i, seen)] => w
  /\ \A j \in E[Spot(child, t, i, seen)] : j \in 0 .. Len(t) =>
       LET p == After(child, t, Place(i, seen), main, j)
       IN  p.seen \in Seen => Honest(rest[Rest(From(t, j), depth, p.seen, main)], w)

\* The prospects of a child, and of those behind it.
LEMMA ChildOfConcatenationHonest ==
  ASSUME NEW n, NEW P \in Parsers(n), NEW E, Agree(n, P, E), NEW V, Ahead(n, P, V), NEW child \in Elements(n),
         NEW rest, NEW t \in Texts, NEW i \in 0 .. Len(t), NEW depth \in {0, 1}, NEW seen \in Seen,
         NEW main \in BOOLEAN, NEW first, NEW w,
         HonestBehind(rest, V, E, child, t, i, depth, seen, main, w)
  PROVE  Honest(ParseChild(P, child, rest, From(t, i), depth, seen, main, first), w)
<1> DEFINE u     == From(t, i)
           r     == P[Call(child, u, 1, seen)]
           known == IF main /\ child.name \in Keys THEN [seen EXCEPT ![child.name] = r.raw] ELSE seen
           s     == rest[Rest(From(u, r.len), depth, known, main)]
           cands == Forks(r, rest, depth, seen, first)
           more  == Prefixed(r.raw, s.cands)
           raw   == r.raw \o s.raw
           ok    == r.ok + s.ok
           len   == r.len + s.len
           q     == ParseChild(P, child, rest, u, depth, seen, main, first)
<1>1. q = CASE Good(r)    -> ParseRc(s.type, ok, len, cands \o more, raw)
            [] Missing(r) -> ParseRc(r.type, r.ok, r.len, cands, r.raw)
            [] OTHER      -> ParseRc(r.type, r.ok, r.len, cands, <<>>)
  BY DEF ParseChild
<1>2. u \in Texts /\ Len(u) = Len(t) - i /\ Len(t) \in Nat /\ i \in Nat
  BY FromIs DEF Texts
<1>3. r \in Faithful(u) /\ Sound(r, t, i, E[Spot(child, t, i, seen)]) /\ Honest(r, V[Spot(child, t, i, seen)])
  <2>1. r \in Faithful(u)
    BY <1>2, ChildFaithful
  <2>2. Sound(r, t, i, E[Spot(child, t, i, seen)])
    BY DEF Agree
  <2>3. Honest(r, V[Spot(child, t, i, seen)])
    BY DEF Ahead
  <2> QED
    BY <2>1, <2>2, <2>3
<1>4. r.cands = <<>> => cands = <<>>
  BY NoForks
<1>5. s.cands = <<>> => more = <<>>
  BY DEF Prefixed
<1>6. CASE w
  BY <1>6 DEF Honest
<1>7. V[Spot(child, t, i, seen)] => w
  BY DEF HonestBehind
<1> HIDE DEF q, r, s, cands, more, raw, len, ok
<1>8. CASE ~w /\ Good(r)
  <2> DEFINE j == i + r.ok
  <2>1. r.ok \in 0 .. Len(t) - i /\ j \in E[Spot(child, t, i, seen)]
    BY <1>3, <1>8 DEF Sound
  <2>2. j \in 0 .. Len(t) /\ From(u, r.ok) = From(t, j) /\ SubSeq(u, 1, r.ok) = SubSeq(t, i + 1, j)
    BY <2>1, Further DEF u
  <2>3. r.ok = r.len /\ r.raw = SubSeq(u, 1, r.ok) /\ r.raw \in Texts
    <3> HIDE DEF u
    <3> QED
      BY <1>2, <1>3, <1>8, FaithfulIs
  <2>4. After(child, t, Place(i, seen), main, j).seen = known
    BY <2>2, <2>3 DEF After, Place
  <2>5. known \in Seen
    BY <2>3 DEF Seen
  <2> DEFINE v == rest[Rest(From(t, j), depth, known, main)]
  <2>6. s = v
    BY <2>2, <2>3 DEF s
  <2>7. Honest(v, w)
    <3> DEFINE p == After(child, t, Place(i, seen), main, j)
    <3> HIDE DEF j
    <3>1. p.seen \in Seen => Honest(rest[Rest(From(t, j), depth, p.seen, main)], w)
      BY <2>1, <2>2 DEF HonestBehind
    <3>2. p.seen = known
      BY <2>4
    <3> DEFINE x == rest[Rest(From(t, j), depth, p.seen, main)]
    <3> HIDE DEF known, p
    <3>3. x = v
      BY <3>2
    <3>4. Honest(x, w)
      BY <2>5, <3>1, <3>2
    <3> HIDE DEF v, x
    <3> QED
      BY <3>3, <3>4
  <2> HIDE DEF v
  <2>8. Honest(s, w)
    BY <2>6, <2>7
  <2>9. q = ParseRc(s.type, ok, len, cands \o more, raw)
    <3>1. ~Missing(r)
      BY <1>8 DEF Good, Missing
    <3> QED
      BY <1>1, <1>8, <3>1
  <2>10. q.type = s.type /\ q.cands = cands \o more
    BY <2>9 DEF ParseRc
  <2>11. r.cands = <<>>
    <3>1. ~Failed(r) /\ ~V[Spot(child, t, i, seen)]
      BY <1>7, <1>8 DEF Good, Failed
    <3> QED
      BY <1>3, <3>1 DEF Honest
  <2>12. CASE Failed(s)
    <3>1. Failed(q)
      BY <2>10, <2>12 DEF Failed
    <3> QED
      BY <3>1 DEF Honest, q, u
  <2>13. CASE ~Failed(s)
    <3>1. ~Missing(s) /\ s.cands = <<>>
      BY <1>8, <2>8, <2>13 DEF Honest
    <3>2. cands = <<>> /\ more = <<>>
      BY <1>4, <1>5, <2>11, <3>1
    <3>3. cands \o more = <<>>
      BY <3>2
    <3>4. ~Missing(q) /\ q.cands = <<>>
      BY <2>10, <3>1, <3>3 DEF Missing
    <3> QED
      BY <3>4 DEF Honest, q, u
  <2> QED
    BY <2>12, <2>13
<1>9. CASE ~w /\ ~Good(r)
  <2>1. q.type = r.type /\ q.cands = cands
    <3>1. q = ParseRc(r.type, r.ok, r.len, cands, r.raw) \/ q = ParseRc(r.type, r.ok, r.len, cands, <<>>)
      BY <1>1, <1>9
    <3> QED
      BY <3>1 DEF ParseRc
  <2>2. CASE Failed(r)
    <3>1. Failed(q)
      BY <2>1, <2>2 DEF Failed
    <3> QED
      BY <3>1 DEF Honest, q, u
  <2>3. CASE ~Failed(r)
    <3>1. ~Missing(r) /\ r.cands = <<>>
      BY <1>3, <1>7, <1>9, <2>3 DEF Honest
    <3>2. ~Missing(q) /\ q.cands = <<>>
      BY <1>4, <2>1, <3>1 DEF Missing
    <3> QED
      BY <3>2 DEF Honest, q, u
  <2> QED
    BY <2>2, <2>3
<1> QED
  BY <1>6, <1>8, <1>9

\* Each child of a concatenation is parsed where one of its places is.
LEMMA ConcatenationHonest ==
  ASSUME NEW n, NEW P \in Parsers(n), NEW E, Agree(n, P, E), NEW V, Ahead(n, P, V), NEW g, g.kind = "cat",
         ChildrenIn(g, n), NEW t \in Texts, NEW i \in 0 .. Len(t), NEW depth \in {0, 1}, NEW seen \in Seen,
         NEW main \in BOOLEAN
  PROVE  Honest(ParseConcatenation(P, g, From(t, i), depth, seen, main), ViableOf(V, E, g, t, i, seen, main))
<1> DEFINE N == Len(g.children)
           w == ViableOf(V, E, g, t, i, seen, main)
           at(k) == Places(E, g, t, i, seen, main, k)
           R(last, k, j, known) == last[k][Rest(From(t, j), depth, known, main)]
<1>1. N \in Nat /\ N \in 0 .. N /\ DOMAIN g.children = 1 .. N /\ \A k \in 1 .. N : g.children[k] \in Elements(n)
  BY DEF ChildrenIn
<1>2. PICK last : ChildrenRun(P, g, n, N, last)
  BY <1>1, LastChildrenRun
<1>3. PICK places : PlacesRun(E, g, t, i, seen, main, N, places)
  BY <1>1, PlacesIs
<1>4. \A k \in 0 .. N : at(k) = places[k]
  BY <1>3 DEF PlacesRun
<1>5. ASSUME NEW k \in 1 .. N, NEW p \in at(k - 1), V[Spot(g.children[k], t, p.at, p.seen)] PROVE w
  <2> DEFINE q == [child |-> g.children[k], at |-> p.at, seen |-> p.seen]
             S(m) == {[child |-> g.children[m], at |-> x.at, seen |-> x.seen] : x \in at(m - 1)}
             D == DOMAIN g.children
  <2>1. q \in S(k) /\ k \in D
    BY <1>1
  <2>2. Starts(E, g, t, i, seen, main) = UNION {S(m) : m \in D}
    BY DEF Starts
  <2>3. q.child = g.children[k] /\ q.at = p.at /\ q.seen = p.seen
    OBVIOUS
  <2> HIDE DEF q, S, D
  <2>4. q \in Starts(E, g, t, i, seen, main)
    BY <2>1, <2>2
  <2>5. V[Spot(q.child, t, q.at, q.seen)]
    BY <1>5, <2>3
  <2> QED
    BY <2>4, <2>5 DEF ViableOf
<1> HIDE DEF w, N, at
<1> DEFINE T == {k \in 0 .. N : \A j \in 0 .. Len(t), known \in Seen :
                   Place(j, known) \in places[N - k] => Honest(R(last, k, j, known), w)}
<1>6. 0 \in T
  <2> SUFFICES ASSUME NEW j \in 0 .. Len(t), NEW known \in Seen PROVE Honest(R(last, 0, j, known), w)
    BY <1>1
  <2>1. From(t, j) \in Texts
    BY FromIs
  <2>2. Rest(From(t, j), depth, known, main) \in Rests
    BY <2>1 DEF Rest, Rests
  <2>3. R(last, 0, j, known) = Start
    BY <1>2, <2>2 DEF ChildrenRun
  <2> HIDE DEF R
  <2>4. Honest(Start, w)
    BY ConstantsHonest
  <2> QED
    BY <2>3, <2>4
<1>7. ASSUME NEW k \in 0 .. N - 1, k \in T PROVE k + 1 \in T
  <2>1. /\ k + 1 \in 1 .. N /\ k + 1 \in 0 .. N /\ k \in 0 .. N /\ (k + 1) - 1 = k /\ N - k \in 1 .. N
        /\ N - (k + 1) = (N - k) - 1 /\ N - (k + 1) + 1 = N - k /\ (N - k) - 1 \in 0 .. N
    BY <1>1
  <2> SUFFICES ASSUME NEW j \in 0 .. Len(t), NEW known \in Seen, Place(j, known) \in places[(N - k) - 1]
               PROVE  Honest(R(last, k + 1, j, known), w)
    BY <2>1
  <2> DEFINE u == From(t, j)
             it == g.children[N - k]
             first == k + 1 = N
             rest == last[k]
  <2>2. u \in Texts
    BY FromIs
  <2>3. Rest(u, depth, known, main) \in Rests
    BY <2>2 DEF Rest, Rests
  <2>4. R(last, k + 1, j, known) = ParseChild(P, it, rest, u, depth, known, main, first)
    <3> DEFINE c == Rest(u, depth, known, main)
    <3>1. last[k + 1] = [x \in Rests |-> ParseChild(P, it, rest, x.t, x.depth, x.seen, x.main, first)]
      BY <1>2, <2>1 DEF ChildrenRun, N
    <3>2. last[k + 1][c] = ParseChild(P, it, rest, c.t, c.depth, c.seen, c.main, first)
      BY <2>3, <3>1
    <3>3. c.t = u /\ c.depth = depth /\ c.seen = known /\ c.main = main
      BY DEF Rest
    <3> HIDE DEF it, rest, u, first
    <3> QED
      BY <3>2, <3>3 DEF u
  <2>5. it \in Elements(n)
    BY <1>1, <2>1
  <2>6. V[Spot(it, t, j, known)] => w
    <3> DEFINE p == Place(j, known)
    <3>1. p.at = j /\ p.seen = known
      BY DEF Place
    <3>2. p \in at((N - k) - 1)
      BY <1>4, <2>1
    <3> HIDE DEF p
    <3> QED
      BY <1>5, <2>1, <3>1, <3>2
  <2>7. ASSUME NEW e \in E[Spot(it, t, j, known)], e \in 0 .. Len(t)
        PROVE  LET p == After(it, t, Place(j, known), main, e)
               IN  p.seen \in Seen => Honest(rest[Rest(From(t, e), depth, p.seen, main)], w)
    <3> DEFINE p == After(it, t, Place(j, known), main, e)
               s == p.seen
    <3>1. Place(j, known).at = j /\ Place(j, known).seen = known
      BY DEF Place
    <3>2. p \in places[N - k]
      BY <1>3, <2>1, <3>1 DEF PlacesRun
    <3>3. p = Place(e, s)
      BY DEF After, Place
    <3> HIDE DEF p, s
    <3> SUFFICES ASSUME s \in Seen PROVE Honest(rest[Rest(From(t, e), depth, s, main)], w)
      BY DEF p, s
    <3>4. Honest(R(last, k, e, s), w)
      BY <1>7, <2>7, <3>2, <3>3
    <3> QED
      BY <3>4
  <2> HIDE DEF R, it, first, rest
  <2>8. HonestBehind(rest, V, E, it, t, j, depth, known, main, w)
    BY <2>6, <2>7 DEF HonestBehind
  <2>9. Honest(ParseChild(P, it, rest, From(t, j), depth, known, main, first), w)
    BY <2>5, <2>8, ChildOfConcatenationHonest
  <2> QED
    BY <2>4, <2>9
<1>8. 0 .. N \subseteq T
  <2> HIDE DEF T
  <2> QED
    BY <1>1, <1>6, <1>7, Induction
<1>9. Honest(R(last, N, i, seen), w)
  <2>1. Place(i, seen) \in places[N - N] /\ N \in T
    BY <1>1, <1>3, <1>8 DEF PlacesRun
  <2> HIDE DEF R
  <2> QED
    BY <2>1
<1>10. CASE g.children = <<>>
  <2>1. ParseConcatenation(P, g, From(t, i), depth, seen, main) = Fail
    BY <1>10 DEF ParseConcatenation
  <2>2. Honest(Fail, w)
    BY ConstantsHonest
  <2> QED
    BY <2>1, <2>2 DEF w
<1>11. CASE g.children # <<>>
  <2>1. ParseConcatenation(P, g, From(t, i), depth, seen, main) = R(last, N, i, seen)
    BY <1>2, <1>11 DEF ParseConcatenation, ChildrenRun, N
  <2> HIDE DEF R
  <2> QED
    BY <1>9, <2>1 DEF w
<1> QED
  BY <1>10, <1>11

LEMMA ElementHonest ==
  ASSUME NEW n \in 1 .. Height, NEW P \in Parsers(n - 1), SameFailure(n - 1, P),
         NEW E, Agree(n - 1, P, E), NEW V, Ahead(n - 1, P, V),
         NEW g \in Elements(n), NEW t \in Texts, NEW i \in 0 .. Len(t), NEW depth \in {0, 1}, NEW seen \in Seen
  PROVE  Honest(ParseElement(P, g, From(t, i), depth, seen), ViableOf(V, E, g, t, i, seen, FALSE))
<1> DEFINE k == n - 1
           main == FALSE
           u == From(t, i)
           r == ParseElement(P, g, u, depth, seen)
           w == ViableOf(V, E, g, t, i, seen, main)
<1>1. WellFormed(g, k) /\ (g.kind = "opt" => g.child \in taking[k])
  BY GrammarAssumption, OptionAssumption
<1>2. taking[k] \subseteq Elements(k)
  <2>1. k \in 0 .. Height
    BY GrammarAssumption
  <2> HIDE DEF k
  <2> QED
    BY <2>1, TakingInElements
<1>3. P \in Parsers(k) /\ SameFailure(k, P) /\ Agree(k, P, E) /\ Ahead(k, P, V) /\ main \in BOOLEAN
  OBVIOUS
<1> HIDE DEF k, main
<1> SUFFICES Honest(r, w)
  BY DEF main
<1>4. CASE g.kind = "fix"
  <2>1. g.s \in Texts /\ r = ParseFixedString(g.s, u)
    BY <1>1, <1>4 DEF WellFormed, ParseElement
  <2> HIDE DEF r
  <2> QED
    BY <1>4, <2>1, FixedStringHonest
<1>5. CASE g.kind = "rex"
  <2>1. g.least \in Nat /\ r = ParseRegEx(g.class, g.least, u)
    BY <1>1, <1>5 DEF WellFormed, ParseElement
  <2> HIDE DEF r
  <2> QED
    BY <1>5, <2>1, RegExHonest
<1>6. CASE g.kind = "ws"
  <2>1. r = ParseWhiteSpace(u)
    BY <1>6 DEF ParseElement
  <2> HIDE DEF r
  <2> QED
    BY <1>6, <2>1, WhiteSpaceHonest
<1>7. CASE g.kind = "esc"
  <2> DEFINE s == SubSeq(u, 1, EscapedLength(g.stops, g.escape, u))
  <2>1. r = Match(s)
    BY <1>7 DEF ParseElement, ParseEscapedString
  <2> HIDE DEF r, s, w
  <2>2. Honest(Match(s), w)
    BY ConstantsHonest
  <2> QED
    BY <2>1, <2>2
<1>8. CASE g.kind = "opt"
  <2>1. g.child \in taking[k] /\ g.child \in Elements(k) /\ r = ParseOptional(P, g, u, seen)
    BY <1>1, <1>2, <1>8 DEF ParseElement
  <2> HIDE DEF r
  <2> QED
    BY <1>3, <1>8, <2>1, OptionalHonest
<1>9. CASE g.kind = "rep"
  <2>1. g.child \in taking[k] /\ g.child \in Elements(k) /\ r = ParseRepetition(P, g, u, seen)
    BY <1>1, <1>2, <1>9 DEF WellFormed, ParseElement
  <2> HIDE DEF r
  <2> QED
    BY <1>3, <1>9, <2>1, RepetitionHonest
<1>10. CASE g.kind = "alt"
  <2>1. ChildrenIn(g, k) /\ r = ParseAlternation(P, g, u, depth, seen)
    BY <1>1, <1>10 DEF WellFormed, ParseElement, ChildrenIn
  <2> HIDE DEF r
  <2> QED
    BY <1>3, <1>10, <2>1, AlternationHonest
<1>11. CASE g.kind = "cat"
  <2>1. ChildrenIn(g, k) /\ r = ParseConcatenation(P, g, u, depth, seen, main)
    BY <1>1, <1>11 DEF WellFormed, ParseElement, ChildrenIn, main
  <2> HIDE DEF r
  <2> QED
    BY <1>3, <1>11, <2>1, ConcatenationHonest
<1>12. CASE g.kind = "inj"
  <2> DEFINE h == GrammarOf(g, seen)
  <2>1. /\ r = IF Injected(g, seen) THEN P[Call(h, u, depth, seen)] ELSE Fail
        /\ \A x \in DOMAIN g.by : g.by[x] \in Elements(k)
    BY <1>1, <1>12 DEF WellFormed, ParseElement
  <2>2. Injected(g, seen) /\ V[Spot(h, t, i, seen)] => w
    BY <1>12 DEF ViableOf
  <2>3. CASE Injected(g, seen)
    <3>1. h \in Elements(k)
      BY <2>1, <2>3 DEF Injected, GrammarOf
    <3> HIDE DEF h
    <3>2. Honest(P[Call(h, u, depth, seen)], V[Spot(h, t, i, seen)])
      BY <1>3, <3>1 DEF Ahead
    <3> HIDE DEF r, w
    <3> QED
      BY <2>1, <2>2, <2>3, <3>2 DEF Honest
  <2>4. CASE ~Injected(g, seen)
    <3>1. Honest(Fail, w)
      BY ConstantsHonest
    <3> HIDE DEF r, w
    <3> QED
      BY <2>1, <2>4, <3>1
  <2> QED
    BY <2>3, <2>4
<1> QED
  BY <1>1, <1>4, <1>5, <1>6, <1>7, <1>8, <1>9, <1>10, <1>11, <1>12 DEF WellFormed

\* What can be continued at each height.
LEMMA ViableIs ==
  \A n \in 1 .. Height :
    viable[n] = [s \in Spots(n) |-> ViableOf(viable[n - 1], ends[n - 1], s.g, s.t, s.i, s.seen, FALSE)]
<1> DEFINE N == Height
           value(n, V) == [s \in Spots(n) |-> ViableOf(V, ends[n - 1], s.g, s.t, s.i, s.seen, FALSE)]
           body(h, n) == [k \in 0 .. n |-> value(k, h[k - 1])]
           b == value(0, viable)
<1>1. N \in Nat
  BY GrammarAssumption
<1>2. viable = CHOOSE h : h = body(h, N)
  BY DEF viable
<1>3. Spots(0) = {}
  BY DEF Spots, Elements
<1>4. \A V : value(0, V) = b
  BY <1>3
<1> HIDE DEF N, value, b
<1> DEFINE T == {n \in 0 .. N : \E h : h = body(h, n)}
<1>5. 0 \in T
  <2> DEFINE h == [k \in 0 .. 0 |-> b]
  <2>1. h = body(h, 0)
    <3>1. \A k \in 0 .. 0 : value(k, h[k - 1]) = b
      BY <1>4
    <3> QED
      BY <3>1
  <2> HIDE DEF h, body
  <2> QED
    BY <1>1, <2>1
<1>6. ASSUME NEW n \in 0 .. N - 1, n \in T PROVE n + 1 \in T
  <2>1. PICK h : h = body(h, n)
    BY <1>6
  <2> DEFINE f == [k \in 0 .. n + 1 |-> IF k = n + 1 THEN value(n + 1, h[n]) ELSE h[k]]
  <2>2. n \in Nat /\ n + 1 \in 0 .. N
    BY <1>1
  <2>3. ASSUME NEW k \in 0 .. n + 1 PROVE f[k] = value(k, f[k - 1])
    <3>1. CASE k = n + 1
      <4>1. k - 1 = n /\ n \in 0 .. n + 1 /\ n # n + 1
        BY <2>2, <3>1
      <4>2. f[k] = value(k, h[n]) /\ f[n] = h[n]
        BY <3>1, <4>1
      <4> HIDE DEF f
      <4> QED
        BY <4>1, <4>2
    <3>2. CASE k # n + 1
      <4>1. k \in 0 .. n
        BY <2>2, <3>2
      <4>2. h[k] = value(k, h[k - 1])
        BY <2>1, <4>1
      <4>3. f[k] = h[k]
        BY <3>2
      <4>4. CASE k = 0
        BY <1>4, <4>2, <4>3, <4>4
      <4>5. CASE k # 0
        <5>1. k - 1 \in 0 .. n + 1 /\ k - 1 # n + 1
          BY <2>2, <4>1, <4>5
        <5>2. f[k - 1] = h[k - 1]
          BY <5>1
        <5> HIDE DEF f
        <5> QED
          BY <4>2, <4>3, <5>2
      <4> QED
        BY <4>4, <4>5
    <3> QED
      BY <3>1, <3>2
  <2>4. f = body(f, n + 1)
    <3>1. f = [k \in 0 .. n + 1 |-> f[k]]
      OBVIOUS
    <3> HIDE DEF f
    <3> QED
      BY <2>3, <3>1
  <2> HIDE DEF f, body
  <2> QED
    BY <2>2, <2>4
<1>7. N \in T
  <2> HIDE DEF T
  <2>1. 0 .. N \subseteq T
    BY <1>1, <1>5, <1>6, Induction
  <2>2. N \in 0 .. N
    BY <1>1
  <2> QED
    BY <2>1, <2>2
<1>8. viable = body(viable, N)
  <2>1. \E h : h = body(h, N)
    BY <1>7
  <2> HIDE DEF body
  <2> QED
    BY <1>2, <2>1
<1>9. \A k \in 0 .. N : viable[k] = value(k, viable[k - 1])
  BY <1>8
<1>10. \A k \in 1 .. N : viable[k] = value(k, viable[k - 1])
  BY <1>1, <1>9
<1> QED
  BY <1>10, Zenon DEF value, N

\* No element of any height raises hopes in vain.
LEMMA ParseHonest == \A n \in 0 .. Height : Ahead(n, parse[n], viable[n])
<1> DEFINE T == {n \in 0 .. Height : Ahead(n, parse[n], viable[n])}
<1>1. Height \in Nat
  BY GrammarAssumption
<1>2. 0 \in T
  BY <1>1 DEF Ahead, Elements
<1>3. ASSUME NEW k \in 0 .. Height - 1, k \in T PROVE k + 1 \in T
  <2> DEFINE n == k + 1
             P == parse[k]
             E == ends[k]
             V == viable[k]
  <2>1. n \in 1 .. Height /\ n \in 0 .. Height /\ n - 1 = k /\ k \in 0 .. Height
    BY <1>1
  <2>2. P \in Parsers(n - 1) /\ SameFailure(n - 1, P) /\ Agree(n - 1, P, E) /\ Ahead(n - 1, P, V)
    BY <1>3, <2>1, ParseFaithful, ParseFailure, ParseSound
  <2>3. /\ parse[n] = [c \in Calls(n) |-> ParseElement(P, c.g, c.t, c.depth, c.seen)]
        /\ viable[n] = [s \in Spots(n) |-> ViableOf(V, E, s.g, s.t, s.i, s.seen, FALSE)]
    BY <2>1, ParseFaithful, ViableIs
  <2> HIDE DEF n, P, E, V
  <2> SUFFICES ASSUME NEW g \in Elements(n), NEW t \in Texts, NEW depth \in {0, 1}, NEW seen \in Seen,
                      NEW i \in 0 .. Len(t)
               PROVE  Honest(parse[n][Call(g, From(t, i), depth, seen)], viable[n][Spot(g, t, i, seen)])
    BY <2>1 DEF Ahead, n
  <2> DEFINE c == Call(g, From(t, i), depth, seen)
             s == Spot(g, t, i, seen)
  <2>4. parse[n][c] = ParseElement(P, g, From(t, i), depth, seen)
    <3>1. From(t, i) \in Texts
      BY FromIs
    <3>2. c \in Calls(n) /\ c.g = g /\ c.t = From(t, i) /\ c.depth = depth /\ c.seen = seen
      BY <3>1 DEF Call, Calls
    <3> HIDE DEF c
    <3> QED
      BY <2>3, <3>2
  <2>5. viable[n][s] = ViableOf(V, E, g, t, i, seen, FALSE)
    <3>1. s \in Spots(n) /\ s.g = g /\ s.t = t /\ s.i = i /\ s.seen = seen
      BY DEF Spot, Spots, Texts
    <3> HIDE DEF s
    <3>2. viable[n][s] = ViableOf(V, E, s.g, s.t, s.i, s.seen, FALSE)
      BY <2>3, <3>1
    <3> QED
      BY <3>1, <3>2
  <2> HIDE DEF c, s
  <2>6. Honest(ParseElement(P, g, From(t, i), depth, seen), ViableOf(V, E, g, t, i, seen, FALSE))
    BY <2>1, <2>2, ElementHonest
  <2> QED
    BY <2>4, <2>5, <2>6 DEF c, s
<1>4. 0 .. Height \subseteq T
  <2> HIDE DEF T
  <2> QED
    BY <1>1, <1>2, <1>3, Induction
<1> QED
  BY <1>4

\* What main() calls incomplete can be completed.
LEMMA ParseMainHonest ==
  ASSUME NEW g, g.kind = "cat", ChildrenIn(g, Height - 1), NEW t \in Texts
  PROVE  Honest(ParseMain(g, t), CanContinue(g, t))
<1> DEFINE n == Height - 1
           P == parse[n]
           E == ends[n]
           V == viable[n]
           main == TRUE
<1>1. n \in 0 .. Height
  BY GrammarAssumption
<1>2. P \in Parsers(n) /\ Agree(n, P, E) /\ Ahead(n, P, V) /\ ChildrenIn(g, n) /\ main \in BOOLEAN
  BY <1>1, ParseFaithful, ParseSound, ParseHonest
<1>3. Nothing \in Seen
  BY EmptyText DEF Nothing, Seen
<1>4. 0 \in 0 .. Len(t) /\ From(t, 0) = t
  BY DEF From, Texts
<1>5. ParseMain(g, t) = ParseConcatenation(P, g, t, 1, Nothing, main)
  BY DEF ParseMain
<1>6. CanContinue(g, t) = ViableOf(V, E, g, t, 0, Nothing, main)
  BY DEF CanContinue
<1> HIDE DEF n, P, E, V, main
<1>7. Honest(ParseConcatenation(P, g, From(t, 0), 1, Nothing, main), ViableOf(V, E, g, t, 0, Nothing, main))
  BY <1>2, <1>3, <1>4, 1 \in {0, 1}, ConcatenationHonest
<1> QED
  BY <1>4, <1>5, <1>6, <1>7

----------------------------------------------------------------------------
(* What the shells make of a candidate.                                    *)

IsLast(chars, t, n, k) ==
  /\ k \in 0 .. n
  /\ k > 0 => k <= Len(t) /\ t[k] \in chars
  /\ \A i \in k + 1 .. n : i <= Len(t) => t[i] \notin chars

LEMMA LastOfIs ==
  ASSUME NEW chars, NEW t \in Texts, NEW n \in Nat
  PROVE  IsLast(chars, t, n, LastOf(chars, t, n)) /\ \A k : IsLast(chars, t, n, k) => k = LastOf(chars, t, n)
<1> DEFINE S == {m \in 0 .. n : n - m > 0 => n - m <= Len(t) /\ t[n - m] \in chars}
<1>1. Len(t) \in Nat
  BY DEF Texts
<1>2. n \in S
  OBVIOUS
<1>3. PICK m \in 0 .. n : m \in S /\ \A j \in 0 .. m - 1 : j \notin S
  <2> HIDE DEF S
  <2> QED
    BY <1>2, SmallestUpTo
<1>4. IsLast(chars, t, n, n - m)
  <2>1. ASSUME NEW i \in (n - m) + 1 .. n, i <= Len(t) PROVE t[i] \notin chars
    <3>1. n - i \in 0 .. m - 1 /\ n - i \in 0 .. n /\ n - (n - i) = i
      BY <1>3
    <3> QED
      BY <1>3, <2>1, <3>1
  <2>2. n - m \in 0 .. n /\ (n - m > 0 => n - m <= Len(t) /\ t[n - m] \in chars)
    BY <1>3
  <2> QED
    BY <2>1, <2>2 DEF IsLast
<1>5. LastOf(chars, t, n) = CHOOSE k \in 0 .. n : IsLast(chars, t, n, k)
  BY DEF LastOf, IsLast
<1>6. n - m \in 0 .. n
  BY <1>3
<1>7. IsLast(chars, t, n, LastOf(chars, t, n))
  BY <1>4, <1>5, <1>6
<1>8. ASSUME NEW k, NEW j, IsLast(chars, t, n, k), IsLast(chars, t, n, j) PROVE ~(k < j)
  <2> SUFFICES ASSUME k < j PROVE FALSE
    OBVIOUS
  <2>1. k \in 0 .. n /\ j \in 0 .. n
    BY <1>8 DEF IsLast
  <2>2. j \in k + 1 .. n /\ j > 0
    BY <2>1
  <2> QED
    BY <1>8, <2>2 DEF IsLast
<1>9. \A k : IsLast(chars, t, n, k) => k \in Nat
  BY DEF IsLast
<1>10. ASSUME NEW k, IsLast(chars, t, n, k) PROVE k = LastOf(chars, t, n)
  <2> DEFINE j == LastOf(chars, t, n)
  <2>1. k \in Nat /\ j \in Nat
    BY <1>7, <1>9, <1>10
  <2>2. ~(k < j) /\ ~(j < k)
    BY <1>7, <1>8, <1>10
  <2> HIDE DEF j
  <2>3. k = j
    BY <2>1, <2>2
  <2> QED
    BY <2>3 DEF j
<1> QED
  BY <1>7, <1>10

\* The word at the cursor begins at the same place in the text and in a candidate
\* that continues it.
LEMMA BashStartIs ==
  ASSUME NEW t \in Texts, NEW raw \in Texts, IsPrefix(t, raw), Comma \notin Range(From(t, BashWord(t))),
         NEW d \in AtDelimiter(raw, Len(t))
  PROVE  BashStart(raw, Len(t), d) = BashWord(t)
<1> DEFINE n == Len(t)
           b == BashWord(t)
           all == WordBreaks \cup {Comma}
<1>1. n = Len(t) /\ n \in Nat /\ Len(raw) \in Nat /\ n <= Len(raw) /\ \A i \in 1 .. n : t[i] = raw[i]
  BY PrefixIs DEF Texts
<1>2. IsLast(WordBreaks, t, n, b)
  BY <1>1, LastOfIs DEF BashWord
<1>3. b \in 0 .. n
  BY <1>2 DEF IsLast
<1>4. \A i \in b + 1 .. n : t[i] # Comma
  <2> TAKE i \in b + 1 .. n
  <2> DEFINE w == From(t, b)
  <2>1. w \in Texts /\ Len(w) = n - b /\ \A j \in 1 .. n - b : w[j] = t[b + j]
    BY <1>3, FromIs
  <2>2. i - b \in 1 .. n - b /\ b + (i - b) = i
    BY <1>1, <1>3
  <2>3. w[i - b] = t[i] /\ DOMAIN w = 1 .. n - b
    BY <2>1, <2>2 DEF Texts
  <2>4. Comma \notin {w[j] : j \in DOMAIN w}
    BY DEF Range
  <2> HIDE DEF w
  <2> QED
    BY <2>2, <2>3, <2>4
<1> HIDE DEF b, n, all
<1>5. n < Len(raw) => AtDelimiter(raw, n) = {raw[n + 1] \in all}
  <2> SUFFICES ASSUME n < Len(raw) PROVE AtDelimiter(raw, n) = {raw[n + 1] \in all}
    OBVIOUS
  <2>1. ~(n = Len(raw)) /\ ~(n > Len(raw))
    BY <1>1
  <2> QED
    BY <2>1, Zenon DEF AtDelimiter, all
<1>6. d \in AtDelimiter(raw, n)
  BY DEF n
<1>7. CASE n < Len(raw) /\ raw[n + 1] \in all
  <2> DEFINE x == raw[n + 1] \in all
  <2>1. d = TRUE
    <3>1. x = TRUE
      BY <1>7
    <3> HIDE DEF x
    <3>2. d \in {x}
      BY <1>7, <1>5, <1>6 DEF x
    <3> QED
      BY <3>1, <3>2
  <2>2. BashStart(raw, n, d) = LastOf(WordBreaks, raw, n)
    BY <2>1 DEF BashStart
  <2>3. IsLast(WordBreaks, raw, n, b)
    <3>1. b > 0 => b <= Len(raw) /\ raw[b] \in WordBreaks
      BY <1>1, <1>2, <1>3 DEF IsLast
    <3>2. \A i \in b + 1 .. n : raw[i] \notin WordBreaks
      BY <1>1, <1>2, <1>3 DEF IsLast
    <3> QED
      BY <1>3, <3>1, <3>2 DEF IsLast
  <2>4. b = LastOf(WordBreaks, raw, n)
    BY <1>1, <2>3, LastOfIs
  <2> QED
    BY <2>2, <2>4 DEF b, n
<1>8. CASE ~(n < Len(raw) /\ raw[n + 1] \in all)
  <2>1. d = FALSE
    <3>1. CASE n < Len(raw)
      <4> DEFINE x == raw[n + 1] \in all
      <4>1. x = FALSE
        BY <1>8, <3>1
      <4> HIDE DEF x
      <4>2. d \in {x}
        BY <1>5, <1>6, <3>1 DEF x
      <4> QED
        BY <4>1, <4>2
    <3>2. CASE ~(n < Len(raw))
      <4>1. n = Len(raw) /\ ~(n < Len(raw)) /\ ~(n > Len(raw))
        BY <1>1, <3>2
      <4>2. AtDelimiter(raw, n) = {FALSE}
        BY <4>1 DEF AtDelimiter
      <4> QED
        BY <1>6, <4>2
    <3> QED
      BY <3>1, <3>2
  <2>2. BashStart(raw, n, d) = LastOf(all, raw, n + 1)
    BY <2>1 DEF BashStart, all
  <2>3. IsLast(all, raw, n + 1, b)
    <3>1. b > 0 => b <= Len(raw) /\ raw[b] \in all
      BY <1>1, <1>2, <1>3 DEF IsLast, all
    <3>2. ASSUME NEW i \in b + 1 .. n + 1, i <= Len(raw) PROVE raw[i] \notin all
      <4>1. CASE i = n + 1
        BY <1>1, <1>8, <3>2, <4>1
      <4>2. CASE i # n + 1
        <5>1. i \in b + 1 .. n /\ i \in 1 .. n /\ i <= n
          BY <1>1, <1>3, <4>2
        <5>2. t[i] \notin WordBreaks /\ t[i] # Comma /\ t[i] = raw[i]
          BY <1>1, <1>2, <1>4, <5>1 DEF IsLast
        <5> QED
          BY <5>2 DEF all
      <4> QED
        BY <4>1, <4>2
    <3>3. b \in 0 .. n + 1
      BY <1>1, <1>3
    <3> QED
      BY <3>1, <3>2, <3>3 DEF IsLast
  <2>4. b = LastOf(all, raw, n + 1)
    BY <1>1, <2>3, LastOfIs
  <2> QED
    BY <2>2, <2>4 DEF b, n
<1> QED
  BY <1>7, <1>8

\* The length of a text without the blanks at its end.
IsTrimmed(t, n) ==
  /\ n \in 0 .. Len(t)
  /\ n > 0 => t[n] # Blank
  /\ \A i \in n + 1 .. Len(t) : t[i] = Blank

LEMMA TrimRightIs ==
  ASSUME NEW t \in Texts
  PROVE  /\ \E n : IsTrimmed(t, n) /\ TrimRight(t) = SubSeq(t, 1, n)
         /\ \A n : IsTrimmed(t, n) => TrimRight(t) = SubSeq(t, 1, n)
<1> DEFINE N == Len(t)
           S == {m \in 0 .. N : N - m > 0 => t[N - m] # Blank}
           Z == CHOOSE n \in 0 .. N : IsTrimmed(t, n)
<1>1. N \in Nat /\ N \in S
  BY DEF Texts
<1>2. PICK m \in 0 .. N : m \in S /\ \A j \in 0 .. m - 1 : j \notin S
  <2> HIDE DEF S
  <2> QED
    BY <1>1, SmallestUpTo
<1>3. IsTrimmed(t, N - m) /\ N - m \in 0 .. N
  <2>1. ASSUME NEW i \in (N - m) + 1 .. N PROVE t[i] = Blank
    <3>1. N - i \in 0 .. m - 1 /\ N - i \in 0 .. N /\ N - (N - i) = i /\ N - (N - i) > 0
      BY <1>1, <1>2
    <3>2. N - i \notin S
      BY <1>2, <3>1
    <3> QED
      BY <3>1, <3>2
  <2>2. N - m \in 0 .. N /\ (N - m > 0 => t[N - m] # Blank)
    BY <1>1, <1>2
  <2> QED
    BY <2>1, <2>2 DEF IsTrimmed
<1>4. TrimRight(t) = SubSeq(t, 1, Z)
  <2>1. \A n \in 0 .. N :
          IsTrimmed(t, n) <=> (n > 0 => t[n] # Blank) /\ \A i \in n + 1 .. Len(t) : t[i] = Blank
    BY DEF IsTrimmed
  <2>2. Z = CHOOSE n \in 0 .. N : (n > 0 => t[n] # Blank) /\ \A i \in n + 1 .. Len(t) : t[i] = Blank
    BY DEF IsTrimmed
  <2> QED
    BY <2>2 DEF TrimRight
<1>5. IsTrimmed(t, Z)
  BY <1>3
<1>6. ASSUME NEW k, NEW j, IsTrimmed(t, k), IsTrimmed(t, j) PROVE ~(k < j)
  <2> SUFFICES ASSUME k < j PROVE FALSE
    OBVIOUS
  <2>1. k \in 0 .. N /\ j \in 0 .. N
    BY <1>6 DEF IsTrimmed
  <2>2. j \in k + 1 .. N /\ j > 0
    BY <1>1, <2>1
  <2> QED
    BY <1>6, <2>2 DEF IsTrimmed
<1>7. ASSUME NEW k, IsTrimmed(t, k) PROVE k = Z
  <2>1. k \in 0 .. N /\ Z \in 0 .. N
    BY <1>5, <1>7 DEF IsTrimmed
  <2>2. ~(k < Z) /\ ~(Z < k)
    BY <1>5, <1>6, <1>7
  <2> HIDE DEF Z
  <2> QED
    BY <1>1, <2>1, <2>2
<1> HIDE DEF Z
<1> QED
  BY <1>4, <1>5, <1>7

LEMMA BashLineIs ==
  ASSUME NEW t \in Texts, NEW raw \in Texts, IsPrefix(t, raw), NEW b \in 0 .. Len(t)
  PROVE  SubSeq(t, 1, b) \o TrimRight(From(raw, b)) \in {TrimRight(raw), SubSeq(t, 1, b)}
<1> DEFINE u == SubSeq(t, 1, b)
           v == From(raw, b)
<1>1. Len(t) \in Nat /\ Len(raw) \in Nat /\ Len(t) <= Len(raw) /\ \A i \in 1 .. Len(t) : t[i] = raw[i]
  BY PrefixIs DEF Texts
<1>2. b \in 0 .. Len(raw) /\ b \in Nat
  BY <1>1
<1>3. u = SubSeq(raw, 1, b)
  BY <1>1 DEF Texts
<1>4. v \in Texts /\ Len(v) = Len(raw) - b /\ \A i \in 1 .. Len(raw) - b : v[i] = raw[b + i]
  BY <1>2, FromIs
<1> HIDE DEF v
<1>5. PICK n : IsTrimmed(v, n) /\ TrimRight(v) = SubSeq(v, 1, n)
  BY <1>4, TrimRightIs
<1>6. n \in 0 .. Len(raw) - b /\ n \in Nat
  BY <1>1, <1>2, <1>4, <1>5 DEF IsTrimmed
<1>7. CASE n = 0
  <2>1. TrimRight(v) = <<>>
    BY <1>4, <1>5, <1>7, NoText
  <2>2. u \in Texts
    BY BeginningIs
  <2>3. u \o <<>> = u
    BY <2>2 DEF Texts
  <2> QED
    BY <2>1, <2>3 DEF v
<1>8. CASE n # 0
  <2>1. u \o TrimRight(v) = SubSeq(raw, 1, b + n)
    BY <1>2, <1>3, <1>5, <1>6, Joined DEF v
  <2>2. IsTrimmed(raw, b + n)
    <3>1. b + n \in 0 .. Len(raw) /\ n > 0 /\ n \in 1 .. Len(raw) - b
      BY <1>1, <1>2, <1>6, <1>8
    <3>2. raw[b + n] # Blank
      BY <1>4, <1>5, <3>1 DEF IsTrimmed
    <3>3. ASSUME NEW i \in b + n + 1 .. Len(raw) PROVE raw[i] = Blank
      <4>1. i - b \in n + 1 .. Len(v) /\ b + (i - b) = i /\ i - b \in 1 .. Len(raw) - b
        BY <1>1, <1>2, <1>4, <1>6
      <4>2. v[i - b] = Blank
        BY <1>5, <4>1 DEF IsTrimmed
      <4> QED
        BY <1>4, <4>1, <4>2
    <3> QED
      BY <3>1, <3>2, <3>3 DEF IsTrimmed
  <2>3. TrimRight(raw) = SubSeq(raw, 1, b + n)
    BY <2>2, TrimRightIs
  <2> QED
    BY <2>1, <2>3 DEF v
<1> QED
  BY <1>7, <1>8

LEMMA BashKeepsIt ==
  ASSUME NEW raw \in Texts, text \in Texts, IsPrefix(text, raw)
  PROVE  BashKeeps(raw)
<1> DEFINE b == BashWord(text)
<1> SUFFICES ASSUME Comma \notin Range(From(text, b)), NEW d \in AtDelimiter(raw, Len(text))
             PROVE  BashLine(text, TrimRight(From(raw, BashStart(raw, Len(text), d))))
                      \in {TrimRight(raw), SubSeq(text, 1, b)}
  BY DEF BashKeeps, printBashCompletions
<1>1. BashStart(raw, Len(text), d) = b
  BY BashStartIs
<1>2. b \in 0 .. Len(text)
  BY LastOfIs, NoText DEF BashWord, IsLast
<1> HIDE DEF b
<1>3. BashLine(text, TrimRight(From(raw, b))) = SubSeq(text, 1, b) \o TrimRight(From(raw, b))
  BY DEF BashLine, b
<1> QED
  BY <1>1, <1>2, <1>3, BashLineIs

\* Behind the last blank of the text, a candidate goes on with the word at the
\* cursor.
LEMMA FishKeepsIt ==
  ASSUME NEW raw \in Texts, text \in Texts, IsPrefix(text, raw)
  PROVE  FishKeeps(raw)
<1> DEFINE t == text
           n == Len(t)
           N == Len(raw)
           f == FishWord(t)
           z == <<Blank>> \o raw
           rest == FromBlank(raw, t)
           p == Span({Blank}, rest)
           first == From(rest, p)
           class == Range(first) \ {Blank}
           q == Span(class, first)
           word == SubSeq(first, 1, q)
<1>1. n = Len(t) /\ n \in Nat /\ N = Len(raw) /\ N \in Nat /\ n <= N /\ \A i \in 1 .. n : t[i] = raw[i]
  BY PrefixIs DEF Texts
<1>2. IsLast({Blank}, t, n, f)
  BY <1>1, LastOfIs DEF FishWord
<1>3. f \in 0 .. n /\ f \in Nat /\ (f > 0 => t[f] = Blank) /\ \A i \in f + 1 .. n : t[i] # Blank
  BY <1>1, <1>2 DEF IsLast
<1>4. <<Blank>> \in Texts /\ Len(<<Blank>>) = 1 /\ <<Blank>>[1] = Blank
  BY GrammarAssumption DEF Texts
<1>5. z \in Texts /\ Len(z) = N + 1 /\ z[1] = Blank /\ \A i \in 1 .. N : z[1 + i] = raw[i]
  <2> DEFINE y == <<Blank>>
  <2>1. y \in Texts /\ Len(y) = 1 /\ y[1] = Blank
    BY <1>4
  <2> HIDE DEF y
  <2> DEFINE w == y \o raw
  <2>2. /\ w \in Texts /\ Len(w) = Len(y) + Len(raw)
        /\ \A i \in 1 .. Len(y) : w[i] = y[i]
        /\ \A i \in 1 .. Len(raw) : w[Len(y) + i] = raw[i]
    BY <2>1, JoinIs
  <2> HIDE DEF w, N
  <2>3. /\ w \in Texts /\ Len(w) = 1 + N /\ w[1] = y[1]
        /\ \A i \in 1 .. N : w[1 + i] = raw[i]
    BY <1>1, <2>1, <2>2
  <2>4. w \in Texts /\ Len(w) = N + 1 /\ w[1] = Blank /\ \A i \in 1 .. N : w[1 + i] = raw[i]
    BY <1>1, <2>1, <2>3
  <2> QED
    BY <2>4 DEF w, y, N
<1>6. rest = From(z, f) /\ f \in 0 .. Len(z)
  BY <1>1, <1>3, <1>5 DEF FromBlank
<1> HIDE DEF t, n, N, f, z, rest
<1>7. rest \in Texts /\ Len(rest) = N + 1 - f /\ \A i \in 1 .. N + 1 - f : rest[i] = z[f + i]
  <2>1. Len(z) - f = N + 1 - f
    <3>1. Len(z) = N + 1
      BY <1>5
    <3>2. N \in Nat /\ f \in Nat
      BY <1>1, <1>3
    <3> QED
      BY ONLY <3>1, <3>2
  <2>2. rest \in Texts /\ Len(rest) = Len(z) - f /\ \A i \in 1 .. Len(z) - f : rest[i] = z[f + i]
    BY <1>5, <1>6, FromIs
  <2> QED
    BY <2>1, <2>2
<1>8. p \in 0 .. Len(rest) /\ (p < Len(rest) => rest[p + 1] # Blank)
  BY <1>7, SpanIs
<1>9. rest[1] = Blank /\ p >= 1
  <2>1. 1 \in 1 .. N + 1 - f /\ rest[1] = z[f + 1]
    BY <1>1, <1>3, <1>7
  <2>2. z[f + 1] = Blank
    <3>1. CASE f = 0
      BY <1>5, <3>1
    <3>2. CASE f # 0
      <4>1. f > 0 /\ f \in 1 .. N /\ f \in 1 .. n
        BY <1>1, <1>3, <3>2
      <4>2. z[1 + f] = raw[f] /\ raw[f] = t[f] /\ t[f] = Blank
        BY <1>1, <1>3, <1>5, <4>1
      <4> QED
        BY <1>3, <4>2
    <3> QED
      BY <3>1, <3>2
  <2>3. p # 0
    <3> SUFFICES ASSUME p = 0 PROVE FALSE
      OBVIOUS
    <3>1. p < Len(rest) /\ p + 1 = 1
      BY <1>1, <1>3, <1>7
    <3> QED
      BY <1>8, <2>1, <2>2, <3>1
  <2> HIDE DEF p
  <2> QED
    BY <1>7, <1>8, <2>1, <2>2, <2>3
<1> HIDE DEF p
<1>10. /\ first \in Texts /\ Len(first) = Len(rest) - p
       /\ \A i \in 1 .. Len(rest) - p : first[i] = rest[p + i]
  BY <1>7, <1>8, FromIs
<1> HIDE DEF first
<1>11. /\ q \in 0 .. Len(first)
       /\ q < Len(first) => first[q + 1] \notin class
  BY <1>10, SpanIs
<1> HIDE DEF q, class
<1>12. /\ word \in Texts /\ Len(word) = q
       /\ \A i \in 1 .. q : word[i] = first[i]
  BY <1>10, <1>11, BeginningIs
<1> HIDE DEF word
<1>13. From(t, f) \in Texts /\ Len(From(t, f)) = n - f /\ \A i \in 1 .. n - f : From(t, f)[i] = t[f + i]
  BY <1>1, <1>3, FromIs DEF t
<1>14. IsPrefix(From(t, f), word)
  <2>1. CASE f = n
    <3>1. Len(From(t, f)) = 0 /\ Len(word) \in Nat
      BY <1>1, <1>12, <1>13, <2>1 DEF Texts
    <3> QED
      BY <1>12, <1>13, <3>1, PrefixIs
  <2>2. CASE f # n
    <3>1. p = 1
      <4>1. 2 \in 1 .. N + 1 - f /\ f + 1 \in 1 .. N /\ f + 1 \in 1 .. n /\ f + 1 \in f + 1 .. n
        BY <1>1, <1>3, <2>2
      <4>2. rest[2] = z[f + 2] /\ z[1 + (f + 1)] = raw[f + 1] /\ raw[f + 1] = t[f + 1] /\ t[f + 1] # Blank
        BY <1>1, <1>3, <1>5, <1>7, <4>1
      <4>3. 1 + (f + 1) = f + 2
        BY <1>3
      <4>4. rest[2] # Blank
        BY <4>2, <4>3
      <4>5. ~(2 <= p)
        <5> SUFFICES ASSUME 2 <= p PROVE FALSE
          OBVIOUS
        <5>1. 2 \in 1 .. p
          BY <1>7, <1>8
        <5>2. rest[2] \in {Blank}
          BY <1>7, <5>1, SpanIs DEF p
        <5> QED
          BY <4>4, <5>2
      <4>6. p \in Nat
        BY <1>8
      <4> QED
        BY <1>9, <4>5, <4>6
    <3>2. Len(first) = N - f
      BY <1>1, <1>3, <1>7, <1>10, <3>1
    <3>3. \A i \in 1 .. n - f : i \in 1 .. Len(first) /\ first[i] = t[f + i] /\ first[i] # Blank
      <4> TAKE i \in 1 .. n - f
      <4>1. /\ i \in 1 .. Len(rest) - p /\ p + i \in 1 .. N + 1 - f /\ f + i \in 1 .. N
            /\ f + i \in 1 .. n /\ f + i \in f + 1 .. n /\ f + (p + i) = 1 + (f + i)
        <5>1. n \in Nat /\ N \in Nat /\ n <= N /\ f \in Nat /\ f <= n /\ Len(rest) = N + 1 - f
          BY <1>1, <1>3, <1>7
        <5> QED
          BY <3>1, <5>1
      <4>2. first[i] = rest[p + i] /\ rest[p + i] = z[f + (p + i)]
        BY <1>7, <1>10, <4>1
      <4>3. z[1 + (f + i)] = raw[f + i] /\ raw[f + i] = t[f + i] /\ t[f + i] # Blank
        BY <1>1, <1>3, <1>5, <4>1
      <4> QED
        BY <1>10, <4>1, <4>2, <4>3
    <3>4. n - f <= q
      <4> SUFFICES ASSUME ~(n - f <= q) PROVE FALSE
        OBVIOUS
      <4>1. q + 1 \in 1 .. n - f /\ q < Len(first)
        BY <1>1, <1>3, <1>11, <3>2
      <4>2. q + 1 \in DOMAIN first
        BY <1>10, <3>3, <4>1 DEF Texts
      <4>3. first[q + 1] \in Range(first)
        BY <4>2 DEF Range
      <4>4. first[q + 1] # Blank
        BY <3>3, <4>1
      <4> QED
        BY <1>11, <4>1, <4>3, <4>4 DEF class
    <3>5. \A i \in 1 .. n - f : From(t, f)[i] = word[i]
      <4> TAKE i \in 1 .. n - f
      <4>1. i \in 1 .. q
        BY <1>1, <1>3, <1>11, <3>4
      <4> QED
        BY <1>12, <1>13, <3>3, <4>1
    <3> QED
      BY <1>12, <1>13, <3>4, <3>5, PrefixIs
  <2> QED
    BY <2>1, <2>2
<1>15. IsPrefix(t, SubSeq(t, 1, f) \o word)
  BY <1>1, <1>3, <1>12, <1>14, InFront DEF t
<1> QED
  BY <1>15 DEF FishKeeps, FishLine, getNextFishSuggestion, t, n, f, rest, p, first, class, q, word

----------------------------------------------------------------------------
(* The specification.                                                      *)

\* A completion is put between the beginning of the text and nothing.
LEMMA CompletedIs ==
  ASSUME text \in Texts, rc \in Faithful(text)
  PROVE  \A t \in Completed : t \in Texts
<1> TAKE t \in Completed
<1>1. PICK i \in DOMAIN rc.cands :
         t \in {BashLine(text, w) : w \in printBashCompletions(rc.cands[i].raw, Len(text))}
  BY DEF Completed
<1>2. PICK d \in AtDelimiter(rc.cands[i].raw, Len(text)) :
         t = BashLine(text, TrimRight(From(rc.cands[i].raw, BashStart(rc.cands[i].raw, Len(text), d))))
  BY <1>1 DEF printBashCompletions
<1> DEFINE raw == rc.cands[i].raw
           b == BashStart(raw, Len(text), d)
           v == From(raw, b)
<1>3. raw \in Texts /\ Len(text) \in Nat
  <2>1. rc.cands \in Seq(Fitting(text)) /\ Len(text) \in Nat
    BY FaithfulIs
  <2> QED
    BY <2>1 DEF Fitting, Candidates
<1> HIDE DEF raw
<1>4. b \in Nat
  <2>1. ASSUME NEW chars, NEW n \in Nat PROVE LastOf(chars, raw, n) \in Nat
    <3>1. IsLast(chars, raw, n, LastOf(chars, raw, n))
      BY <1>3, LastOfIs
    <3> QED
      BY <3>1 DEF IsLast
  <2> QED
    BY <1>3, <2>1 DEF BashStart
<1> HIDE DEF b
<1>5. v \in Texts
  BY <1>3, <1>4 DEF Texts, From
<1> HIDE DEF v
<1>6. TrimRight(v) \in Texts
  <2>1. PICK n : IsTrimmed(v, n) /\ TrimRight(v) = SubSeq(v, 1, n)
    BY <1>5, TrimRightIs
  <2> QED
    BY <1>5, <2>1, BeginningIs DEF IsTrimmed
<1>7. SubSeq(text, 1, BashWord(text)) \in Texts
  <2>1. BashWord(text) \in 0 .. Len(text)
    BY <1>3, LastOfIs DEF BashWord, IsLast
  <2> QED
    BY <2>1, BeginningIs
<1> QED
  BY <1>6, <1>7, <1>2, JoinIs DEF BashLine, v, b, raw

\* The result is the one of the text.
Parsed ==
  /\ line \in DOMAIN Grammars /\ text \in Texts /\ Len(text) <= Grammars[line].max
  /\ rc = ParseMain(Grammar, text)

LEMMA GrammarIs ==
  ASSUME NEW l \in DOMAIN Grammars
  PROVE  /\ ChildrenIn(Grammars[l].g, Height - 1)
         /\ Grammars[l].alphabet \subseteq Chars /\ Grammars[l].max \in Nat
<1> DEFINE g == Grammars[l].g
<1>1. /\ g \in Elements(Height) /\ g.kind = "cat"
      /\ Grammars[l].alphabet \subseteq Chars /\ Grammars[l].max \in Nat
  BY GrammarsAssumption
<1> HIDE DEF g
<1>2. WellFormed(g, Height - 1)
  BY <1>1, GrammarAssumption
<1>3. ChildrenIn(g, Height - 1)
  BY <1>1, <1>2 DEF WellFormed, ChildrenIn
<1> QED
  BY <1>1, <1>3 DEF g

LEMMA ParsedFaithful ==
  ASSUME Parsed
  PROVE  text \in Texts /\ rc \in Faithful(text)
  BY GrammarIs, ParseMainFaithful DEF Parsed, Grammar

LEMMA AlwaysParsed == Spec => []Parsed
<1>1. Init => Parsed
  <2> SUFFICES ASSUME Init PROVE Parsed
    OBVIOUS
  <2>1. line \in DOMAIN Grammars /\ Grammars[line].max \in Nat
    BY GrammarIs DEF Init
  <2>2. text \in Texts /\ Len(text) = 0
    BY EmptyText DEF Init
  <2>3. rc = ParseMain(Grammar, text)
    BY DEF Init, Grammar
  <2> QED
    BY <2>1, <2>2, <2>3 DEF Parsed
<1>2. Parsed /\ [Next]_vars => Parsed'
  <2> SUFFICES ASSUME Parsed, [Next]_vars PROVE Parsed'
    OBVIOUS
  <2>1. ASSUME NEW t \in Texts, Enter(t) PROVE Parsed'
    BY <2>1 DEF Enter, Parsed, Grammar
  <2>2. CASE Type
    <3>1. PICK c \in Grammars[line].alphabet : Enter(Append(text, c))
      BY <2>2 DEF Type
    <3>2. c \in Chars
      BY <3>1, GrammarIs DEF Parsed
    <3>3. Append(text, c) \in Texts
      BY <3>2 DEF Parsed, Texts
    <3> QED
      BY <2>1, <3>1, <3>3
  <2>3. CASE Tab
    <3>1. PICK t \in Completed : Enter(t)
      BY <2>3 DEF Tab
    <3>2. t \in Texts
      BY ParsedFaithful, CompletedIs
    <3> QED
      BY <2>1, <3>1, <3>2
  <2>4. CASE UNCHANGED vars
    BY <2>4 DEF vars, Parsed, Grammar
  <2> QED
    BY <2>2, <2>3, <2>4 DEF Next
<1> QED
  BY <1>1, <1>2, PTL DEF Spec

\* Whatever is typed, the parser of every grammar answers with a result that is
\* about the text.
THEOREM TextParsed == Spec => []TypeOK
<1>1. Parsed => TypeOK
  <2> SUFFICES ASSUME Parsed PROVE TypeOK
    OBVIOUS
  <2>1. text \in Texts /\ rc \in Faithful(text)
    BY ParsedFaithful
  <2>2. /\ rc.type \in ResultTypes /\ rc.ok \in Nat /\ rc.len \in Nat
        /\ rc.ok <= rc.len /\ rc.len <= Len(text)
        /\ Len(text) \in Nat
    BY <2>1, FaithfulIs
  <2>3. rc.ok \in 0 .. rc.len /\ rc.len \in 0 .. Len(text)
    BY <2>2
  <2> QED
    BY <2>2, <2>3 DEF Parsed, TypeOK, ResultTypes
<1> QED
  BY <1>1, AlwaysParsed, PTL

\* What is shown to be parsed is what was typed.
THEOREM MatchesText == Spec => []MatchedText
<1>1. Parsed => MatchedText
  <2> SUFFICES ASSUME Parsed PROVE MatchedText
    OBVIOUS
  <2>1. text \in Texts /\ rc \in Faithful(text)
    BY ParsedFaithful
  <2> QED
    BY <2>1, FaithfulIs DEF MatchedText
<1> QED
  BY <1>1, AlwaysParsed, PTL

\* No grammar has the completion contradict or destroy what was typed.
THEOREM SuggestionsKeepText == Spec => []SuggestionsFit
<1>1. Parsed => SuggestionsFit
  <2> SUFFICES ASSUME Parsed, NEW i \in DOMAIN rc.cands
               PROVE  LET c == rc.cands[i]
                      IN  \/ IsPrefix(text, c.raw) /\ BashKeeps(c.raw) /\ FishKeeps(c.raw)
                          \/ IsStrictPrefix(c.raw, text) /\ c.stop
    BY DEF SuggestionsFit
  <2> DEFINE c == rc.cands[i]
  <2>1. text \in Texts /\ rc \in Faithful(text)
    BY ParsedFaithful
  <2>2. rc.cands \in Seq(Fitting(text))
    BY <2>1, FaithfulIs
  <2>3. c \in Fitting(text)
    BY <2>2
  <2>4. c.raw \in Texts /\ Fits(text, c)
    BY <2>3 DEF Fitting, Candidates
  <2> HIDE DEF c
  <2>5. CASE IsPrefix(text, c.raw)
    BY <2>1, <2>4, <2>5, BashKeepsIt, FishKeepsIt DEF c
  <2>6. CASE ~IsPrefix(text, c.raw)
    <3>1. c.stop /\ IsPrefix(c.raw, text)
      BY <2>4, <2>6 DEF Fits
    <3>2. c.raw # text
      BY <2>1, <2>6, NoText
    <3> QED
      BY <3>1, <3>2 DEF IsStrictPrefix, c
  <2> QED
    BY <2>5, <2>6
<1> QED
  BY <1>1, AlwaysParsed, PTL

\* No grammar has gWhisper execute what is not a sentence of it, nor report as
\* incomplete, or have candidates for, what cannot become one, unless it could
\* not retrieve a part of the grammar.
THEOREM VerdictsTrue == Spec => []VerdictIsTrue
<1>1. Parsed => VerdictIsTrue
  <2> SUFFICES ASSUME Parsed PROVE VerdictIsTrue
    OBVIOUS
  <2>1. line \in DOMAIN Grammars /\ text \in Texts /\ rc = ParseMain(Grammar, text)
    BY DEF Parsed
  <2>2. ChildrenIn(Grammar, Height - 1)
    BY <2>1, GrammarIs DEF Grammar
  <2>3. Grammar.kind = "cat"
    BY <2>1, GrammarsAssumption DEF Grammar
  <2>4. ASSUME Accepted(text, rc) PROVE InLanguage(Grammar, text)
    <3>1. Accepted(text, ParseMain(Grammar, text))
      BY <2>1, <2>4
    <3> QED
      BY <2>1, <2>2, <2>3, <3>1, ParseMainSound
  <2>5. Honest(rc, CanContinue(Grammar, text))
    BY <2>1, <2>2, <2>3, ParseMainHonest
  <2>6. Missing(rc) \/ (rc.cands # <<>> /\ ~Failed(rc)) => CanContinue(Grammar, text)
    <3>1. Missing(rc) => ~Failed(rc)
      BY DEF Missing, Failed
    <3> QED
      BY <2>5, <3>1 DEF Honest
  <2> QED
    BY <2>4, <2>6 DEF VerdictIsTrue
<1> QED
  BY <1>1, AlwaysParsed, PTL
=============================================================================
