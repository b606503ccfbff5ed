------------------------- MODULE MessageParserProofs -------------------------
(***************************************************************************)
(* Proofs about FieldValues and MessageParser: what the texts and the      *)
(* parse trees of a command line become, for all types of messages.        *)
(*                                                                         *)
(* Reading the text of an integer and narrowing what was read together     *)
(* give the field the number that the text denotes.  Reading is a          *)
(* recursion over the digits, and parsing one over the fields of a tree    *)
(* and over the levels of the trees in it: NaturalRecursion has the        *)
(* induction.  A tree becomes a message with values of the right types     *)
(* only; it becomes none if the last value of a field is in error; and     *)
(* without errors it becomes what it means.                                *)
(***************************************************************************)
EXTENDS MessageParser, NaturalRecursion

----------------------------------------------------------------------------
(* The numbers in the text of a message.                                   *)

\* The powers a proof needs, from the assumption about LongBits.
LEMMA PowersOfWidth ==
  ASSUME NEW bits \in 1 .. LongBits
  PROVE  /\ Pow2(bits - 1) \in Nat \ {0} /\ Pow2(LongBits - 1) \in Nat \ {0}
         /\ Pow2(bits - 1) <= Pow2(LongBits - 1)
         /\ Pow2(bits) = 2 * Pow2(bits - 1) /\ Pow2(LongBits) = 2 * Pow2(LongBits - 1)
  BY WidthAssumption

\* The remainder of a number below the divisor is the number.
LEMMA RemainderOfSmall ==
  ASSUME NEW m \in Nat \ {0}, NEW x \in 0 .. m - 1
  PROVE  x % m = x
  OBVIOUS

\* Narrowing keeps a number that the narrower type can hold.
THEOREM NarrowExact ==
  ASSUME NEW bits \in 1 .. LongBits
  PROVE  /\ \A x \in SignedRange(bits) : NarrowSigned(x, bits) = x
         /\ \A x \in UnsignedRange(bits) : NarrowUnsigned(x, bits) = x
<1> DEFINE h == Pow2(bits - 1)
<1>1. h \in Nat \ {0} /\ Pow2(bits) = 2 * h
  BY PowersOfWidth
<1>2. ASSUME NEW x \in SignedRange(bits) PROVE NarrowSigned(x, bits) = x
  <2>1. x + h \in 0 .. 2 * h - 1
    BY <1>1 DEF SignedRange
  <2>2. (x + h) % (2 * h) = x + h
    BY <1>1, <2>1, RemainderOfSmall
  <2> QED BY <1>1, <2>2 DEF NarrowSigned, SignedRange
<1>3. ASSUME NEW x \in UnsignedRange(bits) PROVE NarrowUnsigned(x, bits) = x
  BY <1>1, RemainderOfSmall DEF NarrowUnsigned, UnsignedRange
<1> QED BY <1>2, <1>3

\* Whatever is narrowed ends up in the range of the field.
THEOREM NarrowInRange ==
  ASSUME NEW bits \in 1 .. LongBits, NEW x \in Int
  PROVE  /\ NarrowSigned(x, bits) \in SignedRange(bits)
         /\ NarrowUnsigned(x, bits) \in UnsignedRange(bits)
<1> DEFINE h == Pow2(bits - 1)
<1>1. h \in Nat \ {0} /\ Pow2(bits) = 2 * h
  BY PowersOfWidth
<1>2. (x + h) % (2 * h) \in 0 .. 2 * h - 1 /\ x % (2 * h) \in 0 .. 2 * h - 1
  BY <1>1
<1> QED BY <1>1, <1>2 DEF NarrowSigned, NarrowUnsigned, SignedRange, UnsignedRange

\* An integer field no wider than long gets exactly the number that the library
\* reads from the text if the field can hold it: the detour over long loses nothing.
THEOREM IntegerFieldExact ==
  ASSUME NEW fd, fd.of \in 1 .. LongBits, NEW t, Converted(t) \in Int, NumDigits(t) # 0
  PROVE  /\ Converted(t) \in SignedRange(fd.of) => ParseInt(fd, t) = Converted(t)
         /\ Converted(t) \in UnsignedRange(fd.of) => ParseUInt(fd, t) = Converted(t)
<1> DEFINE v == Converted(t)
<1>1. /\ SignedRange(fd.of) \subseteq SignedRange(LongBits)
      /\ UnsignedRange(fd.of) \subseteq UnsignedRange(LongBits)
  BY PowersOfWidth DEF SignedRange, UnsignedRange
<1>2. ASSUME v \in SignedRange(fd.of) PROVE ParseInt(fd, t) = v
  <2>1. ~Throws(t, SignedRange(LongBits))
    BY <1>1, <1>2 DEF Throws
  <2> QED BY <1>2, <2>1, NarrowExact DEF ParseInt
<1>3. ASSUME v \in UnsignedRange(fd.of) PROVE ParseUInt(fd, t) = v
  <2>1. ~Throws(t, UnsignedRange(LongBits))
    BY <1>1, <1>3 DEF Throws
  <2> QED BY <1>3, <2>1, NarrowExact DEF ParseUInt
<1> QED BY <1>2, <1>3



\* There is a function whose values are a multiple of the one before and a term.
DefinesLinear(N, a, b, c) ==
  \E f \in [0 .. N -> Int] : f[0] = b /\ \A i \in 1 .. N : f[i] = a * f[i - 1] + c[i]

LEMMA LinearFunction ==
  ASSUME NEW N, NEW a, NEW b, NEW c, N \in Nat, a \in Int, b \in Int, c \in [1 .. N -> Int]
  PROVE  DefinesLinear(N, a, b, c)
<1> DEFINE step == [x \in (1 .. N) \X Int |-> a * x[2] + c[x[1]]]
<1>1. step \in [(1 .. N) \X Int -> Int]
  OBVIOUS
<1>2. \A i \in 1 .. N, v \in Int : step[<<i, v>>] = a * v + c[i]
  OBVIOUS
<1> HIDE DEF step
<1>3. Defines(N, Int, b, step)
  BY ONLY <1>1, N \in Nat, b \in Int, Recursion
<1>4. PICK f \in [0 .. N -> Int] : f[0] = b /\ \A i \in 1 .. N : f[i] = step[<<i, f[i - 1]>>]
  BY <1>3 DEF Defines
<1>5. \A i \in 1 .. N : f[i] = a * f[i - 1] + c[i]
  <2> TAKE i \in 1 .. N
  <2>1. i - 1 \in 0 .. N /\ f[i - 1] \in Int
    BY <1>4
  <2> QED
    BY <1>2, <1>4, <2>1
<1> QED
  BY <1>4, <1>5 DEF DefinesLinear

\* A function whose values are integers if the one before is.
StaysInt(N, v)   == \A i \in 1 .. N : v[i - 1] \in Int => v[i] \in Int
IntegersTo(N, v) == \A i \in 0 .. N : v[i] \in Int

LEMMA StaysInteger ==
  ASSUME NEW N, NEW v, N \in Nat, v[0] \in Int, StaysInt(N, v)
  PROVE  IntegersTo(N, v)
<1> DEFINE T == {n \in 0 .. N : v[n] \in Int}
<1>1. 0 \in T
  OBVIOUS
<1>2. ASSUME NEW n \in 0 .. N - 1, n \in T PROVE n + 1 \in T
  <2>1. n + 1 \in 1 .. N /\ (n + 1) - 1 = n /\ v[n] \in Int
    BY <1>2
  <2>2. v[n + 1] \in Int
    BY <2>1 DEF StaysInt
  <2> QED
    BY <2>1, <2>2
<1>3. 0 .. N \subseteq T
  <2> HIDE DEF T
  <2> QED
    BY <1>1, <1>2, Induction
<1> QED
  BY <1>3 DEF IntegersTo

\* Magnitude reads digit after digit.
Reads(digits, base, value) ==
  /\ Magnitude(digits, base) = value[Len(digits)]
  /\ \A i \in 0 .. Len(digits) : value[i] \in Int
  /\ value[0] = 0
  /\ \A i \in 1 .. Len(digits) : value[i] = base * value[i - 1] + digits[i]

LEMMA MagnitudeReads ==
  ASSUME NEW digits \in Seq(Int), NEW base \in Int
  PROVE  \E value : Reads(digits, base, value)
<1> DEFINE N == Len(digits)
           body(f) == [n \in 0 .. N |-> IF n = 0 THEN 0 ELSE base * f[n - 1] + digits[n]]
           value == CHOOSE f : f = body(f)
<1>1. N \in Nat /\ digits \in [1 .. N -> Int] /\ 0 \in Int
  OBVIOUS
<1>2. Magnitude(digits, base) = value[N]
  BY DEF Magnitude
<1> HIDE DEF N
<1>3. PICK f \in [0 .. N -> Int] : f[0] = 0 /\ \A i \in 1 .. N : f[i] = base * f[i - 1] + digits[i]
  <2>1. DefinesLinear(N, base, 0, digits)
    BY ONLY <1>1, base \in Int, LinearFunction
  <2> QED
    BY <2>1 DEF DefinesLinear
<1>4. \A n \in 0 .. N : f[n] = IF n = 0 THEN 0 ELSE base * f[n - 1] + digits[n]
  BY <1>1, <1>3
<1>5. f = body(f)
  BY <1>4
<1>6. value = body(value)
  <2> HIDE DEF body
  <2> QED
    BY <1>5
<1> HIDE DEF value
<1>7. value[0] = 0 /\ \A i \in 1 .. N : value[i] = base * value[i - 1] + digits[i]
  <2>1. \A i \in 0 .. N : value[i] = IF i = 0 THEN 0 ELSE base * value[i - 1] + digits[i]
    BY <1>6
  <2>2. 0 \in 0 .. N /\ \A i \in 1 .. N : i \in 0 .. N /\ i # 0
    BY <1>1
  <2> QED
    BY <2>1, <2>2
<1>8. \A i \in 0 .. N : value[i] \in Int
  <2>1. StaysInt(N, value)
    <3> SUFFICES ASSUME NEW i \in 1 .. N, value[i - 1] \in Int PROVE value[i] \in Int
      BY DEF StaysInt
    <3>1. value[i] = base * value[i - 1] + digits[i]
      BY <1>7
    <3>2. digits[i] \in Int
      BY <1>1
    <3> QED
      BY <3>1, <3>2
  <2>2. N \in Nat /\ value[0] \in Int
    BY <1>1, <1>7
  <2>3. IntegersTo(N, value)
    BY ONLY <2>1, <2>2, StaysInteger
  <2> QED
    BY <2>3 DEF IntegersTo
<1> QED
  BY <1>2, <1>7, <1>8 DEF N, Reads

\* Denoted adds digits with their weights.
Weighs(t, weight, sum) ==
  LET n == Len(t.digits)
  IN  /\ Denoted(t) = IF t.sign = "-" THEN -sum[n] ELSE sum[n]
      /\ \A i \in 0 .. n : weight[i] \in Int /\ sum[i] \in Int
      /\ weight[0] = 1 /\ sum[0] = 0
      /\ \A i \in 1 .. n : weight[i] = Base(t) * weight[i - 1]
      /\ \A i \in 1 .. n : sum[i] = sum[i - 1] + t.digits[i] * weight[n - i]

LEMMA DenotedWeighs ==
  ASSUME NEW t, t.digits \in Seq(Int), Base(t) \in Int
  PROVE  \E weight, sum : Weighs(t, weight, sum)
<1> DEFINE n == Len(t.digits)
           base == Base(t)
           digits == t.digits
           weights(f) == [i \in 0 .. n |-> IF i = 0 THEN 1 ELSE base * f[i - 1]]
           weight == CHOOSE f : f = weights(f)
           sums(f) == [i \in 0 .. n |-> IF i = 0 THEN 0 ELSE f[i - 1] + digits[i] * weight[n - i]]
           sum == CHOOSE f : f = sums(f)
<1>1. n \in Nat /\ digits \in [1 .. n -> Int] /\ base \in Int
  OBVIOUS
<1>2. Denoted(t) = IF t.sign = "-" THEN -sum[n] ELSE sum[n]
  BY DEF Denoted
<1> HIDE DEF n, base, digits
<1>3. weight = weights(weight)
  <2> DEFINE c == [i \in 1 .. n |-> 0]
  <2>1. c \in [1 .. n -> Int] /\ 1 \in Int
    OBVIOUS
  <2>2. PICK f \in [0 .. n -> Int] : f[0] = 1 /\ \A i \in 1 .. n : f[i] = base * f[i - 1] + c[i]
    <3> HIDE DEF c
    <3>1. DefinesLinear(n, base, 1, c)
      BY ONLY <1>1, <2>1, LinearFunction
    <3> QED
      BY <3>1 DEF DefinesLinear
  <2>3. \A i \in 0 .. n : f[i] = IF i = 0 THEN 1 ELSE base * f[i - 1]
    <3> TAKE i \in 0 .. n
    <3>1. CASE i = 0
      BY <2>2, <3>1
    <3>2. CASE i # 0
      <4>1. i \in 1 .. n /\ i - 1 \in 0 .. n /\ f[i - 1] \in Int /\ c[i] = 0
        BY <1>1, <2>2, <3>2
      <4>2. f[i] = base * f[i - 1] + 0
        BY <2>2, <4>1
      <4> QED
        BY <1>1, <3>2, <4>1, <4>2
    <3> QED
      BY <3>1, <3>2
  <2>4. f = weights(f)
    BY <2>3
  <2> HIDE DEF weights
  <2> QED
    BY <2>4
<1> HIDE DEF weight
<1>4. weight[0] = 1 /\ \A i \in 1 .. n : weight[i] = base * weight[i - 1]
  <2>1. \A i \in 0 .. n : weight[i] = IF i = 0 THEN 1 ELSE base * weight[i - 1]
    BY <1>3
  <2>2. 0 \in 0 .. n /\ \A i \in 1 .. n : i \in 0 .. n /\ i # 0
    BY <1>1
  <2> QED
    BY <2>1, <2>2
<1>5. \A i \in 0 .. n : weight[i] \in Int
  <2>1. StaysInt(n, weight)
    <3> SUFFICES ASSUME NEW i \in 1 .. n, weight[i - 1] \in Int PROVE weight[i] \in Int
      BY DEF StaysInt
    <3> QED
      BY <1>1, <1>4
  <2>2. n \in Nat /\ weight[0] \in Int
    BY <1>1, <1>4
  <2>3. IntegersTo(n, weight)
    BY ONLY <2>1, <2>2, StaysInteger
  <2> QED
    BY <2>3 DEF IntegersTo
<1>6. sum = sums(sum)
  <2> DEFINE c == [i \in 1 .. n |-> digits[i] * weight[n - i]]
  <2>1. c \in [1 .. n -> Int] /\ 0 \in Int /\ 1 \in Int
    <3>1. \A i \in 1 .. n : n - i \in 0 .. n /\ digits[i] \in Int
      BY <1>1
    <3>2. \A i \in 1 .. n : digits[i] * weight[n - i] \in Int
      BY <1>5, <3>1
    <3> QED
      BY <3>2
  <2>2. PICK f \in [0 .. n -> Int] : f[0] = 0 /\ \A i \in 1 .. n : f[i] = 1 * f[i - 1] + c[i]
    <3> HIDE DEF c
    <3>1. DefinesLinear(n, 1, 0, c)
      BY ONLY <1>1, <2>1, LinearFunction
    <3> QED
      BY <3>1 DEF DefinesLinear
  <2>3. \A i \in 0 .. n : f[i] = IF i = 0 THEN 0 ELSE f[i - 1] + digits[i] * weight[n - i]
    <3> TAKE i \in 0 .. n
    <3>1. CASE i = 0
      BY <2>2, <3>1
    <3>2. CASE i # 0
      <4>1. i \in 1 .. n /\ i - 1 \in 0 .. n /\ f[i - 1] \in Int /\ c[i] = digits[i] * weight[n - i]
        BY <1>1, <2>2, <3>2
      <4>2. f[i] = 1 * f[i - 1] + c[i]
        BY <2>2, <4>1
      <4>3. 1 * f[i - 1] = f[i - 1]
        BY <4>1
      <4> QED
        BY <3>2, <4>1, <4>2, <4>3
    <3> QED
      BY <3>1, <3>2
  <2>4. f = sums(f)
    BY <2>3
  <2> HIDE DEF sums
  <2> QED
    BY <2>4
<1> HIDE DEF sum
<1>7. sum[0] = 0 /\ \A i \in 1 .. n : sum[i] = sum[i - 1] + digits[i] * weight[n - i]
  <2>1. \A i \in 0 .. n : sum[i] = IF i = 0 THEN 0 ELSE sum[i - 1] + digits[i] * weight[n - i]
    BY <1>6
  <2>2. 0 \in 0 .. n /\ \A i \in 1 .. n : i \in 0 .. n /\ i # 0
    BY <1>1
  <2> QED
    BY <2>1, <2>2
<1>8. \A i \in 0 .. n : sum[i] \in Int
  <2>1. \A i \in 1 .. n : digits[i] * weight[n - i] \in Int
    <3>1. \A i \in 1 .. n : n - i \in 0 .. n /\ digits[i] \in Int
      BY <1>1
    <3> QED
      BY <1>5, <3>1
  <2>2. StaysInt(n, sum)
    BY <1>7, <2>1 DEF StaysInt
  <2>3. n \in Nat /\ sum[0] \in Int
    BY <1>1, <1>7
  <2>4. IntegersTo(n, sum)
    BY ONLY <2>2, <2>3, StaysInteger
  <2> QED
    BY <2>4 DEF IntegersTo
<1> QED
  BY <1>2, <1>4, <1>5, <1>7, <1>8 DEF n, base, digits, Weighs
\* What the digits of a number are.
LEMMA DigitsOfNumber ==
  ASSUME NEW t, IsNumber(t)
  PROVE  /\ t.digits \in Seq(Int) /\ Len(t.digits) \in Nat \ {0} /\ DOMAIN t.digits = 1 .. Len(t.digits)
         /\ t.digits \in [1 .. Len(t.digits) -> Int] /\ Base(t) \in Int
<1> DEFINE digits == t.digits
<1>1. digits \in Seq(0 .. 15) /\ digits # <<>>
  BY DEF IsNumber
<1>2. Base(t) \in Int
  BY DEF Base
<1> HIDE DEF digits
<1>3. digits \in Seq(Int)
  BY <1>1
<1>4. Len(digits) \in Nat \ {0}
  BY <1>1
<1>5. DOMAIN digits = 1 .. Len(digits) /\ digits \in [1 .. Len(digits) -> Int]
  BY <1>3
<1> QED
  BY <1>2, <1>3, <1>4, <1>5 DEF digits

\* All the characters of a text are read if all of them are digits of its base.
LEMMA AllDigits ==
  ASSUME NEW t, IsNumber(t), \A i \in DOMAIN t.digits : t.digits[i] < Base(t)
  PROVE  NumDigits(t) = Len(t.digits) /\ SubSeq(t.digits, 1, NumDigits(t)) = t.digits
<1> DEFINE n == Len(t.digits)
           Ends(k) == /\ \A i \in 1 .. k : t.digits[i] < Base(t)
                      /\ k < n => t.digits[k + 1] >= Base(t)
<1>1. t.digits \in Seq(Int) /\ n \in Nat /\ DOMAIN t.digits = 1 .. n /\ Base(t) \in Int
  BY DigitsOfNumber
<1>2. Ends(n) /\ n \in 0 .. n
  BY <1>1
<1>3. \A k \in 0 .. n : Ends(k) => k = n
  <2> SUFFICES ASSUME NEW k \in 0 .. n, Ends(k), k < n PROVE FALSE
    BY <1>1
  <2>1. k + 1 \in DOMAIN t.digits
    BY <1>1
  <2> QED
    BY <1>1, <2>1
<1>4. NumDigits(t) = n
  <2>1. NumDigits(t) = CHOOSE k \in 0 .. n : Ends(k)
    BY DEF NumDigits
  <2> HIDE DEF Ends
  <2> QED
    BY <1>2, <1>3, <2>1
<1>5. SubSeq(t.digits, 1, n) = t.digits
  BY <1>1
<1> QED
  BY <1>4, <1>5

\* Horner's rule: the digits read one after the other are the digits with their
\* weights, since after every digit the value read, with the weight that the next
\* place has, is the sum of the digits up to there.
LEMMA Horner ==
  ASSUME NEW t, IsNumber(t), \A i \in DOMAIN t.digits : t.digits[i] < Base(t)
  PROVE  Converted(t) = Denoted(t) /\ Converted(t) \in Int
<1> DEFINE n == Len(t.digits)
           base == Base(t)
           digits == t.digits
<1>1. n \in Nat /\ digits \in Seq(Int) /\ digits \in [1 .. n -> Int] /\ base \in Int
  BY DigitsOfNumber
<1>2. PICK value : Reads(digits, base, value)
  BY <1>1, MagnitudeReads
<1>3. PICK weight, sum : Weighs(t, weight, sum)
  BY <1>1, DenotedWeighs
<1>4. Converted(t) = IF t.sign = "-" THEN -value[n] ELSE value[n]
  BY <1>2, AllDigits DEF Converted, Reads
<1>5. Denoted(t) = IF t.sign = "-" THEN -sum[n] ELSE sum[n]
  BY <1>3 DEF Weighs
<1>6. /\ \A i \in 0 .. n : value[i] \in Int /\ weight[i] \in Int /\ sum[i] \in Int
      /\ value[0] = 0 /\ weight[0] = 1 /\ sum[0] = 0
      /\ \A i \in 1 .. n : /\ value[i] = base * value[i - 1] + digits[i]
                          /\ weight[i] = base * weight[i - 1]
                          /\ sum[i] = sum[i - 1] + digits[i] * weight[n - i]
  BY <1>2, <1>3 DEF Reads, Weighs
<1> HIDE DEF n, base, digits
<1> DEFINE T == {i \in 0 .. n : sum[i] = value[i] * weight[n - i]}
<1>7. 0 \in T
  <2>1. n - 0 = n /\ n \in 0 .. n /\ 0 \in 0 .. n
    BY <1>1
  <2>2. weight[n] \in Int
    BY <1>6, <2>1
  <2>3. 0 = 0 * weight[n]
    BY <2>2
  <2>4. sum[0] = value[0] * weight[n - 0]
    BY <1>6, <2>1, <2>3
  <2> QED
    BY <2>1, <2>4
<1>8. ASSUME NEW i \in 0 .. n - 1, i \in T PROVE i + 1 \in T
  <2> DEFINE v == value[i]
             w == weight[n - (i + 1)]
             d == digits[i + 1]
  <2>1. /\ i + 1 \in 1 .. n /\ (i + 1) - 1 = i /\ n - i \in 1 .. n
        /\ (n - i) - 1 = n - (i + 1) /\ n - (i + 1) \in 0 .. n
    BY <1>1
  <2>2. v \in Int /\ w \in Int /\ d \in Int
    BY <1>1, <1>6, <2>1
  <2>3. sum[i] = v * weight[n - i] /\ weight[n - i] = base * w
    BY <1>6, <1>8, <2>1
  <2>4. sum[i + 1] = sum[i] + d * w /\ value[i + 1] = base * v + d
    BY <1>6, <2>1
  <2>5. sum[i + 1] = v * (base * w) + d * w
    BY <2>3, <2>4
  <2> HIDE DEF v, w, d
  <2>6. v * (base * w) + d * w = (base * v + d) * w
    BY <1>1, <2>2
  <2>7. sum[i + 1] = value[i + 1] * w
    BY <2>4, <2>5, <2>6
  <2> QED
    BY <2>1, <2>7 DEF w
<1>9. 0 .. n \subseteq T
  <2> HIDE DEF T
  <2> QED
    BY <1>1, <1>7, <1>8, Induction
<1>10. sum[n] = value[n]
  <2>1. n \in T /\ n - n = 0
    BY <1>1, <1>9
  <2>2. sum[n] = value[n] * 1 /\ value[n] \in Int
    BY <1>1, <1>6, <2>1
  <2> QED
    BY <2>2
<1> QED
  BY <1>1, <1>4, <1>5, <1>6, <1>10

\* A number in the range of its field is stored exactly: reading digit by digit
\* in the base that the prefix says, in a wider type, and narrowing the result
\* together give the number that the text denotes in positional notation.
THEOREM NumberStored ==
  ASSUME NEW fd, NEW t, fd.kind \in {"int", "uint"}, fd.of \in 1 .. LongBits, IsNumber(t)
  PROVE  NumberExact(fd, t)
<1> SUFFICES ASSUME \A i \in DOMAIN t.digits : t.digits[i] < Base(t), Denoted(t) \in RangeOf(fd)
             PROVE  ParseScalar(fd, t) = Denoted(t)
  BY DEF NumberExact
<1>1. Converted(t) = Denoted(t) /\ Converted(t) \in Int
  BY Horner
<1>2. NumDigits(t) # 0
  BY AllDigits, DigitsOfNumber
<1>3. /\ Converted(t) \in SignedRange(fd.of) => ParseInt(fd, t) = Converted(t)
      /\ Converted(t) \in UnsignedRange(fd.of) => ParseUInt(fd, t) = Converted(t)
  BY <1>1, <1>2, IntegerFieldExact
<1>4. CASE fd.kind = "int"
  BY <1>1, <1>3, <1>4 DEF RangeOf, ParseScalar
<1>5. CASE fd.kind = "uint"
  BY <1>1, <1>3, <1>5 DEF RangeOf, ParseScalar
<1> QED
  BY <1>4, <1>5

----------------------------------------------------------------------------
(* The recursive functions of the parser.                                 *)

\* The trees below a tree, level by level.
LEMMA TreesBelowIs ==
  ASSUME NEW which, NEW root
  PROVE  /\ TreesBelow(which, root, 0) = {root}
         /\ \A n \in 1 .. MaxDepth :
              TreesBelow(which, root, n) = UNION {SubTrees(which, t) : t \in TreesBelow(which, root, n - 1)}
<1> DEFINE N == MaxDepth
           b == {root}
           next(k, S) == UNION {SubTrees(which, t) : t \in S}
           body(h, n) == [k \in 0 .. n |-> IF k = 0 THEN b ELSE next(k, h[k - 1])]
           level == CHOOSE h : h = body(h, N)
<1>0. \A n : TreesBelow(which, root, n) = level[n]
  BY DEF TreesBelow
<1>1. N \in Nat
  BY DepthAssumption
<1> HIDE DEF N, b, next
<1> DEFINE T == {n \in 0 .. N : \E h : h = body(h, n)}
<1>2. 0 \in T
  <2> DEFINE h == [k \in 0 .. 0 |-> b]
  <2>1. h = body(h, 0)
    OBVIOUS
  <2> HIDE DEF h, body
  <2> QED
    BY <1>1, <2>1
<1>3. ASSUME NEW n \in 0 .. N - 1, n \in T PROVE n + 1 \in T
  <2>1. PICK h : h = body(h, n)
    BY <1>3
  <2> DEFINE f == [k \in 0 .. n + 1 |-> IF k = n + 1 THEN next(k, h[n]) ELSE h[k]]
  <2>2. ASSUME NEW k \in 0 .. n + 1 PROVE f[k] = IF k = 0 THEN b ELSE next(k, f[k - 1])
    <3>1. CASE k = n + 1
      <4>1. k # 0 /\ k - 1 = n /\ n \in 0 .. n + 1 /\ n # n + 1
        BY <1>1, <3>1
      <4>2. f[k] = next(k, h[n]) /\ f[n] = h[n]
        BY <3>1, <4>1
      <4> HIDE DEF f
      <4> QED
        BY <4>1, <4>2
    <3>2. CASE k # n + 1
      <4>1. k \in 0 .. n /\ (k # 0 => k - 1 \in 0 .. n + 1 /\ k - 1 # n + 1)
        BY <1>1, <3>2
      <4>2. h[k] = IF k = 0 THEN b ELSE next(k, h[k - 1])
        BY <2>1, <4>1
      <4>3. f[k] = h[k] /\ (k # 0 => f[k - 1] = h[k - 1])
        BY <3>2, <4>1
      <4> HIDE DEF f
      <4> QED
        BY <4>2, <4>3
    <3> QED
      BY <3>1, <3>2
  <2>3. f = body(f, n + 1)
    <3>1. f = [k \in 0 .. n + 1 |-> f[k]]
      OBVIOUS
    <3> HIDE DEF f
    <3> QED
      BY <2>2, <3>1
  <2>4. n + 1 \in 0 .. N
    BY <1>1
  <2> HIDE DEF f, body
  <2> QED
    BY <2>3, <2>4
<1>4. body(level, N) = level
  <2>1. 0 .. N \subseteq T
    <3> HIDE DEF T
    <3> QED
      BY <1>1, <1>2, <1>3, Induction
  <2>2. \E h : h = body(h, N)
    BY <1>1, <2>1
  <2> HIDE DEF body
  <2> QED
    BY <2>2
<1> HIDE DEF level, T
<1>5. level[0] = b /\ \A k \in 1 .. N : level[k] = next(k, level[k - 1])
  <2>1. \A k \in 0 .. N : level[k] = IF k = 0 THEN b ELSE next(k, level[k - 1])
    BY <1>4
  <2>2. 0 \in 0 .. N /\ \A k \in 1 .. N : k \in 0 .. N /\ k # 0
    BY <1>1
  <2> QED
    BY <2>1, <2>2
<1> QED
  BY <1>0, <1>5 DEF N, b, next

\* The messages in a message, level by level.
LEMMA MessagesBelowIs ==
  ASSUME NEW root
  PROVE  /\ MessagesBelow(root, 0) = {root}
         /\ \A n \in 1 .. MaxDepth : MessagesBelow(root, n) = UNION {SubMessages(m) : m \in MessagesBelow(root, n - 1)}
<1> DEFINE N == MaxDepth
           b == {root}
           next(k, S) == UNION {SubMessages(m) : m \in S}
           body(h, n) == [k \in 0 .. n |-> IF k = 0 THEN b ELSE next(k, h[k - 1])]
           level == CHOOSE h : h = body(h, N)
<1>0. \A n : MessagesBelow(root, n) = level[n]
  BY DEF MessagesBelow
<1>1. N \in Nat
  BY DepthAssumption
<1> HIDE DEF N, b, next
<1> DEFINE T == {n \in 0 .. N : \E h : h = body(h, n)}
<1>2. 0 \in T
  <2> DEFINE h == [k \in 0 .. 0 |-> b]
  <2>1. h = body(h, 0)
    OBVIOUS
  <2> HIDE DEF h, body
  <2> QED
    BY <1>1, <2>1
<1>3. ASSUME NEW n \in 0 .. N - 1, n \in T PROVE n + 1 \in T
  <2>1. PICK h : h = body(h, n)
    BY <1>3
  <2> DEFINE f == [k \in 0 .. n + 1 |-> IF k = n + 1 THEN next(k, h[n]) ELSE h[k]]
  <2>2. ASSUME NEW k \in 0 .. n + 1 PROVE f[k] = IF k = 0 THEN b ELSE next(k, f[k - 1])
    <3>1. CASE k = n + 1
      <4>1. k # 0 /\ k - 1 = n /\ n \in 0 .. n + 1 /\ n # n + 1
        BY <1>1, <3>1
      <4>2. f[k] = next(k, h[n]) /\ f[n] = h[n]
        BY <3>1, <4>1
      <4> HIDE DEF f
      <4> QED
        BY <4>1, <4>2
    <3>2. CASE k # n + 1
      <4>1. k \in 0 .. n /\ (k # 0 => k - 1 \in 0 .. n + 1 /\ k - 1 # n + 1)
        BY <1>1, <3>2
      <4>2. h[k] = IF k = 0 THEN b ELSE next(k, h[k - 1])
        BY <2>1, <4>1
      <4>3. f[k] = h[k] /\ (k # 0 => f[k - 1] = h[k - 1])
        BY <3>2, <4>1
      <4> HIDE DEF f
      <4> QED
        BY <4>2, <4>3
    <3> QED
      BY <3>1, <3>2
  <2>3. f = body(f, n + 1)
    <3>1. f = [k \in 0 .. n + 1 |-> f[k]]
      OBVIOUS
    <3> HIDE DEF f
    <3> QED
      BY <2>2, <3>1
  <2>4. n + 1 \in 0 .. N
    BY <1>1
  <2> HIDE DEF f, body
  <2> QED
    BY <2>3, <2>4
<1>4. body(level, N) = level
  <2>1. 0 .. N \subseteq T
    <3> HIDE DEF T
    <3> QED
      BY <1>1, <1>2, <1>3, Induction
  <2>2. \E h : h = body(h, N)
    BY <1>1, <2>1
  <2> HIDE DEF body
  <2> QED
    BY <2>2
<1> HIDE DEF level, T
<1>5. level[0] = b /\ \A k \in 1 .. N : level[k] = next(k, level[k - 1])
  <2>1. \A k \in 0 .. N : level[k] = IF k = 0 THEN b ELSE next(k, level[k - 1])
    BY <1>4
  <2>2. 0 \in 0 .. N /\ \A k \in 1 .. N : k \in 0 .. N /\ k # 0
    BY <1>1
  <2> QED
    BY <2>1, <2>2
<1> QED
  BY <1>0, <1>5 DEF N, b, next

\* What becomes of the trees of a message, from the innermost ones to the message.
Parses(root, parsed) ==
  \A n \in 1 .. MaxDepth :
    parsed[n] = [t \in TreesBelow("all", root, MaxDepth - n) |-> ParseFields(parsed[n - 1], t)]

LEMMA ParseMessageIs ==
  ASSUME NEW type, NEW tree
  PROVE  \E parsed : Parses(<<type, tree>>, parsed) /\ ParseMessage(type, tree) = parsed[MaxDepth][<<type, tree>>]
<1> DEFINE N == MaxDepth
           b == <<>>
           next(k, s) == [t \in TreesBelow("all", <<type, tree>>, MaxDepth - k) |-> ParseFields(s, t)]
           body(h, n) == [k \in 0 .. n |-> IF k = 0 THEN b ELSE next(k, h[k - 1])]
           parsed == CHOOSE h : h = body(h, N)
<1>0. ParseMessage(type, tree) = parsed[MaxDepth][<<type, tree>>]
  BY DEF ParseMessage
<1>1. N \in Nat
  BY DepthAssumption
<1> HIDE DEF N, b, next
<1> DEFINE T == {n \in 0 .. N : \E h : h = body(h, n)}
<1>2. 0 \in T
  <2> DEFINE h == [k \in 0 .. 0 |-> b]
  <2>1. h = body(h, 0)
    OBVIOUS
  <2> HIDE DEF h, body
  <2> QED
    BY <1>1, <2>1
<1>3. ASSUME NEW n \in 0 .. N - 1, n \in T PROVE n + 1 \in T
  <2>1. PICK h : h = body(h, n)
    BY <1>3
  <2> DEFINE f == [k \in 0 .. n + 1 |-> IF k = n + 1 THEN next(k, h[n]) ELSE h[k]]
  <2>2. ASSUME NEW k \in 0 .. n + 1 PROVE f[k] = IF k = 0 THEN b ELSE next(k, f[k - 1])
    <3>1. CASE k = n + 1
      <4>1. k # 0 /\ k - 1 = n /\ n \in 0 .. n + 1 /\ n # n + 1
        BY <1>1, <3>1
      <4>2. f[k] = next(k, h[n]) /\ f[n] = h[n]
        BY <3>1, <4>1
      <4> HIDE DEF f
      <4> QED
        BY <4>1, <4>2
    <3>2. CASE k # n + 1
      <4>1. k \in 0 .. n /\ (k # 0 => k - 1 \in 0 .. n + 1 /\ k - 1 # n + 1)
        BY <1>1, <3>2
      <4>2. h[k] = IF k = 0 THEN b ELSE next(k, h[k - 1])
        BY <2>1, <4>1
      <4>3. f[k] = h[k] /\ (k # 0 => f[k - 1] = h[k - 1])
        BY <3>2, <4>1
      <4> HIDE DEF f
      <4> QED
        BY <4>2, <4>3
    <3> QED
      BY <3>1, <3>2
  <2>3. f = body(f, n + 1)
    <3>1. f = [k \in 0 .. n + 1 |-> f[k]]
      OBVIOUS
    <3> HIDE DEF f
    <3> QED
      BY <2>2, <3>1
  <2>4. n + 1 \in 0 .. N
    BY <1>1
  <2> HIDE DEF f, body
  <2> QED
    BY <2>3, <2>4
<1>4. body(parsed, N) = parsed
  <2>1. 0 .. N \subseteq T
    <3> HIDE DEF T
    <3> QED
      BY <1>1, <1>2, <1>3, Induction
  <2>2. \E h : h = body(h, N)
    BY <1>1, <2>1
  <2> HIDE DEF body
  <2> QED
    BY <2>2
<1> HIDE DEF parsed, T
<1>5. parsed[0] = b /\ \A k \in 1 .. N : parsed[k] = next(k, parsed[k - 1])
  <2>1. \A k \in 0 .. N : parsed[k] = IF k = 0 THEN b ELSE next(k, parsed[k - 1])
    BY <1>4
  <2>2. 0 \in 0 .. N /\ \A k \in 1 .. N : k \in 0 .. N /\ k # 0
    BY <1>1
  <2> QED
    BY <2>1, <2>2
<1> QED
  BY <1>0, <1>5 DEF N, b, next, Parses

Means(root, meant) ==
  \A n \in 1 .. MaxDepth :
    meant[n] = [t \in TreesBelow("all", root, MaxDepth - n) |-> MessageMeaning(meant[n - 1], t)]

LEMMA MeaningIs ==
  ASSUME NEW type, NEW tree
  PROVE  \E meant : Means(<<type, tree>>, meant) /\ Meaning(type, tree) = meant[MaxDepth][<<type, tree>>]
<1> DEFINE N == MaxDepth
           b == <<>>
           next(k, s) == [t \in TreesBelow("all", <<type, tree>>, MaxDepth - k) |-> MessageMeaning(s, t)]
           body(h, n) == [k \in 0 .. n |-> IF k = 0 THEN b ELSE next(k, h[k - 1])]
           meant == CHOOSE h : h = body(h, N)
<1>0. Meaning(type, tree) = meant[MaxDepth][<<type, tree>>]
  BY DEF Meaning
<1>1. N \in Nat
  BY DepthAssumption
<1> HIDE DEF N, b, next
<1> DEFINE T == {n \in 0 .. N : \E h : h = body(h, n)}
<1>2. 0 \in T
  <2> DEFINE h == [k \in 0 .. 0 |-> b]
  <2>1. h = body(h, 0)
    OBVIOUS
  <2> HIDE DEF h, body
  <2> QED
    BY <1>1, <2>1
<1>3. ASSUME NEW n \in 0 .. N - 1, n \in T PROVE n + 1 \in T
  <2>1. PICK h : h = body(h, n)
    BY <1>3
  <2> DEFINE f == [k \in 0 .. n + 1 |-> IF k = n + 1 THEN next(k, h[n]) ELSE h[k]]
  <2>2. ASSUME NEW k \in 0 .. n + 1 PROVE f[k] = IF k = 0 THEN b ELSE next(k, f[k - 1])
    <3>1. CASE k = n + 1
      <4>1. k # 0 /\ k - 1 = n /\ n \in 0 .. n + 1 /\ n # n + 1
        BY <1>1, <3>1
      <4>2. f[k] = next(k, h[n]) /\ f[n] = h[n]
        BY <3>1, <4>1
      <4> HIDE DEF f
      <4> QED
        BY <4>1, <4>2
    <3>2. CASE k # n + 1
      <4>1. k \in 0 .. n /\ (k # 0 => k - 1 \in 0 .. n + 1 /\ k - 1 # n + 1)
        BY <1>1, <3>2
      <4>2. h[k] = IF k = 0 THEN b ELSE next(k, h[k - 1])
        BY <2>1, <4>1
      <4>3. f[k] = h[k] /\ (k # 0 => f[k - 1] = h[k - 1])
        BY <3>2, <4>1
      <4> HIDE DEF f
      <4> QED
        BY <4>2, <4>3
    <3> QED
      BY <3>1, <3>2
  <2>3. f = body(f, n + 1)
    <3>1. f = [k \in 0 .. n + 1 |-> f[k]]
      OBVIOUS
    <3> HIDE DEF f
    <3> QED
      BY <2>2, <3>1
  <2>4. n + 1 \in 0 .. N
    BY <1>1
  <2> HIDE DEF f, body
  <2> QED
    BY <2>3, <2>4
<1>4. body(meant, N) = meant
  <2>1. 0 .. N \subseteq T
    <3> HIDE DEF T
    <3> QED
      BY <1>1, <1>2, <1>3, Induction
  <2>2. \E h : h = body(h, N)
    BY <1>1, <2>1
  <2> HIDE DEF body
  <2> QED
    BY <2>2
<1> HIDE DEF meant, T
<1>5. meant[0] = b /\ \A k \in 1 .. N : meant[k] = next(k, meant[k - 1])
  <2>1. \A k \in 0 .. N : meant[k] = IF k = 0 THEN b ELSE next(k, meant[k - 1])
    BY <1>4
  <2>2. 0 \in 0 .. N /\ \A k \in 1 .. N : k \in 0 .. N /\ k # 0
    BY <1>1
  <2> QED
    BY <2>1, <2>2
<1> QED
  BY <1>0, <1>5 DEF N, b, next, Means

\* What is left of the messages of a tree after some of its fields.
FieldsParse(sub, t, after) ==
  /\ after[0] = {NewMessage(t[1])}
  /\ \A i \in 1 .. Len(t[2]) :
       after[i] = UNION {ParseField(sub, t[1], msg, t[2][i]) : msg \in after[i - 1]}
  /\ ParseFields(sub, t) = after[Len(t[2])]

LEMMA ParseFieldsIs ==
  ASSUME NEW sub, NEW t, Len(t[2]) \in Nat
  PROVE  \E after : FieldsParse(sub, t, after)
<1> DEFINE N == Len(t[2])
           b == {NewMessage(t[1])}
           next(k, S) == UNION {ParseField(sub, t[1], msg, t[2][k]) : msg \in S}
           body(h, n) == [k \in 0 .. n |-> IF k = 0 THEN b ELSE next(k, h[k - 1])]
           after == CHOOSE h : h = body(h, N)
<1>0. ParseFields(sub, t) = after[Len(t[2])]
  BY DEF ParseFields
<1>1. N \in Nat
  BY DEF N
<1> HIDE DEF N, b, next
<1> DEFINE T == {n \in 0 .. N : \E h : h = body(h, n)}
<1>2. 0 \in T
  <2> DEFINE h == [k \in 0 .. 0 |-> b]
  <2>1. h = body(h, 0)
    OBVIOUS
  <2> HIDE DEF h, body
  <2> QED
    BY <1>1, <2>1
<1>3. ASSUME NEW n \in 0 .. N - 1, n \in T PROVE n + 1 \in T
  <2>1. PICK h : h = body(h, n)
    BY <1>3
  <2> DEFINE f == [k \in 0 .. n + 1 |-> IF k = n + 1 THEN next(k, h[n]) ELSE h[k]]
  <2>2. ASSUME NEW k \in 0 .. n + 1 PROVE f[k] = IF k = 0 THEN b ELSE next(k, f[k - 1])
    <3>1. CASE k = n + 1
      <4>1. k # 0 /\ k - 1 = n /\ n \in 0 .. n + 1 /\ n # n + 1
        BY <1>1, <3>1
      <4>2. f[k] = next(k, h[n]) /\ f[n] = h[n]
        BY <3>1, <4>1
      <4> HIDE DEF f
      <4> QED
        BY <4>1, <4>2
    <3>2. CASE k # n + 1
      <4>1. k \in 0 .. n /\ (k # 0 => k - 1 \in 0 .. n + 1 /\ k - 1 # n + 1)
        BY <1>1, <3>2
      <4>2. h[k] = IF k = 0 THEN b ELSE next(k, h[k - 1])
        BY <2>1, <4>1
      <4>3. f[k] = h[k] /\ (k # 0 => f[k - 1] = h[k - 1])
        BY <3>2, <4>1
      <4> HIDE DEF f
      <4> QED
        BY <4>2, <4>3
    <3> QED
      BY <3>1, <3>2
  <2>3. f = body(f, n + 1)
    <3>1. f = [k \in 0 .. n + 1 |-> f[k]]
      OBVIOUS
    <3> HIDE DEF f
    <3> QED
      BY <2>2, <3>1
  <2>4. n + 1 \in 0 .. N
    BY <1>1
  <2> HIDE DEF f, body
  <2> QED
    BY <2>3, <2>4
<1>4. body(after, N) = after
  <2>1. 0 .. N \subseteq T
    <3> HIDE DEF T
    <3> QED
      BY <1>1, <1>2, <1>3, Induction
  <2>2. \E h : h = body(h, N)
    BY <1>1, <2>1
  <2> HIDE DEF body
  <2> QED
    BY <2>2
<1> HIDE DEF after, T
<1>5. after[0] = b /\ \A k \in 1 .. N : after[k] = next(k, after[k - 1])
  <2>1. \A k \in 0 .. N : after[k] = IF k = 0 THEN b ELSE next(k, after[k - 1])
    BY <1>4
  <2>2. 0 \in 0 .. N /\ \A k \in 1 .. N : k \in 0 .. N /\ k # 0
    BY <1>1
  <2> QED
    BY <2>1, <2>2
<1> QED
  BY <1>0, <1>5 DEF N, b, next, FieldsParse

\* The good ones of the first elements of a repeated field.
ElementsParse(sub, fd, values, good) ==
  /\ good[0] = <<>>
  /\ \A i \in 1 .. Len(values) :
       good[i] = IF ParseFieldValue(sub, fd, values[i]) = {} THEN good[i - 1]
                 ELSE Append(good[i - 1], CHOOSE e \in ParseFieldValue(sub, fd, values[i]) : TRUE)
  /\ GoodElements(sub, fd, values) = good[Len(values)]

LEMMA GoodElementsIs ==
  ASSUME NEW sub, NEW fd, NEW values, Len(values) \in Nat
  PROVE  \E good : ElementsParse(sub, fd, values, good)
<1> DEFINE N == Len(values)
           b == <<>>
           next(k, s) == IF ParseFieldValue(sub, fd, values[k]) = {} THEN s
                         ELSE Append(s, CHOOSE e \in ParseFieldValue(sub, fd, values[k]) : TRUE)
           body(h, n) == [k \in 0 .. n |-> IF k = 0 THEN b ELSE next(k, h[k - 1])]
           good == CHOOSE h : h = body(h, N)
<1>0. GoodElements(sub, fd, values) = good[Len(values)]
  BY DEF GoodElements
<1>1. N \in Nat
  BY DEF N
<1> HIDE DEF N, b, next
<1> DEFINE T == {n \in 0 .. N : \E h : h = body(h, n)}
<1>2. 0 \in T
  <2> DEFINE h == [k \in 0 .. 0 |-> b]
  <2>1. h = body(h, 0)
    OBVIOUS
  <2> HIDE DEF h, body
  <2> QED
    BY <1>1, <2>1
<1>3. ASSUME NEW n \in 0 .. N - 1, n \in T PROVE n + 1 \in T
  <2>1. PICK h : h = body(h, n)
    BY <1>3
  <2> DEFINE f == [k \in 0 .. n + 1 |-> IF k = n + 1 THEN next(k, h[n]) ELSE h[k]]
  <2>2. ASSUME NEW k \in 0 .. n + 1 PROVE f[k] = IF k = 0 THEN b ELSE next(k, f[k - 1])
    <3>1. CASE k = n + 1
      <4>1. k # 0 /\ k - 1 = n /\ n \in 0 .. n + 1 /\ n # n + 1
        BY <1>1, <3>1
      <4>2. f[k] = next(k, h[n]) /\ f[n] = h[n]
        BY <3>1, <4>1
      <4> HIDE DEF f
      <4> QED
        BY <4>1, <4>2
    <3>2. CASE k # n + 1
      <4>1. k \in 0 .. n /\ (k # 0 => k - 1 \in 0 .. n + 1 /\ k - 1 # n + 1)
        BY <1>1, <3>2
      <4>2. h[k] = IF k = 0 THEN b ELSE next(k, h[k - 1])
        BY <2>1, <4>1
      <4>3. f[k] = h[k] /\ (k # 0 => f[k - 1] = h[k - 1])
        BY <3>2, <4>1
      <4> HIDE DEF f
      <4> QED
        BY <4>2, <4>3
    <3> QED
      BY <3>1, <3>2
  <2>3. f = body(f, n + 1)
    <3>1. f = [k \in 0 .. n + 1 |-> f[k]]
      OBVIOUS
    <3> HIDE DEF f
    <3> QED
      BY <2>2, <3>1
  <2>4. n + 1 \in 0 .. N
    BY <1>1
  <2> HIDE DEF f, body
  <2> QED
    BY <2>3, <2>4
<1>4. body(good, N) = good
  <2>1. 0 .. N \subseteq T
    <3> HIDE DEF T
    <3> QED
      BY <1>1, <1>2, <1>3, Induction
  <2>2. \E h : h = body(h, N)
    BY <1>1, <2>1
  <2> HIDE DEF body
  <2> QED
    BY <2>2
<1> HIDE DEF good, T
<1>5. good[0] = b /\ \A k \in 1 .. N : good[k] = next(k, good[k - 1])
  <2>1. \A k \in 0 .. N : good[k] = IF k = 0 THEN b ELSE next(k, good[k - 1])
    BY <1>4
  <2>2. 0 \in 0 .. N /\ \A k \in 1 .. N : k \in 0 .. N /\ k # 0
    BY <1>1
  <2> QED
    BY <2>1, <2>2
<1> QED
  BY <1>0, <1>5 DEF N, b, next, ElementsParse

\* What the first fields of a tree give a repeated field.
FieldsGive(sub, fd, tree, given) ==
  /\ given[0] = <<>>
  /\ \A i \in 1 .. Len(tree) :
       given[i] = IF tree[i].name # fd.name THEN given[i - 1]
                  ELSE given[i - 1] \o [j \in DOMAIN tree[i].value |-> ElementMeaning(sub, fd, tree[i].value[j])]
  /\ Given(sub, fd, tree) = given[Len(tree)]

LEMMA GivenIs ==
  ASSUME NEW sub, NEW fd, NEW tree, Len(tree) \in Nat
  PROVE  \E given : FieldsGive(sub, fd, tree, given)
<1> DEFINE N == Len(tree)
           b == <<>>
           next(k, s) == IF tree[k].name # fd.name THEN s
                         ELSE s \o [j \in DOMAIN tree[k].value |-> ElementMeaning(sub, fd, tree[k].value[j])]
           body(h, n) == [k \in 0 .. n |-> IF k = 0 THEN b ELSE next(k, h[k - 1])]
           given == CHOOSE h : h = body(h, N)
<1>0. Given(sub, fd, tree) = given[Len(tree)]
  BY DEF Given
<1>1. N \in Nat
  BY DEF N
<1> HIDE DEF N, b, next
<1> DEFINE T == {n \in 0 .. N : \E h : h = body(h, n)}
<1>2. 0 \in T
  <2> DEFINE h == [k \in 0 .. 0 |-> b]
  <2>1. h = body(h, 0)
    OBVIOUS
  <2> HIDE DEF h, body
  <2> QED
    BY <1>1, <2>1
<1>3. ASSUME NEW n \in 0 .. N - 1, n \in T PROVE n + 1 \in T
  <2>1. PICK h : h = body(h, n)
    BY <1>3
  <2> DEFINE f == [k \in 0 .. n + 1 |-> IF k = n + 1 THEN next(k, h[n]) ELSE h[k]]
  <2>2. ASSUME NEW k \in 0 .. n + 1 PROVE f[k] = IF k = 0 THEN b ELSE next(k, f[k - 1])
    <3>1. CASE k = n + 1
      <4>1. k # 0 /\ k - 1 = n /\ n \in 0 .. n + 1 /\ n # n + 1
        BY <1>1, <3>1
      <4>2. f[k] = next(k, h[n]) /\ f[n] = h[n]
        BY <3>1, <4>1
      <4> HIDE DEF f
      <4> QED
        BY <4>1, <4>2
    <3>2. CASE k # n + 1
      <4>1. k \in 0 .. n /\ (k # 0 => k - 1 \in 0 .. n + 1 /\ k - 1 # n + 1)
        BY <1>1, <3>2
      <4>2. h[k] = IF k = 0 THEN b ELSE next(k, h[k - 1])
        BY <2>1, <4>1
      <4>3. f[k] = h[k] /\ (k # 0 => f[k - 1] = h[k - 1])
        BY <3>2, <4>1
      <4> HIDE DEF f
      <4> QED
        BY <4>2, <4>3
    <3> QED
      BY <3>1, <3>2
  <2>3. f = body(f, n + 1)
    <3>1. f = [k \in 0 .. n + 1 |-> f[k]]
      OBVIOUS
    <3> HIDE DEF f
    <3> QED
      BY <2>2, <3>1
  <2>4. n + 1 \in 0 .. N
    BY <1>1
  <2> HIDE DEF f, body
  <2> QED
    BY <2>3, <2>4
<1>4. body(given, N) = given
  <2>1. 0 .. N \subseteq T
    <3> HIDE DEF T
    <3> QED
      BY <1>1, <1>2, <1>3, Induction
  <2>2. \E h : h = body(h, N)
    BY <1>1, <2>1
  <2> HIDE DEF body
  <2> QED
    BY <2>2
<1> HIDE DEF given, T
<1>5. given[0] = b /\ \A k \in 1 .. N : given[k] = next(k, given[k - 1])
  <2>1. \A k \in 0 .. N : given[k] = IF k = 0 THEN b ELSE next(k, given[k - 1])
    BY <1>4
  <2>2. 0 \in 0 .. N /\ \A k \in 1 .. N : k \in 0 .. N /\ k # 0
    BY <1>1
  <2> QED
    BY <2>1, <2>2
<1> QED
  BY <1>0, <1>5 DEF N, b, next, FieldsGive

----------------------------------------------------------------------------
(* A message and its tree.                                                 *)

\* A field is found by its name.
LEMMA FieldIs ==
  ASSUME NEW type \in DOMAIN MessageTypes, NEW name \in FieldNames(type)
  PROVE  /\ FindFieldByName(type, name) \in Fields(type)
         /\ FindFieldByName(type, name).name = name
<1>1. \E fd \in Fields(type) : fd.name = name
  BY DEF FieldNames
<1> QED
  BY <1>1 DEF FindFieldByName

LEMMA NamesOfFields ==
  ASSUME NEW type \in DOMAIN MessageTypes, NEW fd \in Fields(type)
  PROVE  fd.name \in FieldNames(type) /\ FindFieldByName(type, fd.name) = fd
  BY TypesAssumption, ValuesAssumption DEF FieldNames

LEMMA LastCounts ==
  ASSUME NEW fd, NEW value, IsRepeated(fd) => Len(value) \in Nat \ {0} /\ DOMAIN value = 1 .. Len(value)
  PROVE  Counting("last", fd, value) \subseteq Counting("all", fd, value)
<1>1. CASE ~IsRepeated(fd)
  BY <1>1 DEF Counting
<1>2. CASE IsRepeated(fd)
  <2>1. Len(value) \in DOMAIN value
    BY <1>2
  <2> QED
    BY <1>2, <2>1 DEF Counting
<1> QED
  BY <1>1, <1>2

\* What a tree gives a field.
ValuesFor(sub, t, fd) ==
  UNION {UNION {ParseFieldValue(sub, fd, v) : v \in Counting("all", fd, t[2][i].value)} :
         i \in {j \in DOMAIN t[2] : t[2][j].name = fd.name /\ t[2][j].value # NoValue}}

\* Messages that have nothing but what a tree gives them.
MessageFrom(sub, t, msg) ==
  /\ DOMAIN msg = FieldNames(t[1])
  /\ \A fd \in Fields(t[1]) :
       /\ IsRepeated(fd) => msg[fd.name] \in Seq(ValuesFor(sub, t, fd))
       /\ ~IsRepeated(fd) => msg[fd.name] \in ValuesFor(sub, t, fd) \cup {Unset, DefaultValue(fd)}

LEMMA GoodElementsFrom ==
  ASSUME NEW sub, NEW fd, NEW values, Len(values) \in Nat, NEW S,
         \A i \in 1 .. Len(values) : ParseFieldValue(sub, fd, values[i]) \subseteq S
  PROVE  GoodElements(sub, fd, values) \in Seq(S)
<1> DEFINE N == Len(values)
<1>1. PICK good : ElementsParse(sub, fd, values, good)
  BY GoodElementsIs
<1> DEFINE T == {n \in 0 .. N : good[n] \in Seq(S)}
<1>2. 0 \in T
  <2>1. good[0] = <<>> /\ 0 \in 0 .. N
    BY <1>1 DEF ElementsParse
  <2>2. <<>> \in Seq(S)
    OBVIOUS
  <2> QED
    BY <2>1, <2>2
<1>3. ASSUME NEW n \in 0 .. N - 1, n \in T PROVE n + 1 \in T
  <2>1. n + 1 \in 1 .. N /\ n + 1 \in 0 .. N /\ (n + 1) - 1 = n
    OBVIOUS
  <2> DEFINE v == ParseFieldValue(sub, fd, values[n + 1])
  <2>2. good[n + 1] = IF v = {} THEN good[n] ELSE Append(good[n], CHOOSE e \in v : TRUE)
    BY <1>1, <2>1 DEF ElementsParse
  <2>3. v \subseteq S /\ good[n] \in Seq(S)
    BY <1>3, <2>1
  <2> HIDE DEF v
  <2>4. v # {} => (CHOOSE e \in v : TRUE) \in S
    BY <2>3
  <2>5. good[n + 1] \in Seq(S)
    BY <2>2, <2>3, <2>4
  <2> QED
    BY <2>1, <2>5
<1>4. 0 .. N \subseteq T
  <2> HIDE DEF T
  <2> QED
    BY <1>2, <1>3, Induction
<1>5. good[N] \in Seq(S)
  BY <1>4
<1> QED
  BY <1>1, <1>5 DEF ElementsParse

LEMMA NewMessageFrom ==
  ASSUME NEW sub, NEW t, t[1] \in DOMAIN MessageTypes
  PROVE  MessageFrom(sub, t, NewMessage(t[1]))
<1> DEFINE msg == NewMessage(t[1])
<1>1. DOMAIN msg = FieldNames(t[1])
  BY DEF NewMessage
<1>2. ASSUME NEW fd \in Fields(t[1]) PROVE msg[fd.name] = DefaultValue(fd) /\ (IsRepeated(fd) => DefaultValue(fd) = <<>>)
  <2>1. msg[fd.name] = DefaultValue(fd)
    BY NamesOfFields DEF NewMessage
  <2>2. IsRepeated(fd) => DefaultValue(fd) = <<>>
    BY DEF DefaultValue
  <2> QED
    BY <2>1, <2>2
<1> HIDE DEF msg
<1>3. \A S : <<>> \in Seq(S)
  OBVIOUS
<1>4. ASSUME NEW fd \in Fields(t[1])
      PROVE  /\ IsRepeated(fd) => msg[fd.name] \in Seq(ValuesFor(sub, t, fd))
             /\ ~IsRepeated(fd) => msg[fd.name] \in ValuesFor(sub, t, fd) \cup {Unset, DefaultValue(fd)}
  BY <1>2, <1>3
<1>5. MessageFrom(sub, t, msg)
  BY <1>1, <1>4 DEF MessageFrom
<1> QED
  BY <1>5 DEF msg

\* No field adds anything else.
LEMMA ParseFieldKeeps ==
  ASSUME NEW sub, NEW t, t[1] \in DOMAIN MessageTypes, TreeFits(t), NEW i \in DOMAIN t[2],
         NEW msg, MessageFrom(sub, t, msg), NEW new \in ParseField(sub, t[1], msg, t[2][i])
  PROVE  MessageFrom(sub, t, new)
<1> DEFINE type == t[1]
           field == t[2][i]
           name == field.name
           value == field.value
           fd == FindFieldByName(type, name)
<1>1. CASE name \notin FieldNames(type)
  BY <1>1 DEF ParseField
<1>2. CASE name \in FieldNames(type)
  <2>1. fd \in Fields(type) /\ fd.name = name
    BY <1>2, FieldIs
  <2>2. value # NoValue
    BY <1>2 DEF ParseField
  <2>3. \A v \in Counting("all", fd, value) : ParseFieldValue(sub, fd, v) \subseteq ValuesFor(sub, t, fd)
    BY <2>1, <2>2 DEF ValuesFor
  <2>4. \A f \in Fields(type) : f.name = fd.name => f = fd
    BY <2>1, NamesOfFields
  <2>5. HasValue(type, field)
    BY <1>2, <2>2 DEF HasValue
  <2>6. CASE IsRepeated(fd)
    <3> DEFINE good == GoodElements(sub, fd, value)
    <3>1. Len(value) \in Nat \ {0} /\ DOMAIN value = 1 .. Len(value)
      BY <2>5, <2>6 DEF TreeFits
    <3>2. new = AddToField(msg, fd, good)
      <4>1. new \in ParseRepeated(sub, msg, fd, value)
        BY <1>2, <2>2, <2>6 DEF ParseField
      <4> QED
        BY <4>1 DEF ParseRepeated
    <3>3. good \in Seq(ValuesFor(sub, t, fd))
      <4>1. \A j \in 1 .. Len(value) : ParseFieldValue(sub, fd, value[j]) \subseteq ValuesFor(sub, t, fd)
        BY <2>3, <2>6, <3>1 DEF Counting
      <4> QED
        BY <3>1, <4>1, GoodElementsFrom
    <3> HIDE DEF good, fd
    <3>4. /\ DOMAIN new = DOMAIN msg /\ new[fd.name] = msg[fd.name] \o good
          /\ \A f \in Fields(type) : f.name # fd.name => new[f.name] = msg[f.name]
      <4>1. fd.name \in DOMAIN msg
        BY <1>2, <2>1 DEF MessageFrom
      <4>2. \A f \in Fields(type) : f.name \in DOMAIN msg
        BY DEF MessageFrom, FieldNames
      <4> QED
        BY <3>2, <4>1, <4>2 DEF AddToField
    <3>5. new[fd.name] \in Seq(ValuesFor(sub, t, fd))
      <4>1. msg[fd.name] \in Seq(ValuesFor(sub, t, fd))
        BY <2>1, <2>6 DEF MessageFrom
      <4> QED
        BY <3>3, <3>4, <4>1
    <3> QED
      BY <2>4, <2>6, <3>4, <3>5 DEF MessageFrom
  <2>7. CASE ~IsRepeated(fd)
    <3>1. PICK v \in ParseFieldValue(sub, fd, value) : new = SetField(type, msg, fd, v)
      <4>1. new \in ParseSingle(sub, type, msg, fd, value)
        BY <1>2, <2>2, <2>7 DEF ParseField
      <4> QED
        BY <4>1 DEF ParseSingle
    <3>2. v \in ValuesFor(sub, t, fd)
      BY <2>3, <2>7 DEF Counting
    <3>3. DOMAIN new = FieldNames(type)
      BY <3>1 DEF SetField
    <3>4. ASSUME NEW f \in Fields(type)
          PROVE  /\ f = fd => new[f.name] = v
                 /\ f # fd => new[f.name] = msg[f.name] \/ (new[f.name] = Unset /\ ~IsRepeated(f))
      <4>1. f.name \in FieldNames(type) /\ FindFieldByName(type, f.name) = f
        BY NamesOfFields
      <4>2. new[f.name] = IF f.name = fd.name THEN v
                          ELSE IF fd.oneof # "" /\ f.oneof = fd.oneof THEN Unset ELSE msg[f.name]
        BY <3>1, <4>1 DEF SetField
      <4>3. f.oneof # "" => ~IsRepeated(f)
        BY TypesAssumption, ValuesAssumption
      <4> HIDE DEF fd
      <4> QED
        BY <2>4, <4>2, <4>3
    <3> HIDE DEF fd
    <3> QED
      BY <2>7, <3>2, <3>3, <3>4 DEF MessageFrom
  <2> QED
    BY <2>6, <2>7
<1> QED
  BY <1>1, <1>2

\* What a tree becomes has nothing else.
LEMMA ParseFieldsFrom ==
  ASSUME NEW sub, NEW t, t[1] \in DOMAIN MessageTypes, TreeFits(t), NEW msg \in ParseFields(sub, t)
  PROVE  MessageFrom(sub, t, msg)
<1> DEFINE N == Len(t[2])
           Kept(S) == \A m \in S : MessageFrom(sub, t, m)
<1>1. N \in Nat /\ DOMAIN t[2] = 1 .. N
  BY DEF TreeFits
<1>2. PICK after : FieldsParse(sub, t, after)
  BY <1>1, ParseFieldsIs
<1> DEFINE T == {n \in 0 .. N : Kept(after[n])}
<1>3. 0 \in T
  <2>1. after[0] = {NewMessage(t[1])} /\ 0 \in 0 .. N
    BY <1>1, <1>2 DEF FieldsParse
  <2> QED
    BY <2>1, NewMessageFrom
<1>4. ASSUME NEW n \in 0 .. N - 1, n \in T PROVE n + 1 \in T
  <2>1. n + 1 \in 1 .. N /\ n + 1 \in 0 .. N /\ (n + 1) - 1 = n
    BY <1>1
  <2>2. after[n + 1] = UNION {ParseField(sub, t[1], m, t[2][n + 1]) : m \in after[n]}
    BY <1>2, <2>1 DEF FieldsParse
  <2>3. Kept(after[n + 1])
    <3> TAKE new \in after[n + 1]
    <3>1. PICK m \in after[n] : new \in ParseField(sub, t[1], m, t[2][n + 1])
      BY <2>2
    <3>2. MessageFrom(sub, t, m) /\ n + 1 \in DOMAIN t[2]
      BY <1>1, <1>4, <2>1
    <3> QED
      BY <3>1, <3>2, ParseFieldKeeps
  <2> HIDE DEF Kept
  <2> QED
    BY <2>1, <2>3
<1>5. 0 .. N \subseteq T
  <2> HIDE DEF T
  <2> QED
    BY <1>1, <1>3, <1>4, Induction
<1>6. Kept(after[N])
  BY <1>1, <1>5
<1> QED
  BY <1>2, <1>6 DEF FieldsParse

\* A number that is converted is in the range of its field.
LEMMA ParsedInRange ==
  ASSUME NEW sub, NEW fd, fd.kind \in {"int", "uint"} => fd.of \in 1 .. LongBits, fd.kind # "message",
         NEW text, NEW v \in ParseFieldValue(sub, fd, text)
  PROVE  InRange(fd, v)
<1>1. v = ParseScalar(fd, text) /\ v # Bad
  BY DEF ParseFieldValue
<1>2. CASE fd.kind = "int"
  <2>1. v = ParseInt(fd, text)
    BY <1>1, <1>2 DEF ParseScalar
  <2>2. Converted(text) \in SignedRange(LongBits) /\ v = NarrowSigned(Converted(text), fd.of)
    BY <1>1, <2>1 DEF ParseInt, Throws
  <2>3. Converted(text) \in Int
    BY <2>2, PowersOfWidth, WidthAssumption DEF SignedRange
  <2>4. v \in SignedRange(fd.of)
    BY <1>2, <2>2, <2>3, NarrowInRange
  <2> QED
    BY <1>2, <2>4 DEF InRange
<1>3. CASE fd.kind = "uint"
  <2>1. v = ParseUInt(fd, text)
    BY <1>1, <1>3 DEF ParseScalar
  <2>2. Converted(text) \in UnsignedRange(LongBits) /\ v = NarrowUnsigned(Converted(text), fd.of)
    BY <1>1, <2>1 DEF ParseUInt, Throws
  <2>3. Converted(text) \in Int
    BY <2>2, PowersOfWidth, WidthAssumption DEF UnsignedRange
  <2>4. v \in UnsignedRange(fd.of)
    BY <1>3, <2>2, <2>3, NarrowInRange
  <2> QED
    BY <1>3, <2>4 DEF InRange
<1>4. CASE fd.kind \notin {"int", "uint"}
  BY <1>1, <1>4 DEF InRange
<1> QED
  BY <1>2, <1>3, <1>4

LEMMA DefaultInRange ==
  ASSUME NEW type \in DOMAIN MessageTypes, NEW fd \in Fields(type), ~IsRepeated(fd), DefaultValue(fd) # Unset
  PROVE  InRange(fd, DefaultValue(fd)) /\ fd.kind # "message"
<1>1. DefaultValue(fd) # Bad /\ (fd.kind \in {"int", "uint"} => fd.of \in 1 .. LongBits)
  BY TypesAssumption, ValuesAssumption
<1>2. fd.oneof = "" /\ fd.kind # "message"
  BY DEF DefaultValue
<1>3. CASE fd.kind = "int"
  <2>1. DefaultValue(fd) = 0
    BY <1>2, <1>3 DEF DefaultValue
  <2>2. 0 \in SignedRange(fd.of)
    BY <1>1, <1>3, PowersOfWidth DEF SignedRange
  <2> QED
    BY <1>2, <1>3, <2>1, <2>2 DEF InRange
<1>4. CASE fd.kind = "uint"
  <2>1. DefaultValue(fd) = 0
    BY <1>2, <1>4 DEF DefaultValue
  <2>2. 0 \in UnsignedRange(fd.of)
    BY <1>1, <1>4, PowersOfWidth DEF UnsignedRange
  <2> QED
    BY <1>2, <1>4, <2>1, <2>2 DEF InRange
<1>5. CASE fd.kind \notin {"int", "uint"}
  BY <1>1, <1>2, <1>5 DEF InRange
<1> QED
  BY <1>2, <1>3, <1>4, <1>5

\* What a tree gives a field is in its range, or what a tree below has become.
LEMMA GivenInRange ==
  ASSUME NEW sub, NEW t, t[1] \in DOMAIN MessageTypes, NEW fd \in Fields(t[1]), NEW v \in ValuesFor(sub, t, fd)
  PROVE  /\ InRange(fd, v)
         /\ fd.kind = "message" => \E u \in SubTrees("all", t) : u[1] = fd.of /\ v \in sub[u]
<1>1. PICK i \in DOMAIN t[2] :
        /\ t[2][i].name = fd.name /\ t[2][i].value # NoValue
        /\ \E x \in Counting("all", fd, t[2][i].value) : v \in ParseFieldValue(sub, fd, x)
  BY DEF ValuesFor
<1>2. PICK x \in Counting("all", fd, t[2][i].value) : v \in ParseFieldValue(sub, fd, x)
  BY <1>1
<1>3. CASE fd.kind # "message"
  BY <1>2, <1>3, ParsedInRange, TypesAssumption, ValuesAssumption
<1>4. CASE fd.kind = "message"
  <2> DEFINE u == <<fd.of, x>>
  <2>1. InRange(fd, v)
    BY <1>4 DEF InRange
  <2>2. u[1] = fd.of /\ v \in sub[u]
    BY <1>2, <1>4 DEF ParseFieldValue
  <2>3. u \in FieldTrees("all", t[1], t[2][i])
    <3>1. HasValue(t[1], t[2][i]) /\ FindFieldByName(t[1], t[2][i].name) = fd
      BY <1>1, NamesOfFields DEF HasValue
    <3> QED
      BY <1>2, <1>4, <3>1 DEF FieldTrees
  <2>4. u \in SubTrees("all", t)
    BY <2>3 DEF SubTrees
  <2> HIDE DEF u
  <2> QED
    BY <2>1, <2>2, <2>4
<1> QED
  BY <1>3, <1>4

LEMMA MessageFromTyped ==
  ASSUME NEW sub, NEW t, t[1] \in DOMAIN MessageTypes, NEW msg, MessageFrom(sub, t, msg), NEW m, m = <<t[1], msg>>
  PROVE  /\ FieldsTyped(m)
         /\ \A q \in SubMessages(m) : \E u \in SubTrees("all", t) : u[1] = q[1] /\ q[2] \in sub[u]
<1>1. m[1] = t[1] /\ m[2] = msg
  OBVIOUS
<1>2. ASSUME NEW fd \in Fields(t[1]), NEW v \in ValuesIn(fd, msg)
      PROVE  v \in ValuesFor(sub, t, fd) \/ (~IsRepeated(fd) /\ v = DefaultValue(fd) /\ v # Unset)
  <2>1. CASE IsRepeated(fd)
    <3>1. PICK i \in DOMAIN msg[fd.name] : v = msg[fd.name][i]
      BY <1>2, <2>1 DEF ValuesIn
    <3>2. msg[fd.name] \in Seq(ValuesFor(sub, t, fd))
      BY <2>1 DEF MessageFrom
    <3> QED
      BY <3>1, <3>2
  <2>2. CASE ~IsRepeated(fd)
    BY <1>2, <2>2 DEF ValuesIn, MessageFrom
  <2> QED
    BY <2>1, <2>2
<1>3. FieldsTyped(m)
  <2>1. \A fd \in Fields(t[1]) : \A v \in ValuesIn(fd, msg) : InRange(fd, v)
    BY <1>2, GivenInRange, DefaultInRange
  <2>2. DOMAIN msg = FieldNames(t[1])
    BY DEF MessageFrom
  <2> QED
    BY <1>1, <2>1, <2>2 DEF FieldsTyped
<1>4. ASSUME NEW q \in SubMessages(m) PROVE \E u \in SubTrees("all", t) : u[1] = q[1] /\ q[2] \in sub[u]
  <2>1. PICK fd \in Fields(t[1]) : fd.kind = "message" /\ \E v \in ValuesIn(fd, msg) : q = <<fd.of, v>>
    BY <1>1 DEF SubMessages
  <2>2. PICK v \in ValuesIn(fd, msg) : q = <<fd.of, v>>
    BY <2>1
  <2>3. v \in ValuesFor(sub, t, fd)
    BY <1>2, <2>1, DefaultInRange
  <2>4. q[1] = fd.of /\ q[2] = v
    BY <2>2
  <2> QED
    BY <2>1, <2>3, <2>4, GivenInRange
<1> QED
  BY <1>3, <1>4

----------------------------------------------------------------------------
(* All the trees of a message.                                             *)

\* The trees of a message that the grammar can give.
RootFits(root) ==
  /\ root[1] \in DOMAIN MessageTypes
  /\ TreesBelow("all", root, MaxDepth) = {}
  /\ \A n \in 0 .. MaxDepth : \A t \in TreesBelow("all", root, n) : TreeFits(t)

LEMMA SubTreeBelow ==
  ASSUME NEW which, NEW root, NEW k \in 0 .. MaxDepth - 1, NEW t \in TreesBelow(which, root, k),
         NEW u \in SubTrees(which, t)
  PROVE  u \in TreesBelow(which, root, k + 1)
<1>1. k + 1 \in 1 .. MaxDepth /\ (k + 1) - 1 = k
  BY DepthAssumption
<1>2. TreesBelow(which, root, k + 1) = UNION {SubTrees(which, w) : w \in TreesBelow(which, root, k)}
  BY <1>1, TreesBelowIs
<1> QED
  BY <1>2

LEMMA TreesHaveTypes ==
  ASSUME NEW root, RootFits(root), NEW n \in 0 .. MaxDepth, NEW t \in TreesBelow("all", root, n)
  PROVE  t[1] \in DOMAIN MessageTypes
<1> DEFINE N == MaxDepth
           Typed(S) == \A u \in S : u[1] \in DOMAIN MessageTypes
           T == {k \in 0 .. N : Typed(TreesBelow("all", root, k))}
<1>1. N \in Nat
  BY DepthAssumption
<1>2. 0 \in T
  <2>1. TreesBelow("all", root, 0) = {root} /\ 0 \in 0 .. N
    BY <1>1, TreesBelowIs
  <2> QED
    BY <2>1 DEF RootFits
<1>3. ASSUME NEW k \in 0 .. N - 1, k \in T PROVE k + 1 \in T
  <2>1. k + 1 \in 1 .. N /\ k + 1 \in 0 .. N /\ (k + 1) - 1 = k
    BY <1>1
  <2>2. TreesBelow("all", root, k + 1) = UNION {SubTrees("all", u) : u \in TreesBelow("all", root, k)}
    BY <2>1, TreesBelowIs
  <2>3. Typed(TreesBelow("all", root, k + 1))
    <3> TAKE w \in TreesBelow("all", root, k + 1)
    <3>1. PICK u \in TreesBelow("all", root, k) : w \in SubTrees("all", u)
      BY <2>2
    <3>2. u[1] \in DOMAIN MessageTypes
      BY <1>3
    <3>3. PICK i \in DOMAIN u[2] : w \in FieldTrees("all", u[1], u[2][i])
      BY <3>1 DEF SubTrees
    <3> DEFINE fd == FindFieldByName(u[1], u[2][i].name)
    <3>4. /\ HasValue(u[1], u[2][i]) /\ fd.kind = "message"
          /\ w \in {<<fd.of, v>> : v \in Counting("all", fd, u[2][i].value)}
      BY <3>3 DEF FieldTrees
    <3>5. w[1] = fd.of
      BY <3>4
    <3>6. fd \in Fields(u[1])
      BY <3>2, <3>4, FieldIs DEF HasValue
    <3> QED
      BY <3>2, <3>4, <3>5, <3>6, TypesAssumption, ValuesAssumption
  <2> HIDE DEF Typed
  <2> QED
    BY <2>1, <2>3
<1>4. 0 .. N \subseteq T
  <2> HIDE DEF T
  <2> QED
    BY <1>1, <1>2, <1>3, Induction
<1> QED
  BY <1>4

\* Whatever the grammar can give: the message that a tree becomes has all the
\* fields of its type and values in their ranges, and so has every message in it.
THEOREM ParsedIsTyped ==
  ASSUME NEW type, NEW tree, RootFits(<<type, tree>>), NEW msg \in ParseMessage(type, tree)
  PROVE  WellTyped(type, msg)
<1> DEFINE N == MaxDepth
           root == <<type, tree>>
<1>1. N \in Nat /\ N # 0
  BY DepthAssumption
<1>2. PICK parsed : Parses(root, parsed) /\ ParseMessage(type, tree) = parsed[N][root]
  BY ParseMessageIs
<1> DEFINE level(n) == MessagesBelow(<<type, msg>>, n)
<1>3. /\ level(0) = {<<type, msg>>}
      /\ \A n \in 1 .. N : level(n) = UNION {SubMessages(m) : m \in level(n - 1)}
      /\ (\A n \in 0 .. N : \A m \in level(n) : FieldsTyped(m)) => WellTyped(type, msg)
  BY MessagesBelowIs DEF WellTyped
<1> HIDE DEF level
<1>4. RootFits(root) /\ msg \in parsed[N][root] /\ root[1] = type
  BY <1>2
<1> HIDE DEF root
<1> DEFINE Made(k, S) == \A q \in S : \E t \in TreesBelow("all", root, k) : t[1] = q[1] /\ q[2] \in parsed[N - k][t]
           T == {k \in 0 .. N : Made(k, level(k))}
<1>5. 0 \in T
  <2>1. level(0) = {<<type, msg>>}
    BY <1>3
  <2>2. TreesBelow("all", root, 0) = {root} /\ 0 \in 0 .. N /\ N - 0 = N
    BY <1>1, TreesBelowIs
  <2>3. Made(0, level(0))
    BY <1>4, <2>1, <2>2
  <2> HIDE DEF Made
  <2> QED
    BY <2>2, <2>3
<1>6. ASSUME NEW k \in 0 .. N, k \in T, NEW q \in level(k)
      PROVE  /\ FieldsTyped(q) /\ k # N
             /\ \A s \in SubMessages(q) : \E u \in TreesBelow("all", root, k + 1) :
                  u[1] = s[1] /\ s[2] \in parsed[N - (k + 1)][u]
  <2>1. PICK t \in TreesBelow("all", root, k) : t[1] = q[1] /\ q[2] \in parsed[N - k][t]
    BY <1>6
  <2>2. k # N
    BY <1>4, <2>1 DEF RootFits
  <2>3. N - k \in 1 .. N /\ N - (N - k) = k /\ (N - k) - 1 = N - (k + 1) /\ k + 1 \in 1 .. N /\ (k + 1) - 1 = k
    BY <1>1, <2>2
  <2> DEFINE sub == parsed[N - (k + 1)]
  <2>4. q[2] \in ParseFields(sub, t)
    <3>1. parsed[N - k] = [u \in TreesBelow("all", root, N - (N - k)) |-> ParseFields(parsed[(N - k) - 1], u)]
      BY <1>2, <2>3 DEF Parses
    <3> QED
      BY <2>1, <2>3, <3>1
  <2>5. t[1] \in DOMAIN MessageTypes /\ TreeFits(t)
    BY <1>4, <2>1, TreesHaveTypes DEF RootFits
  <2> HIDE DEF sub
  <2>6. MessageFrom(sub, t, q[2])
    BY <2>4, <2>5, ParseFieldsFrom
  <2>7. q = <<t[1], q[2]>>
    <3>1. q \in {<<type, msg>>} \/ \E m \in level(k - 1) : q \in SubMessages(m)
      <4>1. CASE k = 0
        BY <1>3, <1>6, <4>1
      <4>2. CASE k # 0
        <5>1. k \in 1 .. N
          BY <1>1, <4>2
        <5>2. level(k) = UNION {SubMessages(m) : m \in level(k - 1)}
          BY <1>3, <5>1
        <5> QED
          BY <1>6, <5>2
      <4> QED
        BY <4>1, <4>2
    <3>2. \A m : \A s \in SubMessages(m) : s = <<s[1], s[2]>>
      BY DEF SubMessages
    <3>3. q = <<q[1], q[2]>>
      BY <3>1, <3>2
    <3> QED
      BY <2>1, <3>3
  <2>8. /\ FieldsTyped(q)
        /\ \A s \in SubMessages(q) : \E u \in SubTrees("all", t) : u[1] = s[1] /\ s[2] \in sub[u]
    BY <2>5, <2>6, <2>7, MessageFromTyped
  <2>9. SubTrees("all", t) \subseteq TreesBelow("all", root, k + 1)
    <3>1. k \in 0 .. MaxDepth - 1
      BY <1>1, <2>2
    <3> HIDE DEF T, N
    <3> QED
      BY <2>1, <3>1, SubTreeBelow
  <2> QED
    BY <2>2, <2>8, <2>9 DEF sub
<1>7. ASSUME NEW k \in 0 .. N - 1, k \in T PROVE k + 1 \in T
  <2>1. k \in 0 .. N /\ k + 1 \in 0 .. N /\ k + 1 \in 1 .. N /\ (k + 1) - 1 = k
    BY <1>1
  <2>2. level(k + 1) = UNION {SubMessages(m) : m \in level(k)}
    BY <1>3, <2>1
  <2>3. Made(k + 1, level(k + 1))
    <3> SUFFICES ASSUME NEW s \in level(k + 1)
                 PROVE  \E u \in TreesBelow("all", root, k + 1) : u[1] = s[1] /\ s[2] \in parsed[N - (k + 1)][u]
      OBVIOUS
    <3>1. PICK q \in level(k) : s \in SubMessages(q)
      BY <2>2
    <3> QED
      BY <1>6, <1>7, <2>1, <3>1
  <2> HIDE DEF Made
  <2> QED
    BY <2>1, <2>3
<1>8. 0 .. N \subseteq T
  <2> HIDE DEF T
  <2> QED
    BY <1>1, <1>5, <1>7, Induction
<1>9. \A k \in 0 .. N : \A q \in level(k) : FieldsTyped(q)
  <2> HIDE DEF T
  <2> QED
    BY <1>6, <1>8
<1> QED
  BY <1>3, <1>9

----------------------------------------------------------------------------
(* Values that cannot be converted.                                        *)

LEMMA LastTrees ==
  ASSUME NEW t, TreeFits(t), NEW i \in DOMAIN t[2]
  PROVE  FieldTrees("last", t[1], t[2][i]) \subseteq FieldTrees("all", t[1], t[2][i])
<1> DEFINE type == t[1]
           field == t[2][i]
           fd == FindFieldByName(type, field.name)
<1>1. CASE HasValue(type, field) /\ fd.kind = "message"
  <2>1. IsRepeated(fd) => Len(field.value) \in Nat \ {0} /\ DOMAIN field.value = 1 .. Len(field.value)
    BY <1>1 DEF TreeFits
  <2>2. Counting("last", fd, field.value) \subseteq Counting("all", fd, field.value)
    BY <2>1, LastCounts
  <2> QED
    BY <1>1, <2>2 DEF FieldTrees
<1>2. CASE ~(HasValue(type, field) /\ fd.kind = "message")
  BY <1>2 DEF FieldTrees
<1> QED
  BY <1>1, <1>2

\* A field that is parsed has values; the last one is good.
LEMMA ParseFieldSucceeds ==
  ASSUME NEW sub, NEW type, NEW msg, NEW field, field.name \in FieldNames(type),
         ParseField(sub, type, msg, field) # {}
  PROVE  /\ field.value # NoValue
         /\ \A v \in Counting("last", FindFieldByName(type, field.name), field.value) :
              ParseFieldValue(sub, FindFieldByName(type, field.name), v) # {}
<1> DEFINE fd == FindFieldByName(type, field.name)
<1>1. field.value # NoValue
  BY DEF ParseField
<1>2. CASE IsRepeated(fd)
  <2>1. ParseRepeated(sub, msg, fd, field.value) # {}
    BY <1>1, <1>2 DEF ParseField
  <2>2. ParseFieldValue(sub, fd, field.value[Len(field.value)]) # {}
    BY <2>1 DEF ParseRepeated
  <2>3. Counting("last", fd, field.value) = {field.value[Len(field.value)]}
    BY <1>2 DEF Counting
  <2> QED
    BY <1>1, <2>2, <2>3
<1>3. CASE ~IsRepeated(fd)
  <2>1. ParseSingle(sub, type, msg, fd, field.value) # {}
    BY <1>1, <1>3 DEF ParseField
  <2>2. ParseFieldValue(sub, fd, field.value) # {}
    BY <2>1 DEF ParseSingle
  <2>3. Counting("last", fd, field.value) = {field.value}
    BY <1>3 DEF Counting
  <2> QED
    BY <1>1, <2>2, <2>3
<1> QED
  BY <1>2, <1>3

\* So have all fields of a tree that becomes a message.
LEMMA ParseFieldsSucceeds ==
  ASSUME NEW sub, NEW t, TreeFits(t), ParseFields(sub, t) # {}, NEW i \in DOMAIN t[2]
  PROVE  /\ ~Faulty("last", t[1], t[2][i])
         /\ \A u \in FieldTrees("last", t[1], t[2][i]) : sub[u] # {}
<1> DEFINE N == Len(t[2])
           type == t[1]
           field == t[2][i]
           fd == FindFieldByName(type, field.name)
<1>1. N \in Nat /\ DOMAIN t[2] = 1 .. N
  BY DEF TreeFits
<1>2. PICK after : FieldsParse(sub, t, after)
  BY <1>1, ParseFieldsIs
<1> DEFINE T == {n \in 0 .. N : after[N - n] # {}}
<1>3. 0 \in T
  <2>1. N - 0 = N /\ 0 \in 0 .. N
    BY <1>1
  <2> QED
    BY <1>2, <2>1 DEF FieldsParse
<1>4. ASSUME NEW n \in 0 .. N - 1, n \in T PROVE n + 1 \in T
  <2>1. n + 1 \in 0 .. N /\ N - n \in 1 .. N /\ (N - n) - 1 = N - (n + 1)
    BY <1>1
  <2>2. after[N - n] = UNION {ParseField(sub, t[1], msg, t[2][N - n]) : msg \in after[(N - n) - 1]}
    BY <1>2, <2>1 DEF FieldsParse
  <2>3. after[N - n] # {}
    BY <1>4
  <2>4. after[N - (n + 1)] # {}
    BY <2>1, <2>2, <2>3
  <2> QED
    BY <2>1, <2>4
<1>5. 0 .. N \subseteq T
  <2> HIDE DEF T
  <2> QED
    BY <1>1, <1>3, <1>4, Induction
<1>6. after[i] # {}
  <2>1. N - i \in 0 .. N /\ N - (N - i) = i
    BY <1>1
  <2> QED
    BY <1>5, <2>1
<1>7. PICK msg : ParseField(sub, type, msg, field) # {}
  <2>1. after[i] = UNION {ParseField(sub, t[1], msg, t[2][i]) : msg \in after[i - 1]}
    BY <1>1, <1>2 DEF FieldsParse
  <2> QED
    BY <1>6, <2>1
<1>8. ASSUME field.name \in FieldNames(type)
      PROVE  /\ field.value # NoValue
             /\ \A v \in Counting("last", fd, field.value) : ParseFieldValue(sub, fd, v) # {}
  BY <1>7, <1>8, ParseFieldSucceeds
<1>9. ~Faulty("last", type, field)
  BY <1>8 DEF Faulty, ParseFieldValue
<1>10. ASSUME NEW u \in FieldTrees("last", type, field) PROVE sub[u] # {}
  <2>1. /\ HasValue(type, field) /\ fd.kind = "message"
        /\ u \in {<<fd.of, v>> : v \in Counting("last", fd, field.value)}
    BY <1>10 DEF FieldTrees
  <2>2. PICK v \in Counting("last", fd, field.value) : u = <<fd.of, v>>
    BY <2>1
  <2>3. ParseFieldValue(sub, fd, v) # {}
    BY <1>8, <2>1, <2>2 DEF HasValue
  <2>4. ParseFieldValue(sub, fd, v) = sub[u]
    BY <2>1, <2>2 DEF ParseFieldValue
  <2> QED
    BY <2>3, <2>4
<1> QED
  BY <1>9, <1>10

\* A tree only becomes a message if no last value in it, at any depth, is in error.
THEOREM ParsedHasNoError ==
  ASSUME NEW type, NEW tree, RootFits(<<type, tree>>), ParseMessage(type, tree) # {}
  PROVE  ~HasError("last", type, tree)
<1> DEFINE N == MaxDepth
           root == <<type, tree>>
<1>1. N \in Nat /\ N # 0
  BY DepthAssumption
<1>2. PICK parsed : Parses(root, parsed) /\ ParseMessage(type, tree) = parsed[N][root]
  BY ParseMessageIs
<1>3. RootFits(root) /\ parsed[N][root] # {}
  BY <1>2
<1> HIDE DEF root
<1> DEFINE Made(k, S) == \A t \in S : t \in TreesBelow("all", root, k) /\ parsed[N - k][t] # {}
           T == {k \in 0 .. N : Made(k, TreesBelow("last", root, k))}
<1>4. 0 \in T
  <2>1. TreesBelow("all", root, 0) = {root} /\ TreesBelow("last", root, 0) = {root}
    BY TreesBelowIs
  <2>2. 0 \in 0 .. N /\ N - 0 = N
    BY <1>1
  <2>3. Made(0, TreesBelow("last", root, 0))
    BY <1>3, <2>1, <2>2
  <2> HIDE DEF Made
  <2> QED
    BY <2>2, <2>3
<1>5. ASSUME NEW k \in 0 .. N, k \in T, NEW t \in TreesBelow("last", root, k), NEW i \in DOMAIN t[2]
      PROVE  /\ k # N /\ ~Faulty("last", t[1], t[2][i])
             /\ \A u \in FieldTrees("last", t[1], t[2][i]) :
                  u \in TreesBelow("all", root, k + 1) /\ parsed[N - (k + 1)][u] # {}
  <2>1. t \in TreesBelow("all", root, k) /\ parsed[N - k][t] # {}
    BY <1>5
  <2>2. k # N /\ TreeFits(t)
    BY <1>3, <2>1 DEF RootFits
  <2>3. N - k \in 1 .. N /\ N - (N - k) = k /\ (N - k) - 1 = N - (k + 1)
    BY <1>1, <2>2
  <2> DEFINE sub == parsed[N - (k + 1)]
  <2>4. ParseFields(sub, t) # {}
    <3>1. parsed[N - k] = [u \in TreesBelow("all", root, N - (N - k)) |-> ParseFields(parsed[(N - k) - 1], u)]
      BY <1>2, <2>3 DEF Parses
    <3> QED
      BY <2>1, <2>3, <3>1
  <2> HIDE DEF sub
  <2>5. ~Faulty("last", t[1], t[2][i]) /\ \A u \in FieldTrees("last", t[1], t[2][i]) : sub[u] # {}
    BY <2>2, <2>4, ParseFieldsSucceeds
  <2>6. ASSUME NEW u \in FieldTrees("last", t[1], t[2][i]) PROVE u \in TreesBelow("all", root, k + 1)
    <3>1. k \in 0 .. MaxDepth - 1
      BY <1>1, <2>2
    <3>2. u \in SubTrees("all", t)
      BY <2>2, LastTrees DEF SubTrees
    <3> HIDE DEF T, N
    <3> QED
      BY <2>1, <3>1, <3>2, SubTreeBelow
  <2> QED
    BY <2>2, <2>5, <2>6 DEF sub
<1>6. ASSUME NEW k \in 0 .. N - 1, k \in T PROVE k + 1 \in T
  <2>1. k \in 0 .. N /\ k + 1 \in 0 .. N /\ k + 1 \in 1 .. N /\ (k + 1) - 1 = k
    BY <1>1
  <2>2. TreesBelow("last", root, k + 1) = UNION {SubTrees("last", t) : t \in TreesBelow("last", root, k)}
    BY <2>1, TreesBelowIs
  <2>3. Made(k + 1, TreesBelow("last", root, k + 1))
    <3> SUFFICES ASSUME NEW u \in TreesBelow("last", root, k + 1)
                 PROVE  u \in TreesBelow("all", root, k + 1) /\ parsed[N - (k + 1)][u] # {}
      OBVIOUS
    <3>1. PICK t \in TreesBelow("last", root, k) : u \in SubTrees("last", t)
      BY <2>2
    <3>2. PICK i \in DOMAIN t[2] : u \in FieldTrees("last", t[1], t[2][i])
      BY <3>1 DEF SubTrees
    <3> QED
      BY <1>5, <1>6, <2>1, <3>2
  <2> HIDE DEF Made
  <2> QED
    BY <2>1, <2>3
<1>7. 0 .. N \subseteq T
  <2> HIDE DEF T
  <2> QED
    BY <1>1, <1>4, <1>6, Induction
<1>8. ASSUME NEW t \in TreesOf("last", type, tree), NEW i \in DOMAIN t[2] PROVE ~Faulty("last", t[1], t[2][i])
  <2>1. PICK k \in 0 .. N : t \in TreesBelow("last", root, k)
    BY DEF TreesOf, root
  <2> HIDE DEF T
  <2> QED
    BY <1>5, <1>7, <2>1
<1> QED
  BY <1>8 DEF HasError

----------------------------------------------------------------------------
(* What a tree means.                                                      *)

\* The last of the first n fields that has one of some names.
IsLast(names, tree, n, i) ==
  /\ i \in 0 .. n
  /\ i > 0 => tree[i].name \in names
  /\ \A j \in i + 1 .. n : tree[j].name \notin names

LEMMA OneLast ==
  ASSUME NEW names, NEW tree, NEW n \in Nat, NEW i, IsLast(names, tree, n, i)
  PROVE  LastOf(names, tree, n) = i
<1>1. \E k \in 0 .. n : IsLast(names, tree, n, k)
  BY DEF IsLast
<1>2. IsLast(names, tree, n, LastOf(names, tree, n))
  BY <1>1 DEF LastOf, IsLast
<1>3. ASSUME NEW k, IsLast(names, tree, n, k) PROVE ~(k < i)
  BY <1>3 DEF IsLast
<1>4. ASSUME NEW k, IsLast(names, tree, n, k) PROVE ~(i < k)
  BY <1>4 DEF IsLast
<1> DEFINE l == LastOf(names, tree, n)
<1>5. ~(l < i) /\ ~(i < l)
  BY <1>2, <1>3, <1>4
<1>6. l \in Nat /\ i \in Nat
  BY <1>2 DEF IsLast
<1> QED
  BY <1>5, <1>6

LEMMA LastExists ==
  ASSUME NEW names, NEW tree, NEW n \in Nat
  PROVE  IsLast(names, tree, n, LastOf(names, tree, n))
<1> DEFINE T == {k \in 0 .. n : \E i : IsLast(names, tree, k, i)}
<1>1. 0 \in T
  <2>1. IsLast(names, tree, 0, 0)
    BY DEF IsLast
  <2> QED
    BY <2>1
<1>2. ASSUME NEW k \in 0 .. n - 1, k \in T PROVE k + 1 \in T
  <2>1. PICK i : IsLast(names, tree, k, i)
    BY <1>2
  <2>2. CASE tree[k + 1].name \in names
    <3>1. IsLast(names, tree, k + 1, k + 1)
      BY <2>2 DEF IsLast
    <3> QED
      BY <3>1
  <2>3. CASE tree[k + 1].name \notin names
    <3>1. \A j \in i + 1 .. k + 1 : j \in i + 1 .. k \/ j = k + 1
      BY <2>1 DEF IsLast
    <3>2. IsLast(names, tree, k + 1, i)
      BY <2>1, <2>3, <3>1 DEF IsLast
    <3> QED
      BY <3>2
  <2> QED
    BY <2>2, <2>3
<1>3. 0 .. n \subseteq T
  <2> HIDE DEF T
  <2> QED
    BY <1>1, <1>2, Induction
<1>4. PICK i : IsLast(names, tree, n, i)
  BY <1>3
<1> QED
  BY <1>4, OneLast

\* One field more.
LEMMA LastOfSteps ==
  ASSUME NEW names, NEW tree, NEW n \in Nat
  PROVE  /\ LastOf(names, tree, 0) = 0
         /\ tree[n + 1].name \in names => LastOf(names, tree, n + 1) = n + 1
         /\ tree[n + 1].name \notin names => LastOf(names, tree, n + 1) = LastOf(names, tree, n)
<1>1. LastOf(names, tree, 0) = 0
  <2>1. IsLast(names, tree, 0, 0)
    BY DEF IsLast
  <2> QED
    BY <2>1, OneLast
<1>2. ASSUME tree[n + 1].name \in names PROVE LastOf(names, tree, n + 1) = n + 1
  <2>1. IsLast(names, tree, n + 1, n + 1)
    BY <1>2 DEF IsLast
  <2> QED
    BY <2>1, OneLast
<1>3. ASSUME tree[n + 1].name \notin names PROVE LastOf(names, tree, n + 1) = LastOf(names, tree, n)
  <2> DEFINE i == LastOf(names, tree, n)
  <2>1. IsLast(names, tree, n, i)
    BY LastExists
  <2> HIDE DEF i
  <2>2. \A j \in i + 1 .. n + 1 : j \in i + 1 .. n \/ j = n + 1
    BY <2>1 DEF IsLast
  <2>3. IsLast(names, tree, n + 1, i)
    BY <1>3, <2>1, <2>2 DEF IsLast
  <2>4. LastOf(names, tree, n + 1) = i
    BY <2>3, OneLast
  <2> QED
    BY <2>4 DEF i
<1> QED
  BY <1>1, <1>2, <1>3

\* Elements that can all be parsed are all added.
AllGood(sub, mnt, fd, values) ==
  /\ Len(values) \in Nat /\ DOMAIN values = 1 .. Len(values)
  /\ \A i \in 1 .. Len(values) : ParseFieldValue(sub, fd, values[i]) = {ElementMeaning(mnt, fd, values[i])}

LEMMA AllElements ==
  ASSUME NEW sub, NEW mnt, NEW fd, NEW values, AllGood(sub, mnt, fd, values)
  PROVE  GoodElements(sub, fd, values) = [j \in DOMAIN values |-> ElementMeaning(mnt, fd, values[j])]
<1> DEFINE N == Len(values)
           e(i) == ElementMeaning(mnt, fd, values[i])
           S == {e(i) : i \in 1 .. N}
           Good(s, n) == s \in Seq(S) /\ Len(s) = n /\ \A j \in 1 .. n : s[j] = e(j)
<1>0. N \in Nat /\ DOMAIN values = 1 .. N
  BY DEF AllGood
<1>1. PICK good : ElementsParse(sub, fd, values, good)
  BY <1>0, GoodElementsIs
<1> DEFINE T == {n \in 0 .. N : Good(good[n], n)}
<1>2. 0 \in T
  <2>1. good[0] = <<>> /\ 0 \in 0 .. N
    BY <1>0, <1>1 DEF ElementsParse
  <2>2. <<>> \in Seq(S) /\ Len(<<>>) = 0
    OBVIOUS
  <2>3. Good(good[0], 0)
    <3> HIDE DEF S, e
    <3> QED
      BY <2>1, <2>2
  <2> HIDE DEF Good
  <2> QED
    BY <2>1, <2>3
<1>3. ASSUME NEW n \in 0 .. N - 1, n \in T PROVE n + 1 \in T
  <2>1. n + 1 \in 1 .. N /\ n + 1 \in 0 .. N /\ (n + 1) - 1 = n /\ n \in Nat
    BY <1>0
  <2>2. ParseFieldValue(sub, fd, values[n + 1]) = {e(n + 1)}
    BY <2>1 DEF AllGood
  <2>3. e(n + 1) \in S
    BY <2>1
  <2> HIDE DEF e, S
  <2>4. good[n + 1] = Append(good[n], e(n + 1))
    <3>1. (CHOOSE x \in {e(n + 1)} : TRUE) = e(n + 1)
      OBVIOUS
    <3> QED
      BY <1>1, <2>1, <2>2, <3>1 DEF ElementsParse
  <2>5. Good(good[n], n)
    BY <1>3
  <2>6. Good(good[n + 1], n + 1)
    BY <2>1, <2>3, <2>4, <2>5
  <2> HIDE DEF Good
  <2> QED
    BY <2>1, <2>6
<1>4. 0 .. N \subseteq T
  <2> HIDE DEF T
  <2> QED
    BY <1>0, <1>2, <1>3, Induction
<1>5. Good(good[N], N)
  <2> HIDE DEF Good
  <2> QED
    BY <1>0, <1>4
<1>6. good[N] = [j \in DOMAIN values |-> e(j)]
  <2> HIDE DEF e, S
  <2>1. DOMAIN good[N] = 1 .. N /\ good[N] = [j \in DOMAIN good[N] |-> good[N][j]]
    BY <1>5
  <2>2. \A j \in 1 .. N : good[N][j] = e(j)
    BY <1>5
  <2> QED
    BY <1>0, <2>1, <2>2
<1> QED
  BY <1>1, <1>6 DEF ElementsParse

\* The values that the first fields give a field, and what they mean for it.
Gives(mnt, fd, tree) == CHOOSE given : FieldsGive(mnt, fd, tree, given)

SoFar(mnt, type, fd, tree, n) ==
  IF IsRepeated(fd) THEN Gives(mnt, fd, tree)[n]
  ELSE LET i == LastOf(Sharing(type, fd), tree, n)
       IN  IF i > 0 /\ tree[i].name = fd.name THEN ElementMeaning(mnt, fd, tree[i].value)
           ELSE DefaultValue(fd)

MessageSoFar(mnt, t, n) ==
  [name \in FieldNames(t[1]) |-> SoFar(mnt, t[1], FindFieldByName(t[1], name), t[2], n)]

LEMMA GivesIs ==
  ASSUME NEW mnt, NEW fd, NEW tree, Len(tree) \in Nat
  PROVE  FieldsGive(mnt, fd, tree, Gives(mnt, fd, tree))
BY GivenIs DEF Gives

LEMMA SoFarEnds ==
  ASSUME NEW mnt, NEW t, Len(t[2]) \in Nat, t[1] \in DOMAIN MessageTypes
  PROVE  /\ MessageSoFar(mnt, t, 0) = NewMessage(t[1])
         /\ MessageSoFar(mnt, t, Len(t[2])) = MessageMeaning(mnt, t)
<1>1. ASSUME NEW fd PROVE SoFar(mnt, t[1], fd, t[2], 0) = DefaultValue(fd)
  <2>1. CASE IsRepeated(fd)
    <3>1. Gives(mnt, fd, t[2])[0] = <<>>
      BY GivesIs DEF FieldsGive
    <3> QED
      BY <2>1, <3>1 DEF SoFar, DefaultValue
  <2>2. CASE ~IsRepeated(fd)
    <3>1. LastOf(Sharing(t[1], fd), t[2], 0) = 0
      BY LastOfSteps
    <3> QED
      BY <2>2, <3>1 DEF SoFar
  <2> QED
    BY <2>1, <2>2
<1>2. ASSUME NEW fd PROVE SoFar(mnt, t[1], fd, t[2], Len(t[2])) = FieldMeaning(mnt, t[1], fd, t[2])
  <2>1. Given(mnt, fd, t[2]) = Gives(mnt, fd, t[2])[Len(t[2])]
    BY GivesIs DEF FieldsGive
  <2> QED
    BY <2>1 DEF SoFar, FieldMeaning
<1>3. MessageSoFar(mnt, t, 0) = NewMessage(t[1])
  BY <1>1 DEF MessageSoFar, NewMessage
<1>4. MessageSoFar(mnt, t, Len(t[2])) = MessageMeaning(mnt, t)
  BY <1>2 DEF MessageSoFar, MessageMeaning
<1> QED
  BY <1>3, <1>4

LEMMA SoFarKept ==
  ASSUME NEW mnt, NEW type, NEW fd, NEW tree, Len(tree) \in Nat, NEW n \in 0 .. Len(tree) - 1,
         tree[n + 1].name # fd.name, ~IsRepeated(fd) => tree[n + 1].name \notin Sharing(type, fd)
  PROVE  SoFar(mnt, type, fd, tree, n + 1) = SoFar(mnt, type, fd, tree, n)
<1>1. n + 1 \in 1 .. Len(tree) /\ (n + 1) - 1 = n /\ n \in Nat
  OBVIOUS
<1>2. Gives(mnt, fd, tree)[n + 1] = Gives(mnt, fd, tree)[n]
  <2>1. FieldsGive(mnt, fd, tree, Gives(mnt, fd, tree))
    BY GivesIs
  <2> HIDE DEF Gives
  <2> QED
    BY <1>1, <2>1 DEF FieldsGive
<1>3. CASE IsRepeated(fd)
  BY <1>2, <1>3 DEF SoFar
<1>4. CASE ~IsRepeated(fd)
  <2>1. LastOf(Sharing(type, fd), tree, n + 1) = LastOf(Sharing(type, fd), tree, n)
    BY <1>1, <1>4, LastOfSteps
  <2> QED
    BY <1>4, <2>1 DEF SoFar
<1> QED
  BY <1>3, <1>4

\* Who shares the storage of a field.
LEMMA SharingIs ==
  ASSUME NEW type \in DOMAIN MessageTypes, NEW fd \in Fields(type), NEW g \in Fields(type)
  PROVE  g.name \in Sharing(type, fd) <=> g = fd \/ (fd.oneof # "" /\ g.oneof = fd.oneof)
<1>1. \A f \in Fields(type) : f.name = g.name => f = g
  BY NamesOfFields
<1> QED
  BY <1>1 DEF Sharing

LEMMA SharingNames ==
  ASSUME NEW type, NEW fd, NEW name, name \notin FieldNames(type)
  PROVE  name \notin Sharing(type, fd)
BY DEF Sharing, FieldNames

\* The values of a field are good, and mean what they become.
GoodValue(sub, mnt, type, field) ==
  LET fd == FindFieldByName(type, field.name)
  IN  field.name \in FieldNames(type) =>
        /\ field.value # NoValue
        /\ IsRepeated(fd) => Len(field.value) \in Nat \ {0} /\ DOMAIN field.value = 1 .. Len(field.value)
        /\ \A v \in Counting("all", fd, field.value) : ParseFieldValue(sub, fd, v) = {ElementMeaning(mnt, fd, v)}

\* A field is read that is good, and the message becomes what the fields so far mean.
NextField(sub, mnt, t, n) ==
  /\ t[1] \in DOMAIN MessageTypes /\ Len(t[2]) \in Nat /\ n \in 0 .. Len(t[2]) - 1
  /\ t[2][n + 1].name \in FieldNames(t[1]) /\ GoodValue(sub, mnt, t[1], t[2][n + 1])

Advances(sub, mnt, t, n) ==
  ParseField(sub, t[1], MessageSoFar(mnt, t, n), t[2][n + 1]) = {MessageSoFar(mnt, t, n + 1)}

\* A repeated field is added to.
LEMMA RepeatedStep ==
  ASSUME NEW sub, NEW mnt, NEW t, NEW n, NextField(sub, mnt, t, n),
         IsRepeated(FindFieldByName(t[1], t[2][n + 1].name))
  PROVE  Advances(sub, mnt, t, n)
<1> DEFINE type == t[1]
           tree == t[2]
           field == tree[n + 1]
           value == field.value
           fd == FindFieldByName(type, field.name)
           msg == MessageSoFar(mnt, t, n)
           els == [j \in DOMAIN value |-> ElementMeaning(mnt, fd, value[j])]
<1>0. /\ type \in DOMAIN MessageTypes /\ Len(tree) \in Nat /\ n \in 0 .. Len(tree) - 1
      /\ field.name \in FieldNames(type) /\ GoodValue(sub, mnt, type, field)
  BY DEF NextField
<1>1. fd \in Fields(type) /\ fd.name = field.name
  BY <1>0, FieldIs
<1>2. /\ value # NoValue /\ Len(value) \in Nat /\ Len(value) \in DOMAIN value /\ DOMAIN value = 1 .. Len(value)
      /\ \A i \in 1 .. Len(value) : ParseFieldValue(sub, fd, value[i]) = {ElementMeaning(mnt, fd, value[i])}
  <2>1. Counting("all", fd, value) = {value[i] : i \in DOMAIN value}
    BY DEF Counting
  <2>2. /\ value # NoValue /\ Len(value) \in Nat \ {0} /\ DOMAIN value = 1 .. Len(value)
        /\ \A v \in Counting("all", fd, value) : ParseFieldValue(sub, fd, v) = {ElementMeaning(mnt, fd, v)}
    BY <1>0 DEF GoodValue
  <2> HIDE DEF fd, value
  <2> QED
    BY <2>1, <2>2
<1>3. ParseField(sub, type, msg, field) = {AddToField(msg, fd, els)}
  <2>1. GoodElements(sub, fd, value) = els
    <3>1. AllGood(sub, mnt, fd, value)
      BY <1>2 DEF AllGood
    <3> HIDE DEF fd, value
    <3>2. GoodElements(sub, fd, value) = [j \in DOMAIN value |-> ElementMeaning(mnt, fd, value[j])]
      BY <3>1, AllElements
    <3> QED
      BY <3>2 DEF els
  <2>2. ParseFieldValue(sub, fd, value[Len(value)]) # {}
    BY <1>2
  <2>3. ParseField(sub, type, msg, field) = ParseRepeated(sub, msg, fd, value)
    BY <1>0, <1>2 DEF ParseField
  <2> HIDE DEF els
  <2> QED
    BY <2>1, <2>2, <2>3 DEF ParseRepeated
<1>4. n + 1 \in 1 .. Len(tree) /\ (n + 1) - 1 = n
  BY <1>0
<1>5. SoFar(mnt, type, fd, tree, n + 1) = SoFar(mnt, type, fd, tree, n) \o els
  <2>1. Gives(mnt, fd, tree)[n + 1] = Gives(mnt, fd, tree)[n] \o els
    <3>1. FieldsGive(mnt, fd, tree, Gives(mnt, fd, tree))
      BY <1>0, GivesIs
    <3> DEFINE given == Gives(mnt, fd, tree)
    <3>2. given[n + 1] = IF tree[n + 1].name # fd.name THEN given[(n + 1) - 1]
                         ELSE given[(n + 1) - 1] \o els
      <4> HIDE DEF given, fd
      <4> QED
        BY <1>4, <3>1 DEF FieldsGive, given
    <3> HIDE DEF given, els
    <3>3. given[n + 1] = given[n] \o els
      BY <1>1, <1>4, <3>2
    <3> QED
      BY <3>3 DEF given
  <2> HIDE DEF els
  <2> QED
    BY <2>1 DEF SoFar
<1>6. ASSUME NEW f \in Fields(type), f # fd PROVE SoFar(mnt, type, f, tree, n + 1) = SoFar(mnt, type, f, tree, n)
  <2>1. f.name # field.name
    BY <1>1, <1>6, <1>0, NamesOfFields
  <2>2. ~IsRepeated(f) => field.name \notin Sharing(type, f)
    <3>1. f.oneof # "" /\ fd.oneof = f.oneof => ~IsRepeated(fd)
      <4>1. fd \in Fields(type) /\ type \in DOMAIN MessageTypes
        BY <1>0, <1>1
      <4> HIDE DEF fd, type
      <4>2. fd.oneof # "" => ~IsRepeated(fd)
        BY ONLY <4>1, TypesAssumption, ValuesAssumption
      <4> QED
        BY <4>2
    <3>2. fd.name \notin Sharing(type, f)
      <4>1. type \in DOMAIN MessageTypes /\ f \in Fields(type) /\ fd \in Fields(type) /\ f # fd
        BY <1>0, <1>1, <1>6
      <4>2. IsRepeated(fd)
        OBVIOUS
      <4> HIDE DEF fd, type
      <4>3. fd.name \in Sharing(type, f) <=> fd = f \/ (f.oneof # "" /\ fd.oneof = f.oneof)
        BY ONLY <4>1, SharingIs
      <4> QED
        BY <3>1, <4>1, <4>2, <4>3
    <3> QED
      BY <1>1, <3>2
  <2> QED
    BY <2>1, <2>2, <1>0, SoFarKept
<1>7. AddToField(msg, fd, els) = MessageSoFar(mnt, t, n + 1)
  <2> DEFINE new == AddToField(msg, fd, els)
             next == MessageSoFar(mnt, t, n + 1)
  <2>1. DOMAIN msg = FieldNames(type) /\ DOMAIN next = FieldNames(type)
    BY DEF MessageSoFar
  <2>2. new = [name \in FieldNames(type) |-> IF name = fd.name THEN msg[name] \o els ELSE msg[name]]
    <3> HIDE DEF msg, els, fd
    <3> QED
      BY <2>1 DEF AddToField
  <2>3. ASSUME NEW name \in FieldNames(type)
        PROVE  next[name] = IF name = fd.name THEN msg[name] \o els ELSE msg[name]
    <3> DEFINE f == FindFieldByName(type, name)
    <3>1. f \in Fields(type) /\ f.name = name
      BY <1>0, FieldIs
    <3>2. msg[name] = SoFar(mnt, type, f, tree, n) /\ next[name] = SoFar(mnt, type, f, tree, n + 1)
      BY DEF MessageSoFar
    <3>3. name = fd.name <=> f = fd
      BY <1>1, <3>1
    <3> HIDE DEF els, fd, f, msg, next, tree, type
    <3> QED
      BY <1>5, <1>6, <3>1, <3>2, <3>3
  <2>4. next = [name \in FieldNames(type) |-> next[name]]
    BY DEF MessageSoFar
  <2> HIDE DEF new, next, msg, els, fd
  <2>5. next = new
    BY <2>2, <2>3, <2>4
  <2> QED
    BY <2>5 DEF new, next
<1> QED
  BY <1>3, <1>7 DEF Advances

\* A single field is set.
LEMMA SingleStep ==
  ASSUME NEW sub, NEW mnt, NEW t, NEW n, NextField(sub, mnt, t, n),
         ~IsRepeated(FindFieldByName(t[1], t[2][n + 1].name))
  PROVE  Advances(sub, mnt, t, n)
<1> DEFINE type == t[1]
           tree == t[2]
           field == tree[n + 1]
           value == field.value
           fd == FindFieldByName(type, field.name)
           msg == MessageSoFar(mnt, t, n)
           e == ElementMeaning(mnt, fd, value)
<1>0. /\ type \in DOMAIN MessageTypes /\ Len(tree) \in Nat /\ n \in 0 .. Len(tree) - 1
      /\ field.name \in FieldNames(type) /\ GoodValue(sub, mnt, type, field)
  BY DEF NextField
<1>1. fd \in Fields(type) /\ fd.name = field.name
  BY <1>0, FieldIs
<1>2. value # NoValue /\ ParseFieldValue(sub, fd, value) = {e}
  BY <1>0 DEF GoodValue, Counting
<1>3. ParseField(sub, type, msg, field) = {SetField(type, msg, fd, e)}
  <2>1. ParseField(sub, type, msg, field) = ParseSingle(sub, type, msg, fd, value)
    BY <1>0, <1>2 DEF ParseField
  <2> HIDE DEF e
  <2> QED
    BY <1>2, <2>1 DEF ParseSingle
<1>4. n + 1 \in 1 .. Len(tree) /\ n \in Nat /\ n + 1 > 0
  BY <1>0
<1>5. ASSUME NEW f \in Fields(type)
      PROVE  SoFar(mnt, type, f, tree, n + 1) =
               IF f = fd THEN e
               ELSE IF fd.oneof # "" /\ f.oneof = fd.oneof THEN Unset ELSE SoFar(mnt, type, f, tree, n)
  <2>1. f.name = field.name <=> f = fd
    BY <1>1, <1>0, NamesOfFields
  <2>2. field.name \in Sharing(type, f) <=> f = fd \/ (fd.oneof # "" /\ f.oneof = fd.oneof)
    <3>1. fd.name \in Sharing(type, f) <=> fd = f \/ (f.oneof # "" /\ fd.oneof = f.oneof)
      BY <1>0, <1>1, SharingIs
    <3> HIDE DEF fd
    <3> QED
      BY <1>1, <3>1
  <2>3. field.name \in Sharing(type, f) => LastOf(Sharing(type, f), tree, n + 1) = n + 1
    BY <1>4, LastOfSteps
  <2>4. CASE f = fd
    <3>1. LastOf(Sharing(type, fd), tree, n + 1) = n + 1
      BY <2>2, <2>3, <2>4
    <3>2. SoFar(mnt, type, fd, tree, n + 1) = ElementMeaning(mnt, fd, tree[n + 1].value)
      BY <1>1, <1>4, <3>1 DEF SoFar
    <3> QED
      BY <2>4, <3>2
  <2>5. CASE f # fd /\ fd.oneof # "" /\ f.oneof = fd.oneof
    <3>1. ~IsRepeated(f)
      BY <1>0, <2>5, TypesAssumption, ValuesAssumption
    <3>2. LastOf(Sharing(type, f), tree, n + 1) = n + 1 /\ tree[n + 1].name # f.name
      BY <2>1, <2>2, <2>3, <2>5
    <3>3. SoFar(mnt, type, f, tree, n + 1) = DefaultValue(f)
      BY <3>1, <3>2 DEF SoFar
    <3>4. DefaultValue(f) = Unset
      BY <2>5, <3>1 DEF DefaultValue
    <3> HIDE DEF fd
    <3> QED
      BY <2>5, <3>3, <3>4
  <2>6. CASE f # fd /\ ~(fd.oneof # "" /\ f.oneof = fd.oneof)
    <3>1. field.name # f.name /\ field.name \notin Sharing(type, f)
      BY <2>1, <2>2, <2>6
    <3>2. SoFar(mnt, type, f, tree, n + 1) = SoFar(mnt, type, f, tree, n)
      BY <3>1, <1>0, SoFarKept
    <3> HIDE DEF fd
    <3> QED
      BY <2>6, <3>2
  <2> QED
    BY <2>4, <2>5, <2>6
<1>6. SetField(type, msg, fd, e) = MessageSoFar(mnt, t, n + 1)
  <2> DEFINE next == MessageSoFar(mnt, t, n + 1)
             new == SetField(type, msg, fd, e)
  <2>1. ASSUME NEW name \in FieldNames(type) PROVE next[name] = new[name]
    <3> DEFINE f == FindFieldByName(type, name)
    <3>1. f \in Fields(type) /\ f.name = name
      BY <1>0, FieldIs
    <3>2. msg[name] = SoFar(mnt, type, f, tree, n) /\ next[name] = SoFar(mnt, type, f, tree, n + 1)
      BY DEF MessageSoFar
    <3>3. new[name] = IF name = fd.name THEN e
                      ELSE IF fd.oneof # "" /\ f.oneof = fd.oneof THEN Unset ELSE msg[name]
      BY <1>0 DEF SetField
    <3>4. name = fd.name <=> f = fd
      BY <1>1, <3>1
    <3> HIDE DEF e, fd, f, msg, next, new, tree, type
    <3> QED
      BY <1>5, <3>1, <3>2, <3>3, <3>4
  <2>2. next = [name \in FieldNames(type) |-> next[name]] /\ new = [name \in FieldNames(type) |-> new[name]]
    BY DEF MessageSoFar, SetField
  <2> HIDE DEF new, next
  <2>3. next = new
    BY <2>1, <2>2
  <2> QED
    BY <2>3 DEF new, next
<1> QED
  BY <1>3, <1>6 DEF Advances

\* A tree without errors becomes what it means, if the trees in it do.
LEMMA ParseFieldsExact ==
  ASSUME NEW sub, NEW mnt, NEW t, t[1] \in DOMAIN MessageTypes, TreeFits(t),
         \A i \in DOMAIN t[2] : ~Faulty("all", t[1], t[2][i]),
         \A u \in SubTrees("all", t) : sub[u] = {mnt[u]}
  PROVE  ParseFields(sub, t) = {MessageMeaning(mnt, t)}
<1> DEFINE N == Len(t[2])
<1>1. N \in Nat /\ DOMAIN t[2] = 1 .. N
  BY DEF TreeFits
<1>2. PICK after : FieldsParse(sub, t, after)
  BY <1>1, ParseFieldsIs
<1>3. ASSUME NEW i \in DOMAIN t[2] PROVE GoodValue(sub, mnt, t[1], t[2][i])
  <2> DEFINE field == t[2][i]
             value == field.value
             fd == FindFieldByName(t[1], field.name)
  <2> SUFFICES ASSUME field.name \in FieldNames(t[1])
               PROVE  /\ value # NoValue
                      /\ IsRepeated(fd) => Len(value) \in Nat \ {0} /\ DOMAIN value = 1 .. Len(value)
                      /\ \A v \in Counting("all", fd, value) : ParseFieldValue(sub, fd, v) = {ElementMeaning(mnt, fd, v)}
    BY DEF GoodValue
  <2>1. value # NoValue /\ HasValue(t[1], field)
    BY DEF Faulty, HasValue
  <2>2. IsRepeated(fd) => Len(value) \in Nat \ {0} /\ DOMAIN value = 1 .. Len(value)
    BY <2>1 DEF TreeFits
  <2>3. ASSUME NEW v \in Counting("all", fd, value) PROVE ParseFieldValue(sub, fd, v) = {ElementMeaning(mnt, fd, v)}
    <3>1. CASE fd.kind = "message"
      <4>1. <<fd.of, v>> \in FieldTrees("all", t[1], field)
        BY <2>1, <2>3, <3>1 DEF FieldTrees
      <4>2. <<fd.of, v>> \in SubTrees("all", t)
        BY <4>1 DEF SubTrees
      <4> QED
        BY <3>1, <4>2 DEF ParseFieldValue, ElementMeaning
    <3>2. CASE fd.kind # "message"
      <4>1. ParseScalar(fd, v) # Bad
        BY <2>3, <3>2 DEF Faulty
      <4> QED
        BY <3>2, <4>1 DEF ParseFieldValue, ElementMeaning
    <3> QED
      BY <3>1, <3>2
  <2> QED
    BY <2>1, <2>2, <2>3
<1> DEFINE T == {n \in 0 .. N : after[n] = {MessageSoFar(mnt, t, n)}}
<1>4. 0 \in T
  <2>1. after[0] = {NewMessage(t[1])} /\ 0 \in 0 .. N
    BY <1>1, <1>2 DEF FieldsParse
  <2>2. MessageSoFar(mnt, t, 0) = NewMessage(t[1])
    BY <1>1, SoFarEnds
  <2> QED
    BY <2>1, <2>2
<1>5. ASSUME NEW n \in 0 .. N - 1, n \in T PROVE n + 1 \in T
  <2> DEFINE field == t[2][n + 1]
             msg == MessageSoFar(mnt, t, n)
             next == MessageSoFar(mnt, t, n + 1)
  <2>1. n + 1 \in 1 .. N /\ n + 1 \in 0 .. N /\ (n + 1) - 1 = n
    BY <1>1
  <2>2. after[n + 1] = UNION {ParseField(sub, t[1], m, field) : m \in after[n]}
    BY <1>2, <2>1 DEF FieldsParse
  <2>3. after[n] = {msg}
    BY <1>5
  <2>4. after[n + 1] = ParseField(sub, t[1], msg, field)
    <3> HIDE DEF msg, field
    <3> QED
      BY <2>2, <2>3
  <2>5. GoodValue(sub, mnt, t[1], field)
    BY <1>1, <1>3, <2>1
  <2>6. ParseField(sub, t[1], msg, field) = {next}
    <3>1. CASE field.name \notin FieldNames(t[1])
      <4>1. ParseField(sub, t[1], msg, field) = {msg}
        BY <3>1 DEF ParseField
      <4>2. ASSUME NEW name \in FieldNames(t[1])
            PROVE  SoFar(mnt, t[1], FindFieldByName(t[1], name), t[2], n + 1) =
                     SoFar(mnt, t[1], FindFieldByName(t[1], name), t[2], n)
        <5> DEFINE f == FindFieldByName(t[1], name)
        <5>1. f.name = name /\ field.name # name
          BY <3>1, FieldIs
        <5>2. field.name \notin Sharing(t[1], f)
          BY <3>1, SharingNames
        <5> HIDE DEF f
        <5>3. SoFar(mnt, t[1], f, t[2], n + 1) = SoFar(mnt, t[1], f, t[2], n)
          BY <1>1, <5>1, <5>2, SoFarKept
        <5> QED
          BY <5>3 DEF f
      <4>3. next = msg
        BY <4>2 DEF MessageSoFar
      <4> QED
        BY <4>1, <4>3
    <3>2. CASE field.name \in FieldNames(t[1]) /\ IsRepeated(FindFieldByName(t[1], field.name))
      <4>1. NextField(sub, mnt, t, n)
        BY <1>1, <2>5, <3>2 DEF NextField
      <4>2. Advances(sub, mnt, t, n)
        BY <3>2, <4>1, RepeatedStep
      <4> QED
        BY <4>2 DEF Advances
    <3>3. CASE field.name \in FieldNames(t[1]) /\ ~IsRepeated(FindFieldByName(t[1], field.name))
      <4>1. NextField(sub, mnt, t, n)
        BY <1>1, <2>5, <3>3 DEF NextField
      <4>2. Advances(sub, mnt, t, n)
        BY <3>3, <4>1, SingleStep
      <4> QED
        BY <4>2 DEF Advances
    <3> QED
      BY <3>1, <3>2, <3>3
  <2>7. after[n + 1] = {MessageSoFar(mnt, t, n + 1)}
    BY <2>4, <2>6
  <2> QED
    BY <2>1, <2>7
<1>6. 0 .. N \subseteq T
  <2> HIDE DEF T
  <2> QED
    BY <1>1, <1>4, <1>5, Induction
<1>7. after[N] = {MessageSoFar(mnt, t, N)} /\ N \in 0 .. N
  BY <1>1, <1>6
<1>8. MessageSoFar(mnt, t, N) = MessageMeaning(mnt, t)
  BY <1>1, SoFarEnds
<1> QED
  BY <1>2, <1>7, <1>8 DEF FieldsParse

\* A tree without errors, at any depth, becomes what it means.
THEOREM ParsedIsMeaning ==
  ASSUME NEW type, NEW tree, RootFits(<<type, tree>>), ~HasError("all", type, tree)
  PROVE  ParseMessage(type, tree) = {Meaning(type, tree)}
<1> DEFINE N == MaxDepth
           root == <<type, tree>>
<1>1. N \in Nat /\ N # 0
  BY DepthAssumption
<1>2. PICK parsed : Parses(root, parsed) /\ ParseMessage(type, tree) = parsed[N][root]
  BY ParseMessageIs
<1>3. PICK meant : Means(root, meant) /\ Meaning(type, tree) = meant[N][root]
  BY MeaningIs
<1>4. RootFits(root)
  OBVIOUS
<1>5. \A k \in 0 .. N : \A t \in TreesBelow("all", root, k) : \A i \in DOMAIN t[2] : ~Faulty("all", t[1], t[2][i])
  BY DEF HasError, TreesOf
<1> HIDE DEF root
<1> DEFINE Exact(n, S) == \A t \in S : parsed[n][t] = {meant[n][t]}
           T == {n \in 0 .. N : Exact(n, TreesBelow("all", root, N - n))}
<1>6. 0 \in T
  <2>1. TreesBelow("all", root, N - 0) = {} /\ 0 \in 0 .. N
    BY <1>1, <1>4 DEF RootFits
  <2> QED
    BY <2>1
<1>7. ASSUME NEW n \in 0 .. N - 1, n \in T PROVE n + 1 \in T
  <2> DEFINE k == N - (n + 1)
             sub == parsed[n]
             mnt == meant[n]
  <2>1. n + 1 \in 1 .. N /\ n + 1 \in 0 .. N /\ (n + 1) - 1 = n /\ k \in 0 .. N - 1 /\ k \in 0 .. N /\ k + 1 = N - n
    BY <1>1
  <2>2. /\ parsed[n + 1] = [u \in TreesBelow("all", root, k) |-> ParseFields(sub, u)]
        /\ meant[n + 1] = [u \in TreesBelow("all", root, k) |-> MessageMeaning(mnt, u)]
    BY <1>2, <1>3, <2>1 DEF Parses, Means
  <2>3. Exact(n, TreesBelow("all", root, k + 1))
    BY <1>7, <2>1
  <2> HIDE DEF k
  <2>4. ASSUME NEW t \in TreesBelow("all", root, k) PROVE parsed[n + 1][t] = {meant[n + 1][t]}
    <3>1. t[1] \in DOMAIN MessageTypes /\ TreeFits(t)
      BY <1>4, <2>1, TreesHaveTypes DEF RootFits
    <3>2. \A i \in DOMAIN t[2] : ~Faulty("all", t[1], t[2][i])
      BY <1>5, <2>1
    <3>3. ASSUME NEW u \in SubTrees("all", t) PROVE sub[u] = {mnt[u]}
      <4>1. k \in 0 .. MaxDepth - 1
        BY <2>1
      <4>2. u \in TreesBelow("all", root, k + 1)
        <5> HIDE DEF T, N
        <5> QED
          BY <2>4, <3>3, <4>1, SubTreeBelow
      <4> QED
        BY <2>3, <4>2
    <3> HIDE DEF sub, mnt
    <3>4. ParseFields(sub, t) = {MessageMeaning(mnt, t)}
      BY <3>1, <3>2, <3>3, ParseFieldsExact
    <3> QED
      BY <2>2, <2>4, <3>4
  <2>5. Exact(n + 1, TreesBelow("all", root, N - (n + 1)))
    BY <2>4 DEF k
  <2> HIDE DEF Exact
  <2> QED
    BY <2>1, <2>5
<1>8. 0 .. N \subseteq T
  <2> HIDE DEF T
  <2> QED
    BY <1>1, <1>6, <1>7, Induction
<1>9. parsed[N][root] = {meant[N][root]}
  <2>1. N \in 0 .. N /\ N - N = 0
    BY <1>1
  <2>2. Exact(N, TreesBelow("all", root, 0))
    BY <1>8, <2>1
  <2>3. TreesBelow("all", root, 0) = {root}
    BY TreesBelowIs
  <2> QED
    BY <2>2, <2>3
<1> QED
  BY <1>2, <1>3, <1>9
=============================================================================
