----------------------------- MODULE FieldValues -----------------------------
(***************************************************************************)
(* How gWhisper converts the text of a field value on the command line to  *)
(* the value of the field: the scalar cases of parseFieldValue.            *)
(*                                                                         *)
(* Numbers are converted by the standard library with the width of long    *)
(* and then narrowed to the width of the field.  A number is                *)
(*   [sign : "", "+" or "-", hex : BOOLEAN, digits : sequence of 0 .. 15],  *)
(* which is what the regular expressions of the grammar accept; bytes are  *)
(* [hex : TRUE, digits] or [hex : FALSE, file : a name].                   *)
(***************************************************************************)
EXTENDS ProtoMessages

CONSTANTS
  LongBits,  \* width of long
  Files,     \* from the names of the readable files to their bytes
  Bad        \* the text cannot be converted: parseFieldValue returns -1

Pow2(n) == 2 ^ n

\* Widths are positive; and what a proof needs to know of powers.
ASSUME WidthAssumption ==
  /\ LongBits \in Nat \ {0}
  /\ \A bits \in 1 .. LongBits :
       /\ Pow2(bits - 1) \in Nat \ {0} /\ Pow2(bits - 1) <= Pow2(LongBits - 1)
       /\ Pow2(bits) = 2 * Pow2(bits - 1)

\* The values of signed and unsigned integers of some width.
SignedRange(bits)   == -Pow2(bits - 1) .. Pow2(bits - 1) - 1
UnsignedRange(bits) == 0 .. Pow2(bits) - 1

\* Implicit conversion to a narrower integer keeps the low bits.
NarrowSigned(x, bits)   == ((x + Pow2(bits - 1)) % Pow2(bits)) - Pow2(bits - 1)
NarrowUnsigned(x, bits) == x % Pow2(bits)

----------------------------------------------------------------------------
(* stol and stoul with base 0: the prefix selects the base, and the        *)
(* conversion ends at the first character that is no digit of it.          *)

Base(t) == IF t.hex THEN 16 ELSE IF t.digits[1] = 0 THEN 8 ELSE 10

NumDigits(t) ==
  CHOOSE n \in 0 .. Len(t.digits) :
    /\ \A i \in 1 .. n : t.digits[i] < Base(t)
    /\ n < Len(t.digits) => t.digits[n + 1] >= Base(t)

\* Digit after digit.
Magnitude(digits, base) ==
  LET value[n \in 0 .. Len(digits)] == IF n = 0 THEN 0 ELSE base * value[n - 1] + digits[n]
  IN  value[Len(digits)]

Converted(t) ==
  LET v == Magnitude(SubSeq(t.digits, 1, NumDigits(t)), Base(t))
  IN  IF t.sign = "-" THEN -v ELSE v

\* invalid_argument or out_of_range is thrown.
Throws(t, range) == NumDigits(t) = 0 \/ Converted(t) \notin range

\* Mutant: the number is stored without being narrowed.
ParseInt_Wide(fd, t) == IF Throws(t, SignedRange(LongBits)) THEN Bad ELSE Converted(t)

\* Mutant: the number goes through an unsigned variable.
ParseInt_Unsigned(fd, t) ==
  IF Throws(t, SignedRange(LongBits)) THEN Bad ELSE NarrowUnsigned(Converted(t), fd.of)

ParseInt(fd, t) ==
  IF Throws(t, SignedRange(LongBits)) THEN Bad ELSE NarrowSigned(Converted(t), fd.of)

ParseUInt(fd, t) ==
  IF Throws(t, UnsignedRange(LongBits)) THEN Bad ELSE NarrowUnsigned(Converted(t), fd.of)

----------------------------------------------------------------------------
(* The other scalars.                                                      *)

\* Everything but these is false.
ParseBool(t) == t \in {"1", "true", "True"}

ParseEnum(fd, t) == IF t \in {fd.of[i] : i \in DOMAIN fd.of} THEN t ELSE Bad

ParseHexString(t) ==
  IF Len(t.digits) % 2 # 0 THEN Bad
  ELSE [i \in 1 .. Len(t.digits) \div 2 |-> 16 * t.digits[2 * i - 1] + t.digits[2 * i]]

ParseFile(t) == IF t.file \in DOMAIN Files THEN Files[t.file] ELSE Bad

ParseBytes(t) == IF t.hex THEN ParseHexString(t) ELSE ParseFile(t)

\* stof and stod: a text is [value, throws].
ParseFloat(t) == IF t.throws THEN Bad ELSE t.value

ParseScalar(fd, t) ==
  CASE fd.kind = "int"    -> ParseInt(fd, t)
    [] fd.kind = "uint"   -> ParseUInt(fd, t)
    [] fd.kind = "float"  -> ParseFloat(t)
    [] fd.kind = "bool"   -> ParseBool(t)
    [] fd.kind = "enum"   -> ParseEnum(fd, t)
    [] fd.kind = "bytes"  -> ParseBytes(t)
    [] fd.kind = "string" -> t

----------------------------------------------------------------------------
(* The meaning of numbers, without conversion.                             *)

\* What the grammar accepts as a number.
IsNumber(t) ==
  /\ t.sign \in {"", "+", "-"} /\ t.hex \in BOOLEAN
  /\ t.digits \in Seq(0 .. 15) /\ t.digits # <<>>

\* The number a text denotes in positional notation, if its digits are digits of
\* its base: each digit counts as often as its place says.
Denoted(t) ==
  LET n == Len(t.digits)
      weight[i \in 0 .. n] == IF i = 0 THEN 1 ELSE Base(t) * weight[i - 1]
      sum[i \in 0 .. n]    == IF i = 0 THEN 0 ELSE sum[i - 1] + t.digits[i] * weight[n - i]
  IN  IF t.sign = "-" THEN -sum[n] ELSE sum[n]

RangeOf(fd) == IF fd.kind = "int" THEN SignedRange(fd.of) ELSE UnsignedRange(fd.of)

\* A number that is in the range of its field is stored exactly.
NumberExact(fd, t) ==
  (\A i \in DOMAIN t.digits : t.digits[i] < Base(t)) /\ Denoted(t) \in RangeOf(fd)
    => ParseScalar(fd, t) = Denoted(t)
=============================================================================
