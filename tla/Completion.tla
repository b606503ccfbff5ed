------------------------------ MODULE Completion ------------------------------
(***************************************************************************)
(* What gWhisper prints for a candidate of the parser, so that a shell can *)
(* complete the word at the cursor, and what the shell makes of it.        *)
(*                                                                         *)
(* The arguments begin behind "--complete " and so does a candidate: the   *)
(* character in front of both is a blank.                                  *)
(***************************************************************************)
EXTENDS ArgParse

\* The last of the first n characters of t that is one of chars; 0 is the blank
\* in front of t.
LastOf(chars, t, n) ==
  CHOOSE k \in 0 .. n : /\ k > 0 => k <= Len(t) /\ t[k] \in chars
                        /\ \A i \in k + 1 .. n : i <= Len(t) => t[i] \notin chars

TrimRight(t) ==
  LET n == CHOOSE n \in 0 .. Len(t) : /\ n > 0 => t[n] # Blank
                                      /\ \A i \in n + 1 .. Len(t) : t[i] = Blank
  IN  SubSeq(t, 1, n)

----------------------------------------------------------------------------
(* bash: completions replace the word behind the last word break.          *)

Comma      == ","
WordBreaks == {Blank, "=", ":"}

\* Mutant: completions begin at the cursor.
BashStart_AtCursor(raw, n, atDelimiter) == IF n > Len(raw) THEN Len(raw) ELSE n

\* Where a completion begins in a candidate, n being the length of the arguments.
BashStart(raw, n, atDelimiter) ==
  IF atDelimiter THEN LastOf(WordBreaks, raw, n) ELSE LastOf(WordBreaks \cup {Comma}, raw, n + 1)

\* The character of a candidate at the cursor decides; one that is shorter than
\* the arguments is read behind its end, where anything may be.
AtDelimiter(raw, n) ==
  CASE n < Len(raw) -> {raw[n + 1] \in WordBreaks \cup {Comma}}
    [] n = Len(raw) -> {FALSE}
    [] n > Len(raw) -> BOOLEAN

printBashCompletions(raw, n) == {TrimRight(From(raw, BashStart(raw, n, d))) : d \in AtDelimiter(raw, n)}

BashWord(t) == LastOf(WordBreaks, t, Len(t))
BashLine(t, completion) == SubSeq(t, 1, BashWord(t)) \o completion

----------------------------------------------------------------------------
(* fish: completions replace the word behind the last blank.               *)

FishWord(t) == LastOf({Blank}, t, Len(t))

\* The candidate from the blank in front of the word on: substr throws if the
\* candidate does not reach that far.
FishThrows(raw, t) == FishWord(t) > Len(raw) + 1
FromBlank(raw, t)  == From(<<Blank>> \o raw, FishWord(t))

\* The first word.
getNextFishSuggestion(raw, t) ==
  LET rest  == FromBlank(raw, t)
      first == From(rest, Span({Blank}, rest))
  IN  SubSeq(first, 1, Span(Range(first) \ {Blank}, first))

FishLine(t, completion) == SubSeq(t, 1, FishWord(t)) \o completion
=============================================================================
