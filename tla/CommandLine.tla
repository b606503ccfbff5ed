---------------------------- MODULE CommandLine ----------------------------
(***************************************************************************)
(* A gWhisper command line while it is typed: the user appends characters  *)
(* or takes a suggestion of the tab completion, which runs the parser on   *)
(* what is there.                                                          *)
(***************************************************************************)
EXTENDS ArgLanguage, Completion

CONSTANTS
  Grammars    \* records [g, alphabet, max, but]; max bounds the length of a text, and
              \* but holds the texts for which the parser is known to hide something

\* main() parses with a concatenation.
ASSUME GrammarsAssumption ==
  \A l \in DOMAIN Grammars :
    LET G == Grammars[l]
    IN  G.g \in Elements(Height) /\ G.g.kind = "cat" /\ G.alphabet \subseteq Chars /\ G.max \in Nat

VARIABLES
  line,       \* one of the Grammars
  text,       \* what has been typed
  rc          \* the result of parsing it

vars == <<line, text, rc>>

Grammar == Grammars[line].g

\* gWhisper is started with --complete on what is typed so far.
Enter(t) == Len(t) <= Grammars[line].max /\ text' = t /\ rc' = ParseMain(Grammar, t) /\ UNCHANGED line

Init == line \in DOMAIN Grammars /\ text = <<>> /\ rc = ParseMain(Grammars[line].g, <<>>)

\* A text that can no longer become a sentence gets no more characters.
Type == /\ CanContinue(Grammar, text) = TRUE
        /\ \E c \in Grammars[line].alphabet : Enter(Append(text, c))

\* What bash makes of the line with one of the suggestions.
Completed ==
  UNION {{BashLine(text, w) : w \in printBashCompletions(rc.cands[i].raw, Len(text))} : i \in DOMAIN rc.cands}

Tab == \E t \in Completed : IsStrictPrefix(text, t) /\ Enter(t)

Next == Type \/ Tab

Spec == Init /\ [][Next]_vars

----------------------------------------------------------------------------
(* Properties.                                                             *)

\* Type invariant: the result of parsing the text has its type.
TypeOK ==
  /\ line \in DOMAIN Grammars /\ text \in Texts /\ Len(text) <= Grammars[line].max
  /\ rc.type \in {"success", "missingText", "unexpectedText", "retrievingGrammarFailed"}
  /\ rc.ok \in 0 .. rc.len /\ rc.len \in 0 .. Len(text)

\* The verdict about the line is true: gWhisper executes nothing but the sentences of
\* its grammar, and a line that it reports to be incomplete, or has candidates for,
\* can be completed, unless it could not retrieve a part of the grammar.
VerdictIsTrue ==
  /\ Accepted(text, rc) => InLanguage(Grammar, text)
  /\ Missing(rc) \/ (rc.cands # <<>> /\ ~Failed(rc)) => CanContinue(Grammar, text)

\* The parse tree holds a beginning of the text, which is what "Parsed until"
\* shows and what candidates are built from; if the parser is successful, it is
\* as long as the parser says.
MatchedText ==
  /\ IsPrefix(rc.raw, text)
  /\ Good(rc) => rc.ok = rc.len /\ rc.raw = SubSeq(text, 1, rc.ok)

\* A candidate never contradicts what was typed: either it continues the text, or
\* it is a beginning of it that nothing is put behind (an option that is not taken,
\* of which a part was typed).  A shell that takes a completion for one that
\* continues the text destroys nothing: bash shows the candidate, or the text
\* without the word at the cursor if the candidate ends there; fish keeps the text.
\* (A comma in the word is a word break for Completion.cpp:218, but not for bash.)
BashKeeps(raw) ==
  Comma \notin Range(From(text, BashWord(text))) =>
    \A w \in printBashCompletions(raw, Len(text)) :
      BashLine(text, w) \in {TrimRight(raw), SubSeq(text, 1, BashWord(text))}

FishKeeps(raw) == IsPrefix(text, FishLine(text, getNextFishSuggestion(raw, text)))

SuggestionsFit ==
  \A i \in DOMAIN rc.cands :
    LET c == rc.cands[i]
    IN  \/ IsPrefix(text, c.raw) /\ BashKeeps(c.raw) /\ FishKeeps(c.raw)
        \/ IsStrictPrefix(c.raw, text) /\ c.stop

\* Each candidate that continues the text can become a sentence, also if fish enters
\* it word by word, unless the text ends with a blank that is part of a string and
\* another one must follow it, which fish loses.  What is printed for one that is shorter
\* than the text is a part of the word at the cursor, whatever bash's half reads
\* behind its end, and does not end the fish half.
FishEnters(raw) == IsPrefix(FishLine(text, getNextFishSuggestion(raw, text)), raw)

BlankBehindBlank(raw) == text # <<>> /\ Last(text) = Blank /\ IsPrefix(Append(text, Blank), raw)

Leads(raw) == CanContinue(Grammar, raw) /\ (FishEnters(raw) \/ BlankBehindBlank(raw))

Harmless(raw) ==
  /\ \A w \in printBashCompletions(raw, Len(text)) : IsPrefix(w, From(text, BashWord(text)))
  /\ ~FishThrows(raw, text) /\ IsPrefix(getNextFishSuggestion(raw, text), From(text, FishWord(text)))

SuggestionsLead ==
  \A i \in DOMAIN rc.cands :
    LET raw == rc.cands[i].raw IN IF IsPrefix(text, raw) THEN Leads(raw) ELSE Harmless(raw)

\* Nothing of the grammar is out of reach.  The parser, which never tries again
\* with a shorter match of an element, rejects no sentence; and everything but
\* what is matched by a regular expression can be completed (README.md:125):
\* whenever the text can go on with a word of the grammar, some candidate does,
\* although the depth of forks is limited.  The exceptions are listed one by one.
NothingHidden ==
  text \notin Grammars[line].but =>
    /\ InLanguage(Grammar, text) => Accepted(text, rc)
    /\ \A c \in FixedWays(Grammar, text) :
         \E i \in DOMAIN rc.cands : IsPrefix(Append(text, c), rc.cands[i].raw)
=============================================================================
