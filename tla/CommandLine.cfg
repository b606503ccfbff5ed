\* Every part of the grammar.
SPECIFICATION Spec
CONSTANTS
  Chars <- Characters
  Keys = {"ServerUri", "Service", "Method"}
  Levels <- AllLevels
  Grammars <- AllLines
CHECK_DEADLOCK FALSE
INVARIANTS
  TypeOK
  VerdictIsTrue
  MatchedText
  SuggestionsFit
  SuggestionsLead
  NothingHidden
