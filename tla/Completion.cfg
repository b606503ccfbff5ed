\* Completion in a list of fields.
SPECIFICATION Spec
CONSTANTS
  Chars <- Characters
  Keys = {"ServerUri", "Service", "Method"}
  Levels <- ListLevels
  Grammars <- Lists
CHECK_DEADLOCK FALSE
INVARIANTS
  NothingHidden
