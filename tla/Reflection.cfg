\* Every acyclic import graph of four files, with two services.
SPECIFICATION FairSpec
CONSTANTS
  NFiles = 4
  s1 = s1  s2 = s2
  Files = {1, 2, 3, 4}
  NoFile = 0
  Services = {s1, s2}
  Graphs <- MCGraphs
CHECK_DEADLOCK FALSE
INVARIANTS
  TypeOK
  EntryComplete
  NamedFilesKnown
  StreamOpenedOnce
  CutShortInvalidated
PROPERTIES
  SessionEnds
  DeliversEntry
