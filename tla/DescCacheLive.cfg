\* Every invocation ends.
SPECIFICATION FairSpec
CONSTANTS
  p1 = p1  p2 = p2  h1 = h1  h2 = h2  v1 = v1  v2 = v2
  Procs = {p1, p2}
  Hosts = {h1}
  Versions = {v1}
  NoVersion = none
  Timeout = 0
  StreamDeadline = 0
  MaxTime = 0
  MaxFetch = 2
  MaxInode = 2
  Block = 1
  MayCrash = FALSE
  MayDisable = FALSE
PROPERTIES
  EveryRunEnds
