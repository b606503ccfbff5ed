\* One place of invocation: the invocations follow one another.
SPECIFICATION Spec
VIEW LiveState
CONSTANTS
  p1 = p1  p2 = p2  h1 = h1  h2 = h2  v1 = v1  v2 = v2
  Procs = {p1}
  Hosts = {h1, h2}
  Versions = {v1, v2}
  NoVersion = none
  Timeout = 1
  StreamDeadline = 1
  MaxTime = 3
  MaxFetch = 3
  MaxInode = 2
  Block = 1
  MayCrash = TRUE
  MayDisable = TRUE
INVARIANTS
  TypeOK
  StalenessBound
  InvalidatedNotServed
  OneEntryPerHost
  CacheNeverFatal
PROPERTIES
  ActsAsMap
