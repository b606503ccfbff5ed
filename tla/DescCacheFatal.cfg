\* Two invocations race on a missing or unreadable file.
SPECIFICATION Spec
VIEW LiveState
CONSTANTS
  p1 = p1  p2 = p2  h1 = h1  h2 = h2  v1 = v1  v2 = v2
  Procs = {p1, p2}
  Hosts = {h1, h2}
  Versions = {v1}
  NoVersion = none
  Timeout = 1
  StreamDeadline = 0
  MaxTime = 2
  MaxFetch = 2
  MaxInode = 2
  Block = 9
  MayCrash = FALSE
  MayDisable = FALSE
INVARIANTS
  CacheNeverFatal
