\* A deadline that passes while requests are written.
SPECIFICATION Spec
CONSTANTS
  MaxMessages = 3
  Window = 1
  Fan = 1
  DefaultTimeout = 1
  Timeouts = {1}
  CloseTime = 0
  MaxTime = 2
  MayBreak = FALSE
CHECK_DEADLOCK FALSE
INVARIANTS
  DeadlineReported
