\* Every kind of method; the server refuses, stops answering or is lost at any
\* point, and a deadline can pass.
SPECIFICATION FairSpec
CONSTANTS
  MaxMessages = 4
  Window = 1
  Fan = 2
  DefaultTimeout = 1
  Timeouts = {2}
  CloseTime = 1
  MaxTime = 3
  MayBreak = TRUE
CHECK_DEADLOCK FALSE
INVARIANTS
  TypeOK
  ExitTruthful
  OneRequestIfUnary
  MutualWaitNeedsMany
  ParseErrorSendsNothing
  TimeoutShortByClose
PROPERTIES
  DeadlineEndsCall
  AnsweredCallEnds
