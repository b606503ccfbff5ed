\* The program with lines for the parser, the connection, the formatters and calls.
SPECIFICATION ProgramSpec
CONSTANTS
  MessageTypes <- Types
  Files <- ReadableFiles
  Lines <- AllLines
  TextOf <- Formatted
  Similar <- Replies
  StringPlace <- Places
  MaxDepth = 3
  LongBits = 8
  LongWidth = 16
  Unset = Unset  Bad = Bad  NoValue = NoValue  NoFormat = NoFormat
CHECK_DEADLOCK FALSE
INVARIANTS
  MessagesTyped
  GoodLineExact
  ErrorRefused
  NumbersExact
  OneSession
  ServiceStillFound
  SessionsEndedOnce
  PrintedExactly
  TextTells
