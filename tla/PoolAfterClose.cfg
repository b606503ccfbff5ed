\* The database of the pool while the call is made.
SPECIFICATION ProgramSpec
CONSTANTS
  MessageTypes <- Types
  Files <- ReadableFiles
  Lines <- OnlyCalls
  TextOf <- Formatted
  Similar <- Replies
  StringPlace <- Places
  MaxDepth = 3
  LongBits = 8
  LongWidth = 16
  Unset = Unset  Bad = Bad  NoValue = NoValue  NoFormat = NoFormat
CHECK_DEADLOCK FALSE
INVARIANT
  LookupsInLiveDatabase
