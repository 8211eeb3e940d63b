SPECIFICATION FairSpec
CONSTANTS
  Base = 8
  U64 = 2
  U32 = 1
  ReadyName <- MCReadyName
  Mechanisms = {1}
  Scripts <- MCScripts
  initial_size = 2
  max_size = 8
  short_limit = 2
  IsizeMax = 30
  PowersOfTwo = {1, 2, 4, 8}
INVARIANTS
  YieldsWhatWasSent
  ErrorsAreReal
  ReadsInRange
PROPERTIES
  ShrinksOnlyAfterShortReads
  StreamEnds
