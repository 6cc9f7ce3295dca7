SPECIFICATION Spec
CONSTANTS
  BUFFER_SIZE = 30
  Feeds <- MCFeeds
  Char <- MCChar
  MaxCalls = 4
CHECK_DEADLOCK FALSE
INVARIANTS
  ReadsLandInTheBuffer
  SplitFindsTheRuns
  WholeReadsLoseNothing
  FieldsBelongTogether
  GrantComesAlone
