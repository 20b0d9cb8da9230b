SPECIFICATION Spec
CONSTANTS
  None = None
  Exports <- MCExports
  Requests <- MCRequests
  CanonicalUnit <- MCCanonicalUnit
  DayLength = 2
  YearLength = 8
  TimeMin = 0
  TimeMax = 32
INVARIANTS
  EveryRowHasOneFate
  EntriesInForceAreRead
  FileSeriesAreTheOwnersShares
