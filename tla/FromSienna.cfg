SPECIFICATION PsSpec
CONSTANTS
  None = None
  Documents <- MCDocuments
INVARIANTS
  KeptIsTheLargestClosedPart
  NothingIsLostInSilence
  ColumnsAreTheStoredMegawatts
  SystemIsTheKeptPart
  SidecarHoldsTheStoredMegawatts
