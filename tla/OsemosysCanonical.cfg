SPECIFICATION Spec
CONSTANTS
  Null = Null
  Strip <- MCStrip
  SetName <- MCSetName
  Parameter <- MCParameter
  Inputs <- MCInputs
  ModeNumber <- MCModeNumber
  TextOrder <- MCTextOrder
  TzField <- MCTzField
  OwnerColumns <- MCOwnerColumns
  OwnerSet <- MCOwnerSet
  PairFields <- MCPairFields
  Demand <- MCDemand
INVARIANTS
  ValuesKeepTheirMeaning
  EveryRawRowHasOneFate
  StatedValuesAreLookedUp
  AnnotationsIgnoreRowOrder
