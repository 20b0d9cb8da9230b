CONSTANTS
  None = None
  One = 64
  Models <- MCModels
  TypeOf <- MCTypeOf
  HubModels <- HubObjects
  Fuels <- HubFuels
  Targets <- HubTargets
  CarrierOf <- NoCells
SPECIFICATION PipelineOrHubSpec
INVARIANT
  BothDocumentsAreWritten
