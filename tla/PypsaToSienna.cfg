SPECIFICATION LegOrLapSpec
CONSTANTS
  None = None
  One = 2
  DefaultVoll = 5
  Networks <- MCNetworks
  TypeOf <- MCTypeOf
  Voll <- MCVoll
  Carriers <- LapCarriers
  CarrierOf <- LapCarrierOf
  RoundTrips <- LapNetworks
  Laps = 2
INVARIANTS
  EveryComponentHasOneFate
  ReferencesReachTheirNamesakes
  StoredSeriesAreTheSourceMegawatts
  DispatchSurvivesTheLap
  ASecondLapChangesNothing
