\* Two sessions, side by side or one after the other, with every answer, failure and kill.
CONSTANTS
  Sessions = {s1, s2}
  HistoryLimit = 2
  Catalogs <- MCCatalogs
  Params <- MCParams
  NeedsMappings <- MCNeedsMappings
  Options <- MCOptions
  Typed <- MCTyped
  Prefilled <- MCPrefilled
  Normal <- MCNormal
  Scenarios <- MCScenarios
SPECIFICATION Spec
INVARIANTS
  AReplayRepeatsTheRun
  HistoryIsTheLastDialogs
