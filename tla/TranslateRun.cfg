\* A run of one to three legs, failing at every call it makes.
CONSTANTS
  Manifests <- MCManifests
  Requests <- MCRequests
  Consumes <- MCConsumes
  Produces <- MCProduces
  ReportPaths <- MCReportPaths
  Boundary = Boundary
  UserFiles = {"input", "model", "mappings.yaml"}
  AbsolutePaths = {"/model"}
  UserMappingsPath = "mappings.yaml"
  ValidationReportPath = "validation-report.md"
SPECIFICATION Spec
INVARIANTS
  OutputsOnlyFromAcceptedInput
  ReportNamesEveryFinding
  LegsReadWhatTheyAreHanded
  DecisionsHoldEveryEvent
  NothingTemporaryOutlivesTheRun
PROPERTIES
  ImplementsContract
