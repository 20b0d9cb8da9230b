\* Planning over chains of one to three legs, mappings or not.
CONSTANTS
  Manifests <- MCManifests
  Requests <- MCRequests
  Boundary = Boundary
SPECIFICATION Spec
INVARIANTS
  HandoffsPairUp
  ConsumerIsGivenWhatItsNamedUpstreamProduces
