\* Every shipped kind of chain, each hop reading, relaying and dropping what it may.
CONSTANTS
  Kinds <- MCKinds
  CompanionKinds <- MCCompanionKinds
  Subjects <- MCSubjects
  Chains <- MCChains
SPECIFICATION SidecarSpec
INVARIANTS
  EveryRecordIsAccountedFor
  SeriesTravelWhereTheyAreStaged
