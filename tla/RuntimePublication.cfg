CONSTANTS
  Providers = {"gpu", "stub"}
  Names = {"gpu"}
  NameOf <- MCNameOf
  Outputs <- MCOutputs
  Threads = {t1, t2}
  MaxNodes = 4
  KeySpan = 10
  MaxEdges = 4
  MaxDiscoveries = 3
  MaxResets = 0
SPECIFICATION FairSpec
INVARIANTS TypeOK GenerationSound
PROPERTIES ImplementsPublished DiscoveryEnds
