CONSTANTS
  Providers = {"host", "gpu", "stub"}
  Names = {"host", "gpu"}
  NameOf <- MCNameOf
  Outputs <- MCOutputs
  Threads = {t1}
  MaxNodes = 4
  KeySpan = 10
  MaxEdges = 4
  MaxDiscoveries = 2
  MaxResets = 1
SPECIFICATION Spec
INVARIANTS EachProviderOnce TelemetryAccounts RegistryConsistent
PROPERTIES OrderStable
