SPECIFICATION Spec
CONSTANTS
  NumRanks = 4
  NumSps = 4
  NumHosts = 2
  hostOf <- AlternatingHosts
  Mappings <- AllMappings
  MaxVersions = 2
INVARIANTS TopologyCounted TablesRight LookupsRight SpLookupsRight
CHECK_DEADLOCK FALSE
