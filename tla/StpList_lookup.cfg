SPECIFICATION Spec
CONSTANTS
  Nodes <- Addresses
  NULL = NULL
  Kinds = {"name"}
  Names = {"a", "b"}
  Befores = {NULL}
CONSTRAINT Representative
INVARIANTS
  WellLinked
  CachesCoherent
  IndexLookupRight
  NameLookupRight
