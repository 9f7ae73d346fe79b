\* Callers free what they parsed uncached, as all of the library does.
SPECIFICATION Spec
CONSTANTS
  NULL = NULL
  Nodes = {n1, n2, n3}
  Files = {f1, f2}
  TopNodes = {"paperdef"}
  Paths = {"DEFAULT", "dir"}
  OtherCaches = {escp2Weaves}
  Uncached = Uncached
  Caches <- AllCaches
INVARIANTS
  ListsAgree
  RecordsLiveNodes
  CachedNodesLive
  ReturnsWhatWasAsked
