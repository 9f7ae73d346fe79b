\* Two insertions, the second one before the first node.
SPECIFICATION Spec
CONSTANTS
  Nodes = {n1, n2, n3}
  NULL = NULL
  Kinds = {"name"}
  Names = {"a"}
  Befores = {NULL, n1, n2}
INVARIANT WellLinked
