SPECIFICATION Spec
CONSTANTS
  Finite <- MCFinite
  Numbers <- MCNumbers
  Compositions <- MCCompositions
  Given = {0, 1}
  Bounds <- MCBounds
  Counts = {2}
  Places = {0, 1}
  NULL = NULL
  One = 2
  curve_point_limit = 3
INVARIANT DeltasAtHand
