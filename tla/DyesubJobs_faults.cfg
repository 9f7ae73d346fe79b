\* Three and more copies, panoramas and failing allocations: pages may get
\* lost here, so what is left to check is that none is printed twice, out of
\* order, or from a freed buffer.
SPECIFICATION Spec
CONSTANTS
  MaxEntries = 3
  MaxParsed = 3
  MaxImages = 4
  Copies = {1, 2, 3}
  JobsPerRead = {1, 2, 3}
  Kinds = {"4x6"}
  Double = "8x6"
  KeepsCombine = FALSE
  MallocMayFail = TRUE
  Polarities = {TRUE, FALSE}
  Buffers = {b1, b2, b3, b4, b5}
SYMMETRY BufferSymmetry
INVARIANTS
  TypeOK
  HeapSafe
  NeverOverprints
  InOrder
