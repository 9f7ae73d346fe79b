\* Pages of one or two copies, merged pairwise, held back and printed.
SPECIFICATION FairSpec
CONSTANTS
  MaxEntries = 3
  MaxParsed = 3
  MaxImages = 3
  Copies = {1, 2}
  JobsPerRead = {1}
  Kinds = {"4x6", "5x7"}
  Double = "8x6"
  KeepsCombine = TRUE
  MallocMayFail = FALSE
  Polarities = {TRUE, FALSE}
  Buffers = {1, 2, 3, 4}
INVARIANTS
  NothingLeaks
PROPERTIES
  HeldPagesMove
  PrintsTheDocument
