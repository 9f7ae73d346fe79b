\* Two pages of three copies that fit twice on a sheet.
SPECIFICATION FairSpec
CONSTANTS
  MaxEntries = 3
  MaxParsed = 3
  MaxImages = 2
  Copies = {3}
  JobsPerRead = {1}
  Kinds = {"4x6"}
  Double = "8x6"
  KeepsCombine = TRUE
  MallocMayFail = FALSE
  Polarities = {FALSE}
  Buffers = {1, 2, 3, 4}
INVARIANT SuccessMeansPrinted
