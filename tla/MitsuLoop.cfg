SPECIFICATION Spec
CONSTANTS
  Printjobs <- SmallPrintjobs
  Leftovers <- SmallLeftovers
  FirstIds = {5}
  Ids = 6
  Banks = 2
  MaxFaults = 1
INVARIANTS
  TypeOK
  EndedMeansPrinted
  OkMeansPrinted
  OneExtraPerError
PROPERTIES
  HoldOnlyWithoutDeck
  ReturnsOrBlocked
