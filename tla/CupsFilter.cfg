SPECIFICATION Spec
CONSTANTS
  Pages = 3
  Headers <- SomeHeaders
  SoftDuplex = TRUE
  BreaksOff = TRUE
  NoLine = NoLine
  NULL = NULL
INVARIANTS
  TypeOK
  LinesInPlace
  Aligned
  CancelStopsReading
  PagesOnStartedPrinter
