\* Heads of up to four jets, five weave patterns, one or two colours, whole
\* pages and pages that end early.  The page ends: there is no deadlock to find.
SPECIFICATION Spec
CONSTANT Jobs <- SmallJobs
INVARIANTS
  LinesInPlace
  EveryLineOnce
  PassesConsecutive
  SlotsNotStolen
  BuffersSuffice
  RowAndPassAgree
CHECK_DEADLOCK FALSE
