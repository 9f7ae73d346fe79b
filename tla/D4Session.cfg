\* A printer of which one answer at a time may come too late.
SPECIFICATION FairSpec
CONSTANTS
  Sockets = {2, 3}
  MaxCredit = 2
  Late = 1
  Requests <- Questions
  ProbeTries = 1
  InitTries = 1
  OpenTries = 1
  CreditTries = 1
  MaxRequests = 1
  DataTries = 1
  MaxSessions = 2
INVARIANTS
  TypeOK
  DataOnOpenChannel
  AnswersTested
PROPERTIES
  OwnAnswer
  EverySessionEnds
