SPECIFICATION Spec
CONSTANTS
  Requests <- MCRequests
INVARIANTS TypeOK JournalIsComplete
PROPERTIES EveryRequestEnds
CHECK_DEADLOCK FALSE
