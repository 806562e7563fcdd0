CONSTANTS
  Requests <- MCRequests
  MaxPolls = 3
SPECIFICATION Spec
INVARIANTS EndsOnce SuccessIsTransferred HandlerFindsCaller
PROPERTIES EveryRequestEnds
