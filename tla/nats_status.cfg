SPECIFICATION FairSpec
CONSTANTS
  Operations = {o1, o2}
  Deadline = 2
INVARIANTS
  TypeOK
  DurableRequest
  AnswerIsReadable
PROPERTIES
  ImplementsRpc
  EveryStatusEnds
  EveryRequestIsAnswered
CHECK_DEADLOCK FALSE
