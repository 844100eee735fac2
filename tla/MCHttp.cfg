SPECIFICATION Spec
CONSTANTS
  Responses <- MCResponses
  BufferSize = 4
  MaxUint = 31
  MaxRequests = 2
INVARIANTS TypeOK AnswerIsWhole LossesHaveReasons
PROPERTIES EveryRequestEnds
CHECK_DEADLOCK FALSE
