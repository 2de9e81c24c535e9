SPECIFICATION FairSpec
CONSTANTS
  MaxExecId = 3
  MaxReqId = 7
  MaxInterrupted = 2
  MaxOpen = 8
  MaxActive = 2
  Steps = 3
  MaxSlots = 2
  MaxEvents = 3
INVARIANTS
  SagaLogReadable
  TypeOK
  SentOnce
  ReverseOrder
  RollbackIsProven
PROPERTIES
  RefusalHasCause
  ReverseRequestsAreFresh
  StartedSagaEnds
CHECK_DEADLOCK FALSE
