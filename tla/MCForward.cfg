SPECIFICATION FairSpec
CONSTANTS
  MaxExecId = 3
  MaxReqId = 2
  MaxInterrupted = 2
  MaxOpen = 8
  MaxSlots = 2
  MaxAnswers = 2
  MaxFaults = 2
  Root = "first"
  Done = "end"
  Action = {"both"}
  Node <- MCNode
  ActionOf <- MCActionOf
  OnSuccess <- MCOnSuccess
  OnAppError <- MCOnAppError
INVARIANTS
  TypeOK
  MemoryMatchesDisk
  ToldIsDurable
  KnownTerminalHasValue
  OwnerHasDescriptor
  OneAwaitedAnswer
PROPERTIES
  ImplementsContract
  LiveRefusalHasCause
  RecoveryRefusedOnlyIfKnown
  EveryExecutionSettles
CHECK_DEADLOCK FALSE
