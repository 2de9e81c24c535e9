SPECIFICATION FairSpec
CONSTANTS
  MaxExecId = 2
  MaxReqId = 3
  MaxInterrupted = 2
  MaxOpen = 8
  MaxFlows = 2
  MaxGroups = 2
  MaxAnswers = 2
  Node <- AllNode
  Kind <- AllKind
  Action = {"left", "right", "sink"}
  ActionOf <- AllActionOf
  Input <- AllInput
  OnSuccess <- AllOnSuccess
  OnAppError <- AllOnError
  Branch <- AllBranch
  Case <- Nothing
  JoinOut <- AllJoinOut
  JoinSize <- AllJoinSize
  Template <- Nothing
  Collected <- Nothing
  Concurrency <- Nothing
  Bound <- Nothing
INVARIANTS
  TypeOK
  JoinWaitsForAll
  OutcomeIsStrongest
PROPERTIES
  ImplementsContract
  EveryGroupEnds
CHECK_DEADLOCK FALSE
