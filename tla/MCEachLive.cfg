SPECIFICATION FairSpec
CONSTANTS
  MaxExecId = 2
  MaxReqId = 3
  MaxInterrupted = 2
  MaxOpen = 8
  MaxFlows = 2
  MaxGroups = 2
  MaxAnswers = 1
  Node <- EachNode
  Kind <- EachKind
  Action = {"item", "sink"}
  ActionOf <- EachActionOf
  Input <- EachInput
  OnSuccess <- EachOnSuccess
  OnAppError <- EachOnError
  Branch <- Nothing
  Case <- EachCase
  JoinOut <- Nothing
  JoinSize <- Nothing
  Template <- EachTemplate
  Collected <- EachCollected
  Concurrency <- EachTwo
  Bound <- EachTwo
PROPERTIES
  EveryGroupEnds
CHECK_DEADLOCK FALSE
