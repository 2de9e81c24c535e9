SPECIFICATION Spec
CONSTANTS
  MaxExecId = 2
  MaxReqId = 4
  MaxInterrupted = 2
  MaxOpen = 8
  MaxFlows = 3
  MaxGroups = 2
  MaxAnswers = 2
  Node <- EachNode
  Kind <- EachKind
  Action = {"item", "sink"}
  ActionOf <- EachActionOf
  Input <- EachInput
  OnSuccess <- EachOnSuccess
  OnAppError <- EachOnError
  Branch <- Nothing
  Case <- EachCase
  JoinOut <- Nothing
  JoinSize <- Nothing
  Template <- EachTemplate
  Collected <- EachCollected
  Concurrency <- EachTwo
  Bound <- EachThree
INVARIANTS
  CollectIsComplete
  SingleFlight
  OutcomeIsStrongest
PROPERTIES
  EndsOnlyOverStaleEntry
CHECK_DEADLOCK FALSE
