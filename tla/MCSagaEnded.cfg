SPECIFICATION Spec
CONSTANTS
  MaxExecId = 2
  MaxReqId = 5
  MaxInterrupted = 1
  MaxOpen = 8
  MaxActive = 1
  Steps = 2
  MaxSlots = 1
  MaxEvents = 2
PROPERTY
  ConfirmedProgressResumes
CHECK_DEADLOCK FALSE
