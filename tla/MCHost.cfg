SPECIFICATION Spec
CONSTANTS
  Action = {"a"}
  Conn = {x1, x2, x3}
  Caller = {c1}
  None = none
  MaxPending = 2
  MaxClients = 2
  MaxSlots = 2
  MaxId = 3
  FirstId = 2
  Recovered <- MCRecovered
SYMMETRY ConnSymmetry
INVARIANTS
  TypeOK
  HostKeepsRunning
  SlotsAreTracked
  ReplyIsForSubmitter
