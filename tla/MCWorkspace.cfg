SPECIFICATION Spec
CONSTANTS
  Pid = {p1, p2}
  a = a
  b = b
  bad = bad
  Image <- MCImage
  Supported <- MCSupported
  Workflow = {w1, w2}
  Nothing = nothing
  MaxKills = 1
  MaxLosses = 1
SYMMETRY Symmetry
INVARIANTS
  TypeOK
  ProcessesAgree
  StateMatchesBinding
  ServingOwnsWorkspace
  OnlySocketNamesBlockLaunches
