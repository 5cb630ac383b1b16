CONSTANTS
  Connections = {c1, c2, c3}
  Names = {n1}
  NoName = NoName
  Items = {i1}
  MaxRegistrations = 1
  MaxStatusMsgs = 1
  MaxRestarts = 1
SYMMETRY Symmetry
SPECIFICATION Spec
INVARIANTS RefusedOnlyIfHeld RegistryInv
CHECK_DEADLOCK FALSE
