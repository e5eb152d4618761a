CONSTANTS
  Obj = {o1, o2}
  Byte = {b1, b2}
  Talkers = {o1}
  Slot = {u1, u2}
  MaxDgram = 1
  DgramMod = 4
  MaxStr = 2
  MaxCalls = 2
  Connects = {"tcp", "dgram"}
  Reconnects = FALSE
  MaxOps = 3
  None = None
SYMMETRY Symmetry
SPECIFICATION Spec
CHECK_DEADLOCK FALSE
INVARIANTS UsersRight OutputKept RequestsRight
