SPECIFICATION Spec
CONSTANTS
  A = A  B = B  v = v  w1 = w1  w2 = w2
  Data = {A, B}
  Var = {v, w1, w2}
  Of <- MCOf
  Stored <- MCStored
  MaxArrays = 6
  Index = {1}
  Nil = Nil  Obj = Obj  None = None
  MaxLevel = 2
  MaxWork = 5
  OwnerCleans = FALSE
INVARIANTS PlanesRight ExportsRight
PROPERTY RollsBack
