SPECIFICATION Spec
CONSTANTS
  c1 = c1
  c2 = c2
  Client = {c1, c2}
  MemSize = 96
  Header = 12
  MinSize = 12
  Align = 4
  Request = {1, 15, 40}
  Ops = {"malloc", "free", "shrink", "move"}
  MaxHeld = 2
SYMMETRY MCSymmetry
INVARIANTS
  TypeOK
  HeapTiled
  Coalesced
  PointersIntact
  UsedMemExact
