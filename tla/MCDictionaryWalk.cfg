CONSTANTS
  Thread = {t1, t2}
  Name = {n1, n2}
  Item = {i1, i2}
  Slot = {s1}
  Null = Null
  Mode = {"R"}
  AddInFront = TRUE
  MaxCreated = 2
  Walks = {"R"}
  Sorts = {"r"}
SPECIFICATION WalkSpec
SYMMETRY Symmetry
CHECK_DEADLOCK FALSE
INVARIANTS OfferedAll WalkSafe
