CONSTANTS
  Thread = {t1, t2}
  Name = {n1, n2}
  Item = {i1, i2}
  Slot = {s1}
  Null = Null
  Mode = {}
  AddInFront = FALSE
  MaxCreated = 2
  Walks = {"w"}
  Sorts = {}
SPECIFICATION WalkSpec
SYMMETRY Symmetry
CHECK_DEADLOCK FALSE
INVARIANT CallbackCanDelete
