CONSTANTS
  Thread = {t1, t2}
  Name = {n1}
  Item = {i1, i2}
  Slot = {s1, s2}
  Null = Null
  Mode = {"w"}
  AddInFront = FALSE
  MaxCreated = 3
SPECIFICATION Spec
SYMMETRY Symmetry
CHECK_DEADLOCK FALSE
INVARIANTS
  NoUseAfterFree
  CountedReferences
  LinkedOnce
  
