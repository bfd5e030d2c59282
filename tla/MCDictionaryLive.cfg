CONSTANTS
  Thread = {t1, t2}
  Name = {n1}
  Item = {i1}
  Slot = {s1}
  Null = Null
  Mode = {"w", "R"}
  AddInFront = FALSE
  MaxCreated = 1
SPECIFICATION FairSpec
CHECK_DEADLOCK FALSE
PROPERTY CallsReturn
