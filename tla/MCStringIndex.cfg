CONSTANTS
  Thread = {t1, t2}
  Name = {n1, n2}
  Entry = {e1, e2, e3}
  Slot = {s1, s2}
  Null = Null
SPECIFICATION FairSpec
INVARIANTS NoUseAfterFree Interned
PROPERTY EventuallyFreed
