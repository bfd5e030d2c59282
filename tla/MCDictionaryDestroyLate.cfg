CONSTANTS
  Dict = {d1}
  Item = {i1}
  MaxCreated = 1
SPECIFICATION FairSpec
PROPERTY EventuallyFreed
