CONSTANTS
  Thread = {t1, t2, t3}
  MaxDepth = 2
SPECIFICATION FairSpec
PROPERTIES RWSpec ReaderServed
