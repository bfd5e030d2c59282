CONSTANTS
  Chart = {"c1"}
  Compression = TRUE
  MaxSize = 7
  MaxConnections = 2
  MaxUpdates = 1
  MaxMessages = 4
SPECIFICATION FairSpec
INVARIANTS WholeMessages DefinedFirst
PROPERTY OverflowCloses
