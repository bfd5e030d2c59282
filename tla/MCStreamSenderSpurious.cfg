CONSTANTS
  Chart = {"c1"}
  Compression = FALSE
  MaxSize = 7
  MaxConnections = 2
  MaxUpdates = 0
  MaxMessages = 5
SPECIFICATION Spec
INVARIANT SpuriousWiped
