CONSTANTS
  Junk = Junk
  Byte = {a, b}
  Initial = 2
  MaxSize = 5
  Chunks <- MCChunks
  Thread = {t1, t2, t3}
  Null = Null
  Dict = {d1, d2}
  Item = {i1, i2}
  MaxCreated = 2
  EntryKinds <- MCKinds
  Granted = TRUE
  LogInOrder = TRUE
  MaxLogged = 2
  MaxLogRequests = 2
  MaxReloads = 1
  Plots = {p1, p2}
  Value = {0, 1, 2}
  MaxChanges = 2
  Blank = Blank
  NaN = NaN
  Scale <- MCScale
  Attributes <- MCAttributes
  MaxInitialized = 1
  Missing = Missing
  Zone = {"zone", "other", "odd"}
  Accepted = {"zone", "other"}
  Height = {"low", "high"}
  AuthorHeight = "low"
  MaxSettings = 4
SPECIFICATION PartsSpec
INVARIANTS
  OneSender
   NotifiedOnce
  DataFits
  
  
PROPERTIES
  FifoSpec
  SenderPartProgress
  
  
  RangePartAgrees
