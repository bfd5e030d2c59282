CONSTANTS
  Chart = {c1, c2}
  None = None
  DestroyOnHide = {TRUE, FALSE}
  Failing = {c1}
  MaxRetries = 1
  MaxGestures = 2
  MaxMishaps = 1
SPECIFICATION SyncFairSpec
INVARIANTS OwnRangeOnlyMaster MarkedIsSynced BusyHasRequest
PROPERTY EventuallySynced
