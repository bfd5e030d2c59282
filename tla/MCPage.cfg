CONSTANTS
  MaxLoops = 2
  MaxSnapshots = 1
  Account = {A}
  NoAccount = NoAccount
  Current <- MCCurrent
  Known <- MCKnown
  Stored <- MCStored
  Masked = "***"
  MaxInits = 1
  MaxSignIns = 2
  Scaled = {s1, s2}
  Dividers = {1, 10}
  Peak = {0, 1, 10}
  MaxPeaks = 2
  Plot = {p1, p2, p3}
  NoPlot = NoPlot
  Moment = {1, 2}
  MaxDestroyed = 2
  Targets = 2
  UserOptions = {"a", "b"}
  MaxSaves = 2
  MaxUserSteps = 3
  Painted = {c1, c2}
  Label = {x, y, z}
  Theme <- MCTheme
  DataColors <- MCDataColors
  MaxRecolors = 1
  Agent = {g1}
  KnownURL = {u, v}
  FoundURL = {v, w}
  MaxClicks = 2
  Time = {2, 3}
  Section = {"a", "b"}
  Margin = 1
  MaxViews = 3
SPECIFICATION PageSpec
INVARIANTS
  LoopKept PausedHasOwner
  SelectedTogether
  PageGivenBack
  
  OpensOneOrGivesUp
  ViewSurvivesReload
PROPERTIES
  
  AccountKept
  UnitsPartAgrees
CHECK_DEADLOCK FALSE
