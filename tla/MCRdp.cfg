SPECIFICATION AllSpec
CONSTANTS
  Cells = {1}
  Pixels = {1, 2}
  DesktopSizes = {1, 2}
  Cursors = {1, 2, 3}
  Bitmaps = {2, 3}
  Capacity = 1
  Settle = 1
  Latency = 2
  MaxEvents = 4
  Endless = FALSE
  Copies <- FilesThenFiles
  Sizes <- TwoSizes
  MaxSingle = 2
  MaxTotal = 2
  Chunk = 1
  Locks = {1}
  LocalSets = 2
  MaxReconnects = 1
  MaxErrors = 1
  MaxLists = 0
INVARIANT TransfersAreSound
INVARIANT ListsAreSound
INVARIANT DesktopIsShown
INVARIANT InputIsFaithful
PROPERTY TextIsCurrent
CHECK_DEADLOCK FALSE
