SPECIFICATION AllSpec
CONSTANTS
  NoLimit = NoLimit
  StreamIds = {"s1"}
  RowLimits = {NoLimit, 0, 2}
  FetchSizes = {0, 1, 3}
  ReadSizes = {2}
  Thresholds = {0, NoLimit}
  ExportFetchRows = 2
  MaxFetch = 2
  MaxRows = 3
  MaxCursors = 1
  MaxTx = 2
  MaxImports = 1
  MaxChunk = 2
  MaxFailed = 2
  Unlimited = Unlimited
  OgStreamIds = {"s1"}
  Savepoints = {"p"}
  OgRowLimits = {Unlimited, 0, 2}
  Sizes = {0, 1, 3}
  MaxSize = 2
  OgThresholds = {Unlimited, 1}
  OgMaxRows = 3
  OgMaxCursors = 1
  OgMaxTx = 2
  OgMaxImports = 1
  OgMaxChunk = 3
  MaxMarks = 2
INVARIANT ConnectionIsTrue
INVARIANT OgConnectionIsTrue
CHECK_DEADLOCK FALSE
