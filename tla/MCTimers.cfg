SPECIFICATION AllSpec
CONSTANTS
  Interval = 2
  ResponseTimeout = 5
  LivenessTimeout = 12
  ProbeTimeout = 6
  MaxLag = 3
INVARIANT GivenUpWasSilent
INVARIANT SilenceIsBounded
PROPERTY NoFlood
PROPERTY DeadIsNoticed
PROPERTY ImageIsPresented
PROPERTY ClosingEnds
CHECK_DEADLOCK FALSE
