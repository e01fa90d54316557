SPECIFICATION FairSpec
CONSTANTS
  Cells = {c1}
  Pixels = {p0}
  Sizes = {s1}
  Texts = {t1, t2}
  MaxEventsPerPoll = 1
  MaxInputsPerPoll = 2
  MaxSessions = 2
  MaxControl = 1
  MaxInputs = 2
INVARIANT SessionHasLatestClipboard
INVARIANT WriterNeverMissesWakeup
PROPERTY CloseTerminates
