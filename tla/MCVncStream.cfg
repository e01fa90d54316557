SPECIFICATION Spec
CONSTANTS
  Cells = {c1}
  Pixels = {p0, p1}
  Sizes = {s1, s2}
  Texts = {t1}
  MaxEventsPerPoll = 1
  MaxInputsPerPoll = 1
  MaxSessions = 3
  MaxControl = 1
  MaxInputs = 1
PROPERTY StreamSpec
