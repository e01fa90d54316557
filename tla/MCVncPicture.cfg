SPECIFICATION Spec
CONSTANTS
  Cells = {c1, c2}
  Pixels = {p0, p1}
  Sizes = {s1, s2}
  Texts = {t1}
  MaxEventsPerPoll = 2
  MaxInputsPerPoll = 1
  MaxSessions = 2
  MaxControl = 1
  MaxInputs = 1
SYMMETRY PictureSymmetry
INVARIANT PictureInSync
