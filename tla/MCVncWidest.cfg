SPECIFICATION AllSpec
CONSTANTS
  Parts = {"framebuffer"}
  FbSizes <- FbWidest
  FbPixels = {0, 1}
  WordMax = 4
  Cells = {c1}
  Pixels = {p0}
  Sizes = {s1}
  MaxSends = 4
  MaxSenders = 2
INVARIANT AcceptedFits
CHECK_DEADLOCK FALSE
