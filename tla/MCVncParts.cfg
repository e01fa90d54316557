SPECIFICATION AllSpec
CONSTANTS
  Parts = {"mailbox", "input", "framebuffer"}
  FbSizes <- FbOrdinary
  FbPixels = {0, 1}
  WordMax = 4
  Cells = {c1}
  Pixels = {p0}
  Sizes = {s1}
  MaxSends = 4
  MaxSenders = 2
INVARIANT MailboxIsSound
INVARIANT InputIsFaithful
INVARIANT FramebufferIsSound
CHECK_DEADLOCK FALSE
