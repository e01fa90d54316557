---------------------------- MODULE MCVncHelper ----------------------------
(* The VNC helper for TLC.                                                   *)
EXTENDS VncHelper, TLC

\* The places of the framebuffer and its sizes are interchangeable.
PictureSymmetry == Permutations(Cells) \cup Permutations(Sizes)
=============================================================================
