------------------------------ MODULE MCVncParts ------------------------------
(***************************************************************************)
(* Three parts of the VNC helper on their own, for TLC: the output mailbox *)
(* under arbitrary use, keys and pointer, and the framebuffer.  They share *)
(* no state; a behaviour is one of the part it begins with, and the others *)
(* stay at their first state.                                              *)
(***************************************************************************)
EXTENDS VncMailboxLog, Framebuffer

CONSTANT Parts       \* of the run

VARIABLES part,
          user, inputs, hostGone, phase, sessions, keyboard, pointer, clients, server, lost, undone

OnePixel == [w |-> 1, h |-> 1]
FbOrdinary == {OnePixel, [w |-> 3, h |-> 2], [w |-> 2, h |-> 3], [w |-> 3, h |-> 3]}
FbWidest == {[w |-> 4, h |-> 2]}

Input == INSTANCE VncKeys WITH Keys <- {"Return", "KpEnter"}, Buttons <- {"Left"}, Positions <- {1, 2},
                               MaxInputs <- 3, MaxRequests <- 4, MaxSessions <- 2

ASSUME PartsAssumption == Input!KeysAssumption

inputVars == <<user, inputs, hostGone, phase, sessions, keyboard, pointer, clients, server, lost, undone>>
allVars == <<part, logVars, inputVars, fbVars>>

AllInit == /\ part \in Parts /\ LogInit /\ Input!Init /\ FbInit
           /\ part # "framebuffer" => size = OnePixel

AllNext == \/ part = "mailbox" /\ LogNext /\ UNCHANGED <<part, inputVars, fbVars>>
           \/ part = "input" /\ Input!Next /\ UNCHANGED <<part, logVars, fbVars>>
           \/ part = "framebuffer" /\ FbNext /\ UNCHANGED <<part, logVars, inputVars>>

AllSpec == AllInit /\ [][AllNext]_allVars
-----------------------------------------------------------------------------
\* What the server is left with is what the host's user holds, through batches,
\* errors and reconnections of send_vnc_input's session, except for releases that
\* were dropped with the client's queue; and a close is never lost.
InputIsFaithful == part = "input" => Input!InputIsFaithful
=============================================================================
