------------------------------- MODULE MCTimers -------------------------------
(***************************************************************************)
(* What must happen in time, for TLC: the refresh and liveness timers of a *)
(* VNC session, and the pacing of complete images and the end of the RDP   *)
(* helper.  A behaviour is one of the two.                                 *)
(***************************************************************************)
EXTENDS VncRefresh

VARIABLES part,
          remote, sent, link, client, mapper, pending_image, timer, out, mapping, box, main, host

\* One picture, and a client that sends it again without end.
Rdp == INSTANCE RdpOutput WITH Cells <- {1}, Pixels <- {1}, DesktopSizes <- {1}, Cursors <- {1}, Bitmaps <- {1},
                               Capacity <- 1, Settle <- 2, Latency <- 3, MaxEvents <- 1, Endless <- TRUE

ASSUME RdpAssumption == Rdp!OutputAssumption

rdpVars == <<remote, sent, link, client, mapper, pending_image, timer, out, mapping, box, main, host>>
allVars == <<part, vars, rdpVars>>

InVnc(A) == part = "vnc" /\ A /\ UNCHANGED <<part, rdpVars>>
InRdp(A) == part = "rdp" /\ A /\ UNCHANGED <<part, vars>>

AllInit == part \in {"vnc", "rdp"} /\ Init /\ Rdp!OutInit
AllNext == InVnc(Next) \/ InRdp(Rdp!OutNext)

\* The fairness of VncRefresh and of RdpOutput, each of its own part.
AllFairness ==
  /\ WF_allVars(InVnc(PollEvents)) /\ WF_allVars(InVnc(RefreshIfNeeded)) /\ WF_allVars(InVnc(Tick))
  /\ WF_allVars(InRdp(Rdp!MapEvent)) /\ WF_allVars(InRdp(Rdp!PresentDue)) /\ WF_allVars(InRdp(Rdp!MapperDrains))
  /\ WF_allVars(InRdp(Rdp!SendOut)) /\ WF_allVars(InRdp(Rdp!Tick)) /\ WF_allVars(InRdp(Rdp!ClientStops))
  /\ WF_allVars(InRdp(Rdp!ReceiveOutput)) /\ WF_allVars(InRdp(Rdp!WriterEnds)) /\ WF_allVars(InRdp(Rdp!Exit))

AllSpec == AllInit /\ [][AllNext]_allVars /\ AllFairness
-----------------------------------------------------------------------------
\* A complete image that the RDP helper holds back to collapse it with newer ones
\* is presented although newer ones keep coming.
ImageIsPresented == Rdp!ImageIsPresented

\* Asked to close, the RDP helper ends: the client, the task that maps events, the
\* writer and main each see the end of the one before.
ClosingEnds == Rdp!ClosingEnds
=============================================================================
