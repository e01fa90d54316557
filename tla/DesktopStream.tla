--------------------------- MODULE DesktopStream ---------------------------
(***************************************************************************)
(* What a remote-desktop helper promises its host about the event stream   *)
(* on stdout: the picture the host shows is only ever built from the       *)
(* session that is live.  Between a Connected and the Reconnecting or      *)
(* failure that ends the session the host may be repainted, by a complete  *)
(* frame or by an update of the frame it holds, and only with pictures of  *)
(* that very session; nothing but a further failure notice follows a       *)
(* failure.  The stream says nothing about when events come.               *)
(***************************************************************************)
EXTENDS Naturals

CONSTANTS Pictures(_),  \* Pictures(n): the pictures session n can produce
          NoPicture     \* the host holds no picture of this session

VARIABLES phase,    \* "idle" | "live" | "ended"
          session,  \* the number of the last session announced
          picture   \* the picture the host has built

Init ==
  /\ phase = "idle"
  /\ session = 0
  /\ picture = NoPicture

\* A new session is up.
Connected ==
  /\ phase = "idle"
  /\ phase' = "live"
  /\ session' \in {n \in Nat : n > session}
  /\ UNCHANGED picture

\* A complete frame, or an update painted on the one the host holds.
Repaint ==
  /\ phase = "live"
  /\ picture' \in Pictures(session)
  /\ UNCHANGED <<phase, session>>

\* Reconnecting: the picture of the session that ended is given up.
Lost ==
  /\ phase \in {"idle", "live"}
  /\ phase' = "idle"
  /\ picture' = NoPicture
  /\ UNCHANGED session

Failed ==
  /\ phase' = "ended"
  /\ picture' = NoPicture
  /\ UNCHANGED session

Next == Connected \/ Repaint \/ Lost \/ Failed

Spec == Init /\ [][Next]_<<phase, session, picture>>
=============================================================================
