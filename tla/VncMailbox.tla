----------------------------- MODULE VncMailbox -----------------------------
(***************************************************************************)
(* The output mailbox of the VNC helper (vnc-helper/src/output_mailbox.rs):*)
(* a Mutex<State> and a Condvar shared by the session thread, which sends, *)
(* and the output writer, which receives.  Every method holds the mutex    *)
(* for its whole body, so each is one atomic action here.                  *)
(*                                                                         *)
(* The module declares the shared state and the mailbox methods; the       *)
(* modules that extend it supply the threads.                              *)
(*                                                                         *)
(* Data kept: a picture is a function from Cells (stand-ins for the        *)
(* rectangles of the framebuffer) to Pixels, tagged with its size; an      *)
(* update (FrameBgraRects) is a partial picture, the pixels its rectangles *)
(* leave behind when they are painted in order.  "gen" is a ghost field:   *)
(* the number of the RFB connection that produced the output.              *)
(***************************************************************************)
EXTENDS Naturals, Sequences, FiniteSets

CONSTANTS Cells,    \* the places of the framebuffer that can be updated
          Pixels,   \* the values a place can have
          Sizes     \* framebuffer sizes (width and height)

ASSUME PictureAssumption == Cells # {} /\ Pixels # {} /\ Sizes # {}

VARIABLES control,          \* VecDeque of reliable outputs
          latest_frame,     \* the pending complete frame, or None
          latest_delta,     \* the pending merged update, or None
          accepting,        \* accepting_session_outputs
          senders,          \* sender_count
          receiver_alive,
          receiver_waiting  \* the receiver sleeps on the condition variable

mailbox == <<control, latest_frame, latest_delta, accepting, senders,
             receiver_alive, receiver_waiting>>
-----------------------------------------------------------------------------
(* Outputs *)

None == [kind |-> "none"]

FramePictures == [Cells -> Pixels]
DeltaPictures == UNION {[D -> Pixels] : D \in SUBSET Cells}

Frames(G) == [kind : {"Frame"}, gen : G, size : Sizes, px : FramePictures]
Deltas(G) == [kind : {"Delta"}, gen : G, size : Sizes, px : DeltaPictures]

Barriers == {"Reconnecting", "ConnectionFailure", "Terminated"}

\* Outputs that belong to one remote session and die with it.
IsSessionScopedControl(output) ==
  output.kind \in {"ClipboardText", "CursorDefault", "CursorHidden",
                   "CursorPosition", "CursorBitmap"}

\* The picture that results from painting an update over a picture.
Paint(base, update) ==
  [c \in DOMAIN base |-> IF c \in DOMAIN update THEN update[c] ELSE base[c]]
-----------------------------------------------------------------------------
(* output_mailbox(): one sender, one receiver, session outputs accepted *)

MailboxInit ==
  /\ control = <<>>
  /\ latest_frame = None
  /\ latest_delta = None
  /\ accepting = TRUE
  /\ senders = 1
  /\ receiver_alive = TRUE
  /\ receiver_waiting = FALSE

Notify == receiver_waiting' = FALSE

\* The places of a queue that hold no session-scoped control, in their order.
KeptControls(queue) == {i \in DOMAIN queue : ~IsSessionScopedControl(queue[i])}
KeptOrder(queue) ==
  CHOOSE place \in [1..Cardinality(KeptControls(queue)) -> KeptControls(queue)] :
    \A i, j \in DOMAIN place : i < j => place[i] < place[j]

\* VecDeque::retain: what is kept stays in order.
DiscardPendingSessionControls(queue) ==
  [i \in 1..Cardinality(KeptControls(queue)) |-> queue[KeptOrder(queue)[i]]]

\* Mutant: the rectangles are prepended, so the older update paints last.
MergeDeltasReversed(previous, next) ==
  IF previous # None /\ previous.size = next.size
  THEN [next EXCEPT !.px =
          [c \in DOMAIN previous.px \cup DOMAIN next.px |->
             IF c \in DOMAIN previous.px THEN previous.px[c] ELSE next.px[c]]]
  ELSE next

\* The order of the rectangles is kept, so the later update paints last; an
\* update for another framebuffer size replaces the pending one.
MergeDeltas(previous, next) ==
  IF previous # None /\ previous.size = next.size
  THEN [next EXCEPT !.px =
          [c \in DOMAIN previous.px \cup DOMAIN next.px |->
             IF c \in DOMAIN next.px THEN next.px[c] ELSE previous.px[c]]]
  ELSE next

\* Consecutive cursor positions, and consecutive cursor bitmaps, coalesce.
EnqueueControl(queue, output) ==
  IF /\ queue # <<>>
     /\ output.kind \in {"CursorPosition", "CursorBitmap"}
     /\ queue[Len(queue)].kind = output.kind
  THEN [queue EXCEPT ![Len(queue)] = output]
  ELSE Append(queue, output)

\* Mutant: the pending frame is kept.
CloseKeepsFrame ==
  /\ latest_delta' = None
  /\ accepting' = FALSE
  /\ UNCHANGED latest_frame

CloseSessionOutputs ==
  /\ latest_frame' = None
  /\ latest_delta' = None
  /\ accepting' = FALSE
-----------------------------------------------------------------------------
(* OutputSender *)

BeginGeneration ==
  /\ CloseSessionOutputs
  /\ control' = DiscardPendingSessionControls(control)
  /\ Notify
  /\ UNCHANGED <<senders, receiver_alive>>

SendToClosed == ~receiver_alive /\ UNCHANGED mailbox

SendBarrier(output) ==
  /\ output.kind \in Barriers
  /\ CloseSessionOutputs
  /\ control' = Append(DiscardPendingSessionControls(control), output)

SendConnected(output) ==
  /\ output.kind = "Connected"
  /\ accepting' = TRUE
  /\ control' = Append(control, output)
  /\ UNCHANGED <<latest_frame, latest_delta>>

\* Mutant: the update of the replaced frame is kept.
SendFrameKeepsDelta(output) ==
  /\ output.kind = "Frame"
  /\ accepting
  /\ latest_frame' = output
  /\ UNCHANGED <<control, accepting, latest_delta>>

SendFrame(output) ==
  /\ output.kind = "Frame"
  /\ accepting
  /\ latest_frame' = output
  /\ latest_delta' = None
  /\ UNCHANGED <<control, accepting>>

SendDelta(output) ==
  /\ output.kind = "Delta"
  /\ accepting
  /\ latest_delta' = MergeDeltas(latest_delta, output)
  /\ UNCHANGED <<control, accepting, latest_frame>>

\* A late output of a session that is over is dropped, and reported as sent.
SendLate(output) ==
  /\ output.kind \in {"Frame", "Delta"} \/ IsSessionScopedControl(output)
  /\ ~accepting
  /\ UNCHANGED <<control, accepting, latest_frame, latest_delta>>

SendControl(output) ==
  /\ output.kind = "Status" \/ (IsSessionScopedControl(output) /\ accepting)
  /\ control' = EnqueueControl(control, output)
  /\ UNCHANGED <<accepting, latest_frame, latest_delta>>

Send(output) ==
  \/ SendToClosed
  \/ /\ receiver_alive
     /\ \/ SendBarrier(output)
        \/ SendConnected(output)
        \/ SendFrame(output)
        \/ SendDelta(output)
        \/ SendLate(output)
        \/ SendControl(output)
     /\ Notify
     /\ UNCHANGED <<senders, receiver_alive>>

CloneSender ==
  /\ senders' = senders + 1
  /\ UNCHANGED <<control, latest_frame, latest_delta, accepting,
                 receiver_alive, receiver_waiting>>

\* Mutant: the receiver is not woken when the last sender goes.
DropSenderSilently ==
  /\ senders' = IF senders = 0 THEN 0 ELSE senders - 1
  /\ UNCHANGED <<control, latest_frame, latest_delta, accepting,
                 receiver_alive, receiver_waiting>>

DropSender ==
  /\ senders' = IF senders = 0 THEN 0 ELSE senders - 1
  /\ receiver_waiting' = (receiver_waiting /\ senders' # 0)
  /\ UNCHANGED <<control, latest_frame, latest_delta, accepting, receiver_alive>>
-----------------------------------------------------------------------------
(* OutputReceiver: recv() serves controls, then the frame, then the update *)

MailboxEmpty == control = <<>> /\ latest_frame = None /\ latest_delta = None

RecvControl ==
  /\ control # <<>>
  /\ control' = Tail(control)
  /\ UNCHANGED <<latest_frame, latest_delta>>

RecvFrame ==
  /\ control = <<>>
  /\ latest_frame # None
  /\ latest_frame' = None
  /\ UNCHANGED <<control, latest_delta>>

RecvDelta ==
  /\ control = <<>>
  /\ latest_frame = None
  /\ latest_delta # None
  /\ latest_delta' = None
  /\ UNCHANGED <<control, latest_frame>>

\* The output recv() returns in this state.
Received ==
  IF control # <<>> THEN Head(control)
  ELSE IF latest_frame # None THEN latest_frame ELSE latest_delta

Recv ==
  /\ ~receiver_waiting
  /\ RecvControl \/ RecvFrame \/ RecvDelta
  /\ UNCHANGED <<accepting, senders, receiver_alive, receiver_waiting>>

RecvWait ==
  /\ ~receiver_waiting
  /\ MailboxEmpty
  /\ senders # 0
  /\ receiver_waiting' = TRUE
  /\ UNCHANGED <<control, latest_frame, latest_delta, accepting, senders,
                 receiver_alive>>

RecvClosed ==
  /\ ~receiver_waiting
  /\ MailboxEmpty
  /\ senders = 0

ClearMailbox ==
  /\ receiver_alive' = FALSE
  /\ control' = <<>>
  /\ latest_frame' = None
  /\ latest_delta' = None

DropReceiver ==
  /\ ClearMailbox
  /\ Notify
  /\ UNCHANGED <<accepting, senders>>
=============================================================================
