--------------------------- MODULE VncMailboxLog ---------------------------
(***************************************************************************)
(* The VNC output mailbox under arbitrary use: senders that send any       *)
(* output in any order, clone and drop their handles, and a receiver that  *)
(* receives until the mailbox is closed or drops its end.  History         *)
(* variables record what was sent, received and closed; outputs are        *)
(* numbered by the send that carried them (the field gen).                 *)
(***************************************************************************)
EXTENDS VncMailbox

CONSTANTS MaxSends,    \* bound: outputs sent in a behaviour
          MaxSenders   \* bound: sender handles alive at once

ASSUME LogBounds == MaxSends \in Nat /\ MaxSenders \in Nat \ {0}

VARIABLES sent,      \* history: every output passed to send()
          received,  \* history: every control output recv() returned
          epoch,     \* history: sends made when the session was last closed
          closed,    \* history: the session was closed at least once
          exited     \* history: recv() returned None, the mailbox being closed

logs == <<sent, received, epoch, closed, exited>>
logVars == <<mailbox, logs>>

ControlKinds == Barriers \cup {"Connected", "Status", "ClipboardText",
  "CursorDefault", "CursorHidden", "CursorPosition", "CursorBitmap"}

Output(kind, n) ==
  IF kind \in ControlKinds THEN [kind |-> kind, gen |-> n]
  ELSE [kind |-> kind, gen |-> n, size |-> CHOOSE s \in Sizes : TRUE,
        px |-> [c \in Cells |-> CHOOSE p \in Pixels : TRUE]]

\* Controls the mailbox never drops while its receiver lives.
IsLossless(output) ==
  output.kind \in Barriers \cup {"Connected", "Status"}

LogInit ==
  /\ MailboxInit
  /\ sent = <<>>
  /\ received = <<>>
  /\ epoch = 0
  /\ closed = FALSE
  /\ exited = FALSE

SendAny ==
  /\ senders # 0
  /\ Len(sent) < MaxSends
  /\ \E kind \in ControlKinds \cup {"Frame", "Delta"} :
       LET output == Output(kind, Len(sent) + 1) IN
       /\ Send(output)
       /\ sent' = Append(sent, output)
       /\ epoch' = IF receiver_alive /\ kind \in Barriers
                   THEN Len(sent) + 1 ELSE epoch
       /\ closed' = (closed \/ (receiver_alive /\ kind \in Barriers))
  /\ UNCHANGED <<received, exited>>

StartGeneration ==
  /\ senders # 0
  /\ BeginGeneration
  /\ epoch' = Len(sent)
  /\ closed' = TRUE
  /\ UNCHANGED <<sent, received, exited>>

AddSender ==
  /\ senders # 0
  /\ senders < MaxSenders
  /\ CloneSender
  /\ UNCHANGED logs

RemoveSender ==
  /\ senders # 0
  /\ DropSender
  /\ UNCHANGED logs

Receive ==
  /\ receiver_alive
  /\ Recv
  /\ received' = IF control # <<>> THEN Append(received, Received) ELSE received
  /\ UNCHANGED <<sent, epoch, closed, exited>>

ReceiveWaits == receiver_alive /\ RecvWait /\ UNCHANGED logs

\* The writer leaves its loop and drops the receiver: recv() returned None,
\* or writing the event failed.
ReceiveEnds ==
  /\ receiver_alive
  /\ ~receiver_waiting
  /\ RecvClosed \/ ~MailboxEmpty
  /\ exited' = (senders = 0 /\ MailboxEmpty)
  /\ DropReceiver
  /\ UNCHANGED <<sent, received, epoch, closed>>

LogNext ==
  \/ SendAny
  \/ StartGeneration
  \/ AddSender
  \/ RemoveSender
  \/ Receive
  \/ ReceiveWaits
  \/ ReceiveEnds

LogSpec == LogInit /\ [][LogNext]_logVars
-----------------------------------------------------------------------------
\* Types of the shared state and of the histories.
LogTypeOK ==
  /\ \A i \in DOMAIN control : control[i].kind \in ControlKinds
  /\ latest_frame \in Frames(1..MaxSends) \cup {None}
  /\ latest_delta \in Deltas(1..MaxSends) \cup {None}
  /\ accepting \in BOOLEAN /\ receiver_alive \in BOOLEAN
  /\ receiver_waiting \in BOOLEAN /\ exited \in BOOLEAN
  /\ closed \in BOOLEAN
  /\ senders \in 0..MaxSenders
  /\ epoch \in 0..MaxSends

\* The controls the receiver has got and, if nothing else happens, will get.
Delivered == received \o control

\* Connection, status, failure and termination outputs are delivered once each
\* and in the order they were sent, whatever is coalesced or discarded around
\* them: while the receiver lives, and when it leaves because the last sender is
\* gone, what was received and what is pending are outputs that were sent, each
\* later than the one before it, and none of these four kinds is missing.
LosslessControlIsFifo ==
  receiver_alive \/ exited =>
    /\ \A i \in DOMAIN Delivered : Delivered[i].gen \in DOMAIN sent /\ Delivered[i] = sent[Delivered[i].gen]
    /\ \A i, j \in DOMAIN Delivered : i < j => Delivered[i].gen < Delivered[j].gen
    /\ \A n \in DOMAIN sent : IsLossless(sent[n]) => \E i \in DOMAIN Delivered : Delivered[i].gen = n

\* Sent since the session was last closed, and after a Connected reopened it.
Fresh(output) ==
  /\ output.gen > epoch
  /\ closed => \E i \in (epoch + 1)..(output.gen - 1) : sent[i].kind = "Connected"

\* Nothing a session sent survives its end: every pending frame, update,
\* clipboard or cursor output was sent after the last begin_generation,
\* Reconnecting, ConnectionFailure or Terminated, and after a Connected that
\* followed it had reopened the mailbox.
OnlyCurrentSessionPending ==
  /\ latest_frame = None \/ Fresh(latest_frame)
  /\ latest_delta = None \/ Fresh(latest_delta)
  /\ \A i \in DOMAIN control : IsSessionScopedControl(control[i]) => Fresh(control[i])

\* recv() serves the frame before the update, so a pending update must be newer
\* than the pending frame it will be painted on.
UpdateFollowsFrame ==
  latest_frame # None /\ latest_delta # None =>
    latest_delta.gen > latest_frame.gen

\* The receiver never sleeps on the condition variable while an output is
\* pending or after the last sender has gone.
NoLostWakeup ==
  receiver_waiting => receiver_alive /\ MailboxEmpty /\ senders # 0

\* The mailbox keeps its promises under any use: controls that must arrive do so
\* in order, nothing of a session that has ended is pending, an update follows the
\* frame it was taken after, and the receiver is woken.
MailboxIsSound ==
  LogTypeOK /\ LosslessControlIsFifo /\ OnlyCurrentSessionPending /\ UpdateFollowsFrame /\ NoLostWakeup
=============================================================================
