----------------------------- MODULE VncHelper -----------------------------
(***************************************************************************)
(* The VNC helper process: the stdin loop (main.rs run), the session       *)
(* thread (vnc_rfb.rs, vnc_encoding.rs, vnc_input.rs, vnc_reconnect.rs)    *)
(* and the output writer (main.rs spawn_output_writer), which share the    *)
(* unbounded input channel and the output mailbox.  The VNC server, the    *)
(* network and the host that writes stdin and reads stdout are the         *)
(* environment; the host is represented by the picture it builds from the  *)
(* events it reads.                                                        *)
(*                                                                         *)
(* An action is one step between two points where another thread can see   *)
(* or change shared state.  Reconnect reasons and diagnostics, capability  *)
(* flags are left out, the refresh timers appear by their outcome; pointer *)
(* and keyboard inputs appear only as inputs whose transport can fail.  No *)
(* request of the host maps to a Reconnect input, so there is none; a text *)
(* that cannot be encoded is skipped like an input that sends nothing.     *)
(***************************************************************************)
EXTENDS VncMailbox, FiniteSets

CONSTANTS Texts,             \* clipboard texts
          MaxEventsPerPoll,  \* MAX_SERVER_EVENTS_PER_POLL (256)
          MaxInputsPerPoll,  \* MAX_INPUTS_PER_POLL (256)
          MaxSessions,       \* bound: connection attempts
          MaxControl,        \* bound: pending controls when the server talks
          MaxInputs          \* bound: queued host requests

ASSUME HelperAssumption ==
  /\ Texts # {}
  /\ MaxEventsPerPoll \in Nat \ {0} /\ MaxInputsPerPoll \in Nat \ {0}
  /\ MaxSessions \in Nat \ {0} /\ MaxControl \in Nat /\ MaxInputs \in Nat

VARIABLES
  main_pc,           \* stdin loop: "reading" | "joining" | "exited"
  request_error,     \* the loop ended with an error
  inputs,            \* the input channel
  input_open,        \* main still holds input_tx
  writer,            \* output writer: "running" | "done" | "failed"
  pc,                \* where the session thread is
  attempts,          \* connection attempts so far; numbers the sessions
  reconnect_attempt, \* capped at 3, where reconnect_delay stops growing
  latest_clipboard,  \* the clipboard text replayed to a new session, or None
  was_connected,
  framebuffer,       \* VncFramebufferState.framebuffer, or None
  keyframe,
  dirty,             \* the cells covered by dirty_rects
  processed,         \* events handled in this poll
  server_text,       \* ghost: the last text sent on this connection, or None
  host_phase,        \* the host's view of the stream (see DesktopStream)
  host_session,
  host_picture

mainVars    == <<main_pc, request_error, inputs, input_open, writer>>
sessionVars == <<was_connected, framebuffer, keyframe, dirty, processed,
                 server_text>>
backendVars == <<attempts, reconnect_attempt, latest_clipboard>>
hostVars    == <<host_phase, host_session, host_picture>>
vars == <<mailbox, mainVars, pc, sessionVars, backendVars, hostVars>>
-----------------------------------------------------------------------------
(* Data *)

Picture(size, px) == [kind |-> "Frame", gen |-> attempts, size |-> size, px |-> px]
Update(size, px)  == [kind |-> "Delta", gen |-> attempts, size |-> size, px |-> px]
Control(kind)     == [kind |-> kind, gen |-> attempts]

\* The picture of an update painted where there is nothing to paint on.
Broken == [kind |-> "broken"]

Inputs == {[kind |-> "Text", text |-> t] : t \in Texts} \cup
          {[kind |-> "Pointer"], [kind |-> "Close"]}

Blank == CHOOSE p \in Pixels : TRUE

ReconnectDelay(attempt) ==
  CASE attempt = 0 -> 1
    [] attempt = 1 -> 2
    [] attempt = 2 -> 5
    [] OTHER -> 10

\* The clipboard text after the inputs in positions S of batch, if it was
\* "before" when they were read.
LastText(batch, S, before) ==
  LET texts == {i \in S : batch[i].kind = "Text"} IN
  IF texts = {} THEN before
  ELSE batch[CHOOSE i \in texts : \A j \in texts : j <= i].text
-----------------------------------------------------------------------------
HelperInit ==
  /\ MailboxInit
  /\ main_pc = "reading" /\ request_error = FALSE
  /\ inputs = <<>> /\ input_open = TRUE /\ writer = "running"
  /\ pc = "start"
  /\ attempts = 0 /\ reconnect_attempt = 0 /\ latest_clipboard = None
  /\ was_connected = FALSE /\ framebuffer = None /\ keyframe = FALSE
  /\ dirty = {} /\ processed = 0 /\ server_text = None
  /\ host_phase = "idle" /\ host_session = 0 /\ host_picture = None
-----------------------------------------------------------------------------
(* The stdin loop *)

\* A request line: forwarded to the session thread, or an error when the
\* session thread has gone.  Close ends the loop.
ReadRequest(input) ==
  /\ main_pc = "reading"
  /\ Len(inputs) < MaxInputs
  /\ inputs' = IF pc = "dead" THEN inputs ELSE Append(inputs, input)
  /\ request_error' = (pc = "dead")
  /\ IF pc = "dead" \/ input.kind = "Close"
     THEN main_pc' = "joining" /\ input_open' = FALSE
     ELSE UNCHANGED <<main_pc, input_open>>
  /\ UNCHANGED <<mailbox, writer, pc, sessionVars, backendVars, hostVars>>

\* End of stdin, a read error, or a line that does not decode.
StdinEnds ==
  /\ main_pc = "reading"
  /\ main_pc' = "joining"
  /\ input_open' = FALSE
  /\ request_error' \in BOOLEAN
  /\ UNCHANGED <<mailbox, inputs, writer, pc, sessionVars, backendVars, hostVars>>

\* Both workers are joined; a failed run reports itself on stdout.
Exit ==
  /\ main_pc = "joining"
  /\ pc = "dead"
  /\ writer # "running"
  /\ main_pc' = "exited"
  /\ IF request_error \/ writer = "failed"
     THEN host_phase' = "ended" /\ host_picture' = None
     ELSE UNCHANGED <<host_phase, host_picture>>
  /\ UNCHANGED <<mailbox, inputs, input_open, writer, request_error, pc,
                 sessionVars, backendVars, host_session>>
-----------------------------------------------------------------------------
(* The session thread: connecting *)

StartSession ==
  /\ pc = "start"
  /\ Send(Control("Status"))
  /\ attempts' = attempts + 1
  /\ pc' = "connecting"
  /\ UNCHANGED <<mainVars, sessionVars, reconnect_attempt, latest_clipboard,
                 hostVars>>

ConnectFailsTerminally ==
  /\ pc = "connecting"
  /\ Send(Control("ConnectionFailure"))
  /\ pc' = "exit"
  /\ UNCHANGED <<mainVars, sessionVars, backendVars, hostVars>>

ConnectFails ==
  /\ pc = "connecting"
  /\ was_connected' = FALSE
  /\ pc' = "reconnect"
  /\ UNCHANGED <<mailbox, mainVars, framebuffer, keyframe, dirty, processed,
                 server_text, backendVars, hostVars>>

\* Mutant: the clipboard is not replayed to the new session.
ConnectWithoutReplay ==
  /\ pc = "connecting"
  /\ BeginGeneration
  /\ was_connected' = FALSE
  /\ framebuffer' = None
  /\ keyframe' = FALSE
  /\ dirty' = {}
  /\ processed' = 0
  /\ server_text' = None
  /\ pc' = "poll"
  /\ UNCHANGED <<mainVars, backendVars, hostVars>>

\* The connection is up: a new output generation, a fresh session, the first
\* refresh request and the clipboard replay, either of which can fail.
Connect ==
  /\ pc = "connecting"
  /\ BeginGeneration
  /\ was_connected' = FALSE
  /\ framebuffer' = None
  /\ keyframe' = FALSE
  /\ dirty' = {}
  /\ processed' = 0
  /\ \/ server_text' = None /\ pc' = "reconnect"
     \/ server_text' = latest_clipboard /\ pc' = "poll"
  /\ UNCHANGED <<mainVars, backendVars, hostVars>>
-----------------------------------------------------------------------------
(* The session thread: poll_events and flush_frame *)

\* Mutant: events are not counted against the budget of a poll.
TakeEventUncounted ==
  /\ pc = "poll"
  /\ UNCHANGED <<processed, mainVars, backendVars, server_text, hostVars>>

\* What every event does before it is handled.
TakeEvent ==
  /\ pc = "poll"
  /\ processed < MaxEventsPerPoll
  /\ processed' = processed + 1
  /\ UNCHANGED <<mainVars, backendVars, server_text, hostVars>>

SetResolution(size) ==
  /\ TakeEvent
  /\ Len(control) < MaxControl
  /\ framebuffer' = Picture(size, [c \in Cells |-> Blank])
  /\ keyframe' = TRUE
  /\ dirty' = {}
  /\ was_connected' = TRUE
  /\ Send(Control("Connected"))
  /\ UNCHANGED pc

\* RawImage, and Copy, whose pixels come from the framebuffer itself.
PatchRect(cell, pixel) ==
  /\ TakeEvent
  /\ IF framebuffer = None THEN UNCHANGED <<framebuffer, dirty>>
     ELSE /\ framebuffer' = [framebuffer EXCEPT !.px[cell] = pixel]
          /\ dirty' = dirty \cup {cell}
  /\ UNCHANGED <<mailbox, pc, keyframe, was_connected>>

CopyRect(dst, src) ==
  /\ framebuffer # None
  /\ PatchRect(dst, framebuffer.px[src])

CutText ==
  /\ TakeEvent
  /\ Len(control) < MaxControl
  /\ Send(Control("ClipboardText"))
  /\ UNCHANGED <<pc, framebuffer, keyframe, dirty, was_connected>>

JpegImage ==
  /\ TakeEvent
  /\ Len(control) < MaxControl
  /\ Send(Control("Status"))
  /\ UNCHANGED <<pc, framebuffer, keyframe, dirty, was_connected>>

\* SetCursor, Bell, SetPixelFormat.
IgnoredEvent ==
  /\ TakeEvent
  /\ UNCHANGED <<mailbox, pc, framebuffer, keyframe, dirty, was_connected>>

\* An Error event, a rectangle outside the framebuffer, or a broken transport:
\* the poll is abandoned before the flush.
PollFails ==
  /\ pc = "poll"
  /\ pc' = "reconnect"
  /\ UNCHANGED <<mailbox, mainVars, sessionVars, backendVars, hostVars>>

FlushFrame ==
  /\ \/ /\ framebuffer = None \/ dirty = {}
        /\ UNCHANGED <<mailbox, keyframe, dirty>>
     \/ /\ framebuffer # None /\ dirty # {}
        /\ dirty' = {}
        /\ keyframe' = FALSE
        /\ IF keyframe THEN Send(framebuffer)
           ELSE Send(Update(framebuffer.size, [c \in dirty |-> framebuffer.px[c]]))

\* No further event, or the budget is used up.
PollEnds ==
  /\ pc = "poll"
  /\ FlushFrame
  /\ processed' = 0
  /\ pc' = "input"
  /\ UNCHANGED <<mainVars, backendVars, was_connected, framebuffer,
                 server_text, hostVars>>

PollEvents ==
  \/ \E size \in Sizes : SetResolution(size)
  \/ \E cell \in Cells, pixel \in Pixels : PatchRect(cell, pixel)
  \/ \E dst, src \in Cells : CopyRect(dst, src)
  \/ CutText
  \/ JpegImage
  \/ IgnoredEvent
  \/ PollFails
  \/ PollEnds
-----------------------------------------------------------------------------
(* The session thread: inputs, refresh, reconnect *)

\* One pass of try_recv: at most MaxInputsPerPoll inputs, and the last try
\* finds the channel disconnected if main has dropped its end.
Drained == SubSeq(inputs, 1, IF Len(inputs) < MaxInputsPerPoll
                             THEN Len(inputs) ELSE MaxInputsPerPoll)
Disconnected == ~input_open /\ Len(inputs) < MaxInputsPerPoll

CloseAt(batch) == {i \in DOMAIN batch : batch[i].kind = "Close"}

DrainInputs ==
  inputs' = SubSeq(inputs, Len(Drained) + 1, Len(inputs))

\* The session object is dropped when run_connected_vnc_session returns.
DropSession ==
  /\ framebuffer' = None /\ keyframe' = FALSE /\ dirty' = {}
  /\ processed' = 0 /\ server_text' = None

\* InputClosed, with the whole batch dropped, or Close reached in the batch: what
\* the inputs before it did is not seen again, the thread is about to return.
InputsClose ==
  /\ pc = "input"
  /\ Disconnected \/ CloseAt(Drained) # {}
  /\ DrainInputs
  /\ DropSession
  /\ pc' = "exit"
  /\ UNCHANGED <<mailbox, main_pc, request_error, input_open, writer,
                 was_connected, backendVars, hostVars>>

InputsHandled ==
  /\ pc = "input"
  /\ ~Disconnected
  /\ CloseAt(Drained) = {}
  /\ DrainInputs
  /\ latest_clipboard' = LastText(Drained, DOMAIN Drained, latest_clipboard)
  /\ server_text' = LastText(Drained, DOMAIN Drained, server_text)
  /\ pc' = "refresh"
  /\ UNCHANGED <<mailbox, main_pc, request_error, input_open, writer,
                 was_connected, framebuffer, keyframe, dirty, processed,
                 attempts, reconnect_attempt, hostVars>>

\* The transport fails on the i-th input: its text is already the latest, the
\* rest of the batch is lost.
InputFails ==
  /\ pc = "input"
  /\ ~Disconnected
  /\ \E i \in DOMAIN Drained :
       /\ CloseAt(Drained) \cap 1..i = {}
       /\ latest_clipboard' = LastText(Drained, 1..i, latest_clipboard)
  /\ DrainInputs
  /\ DropSession
  /\ pc' = "reconnect"
  /\ UNCHANGED <<mailbox, main_pc, request_error, input_open, writer,
                 was_connected, attempts, reconnect_attempt, hostVars>>

\* Wait, an incremental refresh or a probe that is sent ...
RefreshDone ==
  /\ pc = "refresh"
  /\ pc' = "poll"
  /\ UNCHANGED <<mailbox, mainVars, sessionVars, backendVars, hostVars>>

\* ... or a send error, or a liveness probe that was not answered in time.
RefreshFails ==
  /\ pc = "refresh"
  /\ pc' = "reconnect"
  /\ UNCHANGED <<mailbox, mainVars, sessionVars, backendVars, hostVars>>

\* run_vnc_backend: announce the reconnect and its delay.
Reconnect ==
  LET attempt == IF was_connected THEN 0 ELSE reconnect_attempt IN
  /\ pc = "reconnect"
  /\ DropSession
  /\ reconnect_attempt' = IF attempt = 3 THEN 3 ELSE attempt + 1
  /\ Send([kind |-> "Reconnecting", gen |-> attempts,
           delay |-> ReconnectDelay(attempt)])
  /\ pc' = "waiting"
  /\ UNCHANGED <<mainVars, was_connected, attempts, latest_clipboard, hostVars>>

WaitStops ==
  /\ pc = "waiting"
  /\ Disconnected \/ CloseAt(Drained) # {}
  /\ DrainInputs
  /\ pc' = "exit"
  /\ UNCHANGED <<mailbox, main_pc, request_error, input_open, writer,
                 sessionVars, backendVars, hostVars>>

\* The pending inputs are handled; the deadline may have passed by then.
WaitContinues ==
  /\ pc = "waiting"
  /\ ~Disconnected
  /\ CloseAt(Drained) = {}
  /\ DrainInputs
  /\ latest_clipboard' = LastText(Drained, DOMAIN Drained, latest_clipboard)
  /\ pc' \in {"waiting"} \cup IF attempts < MaxSessions THEN {"start"} ELSE {}
  /\ UNCHANGED <<mailbox, main_pc, request_error, input_open, writer,
                 sessionVars, attempts, reconnect_attempt, hostVars>>

\* The thread returns: its ends of the mailbox and of the channel are dropped.
SessionThreadExits ==
  /\ pc = "exit"
  /\ DropSender
  /\ inputs' = <<>>
  /\ pc' = "dead"
  /\ UNCHANGED <<main_pc, request_error, input_open, writer, sessionVars,
                 backendVars, hostVars>>
-----------------------------------------------------------------------------
(* The output writer, and the host that reads what it writes *)

HostPaints(update) ==
  IF /\ host_picture.kind = "Frame"
     /\ host_picture.gen = update.gen /\ host_picture.size = update.size
  THEN [host_picture EXCEPT !.px = Paint(host_picture.px, update.px)]
  ELSE Broken

HostReads(event) ==
  /\ host_phase' = CASE event.kind = "Connected" -> "live"
                     [] event.kind = "Reconnecting" -> "idle"
                     [] event.kind = "ConnectionFailure" -> "ended"
                     [] OTHER -> host_phase
  /\ host_session' = IF event.kind = "Connected" THEN event.gen ELSE host_session
  /\ host_picture' = CASE event.kind \in Barriers -> None
                       [] event.kind = "Frame" -> event
                       [] event.kind = "Delta" -> HostPaints(event)
                       [] OTHER -> host_picture

WriteEvent ==
  /\ writer = "running"
  /\ Recv
  /\ HostReads(Received)
  /\ UNCHANGED <<mainVars, pc, sessionVars, backendVars>>

WriterWaits ==
  /\ writer = "running"
  /\ RecvWait
  /\ UNCHANGED <<mainVars, pc, sessionVars, backendVars, hostVars>>

\* The mailbox is closed and drained, or stdout is broken.
WriterEnds ==
  /\ writer = "running"
  /\ \/ RecvClosed /\ writer' = "done"
     \/ ~receiver_waiting /\ ~MailboxEmpty /\ writer' = "failed"
  /\ DropReceiver
  /\ UNCHANGED <<main_pc, request_error, inputs, input_open, pc, sessionVars,
                 backendVars, hostVars>>
-----------------------------------------------------------------------------
ConnectReturns == ConnectFailsTerminally \/ ConnectFails \/ Connect

SessionStep ==
  \/ StartSession
  \/ PollEvents
  \/ InputsClose \/ InputsHandled \/ InputFails
  \/ RefreshDone \/ RefreshFails
  \/ Reconnect
  \/ WaitStops \/ WaitContinues
  \/ SessionThreadExits

WriterStep == WriteEvent \/ WriterWaits \/ WriterEnds

HostStep == StdinEnds \/ \E input \in Inputs : ReadRequest(input)

Exited == main_pc = "exited" /\ UNCHANGED vars

Next ==
  \/ HostStep
  \/ Exit
  \/ ConnectReturns
  \/ SessionStep
  \/ WriterStep
  \/ Exited

\* The session thread and the stdin thread go on.  The first waits in
\* client.input() for room in a bounded queue: that it goes on assumes a
\* network that takes what the net loop writes, or fails.  Nothing is assumed of
\* the writer, whose writes wait for the host to read stdout, and nothing of the
\* connection attempt, which has no timeout.
Fairness == WF_vars(SessionStep) /\ WF_vars(Exit)

\* The host reads stdout, or closes it.
StdoutIsRead == WF_vars(WriterStep)

Spec == HelperInit /\ [][Next]_vars
FairSpec == Spec /\ Fairness
-----------------------------------------------------------------------------
(* Properties *)

Sessions == 0..MaxSessions

\* Types of the state.
TypeOK ==
  /\ latest_frame \in Frames(Sessions) \cup {None}
  /\ latest_delta \in Deltas(Sessions) \cup {None}
  /\ accepting \in BOOLEAN /\ receiver_alive \in BOOLEAN
  /\ receiver_waiting \in BOOLEAN /\ senders \in {0, 1}
  /\ main_pc \in {"reading", "joining", "exited"}
  /\ request_error \in BOOLEAN /\ input_open \in BOOLEAN
  /\ inputs \in Seq(Inputs)
  /\ writer \in {"running", "done", "failed"}
  /\ pc \in {"start", "connecting", "poll", "input", "refresh", "reconnect",
             "waiting", "exit", "dead"}
  /\ attempts \in Sessions /\ reconnect_attempt \in 0..3
  /\ latest_clipboard \in Texts \cup {None}
  /\ server_text \in Texts \cup {None}
  /\ was_connected \in BOOLEAN /\ keyframe \in BOOLEAN
  /\ framebuffer \in Frames(Sessions) \cup {None}
  /\ dirty \subseteq Cells
  /\ processed \in 0..MaxEventsPerPoll
  /\ host_phase \in {"idle", "live", "ended"}
  /\ host_session \in Sessions
  /\ host_picture \in Frames(Sessions) \cup {None, Broken}

\* The picture the host will hold once it has read what is pending.
PendingPicture ==
  LET base == IF latest_frame # None THEN latest_frame ELSE host_picture IN
  IF base = None \/ latest_delta = None THEN base
  ELSE [base EXCEPT !.px = Paint(base.px, latest_delta.px)]

\* Coalescing loses no update: once the session has sent its first frame, what
\* the host holds, overpainted with the pending frame and the pending merged
\* update, is the framebuffer, except where rectangles still wait for the flush.
PictureInSync ==
  framebuffer # None /\ ~keyframe /\ writer = "running" =>
    /\ PendingPicture # None
    /\ PendingPicture.size = framebuffer.size
    /\ PendingPicture.gen = framebuffer.gen
    /\ \A c \in Cells \ dirty : PendingPicture.px[c] = framebuffer.px[c]

\* A session that is being served has been given the latest clipboard text,
\* also when the text was copied while there was no session.
SessionHasLatestClipboard ==
  pc \in {"poll", "input", "refresh"} => server_text = latest_clipboard

\* The writer never sleeps while something is pending or when nobody can send.
WriterNeverMissesWakeup ==
  receiver_waiting => writer = "running" /\ MailboxEmpty /\ senders = 1

\* What the host observes is a DesktopStream.
Stream == INSTANCE DesktopStream WITH
  Pictures  <- LAMBDA n : Frames({n}),
  NoPicture <- None,
  phase     <- host_phase,
  session   <- host_session,
  picture   <- host_picture
StreamSpec == Stream!Spec

\* Closing the helper ends the session thread, whatever the server sends,
\* whatever is queued and although nobody reads its outputs: the mailbox never
\* makes a sender wait.  If the host reads stdout, it ends the process.  Both
\* provided that every connection attempt returns.
CloseTerminates ==
  []<>(pc # "connecting") =>
    /\ main_pc = "joining" ~> pc = "dead"
    /\ StdoutIsRead => (main_pc = "joining" ~> main_pc = "exited")

PendingClipboards(queue) ==
  Cardinality({i \in DOMAIN queue : queue[i].kind = "ClipboardText"})

\* The design document of the mailbox says "Connection, status, clipboard,
\* cursor, failure, and termination outputs remain ordered and reliable":
\* a clipboard text of the server leaves the mailbox only through the writer.
ClipboardOutputsReliable ==
  [][PendingClipboards(control') < PendingClipboards(control)
       => WriteEvent \/ WriterEnds]_vars
=============================================================================
