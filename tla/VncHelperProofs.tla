-------------------------- MODULE VncHelperProofs --------------------------
(* Machine-checked facts about the VNC helper, for every set of cells,       *)
(* pixels, sizes and texts and every bound.                                  *)
EXTENDS VncHelper, VncMailboxProofs

\* What ties the mailbox to the threads that hold its ends, and keeps the
\* writer from sleeping on a mailbox that has something to say.
WakeupInv ==
  /\ senders \in {0, 1}
  /\ (senders = 1) <=> (pc # "dead")
  /\ receiver_alive <=> (writer = "running")
  /\ receiver_alive \in BOOLEAN /\ receiver_waiting \in BOOLEAN
  /\ WriterNeverMissesWakeup

LEMMA WakeupInit == HelperInit => WakeupInv
BY DEF HelperInit, MailboxInit, WakeupInv, WriterNeverMissesWakeup, MailboxEmpty

\* Every send ends the receiver's sleep, or finds the receiver gone.
LEMMA SendKeepsWakeup ==
  ASSUME NEW STATE o, WakeupInv, Send(o), pc # "dead", pc' # "dead",
         UNCHANGED writer
  PROVE  WakeupInv'
<1>1. CASE SendToClosed
  BY <1>1 DEF WakeupInv, SendToClosed, mailbox, WriterNeverMissesWakeup, MailboxEmpty
<1>2. CASE ~SendToClosed
  <2>1. receiver_waiting' = FALSE /\ UNCHANGED <<senders, receiver_alive>>
    BY <1>2 DEF Send, Notify
  <2>2. QED
    BY <2>1 DEF WakeupInv, WriterNeverMissesWakeup
<1>3. QED
  BY <1>1, <1>2

\* A step that touches neither the mailbox nor the life of its two ends.
LEMMA QuietKeepsWakeup ==
  ASSUME WakeupInv, UNCHANGED mailbox, UNCHANGED writer,
         (pc = "dead") <=> (pc' = "dead")
  PROVE  WakeupInv'
BY DEF WakeupInv, mailbox, WriterNeverMissesWakeup, MailboxEmpty

LEMMA WakeupStep == WakeupInv /\ [Next]_vars => WakeupInv'
<1> SUFFICES ASSUME WakeupInv, [Next]_vars PROVE WakeupInv'
  OBVIOUS
<1>1. CASE HostStep \/ Exit \/ ConnectFails
  BY <1>1, QuietKeepsWakeup
  DEF HostStep, StdinEnds, ReadRequest, Exit, ConnectFails, mainVars
<1>2. CASE StartSession
  <2>1. Send(Control("Status")) /\ pc # "dead" /\ pc' # "dead" /\ UNCHANGED writer
    BY <1>2 DEF StartSession, mainVars
  <2>2. QED
    BY <2>1, SendKeepsWakeup
<1>3. CASE ConnectFailsTerminally
  <2>1. /\ Send(Control("ConnectionFailure"))
        /\ pc # "dead" /\ pc' # "dead" /\ UNCHANGED writer
    BY <1>3 DEF ConnectFailsTerminally, mainVars
  <2>2. QED
    BY <2>1, SendKeepsWakeup
<1>4. CASE Connect
  <2>1. /\ receiver_waiting' = FALSE /\ UNCHANGED <<senders, receiver_alive, writer>>
        /\ pc # "dead" /\ pc' # "dead"
    BY <1>4 DEF Connect, BeginGeneration, Notify, mainVars
  <2>2. QED
    BY <2>1 DEF WakeupInv, WriterNeverMissesWakeup
<1>5. CASE PollEvents
  <2>1. pc # "dead" /\ pc' # "dead" /\ UNCHANGED writer
    BY <1>5 DEF PollEvents, SetResolution, PatchRect, CopyRect, CutText, JpegImage,
                IgnoredEvent, PollFails, PollEnds, TakeEvent, mainVars
  <2>2. UNCHANGED mailbox \/ \E o : Send(o)
    <3>1. CASE \E size \in Sizes : SetResolution(size)
      BY <3>1 DEF SetResolution
    <3>2. CASE \E cell \in Cells, pixel \in Pixels : PatchRect(cell, pixel)
      BY <3>2 DEF PatchRect
    <3>3. CASE \E dst, src \in Cells : CopyRect(dst, src)
      BY <3>3 DEF CopyRect, PatchRect
    <3>4. CASE CutText \/ JpegImage
      BY <3>4 DEF CutText, JpegImage
    <3>5. CASE IgnoredEvent \/ PollFails
      BY <3>5 DEF IgnoredEvent, PollFails
    <3>6. CASE PollEnds
      BY <3>6 DEF PollEnds, FlushFrame, mailbox
    <3>7. QED
      BY <1>5, <3>1, <3>2, <3>3, <3>4, <3>5, <3>6 DEF PollEvents
  <2>3. CASE UNCHANGED mailbox
    BY <2>1, <2>3, QuietKeepsWakeup
  <2>4. CASE \E o : Send(o)
    BY <2>1, <2>4, SendKeepsWakeup
  <2>5. QED
    BY <2>2, <2>3, <2>4
<1>6. CASE \/ InputsClose \/ InputsHandled \/ InputFails \/ RefreshDone
           \/ RefreshFails \/ WaitStops \/ WaitContinues
  <2>1. UNCHANGED mailbox /\ UNCHANGED writer /\ pc # "dead" /\ pc' # "dead"
    BY <1>6 DEF InputsClose, InputsHandled, InputFails, RefreshDone, RefreshFails,
                WaitStops, WaitContinues, mainVars
  <2>2. QED
    BY <2>1, QuietKeepsWakeup
<1>7. CASE Reconnect
  <2>1. /\ \E o : Send(o)
        /\ pc # "dead" /\ pc' # "dead" /\ UNCHANGED writer
    BY <1>7 DEF Reconnect, mainVars
  <2>2. QED
    BY <2>1, SendKeepsWakeup
<1>8. CASE SessionThreadExits
  <2>1. /\ senders' = 0 /\ senders' # 1 /\ senders' \in {0, 1}
        /\ pc' = "dead" /\ UNCHANGED <<receiver_alive, writer>>
    BY <1>8 DEF SessionThreadExits, DropSender, WakeupInv
  <2>2. receiver_waiting' = FALSE
    BY <1>8, <2>1, Zenon DEF SessionThreadExits, DropSender
  <2>3. QED
    BY <2>1, <2>2 DEF WakeupInv, WriterNeverMissesWakeup
<1>9. CASE WriteEvent
  <2>1. /\ ~receiver_waiting /\ UNCHANGED <<receiver_waiting, senders, receiver_alive>>
        /\ UNCHANGED <<writer, pc>>
    BY <1>9 DEF WriteEvent, Recv, mainVars
  <2>2. QED
    BY <2>1 DEF WakeupInv, WriterNeverMissesWakeup
<1>10. CASE WriterWaits
  <2>1. /\ writer = "running" /\ MailboxEmpty /\ MailboxEmpty' /\ senders # 0
        /\ receiver_waiting' = TRUE
        /\ UNCHANGED <<senders, receiver_alive, writer, pc>>
    BY <1>10 DEF WriterWaits, RecvWait, MailboxEmpty, mainVars
  <2>2. WriterNeverMissesWakeup'
    BY <2>1 DEF WakeupInv, WriterNeverMissesWakeup
  <2>3. QED
    BY <2>1, <2>2 DEF WakeupInv
<1>11. CASE WriterEnds
  <2>1. /\ receiver_waiting' = FALSE /\ receiver_alive' = FALSE
        /\ writer' # "running" /\ UNCHANGED <<senders, pc>>
    BY <1>11 DEF WriterEnds, DropReceiver, ClearMailbox, Notify
  <2>2. QED
    BY <2>1 DEF WakeupInv, WriterNeverMissesWakeup
<1>12. CASE Exited \/ UNCHANGED vars
  BY <1>12, QuietKeepsWakeup DEF Exited, vars, mainVars
<1>13. QED
  BY <1>1, <1>2, <1>3, <1>4, <1>5, <1>6, <1>7, <1>8, <1>9, <1>10, <1>11, <1>12
  DEF Next, ConnectReturns, SessionStep, WriterStep

\* The output writer never sleeps on the condition variable while an output is
\* pending, nor after the session thread has dropped its sender: no
\* notification of send() or of the last drop can be lost.
THEOREM VncNoLostWakeup == Spec => []WriterNeverMissesWakeup
<1>1. WakeupInv => WriterNeverMissesWakeup
  BY DEF WakeupInv
<1>2. QED
  BY WakeupInit, WakeupStep, <1>1, PTL DEF Spec
-----------------------------------------------------------------------------
\* The session that is being served has the latest clipboard text: preserved
\* by every step of the session thread, and no other thread touches it.
THEOREM VncClipboardReplayed == Spec => []SessionHasLatestClipboard
<1> DEFINE Inv == SessionHasLatestClipboard
<1>1. HelperInit => Inv
  BY DEF HelperInit, SessionHasLatestClipboard
<1>2. Inv /\ [Next]_vars => Inv'
  <2> SUFFICES ASSUME Inv, [Next]_vars PROVE Inv'
    OBVIOUS
  <2>1. CASE HostStep \/ Exit \/ WriterStep \/ Exited \/ UNCHANGED vars
    BY <2>1 DEF HostStep, StdinEnds, ReadRequest, Exit, WriterStep, WriteEvent,
                WriterWaits, WriterEnds, Exited, vars, sessionVars, backendVars,
                SessionHasLatestClipboard
  <2>2. CASE ConnectReturns
    BY <2>2 DEF ConnectReturns, ConnectFailsTerminally, ConnectFails, Connect,
                sessionVars, backendVars, SessionHasLatestClipboard
  <2>3. CASE PollEvents
    BY <2>3 DEF PollEvents, SetResolution, PatchRect, CopyRect, CutText, JpegImage,
                IgnoredEvent, PollFails, PollEnds, TakeEvent, sessionVars,
                backendVars, SessionHasLatestClipboard
  <2>4. CASE InputsHandled
    BY <2>4 DEF InputsHandled, SessionHasLatestClipboard
  <2>5. CASE \/ StartSession \/ InputsClose \/ InputFails \/ RefreshDone \/ RefreshFails
             \/ Reconnect \/ WaitStops \/ WaitContinues \/ SessionThreadExits
    BY <2>5 DEF StartSession, InputsClose, InputFails, RefreshDone, RefreshFails,
                Reconnect, WaitStops, WaitContinues, SessionThreadExits,
                sessionVars, backendVars, SessionHasLatestClipboard
  <2>6. QED
    BY <2>1, <2>2, <2>3, <2>4, <2>5 DEF Next, SessionStep
<1>3. QED
  BY <1>1, <1>2, PTL DEF Spec
-----------------------------------------------------------------------------
(* The picture and the stream, while the output writer runs *)

HelperControls ==
  [kind : {"Status", "Connected", "ClipboardText", "ConnectionFailure"}, gen : Nat]
  \cup [kind : {"Reconnecting"}, gen : Nat, delay : {1, 2, 5, 10}]

\* The outputs that are pending, and the host that will read them.  Sessions are
\* numbered upwards; two Connected of different sessions have a Reconnecting
\* between them, and so have the host's session and a later one.
InStep(queue, phase, session, top) ==
  /\ \A i \in DOMAIN queue : session <= queue[i].gen /\ queue[i].gen <= top
  /\ \A i, j \in DOMAIN queue : i < j => queue[i].gen <= queue[j].gen
  /\ \A i, j \in DOMAIN queue :
       i < j /\ queue[i].kind \in Barriers /\ queue[j].kind = "Connected" => queue[i].gen < queue[j].gen
  /\ \A i, j \in DOMAIN queue :
       /\ i < j /\ queue[i].kind = "Connected" /\ queue[j].kind = "Connected"
       /\ queue[i].gen < queue[j].gen
       => \E k \in DOMAIN queue : i < k /\ k < j /\ queue[k].kind = "Reconnecting"
  /\ \A i \in DOMAIN queue :
       queue[i].kind = "Connected" =>
         \/ queue[i].gen = session /\ phase = "live"
         \/ queue[i].gen > session /\ phase = "idle"
         \/ queue[i].gen > session /\ \E k \in DOMAIN queue : k < i /\ queue[k].kind = "Reconnecting"

\* Session n is the one whose outputs come next: all that was pending for earlier
\* sessions is ended by a Reconnecting.
Ready(queue, phase, session, n) ==
  /\ \A i \in DOMAIN queue : queue[i].kind = "Connected" /\ queue[i].gen < n =>
       \E k \in DOMAIN queue : i < k /\ queue[k].kind = "Reconnecting"
  /\ session < n =>
       phase = "idle" \/ \E k \in DOMAIN queue : queue[k].kind = "Reconnecting"

\* Nothing that is pending ends session n, nor has the host seen its end.
NotEnded(queue, phase, session, n) ==
  /\ \A i \in DOMAIN queue : queue[i].kind \in Barriers => queue[i].gen < n
  /\ session = n => phase = "live"

\* The host has been told, or will be, that session n is up.
Announced(queue, session, n) ==
  session = n \/ \E i \in DOMAIN queue : queue[i].kind = "Connected" /\ queue[i].gen = n

Over == pc \in {"exit", "dead"}
NextSession == IF pc \in {"waiting", "start"} THEN attempts + 1 ELSE attempts
PicturePending == latest_frame # None \/ latest_delta # None

StreamTypes ==
  /\ control \in Seq(HelperControls)
  /\ latest_frame \in Frames({attempts}) \cup {None}
  /\ latest_delta \in Deltas({attempts}) \cup {None}
  /\ framebuffer \in Frames({attempts}) \cup {None}
  /\ dirty \subseteq Cells
  /\ attempts \in Nat /\ host_session \in Nat
  /\ host_phase \in {"idle", "live", "ended"}
  /\ host_picture \in Frames({host_session}) \cup {None}
  /\ pc \in {"start", "connecting", "poll", "input", "refresh", "reconnect", "waiting", "exit", "dead"}

StreamOrder ==
  /\ InStep(control, host_phase, host_session, attempts)
  /\ host_session <= attempts
  /\ \A i \in DOMAIN control : control[i].kind = "ConnectionFailure" =>
       i = Len(control) /\ Over /\ ~PicturePending
  /\ ~Over => /\ Ready(control, host_phase, host_session, NextSession)
              /\ NotEnded(control, host_phase, host_session, NextSession)
  /\ PicturePending => /\ NotEnded(control, host_phase, host_session, attempts)
                       /\ Announced(control, host_session, attempts)
                       /\ pc \notin {"start", "connecting", "waiting"}
  /\ framebuffer # None => /\ pc \in {"poll", "input", "refresh", "reconnect"} /\ accepting
                           /\ Announced(control, host_session, attempts)
  /\ host_phase # "live" => host_picture = None
  /\ host_phase = "ended" => MailboxEmpty /\ Over

\* The picture a pending update will be painted on.
PendingBase == IF latest_frame # None THEN latest_frame ELSE host_picture

PictureOrder ==
  /\ latest_delta # None => /\ PendingBase \in Frames({attempts})
                            /\ PendingBase.size = latest_delta.size
  /\ framebuffer # None /\ ~keyframe =>
       /\ PendingBase \in Frames({attempts})
       /\ PendingBase.size = framebuffer.size
       /\ \A c \in Cells \ dirty : PendingPicture.px[c] = framebuffer.px[c]

StreamInv == WakeupInv /\ (writer = "running" => StreamTypes /\ StreamOrder /\ PictureOrder)
-----------------------------------------------------------------------------
(* What a longer, a thinned and a shorter queue keep *)

LEMMA ControlsInQueue ==
  ASSUME NEW queue \in Seq(HelperControls)
  PROVE  /\ Len(queue) \in Nat /\ DOMAIN queue = 1..Len(queue)
         /\ \A i \in DOMAIN queue : queue[i].gen \in Nat
<1>1. \A i \in DOMAIN queue : queue[i] \in HelperControls
  OBVIOUS
<1>2. \A c \in HelperControls : c.gen \in Nat
  BY DEF HelperControls
<1> QED BY <1>1, <1>2

\* The queue with one more output at its end.
Longer(longer, queue, output) ==
  /\ Len(queue) \in Nat /\ DOMAIN queue = 1..Len(queue)
  /\ DOMAIN longer = 1..(Len(queue) + 1)
  /\ \A i \in DOMAIN queue : i \in DOMAIN longer /\ longer[i] = queue[i] /\ i < Len(queue) + 1
  /\ longer[Len(queue) + 1] = output
  /\ \A i \in DOMAIN longer : i \in DOMAIN queue \/ i = Len(queue) + 1

LEMMA AppendIsLonger ==
  ASSUME NEW queue \in Seq(HelperControls), NEW output \in HelperControls
  PROVE  /\ Append(queue, output) \in Seq(HelperControls)
         /\ Longer(Append(queue, output), queue, output)
<1>1. PICK m \in Nat : m = Len(queue)
  OBVIOUS
<1>2. /\ Append(queue, output) \in Seq(HelperControls)
      /\ DOMAIN queue = 1..m /\ DOMAIN Append(queue, output) = 1..(m + 1)
      /\ \A i \in 1..m : Append(queue, output)[i] = queue[i]
      /\ Append(queue, output)[m + 1] = output
  BY <1>1
<1>3. /\ \A i \in 1..m : i \in 1..(m + 1) /\ i < m + 1
      /\ \A i \in 1..(m + 1) : i \in 1..m \/ i = m + 1
  OBVIOUS
<1> QED BY <1>1, <1>2, <1>3 DEF Longer

LEMMA LongerInStep ==
  ASSUME NEW queue \in Seq(HelperControls), NEW output \in HelperControls,
         NEW longer, Longer(longer, queue, output), NEW phase, NEW session \in Nat, NEW top \in Nat,
         InStep(queue, phase, session, top), output.gen = top, session <= top,
         output.kind = "Connected" => /\ Ready(queue, phase, session, top)
                                      /\ NotEnded(queue, phase, session, top)
  PROVE  InStep(longer, phase, session, top)
<1>1. \A i \in DOMAIN queue : queue[i].gen \in Nat /\ session <= queue[i].gen /\ queue[i].gen <= top
  BY ControlsInQueue DEF InStep
<1>2. PICK n \in Nat : n = Len(queue) + 1 /\ n \notin DOMAIN queue /\ n \in DOMAIN longer
  BY DEF Longer
<1>3. /\ \A i \in DOMAIN queue : i \in Nat /\ i \in DOMAIN longer /\ longer[i] = queue[i] /\ i < n
      /\ longer[n] = output /\ \A i \in DOMAIN longer : i \in DOMAIN queue \/ i = n
  BY <1>2 DEF Longer
<1>4. \A i, j \in DOMAIN longer : i < j => i \in DOMAIN queue
  BY <1>2, <1>3
<1>5. \A i \in DOMAIN longer : session <= longer[i].gen /\ longer[i].gen <= top
  BY <1>1, <1>3
<1>6. \A i, j \in DOMAIN longer : i < j => longer[i].gen <= longer[j].gen
  BY <1>1, <1>3, <1>4 DEF InStep
<1>7. ASSUME NEW i \in DOMAIN longer, NEW j \in DOMAIN longer,
             i < j, longer[i].kind \in Barriers, longer[j].kind = "Connected"
      PROVE  longer[i].gen < longer[j].gen
  <2>1. i \in DOMAIN queue /\ longer[i] = queue[i]
    BY <1>3, <1>4, <1>7
  <2>2. CASE j \in DOMAIN queue
    BY <1>3, <1>7, <2>1, <2>2 DEF InStep
  <2>3. CASE j = n
    BY <1>3, <1>7, <2>1, <2>3 DEF NotEnded
  <2> QED BY <1>3, <2>2, <2>3
<1>8. ASSUME NEW i \in DOMAIN longer, NEW j \in DOMAIN longer,
             i < j, longer[i].kind = "Connected", longer[j].kind = "Connected",
             longer[i].gen < longer[j].gen
      PROVE  \E k \in DOMAIN longer : i < k /\ k < j /\ longer[k].kind = "Reconnecting"
  <2>1. i \in DOMAIN queue /\ longer[i] = queue[i]
    BY <1>3, <1>4, <1>8
  <2>2. CASE j \in DOMAIN queue
    <3>1. PICK k \in DOMAIN queue : i < k /\ k < j /\ queue[k].kind = "Reconnecting"
      BY <1>3, <1>8, <2>1, <2>2 DEF InStep
    <3> QED BY <1>3, <3>1
  <2>3. CASE j = n
    <3>1. PICK k \in DOMAIN queue : i < k /\ queue[k].kind = "Reconnecting"
      BY <1>3, <1>8, <2>1, <2>3 DEF Ready
    <3> QED BY <1>3, <2>3, <3>1
  <2> QED BY <1>3, <2>2, <2>3
<1>9. ASSUME NEW i \in DOMAIN longer, longer[i].kind = "Connected"
      PROVE  \/ longer[i].gen = session /\ phase = "live"
             \/ longer[i].gen > session /\ phase = "idle"
             \/ longer[i].gen > session /\ \E k \in DOMAIN longer : k < i /\ longer[k].kind = "Reconnecting"
  <2>1. CASE i \in DOMAIN queue
    <3>1. CASE \E k \in DOMAIN queue : k < i /\ queue[k].kind = "Reconnecting"
      <4>1. \E k \in DOMAIN longer : k < i /\ longer[k].kind = "Reconnecting"
        BY <1>3, <3>1
      <4> QED BY <1>3, <1>9, <2>1, <4>1 DEF InStep
    <3>2. CASE ~ \E k \in DOMAIN queue : k < i /\ queue[k].kind = "Reconnecting"
      BY <1>3, <1>9, <2>1, <3>2 DEF InStep
    <3> QED BY <3>1, <3>2
  <2>2. CASE i = n
    <3>1. output.kind = "Connected" /\ longer[i].gen = top
      BY <1>3, <1>9, <2>2
    <3>2. CASE session = top
      BY <3>1, <3>2 DEF NotEnded
    <3>3. CASE session < top
      <4>1. phase = "idle" \/ \E k \in DOMAIN queue : queue[k].kind = "Reconnecting"
        BY <3>1, <3>3 DEF Ready
      <4>2. phase = "idle" \/ \E k \in DOMAIN longer : k < i /\ longer[k].kind = "Reconnecting"
        BY <1>3, <2>2, <4>1
      <4> QED BY <3>1, <3>3, <4>2
    <3> QED BY <3>2, <3>3
  <2> QED BY <1>3, <2>1, <2>2
<1> QED BY <1>5, <1>6, <1>7, <1>8, <1>9 DEF InStep

LEMMA LongerKeeps ==
  ASSUME NEW queue, NEW output, NEW longer, Longer(longer, queue, output),
         NEW phase, NEW session, NEW n
  PROVE  /\ Ready(queue, phase, session, n) /\ (output.kind = "Connected" => ~(output.gen < n))
              => Ready(longer, phase, session, n)
         /\ NotEnded(queue, phase, session, n) /\ (output.kind \in Barriers => output.gen < n)
              => NotEnded(longer, phase, session, n)
         /\ Announced(queue, session, n) => Announced(longer, session, n)
         /\ output.kind = "Connected" /\ output.gen = n => Announced(longer, session, n)
         /\ output.kind = "Reconnecting" => Ready(longer, phase, session, n)
<1>1. Ready(queue, phase, session, n) /\ (output.kind = "Connected" => ~(output.gen < n))
        => Ready(longer, phase, session, n)
  BY DEF Longer, Ready
<1>2. NotEnded(queue, phase, session, n) /\ (output.kind \in Barriers => output.gen < n)
        => NotEnded(longer, phase, session, n)
  BY DEF Longer, NotEnded
<1>3. Announced(queue, session, n) => Announced(longer, session, n)
  BY DEF Longer, Announced
<1>4. output.kind = "Connected" /\ output.gen = n => Announced(longer, session, n)
  <2>1. Len(queue) + 1 \in DOMAIN longer
    BY DEF Longer
  <2> QED BY <2>1 DEF Longer, Announced
<1>5. output.kind = "Reconnecting" => Ready(longer, phase, session, n)
  <2>1. Len(queue) + 1 \in DOMAIN longer
    BY DEF Longer
  <2> QED BY <2>1 DEF Longer, Ready
<1> QED BY <1>1, <1>2, <1>3, <1>4, <1>5

LEMMA DiscardKeepsStep ==
  ASSUME NEW queue \in Seq(HelperControls), NEW rest, rest = DiscardPendingSessionControls(queue),
         NEW phase, NEW session, NEW n
  PROVE  /\ rest \in Seq(HelperControls)
         /\ \A i \in DOMAIN rest : \E k \in DOMAIN queue : rest[i] = queue[k]
         /\ InStep(queue, phase, session, n) => InStep(rest, phase, session, n)
         /\ Ready(queue, phase, session, n) => Ready(rest, phase, session, n)
         /\ NotEnded(queue, phase, session, n) => NotEnded(rest, phase, session, n)
         /\ Announced(queue, session, n) => Announced(rest, session, n)
<1>1. Len(queue) \in Nat /\ DOMAIN queue = 1..Len(queue) /\ \A i \in DOMAIN queue : queue[i] \in HelperControls
  OBVIOUS
<1>2. Retains(rest, queue)
  BY <1>1, DiscardKeepsOrder
<1>3. PICK place \in [DOMAIN rest -> DOMAIN queue] :
        /\ \A i \in DOMAIN rest : rest[i] = queue[place[i]] /\ ~IsSessionScopedControl(rest[i])
        /\ \A i, j \in DOMAIN rest : i < j => place[i] < place[j]
        /\ \A k \in DOMAIN queue : ~IsSessionScopedControl(queue[k])
                                     => \E i \in DOMAIN rest : place[i] = k
  BY <1>2 DEF Retains
<1>4. PICK m \in Nat : DOMAIN rest = 1..m /\ rest = [i \in 1..m |-> rest[i]]
  BY <1>2 DEF Retains
<1>5. rest \in Seq(HelperControls)
  <2>1. \A i \in 1..m : rest[i] \in HelperControls
    BY <1>1, <1>3, <1>4
  <2> QED BY <1>4, <2>1
<1>6. /\ \A i \in DOMAIN rest : i \in Nat /\ place[i] \in DOMAIN queue /\ place[i] \in Nat
      /\ \A i, j \in DOMAIN rest : place[i] < place[j] => i < j
  <2>1. \A i \in DOMAIN rest : i \in Nat /\ place[i] \in DOMAIN queue /\ place[i] \in Nat
    BY <1>1, <1>3, <1>4
  <2>2. ASSUME NEW i \in DOMAIN rest, NEW j \in DOMAIN rest, place[i] < place[j], ~(i < j) PROVE FALSE
    <3>1. CASE i = j
      BY <2>1, <2>2, <3>1
    <3>2. CASE j < i
      <4>1. place[j] < place[i] BY <1>3, <3>2
      <4> QED BY <2>1, <2>2, <4>1
    <3> QED BY <2>1, <2>2, <3>1, <3>2
  <2> QED BY <2>1, <2>2
<1>7. \A k \in DOMAIN queue : queue[k].kind \in {"Reconnecting", "Connected"} =>
        \E i \in DOMAIN rest : place[i] = k /\ rest[i] = queue[k]
  <2>1. \A k \in DOMAIN queue : queue[k].kind \in {"Reconnecting", "Connected"} => ~IsSessionScopedControl(queue[k])
    BY DEF IsSessionScopedControl
  <2> QED BY <1>3, <2>1
<1>8. ASSUME InStep(queue, phase, session, n) PROVE InStep(rest, phase, session, n)
  <2>1. \A i \in DOMAIN rest : session <= rest[i].gen /\ rest[i].gen <= n
    BY <1>3, <1>8 DEF InStep
  <2>2. \A i, j \in DOMAIN rest : i < j => rest[i].gen <= rest[j].gen
    BY <1>3, <1>8 DEF InStep
  <2>3. \A i, j \in DOMAIN rest :
          i < j /\ rest[i].kind \in Barriers /\ rest[j].kind = "Connected" => rest[i].gen < rest[j].gen
    BY <1>3, <1>8 DEF InStep
  <2>4. ASSUME NEW i \in DOMAIN rest, NEW j \in DOMAIN rest, i < j, rest[i].kind = "Connected",
               rest[j].kind = "Connected", rest[i].gen < rest[j].gen
        PROVE  \E k \in DOMAIN rest : i < k /\ k < j /\ rest[k].kind = "Reconnecting"
    <3>1. PICK l \in DOMAIN queue : place[i] < l /\ l < place[j] /\ queue[l].kind = "Reconnecting"
      BY <1>3, <1>8, <2>4 DEF InStep
    <3>2. PICK k \in DOMAIN rest : place[k] = l /\ rest[k] = queue[l]
      BY <1>7, <3>1
    <3> QED BY <1>6, <3>1, <3>2
  <2>5. ASSUME NEW i \in DOMAIN rest, rest[i].kind = "Connected"
        PROVE  \/ rest[i].gen = session /\ phase = "live"
               \/ rest[i].gen > session /\ phase = "idle"
               \/ rest[i].gen > session /\ \E k \in DOMAIN rest : k < i /\ rest[k].kind = "Reconnecting"
    <3>1. CASE \E l \in DOMAIN queue : l < place[i] /\ queue[l].kind = "Reconnecting"
      <4>1. PICK l \in DOMAIN queue : l < place[i] /\ queue[l].kind = "Reconnecting"
        BY <3>1
      <4>2. PICK k \in DOMAIN rest : place[k] = l /\ rest[k] = queue[l]
        BY <1>7, <4>1
      <4>3. \E k2 \in DOMAIN rest : k2 < i /\ rest[k2].kind = "Reconnecting"
        BY <1>6, <4>1, <4>2
      <4> QED BY <1>3, <1>8, <2>5, <4>3 DEF InStep
    <3>2. CASE ~ \E l \in DOMAIN queue : l < place[i] /\ queue[l].kind = "Reconnecting"
      BY <1>3, <1>8, <2>5, <3>2 DEF InStep
    <3> QED BY <3>1, <3>2
  <2> QED BY <2>1, <2>2, <2>3, <2>4, <2>5 DEF InStep
<1>9. ASSUME Ready(queue, phase, session, n) PROVE Ready(rest, phase, session, n)
  <2>1. ASSUME NEW i \in DOMAIN rest, rest[i].kind = "Connected", rest[i].gen < n
        PROVE  \E k \in DOMAIN rest : i < k /\ rest[k].kind = "Reconnecting"
    <3>1. PICK l \in DOMAIN queue : place[i] < l /\ queue[l].kind = "Reconnecting"
      BY <1>3, <1>9, <2>1 DEF Ready
    <3>2. PICK k \in DOMAIN rest : place[k] = l /\ rest[k] = queue[l]
      BY <1>7, <3>1
    <3> QED BY <1>6, <3>1, <3>2
  <2>2. session < n => phase = "idle" \/ \E k \in DOMAIN rest : rest[k].kind = "Reconnecting"
    BY <1>7, <1>9 DEF Ready
  <2> QED BY <2>1, <2>2 DEF Ready
<1>10. NotEnded(queue, phase, session, n) => NotEnded(rest, phase, session, n)
  BY <1>3 DEF NotEnded
<1>11. Announced(queue, session, n) => Announced(rest, session, n)
  BY <1>7 DEF Announced
<1>12. \A i \in DOMAIN rest : \E k \in DOMAIN queue : rest[i] = queue[k]
  BY <1>3
<1> QED BY <1>5, <1>8, <1>9, <1>10, <1>11, <1>12

\* What the host makes of a control that is not a failure.
PhaseAfter(event, phase) ==
  CASE event.kind = "Connected" -> "live" [] event.kind = "Reconnecting" -> "idle" [] OTHER -> phase
SessionAfter(event, session) == IF event.kind = "Connected" THEN event.gen ELSE session

\* The host, having read on, is still in step with what is pending.
StaysInStep(queue, phase, session, rest, after, now, n) ==
  /\ rest \in Seq(HelperControls)
  /\ \A i \in DOMAIN rest : i \in Nat /\ i + 1 \in DOMAIN queue /\ rest[i] = queue[i + 1]
  /\ now \in Nat /\ session <= now /\ (session <= n => now <= n)
  /\ InStep(rest, after, now, n)
  /\ \A next \in Nat : Ready(queue, phase, session, next) => Ready(rest, after, now, next)
  /\ \A next \in Nat : NotEnded(queue, phase, session, next) => NotEnded(rest, after, now, next)
  /\ session <= n /\ Announced(queue, session, n) => Announced(rest, now, n)

LEMMA TailKeepsStep ==
  ASSUME NEW queue \in Seq(HelperControls), queue # <<>>,
         NEW event, event = Head(queue), event.kind # "ConnectionFailure",
         NEW phase, NEW session \in Nat, NEW n \in Nat, InStep(queue, phase, session, n)
  PROVE  StaysInStep(queue, phase, session, Tail(queue),
                     PhaseAfter(event, phase), SessionAfter(event, session), n)
<1> DEFINE rest == Tail(queue)
           after == PhaseAfter(event, phase)
           now == SessionAfter(event, session)
<1>1. PICK m \in Nat : m > 0 /\ m = Len(queue) /\ DOMAIN queue = 1..m
  OBVIOUS
<1>2. /\ rest \in Seq(HelperControls) /\ DOMAIN rest = 1..(m - 1)
      /\ \A i \in 1..(m - 1) : rest[i] = queue[i + 1]
      /\ event = queue[1]
  BY <1>1
<1> HIDE DEF rest, after, now
<1>3. /\ 1 \in DOMAIN queue /\ event = queue[1] /\ event \in HelperControls
      /\ \A i \in DOMAIN queue : queue[i].gen \in Nat
  BY <1>1, <1>2, ControlsInQueue
<1>4. \A i \in DOMAIN rest : i \in Nat /\ i + 1 \in DOMAIN queue /\ rest[i] = queue[i + 1] /\ i + 1 > 1
  BY <1>1, <1>2
<1>5. \A k \in DOMAIN queue : k # 1 => k - 1 \in DOMAIN rest /\ rest[k - 1] = queue[k] /\ k \in Nat
  BY <1>1, <1>2
<1>6. event.kind \in {"Status", "Connected", "ClipboardText", "Reconnecting"}
  BY <1>3 DEF HelperControls
<1>7. /\ now \in Nat /\ session <= now /\ (session <= n => now <= n)
      /\ \A i \in DOMAIN rest : now <= rest[i].gen /\ rest[i].gen <= n
      /\ \A i, j \in DOMAIN rest : i < j => rest[i].gen <= rest[j].gen
      /\ \A i, j \in DOMAIN rest :
          i < j /\ rest[i].kind \in Barriers /\ rest[j].kind = "Connected" => rest[i].gen < rest[j].gen
  BY <1>3, <1>4 DEF now, InStep, SessionAfter
<1>8. ASSUME NEW i \in DOMAIN rest, NEW j \in DOMAIN rest, i < j, rest[i].kind = "Connected",
             rest[j].kind = "Connected", rest[i].gen < rest[j].gen
      PROVE  \E k \in DOMAIN rest : i < k /\ k < j /\ rest[k].kind = "Reconnecting"
  <2>1. PICK l \in DOMAIN queue : i + 1 < l /\ l < j + 1 /\ queue[l].kind = "Reconnecting"
    <3>1. i + 1 \in DOMAIN queue /\ j + 1 \in DOMAIN queue /\ i + 1 < j + 1
      BY <1>4, <1>8
    <3>2. queue[i + 1] = rest[i] /\ queue[j + 1] = rest[j]
      BY <1>4
    <3> QED BY <1>8, <3>1, <3>2 DEF InStep
  <2>2. l # 1 /\ i < l - 1 /\ l - 1 < j
    BY <1>1, <1>4, <2>1
  <2> QED BY <1>5, <2>1, <2>2
<1>9. ASSUME NEW i \in DOMAIN rest, rest[i].kind = "Connected"
      PROVE  \/ rest[i].gen = now /\ after = "live"
             \/ rest[i].gen > now /\ after = "idle"
             \/ rest[i].gen > now /\ \E k \in DOMAIN rest : k < i /\ rest[k].kind = "Reconnecting"
  <2>1. CASE event.kind = "Connected"
    <3>1. now = event.gen /\ after = "live" /\ now <= rest[i].gen
      BY <1>7, <2>1 DEF after, now, PhaseAfter, SessionAfter
    <3>2. ASSUME now < rest[i].gen PROVE \E k \in DOMAIN rest : k < i /\ rest[k].kind = "Reconnecting"
      <4>1. PICK l \in DOMAIN queue : 1 < l /\ l < i + 1 /\ queue[l].kind = "Reconnecting"
        BY <1>3, <1>4, <1>9, <2>1, <3>1, <3>2 DEF InStep
      <4>2. l # 1 /\ l - 1 < i
        BY <1>1, <1>4, <4>1
      <4> QED BY <1>5, <4>1, <4>2
    <3> QED BY <1>3, <1>4, <1>7, <3>1, <3>2
  <2>2. CASE event.kind = "Reconnecting"
    <3>1. now = session /\ after = "idle"
      BY <2>2 DEF after, now, PhaseAfter, SessionAfter
    <3>2. event.gen < rest[i].gen /\ session <= event.gen
      BY <1>3, <1>4, <1>9, <2>2 DEF InStep, Barriers
    <3> QED BY <1>3, <1>4, <3>1, <3>2
  <2>3. CASE event.kind \in {"Status", "ClipboardText"}
    <3>1. now = session /\ after = phase
      BY <2>3 DEF after, now, PhaseAfter, SessionAfter
    <3>2. CASE \E l \in DOMAIN queue : l < i + 1 /\ queue[l].kind = "Reconnecting"
      <4>1. PICK l \in DOMAIN queue : l < i + 1 /\ queue[l].kind = "Reconnecting"
        BY <3>2
      <4>2. l # 1 /\ l - 1 < i
        BY <1>1, <1>3, <1>4, <2>3, <4>1
      <4>3. \E k \in DOMAIN rest : k < i /\ rest[k].kind = "Reconnecting"
        BY <1>5, <4>1, <4>2
      <4> QED BY <1>4, <1>9, <3>1, <4>3 DEF InStep
    <3>3. CASE ~ \E l \in DOMAIN queue : l < i + 1 /\ queue[l].kind = "Reconnecting"
      BY <1>4, <1>9, <3>1, <3>3 DEF InStep
    <3> QED BY <3>2, <3>3
  <2> QED BY <1>6, <2>1, <2>2, <2>3
<1>10. InStep(rest, after, now, n)
  BY <1>7, <1>8, <1>9 DEF InStep
<1>11. ASSUME NEW next \in Nat, Ready(queue, phase, session, next) PROVE Ready(rest, after, now, next)
  <2>1. ASSUME NEW i \in DOMAIN rest, rest[i].kind = "Connected", rest[i].gen < next
        PROVE  \E k \in DOMAIN rest : i < k /\ rest[k].kind = "Reconnecting"
    <3>1. PICK l \in DOMAIN queue : i + 1 < l /\ queue[l].kind = "Reconnecting"
      BY <1>4, <1>11, <2>1 DEF Ready
    <3>2. l # 1 /\ i < l - 1
      BY <1>1, <1>4, <3>1
    <3> QED BY <1>5, <3>1, <3>2
  <2>2. ASSUME now < next
        PROVE  after = "idle" \/ \E k \in DOMAIN rest : rest[k].kind = "Reconnecting"
    <3>1. CASE event.kind = "Connected"
      <4>1. event.gen < next
        BY <2>2, <3>1 DEF now, SessionAfter
      <4>2. PICK l \in DOMAIN queue : 1 < l /\ queue[l].kind = "Reconnecting"
        BY <1>3, <1>11, <3>1, <4>1 DEF Ready
      <4>3. l # 1 BY <1>1, <4>2
      <4> QED BY <1>5, <4>2, <4>3
    <3>2. CASE event.kind = "Reconnecting"
      BY <3>2 DEF after, PhaseAfter
    <3>3. CASE event.kind \in {"Status", "ClipboardText"}
      <4>1. now = session /\ after = phase
        BY <3>3 DEF after, now, PhaseAfter, SessionAfter
      <4>2. \A l \in DOMAIN queue : queue[l].kind = "Reconnecting" => l # 1
        BY <1>3, <3>3
      <4> QED BY <1>5, <1>11, <2>2, <4>1, <4>2 DEF Ready
    <3> QED BY <1>6, <3>1, <3>2, <3>3
  <2> QED BY <2>1, <2>2 DEF Ready
<1>12. ASSUME NEW next \in Nat, NotEnded(queue, phase, session, next)
       PROVE  NotEnded(rest, after, now, next)
  <2>1. \A i \in DOMAIN rest : rest[i].kind \in Barriers => rest[i].gen < next
    BY <1>4, <1>12 DEF NotEnded
  <2>2. now = next => after = "live"
    <3>1. CASE event.kind = "Connected"
      BY <3>1 DEF after, PhaseAfter
    <3>2. CASE event.kind = "Reconnecting"
      <4>1. event.gen < next /\ session <= event.gen /\ now = session
        BY <1>3, <1>12, <3>2 DEF NotEnded, InStep, now, SessionAfter, Barriers
      <4> QED BY <1>3, <4>1
    <3>3. CASE event.kind \in {"Status", "ClipboardText"}
      BY <1>12, <3>3 DEF NotEnded, after, now, PhaseAfter, SessionAfter
    <3> QED BY <1>6, <3>1, <3>2, <3>3
  <2> QED BY <2>1, <2>2 DEF NotEnded
<1>13. ASSUME session <= n, Announced(queue, session, n) PROVE Announced(rest, now, n)
  <2>1. CASE session = n
    BY <1>3, <1>7, <2>1 DEF Announced
  <2>2. ASSUME NEW i \in DOMAIN queue, queue[i].kind = "Connected", queue[i].gen = n
        PROVE  Announced(rest, now, n)
    <3>1. CASE i = 1
      BY <1>3, <2>2, <3>1 DEF Announced, now, SessionAfter
    <3>2. CASE i # 1
      BY <1>5, <2>2, <3>2 DEF Announced
    <3> QED BY <3>1, <3>2
  <2> QED BY <1>13, <2>1, <2>2 DEF Announced
<1>14. StaysInStep(queue, phase, session, rest, after, now, n)
  BY <1>2, <1>4, <1>7, <1>10, <1>11, <1>12, <1>13 DEF StaysInStep
<1> QED BY <1>14 DEF rest, after, now
-----------------------------------------------------------------------------
(* Every step keeps the stream in step *)

StreamHolds == StreamTypes /\ StreamOrder /\ PictureOrder

PCs == {"start", "connecting", "poll", "input", "refresh", "reconnect", "waiting", "exit", "dead"}
Unconnected == {"start", "connecting", "waiting"}
Streaming == {"poll", "input", "refresh", "reconnect"}

\* Where the session thread may go without saying anything.
Moves ==
  /\ pc' \in PCs
  /\ Over => Over'
  /\ ~Over' => NextSession' = NextSession
  /\ pc' \in Unconnected => pc \in Unconnected

\* A step that sends and reads nothing, and keeps the session or drops it.
LEMMA QuietKeepsStream ==
  ASSUME StreamHolds, Moves,
         UNCHANGED <<control, latest_frame, latest_delta, accepting, attempts,
                     host_phase, host_session, host_picture>>,
         \/ framebuffer' = None /\ dirty' = {}
         \/ UNCHANGED <<framebuffer, keyframe, dirty>> /\ (framebuffer = None \/ pc' \in Streaming)
  PROVE  StreamHolds'
<1>1. StreamTypes'
  BY DEF StreamHolds, StreamTypes, Moves, PCs
<1>2. StreamOrder'
  <2>1. /\ InStep(control, host_phase, host_session, attempts)'
        /\ (host_session <= attempts)'
        /\ (host_phase # "live" => host_picture = None)'
    BY DEF StreamHolds, StreamOrder
  <2>2. \A i \in DOMAIN control' : control'[i].kind = "ConnectionFailure" =>
          i = Len(control') /\ Over' /\ ~PicturePending'
    BY DEF StreamHolds, StreamOrder, PicturePending, Moves
  <2>3. ~Over' => /\ Ready(control, host_phase, host_session, NextSession)'
                  /\ NotEnded(control, host_phase, host_session, NextSession)'
    BY DEF StreamHolds, StreamOrder, Moves
  <2>4. PicturePending' => /\ NotEnded(control, host_phase, host_session, attempts)'
                           /\ Announced(control, host_session, attempts)'
                           /\ pc' \notin {"start", "connecting", "waiting"}
    BY DEF StreamHolds, StreamOrder, PicturePending, Moves, Unconnected
  <2>5. framebuffer' # None => /\ pc' \in {"poll", "input", "refresh", "reconnect"} /\ accepting'
                               /\ Announced(control, host_session, attempts)'
    BY DEF StreamHolds, StreamOrder, Streaming
  <2>6. host_phase' = "ended" => MailboxEmpty' /\ Over'
    BY DEF StreamHolds, StreamOrder, MailboxEmpty, Moves
  <2> QED BY <2>1, <2>2, <2>3, <2>4, <2>5, <2>6 DEF StreamOrder
<1>3. PictureOrder'
  <2>1. PendingBase' = PendingBase /\ PendingPicture' = PendingPicture
    BY DEF PendingBase, PendingPicture
  <2> QED BY <2>1 DEF StreamHolds, PictureOrder
<1> QED BY <1>1, <1>2, <1>3 DEF StreamHolds

\* A rectangle is painted into the framebuffer and waits for the flush.
LEMMA PatchKeepsStream ==
  ASSUME StreamHolds, NEW cell \in Cells, NEW pixel \in Pixels, PatchRect(cell, pixel)
  PROVE  StreamHolds'
<1>1. /\ UNCHANGED <<control, latest_frame, latest_delta, accepting, attempts, pc,
                     host_phase, host_session, host_picture, keyframe>>
      /\ pc = "poll"
  BY DEF PatchRect, TakeEvent, mailbox, hostVars, backendVars
<1>2. Moves
  BY <1>1 DEF Moves, PCs, Over, NextSession, Unconnected
<1>3. CASE framebuffer = None
  <2>1. UNCHANGED <<framebuffer, keyframe, dirty>>
    BY <1>1, <1>3 DEF PatchRect
  <2> QED BY <1>1, <1>2, <1>3, <2>1, QuietKeepsStream
<1>4. CASE framebuffer # None
  <2>1. framebuffer' = [framebuffer EXCEPT !.px[cell] = pixel] /\ dirty' = dirty \cup {cell}
    BY <1>4 DEF PatchRect
  <2>2. framebuffer \in Frames({attempts})
    BY <1>4 DEF StreamHolds, StreamTypes
  <2>3. /\ framebuffer' \in Frames({attempts}) /\ framebuffer' # None
        /\ framebuffer'.size = framebuffer.size
        /\ \A c \in Cells : c # cell => framebuffer'.px[c] = framebuffer.px[c]
    BY <2>1, <2>2 DEF Frames, FramePictures, None
  <2>4. StreamTypes'
    BY <1>1, <2>1, <2>3 DEF StreamHolds, StreamTypes
  <2>5. StreamOrder'
    BY <1>1, <1>4 DEF StreamHolds, StreamOrder, Over, NextSession, PicturePending, MailboxEmpty
  <2>6. PictureOrder'
    <3>1. PendingBase' = PendingBase /\ PendingPicture' = PendingPicture
      BY <1>1 DEF PendingBase, PendingPicture
    <3>2. \A c \in Cells \ dirty' : c \in Cells \ dirty /\ c # cell
      BY <2>1
    <3> QED BY <1>1, <1>4, <2>3, <3>1, <3>2 DEF StreamHolds, PictureOrder
  <2> QED BY <2>4, <2>5, <2>6 DEF StreamHolds
<1> QED BY <1>3, <1>4

\* What send() does while the writer runs.
LEMMA SendEffect ==
  ASSUME NEW STATE output, receiver_alive, Send(output)
  PROVE  /\ output.kind = "Status" =>
              control' = Append(control, output) /\ UNCHANGED <<accepting, latest_frame, latest_delta>>
         /\ output.kind = "ClipboardText" =>
              /\ control' = Append(control, output) \/ control' = control
              /\ UNCHANGED <<accepting, latest_frame, latest_delta>>
         /\ output.kind = "Connected" =>
              /\ control' = Append(control, output) /\ accepting' = TRUE
              /\ UNCHANGED <<latest_frame, latest_delta>>
         /\ output.kind \in {"Reconnecting", "ConnectionFailure"} =>
              /\ control' = Append(DiscardPendingSessionControls(control), output)
              /\ latest_frame' = None /\ latest_delta' = None
         /\ output.kind = "Frame" /\ accepting =>
              /\ latest_frame' = output /\ latest_delta' = None /\ UNCHANGED <<control, accepting>>
         /\ output.kind = "Delta" /\ accepting =>
              /\ latest_delta' = MergeDeltas(latest_delta, output)
              /\ UNCHANGED <<control, accepting, latest_frame>>
<1>1. \/ SendBarrier(output) \/ SendConnected(output) \/ SendFrame(output)
      \/ SendDelta(output) \/ SendLate(output) \/ SendControl(output)
  BY DEF Send, SendToClosed
<1>2. output.kind \in {"Status", "ClipboardText"} => EnqueueControl(control, output) = Append(control, output)
  BY DEF EnqueueControl
<1> USE DEF SendBarrier, SendConnected, SendFrame, SendDelta, SendLate, SendControl,
            CloseSessionOutputs, Barriers, IsSessionScopedControl
<1>3. output.kind = "Status" =>
        control' = Append(control, output) /\ UNCHANGED <<accepting, latest_frame, latest_delta>>
  BY <1>1, <1>2
<1>4. output.kind = "ClipboardText" =>
        /\ control' = Append(control, output) \/ control' = control
        /\ UNCHANGED <<accepting, latest_frame, latest_delta>>
  BY <1>1, <1>2
<1>5. output.kind = "Connected" =>
        /\ control' = Append(control, output) /\ accepting' = TRUE
        /\ UNCHANGED <<latest_frame, latest_delta>>
  BY <1>1
<1>6. output.kind \in {"Reconnecting", "ConnectionFailure"} =>
        /\ control' = Append(DiscardPendingSessionControls(control), output)
        /\ latest_frame' = None /\ latest_delta' = None
  BY <1>1
<1>7. output.kind = "Frame" /\ accepting =>
        /\ latest_frame' = output /\ latest_delta' = None /\ UNCHANGED <<control, accepting>>
  BY <1>1
<1>8. output.kind = "Delta" /\ accepting =>
        /\ latest_delta' = MergeDeltas(latest_delta, output)
        /\ UNCHANGED <<control, accepting, latest_frame>>
  BY <1>1
<1> QED BY <1>3, <1>4, <1>5, <1>6, <1>7, <1>8

\* A Status, ClipboardText or Connected is queued.
LEMMA AppendKeepsOrder ==
  ASSUME StreamHolds, ~Over, NEW output \in HelperControls, output.gen = attempts,
         output.kind \in {"Status", "ClipboardText", "Connected"},
         output.kind = "Connected" => pc = "poll",
         NEW queue, queue = Append(control, output)
  PROVE  /\ queue \in Seq(HelperControls)
         /\ InStep(queue, host_phase, host_session, attempts)
         /\ \A i \in DOMAIN queue : queue[i].kind # "ConnectionFailure"
         /\ Ready(queue, host_phase, host_session, NextSession)
         /\ NotEnded(queue, host_phase, host_session, NextSession)
         /\ PicturePending => NotEnded(queue, host_phase, host_session, attempts)
         /\ Announced(control, host_session, attempts) => Announced(queue, host_session, attempts)
         /\ output.kind = "Connected" => Announced(queue, host_session, attempts)
<1>1. /\ control \in Seq(HelperControls) /\ attempts \in Nat /\ host_session \in Nat
      /\ InStep(control, host_phase, host_session, attempts) /\ host_session <= attempts
      /\ \A i \in DOMAIN control : control[i].kind # "ConnectionFailure"
      /\ Ready(control, host_phase, host_session, NextSession)
      /\ NotEnded(control, host_phase, host_session, NextSession)
      /\ PicturePending => NotEnded(control, host_phase, host_session, attempts)
  BY DEF StreamHolds, StreamTypes, StreamOrder
<1>2. queue \in Seq(HelperControls) /\ Longer(queue, control, output)
  BY <1>1, AppendIsLonger
<1>3. output.kind = "Connected" => NextSession = attempts
  BY DEF NextSession
<1>4. InStep(queue, host_phase, host_session, attempts)
  BY <1>1, <1>2, <1>3, LongerInStep
<1>5. \A i \in DOMAIN queue : queue[i].kind # "ConnectionFailure"
  BY <1>1, <1>2 DEF Longer
<1>6. output.kind \notin Barriers
  BY DEF Barriers
<1>7. Ready(queue, host_phase, host_session, NextSession)
  BY <1>1, <1>2, <1>3, LongerKeeps
<1>8. /\ NotEnded(queue, host_phase, host_session, NextSession)
      /\ PicturePending => NotEnded(queue, host_phase, host_session, attempts)
  BY <1>1, <1>2, <1>6, LongerKeeps
<1>9. /\ Announced(control, host_session, attempts) => Announced(queue, host_session, attempts)
      /\ output.kind = "Connected" => Announced(queue, host_session, attempts)
  BY <1>2, LongerKeeps
<1> QED BY <1>2, <1>4, <1>5, <1>7, <1>8, <1>9

\* Session-scoped outputs are discarded, and the end of a session is queued.
LEMMA BarrierKeepsOrder ==
  ASSUME StreamHolds, ~Over, NEW output \in HelperControls, output.gen = attempts,
         output.kind \in {"Reconnecting", "ConnectionFailure"},
         NEW queue, queue = Append(DiscardPendingSessionControls(control), output)
  PROVE  /\ queue \in Seq(HelperControls)
         /\ InStep(queue, host_phase, host_session, attempts)
         /\ \A i \in DOMAIN queue : queue[i].kind = "ConnectionFailure" =>
              i = Len(queue) /\ output.kind = "ConnectionFailure"
         /\ output.kind = "Reconnecting" =>
              /\ Ready(queue, host_phase, host_session, attempts + 1)
              /\ NotEnded(queue, host_phase, host_session, attempts + 1)
<1> DEFINE rest == DiscardPendingSessionControls(control)
<1>1. /\ control \in Seq(HelperControls) /\ attempts \in Nat /\ host_session \in Nat
      /\ InStep(control, host_phase, host_session, attempts) /\ host_session <= attempts
      /\ \A i \in DOMAIN control : control[i].kind # "ConnectionFailure"
  BY DEF StreamHolds, StreamTypes, StreamOrder
<1>2. /\ rest \in Seq(HelperControls) /\ InStep(rest, host_phase, host_session, attempts)
      /\ \A i \in DOMAIN rest : rest[i].kind # "ConnectionFailure"
  BY <1>1, DiscardKeepsStep
<1> HIDE DEF rest
<1>3. queue \in Seq(HelperControls) /\ Longer(queue, rest, output)
  BY <1>2, AppendIsLonger DEF rest
<1>4. InStep(queue, host_phase, host_session, attempts)
  BY <1>1, <1>2, <1>3, LongerInStep
<1>5. ASSUME NEW i \in DOMAIN queue, queue[i].kind = "ConnectionFailure"
      PROVE  i = Len(queue) /\ output.kind = "ConnectionFailure"
  <2>1. i = Len(rest) + 1 /\ queue[i] = output
    BY <1>2, <1>3, <1>5 DEF Longer
  <2>2. Len(queue) = Len(rest) + 1
    BY <1>2, <1>3 DEF rest
  <2> QED BY <1>5, <2>1, <2>2
<1>6. output.kind = "Reconnecting" => Ready(queue, host_phase, host_session, attempts + 1)
  BY <1>3, LongerKeeps
<1>7. NotEnded(queue, host_phase, host_session, attempts + 1)
  <2>1. \A i \in DOMAIN queue : queue[i].gen \in Nat /\ queue[i].gen <= attempts
    BY <1>3, <1>4, ControlsInQueue DEF InStep
  <2> QED BY <1>1, <2>1 DEF NotEnded
<1> QED BY <1>3, <1>4, <1>5, <1>6, <1>7

LEMMA ControlIsQueued ==
  ASSUME NEW kind \in {"Status", "Connected", "ClipboardText", "ConnectionFailure"}, attempts \in Nat
  PROVE  /\ Control(kind) \in HelperControls /\ Control(kind).kind = kind
         /\ Control(kind).gen = attempts
BY DEF Control, HelperControls

LEMMA StartSessionKeepsStream ==
  ASSUME StreamHolds, receiver_alive, StartSession
  PROVE  StreamHolds'
<1>1. /\ pc = "start" /\ pc' = "connecting" /\ attempts' = attempts + 1 /\ attempts \in Nat
      /\ UNCHANGED <<framebuffer, keyframe, dirty, host_phase, host_session, host_picture>>
      /\ Send(Control("Status"))
  BY DEF StartSession, sessionVars, hostVars, StreamHolds, StreamTypes
<1>2. ~Over /\ NextSession = attempts + 1 /\ NextSession' = attempts + 1 /\ ~Over'
  BY <1>1 DEF Over, NextSession
<1>3. latest_frame = None /\ latest_delta = None /\ framebuffer = None /\ ~PicturePending
  BY <1>1 DEF StreamHolds, StreamOrder, PicturePending
<1>4. PICK output \in HelperControls :
        output = Control("Status") /\ output.kind = "Status" /\ output.gen = attempts
  BY <1>1, ControlIsQueued
<1>5. control' = Append(control, output) /\ UNCHANGED <<accepting, latest_frame, latest_delta>>
  BY <1>1, <1>4, SendEffect
<1>6. /\ control' \in Seq(HelperControls)
      /\ InStep(control', host_phase, host_session, attempts)
      /\ \A i \in DOMAIN control' : control'[i].kind # "ConnectionFailure"
      /\ Ready(control', host_phase, host_session, attempts + 1)
      /\ NotEnded(control', host_phase, host_session, attempts + 1)
  BY <1>2, <1>4, <1>5, AppendKeepsOrder
<1>7. InStep(control', host_phase, host_session, attempts + 1)
  <2>1. \A i \in DOMAIN control' : control'[i].gen <= attempts + 1
    BY <1>1, <1>6, ControlsInQueue DEF InStep
  <2> QED BY <1>6, <2>1 DEF InStep
<1>8. StreamTypes'
  BY <1>1, <1>3, <1>5, <1>6 DEF StreamHolds, StreamTypes
<1>9. StreamOrder'
  <2>1. host_session' <= attempts'
    BY <1>1 DEF StreamHolds, StreamTypes, StreamOrder
  <2>2. host_phase # "ended" /\ (host_phase # "live" => host_picture = None)
    BY <1>2 DEF StreamHolds, StreamOrder
  <2> QED BY <1>1, <1>2, <1>3, <1>5, <1>6, <1>7, <2>1, <2>2 DEF StreamOrder, PicturePending
<1>10. PictureOrder'
  BY <1>1, <1>3, <1>5 DEF PictureOrder
<1> QED BY <1>8, <1>9, <1>10 DEF StreamHolds

LEMMA EndKeepsStream ==
  ASSUME StreamHolds, receiver_alive, ConnectFailsTerminally \/ Reconnect
  PROVE  StreamHolds'
<1>1. PICK output \in HelperControls :
        /\ Send(output) /\ output.gen = attempts
        /\ \/ output.kind = "ConnectionFailure" /\ pc' = "exit" /\ pc = "connecting"
              /\ UNCHANGED <<framebuffer, dirty>>
           \/ output.kind = "Reconnecting" /\ pc' = "waiting" /\ pc = "reconnect"
              /\ framebuffer' = None /\ dirty' = {}
        /\ UNCHANGED <<attempts, host_phase, host_session, host_picture>>
  <2>1. attempts \in Nat BY DEF StreamHolds, StreamTypes
  <2>2. CASE ConnectFailsTerminally
    BY <2>1, <2>2, ControlIsQueued DEF ConnectFailsTerminally, sessionVars, backendVars, hostVars
  <2>3. CASE Reconnect
    <3>1. \A n : ReconnectDelay(n) \in {1, 2, 5, 10}
      BY DEF ReconnectDelay
    <3>2. PICK delay \in {1, 2, 5, 10} : Send([kind |-> "Reconnecting", gen |-> attempts, delay |-> delay])
      BY <2>3, <3>1 DEF Reconnect
    <3>3. [kind |-> "Reconnecting", gen |-> attempts, delay |-> delay] \in HelperControls
      BY <2>1 DEF HelperControls
    <3> QED BY <2>3, <3>2, <3>3 DEF Reconnect, DropSession, hostVars
  <2> QED BY <2>2, <2>3
<1>2. ~Over /\ framebuffer' = None /\ dirty' \subseteq Cells
  BY <1>1 DEF Over, StreamHolds, StreamTypes, StreamOrder
<1>3. /\ control' = Append(DiscardPendingSessionControls(control), output)
      /\ latest_frame' = None /\ latest_delta' = None
  BY <1>1, SendEffect
<1>4. /\ control' \in Seq(HelperControls)
      /\ InStep(control', host_phase, host_session, attempts)
      /\ \A i \in DOMAIN control' : control'[i].kind = "ConnectionFailure" =>
           i = Len(control') /\ output.kind = "ConnectionFailure"
      /\ output.kind = "Reconnecting" =>
           /\ Ready(control', host_phase, host_session, attempts + 1)
           /\ NotEnded(control', host_phase, host_session, attempts + 1)
  BY <1>1, <1>2, <1>3, BarrierKeepsOrder
<1>5. StreamTypes'
  BY <1>1, <1>2, <1>3, <1>4 DEF StreamHolds, StreamTypes
<1>6. StreamOrder'
  <2>1. host_phase # "ended" /\ (host_phase # "live" => host_picture = None) /\ host_session <= attempts
    BY <1>2 DEF StreamHolds, StreamOrder
  <2>2. output.kind = "ConnectionFailure" => Over'
    BY <1>1 DEF Over
  <2>3. ~Over' => NextSession' = attempts + 1 /\ output.kind = "Reconnecting"
    BY <1>1 DEF Over, NextSession
  <2>4. ~Over' => /\ Ready(control, host_phase, host_session, NextSession)'
                  /\ NotEnded(control, host_phase, host_session, NextSession)'
    BY <1>1, <1>4, <2>3
  <2>5. ~PicturePending'
    BY <1>3 DEF PicturePending
  <2> QED BY <1>1, <1>2, <1>4, <2>1, <2>2, <2>4, <2>5 DEF StreamOrder
<1>7. PictureOrder'
  BY <1>2, <1>3 DEF PictureOrder
<1> QED BY <1>5, <1>6, <1>7 DEF StreamHolds

LEMMA ConnectKeepsStream ==
  ASSUME StreamHolds, Connect
  PROVE  StreamHolds'
<1>1. /\ pc = "connecting" /\ pc' \in {"reconnect", "poll"}
      /\ control' = DiscardPendingSessionControls(control)
      /\ latest_frame' = None /\ latest_delta' = None /\ framebuffer' = None /\ dirty' = {}
      /\ UNCHANGED <<attempts, host_phase, host_session, host_picture>>
  BY DEF Connect, BeginGeneration, CloseSessionOutputs, backendVars, hostVars
<1>2. ~Over /\ ~Over' /\ NextSession = attempts /\ NextSession' = attempts /\ attempts \in Nat
  BY <1>1 DEF Over, NextSession, StreamHolds, StreamTypes
<1>3. /\ control \in Seq(HelperControls)
      /\ InStep(control, host_phase, host_session, attempts) /\ host_session <= attempts
      /\ \A i \in DOMAIN control : control[i].kind # "ConnectionFailure"
      /\ Ready(control, host_phase, host_session, attempts)
      /\ NotEnded(control, host_phase, host_session, attempts)
      /\ host_phase # "ended" /\ (host_phase # "live" => host_picture = None)
  BY <1>2 DEF StreamHolds, StreamTypes, StreamOrder
<1>4. /\ control' \in Seq(HelperControls)
      /\ InStep(control', host_phase, host_session, attempts)
      /\ \A i \in DOMAIN control' : control'[i].kind # "ConnectionFailure"
      /\ Ready(control', host_phase, host_session, attempts)
      /\ NotEnded(control', host_phase, host_session, attempts)
  BY <1>1, <1>3, DiscardKeepsStep
<1>5. StreamTypes'
  BY <1>1, <1>4 DEF StreamHolds, StreamTypes
<1>6. StreamOrder'
  BY <1>1, <1>2, <1>3, <1>4 DEF StreamOrder, PicturePending
<1>7. PictureOrder'
  BY <1>1 DEF PictureOrder
<1> QED BY <1>5, <1>6, <1>7 DEF StreamHolds

\* SetResolution, CutText, JpegImage.
LEMMA AnnounceKeepsStream ==
  ASSUME StreamHolds, receiver_alive,
         CutText \/ JpegImage \/ \E size \in Sizes : SetResolution(size)
  PROVE  StreamHolds'
<1>1. PICK kind \in {"Status", "ClipboardText", "Connected"} :
        /\ Send(Control(kind)) /\ pc = "poll" /\ pc' = "poll"
        /\ UNCHANGED <<attempts, host_phase, host_session, host_picture>>
        /\ kind # "Connected" => UNCHANGED <<framebuffer, keyframe, dirty>>
        /\ kind = "Connected" => /\ keyframe' = TRUE /\ dirty' = {}
                                 /\ \E size \in Sizes : framebuffer' = Picture(size, [c \in Cells |-> Blank])
  <2>1. CASE CutText
    BY <2>1 DEF CutText, TakeEvent, backendVars, hostVars
  <2>2. CASE JpegImage
    BY <2>2 DEF JpegImage, TakeEvent, backendVars, hostVars
  <2>3. CASE \E size \in Sizes : SetResolution(size)
    BY <2>3 DEF SetResolution, TakeEvent, backendVars, hostVars
  <2> QED BY <2>1, <2>2, <2>3
<1>2. /\ ~Over /\ ~Over' /\ NextSession = attempts /\ NextSession' = attempts /\ attempts \in Nat
      /\ dirty' \subseteq Cells
  BY <1>1 DEF Over, NextSession, StreamHolds, StreamTypes
<1>3. PICK output \in HelperControls : output = Control(kind) /\ output.kind = kind /\ output.gen = attempts
  BY <1>2, ControlIsQueued
<1>4. /\ control' = Append(control, output) \/ (control' = control /\ kind # "Connected")
      /\ UNCHANGED <<latest_frame, latest_delta>>
      /\ kind = "Connected" => accepting' = TRUE
      /\ kind # "Connected" => accepting' = accepting
  BY <1>1, <1>3, SendEffect
<1>5. framebuffer' \in Frames({attempts}) \cup {None}
  <2>1. [c \in Cells |-> Blank] \in FramePictures
    BY PictureAssumption DEF FramePictures, Blank
  <2>2. \A size \in Sizes : Picture(size, [c \in Cells |-> Blank]) \in Frames({attempts})
    BY <2>1 DEF Picture, Frames
  <2> QED BY <1>1, <2>2 DEF StreamHolds, StreamTypes
<1>6. /\ control' \in Seq(HelperControls)
      /\ InStep(control', host_phase, host_session, attempts)
      /\ \A i \in DOMAIN control' : control'[i].kind # "ConnectionFailure"
      /\ Ready(control', host_phase, host_session, attempts)
      /\ NotEnded(control', host_phase, host_session, attempts)
      /\ Announced(control, host_session, attempts) => Announced(control', host_session, attempts)
      /\ kind = "Connected" => Announced(control', host_session, attempts)
  <2>1. CASE control' = Append(control, output)
    BY <1>1, <1>2, <1>3, <2>1, AppendKeepsOrder
  <2>2. CASE control' = control /\ kind # "Connected"
    BY <1>2, <2>2 DEF StreamHolds, StreamTypes, StreamOrder
  <2> QED BY <1>4, <2>1, <2>2
<1>7. StreamTypes'
  BY <1>1, <1>2, <1>4, <1>5, <1>6 DEF StreamHolds, StreamTypes
<1>8. StreamOrder'
  <2>1. PicturePending' => /\ Announced(control, host_session, attempts)'
                           /\ NotEnded(control, host_phase, host_session, attempts)'
    BY <1>1, <1>4, <1>6 DEF StreamHolds, StreamOrder, PicturePending
  <2>2. framebuffer' # None => accepting' /\ Announced(control, host_session, attempts)'
    BY <1>1, <1>4, <1>6 DEF StreamHolds, StreamOrder
  <2>3. host_phase # "ended" /\ (host_phase # "live" => host_picture = None) /\ host_session <= attempts
    BY <1>2 DEF StreamHolds, StreamOrder
  <2> QED BY <1>1, <1>2, <1>6, <2>1, <2>2, <2>3 DEF StreamOrder
<1>9. PictureOrder'
  <2>1. PendingBase' = PendingBase /\ PendingPicture' = PendingPicture
    BY <1>1, <1>4 DEF PendingBase, PendingPicture
  <2>2. CASE kind = "Connected"
    BY <1>1, <1>4, <2>1, <2>2 DEF StreamHolds, PictureOrder
  <2>3. CASE kind # "Connected"
    BY <1>1, <1>4, <2>1, <2>3 DEF StreamHolds, PictureOrder
  <2> QED BY <2>2, <2>3
<1> QED BY <1>7, <1>8, <1>9 DEF StreamHolds

\* The picture that a pending update leaves on another.
Painted(base, update) ==
  IF base = None \/ update = None THEN base ELSE [base EXCEPT !.px = Paint(base.px, update.px)]

LEMMA PendingIsPainted == PendingPicture = Painted(PendingBase, latest_delta)
BY DEF PendingPicture, PendingBase, Painted

LEMMA PaintedShape ==
  ASSUME NEW G, NEW base \in Frames(G), NEW H, NEW update \in Deltas(H) \cup {None}
  PROVE  /\ Painted(base, update) \in Frames(G) /\ Painted(base, update) # None
         /\ Painted(base, update).size = base.size /\ Painted(base, update).gen = base.gen
         /\ \A c \in Cells : Painted(base, update).px[c] =
              IF update # None /\ c \in DOMAIN update.px THEN update.px[c] ELSE base.px[c]
<1>1. base # None /\ base.px \in [Cells -> Pixels] /\ \A f \in Frames(G) : f # None
  BY DEF Frames, FramePictures, None
<1>2. CASE update = None
  BY <1>1, <1>2 DEF Painted
<1>3. CASE update # None
  <2>1. update.px \in DeltaPictures
    BY <1>3 DEF Deltas
  <2>2. PICK D \in SUBSET Cells : update.px \in [D -> Pixels]
    BY <2>1 DEF DeltaPictures
  <2> DEFINE px == Paint(base.px, update.px)
  <2>3. px \in [Cells -> Pixels]
        /\ \A c \in Cells : px[c] = IF c \in DOMAIN update.px THEN update.px[c] ELSE base.px[c]
    BY <1>1, <2>2 DEF Paint
  <2>4. Painted(base, update) = [base EXCEPT !.px = px]
    BY <1>1, <1>3 DEF Painted
  <2> HIDE DEF px
  <2>5. /\ [base EXCEPT !.px = px] \in Frames(G) /\ [base EXCEPT !.px = px].px = px
        /\ [base EXCEPT !.px = px].size = base.size /\ [base EXCEPT !.px = px].gen = base.gen
    BY <2>3 DEF Frames, FramePictures
  <2> QED BY <1>1, <1>3, <2>3, <2>4, <2>5
<1> QED BY <1>2, <1>3

\* What the later of two updates of one size does not cover, the earlier does.
LEMMA MergePaints ==
  ASSUME NEW G, NEW previous \in Deltas(G) \cup {None}, NEW next \in Deltas(G),
         previous # None => previous.size = next.size
  PROVE  \A c \in Cells :
           /\ c \in DOMAIN MergeDeltas(previous, next).px <=>
                c \in DOMAIN next.px \/ (previous # None /\ c \in DOMAIN previous.px)
           /\ c \in DOMAIN next.px => MergeDeltas(previous, next).px[c] = next.px[c]
           /\ c \notin DOMAIN next.px /\ previous # None /\ c \in DOMAIN previous.px =>
                MergeDeltas(previous, next).px[c] = previous.px[c]
<1>1. CASE previous = None
  BY <1>1 DEF MergeDeltas
<1>2. CASE previous # None
  <2> DEFINE px == [c \in DOMAIN previous.px \cup DOMAIN next.px |->
                     IF c \in DOMAIN next.px THEN next.px[c] ELSE previous.px[c]]
  <2>1. MergeDeltas(previous, next) = [next EXCEPT !.px = px]
    BY <1>2 DEF MergeDeltas
  <2>2. MergeDeltas(previous, next).px = px
    <3> HIDE DEF px
    <3> QED BY <2>1 DEF Deltas
  <2> QED BY <1>2, <2>2
<1> QED BY <1>1, <1>2

LEMMA FlushKeepsStream ==
  ASSUME StreamHolds, receiver_alive, PollEnds
  PROVE  StreamHolds'
<1>1. /\ pc = "poll" /\ pc' = "input" /\ FlushFrame
      /\ UNCHANGED <<attempts, framebuffer, host_phase, host_session, host_picture>>
  BY DEF PollEnds, backendVars, hostVars
<1>2. Moves /\ ~Over /\ NextSession = attempts
  BY <1>1 DEF Moves, PCs, Over, NextSession, Unconnected
<1>3. CASE framebuffer = None \/ dirty = {}
  <2>1. UNCHANGED <<mailbox, keyframe, dirty>>
    BY <1>1, <1>3 DEF FlushFrame
  <2> QED BY <1>1, <1>2, <2>1, QuietKeepsStream DEF mailbox, Streaming
<1>4. CASE framebuffer # None /\ dirty # {}
  <2>1. /\ framebuffer \in Frames({attempts}) /\ accepting /\ dirty' = {} /\ keyframe' = FALSE
        /\ Announced(control, host_session, attempts)
        /\ NotEnded(control, host_phase, host_session, attempts)
    BY <1>1, <1>2, <1>4 DEF StreamHolds, StreamTypes, StreamOrder, FlushFrame
  <2>2. PICK G : G = {attempts}
    OBVIOUS
  <2>3. /\ control' = control /\ accepting' = accepting
        /\ latest_frame' \in Frames({attempts}) \cup {None}
        /\ latest_delta' \in Deltas({attempts}) \cup {None}
        /\ PictureOrder'
    <3>1. CASE keyframe
      <4>1. Send(framebuffer) /\ framebuffer.kind = "Frame"
        BY <1>1, <1>4, <2>1, <3>1 DEF FlushFrame, Frames
      <4>2. control' = control /\ accepting' = accepting /\ latest_frame' = framebuffer /\ latest_delta' = None
        BY <2>1, <4>1, SendEffect
      <4>3. PendingBase' = framebuffer /\ PendingPicture' = framebuffer
        BY <1>4, <4>2 DEF PendingBase, PendingPicture
      <4>4. PictureOrder'
        BY <1>1, <2>1, <4>2, <4>3 DEF PictureOrder
      <4> QED BY <2>1, <4>2, <4>4
    <3>2. CASE ~keyframe
      <4> DEFINE update == Update(framebuffer.size, [c \in dirty |-> framebuffer.px[c]])
      <4>1. update \in Deltas(G) /\ update.kind = "Delta" /\ update.size = framebuffer.size
            /\ update.px = [c \in dirty |-> framebuffer.px[c]]
        <5>1. [c \in dirty |-> framebuffer.px[c]] \in DeltaPictures
          <6>1. framebuffer.px \in [Cells -> Pixels] /\ dirty \in SUBSET Cells
            BY <2>1 DEF Frames, FramePictures, StreamHolds, StreamTypes
          <6>2. [c \in dirty |-> framebuffer.px[c]] \in [dirty -> Pixels]
            BY <6>1
          <6> QED BY <6>1, <6>2 DEF DeltaPictures
        <5>2. framebuffer.size \in Sizes
          BY <2>1 DEF Frames
        <5> QED BY <2>2, <5>1, <5>2 DEF Update, Deltas
      <4>2. Send(update)
        BY <1>1, <1>4, <3>2 DEF FlushFrame
      <4> HIDE DEF update
      <4>3. /\ control' = control /\ accepting' = accepting /\ latest_frame' = latest_frame
            /\ latest_delta' = MergeDeltas(latest_delta, update)
        BY <2>1, <4>1, <4>2, SendEffect
      <4>4. latest_delta \in Deltas(G) \cup {None}
        BY <2>2 DEF StreamHolds, StreamTypes
      <4>5. latest_delta' \in Deltas(G) /\ latest_delta' # None /\ latest_delta'.size = framebuffer.size
        BY <4>1, <4>3, <4>4, MergeShape
      <4>6. /\ PendingBase \in Frames(G) /\ PendingBase.size = framebuffer.size
            /\ \A c \in Cells \ dirty : PendingPicture.px[c] = framebuffer.px[c]
            /\ latest_delta # None => latest_delta.size = framebuffer.size
        BY <1>4, <2>2, <3>2 DEF StreamHolds, PictureOrder
      <4>7. PendingBase' = PendingBase
        BY <1>1, <4>3 DEF PendingBase
      <4>8. \A c \in Cells : PendingPicture'.px[c] = framebuffer.px[c]
        <5> SUFFICES ASSUME NEW c \in Cells PROVE PendingPicture'.px[c] = framebuffer.px[c]
          OBVIOUS
        <5>1. PendingPicture' = Painted(PendingBase, latest_delta')
          <6>1. PendingPicture' = Painted(PendingBase', latest_delta')
            BY DEF PendingPicture, PendingBase, Painted
          <6> QED BY <4>7, <6>1
        <5>2. PendingPicture'.px[c] =
                IF c \in DOMAIN latest_delta'.px THEN latest_delta'.px[c] ELSE PendingBase.px[c]
          BY <4>5, <4>6, <5>1, PaintedShape
        <5>3. PendingPicture.px[c] =
                IF latest_delta # None /\ c \in DOMAIN latest_delta.px THEN latest_delta.px[c] ELSE PendingBase.px[c]
          BY <4>4, <4>6, PaintedShape, PendingIsPainted
        <5>4. /\ c \in DOMAIN latest_delta'.px <=>
                   c \in DOMAIN update.px \/ (latest_delta # None /\ c \in DOMAIN latest_delta.px)
              /\ c \in DOMAIN update.px => latest_delta'.px[c] = update.px[c]
              /\ c \notin DOMAIN update.px /\ latest_delta # None /\ c \in DOMAIN latest_delta.px =>
                   latest_delta'.px[c] = latest_delta.px[c]
          BY <4>1, <4>3, <4>4, <4>6, MergePaints
        <5>5. CASE c \in dirty
          BY <4>1, <5>2, <5>4, <5>5
        <5>6. CASE c \notin dirty
          BY <4>1, <4>6, <5>2, <5>3, <5>4, <5>6
        <5> QED BY <5>5, <5>6
      <4>9. PictureOrder'
        BY <1>1, <2>1, <2>2, <4>5, <4>6, <4>7, <4>8 DEF PictureOrder
      <4> QED BY <2>2, <4>3, <4>5, <4>9 DEF StreamHolds, StreamTypes
    <3> QED BY <3>1, <3>2
  <2>4. StreamTypes'
    BY <1>1, <2>1, <2>3 DEF StreamHolds, StreamTypes
  <2>5. StreamOrder'
    <3>1. ~Over' /\ NextSession' = attempts
      BY <1>1 DEF Over, NextSession
    <3>2. /\ InStep(control, host_phase, host_session, attempts) /\ host_session <= attempts
          /\ \A i \in DOMAIN control : control[i].kind # "ConnectionFailure"
          /\ Ready(control, host_phase, host_session, attempts)
          /\ host_phase # "ended" /\ (host_phase # "live" => host_picture = None)
      BY <1>2 DEF StreamHolds, StreamOrder
    <3> QED BY <1>1, <2>1, <2>3, <3>1, <3>2 DEF StreamOrder
  <2> QED BY <2>3, <2>4, <2>5 DEF StreamHolds
<1> QED BY <1>3, <1>4

\* The writer hands an output to the host.
LEMMA WriteControlKeepsStream ==
  ASSUME StreamHolds, WriteEvent, control # <<>>
  PROVE  StreamHolds'
<1> DEFINE event == Head(control)
<1>1. /\ control' = Tail(control) /\ HostReads(event)
      /\ UNCHANGED <<latest_frame, latest_delta, accepting, attempts, pc, framebuffer, keyframe, dirty>>
  BY DEF WriteEvent, Recv, RecvControl, RecvFrame, RecvDelta, Received, sessionVars, backendVars
<1>2. /\ control \in Seq(HelperControls) /\ attempts \in Nat /\ host_session \in Nat
      /\ InStep(control, host_phase, host_session, attempts) /\ host_session <= attempts
  BY DEF StreamHolds, StreamTypes, StreamOrder
<1>3. /\ event \in HelperControls /\ event.gen \in Nat /\ 1 \in DOMAIN control /\ event = control[1]
      /\ event.kind \in {"Status", "Connected", "ClipboardText", "ConnectionFailure", "Reconnecting"}
  <2>1. event \in HelperControls /\ 1 \in DOMAIN control /\ event = control[1]
    BY <1>2
  <2> HIDE DEF event
  <2> QED BY <2>1 DEF HelperControls
<1>4. /\ host_phase' = CASE event.kind = "Connected" -> "live"
                         [] event.kind = "Reconnecting" -> "idle"
                         [] event.kind = "ConnectionFailure" -> "ended"
                         [] OTHER -> host_phase
      /\ host_session' = SessionAfter(event, host_session)
      /\ host_picture' = IF event.kind \in {"Reconnecting", "ConnectionFailure"} THEN None ELSE host_picture
  <2> HIDE DEF event
  <2> QED BY <1>1, <1>3 DEF HostReads, SessionAfter, Barriers
<1> HIDE DEF event
<1>5. host_phase # "ended"
  BY DEF StreamHolds, StreamOrder, MailboxEmpty
<1>6. Over' = Over /\ NextSession' = NextSession /\ PicturePending' = PicturePending /\ NextSession \in Nat
  BY <1>1, <1>2 DEF Over, NextSession, PicturePending
<1>7. CASE event.kind = "ConnectionFailure"
  <2>1. 1 = Len(control) /\ Over /\ ~PicturePending
    BY <1>3, <1>7 DEF StreamHolds, StreamOrder
  <2>2. control' = <<>>
    BY <1>1, <1>2, <2>1
  <2>3. /\ host_phase' = "ended" /\ host_session' = host_session /\ host_picture' = None
        /\ latest_frame = None /\ latest_delta = None /\ framebuffer = None
    BY <1>4, <1>7, <2>1 DEF SessionAfter, PicturePending, StreamHolds, StreamOrder, Over
  <2>4. StreamTypes'
    BY <1>1, <2>2, <2>3 DEF StreamHolds, StreamTypes
  <2>5. StreamOrder'
    BY <1>1, <1>2, <1>6, <2>1, <2>2, <2>3 DEF StreamOrder, InStep, MailboxEmpty
  <2>6. PictureOrder'
    BY <1>1, <2>3 DEF PictureOrder
  <2> QED BY <2>4, <2>5, <2>6 DEF StreamHolds
<1>8. CASE event.kind # "ConnectionFailure"
  <2>1. host_phase' = PhaseAfter(event, host_phase)
    BY <1>3, <1>4, <1>8 DEF PhaseAfter
  <2>2. /\ control' \in Seq(HelperControls)
        /\ \A i \in DOMAIN control' : i \in Nat /\ i + 1 \in DOMAIN control /\ control'[i] = control[i + 1]
        /\ host_session' \in Nat /\ host_session <= host_session' /\ host_session' <= attempts
        /\ InStep(control', host_phase', host_session', attempts)
        /\ \A next \in Nat : Ready(control, host_phase, host_session, next) =>
                               Ready(control', host_phase', host_session', next)
        /\ \A next \in Nat : NotEnded(control, host_phase, host_session, next) =>
                               NotEnded(control', host_phase', host_session', next)
        /\ Announced(control, host_session, attempts) => Announced(control', host_session', attempts)
    <3>1. StaysInStep(control, host_phase, host_session, Tail(control),
                      PhaseAfter(event, host_phase), SessionAfter(event, host_session), attempts)
      BY <1>2, <1>8, TailKeepsStep DEF event
    <3>2. StaysInStep(control, host_phase, host_session, control', host_phase', host_session', attempts)
      BY <1>1, <1>4, <2>1, <3>1
    <3> QED BY <1>2, <3>2 DEF StaysInStep
  <2>3. \A i \in DOMAIN control' : control'[i].kind = "ConnectionFailure" => i = Len(control') /\ Over /\ ~PicturePending
    <3>1. Len(control') = Len(control) - 1 /\ Len(control) \in Nat
      BY <1>1, <1>2
    <3> SUFFICES ASSUME NEW i \in DOMAIN control', control'[i].kind = "ConnectionFailure"
                 PROVE  i = Len(control') /\ Over /\ ~PicturePending
      OBVIOUS
    <3>2. i \in Nat /\ i + 1 = Len(control) /\ Over /\ ~PicturePending
      BY <2>2 DEF StreamHolds, StreamOrder
    <3> QED BY <3>1, <3>2
  <2>4. /\ host_phase' \in {"idle", "live"}
        /\ host_phase' # "live" => host_picture' = None
        /\ host_picture' \in Frames({host_session'}) \cup {None}
    <3>1. host_phase \in {"idle", "live"} /\ (host_phase # "live" => host_picture = None)
          /\ host_picture \in Frames({host_session}) \cup {None}
      BY <1>5 DEF StreamHolds, StreamTypes, StreamOrder
    <3>2. CASE event.kind = "Connected"
      <4>1. host_phase' = "live" /\ host_picture' = host_picture /\ host_session' = event.gen
        BY <1>4, <2>1, <3>2 DEF PhaseAfter, SessionAfter
      <4>2. event.gen = host_session \/ host_phase = "idle"
        BY <1>2, <1>3, <3>2, ControlsInQueue DEF InStep
      <4> QED BY <3>1, <4>1, <4>2
    <3>3. CASE event.kind = "Reconnecting"
      BY <1>4, <2>1, <3>3 DEF PhaseAfter, SessionAfter
    <3>4. CASE event.kind \in {"Status", "ClipboardText"}
      BY <1>4, <2>1, <3>1, <3>4 DEF PhaseAfter, SessionAfter
    <3> QED BY <1>3, <1>8, <3>2, <3>3, <3>4
  <2>5. StreamTypes'
    BY <1>1, <2>2, <2>4 DEF StreamHolds, StreamTypes
  <2>6. StreamOrder'
    <3>1. /\ ~Over => /\ Ready(control', host_phase', host_session', NextSession)
                      /\ NotEnded(control', host_phase', host_session', NextSession)
      BY <1>6, <2>2 DEF StreamHolds, StreamOrder
    <3>2. /\ PicturePending => /\ NotEnded(control', host_phase', host_session', attempts)
                               /\ Announced(control', host_session', attempts)
                               /\ pc \notin {"start", "connecting", "waiting"}
          /\ framebuffer # None => /\ pc \in {"poll", "input", "refresh", "reconnect"} /\ accepting
                                   /\ Announced(control', host_session', attempts)
      BY <1>2, <2>2 DEF StreamHolds, StreamOrder
    <3>3. host_phase' # "ended"
      BY <2>4
    <3> QED BY <1>1, <1>6, <2>2, <2>3, <2>4, <3>1, <3>2, <3>3 DEF StreamOrder
  <2>7. PictureOrder'
    <3>1. CASE PendingBase \in Frames({attempts}) /\ (PicturePending \/ framebuffer # None)
      <4>1. latest_frame # None \/ host_picture' = host_picture
        <5> SUFFICES ASSUME latest_frame = None, event.kind = "Reconnecting" PROVE FALSE
          BY <1>3, <1>4, <1>8
        <5>1. host_picture \in Frames({attempts}) /\ host_picture # None
          BY <3>1 DEF PendingBase, Frames, None
        <5>2. host_session = attempts
          BY <5>1 DEF StreamHolds, StreamTypes, Frames
        <5>3. NotEnded(control, host_phase, host_session, attempts)
          BY <3>1 DEF StreamHolds, StreamOrder, NextSession, Over
        <5>4. event.gen < attempts /\ host_session <= event.gen
          BY <1>2, <1>3, <5>3 DEF NotEnded, InStep, Barriers
        <5> QED BY <1>2, <1>3, <5>2, <5>4
      <4>2. PendingBase' = PendingBase /\ PendingPicture' = PendingPicture
        BY <1>1, <4>1 DEF PendingBase, PendingPicture
      <4> QED BY <1>1, <4>2 DEF StreamHolds, PictureOrder
    <3>2. CASE ~(PendingBase \in Frames({attempts}) /\ (PicturePending \/ framebuffer # None))
      BY <1>1, <3>2 DEF StreamHolds, PictureOrder, PicturePending
    <3> QED BY <3>1, <3>2
  <2> QED BY <2>5, <2>6, <2>7 DEF StreamHolds
<1> QED BY <1>7, <1>8

\* With no control pending, the host shows the session whose picture is pending.
LEMMA PictureIsForTheHost ==
  ASSUME StreamHolds, control = <<>>, PicturePending
  PROVE  host_session = attempts /\ host_phase = "live"
<1>1. Announced(control, host_session, attempts) /\ NotEnded(control, host_phase, host_session, attempts)
  BY DEF StreamHolds, StreamOrder
<1> QED BY <1>1 DEF Announced, NotEnded

LEMMA WriteFrameKeepsStream ==
  ASSUME StreamHolds, WriteEvent, control = <<>>, latest_frame # None
  PROVE  /\ StreamHolds'
         /\ host_phase = "live" /\ host_picture' \in Frames({host_session})
         /\ UNCHANGED <<host_phase, host_session>>
<1>1. /\ latest_frame \in Frames({attempts}) /\ latest_frame.kind = "Frame"
      /\ host_session = attempts /\ host_phase = "live"
  BY PictureIsForTheHost DEF StreamHolds, StreamTypes, PicturePending, Frames
<1>2. /\ latest_frame' = None /\ HostReads(latest_frame)
      /\ UNCHANGED <<control, latest_delta, accepting, attempts, pc, framebuffer, keyframe, dirty>>
  BY DEF WriteEvent, Recv, RecvControl, RecvFrame, RecvDelta, Received, sessionVars, backendVars
<1>3. host_phase' = host_phase /\ host_session' = host_session /\ host_picture' = latest_frame
  BY <1>1, <1>2 DEF HostReads, Barriers
<1>4. StreamTypes'
  BY <1>1, <1>2, <1>3 DEF StreamHolds, StreamTypes
<1>5. StreamOrder'
  <2>1. Over' = Over /\ NextSession' = NextSession /\ (PicturePending' => PicturePending)
    BY <1>2 DEF Over, NextSession, PicturePending
  <2> QED BY <1>1, <1>2, <1>3, <2>1 DEF StreamHolds, StreamOrder
<1>6. PictureOrder'
  <2>1. PendingBase' = PendingBase /\ PendingPicture' = PendingPicture
    BY <1>2, <1>3 DEF PendingBase, PendingPicture
  <2> QED BY <1>2, <2>1 DEF StreamHolds, PictureOrder
<1> QED BY <1>1, <1>3, <1>4, <1>5, <1>6 DEF StreamHolds

LEMMA WriteDeltaKeepsStream ==
  ASSUME StreamHolds, WriteEvent, control = <<>>, latest_frame = None
  PROVE  /\ StreamHolds'
         /\ host_phase = "live" /\ host_picture' \in Frames({host_session})
         /\ UNCHANGED <<host_phase, host_session>>
<1>1. latest_delta # None /\ latest_delta' = None /\ HostReads(latest_delta)
      /\ UNCHANGED <<control, latest_frame, accepting, attempts, pc, framebuffer, keyframe, dirty>>
  BY DEF WriteEvent, Recv, RecvControl, RecvFrame, RecvDelta, Received, sessionVars, backendVars
<1>2. PICK G : G = {attempts}
  OBVIOUS
<1>3. /\ latest_delta \in Deltas(G) /\ latest_delta.kind = "Delta" /\ latest_delta.gen = attempts
      /\ host_session = attempts /\ host_phase = "live"
  BY <1>1, <1>2, PictureIsForTheHost DEF StreamHolds, StreamTypes, PicturePending, Deltas
<1>4. PendingBase = host_picture /\ host_picture \in Frames(G) /\ host_picture.size = latest_delta.size
  BY <1>1, <1>2 DEF StreamHolds, PictureOrder, PendingBase
<1>5. host_picture # None /\ host_picture.kind = "Frame" /\ host_picture.gen = attempts
  BY <1>2, <1>4 DEF Frames, None
<1>6. host_phase' = host_phase /\ host_session' = host_session /\ host_picture' = HostPaints(latest_delta)
  BY <1>1, <1>3 DEF HostReads, Barriers
<1>7. host_picture' = Painted(host_picture, latest_delta)
  BY <1>1, <1>3, <1>4, <1>5, <1>6 DEF HostPaints, Painted
<1>8. host_picture' \in Frames(G) /\ host_picture'.size = host_picture.size /\ host_picture' # None
  BY <1>3, <1>4, <1>7, PaintedShape
<1>9. StreamTypes'
  BY <1>1, <1>2, <1>3, <1>6, <1>8 DEF StreamHolds, StreamTypes
<1>10. StreamOrder'
  <2>1. Over' = Over /\ NextSession' = NextSession /\ ~PicturePending'
    BY <1>1 DEF Over, NextSession, PicturePending
  <2> QED BY <1>1, <1>3, <1>6, <2>1 DEF StreamHolds, StreamOrder
<1>11. PictureOrder'
  <2>1. PendingPicture = Painted(host_picture, latest_delta)
    BY <1>4, PendingIsPainted
  <2>2. PendingBase' = host_picture' /\ PendingPicture' = host_picture'
    BY <1>1 DEF PendingBase, PendingPicture
  <2>3. PendingPicture' = PendingPicture
    BY <1>7, <2>1, <2>2
  <2> QED BY <1>1, <1>2, <1>4, <1>8, <2>2, <2>3 DEF StreamHolds, PictureOrder
<1> QED BY <1>2, <1>3, <1>6, <1>8, <1>9, <1>10, <1>11 DEF StreamHolds

LEMMA StreamInvInit == HelperInit => StreamInv
<1> SUFFICES ASSUME HelperInit PROVE StreamInv
  OBVIOUS
<1> USE DEF HelperInit, MailboxInit
<1>1. WakeupInv
  BY WakeupInit
<1>2. StreamTypes
  BY DEF StreamTypes
<1>3. StreamOrder
  BY DEF StreamOrder, InStep, Ready, NotEnded, Over, NextSession, PicturePending
<1>4. PictureOrder
  BY DEF PictureOrder
<1> QED BY <1>1, <1>2, <1>3, <1>4 DEF StreamInv

LEMMA StreamInvStep == StreamInv /\ [Next]_vars => StreamInv'
<1> SUFFICES ASSUME StreamInv, [Next]_vars, writer' = "running" PROVE StreamHolds'
  BY WakeupStep DEF StreamInv, StreamHolds
<1>1. writer = "running" /\ UNCHANGED writer
  BY DEF Next, HostStep, StdinEnds, ReadRequest, Exit, ConnectReturns, ConnectFailsTerminally, ConnectFails,
         Connect, SessionStep, StartSession, PollEvents, SetResolution, PatchRect, CopyRect, CutText, JpegImage,
         IgnoredEvent, PollFails, PollEnds, TakeEvent, InputsClose, InputsHandled, InputFails, RefreshDone,
         RefreshFails, Reconnect, WaitStops, WaitContinues, SessionThreadExits, WriterStep, WriteEvent,
         WriterWaits, WriterEnds, Exited, vars, mainVars
<1>2. StreamHolds /\ receiver_alive
  BY <1>1 DEF StreamInv, StreamHolds, WakeupInv
<1>3. CASE HostStep \/ WriterWaits \/ Exited \/ UNCHANGED vars \/ Exit
  <2>1. UNCHANGED <<control, latest_frame, latest_delta, accepting, attempts, pc, framebuffer, keyframe, dirty,
                    host_phase, host_session, host_picture>>
    BY <1>1, <1>3 DEF HostStep, StdinEnds, ReadRequest, WriterWaits, RecvWait, Exited, Exit, vars, mailbox,
                sessionVars, backendVars, hostVars
  <2>2. Moves
    BY <1>2, <2>1 DEF Moves, Over, NextSession, StreamHolds, StreamTypes, PCs
  <2>3. framebuffer = None \/ pc' \in Streaming
    BY <1>2, <2>1 DEF StreamHolds, StreamOrder, Streaming
  <2> QED BY <1>2, <2>1, <2>2, <2>3, QuietKeepsStream
<1>4. CASE ConnectReturns
  <2>1. CASE ConnectFails
    <3>1. /\ pc = "connecting" /\ pc' = "reconnect"
          /\ UNCHANGED <<control, latest_frame, latest_delta, accepting, attempts, framebuffer, keyframe, dirty,
                         host_phase, host_session, host_picture>>
      BY <2>1 DEF ConnectFails, mailbox, backendVars, hostVars
    <3>2. Moves
      BY <3>1 DEF Moves, Over, NextSession, PCs, Unconnected
    <3> QED BY <1>2, <3>1, <3>2, QuietKeepsStream DEF Streaming
  <2> QED BY <1>2, <1>4, <2>1, EndKeepsStream, ConnectKeepsStream DEF ConnectReturns
<1>5. CASE PollEvents
  <2>1. CASE IgnoredEvent \/ PollFails
    <3>1. /\ pc = "poll" /\ pc' \in {"poll", "reconnect"}
          /\ UNCHANGED <<control, latest_frame, latest_delta, accepting, attempts, framebuffer, keyframe, dirty,
                         host_phase, host_session, host_picture>>
      BY <2>1 DEF IgnoredEvent, PollFails, TakeEvent, mailbox, backendVars, hostVars, sessionVars
    <3>2. Moves
      BY <3>1 DEF Moves, Over, NextSession, PCs, Unconnected
    <3> QED BY <1>2, <3>1, <3>2, QuietKeepsStream DEF Streaming
  <2>2. CASE \E dst, src \in Cells : CopyRect(dst, src)
    <3>1. PICK dst, src \in Cells : CopyRect(dst, src)
      BY <2>2
    <3>2. framebuffer.px[src] \in Pixels
      <4>1. framebuffer \in Frames({attempts})
        BY <1>2, <3>1 DEF CopyRect, StreamHolds, StreamTypes
      <4> QED BY <4>1 DEF Frames, FramePictures
    <3> QED BY <1>2, <3>1, <3>2, PatchKeepsStream DEF CopyRect
  <2> QED BY <1>2, <1>5, <2>1, <2>2, PatchKeepsStream, AnnounceKeepsStream, FlushKeepsStream DEF PollEvents
<1>6. CASE InputsClose \/ InputFails \/ WaitStops \/ WaitContinues \/ InputsHandled \/ RefreshDone \/ RefreshFails
  <2>1. /\ \/ pc = "input" /\ pc' \in {"exit", "refresh", "reconnect"}
           \/ pc = "waiting" /\ pc' \in {"exit", "waiting", "start"}
           \/ pc = "refresh" /\ pc' \in {"poll", "reconnect"}
        /\ UNCHANGED <<control, latest_frame, latest_delta, accepting, attempts,
                       host_phase, host_session, host_picture>>
        /\ \/ framebuffer' = None /\ dirty' = {}
           \/ UNCHANGED <<framebuffer, keyframe, dirty>> /\ (pc = "waiting" \/ pc' \in Streaming)
    BY <1>6 DEF InputsClose, InputFails, WaitStops, WaitContinues, InputsHandled, RefreshDone, RefreshFails,
                DropSession, mailbox, backendVars, hostVars, sessionVars, Streaming
  <2>2. Moves
    BY <2>1 DEF Moves, Over, NextSession, PCs, Unconnected
  <2>3. pc = "waiting" => framebuffer = None
    BY <1>2 DEF StreamHolds, StreamOrder
  <2> QED BY <1>2, <2>1, <2>2, <2>3, QuietKeepsStream
<1>7. CASE SessionThreadExits
  <2>1. /\ pc = "exit" /\ pc' = "dead"
        /\ UNCHANGED <<control, latest_frame, latest_delta, accepting, attempts, framebuffer, keyframe, dirty,
                       host_phase, host_session, host_picture>>
    BY <1>7 DEF SessionThreadExits, DropSender, backendVars, hostVars, sessionVars
  <2>2. Moves
    BY <2>1 DEF Moves, Over, NextSession, PCs, Unconnected
  <2>3. framebuffer = None
    BY <1>2, <2>1 DEF StreamHolds, StreamOrder
  <2> QED BY <1>2, <2>1, <2>2, <2>3, QuietKeepsStream
<1>8. CASE WriteEvent
  BY <1>2, <1>8, WriteControlKeepsStream, WriteFrameKeepsStream, WriteDeltaKeepsStream
<1>9. ~WriterEnds
  BY DEF WriterEnds
<1> QED BY <1>2, <1>3, <1>4, <1>5, <1>6, <1>7, <1>8, <1>9, StartSessionKeepsStream, EndKeepsStream
        DEF Next, SessionStep, WriterStep

\* Coalescing loses no update, at any moment and in whatever order events, flushes,
\* reconnects and the writer's reads come: what the host holds, overpainted with the
\* pending frame and the pending merged update, is the framebuffer outside the
\* rectangles that still wait for the flush.
THEOREM VncPictureInSync == Spec => []PictureInSync
<1>1. StreamInv => PictureInSync
  <2> SUFFICES ASSUME StreamInv, framebuffer # None, ~keyframe, writer = "running"
               PROVE  /\ PendingPicture # None /\ PendingPicture.size = framebuffer.size
                      /\ PendingPicture.gen = framebuffer.gen
                      /\ \A c \in Cells \ dirty : PendingPicture.px[c] = framebuffer.px[c]
    BY DEF PictureInSync
  <2>1. PICK G : G = {attempts}
    OBVIOUS
  <2>2. /\ PendingBase \in Frames(G) /\ PendingBase.size = framebuffer.size
        /\ latest_delta \in Deltas(G) \cup {None} /\ framebuffer \in Frames(G)
        /\ \A c \in Cells \ dirty : PendingPicture.px[c] = framebuffer.px[c]
    BY <2>1 DEF StreamInv, StreamTypes, PictureOrder
  <2>3. PendingBase.gen = framebuffer.gen
    BY <2>1, <2>2 DEF Frames
  <2> QED BY <2>2, <2>3, PendingIsPainted, PaintedShape
<1> QED BY StreamInvInit, StreamInvStep, <1>1, PTL DEF Spec
-----------------------------------------------------------------------------
(* What the host observes *)

LEMMA StreamStarts == HelperInit => Stream!Init
BY DEF HelperInit, Stream!Init

LEMMA WriteIsStreamStep ==
  ASSUME StreamHolds, WriteEvent
  PROVE  Stream!Next \/ UNCHANGED <<host_phase, host_session, host_picture>>
<1>1. CASE control # <<>>
  <2>1. PICK event : event = Head(control)
    OBVIOUS
  <2>2. HostReads(event)
    BY <1>1, <2>1 DEF WriteEvent, Received
  <2>3. /\ control \in Seq(HelperControls) /\ event = control[1] /\ 1 \in DOMAIN control
        /\ DOMAIN control = 1..Len(control) /\ event \in HelperControls
    BY <1>1, <2>1 DEF StreamHolds, StreamTypes
  <2>4. /\ event.gen \in Nat /\ host_session \in Nat
        /\ event.kind \in {"Status", "Connected", "ClipboardText", "ConnectionFailure", "Reconnecting"}
    BY <2>3 DEF HelperControls, StreamHolds, StreamTypes
  <2>5. host_phase \in {"idle", "live"} /\ (host_phase # "live" => host_picture = None)
    BY <1>1 DEF StreamHolds, StreamTypes, StreamOrder, MailboxEmpty
  <2>6. CASE event.kind = "Connected"
    <3>1. host_phase' = "live" /\ host_session' = event.gen /\ host_picture' = host_picture
      BY <2>2, <2>6 DEF HostReads, Barriers
    <3>2. \/ event.gen = host_session /\ host_phase = "live"
          \/ event.gen > host_session /\ host_phase = "idle"
      <4>1. ~ \E k \in DOMAIN control : k < 1
        BY <2>3
      <4> QED BY <2>3, <2>6, <4>1 DEF StreamHolds, StreamOrder, InStep
    <3>3. CASE event.gen = host_session /\ host_phase = "live"
      BY <3>1, <3>3
    <3>4. CASE event.gen > host_session /\ host_phase = "idle"
      BY <2>4, <3>1, <3>4 DEF Stream!Next, Stream!Connected
    <3> QED BY <3>2, <3>3, <3>4
  <2>7. CASE event.kind = "Reconnecting"
    <3>1. host_phase' = "idle" /\ host_session' = host_session /\ host_picture' = None
      BY <2>2, <2>7 DEF HostReads, Barriers
    <3> QED BY <2>5, <3>1 DEF Stream!Next, Stream!Lost
  <2>8. CASE event.kind = "ConnectionFailure"
    <3>1. host_phase' = "ended" /\ host_session' = host_session /\ host_picture' = None
      BY <2>2, <2>8 DEF HostReads, Barriers
    <3> QED BY <3>1 DEF Stream!Next, Stream!Failed
  <2>9. CASE event.kind \in {"Status", "ClipboardText"}
    BY <2>2, <2>9 DEF HostReads, Barriers
  <2> QED BY <2>4, <2>6, <2>7, <2>8, <2>9
<1>2. CASE control = <<>>
  <2>1. /\ host_phase = "live" /\ host_picture' \in Frames({host_session})
        /\ UNCHANGED <<host_phase, host_session>>
    BY <1>2, WriteFrameKeepsStream, WriteDeltaKeepsStream
  <2> QED BY <2>1 DEF Stream!Next, Stream!Repaint
<1> QED BY <1>1, <1>2

LEMMA StepIsStreamStep ==
  StreamInv /\ [Next]_vars => [Stream!Next]_<<host_phase, host_session, host_picture>>
<1> SUFFICES ASSUME StreamInv, [Next]_vars
             PROVE  Stream!Next \/ UNCHANGED <<host_phase, host_session, host_picture>>
  OBVIOUS
<1>1. CASE WriteEvent
  <2>1. StreamHolds
    BY <1>1 DEF WriteEvent, StreamInv, StreamHolds
  <2> QED BY <1>1, <2>1, WriteIsStreamStep
<1>2. CASE Exit
  BY <1>2 DEF Exit, Stream!Next, Stream!Failed
<1>3. CASE HostStep \/ ConnectReturns \/ SessionStep \/ WriterWaits \/ WriterEnds \/ Exited \/ UNCHANGED vars
  BY <1>3 DEF HostStep, StdinEnds, ReadRequest, ConnectReturns, ConnectFailsTerminally, ConnectFails,
         Connect, SessionStep, StartSession, PollEvents, SetResolution, PatchRect, CopyRect, CutText, JpegImage,
         IgnoredEvent, PollFails, PollEnds, TakeEvent, InputsClose, InputsHandled, InputFails, RefreshDone,
         RefreshFails, Reconnect, WaitStops, WaitContinues, SessionThreadExits,
         WriterWaits, WriterEnds, Exited, vars, hostVars
<1> QED BY <1>1, <1>2, <1>3 DEF Next, WriterStep

\* The helper implements the desktop stream: every event the host reads on stdout
\* is a step the stream allows, so the picture it shows is only ever built from
\* frames and updates of the session that is live, through every reconnect.
THEOREM VncImplementsStream == Spec => StreamSpec
BY StreamStarts, StepIsStreamStep, StreamInvInit, StreamInvStep, PTL DEF Spec, StreamSpec, Stream!Spec
=============================================================================
