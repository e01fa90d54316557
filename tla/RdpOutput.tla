------------------------------- MODULE RdpOutput -------------------------------
(***************************************************************************)
(* The way of a picture through the RDP helper: the RDP client's bounded   *)
(* channel, the task that collapses complete images and maps events, the   *)
(* mailbox, the writer of stdout and the host; and the end of the process, *)
(* which is the end of that chain.  A picture is a function from cells to  *)
(* pixels, an update one over some of the cells.                           *)
(*                                                                         *)
(* External: the RDP client (it sends a complete image before the regions  *)
(* of a session or of a size, and ends some time after it is asked to), the*)
(* host that reads stdout and closes stdin, time.                          *)
(***************************************************************************)
EXTENDS Naturals, FiniteSets, Sequences

CONSTANTS Cells, Pixels, DesktopSizes,
          Cursors,         \* cursor shapes and positions, numbers from 1
          Bitmaps,         \* the shapes that are pictures, not the default or the hidden pointer
          Capacity,        \* of the client's channel
          Settle, Latency, \* FRAME_SETTLE_INTERVAL, MAX_FRAME_PRESENTATION_LATENCY
          MaxEvents,       \* events of the client
          Endless          \* whether images are not counted, and come without end

\* What the constants are.
ASSUME OutputAssumption ==
  /\ Capacity \in Nat \ {0} /\ Settle \in 1..8 /\ Latency \in 1..8
  /\ Cursors \subseteq Nat \ {0} /\ Bitmaps \subseteq Cursors /\ 0 \notin DesktopSizes /\ Endless \in BOOLEAN

VARIABLES remote,    \* the desktop as the client has it (external)
          sent,      \* events the client has sent
          link,      \* the client's channel
          client,    \* "up" or "ended"
          mapper,    \* RdpOutputMapper
          pending_image,
          timer,     \* FramePresentationSchedule: ticks left
          out,       \* mapped events still to be put into the mailbox
          mapping,   \* the task runs
          box,       \* State of the mailbox
          main,      \* "reading", "closing" or "exited"
          host       \* what the host has made of stdout

outVars == <<remote, sent, link, client, mapper, pending_image, timer, out, mapping, box, main, host>>
clientVars == <<remote, sent, client>>
taskVars == <<mapper, pending_image, timer, mapping>>

NoPicture == [kind |-> "none"]
Off == 9
CursorKinds == {"shape", "position"}
Terminals == {"failure", "terminated"}
Merged(base, px) == [c \in DOMAIN base \cup DOMAIN px |-> IF c \in DOMAIN px THEN px[c] ELSE base[c]]
-----------------------------------------------------------------------------
(* The mapper *)

NewMapper == [connected |-> FALSE, size |-> 0, shape |-> 0, position |-> 0]

\* map_cursor, and record: before Connected only the latest of each is kept.
MapCursor(m, e) ==
  IF m.connected THEN [m |-> m, out |-> <<e>>]
  ELSE [m |-> IF e.kind = "shape" THEN [m EXCEPT !.shape = e.v] ELSE [m EXCEPT !.position = e.v], out |-> <<>>]

\* append_to: the appearance, then the position.
HeldCursor(m) ==
  (IF m.shape = 0 THEN <<>> ELSE <<[kind |-> "shape", v |-> m.shape]>>)
    \o (IF m.position = 0 THEN <<>> ELSE <<[kind |-> "position", v |-> m.position]>>)

MapImage(m, e) ==
  LET frame == <<[kind |-> "frame", size |-> e.size, px |-> e.px]>> IN
  IF m.connected THEN [m |-> [m EXCEPT !.size = e.size], out |-> frame]
  ELSE [m |-> [connected |-> TRUE, size |-> e.size, shape |-> 0, position |-> 0],
        out |-> <<[kind |-> "connected", size |-> e.size]>> \o HeldCursor(m) \o frame]

\* A region without its base, of another size, or malformed, is left out.
MapRegion(m, e) ==
  [m |-> m, out |-> IF m.connected /\ m.size = e.size /\ e.wellFormed
                    THEN <<[kind |-> "delta", size |-> e.size, px |-> e.px]>> ELSE <<>>]

Map(m, e) ==
  CASE e.kind = "image" -> MapImage(m, e)
    [] e.kind = "region" -> MapRegion(m, e)
    [] e.kind \in CursorKinds -> MapCursor(m, e)
    [] e.kind = "fallback" -> [m |-> NewMapper, out |-> <<[kind |-> "reconnecting"]>>]
    [] e.kind \in Terminals -> [m |-> NewMapper, out |-> <<e>>]
    [] OTHER -> [m |-> m, out |-> <<>>]
-----------------------------------------------------------------------------
(* The mailbox *)

\* retain: the places of the events that are kept, and these in their order.
KeptEvents(control) == {i \in DOMAIN control : control[i].kind \notin CursorKinds}
KeptOrder(control) ==
  CHOOSE place \in [1..Cardinality(KeptEvents(control)) -> KeptEvents(control)] :
    \A i, j \in DOMAIN place : i < j => place[i] < place[j]

DiscardPendingCursorEvents(control) == [i \in 1..Cardinality(KeptEvents(control)) |-> control[KeptOrder(control)[i]]]

\* A position replaces one, and a picture of a cursor one, at the end of the queue.
Replaces(e, last) == e.kind = last.kind /\ (e.kind = "position" \/ (e.kind = "shape" /\ {e.v, last.v} \subseteq Bitmaps))

EnqueueControl(control, e) ==
  IF control # <<>> /\ Replaces(e, control[Len(control)])
  THEN [control EXCEPT ![Len(control)] = e] ELSE Append(control, e)

MergeDeltas(previous, next) ==
  IF previous # NoPicture /\ previous.size = next.size
  THEN [next EXCEPT !.px = Merged(previous.px, next.px)] ELSE next

Send(b, e) ==
  CASE e.kind = "frame" -> [b EXCEPT !.frame = e, !.delta = NoPicture]
    [] e.kind = "delta" -> [b EXCEPT !.delta = MergeDeltas(@, e)]
    [] e.kind \in Terminals -> [b EXCEPT !.frame = NoPicture, !.delta = NoPicture,
                                         !.control = Append(DiscardPendingCursorEvents(@), e)]
    [] e.kind = "reconnecting" -> [b EXCEPT !.control = Append(DiscardPendingCursorEvents(@), e)]
    [] OTHER -> [b EXCEPT !.control = EnqueueControl(@, e)]

BoxEmpty(b) == b.control = <<>> /\ b.frame = NoPicture /\ b.delta = NoPicture
-----------------------------------------------------------------------------
NewBox == [control |-> <<>>, frame |-> NoPicture, delta |-> NoPicture,
           senders |-> {"mapper", "controller", "backend"}, alive |-> TRUE]
NoTimer == [settle |-> Off, latency |-> Off]

OutInit == /\ remote = [px |-> [c \in Cells |-> 0], size |-> 0, shape |-> 0, position |-> 0, base |-> FALSE]
        /\ sent = 0 /\ link = <<>> /\ client = "up" /\ mapper = NewMapper /\ pending_image = NoPicture
        /\ timer = NoTimer /\ out = <<>> /\ mapping = TRUE /\ box = NewBox /\ main = "reading"
        /\ host = [px |-> [c \in Cells |-> 0], size |-> 0, shape |-> 0, position |-> 0,
                   open |-> FALSE, ended |-> FALSE, faults |-> {}]
-----------------------------------------------------------------------------
(* The client *)

Offer(e) == /\ client = "up" /\ mapping /\ Len(link) < Capacity /\ sent < MaxEvents
            /\ (Endless => e.kind \in Terminals \cup {"image"})
            /\ link' = Append(link, e) /\ sent' = IF Endless THEN sent ELSE sent + 1
            /\ UNCHANGED <<taskVars, out, box, main, host>>

ClientImage == \E size \in DesktopSizes, px \in [Cells -> Pixels] :
  /\ remote' = [remote EXCEPT !.px = px, !.size = size, !.base = TRUE]
  /\ Offer([kind |-> "image", size |-> size, px |-> px]) /\ UNCHANGED client

ClientRegion == \E c \in Cells, v \in Pixels :
  /\ remote.base /\ remote' = [remote EXCEPT !.px[c] = v]
  /\ Offer([kind |-> "region", size |-> remote.size, px |-> [x \in {c} |-> v], wellFormed |-> TRUE])
  /\ UNCHANGED client

\* A region that does not fit, or of a size the desktop no longer has.
ClientMalformedRegion == \E size \in DesktopSizes, px \in [Cells -> Pixels] :
  /\ Offer([kind |-> "region", size |-> size, px |-> px, wellFormed |-> size # remote.size])
  /\ UNCHANGED <<remote, client>>

ClientCursor == \E kind \in CursorKinds, v \in Cursors :
  /\ remote' = IF kind = "shape" THEN [remote EXCEPT !.shape = v] ELSE [remote EXCEPT !.position = v]
  /\ Offer([kind |-> kind, v |-> v]) /\ UNCHANGED client

\* The session is set up again for a new size.
ClientFallback ==
  /\ remote' = [remote EXCEPT !.shape = 0, !.position = 0, !.base = FALSE]
  /\ Offer([kind |-> "fallback"]) /\ UNCHANGED client

ClientSessionEnds == \E kind \in Terminals :
  /\ Offer([kind |-> kind]) /\ client' = "ending" /\ UNCHANGED remote

\* client.run() returns: its channel closes and its clipboard backend goes.
ClientStops ==
  /\ client = "ending" \/ (client = "up" /\ (main = "closing" \/ ~mapping))
  /\ client' = "ended" /\ box' = [box EXCEPT !.senders = @ \ {"backend"}]
  /\ UNCHANGED <<remote, sent, link, taskVars, out, main, host>>

\* The clipboard's thread sends on its own.
ClipboardEvent ==
  /\ client = "up" /\ box.alive /\ sent < MaxEvents /\ ~Endless /\ sent' = sent + 1
  /\ box' = Send(box, [kind |-> "clipboard"])
  /\ UNCHANGED <<remote, link, client, taskVars, out, main, host>>
-----------------------------------------------------------------------------
(* map_output_events *)

\* Mutant: every image starts the longest wait anew.
RecordImageRestarts(t) == [settle |-> Settle, latency |-> Latency]
RecordImage(t) == [settle |-> Settle, latency |-> IF t.latency = Off THEN Latency ELSE t.latency]

IsDue(t) == t.settle = 0 \/ t.latency = 0

\* publish_output_event, for an event or for no image.
PublishOutputEvent(acc, e) ==
  IF e = NoPicture THEN acc ELSE LET r == Map(acc.m, e) IN [m |-> r.m, out |-> acc.out \o r.out]

Publish(first, second) ==
  LET done == PublishOutputEvent(PublishOutputEvent([m |-> mapper, out |-> <<>>], first), second)
  IN mapper' = done.m /\ out' = done.out

FlushPendingImage == Publish(pending_image, NoPicture) /\ pending_image' = NoPicture /\ timer' = NoTimer

\* Mutant: a region does not wait for the image before it.
HandleEventRegionsFirst(e) ==
  LET image == e.kind = "image"  passing == e.kind \in CursorKinds \cup {"region"} IN
  [pending |-> IF image THEN e ELSE IF passing THEN pending_image ELSE NoPicture,
   timer |-> IF image THEN RecordImage(timer) ELSE IF passing THEN timer ELSE NoTimer,
   first |-> IF image THEN NoPicture ELSE IF passing THEN e ELSE pending_image,
   second |-> IF image \/ passing THEN NoPicture ELSE e]

\* What an event leaves pending, and what is published: an image only waits, a
\* cursor passes it, anything else is preceded by it.
HandleEvent(e) ==
  LET image == e.kind = "image"  passing == e.kind \in CursorKinds IN
  [pending |-> IF image THEN e ELSE IF passing THEN pending_image ELSE NoPicture,
   timer |-> IF image THEN RecordImage(timer) ELSE IF passing THEN timer ELSE NoTimer,
   first |-> IF image THEN NoPicture ELSE IF passing THEN e ELSE pending_image,
   second |-> IF image \/ passing THEN NoPicture ELSE e]

\* A turn of the loop with an event; what is due afterwards is flushed.
MapEvent ==
  /\ mapping /\ out = <<>> /\ link # <<>> /\ link' = Tail(link)
  /\ LET h == HandleEvent(Head(link))
         due == h.pending # NoPicture /\ IsDue(h.timer)
     IN /\ Publish(h.first, IF due THEN h.pending ELSE h.second)
        /\ pending_image' = IF due THEN NoPicture ELSE h.pending
        /\ timer' = IF due THEN NoTimer ELSE h.timer
  /\ UNCHANGED <<clientVars, mapping, box, main, host>>

\* The select is biased: the deadline is looked at when no event waits.
PresentDue ==
  /\ mapping /\ out = <<>> /\ link = <<>> /\ IsDue(timer) /\ FlushPendingImage
  /\ UNCHANGED <<clientVars, link, mapping, box, main, host>>

\* The channel is closed and empty: the last image, then the task ends.
MapperDrains ==
  /\ mapping /\ out = <<>> /\ link = <<>> /\ client = "ended"
  /\ IF pending_image # NoPicture
     THEN FlushPendingImage /\ UNCHANGED <<mapping, box>>
     ELSE /\ mapping' = FALSE /\ box' = [box EXCEPT !.senders = @ \ {"mapper"}]
          /\ UNCHANGED <<mapper, out, pending_image, timer>>
  /\ UNCHANGED <<clientVars, link, main, host>>

\* One send; when the writer is gone the task ends with an error.
SendOut ==
  /\ mapping /\ out # <<>>
  /\ IF box.alive
     THEN box' = Send(box, Head(out)) /\ out' = Tail(out) /\ UNCHANGED <<mapping, link>>
     ELSE /\ mapping' = FALSE /\ out' = <<>> /\ link' = <<>>
          /\ box' = [box EXCEPT !.senders = @ \ {"mapper"}]
  /\ UNCHANGED <<clientVars, mapper, pending_image, timer, main, host>>

Tick ==
  /\ timer.settle # Off
  /\ timer' = [settle |-> IF timer.settle = 0 THEN 0 ELSE timer.settle - 1,
               latency |-> IF timer.latency = 0 THEN 0 ELSE timer.latency - 1]
  /\ UNCHANGED <<clientVars, link, mapper, pending_image, out, mapping, box, main, host>>
-----------------------------------------------------------------------------
(* The writer and the host *)

Fault(name, bad) == IF bad THEN {name} ELSE {}

HostReads(e) ==
  host' = CASE e.kind = "connected" -> [host EXCEPT !.open = TRUE, !.faults = @ \cup Fault("late", host.ended)]
            [] e.kind = "reconnecting" -> [host EXCEPT !.open = FALSE, !.faults = @ \cup Fault("late", host.ended)]
            [] e.kind \in Terminals -> [host EXCEPT !.open = FALSE, !.ended = TRUE]
            [] e.kind = "frame" -> [host EXCEPT !.px = e.px, !.size = e.size,
                                                !.faults = @ \cup Fault("late", host.ended)]
            [] e.kind = "delta" -> [host EXCEPT !.px = Merged(@, e.px),
                                                !.faults = @ \cup Fault("late", host.ended)
                                                             \cup Fault("delta", host.size # e.size)]
            [] e.kind = "shape" -> [host EXCEPT !.shape = e.v, !.faults = @ \cup Fault("cursor", ~host.open)]
            [] e.kind = "position" -> [host EXCEPT !.position = e.v, !.faults = @ \cup Fault("cursor", ~host.open)]
            [] OTHER -> host

\* recv, then write_event: control first, then the frame, then the update.
ReceiveOutput ==
  /\ box.alive /\ ~BoxEmpty(box)
  /\ CASE box.control # <<>> -> HostReads(Head(box.control)) /\ box' = [box EXCEPT !.control = Tail(@)]
       [] box.control = <<>> /\ box.frame # NoPicture -> HostReads(box.frame) /\ box' = [box EXCEPT !.frame = NoPicture]
       [] OTHER -> HostReads(box.delta) /\ box' = [box EXCEPT !.delta = NoPicture]
  /\ UNCHANGED <<clientVars, link, taskVars, out, main>>

\* recv returns None: every sender is gone and nothing is left.
WriterEnds ==
  /\ box.alive /\ BoxEmpty(box) /\ box.senders = {}
  /\ box' = [box EXCEPT !.alive = FALSE]
  /\ UNCHANGED <<clientVars, link, taskVars, out, main, host>>

\* The host has closed stdout: the receiver is dropped with all it holds.
WriteFails ==
  /\ box.alive /\ ~BoxEmpty(box)
  /\ box' = [NewBox EXCEPT !.senders = box.senders, !.alive = FALSE]
  /\ UNCHANGED <<clientVars, link, taskVars, out, main, host>>

\* Mutant: the client thread is joined while the controller is held.
CloseKeepsController ==
  /\ main = "reading" /\ main' = "closing" /\ UNCHANGED <<clientVars, link, taskVars, out, box, host>>

\* Close, the end of stdin or a bad line: shutdown, which drops the controller.
Close ==
  /\ main = "reading" /\ main' = "closing"
  /\ box' = [box EXCEPT !.senders = @ \ {"controller"}]
  /\ UNCHANGED <<clientVars, link, taskVars, out, host>>

\* The client's thread and the writer's are joined.
Exit ==
  /\ main = "closing" /\ client = "ended" /\ ~mapping /\ ~box.alive /\ main' = "exited"
  /\ UNCHANGED <<clientVars, link, taskVars, out, box, host>>

OutNext == \/ ClientImage \/ ClientRegion \/ ClientMalformedRegion \/ ClientCursor \/ ClientFallback
        \/ ClientSessionEnds \/ ClientStops \/ ClipboardEvent
        \/ MapEvent \/ PresentDue \/ MapperDrains \/ SendOut \/ Tick
        \/ ReceiveOutput \/ WriterEnds \/ WriteFails \/ Close \/ Exit

OutSpec == OutInit /\ [][OutNext]_outVars

\* The task and the threads run, time passes, the client ends when it is told to,
\* and the host reads.
Fairness == /\ WF_outVars(MapEvent) /\ WF_outVars(PresentDue) /\ WF_outVars(MapperDrains) /\ WF_outVars(SendOut) /\ WF_outVars(Tick)
            /\ WF_outVars(ClientStops) /\ WF_outVars(ReceiveOutput) /\ WF_outVars(WriterEnds) /\ WF_outVars(Exit)
FairSpec == OutSpec /\ Fairness
-----------------------------------------------------------------------------
\* An image is pending exactly while a timer runs, and a session that is over or
\* not announced has no base.
OutputOK == /\ (pending_image # NoPicture) = (timer.latency # Off)
          /\ mapper.connected = (mapper.size # 0)
          /\ Len(link) <= Capacity /\ box.senders \subseteq NewBox.senders
          /\ ~mapping => "mapper" \notin box.senders

Settled == link = <<>> /\ pending_image = NoPicture /\ out = <<>> /\ BoxEmpty(box)

\* Once everything under way has arrived the host shows the desktop of the present
\* session, cursor included, whatever was collapsed, merged, dropped or reconnected.
HostIsInSync ==
  (Settled /\ mapping /\ box.alive /\ client = "up" /\ remote.base) =>
    /\ host.open /\ host.size = remote.size /\ host.px = remote.px
    /\ remote.shape # 0 => host.shape = remote.shape
    /\ remote.position # 0 => host.position = remote.position

\* An update reaches the host only over a picture of its own size.
UpdatesFit == "delta" \notin host.faults

\* A cursor reaches the host only within a session: after its Connected and not
\* between a Reconnecting and the next Connected.
CursorsAreInSession == "cursor" \notin host.faults

\* After the end of the session is announced no picture and no session follows.
NothingAfterTheEnd == "late" \notin host.faults

\* A complete image is presented although newer ones keep coming.
ImageIsPresented == (pending_image # NoPicture) ~> (pending_image = NoPicture)

\* Asked to close, the helper ends: every thread sees the end of the one before it.
ClosingEnds == (main = "closing") ~> (main = "exited")

\* The host's picture and cursor are those of the present session, every step on
\* the way fits the one before, and nothing follows the end.
DesktopIsShown == OutputOK /\ HostIsInSync /\ UpdatesFit /\ CursorsAreInSession /\ NothingAfterTheEnd
=============================================================================
