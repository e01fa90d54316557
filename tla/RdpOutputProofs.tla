-------------------------- MODULE RdpOutputProofs --------------------------
(***************************************************************************)
(* The way of a picture through the RDP helper, for every desktop, cursor, *)
(* capacity and pacing and any number of events: what the host will show   *)
(* once everything under way has arrived is the client's desktop.          *)
(*                                                                         *)
(* The argument follows the chain backwards from the host.  What the host  *)
(* and the mailbox together amount to is a view; the outputs still to be   *)
(* sent lead from it to the view of the mapper; and the events still in    *)
(* the channel lead from the desktop that view shows to the client's.      *)
(***************************************************************************)
EXTENDS RdpOutput, FiniteSetTheorems, TLAPS
-----------------------------------------------------------------------------
(* What the variables hold *)

Pictures == UNION {[S -> Pixels \cup {0}] : S \in SUBSET Cells}
AnySize == DesktopSizes \cup {0}
AnyCursor == Cursors \cup {0}

Images == [kind : {"image"}, size : DesktopSizes, px : [Cells -> Pixels]]
Regions == [kind : {"region"}, size : AnySize, px : Pictures, wellFormed : BOOLEAN]
CursorEvents == [kind : CursorKinds, v : Cursors]
Fallbacks == [kind : {"fallback"}]
Ends == [kind : Terminals]
Events == Images \cup Regions \cup CursorEvents \cup Fallbacks \cup Ends

Openings == [kind : {"connected"}, size : DesktopSizes]
Others == [kind : {"reconnecting", "clipboard"}]
Controls == Openings \cup Others \cup CursorEvents \cup Ends
Frames == [kind : {"frame"}, size : DesktopSizes, px : Pictures]
Deltas == [kind : {"delta"}, size : AnySize, px : Pictures]
Outputs == Controls \cup Frames \cup Deltas

Desktops == [px : [Cells -> Pixels \cup {0}], size : AnySize, shape : AnyCursor, position : AnyCursor, base : BOOLEAN]
Mappers == [connected : BOOLEAN, size : AnySize, shape : AnyCursor, position : AnyCursor]
Boxes == [control : Seq(Controls), frame : Frames \cup {NoPicture}, delta : Deltas \cup {NoPicture},
          senders : SUBSET {"mapper", "controller", "backend"}, alive : BOOLEAN]
Hosts == [px : Pictures, size : AnySize, shape : AnyCursor, position : AnyCursor,
          open : BOOLEAN, ended : BOOLEAN, faults : SUBSET {"late", "delta", "cursor"}]

TimerOK ==
  /\ timer \in [settle : 0..Off, latency : 0..Off]
  /\ (timer.settle = Off) = (timer.latency = Off)
  /\ (pending_image # NoPicture) = (timer.latency # Off)

TypeInv ==
  /\ remote \in Desktops /\ link \in Seq(Events) /\ Len(link) <= Capacity
  /\ client \in {"up", "ending", "ended"} /\ mapper \in Mappers /\ pending_image \in Images \cup {NoPicture}
  /\ out \in Seq(Outputs) /\ mapping \in BOOLEAN /\ box \in Boxes /\ host \in Hosts
  /\ mapper.connected = (mapper.size # 0) /\ TimerOK
  /\ ~mapping => out = <<>> /\ link = <<>> /\ "mapper" \notin box.senders
-----------------------------------------------------------------------------
(* The end of a session *)

NoEnds(s) == \A i \in 1..Len(s) : s[i].kind \notin Terminals
OnlyLast(s) == \A i \in 1..Len(s) : s[i].kind \in Terminals => i = Len(s)

\* Only the clipboard's thread still sends, from the start or once the end was sent.
Quiet(s) == \A i \in 1..Len(s) : s[i].kind = "clipboard"
EndsQuietly(s) == \A i, j \in 1..Len(s) : (i < j /\ s[i].kind \in Terminals) => s[j].kind = "clipboard"

\* The end was sent: nothing of the chain before the mailbox is left.
Over == host.ended \/ ~NoEnds(box.control)

EndInv ==
  /\ OnlyLast(link) /\ OnlyLast(out)
  /\ ~NoEnds(link) => client # "up"
  /\ ~NoEnds(out) => link = <<>> /\ pending_image = NoPicture /\ client # "up"
  /\ Over => /\ link = <<>> /\ pending_image = NoPicture /\ client # "up" /\ out = <<>>
             /\ box.frame = NoPicture /\ box.delta = NoPicture
  /\ host.ended => Quiet(box.control)
  /\ EndsQuietly(box.control)
-----------------------------------------------------------------------------
(* Views: what the host will show *)

View(open, size, px, shape, position) ==
  [open |-> open, size |-> size, px |-> px, shape |-> shape, position |-> position]

\* What an output makes of a view; a cursor from before a session is none.
AfterOutput(v, e) ==
  CASE e.kind = "connected" -> View(TRUE, v.size, v.px, v.shape, v.position)
    [] e.kind \in Terminals \cup {"reconnecting"} -> View(FALSE, v.size, v.px, 0, 0)
    [] e.kind = "frame" -> View(v.open, e.size, e.px, v.shape, v.position)
    [] e.kind = "delta" -> View(v.open, v.size, Merged(v.px, e.px), v.shape, v.position)
    [] e.kind = "shape" -> View(v.open, v.size, v.px, e.v, v.position)
    [] e.kind = "position" -> View(v.open, v.size, v.px, v.shape, e.v)
    [] OTHER -> v

OutputFits(v, e) == (e.kind = "delta" => v.size = e.size) /\ (e.kind \in CursorKinds => v.open)

\* The outputs of s, one after the other, make w of v.
Path(t, v, s, w) ==
  /\ t[1] = v /\ t[Len(s) + 1] = w
  /\ \A i \in 1..Len(s) : OutputFits(t[i], s[i]) /\ t[i + 1] = AfterOutput(t[i], s[i])
Realises(v, s, w) == \E t : Path(t, v, s, w)

\* What an event makes of the client's desktop.
AfterEvent(r, e) ==
  CASE e.kind = "image" -> [r EXCEPT !.px = e.px, !.size = e.size, !.base = TRUE]
    [] e.kind = "region" -> IF e.wellFormed /\ e.size = r.size THEN [r EXCEPT !.px = Merged(@, e.px)] ELSE r
    [] e.kind = "shape" -> [r EXCEPT !.shape = e.v]
    [] e.kind = "position" -> [r EXCEPT !.position = e.v]
    [] e.kind = "fallback" -> [r EXCEPT !.shape = 0, !.position = 0, !.base = FALSE]
    [] OTHER -> r

\* A region that fits is one of a desktop that has its base.
EventFits(r, e) == (e.kind = "region" /\ e.wellFormed /\ e.size = r.size) => r.base

Trail(t, r, s, n) ==
  /\ t[1] = r /\ t[Len(s) + 1] = n
  /\ \A i \in 1..Len(s) : t[i] \in Desktops /\ EventFits(t[i], s[i]) /\ t[i + 1] = AfterEvent(t[i], s[i])
LeadsTo(r, s, n) == \E t : Trail(t, r, s, n)
-----------------------------------------------------------------------------
(* The mailbox and the host *)

Closers == Terminals \cup {"reconnecting"}

\* Before place k of the queue c is read the host, now in a session or not, is in one.
OpenAt(c, open, k) ==
  \E i \in 0..(k - 1) : /\ IF i = 0 THEN open ELSE c[i].kind = "connected"
                        /\ \A j \in (i + 1)..(k - 1) : c[j].kind \notin Closers

\* The last cursor of a kind that the host has, or will read from the queue c, is v.
LastIs(c, kind, has, v) ==
  \E i \in 0..Len(c) : /\ IF i = 0 THEN has = v ELSE c[i].kind = kind /\ c[i].v = v
                       /\ \A j \in (i + 1)..Len(c) : c[j].kind # kind

CursorsOpen(c, open) == \A k \in 1..Len(c) : c[k].kind \in CursorKinds => OpenAt(c, open, k)

ControlShows(c, h, v) ==
  /\ v.open => OpenAt(c, h.open, Len(c) + 1)
  /\ v.shape # 0 => LastIs(c, "shape", h.shape, v.shape)
  /\ v.position # 0 => LastIs(c, "position", h.position, v.position)

BasePx(b, h) == IF b.frame # NoPicture THEN b.frame.px ELSE h.px
BaseSize(b, h) == IF b.frame # NoPicture THEN b.frame.size ELSE h.size
BoxPx(b, h) == IF b.delta # NoPicture THEN Merged(BasePx(b, h), b.delta.px) ELSE BasePx(b, h)
DeltaFits(b, h) == b.delta # NoPicture => b.delta.size = BaseSize(b, h)
PictureShows(b, h, v) == v.px = BoxPx(b, h) /\ v.size = BaseSize(b, h)

\* Whatever is in the mailbox can be read without a fault.
BoxInv(b, h) == CursorsOpen(b.control, h.open) /\ DeltaFits(b, h)

\* The host with what is in the mailbox shows v.
BoxShows(b, h, v) == ControlShows(b.control, h, v) /\ PictureShows(b, h, v)
-----------------------------------------------------------------------------
(* The mapper *)

MapperFits(m, v) == m.connected => v.open /\ v.size = m.size

\* With mapper m and pending image p, the view w is of the desktop r.
Shown(m, p, r, w) ==
  /\ r.base <=> (m.connected \/ p # NoPicture)
  /\ p # NoPicture => r.px = p.px /\ r.size = p.size
  /\ (m.connected /\ p = NoPicture) => m.size = r.size /\ w.px = r.px
  /\ m.connected => (r.shape # 0 => w.shape = r.shape) /\ (r.position # 0 => w.position = r.position)
  /\ ~m.connected => m.shape = r.shape /\ m.position = r.position

\* The channel leads from what the view shows to the client's desktop.
ChannelInv(w) == (client = "up" /\ mapping) => \E r \in Desktops : Shown(mapper, pending_image, r, w) /\ LeadsTo(r, link, remote)

ChainInv == \E v, w : BoxShows(box, host, v) /\ Realises(v, out, w) /\ MapperFits(mapper, w) /\ ChannelInv(w)

OutInv == TypeInv /\ EndInv /\ host.faults = {} /\ (box.alive => BoxInv(box, host) /\ ChainInv)
-----------------------------------------------------------------------------
(* Paths *)

LEMMA NoPath == ASSUME NEW v PROVE Realises(v, <<>>, v)
<1>1. Path([i \in {1} |-> v], v, <<>>, v) BY DEF Path
<1> QED BY <1>1 DEF Realises

LEMMA PathEnds == ASSUME NEW v, NEW w, Realises(v, <<>>, w) PROVE v = w
BY DEF Realises, Path

LEMMA OneStep == ASSUME NEW v, NEW e, OutputFits(v, e) PROVE Realises(v, <<e>>, AfterOutput(v, e))
<1> DEFINE t == [i \in 1..2 |-> IF i = 1 THEN v ELSE AfterOutput(v, e)]
<1>1. t[1] = v /\ t[2] = AfterOutput(v, e) OBVIOUS
<1>2. Len(<<e>>) = 1 /\ <<e>>[1] = e OBVIOUS
<1> HIDE DEF t
<1>3. ASSUME NEW i \in 1..Len(<<e>>) PROVE OutputFits(t[i], <<e>>[i]) /\ t[i + 1] = AfterOutput(t[i], <<e>>[i])
  <2>1. i = 1 BY <1>2
  <2> QED BY <1>1, <1>2, <2>1
<1>4. Path(t, v, <<e>>, AfterOutput(v, e)) BY <1>1, <1>2, <1>3 DEF Path
<1> QED BY <1>4 DEF Realises

LEMMA PathsJoin ==
  ASSUME NEW s \in Seq(Outputs), NEW q \in Seq(Outputs), NEW v, NEW w, NEW x, Realises(v, s, w), Realises(w, q, x)
  PROVE  Realises(v, s \o q, x)
<1>1. PICK a : Path(a, v, s, w) BY DEF Realises
<1>2. PICK b : Path(b, w, q, x) BY DEF Realises
<1>3. PICK n \in Nat, m \in Nat : n = Len(s) /\ m = Len(q) OBVIOUS
<1>4. PICK u : u = s \o q /\ Len(u) = n + m /\ (\A i \in 1..n : u[i] = s[i]) /\ (\A i \in 1..m : u[n + i] = q[i])
  <2>1. Len(s \o q) = n + m /\ (\A i \in 1..n : (s \o q)[i] = s[i]) /\ (\A i \in 1..m : (s \o q)[n + i] = q[i]) BY <1>3
  <2> QED BY <2>1
<1> DEFINE t == [i \in 1..(n + m + 1) |-> IF i <= n + 1 THEN a[i] ELSE b[i - n]]
<1>5. a[1] = v /\ a[n + 1] = w /\ b[1] = w /\ b[m + 1] = x BY <1>1, <1>2, <1>3 DEF Path
<1>6. \A i \in 1..(n + 1) : t[i] = a[i] OBVIOUS
<1>7. \A i \in 1..(m + 1) : t[n + i] = b[i]
  <2> TAKE i \in 1..(m + 1)
  <2>1. CASE i = 1 BY <1>5, <2>1
  <2>2. CASE i # 1 BY <2>2
  <2> QED BY <2>1, <2>2
<1> HIDE DEF t
<1>8. ASSUME NEW i \in 1..(n + m) PROVE OutputFits(t[i], u[i]) /\ t[i + 1] = AfterOutput(t[i], u[i])
  <2>1. CASE i <= n
    <3>1. i \in 1..Len(s) /\ i \in 1..n /\ i \in 1..(n + 1) /\ i + 1 \in 1..(n + 1) BY <1>3, <2>1
    <3>2. OutputFits(a[i], s[i]) /\ a[i + 1] = AfterOutput(a[i], s[i]) BY <1>1, <3>1 DEF Path
    <3>3. t[i] = a[i] /\ t[i + 1] = a[i + 1] /\ u[i] = s[i] BY <1>4, <1>6, <3>1
    <3> QED BY <3>2, <3>3
  <2>2. CASE i > n
    <3>1. PICK k \in 1..Len(q) : i = n + k /\ k \in 1..m /\ k \in 1..(m + 1) /\ k + 1 \in 1..(m + 1) /\ i + 1 = n + (k + 1)
      <4>1. /\ i - n \in 1..Len(q) /\ i = n + (i - n) /\ i - n \in 1..m /\ i - n \in 1..(m + 1)
            /\ (i - n) + 1 \in 1..(m + 1) /\ i + 1 = n + ((i - n) + 1) BY <1>3, <2>2
      <4> QED BY <4>1
    <3>2. OutputFits(b[k], q[k]) /\ b[k + 1] = AfterOutput(b[k], q[k]) BY <1>2, <3>1 DEF Path
    <3>3. t[i] = b[k] /\ t[i + 1] = b[k + 1] /\ u[i] = q[k] BY <1>4, <1>7, <3>1
    <3> QED BY <3>2, <3>3
  <2> QED BY <2>1, <2>2
<1>9. t[1] = v /\ t[n + m + 1] = x
  <2>1. t[1] = a[1] BY <1>6
  <2>2. t[n + (m + 1)] = b[m + 1] BY <1>7
  <2> QED BY <1>5, <2>1, <2>2
<1>10. Path(t, v, u, x) BY <1>4, <1>8, <1>9 DEF Path
<1> QED BY <1>4, <1>10 DEF Realises

LEMMA PathStarts ==
  ASSUME NEW s \in Seq(Outputs), s # <<>>, NEW v, NEW w, Realises(v, s, w)
  PROVE  OutputFits(v, Head(s)) /\ Realises(AfterOutput(v, Head(s)), Tail(s), w)
<1>1. PICK a : Path(a, v, s, w) BY DEF Realises
<1>2. PICK n \in Nat : n + 1 = Len(s) /\ Len(Tail(s)) = n /\ Head(s) = s[1] /\ \A i \in 1..n : Tail(s)[i] = s[i + 1]
  <2>1. Len(s) \in Nat \ {0} OBVIOUS
  <2>2. Len(s) - 1 \in Nat /\ (Len(s) - 1) + 1 = Len(s) /\ Len(Tail(s)) = Len(s) - 1 /\ Head(s) = s[1] BY <2>1
  <2>3. \A i \in 1..(Len(s) - 1) : Tail(s)[i] = s[i + 1] OBVIOUS
  <2> QED BY <2>2, <2>3
<1>3. OutputFits(a[1], s[1]) /\ a[2] = AfterOutput(a[1], s[1]) /\ a[1] = v
  <2>1. 1 \in 1..Len(s) /\ 1 + 1 = 2 BY <1>2
  <2> QED BY <1>1, <2>1 DEF Path
<1> DEFINE t == [i \in 1..(n + 1) |-> a[i + 1]]
<1>4. \A i \in 1..(n + 1) : t[i] = a[i + 1] OBVIOUS
<1> HIDE DEF t
<1>5. ASSUME NEW i \in 1..n PROVE OutputFits(t[i], Tail(s)[i]) /\ t[i + 1] = AfterOutput(t[i], Tail(s)[i])
  <2>1. i + 1 \in 1..Len(s) /\ i \in 1..(n + 1) /\ i + 1 \in 1..(n + 1) BY <1>2
  <2>2. OutputFits(a[i + 1], s[i + 1]) /\ a[(i + 1) + 1] = AfterOutput(a[i + 1], s[i + 1]) BY <1>1, <2>1 DEF Path
  <2>3. t[i] = a[i + 1] /\ t[i + 1] = a[(i + 1) + 1] /\ Tail(s)[i] = s[i + 1] BY <1>2, <1>4, <2>1
  <2> QED BY <2>2, <2>3
<1>6. t[1] = a[2] /\ t[n + 1] = w
  <2>1. a[(n + 1) + 1] = w BY <1>1, <1>2 DEF Path
  <2>2. 1 \in 1..(n + 1) /\ n + 1 \in 1..(n + 1) BY <1>2
  <2> QED BY <1>4, <2>1, <2>2
<1>7. Path(t, a[2], Tail(s), w) BY <1>2, <1>5, <1>6 DEF Path
<1> QED BY <1>2, <1>3, <1>7 DEF Realises
-----------------------------------------------------------------------------
(* Trails *)

LEMMA NoTrail == ASSUME NEW r PROVE LeadsTo(r, <<>>, r)
<1>1. Trail([i \in {1} |-> r], r, <<>>, r) BY DEF Trail
<1> QED BY <1>1 DEF LeadsTo

LEMMA TrailEnds == ASSUME NEW r, NEW n, LeadsTo(r, <<>>, n) PROVE r = n
BY DEF LeadsTo, Trail

LEMMA TrailGrows ==
  ASSUME NEW s \in Seq(Events), NEW e \in Events, NEW r, NEW n \in Desktops, LeadsTo(r, s, n), EventFits(n, e)
  PROVE  LeadsTo(r, Append(s, e), AfterEvent(n, e))
<1>1. PICK a : Trail(a, r, s, n) BY DEF LeadsTo
<1>2. PICK m \in Nat : m = Len(s) OBVIOUS
<1>3. PICK u : u = Append(s, e) /\ Len(u) = m + 1 /\ u[m + 1] = e /\ \A i \in 1..m : u[i] = s[i]
  <2>1. Len(Append(s, e)) = m + 1 /\ Append(s, e)[m + 1] = e /\ \A i \in 1..m : Append(s, e)[i] = s[i] BY <1>2
  <2> QED BY <2>1
<1> DEFINE t == [i \in 1..(m + 2) |-> IF i <= m + 1 THEN a[i] ELSE AfterEvent(n, e)]
<1>4. (\A i \in 1..(m + 1) : t[i] = a[i]) /\ t[(m + 1) + 1] = AfterEvent(n, e) OBVIOUS
<1>5. a[1] = r /\ a[m + 1] = n BY <1>1, <1>2 DEF Trail
<1> HIDE DEF t
<1>6. ASSUME NEW i \in 1..(m + 1)
      PROVE  t[i] \in Desktops /\ EventFits(t[i], u[i]) /\ t[i + 1] = AfterEvent(t[i], u[i])
  <2>1. CASE i <= m
    <3>1. i \in 1..Len(s) /\ i \in 1..(m + 1) /\ i + 1 \in 1..(m + 1) /\ i \in 1..m BY <1>2, <2>1
    <3>2. a[i] \in Desktops /\ EventFits(a[i], s[i]) /\ a[i + 1] = AfterEvent(a[i], s[i]) BY <1>1, <3>1 DEF Trail
    <3>3. t[i] = a[i] /\ t[i + 1] = a[i + 1] /\ u[i] = s[i] BY <1>3, <1>4, <3>1
    <3> QED BY <3>2, <3>3
  <2>2. CASE i = m + 1
    <3>1. t[i] = n /\ t[i + 1] = AfterEvent(n, e) /\ u[i] = e BY <1>3, <1>4, <1>5, <2>2
    <3> QED BY <3>1
  <2> QED BY <2>1, <2>2
<1>7. t[1] = r
  <2>1. 1 \in 1..(m + 1) BY <1>2
  <2> QED BY <1>4, <1>5, <2>1
<1>8. Trail(t, r, u, AfterEvent(n, e)) BY <1>3, <1>4, <1>6, <1>7 DEF Trail
<1> QED BY <1>3, <1>8 DEF LeadsTo

LEMMA TrailStarts ==
  ASSUME NEW s \in Seq(Events), s # <<>>, NEW r, NEW n, LeadsTo(r, s, n)
  PROVE  r \in Desktops /\ EventFits(r, Head(s)) /\ LeadsTo(AfterEvent(r, Head(s)), Tail(s), n)
<1>1. PICK a : Trail(a, r, s, n) BY DEF LeadsTo
<1>2. PICK m \in Nat : m + 1 = Len(s) /\ Len(Tail(s)) = m /\ Head(s) = s[1] /\ \A i \in 1..m : Tail(s)[i] = s[i + 1]
  <2>1. Len(s) \in Nat \ {0} OBVIOUS
  <2>2. Len(s) - 1 \in Nat /\ (Len(s) - 1) + 1 = Len(s) /\ Len(Tail(s)) = Len(s) - 1 /\ Head(s) = s[1] BY <2>1
  <2>3. \A i \in 1..(Len(s) - 1) : Tail(s)[i] = s[i + 1] OBVIOUS
  <2> QED BY <2>2, <2>3
<1>3. a[1] \in Desktops /\ EventFits(a[1], s[1]) /\ a[2] = AfterEvent(a[1], s[1]) /\ a[1] = r
  <2>1. 1 \in 1..Len(s) /\ 1 + 1 = 2 BY <1>2
  <2> QED BY <1>1, <2>1 DEF Trail
<1> DEFINE t == [i \in 1..(m + 1) |-> a[i + 1]]
<1>4. \A i \in 1..(m + 1) : t[i] = a[i + 1] OBVIOUS
<1> HIDE DEF t
<1>5. ASSUME NEW i \in 1..m PROVE t[i] \in Desktops /\ EventFits(t[i], Tail(s)[i]) /\ t[i + 1] = AfterEvent(t[i], Tail(s)[i])
  <2>1. i + 1 \in 1..Len(s) /\ i \in 1..(m + 1) /\ i + 1 \in 1..(m + 1) BY <1>2
  <2>2. a[i + 1] \in Desktops /\ EventFits(a[i + 1], s[i + 1]) /\ a[(i + 1) + 1] = AfterEvent(a[i + 1], s[i + 1])
    BY <1>1, <2>1 DEF Trail
  <2>3. t[i] = a[i + 1] /\ t[i + 1] = a[(i + 1) + 1] /\ Tail(s)[i] = s[i + 1] BY <1>2, <1>4, <2>1
  <2> QED BY <2>2, <2>3
<1>6. t[1] = a[2] /\ t[m + 1] = n
  <2>1. a[(m + 1) + 1] = n BY <1>1, <1>2 DEF Trail
  <2>2. 1 \in 1..(m + 1) /\ m + 1 \in 1..(m + 1) BY <1>2
  <2> QED BY <1>4, <2>1, <2>2
<1>7. Trail(t, a[2], Tail(s), n) BY <1>2, <1>5, <1>6 DEF Trail
<1> QED BY <1>2, <1>3, <1>7 DEF LeadsTo
-----------------------------------------------------------------------------
(* Pictures *)

LEMMA MergedIsPicture == ASSUME NEW p \in Pictures, NEW q \in Pictures PROVE Merged(p, q) \in Pictures
<1>1. PICK S \in SUBSET Cells : p \in [S -> Pixels \cup {0}] BY DEF Pictures
<1>2. PICK R \in SUBSET Cells : q \in [R -> Pixels \cup {0}] BY DEF Pictures
<1>3. S \cup R \in SUBSET Cells OBVIOUS
<1>4. Merged(p, q) \in [S \cup R -> Pixels \cup {0}] BY <1>1, <1>2 DEF Merged
<1> QED BY <1>3, <1>4 DEF Pictures

LEMMA MergedIsDesktop == ASSUME NEW p \in [Cells -> Pixels \cup {0}], NEW q \in Pictures PROVE Merged(p, q) \in [Cells -> Pixels \cup {0}]
<1>1. PICK R \in SUBSET Cells : q \in [R -> Pixels \cup {0}] BY DEF Pictures
<1>2. Cells \cup R = Cells BY <1>1
<1> QED BY <1>1, <1>2 DEF Merged

LEMMA MergedAssociates == ASSUME NEW p, NEW q, NEW u PROVE Merged(p, Merged(q, u)) = Merged(Merged(p, q), u)
<1>1. DOMAIN Merged(q, u) = DOMAIN q \cup DOMAIN u /\ DOMAIN Merged(p, q) = DOMAIN p \cup DOMAIN q BY DEF Merged
<1>2. PICK D : D = DOMAIN p \cup DOMAIN q \cup DOMAIN u OBVIOUS
<1>3. Merged(p, Merged(q, u)) = [c \in D |-> IF c \in DOMAIN q \cup DOMAIN u THEN Merged(q, u)[c] ELSE p[c]]
  <2>1. D = DOMAIN p \cup (DOMAIN q \cup DOMAIN u) BY <1>2
  <2> QED BY <1>1, <2>1 DEF Merged
<1>4. Merged(Merged(p, q), u) = [c \in D |-> IF c \in DOMAIN u THEN u[c] ELSE Merged(p, q)[c]]
  <2>1. D = (DOMAIN p \cup DOMAIN q) \cup DOMAIN u BY <1>2
  <2> QED BY <1>1, <2>1 DEF Merged
<1>5. ASSUME NEW c \in D
      PROVE  (IF c \in DOMAIN q \cup DOMAIN u THEN Merged(q, u)[c] ELSE p[c]) = (IF c \in DOMAIN u THEN u[c] ELSE Merged(p, q)[c])
  <2>1. c \in DOMAIN q \cup DOMAIN u => Merged(q, u)[c] = IF c \in DOMAIN u THEN u[c] ELSE q[c] BY DEF Merged
  <2>2. c \in DOMAIN p \cup DOMAIN q => Merged(p, q)[c] = IF c \in DOMAIN q THEN q[c] ELSE p[c] BY DEF Merged
  <2> QED BY <1>2, <2>1, <2>2
<1> QED BY <1>3, <1>4, <1>5

\* The picture of one cell.
LEMMA CellIsPicture == ASSUME NEW c \in Cells, NEW x \in Pixels PROVE [y \in {c} |-> x] \in Pictures
<1>1. [y \in {c} |-> x] \in [{c} -> Pixels \cup {0}] /\ {c} \in SUBSET Cells OBVIOUS
<1> QED BY <1>1 DEF Pictures

LEMMA ImageIsPicture == ASSUME NEW p \in [Cells -> Pixels] PROVE p \in Pictures /\ p \in [Cells -> Pixels \cup {0}]
<1>1. p \in [Cells -> Pixels \cup {0}] /\ Cells \in SUBSET Cells OBVIOUS
<1> QED BY <1>1 DEF Pictures
-----------------------------------------------------------------------------
(* What retain keeps *)

Below == {ss \in Nat \X Nat : ss[1] < ss[2]}

LEMMA BelowIsWellFounded == IsWellFoundedOn(Below, Nat)
<1>1. Below = OpToRel(<, Nat)
  BY Zenon DEF OpToRel, Below
<1> QED BY <1>1, NatLessThanWellFounded, Zenon

\* Induction over the natural numbers for a set of them.
LEMMA SetInduction ==
  ASSUME NEW S \in SUBSET Nat, 0 \in S, \A n \in S : n + 1 \in S
  PROVE  S = Nat
<1> SUFFICES ASSUME Nat \ S # {} PROVE FALSE
  OBVIOUS
<1>1. PICK x \in Nat \ S : \A y \in Nat \ S : ~(<<y, x>> \in Below)
  <2>1. Nat \ S \subseteq Nat OBVIOUS
  <2> QED BY <2>1, BelowIsWellFounded, WFMin, Zenon
<1>2. x # 0 /\ x - 1 \in Nat
  OBVIOUS
<1>3. <<x - 1, x>> \in Below
  BY <1>2 DEF Below
<1>4. x - 1 \in S
  BY <1>1, <1>2, <1>3
<1> QED BY <1>2, <1>4

\* A finite set of natural numbers can be listed in order.
Listing(K, n) == {e \in [1..n -> K] : \A i, j \in 1..n : i < j => e[i] < e[j]}

LEMMA ListingExtends ==
  ASSUME NEW n \in Nat, NEW U \in SUBSET (1..n), NEW c \in Nat, NEW e \in Listing(U, c)
  PROVE  [i \in 1..c+1 |-> IF i = c + 1 THEN n + 1 ELSE e[i]] \in Listing(U \cup {n + 1}, c + 1)
<1> DEFINE f == [i \in 1..c+1 |-> IF i = c + 1 THEN n + 1 ELSE e[i]]
<1>0. e \in [1..c -> U]
  BY DEF Listing
<1>1. \A i \in 1..c : e[i] \in U /\ e[i] \in Nat /\ e[i] < n + 1
  <2>1. \A u \in U : u \in Nat /\ u < n + 1 OBVIOUS
  <2> QED BY <1>0, <2>1
<1>2. f \in [1..c+1 -> U \cup {n + 1}]
  BY <1>1
<1>3. \A i, j \in 1..c+1 : i < j => f[i] < f[j]
  BY <1>1 DEF Listing
<1> QED BY <1>2, <1>3 DEF Listing

LEMMA OrderedListing ==
  ASSUME NEW m \in Nat, NEW K \in SUBSET (1..m)
  PROVE  /\ IsFiniteSet(K) /\ Cardinality(K) \in Nat
         /\ Listing(K, Cardinality(K)) # {}
<1> DEFINE Listed(T) == /\ IsFiniteSet(T) /\ Cardinality(T) \in Nat
                        /\ Listing(T, Cardinality(T)) # {}
           S == {n \in Nat : \A T \in SUBSET (1..n) : Listed(T)}
<1>1. 0 \in S
  <2> SUFFICES ASSUME NEW T \in SUBSET (1..0) PROVE Listed(T)
    OBVIOUS
  <2>1. T = {} OBVIOUS
  <2>2. IsFiniteSet(T) /\ Cardinality(T) = 0
    BY <2>1, FS_EmptySet
  <2>3. [i \in 1..0 |-> i] \in Listing(T, 0)
    BY <2>1 DEF Listing
  <2> QED BY <2>2, <2>3
<1>2. ASSUME NEW n \in S PROVE n + 1 \in S
  <2> SUFFICES ASSUME NEW T \in SUBSET (1..n+1) PROVE Listed(T)
    OBVIOUS
  <2>1. n \in Nat OBVIOUS
  <2>2. PICK U \in SUBSET (1..n) : U = T \ {n + 1}
    <3>1. \A t \in T : t # n + 1 => t \in 1..n BY <2>1
    <3> QED BY <3>1
  <2>3. Listed(U) BY <2>2
  <2>4. CASE n + 1 \notin T
    <3>1. T = U BY <2>2, <2>4
    <3> QED BY <2>3, <3>1
  <2>5. CASE n + 1 \in T
    <3>1. T = U \cup {n + 1} /\ n + 1 \notin U
      BY <2>2, <2>5
    <3>2. IsFiniteSet(U) /\ IsFiniteSet(T) /\ Cardinality(T) = Cardinality(U) + 1
      BY <2>3, <3>1, FS_AddElement, Zenon
    <3>3. PICK c \in Nat : c = Cardinality(U) BY <2>3
    <3>4. PICK e \in Listing(U, c) : TRUE BY <2>3, <3>3
    <3>5. Listing(T, c + 1) # {}
      BY <2>1, <3>1, <3>3, <3>4, ListingExtends
    <3>6. Cardinality(T) = c + 1 /\ c + 1 \in Nat
      BY <3>2, <3>3
    <3> QED BY <3>2, <3>5, <3>6
  <2> QED BY <2>4, <2>5
<1> HIDE DEF S
<1>3. S = Nat
  <2>1. S \in SUBSET Nat BY DEF S
  <2> QED BY <1>1, <1>2, <2>1, SetInduction
<1> QED BY <1>3 DEF S

\* Only events of the queue are kept, and no cursor.
LEMMA DiscardKeeps ==
  ASSUME NEW c \in Seq(Controls)
  PROVE  /\ DiscardPendingCursorEvents(c) \in Seq(Controls)
         /\ \A i \in 1..Len(DiscardPendingCursorEvents(c)) :
              /\ DiscardPendingCursorEvents(c)[i].kind \notin CursorKinds
              /\ \E j \in 1..Len(c) : DiscardPendingCursorEvents(c)[i] = c[j]
<1> DEFINE K == KeptEvents(c)
           place == KeptOrder(c)
           d == DiscardPendingCursorEvents(c)
<1>1. PICK n \in Nat : n = Cardinality(K) /\ IsFiniteSet(K) /\ Listing(K, n) # {}
  <2>1. Len(c) \in Nat /\ K \in SUBSET (1..Len(c)) BY DEF KeptEvents
  <2> QED BY <2>1, OrderedListing
<1>2. place \in [1..n -> K]
  <2>1. \E e \in [1..n -> K] : \A i, j \in DOMAIN e : i < j => e[i] < e[j]
    BY <1>1 DEF Listing
  <2>2. place = CHOOSE e \in [1..n -> K] : \A i, j \in DOMAIN e : i < j => e[i] < e[j]
    BY <1>1 DEF KeptOrder
  <2> HIDE DEF place, K
  <2> QED BY <2>1, <2>2
<1>3. d = [i \in 1..n |-> c[place[i]]]
  BY <1>1 DEF DiscardPendingCursorEvents
<1>4. \A k \in K : k \in 1..Len(c) /\ c[k] \in Controls /\ c[k].kind \notin CursorKinds
  BY DEF KeptEvents
<1> HIDE DEF place, K, d
<1>5. \A i \in 1..n : d[i] = c[place[i]] /\ place[i] \in K BY <1>2, <1>3
<1>6. d \in Seq(Controls) /\ Len(d) = n
  <2>1. \A i \in 1..n : c[place[i]] \in Controls BY <1>4, <1>5
  <2>2. d \in [1..n -> Controls] BY <1>3, <2>1
  <2> QED BY <1>3, <2>2
<1>7. \A i \in 1..n : d[i].kind \notin CursorKinds /\ \E j \in 1..Len(c) : d[i] = c[j]
  BY <1>4, <1>5
<1> QED BY <1>6, <1>7 DEF d
-----------------------------------------------------------------------------
(* The queue of the mailbox *)

\* Whether the host is in a session depends on the kinds of what it reads before.
LEMMA OpenSame ==
  ASSUME NEW c, NEW d, NEW open, NEW k \in Nat \ {0}, \A i \in 1..(k - 1) : c[i].kind = d[i].kind, OpenAt(c, open, k)
  PROVE  OpenAt(d, open, k)
<1>1. PICK i \in 0..(k - 1) : /\ IF i = 0 THEN open ELSE c[i].kind = "connected"
                              /\ \A j \in (i + 1)..(k - 1) : c[j].kind \notin Closers
  BY DEF OpenAt
<1>2. \A j \in (i + 1)..(k - 1) : j \in 1..(k - 1) OBVIOUS
<1>3. \A j \in (i + 1)..(k - 1) : d[j].kind \notin Closers BY <1>1, <1>2
<1>4. IF i = 0 THEN open ELSE d[i].kind = "connected"
  <2>1. i # 0 => i \in 1..(k - 1) OBVIOUS
  <2> QED BY <1>1, <2>1
<1> QED BY <1>3, <1>4 DEF OpenAt

LEMMA OpenNext ==
  ASSUME NEW c, NEW open, NEW k \in Nat \ {0}, OpenAt(c, open, k), c[k].kind \notin Closers
  PROVE  OpenAt(c, open, k + 1)
<1>1. PICK i \in 0..(k - 1) : /\ IF i = 0 THEN open ELSE c[i].kind = "connected"
                              /\ \A j \in (i + 1)..(k - 1) : c[j].kind \notin Closers
  BY DEF OpenAt
<1>2. i \in 0..((k + 1) - 1) OBVIOUS
<1>3. ASSUME NEW j \in (i + 1)..((k + 1) - 1) PROVE c[j].kind \notin Closers
  <2>1. j = k \/ j \in (i + 1)..(k - 1) OBVIOUS
  <2> QED BY <1>1, <2>1
<1> QED BY <1>1, <1>2, <1>3 DEF OpenAt

LEMMA OpenHere ==
  ASSUME NEW c, NEW open, NEW k \in Nat \ {0}, c[k].kind = "connected"
  PROVE  OpenAt(c, open, k + 1)
<1>1. k \in 0..((k + 1) - 1) /\ k # 0 OBVIOUS
<1>2. \A j \in (k + 1)..((k + 1) - 1) : c[j].kind \notin Closers OBVIOUS
<1> QED BY <1>1, <1>2 DEF OpenAt

\* d is c with e at its end.
Extends(d, c, e) == Len(d) = Len(c) + 1 /\ d[Len(c) + 1] = e /\ \A i \in 1..Len(c) : d[i] = c[i]

LEMMA LastHere == ASSUME NEW c, NEW d, NEW e, Len(c) \in Nat, Extends(d, c, e), NEW has PROVE LastIs(d, e.kind, has, e.v)
<1>1. PICK n \in Nat : n = Len(c) OBVIOUS
<1>2. Len(d) = n + 1 /\ d[n + 1] = e BY <1>1 DEF Extends
<1>3. n + 1 \in 0..Len(d) /\ n + 1 # 0 BY <1>2
<1>4. \A j \in ((n + 1) + 1)..Len(d) : d[j].kind # e.kind BY <1>2
<1> QED BY <1>2, <1>3, <1>4 DEF LastIs

LEMMA LastStays ==
  ASSUME NEW c, NEW d, NEW e, Len(c) \in Nat, Extends(d, c, e), NEW has, NEW kind, NEW v, e.kind # kind, LastIs(c, kind, has, v)
  PROVE  LastIs(d, kind, has, v)
<1>1. PICK n \in Nat : n = Len(c) OBVIOUS
<1>2. Len(d) = n + 1 /\ d[n + 1] = e /\ \A i \in 1..n : d[i] = c[i] BY <1>1 DEF Extends
<1>3. PICK i \in 0..n : /\ IF i = 0 THEN has = v ELSE c[i].kind = kind /\ c[i].v = v
                        /\ \A j \in (i + 1)..n : c[j].kind # kind
  BY <1>1 DEF LastIs
<1>4. IF i = 0 THEN has = v ELSE d[i].kind = kind /\ d[i].v = v
  <2>1. i # 0 => i \in 1..n OBVIOUS
  <2> QED BY <1>2, <1>3, <2>1
<1>5. ASSUME NEW j \in (i + 1)..(n + 1) PROVE d[j].kind # kind
  <2>1. j = n + 1 \/ (j \in 1..n /\ j \in (i + 1)..n) OBVIOUS
  <2> QED BY <1>2, <1>3, <2>1
<1>6. i \in 0..Len(d) BY <1>2
<1> QED BY <1>2, <1>4, <1>5, <1>6 DEF LastIs

ViewOK(v) == v = View(v.open, v.size, v.px, v.shape, v.position)

\* An event that is appended and is no end of a session.
LEMMA AppendShows ==
  ASSUME NEW c \in Seq(Controls), NEW e \in Controls, NEW h, NEW v, ControlShows(c, h, v), CursorsOpen(c, h.open),
         e.kind \notin Closers, OutputFits(v, e)
  PROVE  ControlShows(Append(c, e), h, AfterOutput(v, e)) /\ CursorsOpen(Append(c, e), h.open)
<1>1. PICK n \in Nat : n = Len(c) OBVIOUS
<1>2. PICK d : d = Append(c, e) /\ Extends(d, c, e) /\ Len(d) = n + 1 /\ d[n + 1] = e /\ \A i \in 1..n : d[i] = c[i]
  <2>1. Len(Append(c, e)) = n + 1 /\ Append(c, e)[n + 1] = e /\ \A i \in 1..n : Append(c, e)[i] = c[i] BY <1>1
  <2> QED BY <1>1, <2>1 DEF Extends
<1>3. e.kind \in {"connected", "clipboard", "shape", "position"} BY DEF Controls, Openings, Others, CursorEvents, Ends, Closers, CursorKinds
<1>4. PICK w : w = AfterOutput(v, e) OBVIOUS
<1>5. /\ w.open = IF e.kind = "connected" THEN TRUE ELSE v.open
      /\ w.shape = IF e.kind = "shape" THEN e.v ELSE v.shape
      /\ w.position = IF e.kind = "position" THEN e.v ELSE v.position
  BY <1>3, <1>4 DEF AfterOutput, View, Terminals
<1>6. ASSUME NEW k \in 1..(n + 1), OpenAt(c, h.open, k) PROVE OpenAt(d, h.open, k)
  <2>1. \A i \in 1..(k - 1) : c[i].kind = d[i].kind BY <1>2
  <2> QED BY <1>6, <2>1, OpenSame
<1>7. w.open => OpenAt(d, h.open, (n + 1) + 1)
  <2>0. PICK k \in Nat \ {0} : k = n + 1 OBVIOUS
  <2> SUFFICES w.open => OpenAt(d, h.open, k + 1) BY <2>0
  <2>1. CASE e.kind = "connected" BY <1>2, <2>0, <2>1, OpenHere
  <2>2. CASE e.kind # "connected" /\ v.open
    <3>1. OpenAt(c, h.open, n + 1) BY <1>1, <2>2 DEF ControlShows
    <3>2. OpenAt(d, h.open, k) BY <1>6, <2>0, <3>1
    <3> QED BY <1>2, <2>0, <3>2, OpenNext
  <2> QED BY <1>5, <2>1, <2>2
<1>8. w.shape # 0 => LastIs(d, "shape", h.shape, w.shape)
  <2>1. CASE e.kind = "shape" BY <1>1, <1>2, <1>5, <2>1, LastHere
  <2>2. CASE e.kind # "shape" BY <1>1, <1>2, <1>5, <2>2, LastStays DEF ControlShows
  <2> QED BY <2>1, <2>2
<1>9. w.position # 0 => LastIs(d, "position", h.position, w.position)
  <2>1. CASE e.kind = "position" BY <1>1, <1>2, <1>5, <2>1, LastHere
  <2>2. CASE e.kind # "position" BY <1>1, <1>2, <1>5, <2>2, LastStays DEF ControlShows
  <2> QED BY <2>1, <2>2
<1>10. ASSUME NEW k \in 1..(n + 1), d[k].kind \in CursorKinds PROVE OpenAt(d, h.open, k)
  <2>1. CASE k \in 1..n
    <3>1. OpenAt(c, h.open, k) BY <1>1, <1>2, <1>10, <2>1 DEF CursorsOpen
    <3> QED BY <1>6, <3>1
  <2>2. CASE k = n + 1
    <3>1. v.open BY <1>2, <1>10, <2>2 DEF OutputFits
    <3>2. OpenAt(c, h.open, n + 1) BY <1>1, <3>1 DEF ControlShows
    <3> QED BY <1>6, <2>2, <3>2
  <2> QED BY <2>1, <2>2
<1> QED BY <1>2, <1>4, <1>7, <1>8, <1>9, <1>10 DEF ControlShows, CursorsOpen

\* A cursor that replaces the last one.
LEMMA ReplaceShows ==
  ASSUME NEW c \in Seq(Controls), c # <<>>, NEW e \in Controls, Replaces(e, c[Len(c)]), NEW h, NEW v,
         ControlShows(c, h, v), CursorsOpen(c, h.open)
  PROVE  /\ [c EXCEPT ![Len(c)] = e] \in Seq(Controls)
         /\ ControlShows([c EXCEPT ![Len(c)] = e], h, AfterOutput(v, e)) /\ CursorsOpen([c EXCEPT ![Len(c)] = e], h.open)
<1>1. PICK n \in Nat \ {0} : n = Len(c) OBVIOUS
<1>2. PICK d : /\ d = [c EXCEPT ![Len(c)] = e] /\ Len(d) = n /\ d[n] = e /\ d \in Seq(Controls)
               /\ \A i \in 1..n : i # n => d[i] = c[i]
  <2>1. /\ [c EXCEPT ![n] = e] \in Seq(Controls) /\ Len([c EXCEPT ![n] = e]) = n /\ [c EXCEPT ![n] = e][n] = e
        /\ \A i \in 1..n : i # n => [c EXCEPT ![n] = e][i] = c[i] BY <1>1
  <2> QED BY <1>1, <2>1
<1>3. e.kind \in {"shape", "position"} /\ c[n].kind = e.kind BY <1>1 DEF Replaces
<1>4. PICK w : w = AfterOutput(v, e) OBVIOUS
<1>5. /\ w.open = v.open
      /\ w.shape = IF e.kind = "shape" THEN e.v ELSE v.shape
      /\ w.position = IF e.kind = "position" THEN e.v ELSE v.position
  BY <1>3, <1>4 DEF AfterOutput, View, Terminals
<1>6. \A i \in 1..n : d[i].kind = c[i].kind BY <1>2, <1>3
<1>7. ASSUME NEW k \in 1..(n + 1), OpenAt(c, h.open, k) PROVE OpenAt(d, h.open, k)
  <2>1. \A i \in 1..(k - 1) : c[i].kind = d[i].kind BY <1>6
  <2> QED BY <1>7, <2>1, OpenSame
<1>8. w.open => OpenAt(d, h.open, n + 1) BY <1>1, <1>5, <1>7 DEF ControlShows
<1>9. CursorsOpen(d, h.open)
  <2>1. ASSUME NEW k \in 1..n, d[k].kind \in CursorKinds PROVE OpenAt(d, h.open, k)
    <3>1. c[k].kind \in CursorKinds BY <1>6, <2>1
    <3>2. OpenAt(c, h.open, k) BY <1>1, <3>1 DEF CursorsOpen
    <3>3. k \in 1..(n + 1) OBVIOUS
    <3> QED BY <1>7, <3>2, <3>3
  <2> QED BY <1>2, <2>1 DEF CursorsOpen
<1>10. ASSUME NEW has PROVE LastIs(d, e.kind, has, e.v)
  <2>1. n \in 0..Len(d) /\ n # 0 /\ \A j \in (n + 1)..Len(d) : d[j].kind # e.kind BY <1>2
  <2> QED BY <1>2, <2>1 DEF LastIs
<1>11. ASSUME NEW has, NEW kind, NEW x, kind # e.kind, LastIs(c, kind, has, x) PROVE LastIs(d, kind, has, x)
  <2>1. PICK i \in 0..n : /\ IF i = 0 THEN has = x ELSE c[i].kind = kind /\ c[i].v = x
                          /\ \A j \in (i + 1)..n : c[j].kind # kind
    BY <1>1, <1>11 DEF LastIs
  <2>2. IF i = 0 THEN has = x ELSE d[i].kind = kind /\ d[i].v = x
    <3>1. i # 0 => i \in 1..n /\ i # n BY <1>3, <1>11, <2>1
    <3> QED BY <1>2, <2>1, <3>1
  <2>3. \A j \in (i + 1)..n : d[j].kind # kind
    <3>1. \A j \in (i + 1)..n : j \in 1..n OBVIOUS
    <3> QED BY <1>6, <2>1, <3>1
  <2> QED BY <1>2, <2>2, <2>3 DEF LastIs
<1>12. w.shape # 0 => LastIs(d, "shape", h.shape, w.shape)
  <2>1. CASE e.kind = "shape" BY <1>5, <1>10, <2>1
  <2>2. CASE e.kind # "shape" BY <1>5, <1>11, <2>2 DEF ControlShows
  <2> QED BY <2>1, <2>2
<1>13. w.position # 0 => LastIs(d, "position", h.position, w.position)
  <2>1. CASE e.kind = "position" BY <1>5, <1>10, <2>1
  <2>2. CASE e.kind # "position" BY <1>5, <1>11, <2>2 DEF ControlShows
  <2> QED BY <2>1, <2>2
<1> QED BY <1>2, <1>4, <1>8, <1>9, <1>12, <1>13 DEF ControlShows

\* An event that ends a session takes the cursors before it out of the queue.
LEMMA CloseShows ==
  ASSUME NEW c \in Seq(Controls), NEW e \in Controls, e.kind \in Closers, NEW h, NEW v
  PROVE  /\ Append(DiscardPendingCursorEvents(c), e) \in Seq(Controls)
         /\ ControlShows(Append(DiscardPendingCursorEvents(c), e), h, AfterOutput(v, e))
         /\ CursorsOpen(Append(DiscardPendingCursorEvents(c), e), h.open)
<1>1. PICK d \in Seq(Controls) : d = DiscardPendingCursorEvents(c) /\ \A i \in 1..Len(d) : d[i].kind \notin CursorKinds
  BY DiscardKeeps
<1>2. PICK f \in Seq(Controls) : f = Append(d, e) /\ \A i \in 1..Len(f) : f[i].kind \notin CursorKinds
  <2>1. e.kind \notin CursorKinds BY DEF Closers, Terminals, CursorKinds
  <2>2. Append(d, e) \in Seq(Controls) OBVIOUS
  <2>3. \A i \in 1..Len(Append(d, e)) : Append(d, e)[i] = e \/ (i \in 1..Len(d) /\ Append(d, e)[i] = d[i]) OBVIOUS
  <2>4. \A i \in 1..Len(Append(d, e)) : Append(d, e)[i].kind \notin CursorKinds BY <1>1, <2>1, <2>3
  <2> QED BY <2>2, <2>4
<1>3. CursorsOpen(f, h.open) BY <1>2 DEF CursorsOpen
<1>4. ~AfterOutput(v, e).open /\ AfterOutput(v, e).shape = 0 /\ AfterOutput(v, e).position = 0
  BY DEF AfterOutput, View, Closers, Terminals
<1>5. ControlShows(f, h, AfterOutput(v, e)) BY <1>4 DEF ControlShows
<1> QED BY <1>1, <1>2, <1>3, <1>5

\* What the host becomes by an event.
Read(h, e) ==
  CASE e.kind = "connected" -> [h EXCEPT !.open = TRUE, !.faults = @ \cup Fault("late", h.ended)]
    [] e.kind = "reconnecting" -> [h EXCEPT !.open = FALSE, !.faults = @ \cup Fault("late", h.ended)]
    [] e.kind \in Terminals -> [h EXCEPT !.open = FALSE, !.ended = TRUE]
    [] e.kind = "frame" -> [h EXCEPT !.px = e.px, !.size = e.size, !.faults = @ \cup Fault("late", h.ended)]
    [] e.kind = "delta" -> [h EXCEPT !.px = Merged(@, e.px),
                                     !.faults = @ \cup Fault("late", h.ended) \cup Fault("delta", h.size # e.size)]
    [] e.kind = "shape" -> [h EXCEPT !.shape = e.v, !.faults = @ \cup Fault("cursor", ~h.open)]
    [] e.kind = "position" -> [h EXCEPT !.position = e.v, !.faults = @ \cup Fault("cursor", ~h.open)]
    [] OTHER -> h

LEMMA HostReadsIs == ASSUME NEW e, HostReads(e) PROVE host' = Read(host, e)
BY DEF HostReads, Read

\* The event at the head of the queue is read.
LEMMA ReadControl ==
  ASSUME NEW c \in Seq(Controls), c # <<>>, NEW h \in Hosts, NEW v, ControlShows(c, h, v), CursorsOpen(c, h.open),
         h.faults = {}, h.ended => Head(c).kind = "clipboard"
  PROVE  /\ Read(h, Head(c)) \in Hosts /\ Read(h, Head(c)).faults = {}
         /\ Read(h, Head(c)).px = h.px /\ Read(h, Head(c)).size = h.size
         /\ Read(h, Head(c)).ended = (h.ended \/ Head(c).kind \in Terminals)
         /\ ControlShows(Tail(c), Read(h, Head(c)), v) /\ CursorsOpen(Tail(c), Read(h, Head(c)).open)
<1>1. PICK m \in Nat, d \in Seq(Controls), e \in Controls :
        /\ d = Tail(c) /\ e = Head(c) /\ e = c[1] /\ Len(c) = m + 1 /\ Len(d) = m /\ \A i \in 1..m : d[i] = c[i + 1]
  <2>1. Len(c) \in Nat \ {0} /\ Tail(c) \in Seq(Controls) /\ Head(c) = c[1] /\ Head(c) \in Controls OBVIOUS
  <2>2. Len(c) - 1 \in Nat /\ (Len(c) - 1) + 1 = Len(c) /\ Len(Tail(c)) = Len(c) - 1 BY <2>1
  <2>3. \A i \in 1..(Len(c) - 1) : Tail(c)[i] = c[i + 1] OBVIOUS
  <2> QED BY <2>1, <2>2, <2>3
<1>2. e.kind \in {"connected", "reconnecting", "clipboard", "failure", "terminated", "shape", "position"}
  BY DEF Controls, Openings, Others, CursorEvents, Ends, CursorKinds, Terminals
<1>3. e.kind \in CursorKinds => h.open /\ e.v \in Cursors
  <2>1. SUFFICES ASSUME e.kind \in CursorKinds PROVE h.open /\ e.v \in Cursors OBVIOUS
  <2>2. OpenAt(c, h.open, 1)
    <3>1. 1 \in 1..Len(c) BY <1>1
    <3> QED BY <1>1, <2>1, <3>1 DEF CursorsOpen
  <2>3. h.open BY <2>2 DEF OpenAt
  <2>4. e.v \in Cursors BY <2>1 DEF Controls, Openings, Others, CursorEvents, Ends, CursorKinds, Terminals
  <2> QED BY <2>3, <2>4
<1>4. PICK g : g = Read(h, e) OBVIOUS
<1>5. /\ g \in Hosts /\ g.faults = {} /\ g.px = h.px /\ g.size = h.size /\ g.ended = (h.ended \/ e.kind \in Terminals)
      /\ g.open = IF e.kind = "connected" THEN TRUE ELSE IF e.kind \in Closers THEN FALSE ELSE h.open
      /\ g.shape = IF e.kind = "shape" THEN e.v ELSE h.shape
      /\ g.position = IF e.kind = "position" THEN e.v ELSE h.position
  <2>1. h.ended => e.kind = "clipboard" BY <1>1
  <2>2. CASE e.kind = "connected" BY <1>4, <2>1, <2>2 DEF Read, Hosts, Fault, Terminals, Closers
  <2>3. CASE e.kind = "reconnecting" BY <1>4, <2>1, <2>3 DEF Read, Hosts, Fault, Terminals, Closers
  <2>4. CASE e.kind = "clipboard" BY <1>4, <2>4 DEF Read, Hosts, Fault, Terminals, Closers
  <2>5. CASE e.kind \in Terminals BY <1>4, <2>5 DEF Read, Hosts, Fault, Terminals, Closers
  <2>6. CASE e.kind = "shape" BY <1>3, <1>4, <2>1, <2>6 DEF Read, Hosts, Fault, Terminals, Closers, CursorKinds, AnyCursor
  <2>7. CASE e.kind = "position" BY <1>3, <1>4, <2>1, <2>7 DEF Read, Hosts, Fault, Terminals, Closers, CursorKinds, AnyCursor
  <2> QED BY <1>2, <2>2, <2>3, <2>4, <2>5, <2>6, <2>7 DEF Terminals
<1>6. ASSUME NEW k \in Nat \ {0}, k <= m + 1, OpenAt(c, h.open, k + 1) PROVE OpenAt(d, g.open, k)
  <2>1. PICK i \in 0..k : /\ IF i = 0 THEN h.open ELSE c[i].kind = "connected"
                          /\ \A j \in (i + 1)..k : c[j].kind \notin Closers
    BY <1>6 DEF OpenAt
  <2>2. ASSUME NEW b \in 0..(k - 1), i <= b + 1 PROVE \A j \in (b + 1)..(k - 1) : d[j].kind \notin Closers
    <3> TAKE j \in (b + 1)..(k - 1)
    <3>1. j \in 1..m /\ j + 1 \in (i + 1)..k BY <1>6, <2>2
    <3> QED BY <1>1, <2>1, <3>1
  <2>3. CASE i \in {0, 1}
    <3>1. g.open
      <4>1. i = 0 => c[1].kind \notin Closers
        <5>1. i = 0 => 1 \in (i + 1)..k OBVIOUS
        <5> QED BY <2>1, <5>1
      <4> QED BY <1>1, <1>5, <2>1, <2>3, <4>1
    <3>2. 0 \in 0..(k - 1) /\ i <= 0 + 1 BY <2>3
    <3>3. \A j \in (0 + 1)..(k - 1) : d[j].kind \notin Closers BY <2>2, <3>2
    <3> QED BY <3>1, <3>2, <3>3 DEF OpenAt
  <2>4. CASE i \notin {0, 1}
    <3>1. PICK b \in 0..(k - 1) : b + 1 = i /\ b # 0 /\ b \in 1..m
      <4>1. i - 1 \in 0..(k - 1) /\ (i - 1) + 1 = i /\ i - 1 # 0 /\ i - 1 \in 1..m BY <1>6, <2>4
      <4> QED BY <4>1
    <3>2. d[b].kind = "connected" BY <1>1, <2>1, <3>1
    <3>3. \A j \in (b + 1)..(k - 1) : d[j].kind \notin Closers BY <2>2, <3>1
    <3> QED BY <3>1, <3>2, <3>3 DEF OpenAt
  <2> QED BY <2>3, <2>4
<1>7. ASSUME NEW kind, NEW has, NEW gets, NEW x, LastIs(c, kind, has, x),
             gets = IF e.kind = kind THEN e.v ELSE has
      PROVE  LastIs(d, kind, gets, x)
  <2>1. PICK i \in 0..(m + 1) : /\ IF i = 0 THEN has = x ELSE c[i].kind = kind /\ c[i].v = x
                                /\ \A j \in (i + 1)..(m + 1) : c[j].kind # kind
    BY <1>1, <1>7 DEF LastIs
  <2>2. ASSUME NEW b \in 0..m, i <= b + 1 PROVE \A j \in (b + 1)..m : d[j].kind # kind
    <3> TAKE j \in (b + 1)..m
    <3>1. j \in 1..m /\ j + 1 \in (i + 1)..(m + 1) BY <2>2
    <3> QED BY <1>1, <2>1, <3>1
  <2>3. CASE i \in {0, 1}
    <3>1. gets = x
      <4>1. i = 0 => c[1].kind # kind
        <5>1. i = 0 => 1 \in (i + 1)..(m + 1) OBVIOUS
        <5> QED BY <2>1, <5>1
      <4> QED BY <1>1, <1>7, <2>1, <2>3, <4>1
    <3>2. 0 \in 0..m /\ i <= 0 + 1 BY <2>3
    <3>3. \A j \in (0 + 1)..m : d[j].kind # kind BY <2>2, <3>2
    <3> QED BY <1>1, <3>1, <3>2, <3>3 DEF LastIs
  <2>4. CASE i \notin {0, 1}
    <3>1. PICK b \in 0..m : b + 1 = i /\ b # 0 /\ b \in 1..m
      <4>1. i - 1 \in 0..m /\ (i - 1) + 1 = i /\ i - 1 # 0 /\ i - 1 \in 1..m BY <2>4
      <4> QED BY <4>1
    <3>2. d[b].kind = kind /\ d[b].v = x BY <1>1, <2>1, <3>1
    <3>3. \A j \in (b + 1)..m : d[j].kind # kind BY <2>2, <3>1
    <3> QED BY <1>1, <3>1, <3>2, <3>3 DEF LastIs
  <2> QED BY <2>3, <2>4
<1>8. v.open => OpenAt(d, g.open, m + 1)
  <2>1. PICK k \in Nat \ {0} : k = m + 1 OBVIOUS
  <2>2. v.open => OpenAt(c, h.open, k + 1) BY <1>1, <2>1 DEF ControlShows
  <2>3. k <= m + 1 BY <2>1
  <2> QED BY <1>6, <2>1, <2>2, <2>3
<1>9. v.shape # 0 => LastIs(d, "shape", g.shape, v.shape) BY <1>5, <1>7 DEF ControlShows
<1>10. v.position # 0 => LastIs(d, "position", g.position, v.position) BY <1>5, <1>7 DEF ControlShows
<1>11. ASSUME NEW k \in 1..m, d[k].kind \in CursorKinds PROVE OpenAt(d, g.open, k)
  <2>1. k + 1 \in 1..Len(c) /\ c[k + 1].kind \in CursorKinds BY <1>1, <1>11
  <2>2. OpenAt(c, h.open, k + 1) BY <2>1 DEF CursorsOpen
  <2>3. k \in Nat \ {0} /\ k <= m + 1 OBVIOUS
  <2> QED BY <1>6, <2>2, <2>3
<1>12. ControlShows(d, g, v) BY <1>1, <1>8, <1>9, <1>10 DEF ControlShows
<1>13. CursorsOpen(d, g.open) BY <1>1, <1>11 DEF CursorsOpen
<1> QED BY <1>1, <1>4, <1>5, <1>12, <1>13
-----------------------------------------------------------------------------
(* The mailbox *)

\* What is shown of a mailbox after a send: the queue, the pictures and the rest.
SendOK(b, n, h, w) ==
  /\ n \in Boxes /\ n.alive = b.alive /\ n.senders = b.senders
  /\ BoxInv(n, h) /\ BoxShows(n, h, w)

LEMMA OutputKinds ==
  ASSUME NEW e \in Outputs
  PROVE  /\ e.kind = "frame" => e \in Frames
         /\ e.kind = "delta" => e \in Deltas
         /\ e.kind \notin {"frame", "delta"} => e \in Controls
         /\ e.kind \in {"frame", "delta", "connected", "reconnecting", "clipboard", "failure", "terminated", "shape", "position"}
<1>1. CASE e \in Frames BY <1>1 DEF Frames
<1>2. CASE e \in Deltas BY <1>2 DEF Deltas
<1>3. CASE e \in Controls BY <1>3 DEF Controls, Openings, Others, CursorEvents, Ends, CursorKinds, Terminals
<1> QED BY <1>1, <1>2, <1>3 DEF Outputs

LEMMA PictureIsSomething == ASSUME NEW e, e \in Frames \/ e \in Deltas \/ e \in Images PROVE e # NoPicture
BY DEF Frames, Deltas, Images, NoPicture

LEMMA SendFrameShows ==
  ASSUME NEW b \in Boxes, NEW h \in Hosts, NEW e \in Frames, NEW v, BoxShows(b, h, v), BoxInv(b, h)
  PROVE  SendOK(b, Send(b, e), h, AfterOutput(v, e))
<1>1. e.kind = "frame" /\ e # NoPicture BY PictureIsSomething DEF Frames
<1>2. PICK n : n = Send(b, e) OBVIOUS
<1>3. n = [b EXCEPT !.frame = e, !.delta = NoPicture] BY <1>1, <1>2 DEF Send, Terminals
<1>4. n \in Boxes /\ n.control = b.control /\ n.frame = e /\ n.delta = NoPicture /\ n.alive = b.alive /\ n.senders = b.senders
  BY <1>3 DEF Boxes
<1>5. PICK w : w = AfterOutput(v, e) OBVIOUS
<1>6. w.open = v.open /\ w.shape = v.shape /\ w.position = v.position /\ w.px = e.px /\ w.size = e.size
  BY <1>1, <1>5 DEF AfterOutput, View, Terminals
<1>7. PictureShows(n, h, w) /\ DeltaFits(n, h) BY <1>1, <1>4, <1>6 DEF PictureShows, DeltaFits, BoxPx, BasePx, BaseSize
<1>8. ControlShows(n.control, h, w) BY <1>4, <1>6 DEF BoxShows, ControlShows
<1> QED BY <1>2, <1>4, <1>5, <1>7, <1>8 DEF SendOK, BoxInv, BoxShows

LEMMA SendDeltaShows ==
  ASSUME NEW b \in Boxes, NEW h \in Hosts, NEW e \in Deltas, NEW v, BoxShows(b, h, v), BoxInv(b, h), OutputFits(v, e)
  PROVE  SendOK(b, Send(b, e), h, AfterOutput(v, e))
<1>1. e.kind = "delta" /\ e # NoPicture /\ e.px \in Pictures BY PictureIsSomething DEF Deltas
<1>2. PICK n, p : n = Send(b, e) /\ p = MergeDeltas(b.delta, e) OBVIOUS
<1>3. n = [b EXCEPT !.delta = p] BY <1>1, <1>2 DEF Send, Terminals
<1>4. v.size = e.size /\ v.size = BaseSize(b, h) /\ v.px = BoxPx(b, h) BY <1>1 DEF OutputFits, BoxShows, PictureShows
<1>5. p \in Deltas /\ p.size = e.size /\ Merged(BasePx(b, h), p.px) = Merged(v.px, e.px)
  <2>1. CASE b.delta = NoPicture BY <1>2, <1>4, <2>1 DEF MergeDeltas, BoxPx
  <2>2. CASE b.delta # NoPicture
    <3>1. b.delta \in Deltas BY <2>2 DEF Boxes
    <3>2. b.delta.size = e.size /\ b.delta.px \in Pictures BY <1>4, <2>2, <3>1 DEF BoxInv, DeltaFits, Deltas
    <3>3. p = [e EXCEPT !.px = Merged(b.delta.px, e.px)] BY <1>2, <2>2, <3>2 DEF MergeDeltas
    <3>4. Merged(b.delta.px, e.px) \in Pictures BY <1>1, <3>2, MergedIsPicture
    <3>5. p \in Deltas /\ p.size = e.size /\ p.px = Merged(b.delta.px, e.px) BY <3>3, <3>4 DEF Deltas
    <3>6. v.px = Merged(BasePx(b, h), b.delta.px) BY <1>4, <2>2 DEF BoxPx
    <3>7. Merged(BasePx(b, h), Merged(b.delta.px, e.px)) = Merged(Merged(BasePx(b, h), b.delta.px), e.px) BY MergedAssociates
    <3> QED BY <3>5, <3>6, <3>7
  <2> QED BY <2>1, <2>2
<1>6. n \in Boxes /\ n.control = b.control /\ n.frame = b.frame /\ n.delta = p /\ n.alive = b.alive /\ n.senders = b.senders
  BY <1>3, <1>5 DEF Boxes
<1>7. p # NoPicture BY <1>5, PictureIsSomething
<1>8. BasePx(n, h) = BasePx(b, h) /\ BaseSize(n, h) = BaseSize(b, h) BY <1>6 DEF BasePx, BaseSize
<1>9. PICK w : w = AfterOutput(v, e) OBVIOUS
<1>10. w.open = v.open /\ w.shape = v.shape /\ w.position = v.position /\ w.px = Merged(v.px, e.px) /\ w.size = v.size
  BY <1>1, <1>9 DEF AfterOutput, View, Terminals
<1>11. PictureShows(n, h, w) BY <1>4, <1>5, <1>6, <1>7, <1>8, <1>10 DEF PictureShows, BoxPx
<1>12. DeltaFits(n, h) BY <1>4, <1>5, <1>6, <1>8 DEF DeltaFits
<1>13. ControlShows(n.control, h, w) BY <1>6, <1>10 DEF BoxShows, ControlShows
<1> QED BY <1>2, <1>6, <1>9, <1>11, <1>12, <1>13 DEF SendOK, BoxInv, BoxShows

\* A change of the queue alone.
LEMMA QueueShows ==
  ASSUME NEW b \in Boxes, NEW h, NEW v, NEW w, NEW c \in Seq(Controls), BoxShows(b, h, v), BoxInv(b, h),
         ControlShows(c, h, w), CursorsOpen(c, h.open), w.px = v.px, w.size = v.size
  PROVE  SendOK(b, [b EXCEPT !.control = c], h, w)
<1>1. PICK n : n = [b EXCEPT !.control = c] OBVIOUS
<1>2. n \in Boxes /\ n.control = c /\ n.frame = b.frame /\ n.delta = b.delta /\ n.alive = b.alive /\ n.senders = b.senders
  BY <1>1 DEF Boxes
<1>3. PictureShows(n, h, w) /\ DeltaFits(n, h) BY <1>2 DEF BoxShows, BoxInv, PictureShows, DeltaFits, BoxPx, BasePx, BaseSize
<1> QED BY <1>1, <1>2, <1>3 DEF SendOK, BoxInv, BoxShows

LEMMA SendControlShows ==
  ASSUME NEW b \in Boxes, NEW h \in Hosts, NEW e \in Controls, e.kind \notin Terminals, NEW v,
         BoxShows(b, h, v), BoxInv(b, h), OutputFits(v, e)
  PROVE  SendOK(b, Send(b, e), h, AfterOutput(v, e))
<1>1. e.kind \in {"connected", "reconnecting", "clipboard", "shape", "position"}
  BY DEF Controls, Openings, Others, CursorEvents, Ends, CursorKinds
<1>2. b.control \in Seq(Controls) BY DEF Boxes
<1>3. ControlShows(b.control, h, v) /\ CursorsOpen(b.control, h.open) BY DEF BoxShows, BoxInv
<1>4. AfterOutput(v, e).px = v.px /\ AfterOutput(v, e).size = v.size BY <1>1 DEF AfterOutput, View, Terminals
<1>5. CASE e.kind = "reconnecting"
  <2>1. Send(b, e) = [b EXCEPT !.control = Append(DiscardPendingCursorEvents(b.control), e)]
    BY <1>5 DEF Send, Terminals, Boxes
  <2>2. e.kind \in Closers BY <1>5 DEF Closers
  <2>3. PICK c \in Seq(Controls) : /\ c = Append(DiscardPendingCursorEvents(b.control), e)
                                   /\ ControlShows(c, h, AfterOutput(v, e)) /\ CursorsOpen(c, h.open)
    BY <1>2, <2>2, CloseShows
  <2>4. Send(b, e) = [b EXCEPT !.control = c] BY <2>1, <2>3
  <2>5. SendOK(b, [b EXCEPT !.control = c], h, AfterOutput(v, e)) BY <1>4, <2>3, QueueShows
  <2> QED BY <2>4, <2>5
<1>6. CASE e.kind # "reconnecting"
  <2>1. Send(b, e) = [b EXCEPT !.control = EnqueueControl(b.control, e)]
    BY <1>1, <1>6 DEF Send, Terminals, Boxes
  <2>2. PICK c \in Seq(Controls) : /\ c = EnqueueControl(b.control, e)
                                   /\ ControlShows(c, h, AfterOutput(v, e)) /\ CursorsOpen(c, h.open)
    <3>1. CASE b.control # <<>> /\ Replaces(e, b.control[Len(b.control)])
      BY <1>2, <1>3, <3>1, ReplaceShows DEF EnqueueControl
    <3>2. CASE ~(b.control # <<>> /\ Replaces(e, b.control[Len(b.control)]))
      <4>1. e.kind \notin Closers BY <1>1, <1>6 DEF Closers
      <4>2. Append(b.control, e) \in Seq(Controls) BY <1>2
      <4>3. EnqueueControl(b.control, e) = Append(b.control, e) BY <3>2 DEF EnqueueControl
      <4> QED BY <1>2, <1>3, <4>1, <4>2, <4>3, AppendShows
    <3> QED BY <3>1, <3>2
  <2> QED BY <1>4, <2>1, <2>2, QueueShows
<1> QED BY <1>5, <1>6

LEMMA SendShows ==
  ASSUME NEW b \in Boxes, NEW h \in Hosts, NEW e \in Outputs, e.kind \notin Terminals, NEW v,
         BoxShows(b, h, v), BoxInv(b, h), OutputFits(v, e)
  PROVE  SendOK(b, Send(b, e), h, AfterOutput(v, e))
BY OutputKinds, SendFrameShows, SendDeltaShows, SendControlShows DEF Outputs

\* The end of the session takes the picture with it.
LEMMA SendEndShows ==
  ASSUME NEW b \in Boxes, NEW h \in Hosts, NEW e \in Outputs, e.kind \in Terminals
  PROVE  /\ SendOK(b, Send(b, e), h, View(FALSE, h.size, h.px, 0, 0))
         /\ Send(b, e).frame = NoPicture /\ Send(b, e).delta = NoPicture
         /\ Send(b, e).control = Append(DiscardPendingCursorEvents(b.control), e)
<1>1. e \in Controls /\ e.kind \notin {"frame", "delta", "reconnecting"} BY OutputKinds DEF Terminals
<1>2. b.control \in Seq(Controls) BY DEF Boxes
<1>3. PICK n : n = Send(b, e) OBVIOUS
<1>4. n = [b EXCEPT !.frame = NoPicture, !.delta = NoPicture, !.control = Append(DiscardPendingCursorEvents(b.control), e)]
  BY <1>1, <1>3 DEF Send, Boxes
<1>5. PICK w : w = View(FALSE, h.size, h.px, 0, 0) OBVIOUS
<1>6. e.kind \in Closers BY DEF Closers
<1>7. PICK c \in Seq(Controls) : c = Append(DiscardPendingCursorEvents(b.control), e) /\ CursorsOpen(c, h.open)
  BY <1>1, <1>2, <1>6, CloseShows
<1>8. n \in Boxes /\ n.control = c /\ n.frame = NoPicture /\ n.delta = NoPicture /\ n.alive = b.alive /\ n.senders = b.senders
  BY <1>4, <1>7 DEF Boxes
<1>9. ControlShows(c, h, w) BY <1>5 DEF ControlShows, View
<1>10. PictureShows(n, h, w) /\ DeltaFits(n, h) BY <1>5, <1>8 DEF PictureShows, DeltaFits, BoxPx, BasePx, BaseSize, View
<1> QED BY <1>3, <1>5, <1>7, <1>8, <1>9, <1>10 DEF SendOK, BoxInv, BoxShows

\* What is shown of a mailbox and a host after a read.
ReadOK(b, n, h, g, v) ==
  /\ n \in Boxes /\ n.alive = b.alive /\ n.senders = b.senders /\ g \in Hosts /\ g.faults = {}
  /\ BoxInv(n, g) /\ BoxShows(n, g, v)

LEMMA ReadControlShows ==
  ASSUME NEW b \in Boxes, NEW h \in Hosts, NEW v, BoxShows(b, h, v), BoxInv(b, h), h.faults = {},
         b.control # <<>>, h.ended => Head(b.control).kind = "clipboard"
  PROVE  /\ ReadOK(b, [b EXCEPT !.control = Tail(@)], h, Read(h, Head(b.control)), v)
         /\ Read(h, Head(b.control)).ended = (h.ended \/ Head(b.control).kind \in Terminals)
<1>1. PICK c \in Seq(Controls) : c = b.control BY DEF Boxes
<1>2. ControlShows(c, h, v) /\ CursorsOpen(c, h.open) BY <1>1 DEF BoxShows, BoxInv
<1>3. PICK g, d : g = Read(h, Head(c)) /\ d = Tail(c) OBVIOUS
<1>4. /\ g \in Hosts /\ g.faults = {} /\ g.px = h.px /\ g.size = h.size /\ g.ended = (h.ended \/ Head(c).kind \in Terminals)
      /\ ControlShows(d, g, v) /\ CursorsOpen(d, g.open)
  BY <1>1, <1>2, <1>3, ReadControl
<1>5. d \in Seq(Controls) BY <1>1, <1>3
<1>6. PICK n : n = [b EXCEPT !.control = d] OBVIOUS
<1>7. n \in Boxes /\ n.control = d /\ n.frame = b.frame /\ n.delta = b.delta /\ n.alive = b.alive /\ n.senders = b.senders
  BY <1>5, <1>6 DEF Boxes
<1>8. PictureShows(n, g, v) /\ DeltaFits(n, g)
  BY <1>4, <1>7 DEF BoxShows, BoxInv, PictureShows, DeltaFits, BoxPx, BasePx, BaseSize
<1>9. ReadOK(b, n, h, g, v) BY <1>4, <1>7, <1>8 DEF ReadOK, BoxInv, BoxShows
<1>10. n = [b EXCEPT !.control = Tail(@)] BY <1>1, <1>3, <1>6 DEF Boxes
<1> QED BY <1>1, <1>3, <1>4, <1>9, <1>10

LEMMA ReadFrameShows ==
  ASSUME NEW b \in Boxes, NEW h \in Hosts, NEW v, BoxShows(b, h, v), BoxInv(b, h), h.faults = {}, ~h.ended, b.frame # NoPicture
  PROVE  ReadOK(b, [b EXCEPT !.frame = NoPicture], h, Read(h, b.frame), v) /\ Read(h, b.frame).ended = h.ended
<1>1. b.frame \in Frames BY DEF Boxes
<1>2. PICK g, n : g = Read(h, b.frame) /\ n = [b EXCEPT !.frame = NoPicture] OBVIOUS
<1>3. b.frame.kind = "frame" /\ b.frame.px \in Pictures /\ b.frame.size \in DesktopSizes BY <1>1 DEF Frames
<1>4. g = [h EXCEPT !.px = b.frame.px, !.size = b.frame.size, !.faults = @ \cup Fault("late", h.ended)]
  BY <1>2, <1>3 DEF Read, Terminals
<1>5. /\ g \in Hosts /\ g.faults = {} /\ g.px = b.frame.px /\ g.size = b.frame.size /\ g.ended = h.ended
      /\ g.open = h.open /\ g.shape = h.shape /\ g.position = h.position
  BY <1>3, <1>4 DEF Hosts, Fault, AnySize
<1>6. n \in Boxes /\ n.control = b.control /\ n.frame = NoPicture /\ n.delta = b.delta /\ n.alive = b.alive /\ n.senders = b.senders
  BY <1>2 DEF Boxes
<1>7. PictureShows(n, g, v) /\ DeltaFits(n, g)
  BY <1>5, <1>6 DEF BoxShows, BoxInv, PictureShows, DeltaFits, BoxPx, BasePx, BaseSize
<1>8. ControlShows(n.control, g, v) /\ CursorsOpen(n.control, g.open) BY <1>5, <1>6 DEF BoxShows, BoxInv, ControlShows
<1> QED BY <1>2, <1>5, <1>6, <1>7, <1>8 DEF ReadOK, BoxInv, BoxShows

LEMMA ReadDeltaShows ==
  ASSUME NEW b \in Boxes, NEW h \in Hosts, NEW v, BoxShows(b, h, v), BoxInv(b, h), h.faults = {}, ~h.ended,
         b.frame = NoPicture, b.delta # NoPicture
  PROVE  ReadOK(b, [b EXCEPT !.delta = NoPicture], h, Read(h, b.delta), v) /\ Read(h, b.delta).ended = h.ended
<1>1. b.delta \in Deltas BY DEF Boxes
<1>2. PICK g, n : g = Read(h, b.delta) /\ n = [b EXCEPT !.delta = NoPicture] OBVIOUS
<1>3. b.delta.kind = "delta" /\ b.delta.px \in Pictures /\ b.delta.size = h.size
  BY <1>1 DEF Deltas, BoxInv, DeltaFits, BaseSize
<1>4. PICK p : p = Merged(h.px, b.delta.px) OBVIOUS
<1>5. p \in Pictures BY <1>3, <1>4, MergedIsPicture DEF Hosts
<1>6. g = [h EXCEPT !.px = p, !.faults = @ \cup Fault("late", h.ended) \cup Fault("delta", h.size # b.delta.size)]
  BY <1>2, <1>3, <1>4 DEF Read, Terminals, Hosts
<1>7. /\ g \in Hosts /\ g.faults = {} /\ g.px = p /\ g.size = h.size /\ g.ended = h.ended
      /\ g.open = h.open /\ g.shape = h.shape /\ g.position = h.position
  BY <1>3, <1>5, <1>6 DEF Hosts, Fault
<1>8. n \in Boxes /\ n.control = b.control /\ n.frame = NoPicture /\ n.delta = NoPicture /\ n.alive = b.alive /\ n.senders = b.senders
  BY <1>2 DEF Boxes
<1>9. PictureShows(n, g, v) /\ DeltaFits(n, g)
  BY <1>4, <1>7, <1>8 DEF BoxShows, PictureShows, DeltaFits, BoxPx, BasePx, BaseSize
<1>10. ControlShows(n.control, g, v) /\ CursorsOpen(n.control, g.open) BY <1>7, <1>8 DEF BoxShows, BoxInv, ControlShows
<1> QED BY <1>2, <1>7, <1>8, <1>9, <1>10 DEF ReadOK, BoxInv, BoxShows
-----------------------------------------------------------------------------
(* The mapper *)

\* The view after what the mapper makes of an event.
Mapped(m, e, v) ==
  CASE e.kind = "image" -> View(IF m.connected THEN v.open ELSE TRUE, e.size, e.px, IF m.connected \/ m.shape = 0 THEN v.shape ELSE m.shape,
                                IF m.connected \/ m.position = 0 THEN v.position ELSE m.position)
    [] e.kind = "region" -> IF m.connected /\ m.size = e.size /\ e.wellFormed
                            THEN View(v.open, v.size, Merged(v.px, e.px), v.shape, v.position) ELSE v
    [] e.kind = "shape" -> IF m.connected THEN View(v.open, v.size, v.px, e.v, v.position) ELSE v
    [] e.kind = "position" -> IF m.connected THEN View(v.open, v.size, v.px, v.shape, e.v) ELSE v
    [] OTHER -> View(FALSE, v.size, v.px, 0, 0)

\* The outputs of an event fit the view they find, and the mapper the one they leave;
\* the end of a session is told by the last, of an event that is one.
MapOK(m, e, v) ==
  /\ Map(m, e).m \in Mappers /\ Map(m, e).m.connected = (Map(m, e).m.size # 0)
  /\ Map(m, e).out \in Seq(Outputs) /\ OnlyLast(Map(m, e).out) /\ (e.kind \notin Terminals => NoEnds(Map(m, e).out))
  /\ Realises(v, Map(m, e).out, Mapped(m, e, v)) /\ MapperFits(Map(m, e).m, Mapped(m, e, v))

LEMMA EventKinds ==
  ASSUME NEW e \in Events
  PROVE  /\ e.kind = "image" => e \in Images
         /\ e.kind = "region" => e \in Regions
         /\ e.kind \in CursorKinds => e \in CursorEvents
         /\ e.kind \in Terminals => e \in Ends
         /\ e.kind \in {"image", "region", "shape", "position", "fallback", "failure", "terminated"}
<1>1. CASE e \in Images BY <1>1 DEF Images, CursorKinds, Terminals
<1>2. CASE e \in Regions BY <1>2 DEF Regions, CursorKinds, Terminals
<1>3. CASE e \in CursorEvents BY <1>3 DEF CursorEvents, CursorKinds, Terminals
<1>4. CASE e \in Fallbacks BY <1>4 DEF Fallbacks, CursorKinds, Terminals
<1>5. CASE e \in Ends BY <1>5 DEF Ends, CursorKinds, Terminals
<1> QED BY <1>1, <1>2, <1>3, <1>4, <1>5 DEF Events

\* An event that one output, or none, tells.
LEMMA OneOutput ==
  ASSUME NEW e \in Outputs, NEW v, OutputFits(v, e)
  PROVE  /\ <<e>> \in Seq(Outputs) /\ OnlyLast(<<e>>) /\ (e.kind \notin Terminals => NoEnds(<<e>>))
         /\ Realises(v, <<e>>, AfterOutput(v, e))
<1>1. <<e>> \in Seq(Outputs) /\ Len(<<e>>) = 1 /\ <<e>>[1] = e OBVIOUS
<1>2. OnlyLast(<<e>>) /\ (e.kind \notin Terminals => NoEnds(<<e>>)) BY <1>1 DEF OnlyLast, NoEnds
<1> QED BY <1>1, <1>2, OneStep

LEMMA NoOutput == ASSUME NEW v PROVE <<>> \in Seq(Outputs) /\ OnlyLast(<<>>) /\ NoEnds(<<>>) /\ Realises(v, <<>>, v)
<1>1. <<>> \in Seq(Outputs) /\ Len(<<>>) = 0 OBVIOUS
<1>2. OnlyLast(<<>>) /\ NoEnds(<<>>) BY <1>1 DEF OnlyLast, NoEnds
<1> QED BY <1>1, <1>2, NoPath

LEMMA OutputsJoin ==
  ASSUME NEW s \in Seq(Outputs), NEW q \in Seq(Outputs), NEW v, NEW w, NEW x, NoEnds(s), OnlyLast(q),
         Realises(v, s, w), Realises(w, q, x)
  PROVE  s \o q \in Seq(Outputs) /\ OnlyLast(s \o q) /\ (NoEnds(q) => NoEnds(s \o q)) /\ Realises(v, s \o q, x)
<1>1. PICK n \in Nat, m \in Nat : n = Len(s) /\ m = Len(q) OBVIOUS
<1>2. PICK u \in Seq(Outputs) : u = s \o q /\ Len(u) = n + m /\ (\A i \in 1..n : u[i] = s[i]) /\ (\A i \in 1..m : u[n + i] = q[i])
  <2>1. /\ s \o q \in Seq(Outputs) /\ Len(s \o q) = n + m
        /\ (\A i \in 1..n : (s \o q)[i] = s[i]) /\ (\A i \in 1..m : (s \o q)[n + i] = q[i]) BY <1>1
  <2> QED BY <2>1
<1>3. ASSUME NEW i \in 1..(n + m) PROVE i \in 1..n \/ \E k \in 1..m : i = n + k
  <2>1. i > n => i - n \in 1..m /\ i = n + (i - n) OBVIOUS
  <2> QED BY <2>1
<1>4. OnlyLast(u)
  <2>1. ASSUME NEW i \in 1..(n + m), u[i].kind \in Terminals PROVE i = n + m
    <3>1. i \notin 1..n BY <1>1, <1>2, <2>1 DEF NoEnds
    <3>2. PICK k \in 1..m : i = n + k BY <1>3, <3>1
    <3>3. q[k].kind \in Terminals BY <1>2, <2>1, <3>2
    <3>4. k = m BY <1>1, <3>3 DEF OnlyLast
    <3> QED BY <3>2, <3>4
  <2> QED BY <1>2, <2>1 DEF OnlyLast
<1>5. ASSUME NoEnds(q) PROVE NoEnds(u)
  <2>1. ASSUME NEW i \in 1..(n + m) PROVE u[i].kind \notin Terminals
    <3>1. CASE i \in 1..n BY <1>1, <1>2, <3>1 DEF NoEnds
    <3>2. CASE i \notin 1..n
      <4>1. PICK k \in 1..m : i = n + k BY <1>3, <3>2
      <4> QED BY <1>1, <1>2, <1>5, <4>1 DEF NoEnds
    <3> QED BY <3>1, <3>2
  <2> QED BY <1>2, <2>1 DEF NoEnds
<1>6. Realises(v, u, x) BY <1>2, PathsJoin
<1> QED BY <1>2, <1>4, <1>5, <1>6

\* The outputs of a held cursor.
LEMMA HeldCursorFits ==
  ASSUME NEW m \in Mappers, NEW v, v.open
  PROVE  /\ HeldCursor(m) \in Seq(Outputs) /\ OnlyLast(HeldCursor(m)) /\ NoEnds(HeldCursor(m))
         /\ Realises(v, HeldCursor(m), IF m.shape = 0 /\ m.position = 0 THEN v
                                       ELSE View(v.open, v.size, v.px, IF m.shape = 0 THEN v.shape ELSE m.shape,
                                                 IF m.position = 0 THEN v.position ELSE m.position))
<1> DEFINE a == IF m.shape = 0 THEN <<>> ELSE <<[kind |-> "shape", v |-> m.shape]>>
           b == IF m.position = 0 THEN <<>> ELSE <<[kind |-> "position", v |-> m.position]>>
           w == IF m.shape = 0 THEN v ELSE View(v.open, v.size, v.px, m.shape, v.position)
           x == IF m.position = 0 THEN w ELSE View(w.open, w.size, w.px, w.shape, m.position)
<1>1. a \in Seq(Outputs) /\ OnlyLast(a) /\ NoEnds(a) /\ Realises(v, a, w) /\ w.open
  <2>1. CASE m.shape = 0 BY <2>1, NoOutput
  <2>2. CASE m.shape # 0
    <3>1. PICK e : e = [kind |-> "shape", v |-> m.shape] OBVIOUS
    <3>2. e \in Outputs /\ e.kind \notin Terminals
      BY <2>2, <3>1 DEF Outputs, Controls, CursorEvents, CursorKinds, Terminals, Mappers, AnyCursor
    <3>3. OutputFits(v, e) /\ AfterOutput(v, e) = View(v.open, v.size, v.px, m.shape, v.position)
      BY <3>1 DEF OutputFits, AfterOutput, Terminals
    <3>4. a = <<e>> /\ w = AfterOutput(v, e) BY <2>2, <3>1, <3>3
    <3>5. w.open BY <2>2 DEF View
    <3> HIDE DEF a, w
    <3> QED BY <3>2, <3>3, <3>4, <3>5, OneOutput
  <2> QED BY <2>1, <2>2
<1> HIDE DEF w
<1>2. b \in Seq(Outputs) /\ OnlyLast(b) /\ NoEnds(b) /\ Realises(w, b, x)
  <2>1. CASE m.position = 0 BY <2>1, NoOutput
  <2>2. CASE m.position # 0
    <3>1. PICK e : e = [kind |-> "position", v |-> m.position] OBVIOUS
    <3>2. e \in Outputs /\ e.kind \notin Terminals
      BY <2>2, <3>1 DEF Outputs, Controls, CursorEvents, CursorKinds, Terminals, Mappers, AnyCursor
    <3>3. OutputFits(w, e) /\ AfterOutput(w, e) = View(w.open, w.size, w.px, w.shape, m.position)
      BY <1>1, <3>1 DEF OutputFits, AfterOutput, Terminals
    <3>4. b = <<e>> /\ x = AfterOutput(w, e) BY <2>2, <3>1, <3>3
    <3> HIDE DEF b, x
    <3> QED BY <3>2, <3>3, <3>4, OneOutput
  <2> QED BY <2>1, <2>2
<1>3. HeldCursor(m) = a \o b BY DEF HeldCursor
<1>4. x = IF m.shape = 0 /\ m.position = 0 THEN v
          ELSE View(v.open, v.size, v.px, IF m.shape = 0 THEN v.shape ELSE m.shape,
                    IF m.position = 0 THEN v.position ELSE m.position)
  BY DEF View, w
<1> HIDE DEF a, b, x
<1>5. a \o b \in Seq(Outputs) /\ OnlyLast(a \o b) /\ NoEnds(a \o b) /\ Realises(v, a \o b, x) BY <1>1, <1>2, OutputsJoin
<1> QED BY <1>3, <1>4, <1>5

LEMMA MapImageOK ==
  ASSUME NEW m \in Mappers, m.connected = (m.size # 0), NEW e \in Images, NEW v, MapperFits(m, v)
  PROVE  MapOK(m, e, v)
<1>1. e.kind = "image" /\ e.size \in DesktopSizes /\ e.size # 0 /\ e.px \in Pictures
  BY ImageIsPicture, OutputAssumption DEF Images
<1>2. PICK f : f = [kind |-> "frame", size |-> e.size, px |-> e.px] OBVIOUS
<1>3. f \in Outputs /\ f.kind = "frame" /\ f.kind \notin Terminals BY <1>1, <1>2 DEF Outputs, Frames, Terminals
<1>4. \A u : OutputFits(u, f) /\ AfterOutput(u, f) = View(u.open, e.size, e.px, u.shape, u.position)
  BY <1>2 DEF OutputFits, AfterOutput, CursorKinds, Terminals
<1>5. Map(m, e) = MapImage(m, e) BY <1>1 DEF Map, CursorKinds, Terminals
<1>6. PICK w : w = Mapped(m, e, v) OBVIOUS
<1>7. w = View(IF m.connected THEN v.open ELSE TRUE, e.size, e.px, IF m.connected \/ m.shape = 0 THEN v.shape ELSE m.shape,
               IF m.connected \/ m.position = 0 THEN v.position ELSE m.position)
  BY <1>1, <1>6 DEF Mapped
<1>8. CASE m.connected
  <2>1. PICK n : n = [m EXCEPT !.size = e.size] OBVIOUS
  <2>2. n \in Mappers /\ n.connected /\ n.size = e.size BY <1>1, <1>8, <2>1 DEF Mappers, AnySize
  <2>3. Map(m, e).m = n /\ Map(m, e).out = <<f>> BY <1>2, <1>5, <1>8, <2>1 DEF MapImage
  <2>4. w = AfterOutput(v, f) BY <1>4, <1>7, <1>8
  <2>5. w.open /\ w.size = e.size BY <1>7, <1>8 DEF View, MapperFits
  <2>6. <<f>> \in Seq(Outputs) /\ OnlyLast(<<f>>) /\ NoEnds(<<f>>) /\ Realises(v, <<f>>, w) BY <1>3, <1>4, <2>4, OneOutput
  <2> QED BY <1>1, <1>6, <2>2, <2>3, <2>5, <2>6 DEF MapOK, MapperFits, Mappers
<1>9. CASE ~m.connected
  <2>1. PICK n : n = [connected |-> TRUE, size |-> e.size, shape |-> 0, position |-> 0] OBVIOUS
  <2>2. n \in Mappers /\ n.connected /\ n.size = e.size BY <1>1, <2>1 DEF Mappers, AnySize, AnyCursor
  <2>3. PICK o : o = [kind |-> "connected", size |-> e.size] OBVIOUS
  <2>4. Map(m, e).m = n /\ Map(m, e).out = <<o>> \o HeldCursor(m) \o <<f>> BY <1>2, <1>5, <1>9, <2>1, <2>3 DEF MapImage
  <2>5. o \in Outputs /\ o.kind \notin Terminals BY <1>1, <2>3 DEF Outputs, Controls, Openings, Terminals
  <2>6. PICK v1 : v1 = View(TRUE, v.size, v.px, v.shape, v.position) OBVIOUS
  <2>7. OutputFits(v, o) /\ AfterOutput(v, o) = v1 BY <2>3, <2>6 DEF OutputFits, AfterOutput, CursorKinds, Terminals
  <2>8. <<o>> \in Seq(Outputs) /\ NoEnds(<<o>>) /\ Realises(v, <<o>>, v1) BY <2>5, <2>7, OneOutput
  <2>9. v1.open = TRUE /\ v1.size = v.size /\ v1.px = v.px /\ v1.shape = v.shape /\ v1.position = v.position BY <2>6 DEF View
  <2>10. PICK c, v2 :
           /\ c \in Seq(Outputs) /\ c = HeldCursor(m) /\ OnlyLast(c) /\ NoEnds(c) /\ Realises(v1, c, v2)
           /\ v2 = IF m.shape = 0 /\ m.position = 0 THEN v1
                   ELSE View(v1.open, v1.size, v1.px, IF m.shape = 0 THEN v1.shape ELSE m.shape,
                             IF m.position = 0 THEN v1.position ELSE m.position)
    BY <2>9, HeldCursorFits
  <2>11. /\ v2.open = TRUE /\ v2.shape = (IF m.shape = 0 THEN v.shape ELSE m.shape)
         /\ v2.position = (IF m.position = 0 THEN v.position ELSE m.position)
    BY <2>9, <2>10 DEF View
  <2>12. w = AfterOutput(v2, f) BY <1>4, <1>7, <1>9, <2>11
  <2>13. <<f>> \in Seq(Outputs) /\ OnlyLast(<<f>>) /\ NoEnds(<<f>>) /\ Realises(v2, <<f>>, w) BY <1>3, <1>4, <2>12, OneOutput
  <2>14. PICK q \in Seq(Outputs) : q = <<o>> \o c /\ NoEnds(q) /\ Realises(v, q, v2) BY <2>8, <2>10, OutputsJoin
  <2>15. PICK u \in Seq(Outputs) : u = q \o <<f>> /\ OnlyLast(u) /\ NoEnds(u) /\ Realises(v, u, w) BY <2>13, <2>14, OutputsJoin
  <2>16. Map(m, e).out = u BY <2>4, <2>10, <2>14, <2>15
  <2>17. w.open /\ w.size = e.size BY <1>7, <1>9 DEF View
  <2> QED BY <1>1, <1>6, <2>2, <2>4, <2>15, <2>16, <2>17 DEF MapOK, MapperFits, Mappers
<1> QED BY <1>8, <1>9

\* The other events: one output or none.
LEMMA MapOneOK ==
  ASSUME NEW m, NEW e, NEW v, NEW n \in Mappers, n.connected = (n.size # 0), NEW o \in Outputs,
         Map(m, e) = [m |-> n, out |-> <<o>>], OutputFits(v, o), o.kind \in Terminals => e.kind \in Terminals,
         Mapped(m, e, v) = AfterOutput(v, o), MapperFits(n, AfterOutput(v, o))
  PROVE  MapOK(m, e, v)
<1>1. /\ <<o>> \in Seq(Outputs) /\ OnlyLast(<<o>>) /\ (o.kind \notin Terminals => NoEnds(<<o>>))
      /\ Realises(v, <<o>>, AfterOutput(v, o))
  BY OneOutput
<1>2. Map(m, e).m = n /\ Map(m, e).out = <<o>> OBVIOUS
<1> QED BY <1>1, <1>2 DEF MapOK

LEMMA MapNoneOK ==
  ASSUME NEW m, NEW e, NEW v, NEW n \in Mappers, n.connected = (n.size # 0),
         Map(m, e) = [m |-> n, out |-> <<>>], Mapped(m, e, v) = v, MapperFits(n, v)
  PROVE  MapOK(m, e, v)
<1>1. <<>> \in Seq(Outputs) /\ OnlyLast(<<>>) /\ NoEnds(<<>>) /\ Realises(v, <<>>, v) BY NoOutput
<1>2. Map(m, e).m = n /\ Map(m, e).out = <<>> OBVIOUS
<1> QED BY <1>1, <1>2 DEF MapOK

LEMMA MapFits ==
  ASSUME NEW m \in Mappers, m.connected = (m.size # 0), NEW e \in Events, NEW v, MapperFits(m, v)
  PROVE  MapOK(m, e, v)
<1>1. e.kind \in {"image", "region", "shape", "position", "fallback", "failure", "terminated"} BY EventKinds
<1>2. CASE e.kind = "image" BY <1>2, EventKinds, MapImageOK
<1>3. CASE e.kind = "region"
  <2>1. e \in Regions /\ e.px \in Pictures /\ e.size \in AnySize BY <1>3, EventKinds DEF Regions
  <2>2. Map(m, e) = MapRegion(m, e) BY <1>3 DEF Map, CursorKinds, Terminals
  <2>3. CASE m.connected /\ m.size = e.size /\ e.wellFormed
    <3>1. PICK o : o = [kind |-> "delta", size |-> e.size, px |-> e.px] OBVIOUS
    <3>2. o \in Outputs /\ o.kind \notin Terminals BY <2>1, <3>1 DEF Outputs, Deltas, Terminals
    <3>3. Map(m, e) = [m |-> m, out |-> <<o>>] BY <2>2, <2>3, <3>1 DEF MapRegion
    <3>4. OutputFits(v, o) BY <2>3, <3>1 DEF OutputFits, MapperFits, CursorKinds
    <3>5. AfterOutput(v, o) = View(v.open, v.size, Merged(v.px, e.px), v.shape, v.position) BY <3>1 DEF AfterOutput, Terminals
    <3>6. Mapped(m, e, v) = AfterOutput(v, o) BY <1>3, <2>3, <3>5 DEF Mapped
    <3>7. MapperFits(m, AfterOutput(v, o)) BY <3>5 DEF MapperFits, View
    <3> QED BY <3>2, <3>3, <3>4, <3>6, <3>7, MapOneOK
  <2>4. CASE ~(m.connected /\ m.size = e.size /\ e.wellFormed)
    <3>1. Map(m, e) = [m |-> m, out |-> <<>>] BY <2>2, <2>4 DEF MapRegion
    <3>2. Mapped(m, e, v) = v BY <1>3, <2>4 DEF Mapped
    <3> QED BY <3>1, <3>2, MapNoneOK
  <2> QED BY <2>3, <2>4
<1>4. CASE e.kind \in CursorKinds
  <2>1. e \in CursorEvents /\ e.v \in Cursors BY <1>4, EventKinds DEF CursorEvents
  <2>2. Map(m, e) = MapCursor(m, e) BY <1>4 DEF Map, CursorKinds, Terminals
  <2>3. CASE m.connected
    <3>1. e \in Outputs /\ e.kind \notin Terminals BY <1>4, <2>1 DEF Outputs, Controls, CursorKinds, Terminals
    <3>2. Map(m, e) = [m |-> m, out |-> <<e>>] BY <2>2, <2>3 DEF MapCursor
    <3>3. OutputFits(v, e) BY <1>4, <2>3 DEF OutputFits, MapperFits, CursorKinds
    <3>4. Mapped(m, e, v) = AfterOutput(v, e) BY <1>4, <2>3 DEF Mapped, AfterOutput, CursorKinds, Terminals
    <3>5. AfterOutput(v, e).open = v.open /\ AfterOutput(v, e).size = v.size BY <1>4 DEF AfterOutput, CursorKinds, Terminals, View
    <3>6. MapperFits(m, AfterOutput(v, e)) BY <3>5 DEF MapperFits
    <3> QED BY <3>1, <3>2, <3>3, <3>4, <3>6, MapOneOK
  <2>4. CASE ~m.connected
    <3>1. PICK n : n = IF e.kind = "shape" THEN [m EXCEPT !.shape = e.v] ELSE [m EXCEPT !.position = e.v] OBVIOUS
    <3>2. n \in Mappers /\ n.connected = m.connected /\ n.size = m.size BY <2>1, <3>1 DEF Mappers, AnyCursor
    <3>3. Map(m, e) = [m |-> n, out |-> <<>>] BY <2>2, <2>4, <3>1 DEF MapCursor
    <3>4. Mapped(m, e, v) = v BY <1>4, <2>4 DEF Mapped, CursorKinds
    <3>5. MapperFits(n, v) BY <2>4, <3>2 DEF MapperFits
    <3> QED BY <3>2, <3>3, <3>4, <3>5, MapNoneOK
  <2> QED BY <2>3, <2>4
<1>5. CASE e.kind \in {"fallback", "failure", "terminated"}
  <2>1. PICK o : o = IF e.kind = "fallback" THEN [kind |-> "reconnecting"] ELSE e OBVIOUS
  <2>2. e.kind # "fallback" => e \in Ends BY <1>5, EventKinds DEF Terminals
  <2>3. o \in Outputs BY <2>1, <2>2 DEF Outputs, Controls, Others
  <2>4. o.kind \in Closers /\ (o.kind \in Terminals => e.kind \in Terminals) BY <1>5, <2>1 DEF Closers, Terminals
  <2>5. Map(m, e) = [m |-> NewMapper, out |-> <<o>>] BY <1>5, <2>1 DEF Map, CursorKinds, Terminals
  <2>6. NewMapper \in Mappers /\ ~NewMapper.connected /\ NewMapper.size = 0 BY DEF NewMapper, Mappers, AnySize, AnyCursor
  <2>7. OutputFits(v, o) BY <2>4 DEF OutputFits, Closers, Terminals, CursorKinds
  <2>8. AfterOutput(v, o) = View(FALSE, v.size, v.px, 0, 0) BY <2>4 DEF AfterOutput, Closers, Terminals
  <2>9. Mapped(m, e, v) = AfterOutput(v, o) BY <1>5, <2>8 DEF Mapped
  <2>10. MapperFits(NewMapper, AfterOutput(v, o)) BY <2>6 DEF MapperFits
  <2>11. NewMapper.connected = (NewMapper.size # 0) BY DEF NewMapper
  <2> QED BY <2>3, <2>4, <2>5, <2>6, <2>7, <2>9, <2>10, <2>11, MapOneOK
<1> QED BY <1>1, <1>2, <1>3, <1>4, <1>5 DEF CursorKinds
-----------------------------------------------------------------------------
(* What the mapper keeps shown *)

LEMMA AfterEventIsDesktop == ASSUME NEW r \in Desktops, NEW e \in Events PROVE AfterEvent(r, e) \in Desktops
<1>1. e.kind \in {"image", "region", "shape", "position", "fallback", "failure", "terminated"} BY EventKinds
<1>2. CASE e.kind = "image"
  <2>1. e.px \in [Cells -> Pixels \cup {0}] /\ e.size \in AnySize BY <1>2, EventKinds, ImageIsPicture DEF Images, AnySize
  <2> QED BY <1>2, <2>1 DEF AfterEvent, Desktops
<1>3. CASE e.kind = "region"
  <2>1. r.px \in [Cells -> Pixels \cup {0}] /\ e.px \in Pictures BY <1>3, EventKinds DEF Regions, Desktops
  <2>2. PICK p : p = Merged(r.px, e.px) OBVIOUS
  <2>3. p \in [Cells -> Pixels \cup {0}] BY <2>1, <2>2, MergedIsDesktop
  <2>4. AfterEvent(r, e) = IF e.wellFormed /\ e.size = r.size THEN [r EXCEPT !.px = p] ELSE r
    BY <1>3, <2>2 DEF AfterEvent, Desktops
  <2> QED BY <2>3, <2>4 DEF Desktops
<1>4. CASE e.kind \in CursorKinds
  <2>1. e.v \in AnyCursor BY <1>4, EventKinds DEF CursorEvents, AnyCursor
  <2> QED BY <1>4, <2>1 DEF AfterEvent, Desktops, CursorKinds
<1>5. CASE e.kind \in {"fallback", "failure", "terminated"} BY <1>5 DEF AfterEvent, Desktops, AnyCursor
<1> QED BY <1>1, <1>2, <1>3, <1>4, <1>5 DEF CursorKinds

\* The pending image is told: it is what was to be shown.
LEMMA FlushShows ==
  ASSUME NEW m \in Mappers, NEW p \in Images, NEW r \in Desktops, NEW v, Shown(m, p, r, v)
  PROVE  Shown(Map(m, p).m, NoPicture, r, Mapped(m, p, v))
<1>1. p.kind = "image" /\ p # NoPicture BY PictureIsSomething DEF Images
<1>2. Map(m, p) = MapImage(m, p) BY <1>1 DEF Map, CursorKinds, Terminals
<1>3. PICK w : w = Mapped(m, p, v) OBVIOUS
<1>4. w = View(IF m.connected THEN v.open ELSE TRUE, p.size, p.px, IF m.connected \/ m.shape = 0 THEN v.shape ELSE m.shape,
               IF m.connected \/ m.position = 0 THEN v.position ELSE m.position)
  BY <1>1, <1>3 DEF Mapped
<1>5. /\ w.px = p.px /\ w.shape = (IF m.connected \/ m.shape = 0 THEN v.shape ELSE m.shape)
      /\ w.position = (IF m.connected \/ m.position = 0 THEN v.position ELSE m.position)
  BY <1>4 DEF View
<1>6. PICK n : n = Map(m, p).m OBVIOUS
<1>7. n.connected /\ n.size = p.size BY <1>2, <1>6 DEF MapImage, Mappers
<1>8. r.base /\ r.px = p.px /\ r.size = p.size BY <1>1 DEF Shown
<1>9. (r.shape # 0 => w.shape = r.shape) /\ (r.position # 0 => w.position = r.position) BY <1>5 DEF Shown
<1> QED BY <1>3, <1>5, <1>6, <1>7, <1>8, <1>9 DEF Shown

\* An image waits: it is what will be shown, whatever waited before.
LEMMA ImageShows ==
  ASSUME NEW m, NEW p, NEW e \in Images, NEW r \in Desktops, NEW v, Shown(m, p, r, v)
  PROVE  Shown(m, e, AfterEvent(r, e), v)
<1>1. e.kind = "image" /\ e # NoPicture BY PictureIsSomething DEF Images
<1>2. PICK q : q = AfterEvent(r, e) OBVIOUS
<1>3. q = [r EXCEPT !.px = e.px, !.size = e.size, !.base = TRUE] BY <1>1, <1>2 DEF AfterEvent
<1>4. q.px = e.px /\ q.size = e.size /\ q.base = TRUE /\ q.shape = r.shape /\ q.position = r.position BY <1>3 DEF Desktops
<1> QED BY <1>1, <1>2, <1>4 DEF Shown

\* A cursor overtakes the image that waits.
LEMMA CursorShows ==
  ASSUME NEW m \in Mappers, NEW p, NEW e \in CursorEvents, NEW r \in Desktops, NEW v, Shown(m, p, r, v)
  PROVE  Shown(Map(m, e).m, p, AfterEvent(r, e), Mapped(m, e, v))
<1>1. e.kind \in CursorKinds BY DEF CursorEvents
<1>2. Map(m, e) = MapCursor(m, e) BY <1>1 DEF Map, CursorKinds, Terminals
<1>3. PICK q, n, w : q = AfterEvent(r, e) /\ n = Map(m, e).m /\ w = Mapped(m, e, v) OBVIOUS
<1>4. /\ q.px = r.px /\ q.size = r.size /\ q.base = r.base
      /\ q.shape = (IF e.kind = "shape" THEN e.v ELSE r.shape) /\ q.position = (IF e.kind = "position" THEN e.v ELSE r.position)
  BY <1>1, <1>3 DEF AfterEvent, CursorKinds, Desktops
<1>5. CASE m.connected
  <2>1. n = m BY <1>2, <1>3, <1>5 DEF MapCursor
  <2>2. w = IF e.kind = "shape" THEN View(v.open, v.size, v.px, e.v, v.position) ELSE View(v.open, v.size, v.px, v.shape, e.v)
    BY <1>1, <1>3, <1>5 DEF Mapped, CursorKinds
  <2>3. /\ w.px = v.px /\ w.shape = (IF e.kind = "shape" THEN e.v ELSE v.shape)
        /\ w.position = (IF e.kind = "shape" THEN v.position ELSE e.v)
    BY <2>2 DEF View
  <2> QED BY <1>1, <1>3, <1>4, <1>5, <2>1, <2>3 DEF Shown, CursorKinds
<1>6. CASE ~m.connected
  <2>1. n = IF e.kind = "shape" THEN [m EXCEPT !.shape = e.v] ELSE [m EXCEPT !.position = e.v]
    BY <1>2, <1>3, <1>6 DEF MapCursor
  <2>2. /\ ~n.connected /\ n.shape = (IF e.kind = "shape" THEN e.v ELSE m.shape)
        /\ n.position = (IF e.kind = "shape" THEN m.position ELSE e.v)
    BY <1>6, <2>1 DEF Mappers
  <2> QED BY <1>1, <1>3, <1>4, <1>6, <2>2 DEF Shown, CursorKinds
<1> QED BY <1>5, <1>6

\* A region is told over its image, and left out when there is none.
LEMMA RegionShows ==
  ASSUME NEW m \in Mappers, NEW e \in Regions, NEW r \in Desktops, NEW v, Shown(m, NoPicture, r, v), EventFits(r, e)
  PROVE  Shown(Map(m, e).m, NoPicture, AfterEvent(r, e), Mapped(m, e, v))
<1>1. e.kind = "region" BY DEF Regions
<1>2. Map(m, e).m = m BY <1>1 DEF Map, MapRegion, CursorKinds, Terminals
<1>3. CASE e.wellFormed /\ e.size = r.size
  <2>1. r.base /\ m.connected /\ m.size = r.size /\ v.px = r.px BY <1>1, <1>3 DEF EventFits, Shown
  <2>2. PICK q, w, p : q = AfterEvent(r, e) /\ w = Mapped(m, e, v) /\ p = Merged(r.px, e.px) OBVIOUS
  <2>3. q = [r EXCEPT !.px = p] BY <1>1, <1>3, <2>2 DEF AfterEvent, Desktops
  <2>4. q.px = p /\ q.size = r.size /\ q.base = r.base /\ q.shape = r.shape /\ q.position = r.position BY <2>3 DEF Desktops
  <2>5. w = View(v.open, v.size, p, v.shape, v.position) BY <1>1, <1>3, <2>1, <2>2 DEF Mapped
  <2>6. w.px = p /\ w.shape = v.shape /\ w.position = v.position BY <2>5 DEF View
  <2> QED BY <1>2, <2>1, <2>2, <2>4, <2>6 DEF Shown
<1>4. CASE ~(e.wellFormed /\ e.size = r.size)
  <2>1. AfterEvent(r, e) = r BY <1>1, <1>4 DEF AfterEvent
  <2>2. ~(m.connected /\ m.size = e.size /\ e.wellFormed) BY <1>4 DEF Shown
  <2>3. Mapped(m, e, v) = v BY <1>1, <2>2 DEF Mapped
  <2> QED BY <1>2, <2>1, <2>3
<1> QED BY <1>3, <1>4

\* The session is set up again: nothing is shown of it.
LEMMA FallbackShows ==
  ASSUME NEW m, NEW e, e.kind = "fallback", NEW r \in Desktops, NEW w
  PROVE  Shown(Map(m, e).m, NoPicture, AfterEvent(r, e), w)
<1>1. Map(m, e).m = NewMapper BY DEF Map, CursorKinds, Terminals
<1>2. PICK q : q = AfterEvent(r, e) OBVIOUS
<1>3. q = [r EXCEPT !.shape = 0, !.position = 0, !.base = FALSE] BY <1>2 DEF AfterEvent
<1>4. q.shape = 0 /\ q.position = 0 /\ q.base = FALSE BY <1>3 DEF Desktops
<1>5. ~NewMapper.connected /\ NewMapper.shape = 0 /\ NewMapper.position = 0 BY DEF NewMapper
<1> QED BY <1>1, <1>2, <1>4, <1>5 DEF Shown
-----------------------------------------------------------------------------
(* What is published *)

MapperAfter(m, e) == IF e = NoPicture THEN m ELSE Map(m, e).m
ViewAfter(m, e, v) == IF e = NoPicture THEN v ELSE Mapped(m, e, v)

PublishedOK(acc, v, w) ==
  /\ acc.m \in Mappers /\ acc.m.connected = (acc.m.size # 0) /\ acc.out \in Seq(Outputs) /\ OnlyLast(acc.out)
  /\ Realises(v, acc.out, w) /\ MapperFits(acc.m, w)

LEMMA PublishOne ==
  ASSUME NEW acc, NEW v, NEW w, PublishedOK(acc, v, w), NoEnds(acc.out), NEW e \in Events \cup {NoPicture}
  PROVE  /\ PublishedOK(PublishOutputEvent(acc, e), v, ViewAfter(acc.m, e, w))
         /\ PublishOutputEvent(acc, e).m = MapperAfter(acc.m, e)
         /\ e.kind \notin Terminals => NoEnds(PublishOutputEvent(acc, e).out)
<1>1. CASE e = NoPicture BY <1>1 DEF PublishOutputEvent, ViewAfter, MapperAfter
<1>2. CASE e # NoPicture
  <2>1. e \in Events BY <1>2
  <2>2. PICK m, s : m = acc.m /\ s = acc.out OBVIOUS
  <2>3. m \in Mappers /\ m.connected = (m.size # 0) /\ s \in Seq(Outputs) /\ Realises(v, s, w) /\ MapperFits(m, w) /\ NoEnds(s)
    BY <2>2 DEF PublishedOK
  <2>4. MapOK(m, e, w) BY <2>1, <2>3, MapFits
  <2>5. PICK n, q, x : n = Map(m, e).m /\ q = Map(m, e).out /\ x = Mapped(m, e, w) OBVIOUS
  <2>6. /\ n \in Mappers /\ n.connected = (n.size # 0) /\ q \in Seq(Outputs) /\ OnlyLast(q)
        /\ (e.kind \notin Terminals => NoEnds(q)) /\ Realises(w, q, x) /\ MapperFits(n, x)
    BY <2>4, <2>5 DEF MapOK
  <2>7. PICK u : u = s \o q /\ u \in Seq(Outputs) /\ OnlyLast(u) /\ (NoEnds(q) => NoEnds(u)) /\ Realises(v, u, x)
    BY <2>3, <2>6, OutputsJoin
  <2>8. PublishOutputEvent(acc, e) = [m |-> n, out |-> u] BY <1>2, <2>2, <2>5, <2>7 DEF PublishOutputEvent
  <2>9. PublishOutputEvent(acc, e).m = n /\ PublishOutputEvent(acc, e).out = u BY <2>8
  <2>10. ViewAfter(acc.m, e, w) = x /\ MapperAfter(acc.m, e) = n BY <1>2, <2>2, <2>5 DEF ViewAfter, MapperAfter
  <2> QED BY <2>6, <2>7, <2>9, <2>10 DEF PublishedOK
<1> QED BY <1>1, <1>2

\* Of two events only the second may be an end.
LEMMA PublishTwo ==
  ASSUME NEW f \in Events \cup {NoPicture}, NEW s \in Events \cup {NoPicture}, Publish(f, s), f.kind \notin Terminals,
         mapper \in Mappers, mapper.connected = (mapper.size # 0), NEW v, MapperFits(mapper, v)
  PROVE  /\ mapper' \in Mappers /\ mapper'.connected = (mapper'.size # 0) /\ out' \in Seq(Outputs) /\ OnlyLast(out')
         /\ s.kind \notin Terminals => NoEnds(out')
         /\ mapper' = MapperAfter(MapperAfter(mapper, f), s)
         /\ Realises(v, out', ViewAfter(MapperAfter(mapper, f), s, ViewAfter(mapper, f, v)))
         /\ MapperFits(mapper', ViewAfter(MapperAfter(mapper, f), s, ViewAfter(mapper, f, v)))
<1>1. PICK a : a = [m |-> mapper, out |-> <<>>] OBVIOUS
<1>2. a.m = mapper /\ a.out = <<>> BY <1>1
<1>3. PublishedOK(a, v, v) /\ NoEnds(a.out) BY <1>2, NoOutput DEF PublishedOK
<1>4. PICK b : b = PublishOutputEvent(a, f) OBVIOUS
<1>5. PICK w : w = ViewAfter(mapper, f, v) OBVIOUS
<1>6. PublishedOK(b, v, w) /\ b.m = MapperAfter(mapper, f) /\ NoEnds(b.out) BY <1>2, <1>3, <1>4, <1>5, PublishOne
<1>7. PICK c, x : c = PublishOutputEvent(b, s) /\ x = ViewAfter(b.m, s, w) OBVIOUS
<1>8. PublishedOK(c, v, x) /\ c.m = MapperAfter(b.m, s) /\ (s.kind \notin Terminals => NoEnds(c.out)) BY <1>6, <1>7, PublishOne
<1>9. mapper' = c.m /\ out' = c.out BY <1>1, <1>4, <1>7 DEF Publish
<1> QED BY <1>5, <1>6, <1>7, <1>8, <1>9 DEF PublishedOK
-----------------------------------------------------------------------------
(* Queues and their ends *)

LEMMA TailEnds ==
  ASSUME NEW S, NEW s \in Seq(S), s # <<>>
  PROVE  /\ Head(s) \in S /\ Tail(s) \in Seq(S) /\ Len(Tail(s)) <= Len(s)
         /\ NoEnds(s) => NoEnds(Tail(s)) /\ Head(s).kind \notin Terminals
         /\ OnlyLast(s) => OnlyLast(Tail(s)) /\ (Head(s).kind \in Terminals => Tail(s) = <<>>)
         /\ Quiet(s) => Quiet(Tail(s)) /\ Head(s).kind = "clipboard"
         /\ EndsQuietly(s) => EndsQuietly(Tail(s)) /\ (Head(s).kind \in Terminals => Quiet(Tail(s)))
<1>1. Head(s) \in S /\ Tail(s) \in Seq(S) /\ Len(s) \in Nat \ {0} OBVIOUS
<1>2. PICK n, q : /\ n \in Nat /\ n + 1 = Len(s) /\ q = Tail(s) /\ Len(q) = n /\ Head(s) = s[1] /\ \A i \in 1..n : q[i] = s[i + 1]
  <2>1. Len(s) - 1 \in Nat /\ (Len(s) - 1) + 1 = Len(s) /\ Len(Tail(s)) = Len(s) - 1 /\ Head(s) = s[1] BY <1>1
  <2>2. \A i \in 1..(Len(s) - 1) : Tail(s)[i] = s[i + 1] OBVIOUS
  <2> QED BY <2>1, <2>2
<1>3. \A i \in 1..n : q[i] = s[i + 1] /\ i + 1 \in 1..Len(s) BY <1>2
<1>4. 1 \in 1..Len(s) BY <1>1
<1>5. NoEnds(s) => NoEnds(q) /\ s[1].kind \notin Terminals BY <1>2, <1>3, <1>4 DEF NoEnds
<1>6. ASSUME OnlyLast(s) PROVE OnlyLast(q) /\ (s[1].kind \in Terminals => n = 0)
  <2>1. ASSUME NEW i \in 1..n, q[i].kind \in Terminals PROVE i = n BY <1>2, <1>3, <1>6, <2>1 DEF OnlyLast
  <2>2. s[1].kind \in Terminals => 1 = n + 1 BY <1>2, <1>4, <1>6 DEF OnlyLast
  <2> QED BY <1>2, <2>1, <2>2 DEF OnlyLast
<1>7. Quiet(s) => Quiet(q) /\ s[1].kind = "clipboard" BY <1>2, <1>3, <1>4 DEF Quiet
<1>8. ASSUME EndsQuietly(s) PROVE EndsQuietly(q) /\ (s[1].kind \in Terminals => Quiet(q))
  <2>1. ASSUME NEW i \in 1..n, NEW j \in 1..n, i < j, q[i].kind \in Terminals PROVE q[j].kind = "clipboard"
    <3>1. i + 1 < j + 1 BY <2>1
    <3> QED BY <1>3, <1>8, <2>1, <3>1 DEF EndsQuietly
  <2>2. ASSUME NEW j \in 1..n, s[1].kind \in Terminals PROVE q[j].kind = "clipboard"
    <3>1. 1 < j + 1 OBVIOUS
    <3> QED BY <1>3, <1>4, <1>8, <2>2, <3>1 DEF EndsQuietly
  <2> QED BY <1>2, <2>1, <2>2 DEF EndsQuietly, Quiet
<1>9. n = 0 => Tail(s) = <<>> BY <1>1, <1>2
<1> QED BY <1>1, <1>2, <1>5, <1>6, <1>7, <1>8, <1>9

LEMMA AppendEnds ==
  ASSUME NEW S, NEW s \in Seq(S), NEW e \in S, NoEnds(s)
  PROVE  /\ Append(s, e) \in Seq(S) /\ OnlyLast(Append(s, e)) /\ (e.kind \notin Terminals => NoEnds(Append(s, e)))
         /\ EndsQuietly(Append(s, e)) /\ Len(Append(s, e)) = Len(s) + 1
         /\ e.kind \in Terminals => ~NoEnds(Append(s, e))
<1>1. PICK n, q : n \in Nat /\ n = Len(s) /\ q = Append(s, e) /\ q \in Seq(S) /\ Len(q) = n + 1 /\ q[n + 1] = e /\ \A i \in 1..n : q[i] = s[i]
  <2>1. Len(s) \in Nat /\ Append(s, e) \in Seq(S) /\ Len(Append(s, e)) = Len(s) + 1 /\ Append(s, e)[Len(s) + 1] = e OBVIOUS
  <2>2. \A i \in 1..Len(s) : Append(s, e)[i] = s[i] OBVIOUS
  <2> QED BY <2>1, <2>2
<1>2. \A i \in 1..(n + 1) : q[i].kind \in Terminals => i = n + 1 BY <1>1 DEF NoEnds
<1>3. e.kind \notin Terminals => NoEnds(q) BY <1>1, <1>2 DEF NoEnds
<1>4. e.kind \in Terminals => ~NoEnds(q) BY <1>1 DEF NoEnds
<1>5. EndsQuietly(q)
  <2>1. ASSUME NEW i \in 1..(n + 1), NEW j \in 1..(n + 1), i < j PROVE q[i].kind \notin Terminals BY <1>2, <2>1
  <2> QED BY <1>1, <2>1 DEF EndsQuietly
<1>6. OnlyLast(q) BY <1>1, <1>2 DEF OnlyLast
<1> QED BY <1>1, <1>3, <1>4, <1>5, <1>6

LEMMA NoneEnds == NoEnds(<<>>) /\ OnlyLast(<<>>) /\ Quiet(<<>>) /\ EndsQuietly(<<>>)
<1>1. Len(<<>>) = 0 OBVIOUS
<1> QED BY <1>1 DEF NoEnds, OnlyLast, Quiet, EndsQuietly

LEMMA NoEndsIsQuiet == ASSUME NEW s, NoEnds(s) PROVE EndsQuietly(s)
BY DEF NoEnds, EndsQuietly

LEMMA DiscardEnds == ASSUME NEW c \in Seq(Controls), NoEnds(c) PROVE NoEnds(DiscardPendingCursorEvents(c))
<1>1. PICK d : d = DiscardPendingCursorEvents(c) OBVIOUS
<1>2. \A i \in 1..Len(d) : \E j \in 1..Len(c) : d[i] = c[j] BY <1>1, DiscardKeeps
<1>3. NoEnds(d) BY <1>2 DEF NoEnds
<1> QED BY <1>1, <1>3

\* What is no end is put into a queue without one.
LEMMA SendEnds ==
  ASSUME NEW b \in Boxes, NEW e \in Outputs, e.kind \notin Terminals, NoEnds(b.control)
  PROVE  NoEnds(Send(b, e).control)
<1>1. PICK c : c = b.control OBVIOUS
<1>2. c \in Seq(Controls) /\ NoEnds(c) BY <1>1 DEF Boxes
<1>3. CASE e.kind \in {"frame", "delta"}
  <2>1. Send(b, e).control = c BY <1>1, <1>3 DEF Send, Boxes
  <2> QED BY <1>2, <2>1
<1>4. CASE e.kind = "reconnecting"
  <2>1. Send(b, e).control = Append(DiscardPendingCursorEvents(c), e) BY <1>1, <1>4 DEF Send, Boxes, Terminals
  <2>2. PICK d \in Seq(Controls) : d = DiscardPendingCursorEvents(c) /\ NoEnds(d) BY <1>2, DiscardKeeps, DiscardEnds
  <2>3. e \in Controls BY <1>4, OutputKinds
  <2>4. NoEnds(Append(d, e)) BY <2>2, <2>3, AppendEnds
  <2> QED BY <2>1, <2>2, <2>4
<1>5. CASE e.kind \notin {"frame", "delta", "reconnecting"}
  <2>1. Send(b, e).control = EnqueueControl(c, e) BY <1>1, <1>5 DEF Send, Boxes, Terminals
  <2>2. e \in Controls BY <1>5, OutputKinds
  <2>3. NoEnds(Append(c, e)) BY <1>2, <2>2, AppendEnds
  <2>4. CASE c # <<>> /\ Replaces(e, c[Len(c)])
    <3>1. PICK d : d = [c EXCEPT ![Len(c)] = e] /\ Len(d) = Len(c) /\ \A i \in 1..Len(c) : d[i] = e \/ d[i] = c[i]
      <4>1. Len([c EXCEPT ![Len(c)] = e]) = Len(c) BY <1>2
      <4>2. \A i \in 1..Len(c) : [c EXCEPT ![Len(c)] = e][i] = e \/ [c EXCEPT ![Len(c)] = e][i] = c[i] BY <1>2
      <4> QED BY <4>1, <4>2
    <3>2. NoEnds(d) BY <1>2, <3>1 DEF NoEnds
    <3> QED BY <2>1, <2>4, <3>1, <3>2 DEF EnqueueControl
  <2>5. CASE ~(c # <<>> /\ Replaces(e, c[Len(c)])) BY <2>1, <2>3, <2>5 DEF EnqueueControl
  <2> QED BY <2>4, <2>5
<1> QED BY <1>3, <1>4, <1>5
-----------------------------------------------------------------------------
(* The client's steps *)

\* An event that does to the desktop what the client has done to it, or an end.
LEMMA OfferKeeps ==
  ASSUME OutInv, NEW e \in Events, Offer(e), remote' \in Desktops,
         \/ e.kind \in Terminals /\ client' = "ending"
         \/ e.kind \notin Terminals /\ client' = client /\ EventFits(remote, e) /\ remote' = AfterEvent(remote, e)
  PROVE  OutInv'
<1>1. TypeInv /\ EndInv /\ host.faults = {} /\ (box.alive => BoxInv(box, host) /\ ChainInv) BY DEF OutInv
<1>2. /\ client = "up" /\ mapping /\ Len(link) < Capacity /\ link' = Append(link, e)
      /\ UNCHANGED <<mapper, pending_image, timer, mapping, out, box, main, host>>
  BY DEF Offer, taskVars
<1>3. link \in Seq(Events) /\ remote \in Desktops /\ Len(link) \in Nat BY <1>1 DEF TypeInv
<1>4. NoEnds(link) /\ NoEnds(out) /\ ~Over BY <1>1, <1>2 DEF EndInv
<1>5. /\ link' \in Seq(Events) /\ OnlyLast(link') /\ (e.kind \notin Terminals => NoEnds(link')) /\ Len(link') = Len(link) + 1
  BY <1>2, <1>3, <1>4, AppendEnds
<1>6. Len(link') <= Capacity BY <1>2, <1>3, <1>5, OutputAssumption
<1>7. client' \in {"up", "ending", "ended"} BY <1>2
<1>8. TypeInv' BY <1>1, <1>2, <1>5, <1>6, <1>7 DEF TypeInv, TimerOK
<1>9. EndInv'
  <2>1. ~NoEnds(link') => client' # "up" BY <1>5
  <2> QED BY <1>1, <1>2, <1>4, <1>5, <2>1 DEF EndInv, Over
<1>10. ASSUME box.alive PROVE ChainInv'
  <2>1. PICK v, w : BoxShows(box, host, v) /\ Realises(v, out, w) /\ MapperFits(mapper, w) /\ ChannelInv(w)
    BY <1>1, <1>10 DEF ChainInv
  <2>2. ChannelInv(w)'
    <3>1. SUFFICES ASSUME client' = "up" PROVE \E r \in Desktops : Shown(mapper, pending_image, r, w) /\ LeadsTo(r, link', remote')
      BY <1>2 DEF ChannelInv
    <3>2. EventFits(remote, e) /\ remote' = AfterEvent(remote, e) BY <3>1
    <3>3. PICK r \in Desktops : Shown(mapper, pending_image, r, w) /\ LeadsTo(r, link, remote) BY <1>2, <2>1 DEF ChannelInv
    <3>4. LeadsTo(r, Append(link, e), AfterEvent(remote, e)) BY <1>3, <3>2, <3>3, TrailGrows
    <3> QED BY <1>2, <3>2, <3>3, <3>4
  <2> QED BY <1>2, <2>1, <2>2 DEF ChainInv
<1> QED BY <1>1, <1>2, <1>8, <1>9, <1>10 DEF OutInv

LEMMA ClientImageKeeps == ASSUME OutInv, ClientImage PROVE OutInv'
<1>1. PICK size \in DesktopSizes, px \in [Cells -> Pixels] :
        /\ remote' = [remote EXCEPT !.px = px, !.size = size, !.base = TRUE]
        /\ Offer([kind |-> "image", size |-> size, px |-> px]) /\ UNCHANGED client
  BY DEF ClientImage
<1>2. PICK e : e = [kind |-> "image", size |-> size, px |-> px] OBVIOUS
<1>3. e \in Events /\ e.kind = "image" /\ e.kind \notin Terminals BY <1>2 DEF Events, Images, Terminals
<1>4. remote \in Desktops BY DEF OutInv, TypeInv
<1>5. EventFits(remote, e) /\ remote' = AfterEvent(remote, e) BY <1>1, <1>2 DEF EventFits, AfterEvent
<1>6. remote' \in Desktops BY <1>3, <1>4, <1>5, AfterEventIsDesktop
<1> QED BY <1>1, <1>2, <1>3, <1>5, <1>6, OfferKeeps

LEMMA ClientRegionKeeps == ASSUME OutInv, ClientRegion PROVE OutInv'
<1>1. PICK c \in Cells, v \in Pixels :
        /\ remote.base /\ remote' = [remote EXCEPT !.px[c] = v]
        /\ Offer([kind |-> "region", size |-> remote.size, px |-> [x \in {c} |-> v], wellFormed |-> TRUE]) /\ UNCHANGED client
  BY DEF ClientRegion
<1>2. PICK p : p = [x \in {c} |-> v] OBVIOUS
<1>3. PICK e : e = [kind |-> "region", size |-> remote.size, px |-> p, wellFormed |-> TRUE] OBVIOUS
<1>4. remote \in Desktops BY DEF OutInv, TypeInv
<1>5. p \in Pictures BY <1>2, CellIsPicture
<1>6. e \in Events /\ e.kind = "region" /\ e.kind \notin Terminals BY <1>3, <1>4, <1>5 DEF Events, Regions, Terminals, Desktops
<1>7. Merged(remote.px, p) = [remote.px EXCEPT ![c] = v]
  <2>1. remote.px \in [Cells -> Pixels \cup {0}] /\ DOMAIN p = {c} /\ p[c] = v BY <1>2, <1>4 DEF Desktops
  <2>2. DOMAIN remote.px \cup DOMAIN p = Cells BY <2>1
  <2> QED BY <2>1, <2>2 DEF Merged
<1>8. AfterEvent(remote, e) = [remote EXCEPT !.px = Merged(remote.px, p)] BY <1>3, <1>4 DEF AfterEvent, Desktops
<1>9. remote' = [remote EXCEPT !.px = [remote.px EXCEPT ![c] = v]] BY <1>1, <1>4 DEF Desktops
<1>10. EventFits(remote, e) /\ remote' = AfterEvent(remote, e) BY <1>1, <1>7, <1>8, <1>9 DEF EventFits
<1>11. remote' \in Desktops BY <1>4, <1>6, <1>10, AfterEventIsDesktop
<1> QED BY <1>1, <1>2, <1>3, <1>6, <1>10, <1>11, OfferKeeps

LEMMA ClientMalformedRegionKeeps == ASSUME OutInv, ClientMalformedRegion PROVE OutInv'
<1>1. PICK size \in DesktopSizes, px \in [Cells -> Pixels] :
        /\ Offer([kind |-> "region", size |-> size, px |-> px, wellFormed |-> size # remote.size]) /\ UNCHANGED <<remote, client>>
  BY DEF ClientMalformedRegion
<1>2. PICK e : e = [kind |-> "region", size |-> size, px |-> px, wellFormed |-> size # remote.size] OBVIOUS
<1>3. px \in Pictures BY ImageIsPicture
<1>4. e \in Events /\ e.kind = "region" /\ e.kind \notin Terminals BY <1>2, <1>3 DEF Events, Regions, Terminals, AnySize
<1>5. remote \in Desktops BY DEF OutInv, TypeInv
<1>6. EventFits(remote, e) /\ AfterEvent(remote, e) = remote BY <1>2 DEF EventFits, AfterEvent
<1> QED BY <1>1, <1>2, <1>4, <1>5, <1>6, OfferKeeps

LEMMA ClientCursorKeeps == ASSUME OutInv, ClientCursor PROVE OutInv'
<1>1. PICK kind \in CursorKinds, v \in Cursors :
        /\ remote' = IF kind = "shape" THEN [remote EXCEPT !.shape = v] ELSE [remote EXCEPT !.position = v]
        /\ Offer([kind |-> kind, v |-> v]) /\ UNCHANGED client
  BY DEF ClientCursor
<1>2. PICK e : e = [kind |-> kind, v |-> v] OBVIOUS
<1>3. e \in Events /\ e.kind = kind /\ e.kind \notin Terminals BY <1>2 DEF Events, CursorEvents, CursorKinds, Terminals
<1>4. remote \in Desktops BY DEF OutInv, TypeInv
<1>5. EventFits(remote, e) /\ remote' = AfterEvent(remote, e) BY <1>1, <1>2 DEF EventFits, AfterEvent, CursorKinds
<1>6. remote' \in Desktops BY <1>3, <1>4, <1>5, AfterEventIsDesktop
<1> QED BY <1>1, <1>2, <1>3, <1>5, <1>6, OfferKeeps

LEMMA ClientFallbackKeeps == ASSUME OutInv, ClientFallback PROVE OutInv'
<1>1. PICK e : e = [kind |-> "fallback"] OBVIOUS
<1>2. e \in Events /\ e.kind = "fallback" /\ e.kind \notin Terminals BY <1>1 DEF Events, Fallbacks, Terminals
<1>3. remote \in Desktops BY DEF OutInv, TypeInv
<1>4. EventFits(remote, e) /\ remote' = AfterEvent(remote, e) BY <1>1 DEF EventFits, AfterEvent, ClientFallback
<1>5. remote' \in Desktops BY <1>2, <1>3, <1>4, AfterEventIsDesktop
<1> QED BY <1>1, <1>2, <1>4, <1>5, OfferKeeps DEF ClientFallback

LEMMA ClientSessionEndsKeeps == ASSUME OutInv, ClientSessionEnds PROVE OutInv'
<1>1. PICK kind \in Terminals : Offer([kind |-> kind]) /\ client' = "ending" /\ UNCHANGED remote BY DEF ClientSessionEnds
<1>2. PICK e : e = [kind |-> kind] OBVIOUS
<1>3. e \in Events /\ e.kind \in Terminals BY <1>2 DEF Events, Ends
<1>4. remote \in Desktops BY DEF OutInv, TypeInv
<1> QED BY <1>1, <1>2, <1>3, <1>4, OfferKeeps
-----------------------------------------------------------------------------
(* Steps that move nothing along the chain *)

\* A thread goes, a sender is dropped or time passes.
LEMMA StandingKeeps ==
  ASSUME OutInv, UNCHANGED <<remote, link, mapper, pending_image, out, host>>, TimerOK',
         client' \in {"up", "ending", "ended"}, client' = "up" => client = "up",
         mapping' \in BOOLEAN, mapping' => mapping, ~mapping' => out = <<>> /\ link = <<>> /\ "mapper" \notin box'.senders,
         box' \in Boxes, box'.control = box.control, box'.frame = box.frame, box'.delta = box.delta, box'.alive => box.alive
  PROVE  OutInv'
<1>1. TypeInv /\ EndInv /\ host.faults = {} /\ (box.alive => BoxInv(box, host) /\ ChainInv) BY DEF OutInv
<1>2. TypeInv' BY <1>1 DEF TypeInv
<1>3. EndInv' BY <1>1 DEF EndInv, Over
<1>4. ASSUME box'.alive PROVE BoxInv(box', host') /\ ChainInv'
  <2>1. BoxInv(box, host) /\ ChainInv BY <1>1, <1>4
  <2>2. PICK v, w : BoxShows(box, host, v) /\ Realises(v, out, w) /\ MapperFits(mapper, w) /\ ChannelInv(w) BY <2>1 DEF ChainInv
  <2>3. BoxShows(box', host', v) BY <2>2 DEF BoxShows, PictureShows, BoxPx, BasePx, BaseSize
  <2>4. BoxInv(box', host') BY <2>1 DEF BoxInv, DeltaFits, BaseSize
  <2>5. ChannelInv(w)' BY <2>2 DEF ChannelInv
  <2> QED BY <2>2, <2>3, <2>4, <2>5 DEF ChainInv
<1> QED BY <1>1, <1>2, <1>3, <1>4 DEF OutInv

\* A sender is dropped.
LEMMA SendersGo ==
  ASSUME NEW b \in Boxes, NEW x
  PROVE  LET n == [b EXCEPT !.senders = @ \ {x}]
         IN  n \in Boxes /\ n.control = b.control /\ n.frame = b.frame /\ n.delta = b.delta /\ n.alive = b.alive /\ n.senders = b.senders \ {x}
BY DEF Boxes

LEMMA ClientStopsKeeps == ASSUME OutInv, ClientStops PROVE OutInv'
<1>1. TypeInv BY DEF OutInv
<1>2. /\ client' = "ended" /\ box' = [box EXCEPT !.senders = @ \ {"backend"}]
      /\ UNCHANGED <<remote, link, mapper, pending_image, timer, mapping, out, host>>
  BY DEF ClientStops, taskVars
<1>3. /\ box' \in Boxes /\ box'.control = box.control /\ box'.frame = box.frame /\ box'.delta = box.delta /\ box'.alive = box.alive
      /\ box'.senders = box.senders \ {"backend"}
  BY <1>1, <1>2, SendersGo DEF TypeInv
<1>4. TimerOK' BY <1>1, <1>2 DEF TypeInv, TimerOK
<1>5. ~mapping => out = <<>> /\ link = <<>> /\ "mapper" \notin box'.senders BY <1>1, <1>3 DEF TypeInv
<1> QED BY <1>1, <1>2, <1>3, <1>4, <1>5, StandingKeeps DEF TypeInv

LEMMA CloseKeeps == ASSUME OutInv, Close PROVE OutInv'
<1>1. TypeInv BY DEF OutInv
<1>2. /\ box' = [box EXCEPT !.senders = @ \ {"controller"}]
      /\ UNCHANGED <<remote, link, client, mapper, pending_image, timer, mapping, out, host>>
  BY DEF Close, taskVars, clientVars
<1>3. /\ box' \in Boxes /\ box'.control = box.control /\ box'.frame = box.frame /\ box'.delta = box.delta /\ box'.alive = box.alive
      /\ box'.senders = box.senders \ {"controller"}
  BY <1>1, <1>2, SendersGo DEF TypeInv
<1>4. TimerOK' BY <1>1, <1>2 DEF TypeInv, TimerOK
<1>5. ~mapping => out = <<>> /\ link = <<>> /\ "mapper" \notin box'.senders BY <1>1, <1>3 DEF TypeInv
<1> QED BY <1>1, <1>2, <1>3, <1>4, <1>5, StandingKeeps DEF TypeInv

\* Nothing but main changes, or nothing at all.
LEMMA StutterKeeps ==
  ASSUME OutInv, UNCHANGED <<remote, link, client, mapper, pending_image, timer, mapping, out, box, host>>
  PROVE  OutInv'
<1>1. TypeInv BY DEF OutInv
<1>2. TimerOK' BY <1>1 DEF TypeInv, TimerOK
<1> QED BY <1>1, <1>2, StandingKeeps DEF TypeInv

LEMMA ExitKeeps == ASSUME OutInv, Exit PROVE OutInv'
<1>1. UNCHANGED <<remote, link, client, mapper, pending_image, timer, mapping, out, box, host>> BY DEF Exit, taskVars, clientVars
<1> QED BY <1>1, StutterKeeps

LEMMA TickKeeps == ASSUME OutInv, Tick PROVE OutInv'
<1>1. TypeInv BY DEF OutInv
<1>2. UNCHANGED <<remote, link, client, mapper, pending_image, mapping, out, box, host>> BY DEF Tick, clientVars
<1>3. TimerOK'
  <2>1. timer \in [settle : 0..Off, latency : 0..Off] /\ timer.settle # Off /\ timer.latency # Off BY <1>1 DEF TypeInv, TimerOK, Tick
  <2>2. timer.settle \in 0..8 /\ timer.latency \in 0..8 BY <2>1 DEF Off
  <2>3. PICK s, l : s = (IF timer.settle = 0 THEN 0 ELSE timer.settle - 1) /\ l = (IF timer.latency = 0 THEN 0 ELSE timer.latency - 1)
    OBVIOUS
  <2>4. s \in 0..8 /\ l \in 0..8 BY <2>2, <2>3
  <2>5. timer' = [settle |-> s, latency |-> l] BY <2>3 DEF Tick
  <2>6. timer' \in [settle : 0..Off, latency : 0..Off] /\ timer'.settle # Off /\ timer'.latency # Off BY <2>4, <2>5 DEF Off
  <2> QED BY <1>1, <1>2, <2>1, <2>6 DEF TypeInv, TimerOK
<1> QED BY <1>1, <1>2, <1>3, StandingKeeps DEF TypeInv

LEMMA WriterEndsKeeps == ASSUME OutInv, WriterEnds PROVE OutInv'
<1>1. TypeInv BY DEF OutInv
<1>2. /\ box' = [box EXCEPT !.alive = FALSE]
      /\ UNCHANGED <<remote, link, client, mapper, pending_image, timer, mapping, out, host>>
  BY DEF WriterEnds, taskVars, clientVars
<1>3. /\ box' \in Boxes /\ box'.control = box.control /\ box'.frame = box.frame /\ box'.delta = box.delta /\ box'.alive = FALSE
      /\ box'.senders = box.senders
  BY <1>1, <1>2 DEF TypeInv, Boxes
<1>4. TimerOK' BY <1>1, <1>2 DEF TypeInv, TimerOK
<1>5. ~mapping => out = <<>> /\ link = <<>> /\ "mapper" \notin box'.senders BY <1>1, <1>3 DEF TypeInv
<1> QED BY <1>1, <1>2, <1>3, <1>4, <1>5, StandingKeeps DEF TypeInv

LEMMA WriteFailsKeeps == ASSUME OutInv, WriteFails PROVE OutInv'
<1>1. TypeInv /\ EndInv /\ host.faults = {} BY DEF OutInv
<1>2. /\ box' = [NewBox EXCEPT !.senders = box.senders, !.alive = FALSE]
      /\ UNCHANGED <<remote, link, client, mapper, pending_image, timer, mapping, out, host>>
  BY DEF WriteFails, taskVars, clientVars
<1>3. box'.control = <<>> /\ box'.frame = NoPicture /\ box'.delta = NoPicture /\ box'.senders = box.senders /\ box'.alive = FALSE
  BY <1>2 DEF NewBox
<1>4. box' \in Boxes
  <2>1. box' = [control |-> <<>>, frame |-> NoPicture, delta |-> NoPicture, senders |-> box.senders, alive |-> FALSE]
    BY <1>2 DEF NewBox
  <2>2. box.senders \in SUBSET {"mapper", "controller", "backend"} BY <1>1 DEF TypeInv, Boxes
  <2> QED BY <2>1, <2>2 DEF Boxes
<1>5. TypeInv' BY <1>1, <1>2, <1>3, <1>4 DEF TypeInv, TimerOK
<1>6. EndInv' BY <1>1, <1>2, <1>3, NoneEnds DEF EndInv, Over
<1> QED BY <1>1, <1>2, <1>3, <1>5, <1>6 DEF OutInv

LEMMA ClipboardEventKeeps == ASSUME OutInv, ClipboardEvent PROVE OutInv'
<1>1. TypeInv /\ EndInv /\ host.faults = {} /\ (box.alive => BoxInv(box, host) /\ ChainInv) BY DEF OutInv
<1>2. PICK e : e = [kind |-> "clipboard"] OBVIOUS
<1>3. /\ client = "up" /\ box.alive /\ box' = Send(box, e)
      /\ UNCHANGED <<remote, link, client, mapper, pending_image, timer, mapping, out, host>>
  BY <1>2 DEF ClipboardEvent, taskVars
<1>4. e \in Outputs /\ e.kind = "clipboard" /\ e.kind \notin Terminals BY <1>2 DEF Outputs, Controls, Others, Terminals
<1>5. box \in Boxes /\ host \in Hosts BY <1>1 DEF TypeInv
<1>6. PICK v, w : BoxShows(box, host, v) /\ Realises(v, out, w) /\ MapperFits(mapper, w) /\ ChannelInv(w) BY <1>1, <1>3 DEF ChainInv
<1>7. OutputFits(v, e) /\ AfterOutput(v, e) = v BY <1>4 DEF OutputFits, AfterOutput, CursorKinds, Terminals
<1>8. SendOK(box, box', host, v) BY <1>1, <1>3, <1>4, <1>5, <1>6, <1>7, SendShows
<1>9. box' \in Boxes /\ box'.alive = box.alive /\ box'.senders = box.senders /\ BoxInv(box', host) /\ BoxShows(box', host, v)
  BY <1>8 DEF SendOK
<1>10. TypeInv' BY <1>1, <1>3, <1>9 DEF TypeInv, TimerOK
<1>11. ~Over /\ NoEnds(box.control) /\ ~host.ended BY <1>1, <1>3 DEF EndInv, Over
<1>12. NoEnds(box'.control) BY <1>3, <1>4, <1>5, <1>11, SendEnds
<1>13. EndInv' BY <1>1, <1>3, <1>11, <1>12, NoEndsIsQuiet DEF EndInv, Over
<1>14. ChannelInv(w)' BY <1>3, <1>6 DEF ChannelInv
<1>15. ChainInv' BY <1>3, <1>6, <1>9, <1>14 DEF ChainInv
<1> QED BY <1>1, <1>3, <1>9, <1>10, <1>13, <1>15 DEF OutInv
-----------------------------------------------------------------------------
(* The mapper's steps *)

\* A view that fits a mapper.
LEMMA SomeViewFits == ASSUME NEW m PROVE \E v : MapperFits(m, v)
<1>1. MapperFits(m, View(TRUE, m.size, 0, 0, 0)) BY DEF MapperFits, View
<1> QED BY <1>1

\* Two events are published: f was before s, and what is pending then is q.
LEMMA PublishKeeps ==
  ASSUME OutInv, NEW f \in Events \cup {NoPicture}, NEW s \in Events \cup {NoPicture}, Publish(f, s), f.kind \notin Terminals,
         mapping, out = <<>>, UNCHANGED <<remote, client, mapping, box, host>>,
         pending_image' \in Images \cup {NoPicture}, TimerOK',
         link' \in Seq(Events), Len(link') <= Len(link), OnlyLast(link'), NoEnds(link) => NoEnds(link'),
         Over => link' = <<>> /\ pending_image' = NoPicture /\ f = NoPicture /\ s = NoPicture,
         s.kind \in Terminals => link' = <<>> /\ pending_image' = NoPicture /\ client # "up",
         \A v, r : (client = "up" /\ r \in Desktops /\ Shown(mapper, pending_image, r, v) /\ LeadsTo(r, link, remote)) =>
           \E n \in Desktops : /\ Shown(MapperAfter(MapperAfter(mapper, f), s), pending_image', n,
                                        ViewAfter(MapperAfter(mapper, f), s, ViewAfter(mapper, f, v)))
                               /\ LeadsTo(n, link', remote)
  PROVE  OutInv'
<1>1. TypeInv /\ EndInv /\ host.faults = {} /\ (box.alive => BoxInv(box, host) /\ ChainInv) BY DEF OutInv
<1>2. mapper \in Mappers /\ mapper.connected = (mapper.size # 0) BY <1>1 DEF TypeInv
<1>3. /\ mapper' \in Mappers /\ mapper'.connected = (mapper'.size # 0) /\ out' \in Seq(Outputs) /\ OnlyLast(out')
      /\ s.kind \notin Terminals => NoEnds(out')
      /\ mapper' = MapperAfter(MapperAfter(mapper, f), s)
  <2>1. PICK v : MapperFits(mapper, v) BY SomeViewFits
  <2> QED BY <1>2, <2>1, PublishTwo
<1>4. TypeInv'
  <2>1. Len(link') <= Capacity BY <1>1, OutputAssumption DEF TypeInv
  <2> QED BY <1>1, <1>3, <2>1 DEF TypeInv
<1>5. EndInv'
  <2>1. ~NoEnds(link') => client' # "up" BY <1>1 DEF EndInv
  <2>2. ~NoEnds(out') => link' = <<>> /\ pending_image' = NoPicture /\ client' # "up" BY <1>3
  <2>3. Over' = Over BY DEF Over
  <2>4. Over => out' = <<>>
    <3>1. ASSUME f = NoPicture, s = NoPicture PROVE out' = <<>> BY <3>1 DEF Publish, PublishOutputEvent
    <3> QED BY <3>1
  <2> QED BY <1>1, <1>3, <2>1, <2>2, <2>3, <2>4 DEF EndInv
<1>6. ASSUME box.alive PROVE ChainInv'
  <2>1. PICK v, w : BoxShows(box, host, v) /\ Realises(v, out, w) /\ MapperFits(mapper, w) /\ ChannelInv(w) BY <1>1, <1>6 DEF ChainInv
  <2>2. v = w BY <2>1, PathEnds
  <2>3. PICK x : x = ViewAfter(MapperAfter(mapper, f), s, ViewAfter(mapper, f, v)) OBVIOUS
  <2>4. Realises(v, out', x) /\ MapperFits(mapper', x) BY <1>2, <2>1, <2>2, <2>3, PublishTwo
  <2>5. ChannelInv(x)'
    <3>1. SUFFICES ASSUME client = "up" PROVE \E n \in Desktops : Shown(mapper', pending_image', n, x) /\ LeadsTo(n, link', remote)
      BY DEF ChannelInv
    <3>2. PICK r \in Desktops : Shown(mapper, pending_image, r, v) /\ LeadsTo(r, link, remote) BY <2>1, <2>2, <3>1 DEF ChannelInv
    <3> QED BY <1>3, <2>3, <3>1, <3>2
  <2> QED BY <2>1, <2>4, <2>5 DEF ChainInv
<1> QED BY <1>1, <1>4, <1>5, <1>6 DEF OutInv

NoTimerOK == NoTimer \in [settle : 0..Off, latency : 0..Off] /\ NoTimer.settle = Off /\ NoTimer.latency = Off

LEMMA NoTimerIsOff == NoTimerOK
BY DEF NoTimerOK, NoTimer, Off

\* No event, or the pending image, published: the same desktop is shown.
LEMMA PendingShows ==
  ASSUME NEW m \in Mappers, NEW p \in Images \cup {NoPicture}, NEW r \in Desktops, NEW v, Shown(m, p, r, v)
  PROVE  Shown(MapperAfter(m, p), NoPicture, r, ViewAfter(m, p, v))
<1>1. CASE p = NoPicture BY <1>1 DEF MapperAfter, ViewAfter
<1>2. CASE p # NoPicture
  <2>1. Shown(Map(m, p).m, NoPicture, r, Mapped(m, p, v)) BY <1>2, FlushShows
  <2> QED BY <1>2, <2>1 DEF MapperAfter, ViewAfter
<1> QED BY <1>1, <1>2

LEMMA ImageOrNone == ASSUME NEW p \in Images \cup {NoPicture} PROVE p \in Events \cup {NoPicture} /\ p.kind \notin Terminals
BY DEF Events, Images, NoPicture, Terminals

\* The image that waits is told.
LEMMA FlushKeeps ==
  ASSUME OutInv, mapping, out = <<>>, FlushPendingImage, UNCHANGED <<remote, link, client, mapping, box, host>>
  PROVE  OutInv'
<1>1. TypeInv /\ EndInv BY DEF OutInv
<1>2. PICK p : p = pending_image OBVIOUS
<1>3. Publish(p, NoPicture) /\ pending_image' = NoPicture /\ timer' = NoTimer BY <1>2 DEF FlushPendingImage
<1>4. p \in Images \cup {NoPicture} /\ mapper \in Mappers BY <1>1, <1>2 DEF TypeInv
<1>5. p \in Events \cup {NoPicture} /\ p.kind \notin Terminals /\ NoPicture.kind \notin Terminals
  BY <1>4, ImageOrNone DEF NoPicture, Terminals
<1>6. TimerOK' BY <1>3, NoTimerIsOff DEF TimerOK, NoTimerOK
<1>7. Over => link' = <<>> /\ pending_image' = NoPicture /\ p = NoPicture BY <1>1, <1>2, <1>3 DEF EndInv
<1>8. link' \in Seq(Events) /\ Len(link') <= Len(link) /\ OnlyLast(link') BY <1>1 DEF TypeInv, EndInv
<1>9. ASSUME NEW v, NEW r, client = "up", r \in Desktops, Shown(mapper, pending_image, r, v), LeadsTo(r, link, remote)
      PROVE  \E n \in Desktops : /\ Shown(MapperAfter(MapperAfter(mapper, p), NoPicture), pending_image', n,
                                          ViewAfter(MapperAfter(mapper, p), NoPicture, ViewAfter(mapper, p, v)))
                                 /\ LeadsTo(n, link', remote)
  <2>1. Shown(MapperAfter(mapper, p), NoPicture, r, ViewAfter(mapper, p, v)) BY <1>2, <1>4, <1>9, PendingShows
  <2>2. \A m, x : MapperAfter(m, NoPicture) = m /\ ViewAfter(m, NoPicture, x) = x BY DEF MapperAfter, ViewAfter
  <2> QED BY <1>3, <1>9, <2>1, <2>2
<1> QED BY <1>3, <1>4, <1>5, <1>6, <1>7, <1>8, <1>9, PublishKeeps

LEMMA PresentDueKeeps == ASSUME OutInv, PresentDue PROVE OutInv'
BY FlushKeeps DEF PresentDue, clientVars

LEMMA MapperDrainsKeeps == ASSUME OutInv, MapperDrains PROVE OutInv'
<1>1. TypeInv BY DEF OutInv
<1>2. mapping /\ out = <<>> /\ link = <<>> /\ UNCHANGED <<remote, client, link, main, host>> BY DEF MapperDrains, clientVars
<1>3. CASE pending_image # NoPicture
  <2>1. FlushPendingImage /\ UNCHANGED <<mapping, box>> BY <1>3 DEF MapperDrains
  <2> QED BY <1>2, <2>1, FlushKeeps
<1>4. CASE pending_image = NoPicture
  <2>1. mapping' = FALSE /\ box' = [box EXCEPT !.senders = @ \ {"mapper"}] /\ UNCHANGED <<mapper, out, pending_image, timer>>
    BY <1>4 DEF MapperDrains
  <2>2. /\ box' \in Boxes /\ box'.control = box.control /\ box'.frame = box.frame /\ box'.delta = box.delta /\ box'.alive = box.alive
        /\ box'.senders = box.senders \ {"mapper"}
    BY <1>1, <2>1, SendersGo DEF TypeInv
  <2>3. TimerOK' BY <1>1, <2>1 DEF TypeInv, TimerOK
  <2> QED BY <1>1, <1>2, <2>1, <2>2, <2>3, StandingKeeps DEF TypeInv
<1> QED BY <1>3, <1>4

\* What a turn with event e publishes, leaves pending and shows.
Turn(e, f, s, q) ==
  /\ f \in Events \cup {NoPicture} /\ f.kind \notin Terminals
  /\ s \in Events \cup {NoPicture} /\ (s.kind \in Terminals => s = e /\ q = NoPicture)
  /\ q \in Images \cup {NoPicture}

TurnShows(e, f, s, q, p) ==
  \A v, r : (e.kind \notin Terminals /\ r \in Desktops /\ EventFits(r, e) /\ Shown(mapper, p, r, v)) =>
    Shown(MapperAfter(MapperAfter(mapper, f), s), q, AfterEvent(r, e), ViewAfter(MapperAfter(mapper, f), s, ViewAfter(mapper, f, v)))

LEMMA NoneAfter == \A m, v : MapperAfter(m, NoPicture) = m /\ ViewAfter(m, NoPicture, v) = v
BY DEF MapperAfter, ViewAfter

LEMMA ImageTurn ==
  ASSUME NEW e \in Images, NEW p, mapper \in Mappers
  PROVE  /\ Turn(e, NoPicture, NoPicture, e) /\ TurnShows(e, NoPicture, NoPicture, e, p)
         /\ Turn(e, NoPicture, e, NoPicture) /\ TurnShows(e, NoPicture, e, NoPicture, p)
<1>1. e \in Events /\ e.kind = "image" /\ e.kind \notin Terminals /\ NoPicture.kind \notin Terminals
  BY DEF Events, Images, Terminals, NoPicture
<1>2. Turn(e, NoPicture, NoPicture, e) /\ Turn(e, NoPicture, e, NoPicture) BY <1>1 DEF Turn
<1>3. ASSUME NEW v, NEW r \in Desktops, Shown(mapper, p, r, v)
      PROVE  /\ Shown(mapper, e, AfterEvent(r, e), v)
             /\ Shown(MapperAfter(mapper, e), NoPicture, AfterEvent(r, e), ViewAfter(mapper, e, v))
  <2>1. Shown(mapper, e, AfterEvent(r, e), v) BY <1>3, ImageShows
  <2>2. AfterEvent(r, e) \in Desktops BY <1>1, AfterEventIsDesktop
  <2>3. e \in Images \cup {NoPicture} OBVIOUS
  <2> QED BY <2>1, <2>2, <2>3, PendingShows
<1>4. TurnShows(e, NoPicture, NoPicture, e, p) BY <1>3, NoneAfter DEF TurnShows
<1>5. TurnShows(e, NoPicture, e, NoPicture, p) BY <1>3, NoneAfter DEF TurnShows
<1> QED BY <1>2, <1>4, <1>5

LEMMA CursorTurn ==
  ASSUME NEW e \in CursorEvents, NEW p \in Images \cup {NoPicture}, mapper \in Mappers, mapper.connected = (mapper.size # 0)
  PROVE  /\ Turn(e, e, NoPicture, p) /\ TurnShows(e, e, NoPicture, p, p)
         /\ Turn(e, e, p, NoPicture) /\ TurnShows(e, e, p, NoPicture, p)
<1>1. e \in Events /\ e.kind \in CursorKinds /\ e.kind \notin Terminals /\ NoPicture.kind \notin Terminals /\ e # NoPicture
  BY DEF Events, CursorEvents, CursorKinds, Terminals, NoPicture
<1>2. p \in Events \cup {NoPicture} /\ p.kind \notin Terminals BY ImageOrNone
<1>3. Turn(e, e, NoPicture, p) /\ Turn(e, e, p, NoPicture) BY <1>1, <1>2 DEF Turn
<1>4. PICK m : m = MapperAfter(mapper, e) OBVIOUS
<1>5. m = Map(mapper, e).m /\ \A v : ViewAfter(mapper, e, v) = Mapped(mapper, e, v) BY <1>1, <1>4 DEF MapperAfter, ViewAfter
<1>6. m \in Mappers
  <2>1. PICK v : MapperFits(mapper, v) BY SomeViewFits
  <2>2. MapOK(mapper, e, v) BY <1>1, <2>1, MapFits
  <2> QED BY <1>5, <2>2 DEF MapOK
<1>7. ASSUME NEW v, NEW r \in Desktops, Shown(mapper, p, r, v)
      PROVE  /\ Shown(m, p, AfterEvent(r, e), ViewAfter(mapper, e, v))
             /\ Shown(MapperAfter(m, p), NoPicture, AfterEvent(r, e), ViewAfter(m, p, ViewAfter(mapper, e, v)))
  <2>1. Shown(m, p, AfterEvent(r, e), ViewAfter(mapper, e, v)) BY <1>5, <1>7, CursorShows
  <2>2. AfterEvent(r, e) \in Desktops BY <1>1, AfterEventIsDesktop
  <2> QED BY <1>6, <2>1, <2>2, PendingShows
<1>8. TurnShows(e, e, NoPicture, p, p) BY <1>4, <1>7, NoneAfter DEF TurnShows
<1>9. TurnShows(e, e, p, NoPicture, p) BY <1>4, <1>7 DEF TurnShows
<1> QED BY <1>3, <1>8, <1>9

LEMMA OtherTurn ==
  ASSUME NEW e \in Events, e.kind # "image", e.kind \notin CursorKinds, NEW p \in Images \cup {NoPicture},
         mapper \in Mappers, mapper.connected = (mapper.size # 0)
  PROVE  Turn(e, p, e, NoPicture) /\ TurnShows(e, p, e, NoPicture, p)
<1>1. p \in Events \cup {NoPicture} /\ p.kind \notin Terminals /\ e # NoPicture
  BY EventKinds, ImageOrNone DEF NoPicture
<1>2. Turn(e, p, e, NoPicture) BY <1>1 DEF Turn
<1>3. PICK m : m = MapperAfter(mapper, p) OBVIOUS
<1>4. m \in Mappers
  <2>1. CASE p = NoPicture BY <1>3, <2>1 DEF MapperAfter
  <2>2. CASE p # NoPicture
    <3>1. PICK v : MapperFits(mapper, v) BY SomeViewFits
    <3>2. MapOK(mapper, p, v) BY <1>1, <2>2, <3>1, MapFits
    <3> QED BY <1>3, <2>2, <3>2 DEF MapOK, MapperAfter
  <2> QED BY <2>1, <2>2
<1>5. ASSUME NEW v, NEW r \in Desktops, e.kind \notin Terminals, EventFits(r, e), Shown(mapper, p, r, v)
      PROVE  Shown(MapperAfter(m, e), NoPicture, AfterEvent(r, e), ViewAfter(m, e, ViewAfter(mapper, p, v)))
  <2>1. PICK w : w = ViewAfter(mapper, p, v) OBVIOUS
  <2>2. Shown(m, NoPicture, r, w) BY <1>3, <1>5, <2>1, PendingShows
  <2>3. MapperAfter(m, e) = Map(m, e).m /\ ViewAfter(m, e, w) = Mapped(m, e, w) BY <1>1 DEF MapperAfter, ViewAfter
  <2>4. e.kind \in {"region", "fallback"} BY <1>5, EventKinds DEF CursorKinds, Terminals
  <2>5. CASE e.kind = "region"
    <3>1. e \in Regions BY <2>5, EventKinds
    <3>2. Shown(Map(m, e).m, NoPicture, AfterEvent(r, e), Mapped(m, e, w)) BY <1>4, <1>5, <2>2, <3>1, RegionShows
    <3> QED BY <2>1, <2>3, <3>2
  <2>6. CASE e.kind = "fallback"
    <3>1. Shown(Map(m, e).m, NoPicture, AfterEvent(r, e), Mapped(m, e, w)) BY <2>6, FallbackShows
    <3> QED BY <2>1, <2>3, <3>1
  <2> QED BY <2>4, <2>5, <2>6
<1>6. TurnShows(e, p, e, NoPicture, p) BY <1>3, <1>5 DEF TurnShows
<1> QED BY <1>2, <1>6

LEMMA MapEventKeeps == ASSUME OutInv, MapEvent PROVE OutInv'
<1>1. TypeInv /\ EndInv BY DEF OutInv
<1>2. PICK e, h, p, due : /\ e = Head(link) /\ h = HandleEvent(e) /\ p = pending_image
                          /\ due = (h.pending # NoPicture /\ IsDue(h.timer))
  OBVIOUS
<1>3. PICK s, q : s = (IF due THEN h.pending ELSE h.second) /\ q = (IF due THEN NoPicture ELSE h.pending) OBVIOUS
<1>4. /\ mapping /\ out = <<>> /\ link # <<>> /\ link' = Tail(link) /\ UNCHANGED <<remote, client, mapping, box, host>>
      /\ Publish(h.first, s) /\ pending_image' = q /\ timer' = IF due THEN NoTimer ELSE h.timer
  BY <1>2, <1>3 DEF MapEvent, clientVars
<1>5. link \in Seq(Events) /\ mapper \in Mappers /\ mapper.connected = (mapper.size # 0) /\ p \in Images \cup {NoPicture}
  BY <1>1, <1>2 DEF TypeInv
<1>6. /\ e \in Events /\ link' \in Seq(Events) /\ Len(link') <= Len(link) /\ OnlyLast(link')
      /\ (e.kind \in Terminals => link' = <<>> /\ ~NoEnds(link)) /\ (NoEnds(link) => NoEnds(link'))
  BY <1>1, <1>2, <1>4, <1>5, TailEnds DEF EndInv
<1>7. ~Over /\ (e.kind \in Terminals => client # "up") BY <1>1, <1>4, <1>6 DEF EndInv
<1>8. /\ h.pending = (IF e.kind = "image" THEN e ELSE IF e.kind \in CursorKinds THEN p ELSE NoPicture)
      /\ h.timer = (IF e.kind = "image" THEN RecordImage(timer) ELSE IF e.kind \in CursorKinds THEN timer ELSE NoTimer)
      /\ h.first = (IF e.kind = "image" THEN NoPicture ELSE IF e.kind \in CursorKinds THEN e ELSE p)
      /\ h.second = (IF e.kind = "image" \/ e.kind \in CursorKinds THEN NoPicture ELSE e)
  BY <1>2 DEF HandleEvent
<1>9. PICK f : f = h.first OBVIOUS
<1>10. Turn(e, f, s, q) /\ TurnShows(e, f, s, q, p)
  <2>1. CASE e.kind = "image"
    <3>1. e \in Images /\ f = NoPicture BY <1>6, <1>8, <1>9, <2>1, EventKinds
    <3>2. (s = e /\ q = NoPicture) \/ (s = NoPicture /\ q = e) BY <1>3, <1>8, <2>1
    <3> QED BY <1>5, <3>1, <3>2, ImageTurn
  <2>2. CASE e.kind \in CursorKinds
    <3>1. e \in CursorEvents /\ e.kind # "image" BY <1>6, <2>2, EventKinds DEF CursorKinds
    <3>2. f = e /\ ((s = p /\ q = NoPicture) \/ (s = NoPicture /\ q = p)) BY <1>3, <1>8, <1>9, <2>2, <3>1
    <3> QED BY <1>5, <3>1, <3>2, CursorTurn
  <2>3. CASE e.kind # "image" /\ e.kind \notin CursorKinds
    <3>1. f = p /\ s = e /\ q = NoPicture BY <1>2, <1>3, <1>8, <1>9, <2>3
    <3> QED BY <1>5, <1>6, <2>3, <3>1, OtherTurn
  <2> QED BY <2>1, <2>2, <2>3
<1>11. TimerOK'
  <2>1. /\ timer \in [settle : 0..Off, latency : 0..Off] /\ (timer.settle = Off) = (timer.latency = Off)
        /\ (p # NoPicture) = (timer.latency # Off)
    BY <1>1, <1>2 DEF TypeInv, TimerOK
  <2>2. CASE due BY <1>3, <1>4, <2>2, NoTimerIsOff DEF TimerOK, NoTimerOK
  <2>3. CASE ~due /\ e.kind = "image"
    <3>1. PICK l : l = IF timer.latency = Off THEN Latency ELSE timer.latency OBVIOUS
    <3>2. l \in 0..8 /\ Settle \in 0..8 BY <2>1, <3>1, OutputAssumption DEF Off
    <3>3. timer' = [settle |-> Settle, latency |-> l] BY <1>4, <1>8, <2>3, <3>1 DEF RecordImage
    <3>4. timer' \in [settle : 0..Off, latency : 0..Off] /\ timer'.settle # Off /\ timer'.latency # Off BY <3>2, <3>3 DEF Off
    <3>5. pending_image' # NoPicture BY <1>3, <1>4, <1>6, <1>8, <2>3, EventKinds, PictureIsSomething
    <3> QED BY <3>4, <3>5 DEF TimerOK
  <2>4. CASE ~due /\ e.kind # "image" /\ e.kind \in CursorKinds
    <3>1. timer' = timer /\ pending_image' = p BY <1>3, <1>4, <1>8, <2>4
    <3> QED BY <2>1, <3>1 DEF TimerOK
  <2>5. CASE ~due /\ e.kind # "image" /\ e.kind \notin CursorKinds
    <3>1. timer' = NoTimer /\ pending_image' = NoPicture BY <1>3, <1>4, <1>8, <2>5
    <3> QED BY <3>1, NoTimerIsOff DEF TimerOK, NoTimerOK
  <2> QED BY <2>2, <2>3, <2>4, <2>5
<1>12. /\ f \in Events \cup {NoPicture} /\ f.kind \notin Terminals /\ s \in Events \cup {NoPicture}
       /\ (s.kind \in Terminals => s = e /\ q = NoPicture) /\ q \in Images \cup {NoPicture}
  BY <1>10 DEF Turn
<1>13. s.kind \in Terminals => link' = <<>> /\ pending_image' = NoPicture /\ client # "up" BY <1>4, <1>6, <1>7, <1>12
<1>14. ASSUME NEW v, NEW r, client = "up", r \in Desktops, Shown(mapper, pending_image, r, v), LeadsTo(r, link, remote)
       PROVE  \E n \in Desktops : /\ Shown(MapperAfter(MapperAfter(mapper, f), s), pending_image', n,
                                           ViewAfter(MapperAfter(mapper, f), s, ViewAfter(mapper, f, v)))
                                  /\ LeadsTo(n, link', remote)
  <2>1. e.kind \notin Terminals BY <1>7, <1>14
  <2>2. EventFits(r, e) /\ LeadsTo(AfterEvent(r, e), link', remote) BY <1>2, <1>4, <1>5, <1>14, TrailStarts
  <2>3. AfterEvent(r, e) \in Desktops BY <1>6, <1>14, AfterEventIsDesktop
  <2>4. Shown(MapperAfter(MapperAfter(mapper, f), s), q, AfterEvent(r, e), ViewAfter(MapperAfter(mapper, f), s, ViewAfter(mapper, f, v)))
    BY <1>2, <1>10, <1>14, <2>1, <2>2 DEF TurnShows
  <2> QED BY <1>4, <2>2, <2>3, <2>4
<1>15. Publish(f, s) /\ pending_image' \in Images \cup {NoPicture} BY <1>4, <1>9, <1>12
<1> QED BY <1>4, <1>6, <1>7, <1>11, <1>12, <1>13, <1>14, <1>15, PublishKeeps
-----------------------------------------------------------------------------
(* The mailbox's steps *)

LEMMA SendOutKeeps == ASSUME OutInv, SendOut PROVE OutInv'
<1>1. TypeInv /\ EndInv /\ host.faults = {} /\ (box.alive => BoxInv(box, host) /\ ChainInv) BY DEF OutInv
<1>2. mapping /\ out # <<>> /\ UNCHANGED <<remote, client, mapper, pending_image, timer, host>> BY DEF SendOut, clientVars
<1>3. out \in Seq(Outputs) /\ box \in Boxes /\ host \in Hosts /\ OnlyLast(out) BY <1>1 DEF TypeInv, EndInv
<1>4. PICK e : e = Head(out) OBVIOUS
<1>5. /\ e \in Outputs /\ Tail(out) \in Seq(Outputs) /\ OnlyLast(Tail(out)) /\ (NoEnds(out) => NoEnds(Tail(out)))
      /\ (e.kind \in Terminals => Tail(out) = <<>> /\ ~NoEnds(out))
  BY <1>2, <1>3, <1>4, TailEnds
<1>6. ~Over /\ NoEnds(box.control) /\ ~host.ended BY <1>1, <1>2 DEF EndInv, Over
<1>7. CASE ~box.alive
  <2>1. mapping' = FALSE /\ out' = <<>> /\ link' = <<>> /\ box' = [box EXCEPT !.senders = @ \ {"mapper"}] BY <1>7 DEF SendOut
  <2>2. /\ box' \in Boxes /\ box'.control = box.control /\ box'.frame = box.frame /\ box'.delta = box.delta /\ box'.alive = box.alive
        /\ box'.senders = box.senders \ {"mapper"}
    BY <1>3, <2>1, SendersGo
  <2>3. link' \in Seq(Events) /\ Len(link') <= Capacity /\ out' \in Seq(Outputs)
    <3>1. Len(<<>>) = 0 /\ <<>> \in Seq(Events) /\ <<>> \in Seq(Outputs) OBVIOUS
    <3> QED BY <2>1, <3>1, OutputAssumption
  <2>4. TypeInv' BY <1>1, <1>2, <2>1, <2>2, <2>3 DEF TypeInv, TimerOK
  <2>5. EndInv' BY <1>1, <1>2, <1>6, <2>1, <2>2, NoneEnds DEF EndInv, Over
  <2> QED BY <1>1, <1>2, <1>7, <2>2, <2>4, <2>5 DEF OutInv
<1>8. CASE box.alive
  <2>1. box' = Send(box, e) /\ out' = Tail(out) /\ UNCHANGED <<mapping, link>> BY <1>4, <1>8 DEF SendOut
  <2>2. PICK v, w : BoxShows(box, host, v) /\ Realises(v, out, w) /\ MapperFits(mapper, w) /\ ChannelInv(w) BY <1>1, <1>8 DEF ChainInv
  <2>3. OutputFits(v, e) /\ Realises(AfterOutput(v, e), Tail(out), w) BY <1>2, <1>3, <1>4, <2>2, PathStarts
  <2>4. BoxInv(box, host) BY <1>1, <1>8
  <2>5. CASE e.kind \notin Terminals
    <3>1. SendOK(box, box', host, AfterOutput(v, e)) BY <1>3, <1>5, <2>1, <2>2, <2>3, <2>4, <2>5, SendShows
    <3>2. /\ box' \in Boxes /\ box'.alive = box.alive /\ box'.senders = box.senders
          /\ BoxInv(box', host) /\ BoxShows(box', host, AfterOutput(v, e))
      BY <3>1 DEF SendOK
    <3>3. NoEnds(box'.control) BY <1>3, <1>5, <1>6, <2>1, <2>5, SendEnds
    <3>4. TypeInv' BY <1>1, <1>2, <1>5, <2>1, <3>2 DEF TypeInv, TimerOK
    <3>5. EndInv' BY <1>1, <1>2, <1>5, <1>6, <2>1, <3>3, NoEndsIsQuiet DEF EndInv, Over
    <3>6. ChannelInv(w)' BY <1>2, <2>1, <2>2 DEF ChannelInv
    <3>7. ChainInv' BY <1>2, <2>1, <2>2, <2>3, <3>2, <3>6 DEF ChainInv
    <3> QED BY <1>1, <1>2, <3>2, <3>4, <3>5, <3>7 DEF OutInv
  <2>6. CASE e.kind \in Terminals
    <3>1. Tail(out) = <<>> /\ link = <<>> /\ pending_image = NoPicture /\ client # "up" BY <1>1, <1>5, <2>6 DEF EndInv
    <3>2. PICK x : x = View(FALSE, host.size, host.px, 0, 0) OBVIOUS
    <3>3. /\ SendOK(box, box', host, x) /\ box'.frame = NoPicture /\ box'.delta = NoPicture
          /\ box'.control = Append(DiscardPendingCursorEvents(box.control), e)
      BY <1>3, <1>5, <2>1, <2>6, <3>2, SendEndShows
    <3>4. box' \in Boxes /\ box'.alive = box.alive /\ box'.senders = box.senders /\ BoxInv(box', host) /\ BoxShows(box', host, x)
      BY <3>3 DEF SendOK
    <3>5. EndsQuietly(box'.control)
      <4>1. box.control \in Seq(Controls) BY <1>3 DEF Boxes
      <4>2. PICK d \in Seq(Controls) : d = DiscardPendingCursorEvents(box.control) /\ NoEnds(d)
        BY <1>6, <4>1, DiscardKeeps, DiscardEnds
      <4>3. e \in Controls BY <1>5, <2>6, OutputKinds DEF Terminals
      <4>4. EndsQuietly(Append(d, e)) BY <4>2, <4>3, AppendEnds
      <4> QED BY <3>3, <4>2, <4>4
    <3>6. TypeInv' BY <1>1, <1>2, <1>5, <2>1, <3>4 DEF TypeInv, TimerOK
    <3>7. out' = <<>> /\ OnlyLast(out') /\ NoEnds(out') BY <2>1, <3>1, NoneEnds
    <3>8. EndInv' BY <1>1, <1>2, <1>6, <2>1, <3>1, <3>3, <3>5, <3>7 DEF EndInv, Over
    <3>9. ~mapper.connected
      <4>1. w = AfterOutput(v, e) BY <2>3, <3>1, PathEnds
      <4>2. AfterOutput(v, e) = View(FALSE, v.size, v.px, 0, 0) BY <2>6 DEF AfterOutput, Terminals
      <4>3. w.open = FALSE BY <4>1, <4>2 DEF View
      <4> QED BY <2>2, <4>3 DEF MapperFits
    <3>10. MapperFits(mapper', x) BY <1>2, <3>9 DEF MapperFits
    <3>11. Realises(x, out', x) BY <3>7, NoPath
    <3>12. ChannelInv(x)' BY <1>2, <3>1 DEF ChannelInv
    <3>13. BoxShows(box', host', x) BY <1>2, <3>4
    <3>14. ChainInv' BY <3>10, <3>11, <3>12, <3>13 DEF ChainInv
    <3> QED BY <1>1, <1>2, <3>4, <3>6, <3>8, <3>14 DEF OutInv
  <2> QED BY <2>5, <2>6
<1> QED BY <1>7, <1>8

\* The host reads what the mailbox has next.
LEMMA ReadKeeps ==
  ASSUME OutInv, box.alive, UNCHANGED <<remote, link, client, mapper, pending_image, timer, out, mapping>>,
         \A v : BoxShows(box, host, v) => ReadOK(box, box', host, host', v), EndInv'
  PROVE  OutInv'
<1>1. TypeInv /\ ChainInv BY DEF OutInv
<1>2. PICK v, w : BoxShows(box, host, v) /\ Realises(v, out, w) /\ MapperFits(mapper, w) /\ ChannelInv(w) BY <1>1 DEF ChainInv
<1>3. ReadOK(box, box', host, host', v) BY <1>2
<1>4. /\ box' \in Boxes /\ box'.alive = box.alive /\ box'.senders = box.senders /\ host' \in Hosts /\ host'.faults = {}
      /\ BoxInv(box', host') /\ BoxShows(box', host', v)
  BY <1>3 DEF ReadOK
<1>5. TypeInv' BY <1>1, <1>4 DEF TypeInv, TimerOK
<1>6. ChannelInv(w)' BY <1>2 DEF ChannelInv
<1>7. ChainInv' BY <1>2, <1>4, <1>6 DEF ChainInv
<1> QED BY <1>4, <1>5, <1>7 DEF OutInv

LEMMA ReceiveOutputKeeps == ASSUME OutInv, ReceiveOutput PROVE OutInv'
<1>1. TypeInv /\ EndInv /\ host.faults = {} /\ (box.alive => BoxInv(box, host) /\ ChainInv) BY DEF OutInv
<1>2. box.alive /\ ~BoxEmpty(box) /\ UNCHANGED <<remote, link, client, mapper, pending_image, timer, out, mapping>>
  BY DEF ReceiveOutput, clientVars, taskVars
<1>3. box \in Boxes /\ host \in Hosts /\ BoxInv(box, host) /\ box.control \in Seq(Controls) BY <1>1, <1>2 DEF TypeInv, Boxes
<1>4. CASE box.control # <<>>
  <2>1. PICK e : e = Head(box.control) OBVIOUS
  <2>2. HostReads(e) /\ box' = [box EXCEPT !.control = Tail(@)] BY <1>4, <2>1 DEF ReceiveOutput
  <2>3. host' = Read(host, e) BY <2>2, HostReadsIs
  <2>4. PICK c \in Seq(Controls) : c = box.control BY <1>3
  <2>5. /\ NoEnds(c) => NoEnds(Tail(c)) /\ e.kind \notin Terminals
        /\ Quiet(c) => Quiet(Tail(c)) /\ e.kind = "clipboard"
        /\ EndsQuietly(c) => EndsQuietly(Tail(c)) /\ (e.kind \in Terminals => Quiet(Tail(c)))
    BY <1>4, <2>1, <2>4, TailEnds
  <2>6. host.ended => e.kind = "clipboard" BY <1>1, <2>4, <2>5 DEF EndInv
  <2>7. ASSUME NEW v, BoxShows(box, host, v)
        PROVE  ReadOK(box, box', host, host', v) /\ host'.ended = (host.ended \/ e.kind \in Terminals)
    BY <1>1, <1>3, <1>4, <2>1, <2>2, <2>3, <2>6, <2>7, ReadControlShows
  <2>8. host'.ended = (host.ended \/ e.kind \in Terminals)
    <3>1. PICK v : BoxShows(box, host, v) BY <1>1, <1>2 DEF ChainInv
    <3> QED BY <2>7, <3>1
  <2>9. box'.control = Tail(c) /\ box'.frame = box.frame /\ box'.delta = box.delta BY <1>3, <2>2, <2>4 DEF Boxes
  <2>10. Over' => Over
    <3>1. host'.ended => Over BY <2>4, <2>5, <2>8 DEF Over
    <3>2. ~NoEnds(box'.control) => Over BY <2>4, <2>5, <2>9 DEF Over
    <3> QED BY <3>1, <3>2 DEF Over
  <2>11. EndsQuietly(box'.control) BY <1>1, <2>4, <2>5, <2>9 DEF EndInv
  <2>12. host'.ended => Quiet(box'.control) BY <1>1, <2>4, <2>5, <2>8, <2>9 DEF EndInv
  <2>13. EndInv' BY <1>1, <1>2, <2>9, <2>10, <2>11, <2>12 DEF EndInv
  <2> QED BY <1>2, <2>7, <2>13, ReadKeeps
<1>5. CASE box.control = <<>> /\ box.frame # NoPicture
  <2>1. HostReads(box.frame) /\ box' = [box EXCEPT !.frame = NoPicture] BY <1>5 DEF ReceiveOutput
  <2>2. host' = Read(host, box.frame) BY <2>1, HostReadsIs
  <2>3. ~Over /\ ~host.ended BY <1>1, <1>5 DEF EndInv, Over
  <2>4. ASSUME NEW v, BoxShows(box, host, v) PROVE ReadOK(box, box', host, host', v) /\ host'.ended = host.ended
    BY <1>1, <1>3, <1>5, <2>1, <2>2, <2>3, <2>4, ReadFrameShows
  <2>5. host'.ended = host.ended
    <3>1. PICK v : BoxShows(box, host, v) BY <1>1, <1>2 DEF ChainInv
    <3> QED BY <2>4, <3>1
  <2>6. box'.control = box.control BY <1>3, <2>1 DEF Boxes
  <2>7. EndInv' BY <1>1, <1>2, <2>3, <2>5, <2>6 DEF EndInv, Over
  <2> QED BY <1>2, <2>4, <2>7, ReadKeeps
<1>6. CASE box.control = <<>> /\ box.frame = NoPicture
  <2>1. HostReads(box.delta) /\ box' = [box EXCEPT !.delta = NoPicture] BY <1>6 DEF ReceiveOutput
  <2>2. host' = Read(host, box.delta) /\ box.delta # NoPicture BY <1>2, <1>6, <2>1, HostReadsIs DEF BoxEmpty
  <2>3. ~Over /\ ~host.ended BY <1>1, <2>2 DEF EndInv, Over
  <2>4. ASSUME NEW v, BoxShows(box, host, v) PROVE ReadOK(box, box', host, host', v) /\ host'.ended = host.ended
    BY <1>1, <1>3, <1>6, <2>1, <2>2, <2>3, <2>4, ReadDeltaShows
  <2>5. host'.ended = host.ended
    <3>1. PICK v : BoxShows(box, host, v) BY <1>1, <1>2 DEF ChainInv
    <3> QED BY <2>4, <3>1
  <2>6. box'.control = box.control BY <1>3, <2>1 DEF Boxes
  <2>7. EndInv' BY <1>1, <1>2, <2>3, <2>5, <2>6 DEF EndInv, Over
  <2> QED BY <1>2, <2>4, <2>7, ReadKeeps
<1> QED BY <1>4, <1>5, <1>6
-----------------------------------------------------------------------------
(* The theorem *)

LEMMA OutInitInv == ASSUME OutInit PROVE OutInv
<1>1. PICK p : p = [c \in Cells |-> 0] OBVIOUS
<1>2. p \in [Cells -> Pixels \cup {0}] /\ p \in Pictures
  <2>1. p \in [Cells -> Pixels \cup {0}] /\ Cells \in SUBSET Cells BY <1>1
  <2> QED BY <2>1 DEF Pictures
<1>3. /\ remote = [px |-> p, size |-> 0, shape |-> 0, position |-> 0, base |-> FALSE] /\ link = <<>> /\ client = "up"
      /\ mapper = NewMapper /\ pending_image = NoPicture /\ timer = NoTimer /\ out = <<>> /\ mapping = TRUE /\ box = NewBox
      /\ host = [px |-> p, size |-> 0, shape |-> 0, position |-> 0, open |-> FALSE, ended |-> FALSE, faults |-> {}]
  BY <1>1 DEF OutInit
<1>4. remote \in Desktops /\ host \in Hosts BY <1>2, <1>3 DEF Desktops, Hosts, AnySize, AnyCursor
<1>5. mapper \in Mappers /\ mapper.connected = (mapper.size # 0) /\ ~mapper.connected /\ mapper.shape = 0 /\ mapper.position = 0
  BY <1>3 DEF Mappers, NewMapper, AnySize, AnyCursor
<1>6. box \in Boxes /\ box.control = <<>> /\ box.frame = NoPicture /\ box.delta = NoPicture BY <1>3 DEF Boxes, NewBox
<1>7. TimerOK BY <1>3, NoTimerIsOff DEF TimerOK, NoTimerOK
<1>8. link \in Seq(Events) /\ Len(link) <= Capacity /\ out \in Seq(Outputs)
  <2>1. Len(<<>>) = 0 /\ <<>> \in Seq(Events) /\ <<>> \in Seq(Outputs) OBVIOUS
  <2> QED BY <1>3, <2>1, OutputAssumption
<1>9. TypeInv BY <1>3, <1>4, <1>5, <1>6, <1>7, <1>8 DEF TypeInv
<1>10. host.ended = FALSE /\ host.faults = {} /\ host.px = p /\ host.size = 0 BY <1>3
<1>11. EndInv BY <1>3, <1>6, <1>10, NoneEnds DEF EndInv, Over
<1>12. BoxInv(box, host)
  <2>1. Len(<<>>) = 0 OBVIOUS
  <2> QED BY <1>6, <2>1 DEF BoxInv, CursorsOpen, DeltaFits
<1>13. PICK v : v = View(FALSE, host.size, host.px, 0, 0) OBVIOUS
<1>14. BoxShows(box, host, v)
  <2>1. v.open = FALSE /\ v.size = host.size /\ v.px = host.px /\ v.shape = 0 /\ v.position = 0 BY <1>13 DEF View
  <2> QED BY <1>6, <2>1 DEF BoxShows, ControlShows, PictureShows, BoxPx, BasePx, BaseSize
<1>15. Shown(mapper, pending_image, remote, v)
  <2>1. remote.base = FALSE /\ remote.shape = 0 /\ remote.position = 0 BY <1>3
  <2> QED BY <1>3, <1>5, <2>1 DEF Shown
<1>16. ChannelInv(v) BY <1>3, <1>4, <1>15, NoTrail DEF ChannelInv
<1>17. ChainInv BY <1>3, <1>5, <1>14, <1>16, NoPath DEF ChainInv, MapperFits
<1> QED BY <1>9, <1>10, <1>11, <1>12, <1>17 DEF OutInv

LEMMA InvIsShown == ASSUME OutInv PROVE DesktopIsShown
<1>1. TypeInv /\ EndInv /\ host.faults = {} /\ (box.alive => BoxInv(box, host) /\ ChainInv) BY DEF OutInv
<1>2. OutputOK
  <2>1. box.senders \subseteq NewBox.senders BY <1>1 DEF TypeInv, Boxes, NewBox
  <2> QED BY <1>1, <2>1 DEF OutputOK, TypeInv, TimerOK
<1>3. UpdatesFit /\ CursorsAreInSession /\ NothingAfterTheEnd BY <1>1 DEF UpdatesFit, CursorsAreInSession, NothingAfterTheEnd
<1>4. HostIsInSync
  <2>1. SUFFICES ASSUME Settled, mapping, box.alive, client = "up", remote.base
                 PROVE  /\ host.open /\ host.size = remote.size /\ host.px = remote.px
                        /\ remote.shape # 0 => host.shape = remote.shape
                        /\ remote.position # 0 => host.position = remote.position
    BY DEF HostIsInSync
  <2>2. /\ link = <<>> /\ pending_image = NoPicture /\ out = <<>>
        /\ box.control = <<>> /\ box.frame = NoPicture /\ box.delta = NoPicture
    BY <2>1 DEF Settled, BoxEmpty
  <2>3. PICK v, w : BoxShows(box, host, v) /\ Realises(v, out, w) /\ MapperFits(mapper, w) /\ ChannelInv(w)
    BY <1>1, <2>1 DEF ChainInv
  <2>4. v = w BY <2>2, <2>3, PathEnds
  <2>5. PICK r \in Desktops : Shown(mapper, pending_image, r, w) /\ LeadsTo(r, link, remote) BY <2>1, <2>3 DEF ChannelInv
  <2>6. r = remote BY <2>2, <2>5, TrailEnds
  <2>7. /\ mapper.connected /\ mapper.size = remote.size /\ v.px = remote.px
        /\ (remote.shape # 0 => v.shape = remote.shape) /\ (remote.position # 0 => v.position = remote.position)
    BY <2>1, <2>2, <2>4, <2>5, <2>6 DEF Shown
  <2>8. v.open /\ v.size = remote.size BY <2>3, <2>4, <2>7 DEF MapperFits
  <2>9. v.px = host.px /\ v.size = host.size BY <2>2, <2>3 DEF BoxShows, PictureShows, BoxPx, BasePx, BaseSize
  <2>10. Len(box.control) = 0 BY <2>2
  <2>11. host.open
    <3>1. OpenAt(box.control, host.open, 0 + 1) BY <2>3, <2>8, <2>10 DEF BoxShows, ControlShows
    <3> QED BY <3>1 DEF OpenAt
  <2>12. \A kind, has, x : LastIs(box.control, kind, has, x) => has = x BY <2>10 DEF LastIs
  <2>13. (v.shape # 0 => host.shape = v.shape) /\ (v.position # 0 => host.position = v.position)
    BY <2>3, <2>12 DEF BoxShows, ControlShows
  <2> QED BY <2>7, <2>8, <2>9, <2>11, <2>13
<1> QED BY <1>2, <1>3, <1>4 DEF DesktopIsShown

\* Whatever the client sends and in whatever order its task, the writer and the
\* host take their steps: once all under way has arrived the host shows the desktop
\* and the cursor of the present session, every update finds the picture it is for,
\* a cursor its session, and nothing follows the end that is announced.
THEOREM RdpDesktopShown == OutSpec => []DesktopIsShown
<1>1. OutInit => OutInv BY OutInitInv
<1>2. OutInv /\ [OutNext]_outVars => OutInv'
  <2> SUFFICES ASSUME OutInv, [OutNext]_outVars PROVE OutInv'
    OBVIOUS
  <2>1. CASE ClientImage BY <2>1, ClientImageKeeps
  <2>2. CASE ClientRegion BY <2>2, ClientRegionKeeps
  <2>3. CASE ClientMalformedRegion BY <2>3, ClientMalformedRegionKeeps
  <2>4. CASE ClientCursor BY <2>4, ClientCursorKeeps
  <2>5. CASE ClientFallback BY <2>5, ClientFallbackKeeps
  <2>6. CASE ClientSessionEnds BY <2>6, ClientSessionEndsKeeps
  <2>7. CASE ClientStops BY <2>7, ClientStopsKeeps
  <2>8. CASE ClipboardEvent BY <2>8, ClipboardEventKeeps
  <2>9. CASE MapEvent BY <2>9, MapEventKeeps
  <2>10. CASE PresentDue BY <2>10, PresentDueKeeps
  <2>11. CASE MapperDrains BY <2>11, MapperDrainsKeeps
  <2>12. CASE SendOut BY <2>12, SendOutKeeps
  <2>13. CASE Tick BY <2>13, TickKeeps
  <2>14. CASE ReceiveOutput BY <2>14, ReceiveOutputKeeps
  <2>15. CASE WriterEnds BY <2>15, WriterEndsKeeps
  <2>16. CASE WriteFails BY <2>16, WriteFailsKeeps
  <2>17. CASE Close BY <2>17, CloseKeeps
  <2>18. CASE Exit BY <2>18, ExitKeeps
  <2>19. CASE UNCHANGED outVars BY <2>19, StutterKeeps DEF outVars
  <2> QED BY <2>1, <2>2, <2>3, <2>4, <2>5, <2>6, <2>7, <2>8, <2>9, <2>10, <2>11, <2>12, <2>13, <2>14, <2>15, <2>16, <2>17, <2>18,
             <2>19 DEF OutNext
<1>3. OutInv => DesktopIsShown BY InvIsShown
<1> QED BY <1>1, <1>2, <1>3, PTL DEF OutSpec
=============================================================================
