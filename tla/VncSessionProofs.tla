--------------------------- MODULE VncSessionProofs ---------------------------
(***************************************************************************)
(* Theorems about what the session thread of the VNC helper keeps for      *)
(* itself: its timers (VncRefresh), for every choice of the timeouts and   *)
(* of how long a turn of the loop takes, and its framebuffer, for every    *)
(* size below the largest word and every sequence of rectangles.           *)
(***************************************************************************)
EXTENDS VncRefresh, Framebuffer, TLAPS

\* What the timers hold: an age each, and at most one where it is an option.
AgesOK ==
  /\ pc \in {"poll", "refresh", "ended"}
  /\ last_refresh \in Nat /\ last_server_activity \in Nat /\ lag \in 0..MaxLag
  /\ refresh_in_flight_since \in SUBSET Nat /\ liveness_probe_since \in SUBSET Nat
  /\ \A a, b \in refresh_in_flight_since : a = b
  /\ \A a, b \in liveness_probe_since : a = b

\* Without a probe a refresh in flight was sent before the liveness timeout ran
\* out, and either that is not long ago or the refresh is still waited for.
UnprobedSilence ==
  liveness_probe_since = {} =>
    /\ \A f \in refresh_in_flight_since : last_server_activity <= f + LivenessTimeout - 1
    /\ \/ last_server_activity <= LivenessTimeout - 1 + lag
       \/ \E f \in refresh_in_flight_since : f <= ResponseTimeout - 1 + lag

\* A probe was sent when the liveness timeout had run out, and not much later.
ProbedSilence ==
  \A p \in liveness_probe_since :
    /\ last_server_activity >= LivenessTimeout + p
    /\ last_server_activity <= LivenessTimeout + ResponseTimeout + MaxLag - 2 + p
    /\ pc # "ended" => p <= ProbeTimeout - 1 + lag

\* A refresh in flight is the last one; when none is, something was heard since.
InFlight ==
  /\ \A f \in refresh_in_flight_since : f = last_refresh
  /\ refresh_in_flight_since = {} => last_server_activity <= last_refresh

\* A session is given up when its probe has timed out.
Ended == pc = "ended" => \E p \in liveness_probe_since : p >= ProbeTimeout

RefreshInv == AgesOK /\ UnprobedSilence /\ ProbedSilence /\ InFlight /\ Ended

\* The initial state of a session satisfies the invariant.
LEMMA RefreshInvInit == Init => RefreshInv
BY RefreshAssumption DEF Init, RefreshInv, AgesOK, UnprobedSilence, ProbedSilence, InFlight, Ended

\* The constants are positive numbers.
LEMMA RefreshConstants ==
  /\ Interval \in Nat /\ ResponseTimeout \in Nat /\ LivenessTimeout \in Nat
  /\ ProbeTimeout \in Nat /\ MaxLag \in Nat
  /\ Interval >= 1 /\ ResponseTimeout >= 1 /\ LivenessTimeout >= 1 /\ ProbeTimeout >= 1 /\ MaxLag >= 1
  /\ Interval <= ResponseTimeout /\ ResponseTimeout <= LivenessTimeout
BY RefreshAssumption

\* A step that leaves the timers alone, and changes pc between turns only, keeps
\* the invariant.
LEMMA QuietKeepsInv ==
  ASSUME RefreshInv, UNCHANGED timers, lag' = lag,
         pc' = pc \/ (pc # "ended" /\ pc' \in {"poll", "refresh"})
  PROVE  RefreshInv'
<1>1. AgesOK'
  BY DEF RefreshInv, AgesOK, timers
<1>2. UnprobedSilence'
  BY DEF RefreshInv, UnprobedSilence, timers
<1>3. ProbedSilence'
  BY DEF RefreshInv, ProbedSilence, timers
<1>4. InFlight' /\ Ended'
  BY DEF RefreshInv, InFlight, Ended, timers
<1> QED
  BY <1>1, <1>2, <1>3, <1>4 DEF RefreshInv

\* Polling resets what an event answers, and else changes no timer.
LEMMA PollKeepsInv == RefreshInv /\ PollEvents => RefreshInv'
<1> SUFFICES ASSUME RefreshInv, PollEvents PROVE RefreshInv'
  OBVIOUS
<1>1. CASE UNCHANGED timers
  BY <1>1, QuietKeepsInv DEF PollEvents
<1>2. CASE ~UNCHANGED timers
  <2>1. /\ pc' = "refresh" /\ last_server_activity' = 0 /\ last_refresh' = last_refresh /\ lag' = lag
        /\ refresh_in_flight_since' = {} /\ liveness_probe_since' = {}
    BY <1>2 DEF PollEvents
  <2>2. last_refresh \in Nat /\ lag \in 0..MaxLag
    BY DEF RefreshInv, AgesOK
  <2> QED
    BY <2>1, <2>2, RefreshConstants DEF RefreshInv, AgesOK, UnprobedSilence, ProbedSilence, InFlight, Ended
<1> QED
  BY <1>1, <1>2

\* A turn of refresh_if_needed, by what refresh_action says.
LEMMA RefreshKeepsInv == RefreshInv /\ RefreshIfNeeded => RefreshInv'
<1> SUFFICES ASSUME RefreshInv, RefreshIfNeeded PROVE RefreshInv'
  OBVIOUS
<1> USE RefreshConstants
<1>t. /\ last_refresh \in Nat /\ last_server_activity \in Nat /\ lag \in Nat /\ lag <= MaxLag
      /\ refresh_in_flight_since \in SUBSET Nat /\ liveness_probe_since \in SUBSET Nat
  BY DEF RefreshInv, AgesOK
<1>c. lag' = 0 /\ last_server_activity' = last_server_activity
  BY DEF RefreshIfNeeded
<1>1. CASE RefreshAction = "reconnect"
  <2>1. /\ pc' = "ended" /\ last_refresh' = last_refresh
        /\ refresh_in_flight_since' = refresh_in_flight_since /\ liveness_probe_since' = liveness_probe_since
    BY <1>1 DEF RefreshIfNeeded
  <2>2. \E age \in liveness_probe_since : age >= ProbeTimeout
    BY <1>1 DEF RefreshAction
  <2> QED
    BY <1>t, <1>c, <2>1, <2>2 DEF RefreshInv, AgesOK, UnprobedSilence, ProbedSilence, InFlight, Ended
<1>2. CASE RefreshAction = "wait"
  <2>1. /\ pc' = "poll" /\ last_refresh' = last_refresh
        /\ refresh_in_flight_since' = refresh_in_flight_since /\ liveness_probe_since' = liveness_probe_since
    BY <1>2 DEF RefreshIfNeeded
  <2>2. CASE liveness_probe_since # {}
    <3>1. \A age \in liveness_probe_since : age <= ProbeTimeout - 1
      BY <1>2, <1>t, <2>2 DEF RefreshAction
    <3>2. AgesOK'
      BY <1>t, <1>c, <2>1 DEF RefreshInv, AgesOK
    <3>3. UnprobedSilence'
      BY <2>1, <2>2 DEF UnprobedSilence
    <3>4. ProbedSilence'
      BY <1>t, <1>c, <2>1, <3>1 DEF RefreshInv, ProbedSilence
    <3>5. InFlight' /\ Ended'
      BY <1>c, <2>1 DEF RefreshInv, InFlight, Ended
    <3> QED
      BY <3>2, <3>3, <3>4, <3>5 DEF RefreshInv
  <2>3. CASE liveness_probe_since = {}
    <3>1. \/ last_server_activity <= LivenessTimeout - 1
          \/ \E age \in refresh_in_flight_since : age <= ResponseTimeout - 1
      <4>1. (\E age \in refresh_in_flight_since : age < ResponseTimeout) \/ ~(last_server_activity >= LivenessTimeout)
        BY <1>2, <2>3 DEF RefreshAction
      <4>2. \A age \in refresh_in_flight_since : age < ResponseTimeout => age <= ResponseTimeout - 1
        BY <1>t
      <4>3. ~(last_server_activity >= LivenessTimeout) => last_server_activity <= LivenessTimeout - 1
        BY <1>t
      <4> QED
        BY <4>1, <4>2, <4>3
    <3> QED
      BY <1>t, <1>c, <2>1, <2>3, <3>1 DEF RefreshInv, AgesOK, UnprobedSilence, ProbedSilence, InFlight, Ended
  <2> QED
    BY <2>2, <2>3
<1>3. CASE RefreshAction = "incremental"
  <2>1. pc' = "poll" /\ last_refresh' = 0 /\ refresh_in_flight_since' = {0}
    BY <1>3 DEF RefreshIfNeeded
  <2>2. liveness_probe_since = {} /\ last_server_activity <= LivenessTimeout - 1
    BY <1>3, <1>t DEF RefreshAction
  <2>3. liveness_probe_since' = {}
    BY <1>3, <2>2 DEF RefreshIfNeeded
  <2> QED
    BY <1>t, <1>c, <2>1, <2>2, <2>3 DEF RefreshInv, AgesOK, UnprobedSilence, ProbedSilence, InFlight, Ended
<1>4. CASE RefreshAction = "probe"
  <2>1. /\ pc' = "poll" /\ last_refresh' = 0
        /\ refresh_in_flight_since' = {0} /\ liveness_probe_since' = {0}
    BY <1>4 DEF RefreshIfNeeded
  <2>2. liveness_probe_since = {} /\ last_server_activity >= LivenessTimeout
    BY <1>4, <1>t DEF RefreshAction
  <2>3. last_server_activity <= LivenessTimeout + ResponseTimeout + MaxLag - 2
    BY <1>t, <2>2 DEF RefreshInv, UnprobedSilence
  <2> QED
    BY <1>t, <1>c, <2>1, <2>2, <2>3 DEF RefreshInv, AgesOK, UnprobedSilence, ProbedSilence, InFlight, Ended
<1>5. RefreshAction \in {"reconnect", "wait", "incremental", "probe"}
  BY DEF RefreshAction
<1> QED
  BY <1>1, <1>2, <1>3, <1>4, <1>5

\* Time makes every age one older: none is at its cap yet.
LEMMA TickKeepsInv == RefreshInv /\ Tick => RefreshInv'
<1> SUFFICES ASSUME RefreshInv, Tick PROVE RefreshInv'
  OBVIOUS
<1> USE RefreshAssumption
<1>1. AgesOK'
  BY DEF RefreshInv, AgesOK, Tick, Older, Cap
<1>2. UnprobedSilence'
  <2> USE RefreshConstants
  <2> SUFFICES ASSUME liveness_probe_since' = {}
               PROVE  /\ \A f \in refresh_in_flight_since' : last_server_activity' <= f + LivenessTimeout - 1
                      /\ \/ last_server_activity' <= LivenessTimeout - 1 + lag'
                         \/ \E f \in refresh_in_flight_since' : f <= ResponseTimeout - 1 + lag'
    BY DEF UnprobedSilence
  <2>1. liveness_probe_since = {}
    BY DEF Tick
  <2>2. /\ last_server_activity \in Nat /\ lag \in Nat /\ lag' = lag + 1 /\ Cap \in Nat
        /\ refresh_in_flight_since \in SUBSET Nat
        /\ last_server_activity' = Older(last_server_activity)
        /\ refresh_in_flight_since' = {Older(age) : age \in refresh_in_flight_since}
    BY DEF RefreshInv, AgesOK, Tick, Cap
  <2>4. ASSUME NEW f \in refresh_in_flight_since'
        PROVE  last_server_activity' <= f + LivenessTimeout - 1
    <3>1. PICK age \in refresh_in_flight_since : f = Older(age)
      BY <2>2
    <3>2. last_server_activity <= age + LivenessTimeout - 1
      BY <2>1 DEF RefreshInv, UnprobedSilence
    <3> QED
      BY <2>2, <3>1, <3>2 DEF Older
  <2>5. CASE last_server_activity <= LivenessTimeout - 1 + lag
    BY <2>2, <2>4, <2>5 DEF Older
  <2>6. CASE \E f \in refresh_in_flight_since : f <= ResponseTimeout - 1 + lag
    <3>1. PICK f \in refresh_in_flight_since : f <= ResponseTimeout - 1 + lag
      BY <2>6
    <3>2. Older(f) \in refresh_in_flight_since' /\ Older(f) <= ResponseTimeout - 1 + lag'
      BY <2>2, <3>1 DEF Older
    <3> QED
      BY <2>4, <3>2
  <2> QED
    BY <2>1, <2>5, <2>6 DEF RefreshInv, UnprobedSilence
<1>3. ProbedSilence'
  BY DEF RefreshInv, AgesOK, ProbedSilence, Tick, Older, Cap
<1>4. InFlight'
  BY DEF RefreshInv, AgesOK, InFlight, Tick, Older, Cap
<1>5. Ended'
  BY DEF RefreshInv, Ended, Tick
<1> QED
  BY <1>1, <1>2, <1>3, <1>4, <1>5 DEF RefreshInv

\* RefreshInv is inductive.
THEOREM RefreshInvariant == Spec => []RefreshInv
<1>1. RefreshInv /\ [Next]_vars => RefreshInv'
  <2> SUFFICES ASSUME RefreshInv, [Next]_vars PROVE RefreshInv'
    OBVIOUS
  <2>1. CASE PollEvents
    BY <2>1, PollKeepsInv
  <2>2. CASE RefreshIfNeeded
    BY <2>2, RefreshKeepsInv
  <2>3. CASE Tick
    BY <2>3, TickKeepsInv
  <2>4. CASE ServerSends
    BY <2>4, QuietKeepsInv DEF ServerSends
  <2>5. CASE ServerDies
    BY <2>5, QuietKeepsInv DEF ServerDies
  <2>6. CASE UNCHANGED vars
    BY <2>6, QuietKeepsInv DEF vars
  <2> QED
    BY <2>1, <2>2, <2>3, <2>4, <2>5, <2>6 DEF Next
<1> QED
  BY RefreshInvInit, <1>1, PTL DEF Spec

\* A server is given up only after the liveness timeout and the probe's.
THEOREM VncGivenUpWasSilent == Spec => []GivenUpWasSilent
<1>1. RefreshInv => GivenUpWasSilent
  BY RefreshAssumption DEF RefreshInv, AgesOK, ProbedSilence, Ended, GivenUpWasSilent
<1> QED
  BY <1>1, RefreshInvariant, PTL

\* A session that goes on has not been silent for longer than the timeouts and
\* the slack of the loop.
THEOREM VncSilenceIsBounded == Spec => []SilenceIsBounded
<1>1. RefreshInv => SilenceIsBounded
  BY RefreshAssumption DEF RefreshInv, AgesOK, UnprobedSilence, ProbedSilence, SilenceIsBounded
<1> QED
  BY <1>1, RefreshInvariant, PTL

\* Requests to a server that does not answer keep their distance.
THEOREM VncNoFlood == Spec => NoFlood
<1> DEFINE Step ==
      pc = "refresh" /\ request' \in {"incremental", "probe"} /\ pc' = "poll" =>
        /\ last_refresh >= Interval
        /\ last_server_activity <= last_refresh \/ last_refresh >= ResponseTimeout
<1>1. RefreshInv /\ [Next]_vars => [Step]_vars
  <2> SUFFICES ASSUME RefreshInv, [Next]_vars, pc = "refresh", pc' = "poll",
                      request' \in {"incremental", "probe"}
               PROVE  /\ last_refresh >= Interval
                      /\ last_server_activity <= last_refresh \/ last_refresh >= ResponseTimeout
    OBVIOUS
  <2>1. RefreshIfNeeded
    BY DEF Next, PollEvents, Tick, ServerSends, ServerDies, vars
  <2>2. RefreshAction \in {"incremental", "probe"}
    BY <2>1 DEF RefreshIfNeeded
  <2> QED
    BY <2>2, RefreshAssumption DEF RefreshAction, RefreshInv, AgesOK, InFlight
<1> QED
  BY <1>1, RefreshInvariant, PTL DEF Spec, NoFlood
-----------------------------------------------------------------------------
(* The framebuffer: rows, columns and indexes *)

\* A row that is before row H ends before it.
LEMMA RowsBefore == ASSUME NEW b \in Nat, NEW H \in Nat, NEW W \in Nat, b < H PROVE b * W + W <= H * W /\ b * W \in Nat
<1>1. PICK k \in Nat : H = b + 1 + k
  <2>1. H - b - 1 \in Nat /\ H = b + 1 + (H - b - 1) OBVIOUS
  <2> QED BY <2>1
<1>2. H * W = b * W + W + k * W BY <1>1
<1>3. k * W \in Nat /\ b * W \in Nat OBVIOUS
<1> QED BY <1>2, <1>3

\* A place has one row and one column.
LEMMA PlaceIsUnique ==
  ASSUME NEW W \in Nat, NEW a \in 0..(W - 1), NEW b \in Nat, NEW c \in 0..(W - 1), NEW d \in Nat, b * W + a = d * W + c
  PROVE  a = c /\ b = d
<1>1. b * W \in Nat /\ d * W \in Nat OBVIOUS
<1>2. ~(b < d)
  <2>1. SUFFICES ASSUME b < d PROVE FALSE OBVIOUS
  <2>2. b * W + W <= d * W BY <2>1, RowsBefore
  <2> QED BY <1>1, <2>2
<1>3. ~(d < b)
  <2>1. SUFFICES ASSUME d < b PROVE FALSE OBVIOUS
  <2>2. d * W + W <= b * W BY <2>1, RowsBefore
  <2> QED BY <1>1, <2>2
<1>4. b = d BY <1>2, <1>3
<1> QED BY <1>1, <1>4

\* Counting the pixels of a rectangle row by row.
LEMMA Divided ==
  ASSUME NEW w \in Nat \ {0}, NEW i \in Nat
  PROVE  i \div w \in Nat /\ i % w \in 0..(w - 1) /\ i = (i \div w) * w + (i % w)
OBVIOUS

LEMMA DividedBack ==
  ASSUME NEW w \in Nat \ {0}, NEW a \in 0..(w - 1), NEW b \in Nat
  PROVE  (b * w + a) \div w = b /\ (b * w + a) % w = a
<1>1. PICK i \in Nat : i = b * w + a
  <2>1. b * w \in Nat OBVIOUS
  <2> QED BY <2>1
<1>2. i \div w \in Nat /\ i % w \in 0..(w - 1) /\ i = (i \div w) * w + (i % w) BY Divided
<1>3. PICK q \in Nat, m \in 0..(w - 1) : q = i \div w /\ m = i % w BY <1>2
<1>4. q * w + m = b * w + a BY <1>1, <1>2, <1>3
<1>5. m = a /\ q = b BY <1>4, PlaceIsUnique
<1> QED BY <1>1, <1>3, <1>5

\* The pixels of a rectangle are those of its rows.
LEMMA PixelsAre ==
  ASSUME NEW w \in Nat, NEW h \in Nat, NEW i \in 0..(w * h - 1)
  PROVE  w # 0 /\ h # 0 /\ i \in Nat /\ i % w \in 0..(w - 1) /\ i \div w \in 0..(h - 1) /\ i = (i \div w) * w + (i % w)
<1>1. w * h \in Nat /\ w * h # 0 /\ i \in Nat /\ i < w * h OBVIOUS
<1>2. w # 0
  <2>1. w = 0 => w * h = 0 OBVIOUS
  <2> QED BY <1>1, <2>1
<1>3. h # 0
  <2>1. h = 0 => w * h = 0 OBVIOUS
  <2> QED BY <1>1, <2>1
<1>4. PICK q \in Nat, m \in 0..(w - 1) : q = i \div w /\ m = i % w /\ i = q * w + m BY <1>1, <1>2, Divided
<1>5. q < h
  <2>1. SUFFICES ASSUME q >= h PROVE FALSE BY <1>4
  <2>2. PICK k \in Nat : q = h + k
    <3>1. q - h \in Nat /\ q = h + (q - h) BY <2>1
    <3> QED BY <3>1
  <2>3. q * w = w * h + k * w /\ k * w \in Nat BY <2>2
  <2> QED BY <1>1, <1>4, <2>3
<1> QED BY <1>1, <1>2, <1>3, <1>4, <1>5

LEMMA PixelOf ==
  ASSUME NEW w \in Nat, NEW h \in Nat, NEW a \in 0..(w - 1), NEW b \in 0..(h - 1)
  PROVE  b * w + a \in 0..(w * h - 1) /\ (b * w + a) % w = a /\ (b * w + a) \div w = b
<1>1. w \in Nat \ {0} /\ b \in Nat /\ b < h OBVIOUS
<1>2. b * w + w <= h * w /\ b * w \in Nat BY <1>1, RowsBefore
<1>3. h * w = w * h OBVIOUS
<1>4. b * w + a \in 0..(w * h - 1) BY <1>2, <1>3
<1> QED BY <1>1, <1>4, DividedBack

\* A rectangle inside a framebuffer.
Rect(x, y, w, h) == x \in Nat /\ y \in Nat /\ w \in Nat /\ h \in Nat /\ x + w <= size.w /\ y + h <= size.h
SizeOK == size.w \in Nat \ {0} /\ size.h \in Nat \ {0}

\* What is shown of the place of a pixel, and of a cell of a patched vector.
PlaceOK(x, y, w, h, i) ==
  /\ i % w \in 0..(w - 1) /\ i \div w \in 0..(h - 1) /\ i = (i \div w) * w + (i % w)
  /\ x + (i % w) \in 0..(size.w - 1) /\ y + (i \div w) \in 0..(size.h - 1)
  /\ Index(x, y, w, i) = (y + (i \div w)) * size.w + (x + (i % w)) /\ Index(x, y, w, i) \in 0..(Length - 1)
PatchOK(v, x, y, w, h, data, a, b) ==
  /\ b * size.w + a \in DOMAIN v
  /\ IF a \in x..(x + w - 1) /\ b \in y..(y + h - 1)
     THEN Patched(v, x, y, w, h, data)[b * size.w + a] = data[(b - y) * w + (a - x)]
     ELSE Patched(v, x, y, w, h, data)[b * size.w + a] = v[b * size.w + a]

\* The place of a pixel of the rectangle is in the vector.
LEMMA IndexIs ==
  ASSUME SizeOK, NEW x, NEW y, NEW w, NEW h, Rect(x, y, w, h), NEW i \in 0..(w * h - 1) PROVE PlaceOK(x, y, w, h, i)
<1>1. PICK W \in Nat, H \in Nat : W = size.w /\ H = size.h BY DEF SizeOK
<1>2. x \in Nat /\ y \in Nat /\ w \in Nat /\ h \in Nat /\ x + w <= W /\ y + h <= H BY <1>1 DEF Rect
<1>3. i % w \in 0..(w - 1) /\ i \div w \in 0..(h - 1) /\ i = (i \div w) * w + (i % w) BY <1>2, PixelsAre
<1>4. PICK a \in 0..(w - 1), b \in 0..(h - 1) : a = i % w /\ b = i \div w BY <1>3
<1>5. x + a \in 0..(W - 1) /\ y + b \in 0..(H - 1) BY <1>2
<1>6. Index(x, y, w, i) = (y + b) * W + (x + a)
  <2>1. (y + b) * W \in Nat BY <1>2
  <2>2. Index(x, y, w, i) = (y + b) * W + x + a BY <1>1, <1>4 DEF Index
  <2> QED BY <1>2, <2>1, <2>2
<1>7. (y + b) * W + (x + a) \in 0..(Length - 1)
  <2>1. (y + b) * W + (x + a) \in 0..(W * H - 1) BY <1>5, PixelOf
  <2> QED BY <1>1, <2>1 DEF Length
<1> QED BY <1>1, <1>3, <1>4, <1>5, <1>6, <1>7 DEF PlaceOK

\* Where the sum of two words does not saturate, the check is exact and all rows fit.
LEMMA CheckIsExact ==
  ASSUME SizeOK, size.w < WordMax, size.h < WordMax, WordMax \in Nat,
         NEW x \in Words, NEW y \in Words, NEW w \in Words, NEW h \in Words, Inside(x, y, w, h)
  PROVE  Rect(x, y, w, h) /\ Fits(x, y, w, h)
<1>1. Rect(x, y, w, h) BY DEF SizeOK, Words, Inside, SaturatingAdd, Rect
<1>2. ASSUME NEW r \in 0..(h - 1) PROVE (y + r) * size.w + x + w <= Length
  <2>1. PICK W \in Nat, H \in Nat : W = size.w /\ H = size.h BY DEF SizeOK
  <2>2. x \in Nat /\ w \in Nat /\ x + w <= W /\ y + r \in Nat /\ y + r < H BY <1>1, <2>1 DEF Rect
  <2>3. (y + r) * W + W <= H * W /\ (y + r) * W \in Nat BY <2>1, <2>2, RowsBefore
  <2>4. H * W = Length BY <2>1 DEF Length
  <2>5. PICK k \in Nat : k = (y + r) * W BY <2>3
  <2>6. k + W <= Length BY <2>3, <2>4, <2>5
  <2>7. Length \in Nat BY <2>1 DEF Length
  <2>8. k + x + w <= Length BY <2>2, <2>6, <2>7
  <2> QED BY <2>1, <2>5, <2>8
<1> QED BY <1>1, <1>2 DEF Fits

\* A cell of the vector after a rectangle was copied into it.
LEMMA PatchedIs ==
  ASSUME SizeOK, NEW x, NEW y, NEW w, NEW h, Rect(x, y, w, h), NEW v, DOMAIN v = 0..(Length - 1), NEW data,
         NEW a \in 0..(size.w - 1), NEW b \in 0..(size.h - 1)
  PROVE  PatchOK(v, x, y, w, h, data, a, b)
<1>1. PICK W \in Nat, H \in Nat : W = size.w /\ H = size.h BY DEF SizeOK
<1>2. x \in Nat /\ y \in Nat /\ w \in Nat /\ h \in Nat /\ x + w <= W /\ y + h <= H BY <1>1 DEF Rect
<1>3. PICK n : n = b * W + a OBVIOUS
<1>4. n \in DOMAIN v
  <2>1. b * W + a \in 0..(W * H - 1) BY <1>1, PixelOf
  <2> QED BY <1>1, <1>3, <2>1 DEF Length
<1> DEFINE I == 0..(w * h - 1)
           last == CHOOSE i \in I : Index(x, y, w, i) = n /\ \A j \in (i + 1)..(w * h - 1) : Index(x, y, w, j) # n
<1>5. Patched(v, x, y, w, h, data)[n] = IF \E i \in I : Index(x, y, w, i) = n THEN data[last] ELSE v[n]
  BY <1>4 DEF Patched
<1>6. ASSUME NEW i \in I, Index(x, y, w, i) = n
      PROVE  a \in x..(x + w - 1) /\ b \in y..(y + h - 1) /\ i = (b - y) * w + (a - x)
  <2>1. /\ i % w \in 0..(w - 1) /\ i \div w \in 0..(h - 1) /\ i = (i \div w) * w + (i % w)
        /\ x + (i % w) \in 0..(W - 1) /\ y + (i \div w) \in 0..(H - 1)
        /\ n = (y + (i \div w)) * W + (x + (i % w))
    <3>1. PlaceOK(x, y, w, h, i) BY IndexIs
    <3> QED BY <1>1, <1>6, <3>1 DEF PlaceOK
  <2>2. PICK c \in 0..(w - 1), d \in 0..(h - 1) : c = i % w /\ d = i \div w BY <2>1
  <2>3. b * W + a = (y + d) * W + (x + c) /\ x + c \in 0..(W - 1) /\ y + d \in Nat /\ b \in Nat /\ a \in 0..(W - 1)
    <3>1. b * W + a = (y + d) * W + (x + c) BY <1>3, <2>1, <2>2
    <3>2. x + c \in 0..(W - 1) /\ y + d \in Nat BY <1>2, <2>1, <2>2
    <3>3. b \in Nat /\ a \in 0..(W - 1) BY <1>1
    <3> QED BY <3>1, <3>2, <3>3
  <2>4. a = x + c /\ b = y + d
    <3>1. PICK e \in 0..(W - 1), f \in Nat : e = x + c /\ f = y + d BY <2>3
    <3>2. b * W + a = f * W + e BY <2>3, <3>1
    <3>3. a \in 0..(W - 1) /\ b \in Nat /\ W \in Nat /\ e \in 0..(W - 1) /\ f \in Nat BY <2>3
    <3>4. a = e /\ b = f BY ONLY <3>2, <3>3, PlaceIsUnique
    <3> QED BY <3>1, <3>4
  <2>5. c = a - x /\ d = b - y BY <1>2, <2>4
  <2> QED BY <1>2, <2>1, <2>2, <2>4, <2>5
<1>7. ASSUME a \in x..(x + w - 1), b \in y..(y + h - 1)
      PROVE  (b - y) * w + (a - x) \in I /\ Index(x, y, w, (b - y) * w + (a - x)) = n
  <2>1. PICK c \in 0..(w - 1), d \in 0..(h - 1) : c = a - x /\ d = b - y BY <1>2, <1>7
  <2>2. d * w + c \in I /\ (d * w + c) % w = c /\ (d * w + c) \div w = d BY <1>2, PixelOf
  <2>3. Index(x, y, w, d * w + c) = (y + d) * W + (x + c)
    <3>1. PICK i \in I : i = d * w + c /\ i % w = c /\ i \div w = d BY <2>2
    <3>2. PlaceOK(x, y, w, h, i) BY IndexIs
    <3> QED BY <1>1, <3>1, <3>2 DEF PlaceOK
  <2>4. y + d = b /\ x + c = a BY <1>2, <2>1
  <2> QED BY <1>3, <2>1, <2>2, <2>3, <2>4
<1>8. CASE a \in x..(x + w - 1) /\ b \in y..(y + h - 1)
  <2>1. PICK k \in I : k = (b - y) * w + (a - x) /\ Index(x, y, w, k) = n BY <1>7, <1>8
  <2>2. \A i \in I : Index(x, y, w, i) = n => i = k BY <1>6, <2>1
  <2>3. \A j \in (k + 1)..(w * h - 1) : j \in I /\ j # k BY <1>2, <2>1
  <2>4. \A j \in (k + 1)..(w * h - 1) : Index(x, y, w, j) # n BY <2>2, <2>3
  <2>5. last = k
    <3>1. \E i \in I : Index(x, y, w, i) = n /\ \A j \in (i + 1)..(w * h - 1) : Index(x, y, w, j) # n BY <2>1, <2>4
    <3>2. last \in I /\ Index(x, y, w, last) = n BY <3>1
    <3> QED BY <2>2, <3>2
  <2> HIDE DEF last, I
  <2> QED BY <1>1, <1>3, <1>4, <1>5, <1>8, <2>1, <2>5 DEF PatchOK
<1>9. CASE ~(a \in x..(x + w - 1) /\ b \in y..(y + h - 1))
  <2>1. ~\E i \in I : Index(x, y, w, i) = n BY <1>6, <1>9
  <2> HIDE DEF last, I
  <2> QED BY <1>1, <1>3, <1>4, <1>5, <1>9, <2>1 DEF PatchOK
<1> QED BY <1>8, <1>9
-----------------------------------------------------------------------------
\* No framebuffer is as wide or as high as the largest word.
Narrower == \A s \in FbSizes : s.w < WordMax /\ s.h < WordMax

CellsOK == \A a \in 0..(size.w - 1), b \in 0..(size.h - 1) : rgba[b * size.w + a] = picture[<<a, b>>]

\* The vector has the length of the framebuffer, and its cells are the picture's.
FbInv == size \in FbSizes /\ DOMAIN rgba = 0..(Length - 1) /\ CellsOK /\ ~panicked

LEMMA FbBounds == WordMax \in Nat /\ \A s \in FbSizes : s.w \in Nat \ {0} /\ s.h \in Nat \ {0}
BY FramebufferAssumption

\* A cell of the picture after a patch whose data are numbered from 0, or a copy.
LEMMA PatchKeeps ==
  ASSUME FbInv, NEW x, NEW y, NEW w, NEW h, Rect(x, y, w, h), NEW data, size' = size, panicked' = panicked,
         rgba' = Patched(rgba, x, y, w, h, data),
         \A a \in 0..(size.w - 1), b \in 0..(size.h - 1) :
           picture'[<<a, b>>] = IF a \in x..(x + w - 1) /\ b \in y..(y + h - 1) THEN data[(b - y) * w + (a - x)] ELSE picture[<<a, b>>]
  PROVE  FbInv'
<1>1. SizeOK BY FbBounds DEF FbInv, SizeOK
<1>2. DOMAIN rgba' = 0..(Length - 1) /\ Length' = Length BY DEF FbInv, Patched, Length
<1>3. ASSUME NEW a \in 0..(size.w - 1), NEW b \in 0..(size.h - 1) PROVE rgba'[b * size.w + a] = picture'[<<a, b>>]
  <2>1. IF a \in x..(x + w - 1) /\ b \in y..(y + h - 1)
        THEN rgba'[b * size.w + a] = data[(b - y) * w + (a - x)] ELSE rgba'[b * size.w + a] = rgba[b * size.w + a]
    <3>1. DOMAIN rgba = 0..(Length - 1) BY DEF FbInv
    <3>2. PatchOK(rgba, x, y, w, h, data, a, b) BY <1>1, <3>1, PatchedIs
    <3> QED BY <3>2 DEF PatchOK
  <2>2. rgba[b * size.w + a] = picture[<<a, b>>] BY DEF FbInv, CellsOK
  <2>3. picture'[<<a, b>>] = IF a \in x..(x + w - 1) /\ b \in y..(y + h - 1) THEN data[(b - y) * w + (a - x)] ELSE picture[<<a, b>>] OBVIOUS
  <2> QED BY <2>1, <2>2, <2>3
<1> QED BY <1>2, <1>3 DEF FbInv, CellsOK

LEMMA PatchRgbaRectKeeps ==
  ASSUME Narrower, FbInv, NEW x \in Words, NEW y \in Words, NEW w \in Words, NEW h \in Words, NEW p \in FbPixels, NEW q \in FbPixels,
         PatchRgbaRect(x, y, w, h, p, q)
  PROVE  FbInv'
<1>1. SizeOK /\ size.w < WordMax /\ size.h < WordMax BY FbBounds DEF FbInv, SizeOK, Narrower
<1>2. Inside(x, y, w, h) BY DEF PatchRgbaRect
<1>3. Rect(x, y, w, h) /\ Fits(x, y, w, h) BY <1>1, <1>2, FbBounds, CheckIsExact
<1>4. PICK data : /\ rgba' = Patched(rgba, x, y, w, h, data) /\ size' = size /\ panicked' = panicked
                  /\ picture' = [c \in Places |-> IF c[1] \in x..(x + w - 1) /\ c[2] \in y..(y + h - 1)
                                                  THEN data[(c[2] - y) * w + (c[1] - x)] ELSE picture[c]]
  BY <1>3 DEF PatchRgbaRect, Painted
<1>5. \A a \in 0..(size.w - 1), b \in 0..(size.h - 1) :
        picture'[<<a, b>>] = IF a \in x..(x + w - 1) /\ b \in y..(y + h - 1) THEN data[(b - y) * w + (a - x)] ELSE picture[<<a, b>>]
  BY <1>4 DEF Places
<1> QED BY <1>3, <1>4, <1>5, PatchKeeps

LEMMA CopyRectKeeps ==
  ASSUME Narrower, FbInv, NEW sx \in Words, NEW sy \in Words, NEW x \in Words, NEW y \in Words, NEW w \in Words, NEW h \in Words,
         CopyRect(sx, sy, x, y, w, h)
  PROVE  FbInv'
<1>1. SizeOK /\ size.w < WordMax /\ size.h < WordMax BY FbBounds DEF FbInv, SizeOK, Narrower
<1>2. Inside(sx, sy, w, h) /\ Inside(x, y, w, h) BY DEF CopyRect
<1>3. Rect(x, y, w, h) /\ Fits(x, y, w, h) /\ Rect(sx, sy, w, h) /\ Fits(sx, sy, w, h) BY <1>1, <1>2, FbBounds, CheckIsExact
<1>4. PICK data : data = [i \in 0..(w * h - 1) |-> rgba[Index(sx, sy, w, i)]] OBVIOUS
<1>5. /\ rgba' = Patched(rgba, x, y, w, h, data) /\ size' = size /\ panicked' = panicked
      /\ picture' = [c \in Places |-> IF c[1] \in x..(x + w - 1) /\ c[2] \in y..(y + h - 1)
                                      THEN Meant(sx + (c[1] - x), sy + (c[2] - y)) ELSE picture[c]]
  BY <1>3, <1>4 DEF CopyRect, Copied, Painted
<1>6. x \in Nat /\ y \in Nat /\ w \in Nat /\ h \in Nat /\ sx \in Nat /\ sy \in Nat BY <1>3 DEF Rect
<1>7. ASSUME NEW a \in 0..(size.w - 1), NEW b \in 0..(size.h - 1), a \in x..(x + w - 1), b \in y..(y + h - 1)
      PROVE  Meant(sx + (a - x), sy + (b - y)) = data[(b - y) * w + (a - x)]
  <2>1. PICK c \in 0..(w - 1), d \in 0..(h - 1) : c = a - x /\ d = b - y BY <1>6, <1>7
  <2>2. d * w + c \in 0..(w * h - 1) /\ (d * w + c) % w = c /\ (d * w + c) \div w = d BY <1>6, PixelOf
  <2>3. /\ Index(sx, sy, w, d * w + c) = (sy + d) * size.w + (sx + c)
        /\ sx + c \in 0..(size.w - 1) /\ sy + d \in 0..(size.h - 1)
    <3>1. PICK i \in 0..(w * h - 1) : i = d * w + c /\ i % w = c /\ i \div w = d BY <2>2
    <3>2. PlaceOK(sx, sy, w, h, i) BY <1>1, <1>3, IndexIs
    <3> QED BY <3>1, <3>2 DEF PlaceOK
  <2>4. data[d * w + c] = rgba[(sy + d) * size.w + (sx + c)] BY <1>4, <2>2, <2>3
  <2>5. rgba[(sy + d) * size.w + (sx + c)] = picture[<<sx + c, sy + d>>] BY <2>3 DEF FbInv, CellsOK
  <2>6. Meant(sx + c, sy + d) = picture[<<sx + c, sy + d>>] BY <2>3 DEF Meant, Places
  <2> QED BY <2>1, <2>4, <2>5, <2>6
<1>8. \A a \in 0..(size.w - 1), b \in 0..(size.h - 1) :
        picture'[<<a, b>>] = IF a \in x..(x + w - 1) /\ b \in y..(y + h - 1) THEN data[(b - y) * w + (a - x)] ELSE picture[<<a, b>>]
  <2>1. \A a \in 0..(size.w - 1), b \in 0..(size.h - 1) :
          picture'[<<a, b>>] = IF a \in x..(x + w - 1) /\ b \in y..(y + h - 1) THEN Meant(sx + (a - x), sy + (b - y)) ELSE picture[<<a, b>>]
    BY <1>5 DEF Places
  <2> QED BY <1>7, <2>1
<1> QED BY <1>3, <1>5, <1>8, PatchKeeps

\* A rectangle that is cloned is that part of the picture.
LEMMA InvIsSound == ASSUME FbInv PROVE FramebufferIsSound
<1>1. SizeOK BY FbBounds DEF FbInv, SizeOK
<1>2. \A c \in Places : rgba[c[2] * size.w + c[1]] = picture[c] BY DEF FbInv, CellsOK, Places
<1>3. ASSUME NEW x \in 0..(size.w - 1), NEW y \in 0..(size.h - 1), NEW w \in 1..(size.w - x), NEW h \in 1..(size.h - y),
             NEW a \in 0..(w - 1), NEW b \in 0..(h - 1)
      PROVE  CloneBgraRect(x, y, w, h)[b * w + a] = picture[<<x + a, y + b>>]
  <2>1. Rect(x, y, w, h) BY <1>1 DEF SizeOK, Rect
  <2>2. w \in Nat /\ h \in Nat BY <2>1 DEF Rect
  <2>3. b * w + a \in 0..(w * h - 1) /\ (b * w + a) % w = a /\ (b * w + a) \div w = b BY <2>2, PixelOf
  <2>4. /\ Index(x, y, w, b * w + a) = (y + b) * size.w + (x + a)
        /\ x + a \in 0..(size.w - 1) /\ y + b \in 0..(size.h - 1)
    <3>1. PICK i \in 0..(w * h - 1) : i = b * w + a BY <2>3
    <3>2. i % w = a /\ i \div w = b BY <2>3, <3>1
    <3>3. PlaceOK(x, y, w, h, i) BY <1>1, <2>1, IndexIs
    <3> QED BY <3>1, <3>2, <3>3 DEF PlaceOK
  <2>5. CloneBgraRect(x, y, w, h)[b * w + a] = rgba[(y + b) * size.w + (x + a)] BY <2>3, <2>4 DEF CloneBgraRect
  <2> QED BY <2>4, <2>5 DEF FbInv, CellsOK
<1> QED BY <1>2, <1>3 DEF FramebufferIsSound, VectorIsPicture, AcceptedFits, FbInv

\* On every framebuffer that is narrower and lower than the largest word, whatever the
\* rectangles and copies: one that passes the bounds check (patch_rgba_rect, copy_rect)
\* has all its rows inside the vector, and the vector is the picture the server means.
THEOREM FramebufferSound == Narrower => (FbSpec => []FramebufferIsSound)
<1> SUFFICES ASSUME Narrower PROVE FbSpec => []FramebufferIsSound OBVIOUS
<1>1. FbInit => FbInv
  <2> SUFFICES ASSUME FbInit PROVE FbInv OBVIOUS
  <2>1. rgba = [n \in 0..(size.w * size.h - 1) |-> 0] /\ picture = [c \in Places |-> 0] BY DEF FbInit, Length
  <2>2. size \in FbSizes /\ panicked = FALSE BY DEF FbInit
  <2>3. PICK W \in Nat, H \in Nat : W = size.w /\ H = size.h BY <2>2, FbBounds
  <2>4. ASSUME NEW a \in 0..(size.w - 1), NEW b \in 0..(size.h - 1) PROVE rgba[b * size.w + a] = picture[<<a, b>>]
    <3>1. b * W + a \in 0..(W * H - 1) BY <2>3, PixelOf
    <3> QED BY <2>1, <2>3, <3>1 DEF Places
  <2> QED BY <2>1, <2>2, <2>4 DEF FbInv, CellsOK, Length
<1>2. FbInv /\ [FbNext]_fbVars => FbInv'
  <2> SUFFICES ASSUME FbInv, [FbNext]_fbVars PROVE FbInv' OBVIOUS
  <2>1. CASE FbNext BY <2>1, PatchRgbaRectKeeps, CopyRectKeeps DEF FbNext
  <2>2. CASE UNCHANGED fbVars BY <2>2 DEF fbVars, FbInv, CellsOK, Length
  <2> QED BY <2>1, <2>2
<1>3. FbInv => FramebufferIsSound BY InvIsSound
<1> QED BY <1>1, <1>2, <1>3, PTL DEF FbSpec
=============================================================================
