------------------------------ MODULE VncRefresh ------------------------------
(***************************************************************************)
(* The timers of a VNC session: when it asks for an update, when it probes *)
(* a silent server and when it gives the server up.  VncHelper takes their *)
(* outcome as a choice; here there is a clock.  A moment the session has   *)
(* noted is its age in ticks, an Option is a set of at most one age, and   *)
(* ages stop growing at Cap, past which no timer tells them apart.         *)
(* External: the server, and how long a turn of the loop takes.            *)
(***************************************************************************)
EXTENDS Naturals, FiniteSets

CONSTANTS Interval,         \* VNC_REFRESH_INTERVAL
          ResponseTimeout,  \* VNC_REFRESH_RESPONSE_TIMEOUT
          LivenessTimeout,  \* VNC_LIVENESS_TIMEOUT
          ProbeTimeout,     \* VNC_LIVENESS_PROBE_TIMEOUT
          MaxLag            \* ticks between two calls of refresh_if_needed

ASSUME RefreshAssumption ==
  /\ {Interval, ResponseTimeout, LivenessTimeout, ProbeTimeout, MaxLag} \subseteq Nat \ {0}
  /\ Interval <= ResponseTimeout /\ ResponseTimeout <= LivenessTimeout

VARIABLES pc,                       \* "poll", "refresh" or "ended"
          last_refresh, last_server_activity,
          refresh_in_flight_since, liveness_probe_since,
          arrived,                  \* an event waits in the client (external)
          alive,                    \* the server will send again (external)
          lag,                      \* ticks since the last refresh_if_needed
          request                   \* what the last turn sent (history)

timers == <<last_refresh, last_server_activity, refresh_in_flight_since, liveness_probe_since>>
vars == <<pc, timers, arrived, alive, lag, request>>

Cap == LivenessTimeout + ResponseTimeout + ProbeTimeout + 2 * MaxLag
Older(age) == IF age < Cap THEN age + 1 ELSE age
-----------------------------------------------------------------------------
\* Mutant: a refresh in flight is not waited for.
RefreshActionEager ==
  IF liveness_probe_since # {}
  THEN IF \E age \in liveness_probe_since : age >= ProbeTimeout THEN "reconnect" ELSE "wait"
  ELSE IF last_server_activity >= LivenessTimeout THEN "probe"
  ELSE IF last_refresh < Interval THEN "wait" ELSE "incremental"

\* Mutant: silence is looked at before the probe that is under way.
RefreshActionReprobes ==
  IF \E age \in refresh_in_flight_since : age < ResponseTimeout THEN "wait"
  ELSE IF last_server_activity >= LivenessTimeout THEN "probe"
  ELSE IF \E age \in liveness_probe_since : age >= ProbeTimeout THEN "reconnect"
  ELSE IF last_refresh < Interval THEN "wait" ELSE "incremental"

\* Mutant: a refresh is sent again before silence is looked at.
RefreshActionKeepsAsking ==
  IF liveness_probe_since # {}
  THEN IF \E age \in liveness_probe_since : age >= ProbeTimeout THEN "reconnect" ELSE "wait"
  ELSE IF \E age \in refresh_in_flight_since : age < ResponseTimeout THEN "wait"
  ELSE IF last_refresh >= Interval /\ last_server_activity < LivenessTimeout + ResponseTimeout THEN "incremental"
  ELSE IF last_server_activity >= LivenessTimeout THEN "probe" ELSE "wait"

\* refresh_action
RefreshAction ==
  IF liveness_probe_since # {}
  THEN IF \E age \in liveness_probe_since : age >= ProbeTimeout THEN "reconnect" ELSE "wait"
  ELSE IF \E age \in refresh_in_flight_since : age < ResponseTimeout THEN "wait"
  ELSE IF last_server_activity >= LivenessTimeout THEN "probe"
  ELSE IF last_refresh < Interval THEN "wait" ELSE "incremental"
-----------------------------------------------------------------------------
Init == /\ pc = "poll" /\ last_refresh = 0 /\ last_server_activity = 0
        /\ refresh_in_flight_since = {} /\ liveness_probe_since = {}
        /\ arrived = FALSE /\ alive = TRUE /\ lag = 0 /\ request = "none"

\* Mutant: an event leaves the probe as it is.
PollEventsKeepingProbe ==
  /\ pc = "poll" /\ pc' = "refresh" /\ arrived' = FALSE
  /\ IF arrived
     THEN last_server_activity' = 0 /\ refresh_in_flight_since' = {} /\ UNCHANGED <<last_refresh, liveness_probe_since>>
     ELSE UNCHANGED timers
  /\ UNCHANGED <<alive, lag, request>>

\* poll_events: any event, whatever it is about, is a sign of life.
PollEvents ==
  /\ pc = "poll" /\ pc' = "refresh" /\ arrived' = FALSE
  /\ IF arrived
     THEN last_server_activity' = 0 /\ refresh_in_flight_since' = {} /\ liveness_probe_since' = {}
          /\ UNCHANGED last_refresh
     ELSE UNCHANGED timers
  /\ UNCHANGED <<alive, lag, request>>

\* refresh_if_needed, and the sleep before the next turn.
RefreshIfNeeded ==
  /\ pc = "refresh" /\ lag' = 0
  /\ request' = RefreshAction
  /\ pc' = IF RefreshAction = "reconnect" THEN "ended" ELSE "poll"
  /\ IF RefreshAction \in {"incremental", "probe"}
     THEN /\ last_refresh' = 0 /\ refresh_in_flight_since' = {0}
          /\ liveness_probe_since' = IF RefreshAction = "probe" THEN {0} ELSE liveness_probe_since
     ELSE UNCHANGED <<last_refresh, refresh_in_flight_since, liveness_probe_since>>
  /\ UNCHANGED <<last_server_activity, arrived, alive>>

\* Time passes, in the sleep or anywhere else in the turn.
Tick ==
  /\ pc # "ended" /\ lag < MaxLag /\ lag' = lag + 1
  /\ last_refresh' = Older(last_refresh) /\ last_server_activity' = Older(last_server_activity)
  /\ refresh_in_flight_since' = {Older(age) : age \in refresh_in_flight_since}
  /\ liveness_probe_since' = {Older(age) : age \in liveness_probe_since}
  /\ UNCHANGED <<pc, arrived, alive, request>>

\* External: the server sends something, or falls silent for good.
ServerSends == pc # "ended" /\ alive /\ arrived' = TRUE /\ UNCHANGED <<pc, timers, alive, lag, request>>
ServerDies == alive /\ alive' = FALSE /\ UNCHANGED <<pc, timers, arrived, lag, request>>

Next == PollEvents \/ RefreshIfNeeded \/ Tick \/ ServerSends \/ ServerDies

\* The loop runs and time goes on; the server owes nothing.
Spec == Init /\ [][Next]_vars /\ WF_vars(PollEvents) /\ WF_vars(RefreshIfNeeded) /\ WF_vars(Tick)
-----------------------------------------------------------------------------
\* A server is given up only after a silence, as the session has seen it, of the
\* liveness timeout and the probe's on top: an answer to the probe that was
\* polled in time, however late, saves the session.
GivenUpWasSilent == pc = "ended" => last_server_activity >= LivenessTimeout + ProbeTimeout

\* A session that goes on has not been silent for longer than the timeouts, one
\* refresh that was still being waited for, and two turns of the loop.
SilenceIsBounded ==
  pc # "ended" => last_server_activity <= LivenessTimeout - 1 + ResponseTimeout + ProbeTimeout + 2 * MaxLag

\* A server that is slow is not flooded: no request follows another one within
\* the interval, nor within the time an answer may take unless something was
\* heard in between.
NoFlood ==
  [][pc = "refresh" /\ request' \in {"incremental", "probe"} /\ pc' = "poll" =>
       /\ last_refresh >= Interval
       /\ last_server_activity <= last_refresh \/ last_refresh >= ResponseTimeout]_vars

\* A server that is silent for good is given up.
DeadIsNoticed == ~alive ~> pc = "ended"
=============================================================================
