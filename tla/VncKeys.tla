------------------------------- MODULE VncKeys -------------------------------
(***************************************************************************)
(* Keys and pointer of the VNC helper: what the host's requests leave held *)
(* at the server, through batches, failures and reconnections.  A session  *)
(* begins with an empty keyboard and a pointer at the origin, and releases *)
(* what it holds when it ends, for whatever reason.  The client only       *)
(* queues an event for its net loop, which writes the events in order and  *)
(* leaves the rest when it is told to stop or its connection is gone; the  *)
(* net loop of an ended session may write beside the next session.  The    *)
(* wait for room in the queue of CHANNEL_SIZE events is left out: it       *)
(* changes neither their order nor what becomes of them.                   *)
(* External: the server, whose keys and buttons stay as the last event     *)
(* left them.                                                              *)
(***************************************************************************)
EXTENDS Naturals, FiniteSets, Sequences, SequencesExt

CONSTANTS Keys,          \* of the host's keyboard: names of scancodes
          Buttons,       \* of the host's mouse
          Positions,     \* numbers from 1; 0 is the origin
          MaxInputs,     \* MAX_INPUTS_PER_POLL
          MaxRequests, MaxSessions

\* What the constants are.
KeysAssumption == MaxInputs \in Nat \ {0} /\ Positions \subseteq Nat \ {0}

VARIABLES user,      \* the host: keys and buttons held, its pointer, requests so far
          inputs,    \* input_rx
          hostGone,  \* the sender of input_rx is dropped
          phase,     \* "live", "waiting" for a reconnection, "ended"
          sessions,  \* sessions so far
          keyboard,  \* VncKeyboardState: keysyms
          pointer,   \* VncPointerState
          clients,   \* of each session: input_ch, and the net loop: up, told to stop, down
          server,    \* held keysyms and buttons, the pointer, a click missed (external)
          lost,      \* held, and its release was dropped with its connection (ghost)
          undone     \* a close did not end the helper (ghost)

vars == <<user, inputs, hostGone, phase, sessions, keyboard, pointer, clients, server, lost, undone>>

\* The keys of the table a model needs: two that are one keysym, one of its own.
ScancodeToKeysym == [Return |-> "Return", KpEnter |-> "Return", A |-> "a"]

\* remote_key_to_keysym: Nothing of a key that is not in the table.
Keysyms(k) == IF k \in DOMAIN ScancodeToKeysym THEN {ScancodeToKeysym[k]} ELSE {}

\* vnc_button_bit: the second side button has none.
ButtonBits(b) == {b} \ {"X2"}

Origin == [at |-> 0, buttons |-> {}]
Fresh == [keyboard |-> {}, pointer |-> Origin]
-----------------------------------------------------------------------------
(* The events of an input, and the session's state once they are sent *)

KeyEvent(sym, pressed) == [op |-> "key", sym |-> sym, pressed |-> pressed]
PointerEvent(at, mask, click) == [op |-> "pointer", at |-> at, mask |-> mask, click |-> click]

\* The end of VncKeyboardState::send.
KeyboardSent(held, sym, pressed) == IF pressed THEN held \cup {sym} ELSE held \ {sym}

\* wheel_masks: the wheel is a button pressed and released.
WheelMasks(p) == <<p.buttons \cup {"wheel"}, p.buttons>>

\* set_button
SetButton(p, b, pressed) ==
  [p EXCEPT !.buttons = IF pressed THEN @ \cup ButtonBits(b) ELSE @ \ ButtonBits(b)]

\* send_vnc_input: the events, and the state if all of them are sent.
Sends(s, input) ==
  CASE input.op = "key" ->
         [out |-> SetToSeq({KeyEvent(sym, input.pressed) : sym \in Keysyms(input.key)}),
          s |-> [s EXCEPT !.keyboard =
                   FoldSet(LAMBDA sym, held : KeyboardSent(held, sym, input.pressed), @, Keysyms(input.key))]]
    [] input.op = "move" ->
         LET p == [s.pointer EXCEPT !.at = input.at] IN
         [out |-> <<PointerEvent(p.at, p.buttons, 0)>>, s |-> [s EXCEPT !.pointer = p]]
    [] input.op = "button" ->
         LET p == SetButton(s.pointer, input.button, input.pressed) IN
         [out |-> <<PointerEvent(p.at, p.buttons, input.at)>>, s |-> [s EXCEPT !.pointer = p]]
    [] input.op = "wheel" ->
         [out |-> [i \in DOMAIN WheelMasks(s.pointer) |->
                     PointerEvent(s.pointer.at, WheelMasks(s.pointer)[i], input.at)], s |-> s]
    [] OTHER -> [out |-> <<>>, s |-> s]

\* Mutant: the buttons stay down.
ShutdownInputsKeysOnly(s) == SetToSeq({KeyEvent(sym, FALSE) : sym \in s.keyboard})

\* shutdown_inputs: release_all, then release_buttons unless there are none.
\* An event that fails does not keep the next from being tried.
ShutdownInputs(s) ==
  SetToSeq({KeyEvent(sym, FALSE) : sym \in s.keyboard})
    \o (IF s.pointer.buttons = {} THEN <<>> ELSE <<PointerEvent(s.pointer.at, {}, 0)>>)

\* External: what an event does at the server; a click is missed when the host
\* had its pointer elsewhere and this session has been told of it.
Arrives(w, e) ==
  IF e.op = "key"
  THEN [w EXCEPT !.keys = IF e.pressed THEN @ \cup {e.sym} ELSE @ \ {e.sym}]
  ELSE [w EXCEPT !.buttons = e.mask, !.at = e.at,
                 !.missed = @ \/ (e.click # 0 /\ e.at # 0 /\ e.at # e.click)]
-----------------------------------------------------------------------------
\* coalesce_remote_inputs: of moves in a row the last one stays.
Coalesce(batch) ==
  LET Stays(i) == batch[i].op # "move" \/ i = Len(batch) \/ batch[i + 1].op # "move"
  IN [j \in 1..Cardinality({i \in DOMAIN batch : Stays(i)}) |->
        batch[SetToSortSeq({i \in DOMAIN batch : Stays(i)}, <)[j]]]

Taken == IF Len(inputs) < MaxInputs THEN Len(inputs) ELSE MaxInputs

\* drain_remote_inputs finds the sender gone before its batch is full: what it
\* had taken is dropped.
Disconnected == hostGone /\ Len(inputs) < MaxInputs

\* handle_pending_inputs: the inputs up to the one that ends the session.
Handled(batch) ==
  LET ends == {i \in DOMAIN batch : batch[i].op = "close"}
      stop == IF ends = {} THEN Len(batch) + 1 ELSE CHOOSE i \in ends : \A j \in ends : i <= j
  IN [run |-> SubSeq(batch, 1, stop - 1),
      action |-> IF ends = {} THEN "continue" ELSE "close"]

RunInputs(s, run) ==
  FoldLeft(LAMBDA acc, i : LET r == Sends(acc.s, i) IN [s |-> r.s, out |-> acc.out \o r.out],
           [s |-> s, out |-> <<>>], run)

\* merge_cleanup_error: a failing cleanup is told, and changes no result.
MergeCleanupError(action, failed) == action

\* session_result_from_action, then what run_vnc_rfb makes of the result.
PhaseAfter(action) ==
  CASE action = "continue" -> "live"
    [] action \in {"close", "input closed"} -> "ended"
    [] action = "failed" -> "waiting"

Held(w) == w.keys \cup w.buttons
After(w, events) == FoldLeft(Arrives, w, events)

Client == clients[sessions]
Down == [queue |-> <<>>, net |-> "down"]

\* What the end of a turn makes of the session.
Becomes(s, action, cleanupFailed) ==
  /\ phase' = PhaseAfter(MergeCleanupError(action, cleanupFailed))
  /\ undone' = (undone \/ (action = "close" /\ phase' # "ended"))
  /\ LET after == IF action = "continue" THEN s ELSE Fresh
     IN keyboard' = after.keyboard /\ pointer' = after.pointer

\* VncClient::input for each event and, when the session ends, shutdown_session:
\* the releases are queued and close() follows at once.
Queued(s, events, action) ==
  LET all == events \o (IF action = "continue" THEN <<>> ELSE ShutdownInputs(s))
  IN /\ Client.net = "up" \/ all = <<>>
     /\ clients' = IF Client.net = "down" THEN clients
                   ELSE [clients EXCEPT ![sessions] =
                           [queue |-> @.queue \o all, net |-> IF action = "continue" THEN "up" ELSE "told"]]
     /\ Becomes(s, action, FALSE) /\ UNCHANGED <<server, lost>>

\* The net loop is or goes down while they are queued: n are taken, of which it
\* has written the first m.  An input that is refused fails the session, a
\* release that is refused fails the cleanup only.
Refused(s, events, action) ==
  LET all == events \o (IF action = "continue" THEN <<>> ELSE ShutdownInputs(s))
  IN \E n \in 0..(Len(all) - 1) : \E m \in 0..(Len(Client.queue) + n) :
       /\ Client.net = "down" => n = 0
       /\ server' = After(server, SubSeq(Client.queue \o all, 1, m))
       /\ lost' = IF Client.net = "down" THEN lost ELSE Held(server')
       /\ clients' = [clients EXCEPT ![sessions] = Down]
       /\ Becomes(s, IF n < Len(events) THEN "failed" ELSE action, TRUE)

Sending(s, events, action) == Queued(s, events, action) \/ Refused(s, events, action)

Session == [keyboard |-> keyboard, pointer |-> pointer]

Init == /\ user = [keys |-> {}, buttons |-> {}, at |-> 0, requests |-> 0] /\ inputs = <<>> /\ hostGone = FALSE
        /\ phase = "live" /\ sessions = 1 /\ keyboard = {} /\ pointer = Origin /\ clients = <<[queue |-> <<>>, net |-> "up"]>>
        /\ server = [keys |-> {}, buttons |-> {}, at |-> 0, missed |-> FALSE] /\ lost = {} /\ undone = FALSE

\* The host asks for something (request_to_input).
Request(input, after) ==
  /\ ~hostGone /\ user.requests < MaxRequests
  /\ inputs' = Append(inputs, input)
  /\ user' = [after EXCEPT !.requests = @ + 1]
  /\ UNCHANGED <<hostGone, phase, sessions, keyboard, pointer, clients, server, lost, undone>>

\* The host's user presses what is up and releases what is down.
Key(k) == LET pressed == k \notin user.keys IN
  Request([op |-> "key", key |-> k, pressed |-> pressed],
          [user EXCEPT !.keys = IF pressed THEN @ \cup {k} ELSE @ \ {k}])

MouseButton(b) == LET pressed == b \notin user.buttons IN
  Request([op |-> "button", button |-> b, pressed |-> pressed, at |-> user.at],
          [user EXCEPT !.buttons = IF pressed THEN @ \cup {b} ELSE @ \ {b}])

MouseMove(p) == Request([op |-> "move", at |-> p], [user EXCEPT !.at = p])
Wheel == Request([op |-> "wheel", at |-> user.at], user)
Close == Request([op |-> "close"], user)

HostGoes ==
  /\ ~hostGone /\ hostGone' = TRUE
  /\ UNCHANGED <<user, inputs, phase, sessions, keyboard, pointer, clients, server, lost, undone>>

\* One turn of the loop's handle_pending_inputs.
HandlePendingInputs ==
  /\ phase = "live" /\ (inputs # <<>> \/ Disconnected)
  /\ LET handled == Handled(Coalesce(SubSeq(inputs, 1, Taken)))
         done == RunInputs(Session, handled.run)
     IN /\ inputs' = SubSeq(inputs, Taken + 1, Len(inputs))
        /\ IF Disconnected
           THEN Sending(Session, <<>>, "input closed")
           ELSE Sending(done.s, done.out, handled.action)
  /\ UNCHANGED <<user, hostGone, sessions>>

\* poll_events or refresh_if_needed fails: a dead connection, or a server
\* that was silent for too long.
PollFails ==
  /\ phase = "live" /\ Sending(Session, <<>>, "failed")
  /\ UNCHANGED <<user, inputs, hostGone, sessions>>

\* async_connection_process_loop takes an input and writes it.  After the end of
\* run_vnc_rfb this stands for what it wrote while the cleanup waited.
NetWrites(i) ==
  /\ clients[i].queue # <<>>
  /\ server' = Arrives(server, Head(clients[i].queue))
  /\ clients' = [clients EXCEPT ![i].queue = Tail(@)]
  /\ lost' = lost \cap Held(server')
  /\ UNCHANGED <<user, inputs, hostGone, phase, sessions, keyboard, pointer, undone>>

\* It finds the stop first, or ends with its runtime: what is in the queue is
\* dropped, the releases that close() followed among it.
NetStops(i) ==
  /\ clients[i].net = "told"
  /\ clients' = [clients EXCEPT ![i] = Down]
  /\ lost' = lost \cup (Held(server) \ Held(After(server, clients[i].queue)))
  /\ UNCHANGED <<user, inputs, hostGone, phase, sessions, keyboard, pointer, server, undone>>

\* It reads the end of the stream or an error, or cannot write.
Breaks ==
  /\ phase = "live" /\ Client.net = "up"
  /\ clients' = [clients EXCEPT ![sessions] = Down]
  /\ lost' = Held(server)
  /\ UNCHANGED <<user, inputs, hostGone, phase, sessions, keyboard, pointer, server, undone>>

\* wait_before_reconnect: inputs are taken, and only a close is heeded.
WaitTakesInputs ==
  /\ phase = "waiting" /\ (inputs # <<>> \/ Disconnected)
  /\ LET closes == Disconnected \/ \E i \in 1..Taken : inputs[i].op = "close" IN
     phase' = IF closes THEN "ended" ELSE "waiting"
  /\ inputs' = SubSeq(inputs, Taken + 1, Len(inputs))
  /\ UNCHANGED <<user, hostGone, sessions, keyboard, pointer, clients, server, lost, undone>>

\* A new session, with a keyboard and a pointer of its own.
Reconnected ==
  /\ phase = "waiting" /\ sessions < MaxSessions
  /\ phase' = "live" /\ sessions' = sessions + 1
  /\ clients' = Append(clients, [queue |-> <<>>, net |-> "up"])
  /\ keyboard' = {} /\ pointer' = Origin
  /\ UNCHANGED <<user, inputs, hostGone, server, lost, undone>>

Next == \/ \E k \in Keys : Key(k)
        \/ \E b \in Buttons : MouseButton(b)
        \/ \E p \in Positions : MouseMove(p)
        \/ Wheel \/ Close
        \/ HostGoes \/ HandlePendingInputs \/ PollFails
        \/ (\E i \in DOMAIN clients : NetWrites(i) \/ NetStops(i))
        \/ Breaks \/ WaitTakesInputs \/ Reconnected

Spec == Init /\ [][Next]_vars
-----------------------------------------------------------------------------
Written == \A i \in DOMAIN clients : clients[i].queue = <<>>

\* Once every input is taken and written, the server holds no key that the
\* host's user does not hold, unless its release was dropped with a connection: a
\* release that fell into a reconnection, a closed batch or a wait is made up for.
NoKeyIsStuck ==
  inputs = <<>> /\ Written => server.keys \subseteq (UNION {Keysyms(k) : k \in user.keys}) \cup lost

\* The same of the buttons and of the wheel, whose turn is always ended.
NoButtonIsStuck ==
  inputs = <<>> /\ Written => server.buttons \subseteq user.buttons \cup lost

\* A session that ended by itself or was ended leaves nothing held, unless the
\* stop of its net loop overtook the releases or its connection was gone.
NothingStaysHeld ==
  phase # "live" /\ Written => Held(server) \subseteq lost

\* A click or a turn of the wheel is where the host's pointer was when it was
\* made, once the session has been told of a move; before, it is at the origin.
ClicksLand == ~server.missed

\* A close that was handled ends the helper, although its cleanup failed.
CloseIsKept == ~undone

\* What the user does with keys and pointer is what the server is left with: over
\* failures, reconnections and closes nothing stays held but what a dropped queue
\* would have released, clicks land, a close ends.
InputIsFaithful == NoKeyIsStuck /\ NoButtonIsStuck /\ NothingStaysHeld /\ ClicksLand /\ CloseIsKept
=============================================================================
