------------------------------- MODULE RdpInput -------------------------------
(***************************************************************************)
(* Input of the RDP helper: requests of the host, one after the other, are *)
(* turned by an input database into events for the client's bounded queue. *)
(* A move that finds the queue full is kept for later; anything else waits *)
(* for room.  External: the database of IronRDP, which leaves out what     *)
(* changes nothing, and the client, which carries the events to the server.*)
(*                                                                         *)
(* Ghost fields of an operation: "at", where the host's pointer was, and   *)
(* "desk", how many resizes the host had asked for, when it was requested. *)
(***************************************************************************)
EXTENDS Naturals, FiniteSets, Sequences, SequencesExt

CONSTANTS Positions,   \* numbers from 1; 0 is none
          Buttons, Keys,
          Capacity,    \* of the client's queue
          MaxRequests

\* What the constants are.
InputAssumption == Capacity \in Nat \ {0} /\ Positions \subseteq Nat \ {0}

VARIABLES database,   \* ironrdp::input::Database
          pending,    \* pending_mouse_position, with its desktop, or NoMove
          busy,       \* operations send_reliably retries, <<>> when it does not
          queue,      \* the client's queue: sequences of operations
          server,     \* the server's input state (external)
          faults,     \* what went wrong at the server (ghost)
          host,       \* the host: its pointer, its resizes, requests so far
          closed      \* shutdown_inputs has run

vars == <<database, pending, busy, queue, server, faults, host, closed>>

NoMove == [op |-> "move", p |-> 0, desk |-> 0]
Nothing == [at |-> 0, held |-> {}]
-----------------------------------------------------------------------------
(* The database: what an operation does, and whether it is worth an event *)

Effect(d, o) ==
  CASE o.op = "move" -> [d EXCEPT !.at = o.p]
    [] o.op = "press" -> [d EXCEPT !.held = @ \cup {o.b}]
    [] o.op = "release" -> [d EXCEPT !.held = @ \ {o.b}]
    [] OTHER -> d

Emits(d, o) == o.op \in {"wheel", "text"} \/ Effect(d, o) # d \/ (o.op = "press" /\ o.b \in Keys)

\* Database::apply: the state after the operations and the events they are.
Apply(d, operations) ==
  LET Step(acc, o) == [d |-> Effect(acc.d, o), out |-> IF Emits(acc.d, o) THEN Append(acc.out, o) ELSE acc.out]
  IN FoldLeft(Step, [d |-> d, out |-> <<>>], operations)

ReleaseAll(d) == SetToSeq({[op |-> "release", b |-> b, at |-> 0] : b \in d.held})
-----------------------------------------------------------------------------
Full == Len(queue) >= Capacity

\* try_send_with: the event is built once a place in the queue is reserved.
TrySend(operations) ==
  LET r == Apply(database, operations) IN
  /\ database' = IF Full THEN database ELSE r.d
  /\ queue' = IF Full \/ r.out = <<>> THEN queue ELSE Append(queue, r.out)

Init == /\ database = Nothing /\ pending = NoMove /\ busy = <<>> /\ queue = <<>> /\ server = [at |-> 0, held |-> {}, desk |-> 0]
        /\ faults = {} /\ host = [at |-> 0, desk |-> 0, requests |-> 0] /\ closed = FALSE

Request == ~closed /\ busy = <<>> /\ host.requests < MaxRequests

\* send_mouse_move: one try; what does not fit replaces what was kept.
SendMouseMove(p) ==
  /\ Request
  /\ host' = [host EXCEPT !.at = p, !.requests = @ + 1]
  /\ LET move == [op |-> "move", p |-> p, desk |-> host.desk] IN
     TrySend(<<move>>) /\ pending' = IF Full THEN move ELSE NoMove
  /\ UNCHANGED <<busy, server, faults, closed>>

\* Mutant: the kept move is forgotten by a click.
SendPointerOperationAlone(operation) ==
  /\ Request /\ host' = [host EXCEPT !.requests = @ + 1]
  /\ busy' = <<operation>>
  /\ UNCHANGED <<database, pending, queue, server, faults, closed>>

\* send_pointer_operation: a kept move goes first, in the same event.
SendPointerOperation(operation) ==
  /\ Request /\ host' = [host EXCEPT !.requests = @ + 1]
  /\ busy' = IF pending = NoMove THEN <<operation>> ELSE <<pending, operation>>
  /\ UNCHANGED <<database, pending, queue, server, faults, closed>>

\* send_operations and send_text: a character is pressed and released in one event.
SendOperations(operations) ==
  /\ Request /\ host' = [host EXCEPT !.requests = @ + 1]
  /\ busy' = operations
  /\ UNCHANGED <<database, pending, queue, server, faults, closed>>

\* Resize: its coordinates are those of another desktop.
Resize ==
  /\ Request /\ host' = [host EXCEPT !.desk = @ + 1, !.at = 0, !.requests = @ + 1]
  /\ pending' = NoMove /\ busy' = <<[op |-> "resize"]>>
  /\ UNCHANGED <<database, queue, server, faults, closed>>

\* send_reliably: a try that finds room; the ones that do not change nothing.
SendReliably ==
  /\ busy # <<>> /\ ~Full /\ busy' = <<>>
  /\ IF busy[1].op = "resize"
     THEN queue' = Append(queue, busy) /\ UNCHANGED database
     ELSE TrySend(busy)
  /\ pending' = IF busy[1] = pending THEN NoMove ELSE pending
  /\ UNCHANGED <<server, faults, host, closed>>

\* shutdown_inputs: what is held is released if there is room, and not waited for.
ShutdownInputs ==
  /\ ~closed /\ busy = <<>> /\ closed' = TRUE
  /\ TrySend(ReleaseAll(database))
  /\ UNCHANGED <<pending, busy, server, faults, host>>

\* External: the client passes the next event on.
Serve ==
  /\ queue # <<>> /\ queue' = Tail(queue)
  /\ LET Step(acc, o) ==
           [s |-> IF o.op = "resize" THEN [acc.s EXCEPT !.desk = @ + 1] ELSE Effect(acc.s, o),
            faults |-> acc.faults
              \cup (IF o.op = "move" /\ o.desk # acc.s.desk THEN {"stale move"} ELSE {})
              \cup (IF o.op \in {"press", "release", "wheel"} /\ o.at # 0 /\ o.at # acc.s.at THEN {"missed"} ELSE {})]
         done == FoldLeft(Step, [s |-> server, faults |-> faults], Head(queue))
     IN server' = done.s /\ faults' = done.faults
  /\ UNCHANGED <<database, pending, busy, host, closed>>

Next == \/ \E p \in Positions : SendMouseMove(p)
        \/ \E b \in Buttons, op \in {"press", "release"} : SendPointerOperation([op |-> op, b |-> b, at |-> host.at])
        \/ SendPointerOperation([op |-> "wheel", at |-> host.at])
        \/ \E k \in Keys, op \in {"press", "release"} : SendOperations(<<[op |-> op, b |-> k, at |-> 0]>>)
        \/ SendOperations(<<[op |-> "text"]>>)
        \/ Resize \/ SendReliably \/ ShutdownInputs \/ Serve

Spec == Init /\ [][Next]_vars
-----------------------------------------------------------------------------
\* The queue keeps its bound, and only a move that found it full is kept.
TypeOK == /\ Len(queue) <= Capacity /\ \A i \in DOMAIN queue : queue[i] # <<>>
          /\ pending # NoMove => pending.p \in Positions

\* The database is the state the server will have once the queue is drained: an
\* operation that found no room has left no trace in it.
DatabaseIsWhatWasSent ==
  LET Step(s, o) == Effect(s, o) IN
  FoldLeft(Step, [at |-> server.at, held |-> server.held], FlattenSeq(queue)) = database

\* A click or a turn of the wheel happens where the host's pointer was when it
\* was made, although moves before it were left out while the queue was full.
ClicksLand == "missed" \notin faults

\* A position of an old desktop size never follows the resize.
MovesMatchDesktop == "stale move" \notin faults

\* A full queue loses nothing that matters: clicks land, the database is what the
\* server will have, no position outlives its desktop.
InputIsFaithful == TypeOK /\ DatabaseIsWhatWasSent /\ ClicksLand /\ MovesMatchDesktop
=============================================================================
