-------------------------------- MODULE Redis --------------------------------
(***************************************************************************)
(* The Redis driver: commands and pipelines over one cached connection per *)
(* database, sent again once when the connection drops and nothing in them *)
(* writes; and Pub/Sub streams, each a task between a queue of controls    *)
(* and a bounded channel of events.  The calls of one connection of the    *)
(* host are handled one at a time; the tasks of its streams run beside.    *)
(*                                                                         *)
(* External: the server, the client library, and a host that repeats a     *)
(* request when, and only when, its error says that it may.                *)
(***************************************************************************)
EXTENDS Naturals, FiniteSets, Sequences

CONSTANTS Default, Databases,   \* the configured database, and all of them
          Pipelines,            \* what the host may send: sequences of commands
          MaxRequests, MaxTries,
          Channels, EventCapacities,
          MaxControls,          \* places of a stream's queue of controls
          MaxMessages, MaxEventStreams

ASSUME RedisAssumption ==
  /\ Default \in Databases /\ Pipelines \subseteq Seq(Seq(STRING))
  /\ MaxRequests \in Nat /\ MaxTries \in Nat
  /\ EventCapacities \subseteq Nat \ {0} /\ MaxControls \in Nat \ {0}
  /\ MaxMessages \in Nat /\ MaxEventStreams \in Nat

VARIABLES connections,   \* database |-> connection, or NoConnection
          request,       \* the host's request, and what has become of it
          sent,          \* requests of the host
          events,        \* RedisEvent, by stream
          opened,        \* streams ever opened
          published      \* messages ever published

redisVars == <<connections, request, sent, events, opened, published>>
streamVars == <<events, opened, published>>
callVars == <<connections, request, sent>>
NoConnection == [open |-> FALSE]
-----------------------------------------------------------------------------
(* What may be sent twice *)

ReadOnly == {"PING", "GET", "MGET", "EXISTS", "TYPE", "TTL", "PTTL", "SCAN", "SSCAN", "HSCAN", "ZSCAN", "KEYS", "STRLEN",
             "HLEN", "HGET", "HMGET", "HGETALL", "HKEYS", "HVALS", "LLEN", "LRANGE", "SCARD", "SMEMBERS", "ZCARD",
             "ZRANGE", "XRANGE", "XLEN", "INFO", "DBSIZE"}

\* A command is a sequence of arguments; "?" stands for one that is not base64.
CanRetryCommand(args) ==
  /\ args # <<>> /\ args[1] # "?"
  /\ IF args[1] = "MEMORY" THEN Len(args) > 1 /\ args[2] = "USAGE" ELSE args[1] \in ReadOnly

\* Mutant: one command that reads is enough.
CanRetryPipelineAny(commands) == \E i \in DOMAIN commands : CanRetryCommand(commands[i])

CanRetryPipeline(commands) == commands # <<>> /\ \A i \in DOMAIN commands : CanRetryCommand(commands[i])

\* build_command: an empty command or an argument that cannot be decoded is an
\* error before anything is sent.
BuildCommand(args) == args # <<>> /\ \A i \in DOMAIN args : args[i] # "?"
BuildPipeline(commands) == \A i \in DOMAIN commands : BuildCommand(commands[i])

\* External: what the server's own table of commands flags as only reading.  Anything
\* else, a command of a module and one it does not know included, may write.
ServerReads ==
  {"PING", "ECHO", "TIME", "INFO", "DBSIZE", "GET", "MGET", "GETRANGE", "GETBIT", "BITCOUNT", "STRLEN", "EXISTS", "TYPE", "TTL",
   "PTTL", "KEYS", "SCAN", "RANDOMKEY", "DUMP", "HGET", "HMGET", "HGETALL", "HKEYS", "HVALS", "HLEN", "HEXISTS", "HSCAN",
   "LLEN", "LRANGE", "LINDEX", "SCARD", "SMEMBERS", "SISMEMBER", "SRANDMEMBER", "SINTER", "SUNION", "SSCAN", "ZCARD",
   "ZRANGE", "ZSCORE", "ZRANK", "ZCOUNT", "ZSCAN", "XRANGE", "XREVRANGE", "XLEN", "XREAD"}
ReadsMemory(args) == args[1] = "MEMORY" /\ Len(args) > 1 /\ args[2] \in {"USAGE", "STATS", "DOCTOR"}
Writes(args) == args[1] \notin ServerReads /\ ~ReadsMemory(args)

\* External: commands that change the connection they are sent over, which
\* build_command lets pass like any other.
SessionCommands == {"SELECT", "MULTI", "EXEC", "DISCARD", "RESET", "AUTH", "HELLO", "CLIENT"}
Alters(commands) == \E i \in DOMAIN commands : commands[i] # <<>> /\ commands[i][1] \in SessionCommands
-----------------------------------------------------------------------------
(* Commands *)

\* A connection: the database it is on, whether the server only queues what comes over
\* it (MULTI), and whether a command has altered it since it was made (ghost).
OpenConnectionManager(d) == [open |-> TRUE, database |-> d, queues |-> FALSE, altered |-> FALSE]
Altered == [open : {TRUE}, database : Databases, queues : BOOLEAN, altered : {TRUE}]

\* manager: the cached connection as it is, or a new one.
Manager(d) == IF connections[d] = NoConnection THEN OpenConnectionManager(d) ELSE connections[d]

\* External: how a query over a connection may go, what of it is done and where, and
\* how it leaves the connection.  A connection that drops, or an answer that comes too
\* late, leaves any first part of a pipeline done; what is queued is answered and not
\* done.  What a command that alters the connection makes of the rest is left open.
CutShort(commands) == {<<r, 1..n>> : r \in {"dropped", "timeout"}, n \in 0..Len(commands)}
WaysToEnd(commands) ==
  {<<"ok", DOMAIN commands>>} \cup ({"refused by server"} \X SUBSET DOMAIN commands) \cup CutShort(commands)
Sent(end, c) ==
  LET done == IF c.queues THEN {} ELSE end[2] IN
  [result |-> end[1], done |-> done, at |-> IF done = {} THEN {} ELSE {c.database}, left |-> c]
QueryOutcomes(commands, c) ==
  IF Alters(commands)
  THEN [result : {"ok", "refused by server", "dropped", "timeout"}, done : SUBSET DOMAIN commands,
        at : SUBSET Databases, left : Altered]
  ELSE {Sent(end, c) : end \in WaysToEnd(commands)}
NotSent == [done |-> {}, at |-> {}]

\* command_error: only what is safe to send again is said to be worth it.
Retryable(result, safe) == safe /\ result \in {"dropped", "timeout"}

\* The end of a call of one query or two: how often each command was done, and where.
Finish(result, retryable, q, r, faults) ==
  request' = [request EXCEPT !.state = result, !.retryable = retryable, !.faults = faults,
                             !.done = [i \in DOMAIN @ |-> @[i] + (IF i \in q.done THEN 1 ELSE 0) + (IF i \in r.done THEN 1 ELSE 0)],
                             !.at = @ \cup q.at \cup r.at,
                             !.altered = @ \/ Manager(request.database).altered \/ Alters(request.commands)]

Caches(c) == connections' = [connections EXCEPT ![request.database] = c]

\* The part that execute and execute_pipeline share: one query; after a drop
\* reconnect_manager, which may fail, and where nothing writes one query more.
Run(safe) ==
  LET d == request.database IN
  \/ connections[d] = NoConnection /\ Caches(NoConnection) /\ Finish("refused", TRUE, NotSent, NotSent, 1)
  \/ \E q \in QueryOutcomes(request.commands, Manager(d)) :
       \/ /\ q.result # "dropped" /\ Caches(q.left)
          /\ Finish(q.result, Retryable(q.result, safe), q, NotSent, 1)
       \/ /\ q.result = "dropped" /\ ~safe /\ (Caches(OpenConnectionManager(d)) \/ Caches(NoConnection))
          /\ Finish("dropped", FALSE, q, NotSent, 1)
       \/ /\ q.result = "dropped" /\ safe /\ Caches(NoConnection)
          /\ Finish("refused", TRUE, q, NotSent, 2)
       \/ /\ q.result = "dropped" /\ safe
          /\ \E r \in QueryOutcomes(request.commands, OpenConnectionManager(d)) :
               Caches(r.left) /\ Finish(r.result, Retryable(r.result, TRUE), q, r, 2)

Running == request.state = "sent" /\ UNCHANGED <<sent, streamVars>>
Refuse == Finish("invalid", FALSE, NotSent, NotSent, 0) /\ UNCHANGED connections

Execute == /\ Running /\ request.kind = "command"
           /\ IF BuildCommand(request.commands[1]) THEN Run(CanRetryCommand(request.commands[1])) ELSE Refuse

ExecutePipeline == /\ Running /\ request.kind = "pipeline"
                   /\ IF BuildPipeline(request.commands) THEN Run(CanRetryPipeline(request.commands)) ELSE Refuse

NoRequest == [state |-> "none", kind |-> "none", commands |-> <<>>, database |-> Default, done |-> <<>>, at |-> {},
              retryable |-> FALSE, tries |-> 0, faults |-> 0, altered |-> FALSE]

HostRequests == \E commands \in Pipelines, kind \in {"command", "pipeline"}, d \in Databases :
  /\ request.state # "sent" /\ sent < MaxRequests /\ (kind = "command" => Len(commands) = 1)
  /\ request' = [NoRequest EXCEPT !.state = "sent", !.kind = kind, !.commands = commands, !.database = d,
                                  !.done = [i \in DOMAIN commands |-> 0], !.tries = 1]
  /\ sent' = sent + 1
  /\ UNCHANGED <<connections, streamVars>>

HostRepeats ==
  /\ request.retryable /\ request.state # "sent" /\ request.tries < MaxTries
  /\ request' = [request EXCEPT !.state = "sent", !.retryable = FALSE, !.tries = @ + 1]
  /\ UNCHANGED <<connections, sent, streamVars>>
-----------------------------------------------------------------------------
(* Pub/Sub: a control is [op, topic, pattern] *)

NewEvent(capacity) ==
  [open |-> TRUE, task |-> "running", capacity |-> capacity, commands |-> <<>>, subscribed |-> {}, wanted |-> {},
   incoming |-> <<>>, channel |-> <<>>, dropped |-> 0, received |-> <<>>, got |-> <<>>, reported |-> 0]

OpenEvent == \E capacity \in EventCapacities :
  /\ opened < MaxEventStreams /\ opened' = opened + 1
  /\ events' = Append(events, NewEvent(capacity))
  /\ UNCHANGED <<callVars, published>>

\* A step of one stream: when it may be taken, and what it makes of the stream.
Changes(s, enabled, after) ==
  /\ enabled /\ events' = [events EXCEPT ![s] = after]
  /\ UNCHANGED <<callVars, opened, published>>

Applied(topics, control) == IF control.on THEN topics \cup {control.topic} ELSE topics \ {control.topic}
Topics == Channels \X BOOLEAN    \* a channel, or a pattern that matches it
Controls == [on : BOOLEAN, topic : Topics]

\* control_event waits for a place; the task of a stream that is closed takes none.
Controlled(e, c) == [e EXCEPT !.wanted = Applied(@, c), !.commands = Append(@, c)]
ControlEvent == \E s \in DOMAIN events, c \in Controls :
  Changes(s, events[s].open /\ events[s].task = "running" /\ Len(events[s].commands) < MaxControls, Controlled(events[s], c))

\* The task takes a control; one that fails ends the task.
Took(e) == [e EXCEPT !.commands = Tail(@), !.subscribed = Applied(@, Head(e.commands))]
Failed(e) == [e EXCEPT !.commands = Tail(@), !.task = "ended", !.subscribed = {}, !.incoming = <<>>]
TaskControls == \E s \in DOMAIN events, success \in BOOLEAN :
  Changes(s, events[s].task = "running" /\ events[s].commands # <<>>, IF success THEN Took(events[s]) ELSE Failed(events[s]))

\* The task takes a message; a full channel loses it.
Forwarded(e) == [e EXCEPT !.incoming = Tail(@), !.received = Append(@, Head(e.incoming)), !.channel = Append(@, Head(e.incoming))]
Overflowed(e) == [e EXCEPT !.incoming = Tail(@), !.received = Append(@, Head(e.incoming)), !.dropped = @ + 1]
TaskForwards == \E s \in DOMAIN events :
  Changes(s, events[s].task = "running" /\ events[s].incoming # <<>>,
          IF Len(events[s].channel) >= events[s].capacity THEN Overflowed(events[s]) ELSE Forwarded(events[s]))

\* External: the server publishes, to a channel and to a pattern each subscriber of
\* it, or the connection of a stream is lost, which the task sees once it has taken
\* what has arrived.
Hits(e, topic, n) == IF topic \in e.subscribed THEN <<[message |-> n, topic |-> topic]>> ELSE <<>>
Arrived(e, channel, n) == [e EXCEPT !.incoming = @ \o (Hits(e, <<channel, FALSE>>, n) \o Hits(e, <<channel, TRUE>>, n))]
Publish == \E channel \in Channels :
  /\ published < MaxMessages /\ published' = published + 1
  /\ events' = [s \in DOMAIN events |-> Arrived(events[s], channel, published + 1)]
  /\ UNCHANGED <<callVars, opened>>

Lost(e) == [e EXCEPT !.task = "ended", !.subscribed = {}]
ConnectionLost == \E s \in DOMAIN events :
  Changes(s, events[s].task = "running" /\ events[s].incoming = <<>>, Lost(events[s]))

\* Mutant: the count of lost messages is reset before it is read.
ReadForgetting(e, n) == [e EXCEPT !.got = @ \o SubSeq(e.channel, 1, n), !.channel = SubSeq(@, n + 1, Len(@)), !.dropped = 0]

\* read_event: what is there up to max_events, at least one message if there is one,
\* and the number of messages lost since last time.
Read(e, n) == [e EXCEPT !.got = @ \o SubSeq(e.channel, 1, n), !.channel = SubSeq(@, n + 1, Len(@)),
                        !.reported = @ + e.dropped, !.dropped = 0]
ReadEvent == \E s \in DOMAIN events : \E n \in 0..Len(events[s].channel) :
  Changes(s, events[s].open /\ (n = 0 => events[s].channel = <<>>), Read(events[s], n))

Aborted(e) == [e EXCEPT !.open = FALSE, !.task = "ended", !.subscribed = {}, !.incoming = <<>>]
CloseEvent == \E s \in DOMAIN events : Changes(s, events[s].open, Aborted(events[s]))

\* close: every connection is dropped and every task stopped.
Close ==
  /\ connections' = [d \in Databases |-> NoConnection]
  /\ events' = [s \in DOMAIN events |-> Aborted(events[s])]
  /\ UNCHANGED <<request, sent, opened, published>>
-----------------------------------------------------------------------------
\* open_connection: a connection to the configured database is there.
RedisInit ==
  /\ connections = [d \in Databases |-> IF d = Default THEN OpenConnectionManager(d) ELSE NoConnection]
  /\ request = NoRequest /\ sent = 0
  /\ events = <<>> /\ opened = 0 /\ published = 0

CallNext == Execute \/ ExecutePipeline \/ HostRequests \/ HostRepeats
StreamNext == \/ OpenEvent \/ ControlEvent \/ TaskControls \/ TaskForwards \/ Publish \/ ConnectionLost
              \/ ReadEvent \/ CloseEvent \/ Close
RedisSpec == RedisInit /\ [][CallNext \/ StreamNext]_redisVars
-----------------------------------------------------------------------------
\* A command that writes is done at most once for one request of the host, even
\* when the host repeats it as often as the errors allow.
NoWriteTwice ==
  \A i \in DOMAIN request.commands :
    (request.done[i] > 0 /\ Writes(request.commands[i])) => request.done[i] = 1

\* A request that succeeds has done everything it asked for, and its commands are done
\* in the database that it names, over whichever connection, cached or new.  Only a
\* command of the host that alters a connection (SELECT, MULTI), in this request or
\* in an earlier one of the same database, changes that, until the connection drops.
DoneAsAsked ==
  ~request.altered =>
    /\ request.state = "ok" => \A i \in DOMAIN request.done : request.done[i] > 0
    /\ request.at \subseteq {request.database}

\* A drop alone never fails a request that only reads: a second fault is needed.  A
\* pipeline without a command is not sent again, and has nothing to read.
ReadsSurviveADrop ==
  (request.state = "dropped" /\ request.commands # <<>> /\ \A i \in DOMAIN request.commands : CanRetryCommand(request.commands[i])) => request.faults > 1

\* Every message the task was given is read, waits to be read, or is counted as lost
\* exactly once; and what is read keeps its order.
MessagesAreAccounted ==
  \A s \in DOMAIN events :
    LET e == events[s]  kept == e.got \o e.channel IN
    /\ Len(e.received) = Len(kept) + e.dropped + e.reported
    /\ \A i, j \in DOMAIN kept : i < j => kept[i].message <= kept[j].message
    /\ Len(e.channel) <= e.capacity

\* While a stream is up, a topic is subscribed as the last control that the host was
\* told is accepted says, once the task has taken the ones that wait.
ControlsAreKept ==
  \A s \in DOMAIN events : LET e == events[s] IN
    e.task = "running" => \A topic \in Topics :
      topic \in e.wanted <=>
        \/ \E i \in DOMAIN e.commands : /\ e.commands[i].on /\ e.commands[i].topic = topic
                                        /\ \A j \in DOMAIN e.commands : j > i => e.commands[j].topic # topic
        \/ topic \in e.subscribed /\ \A i \in DOMAIN e.commands : e.commands[i].topic # topic

\* A stream that the host has closed, or whose connection it has closed, has no task
\* and no subscription left.
ClosedStreamsStop ==
  \A s \in DOMAIN events : ~events[s].open => events[s].task = "ended" /\ events[s].subscribed = {}

\* A write is done once at most, reads survive a drop, and over a connection that the
\* host has not altered a request is done as it was asked.
CallsAreSafe == NoWriteTwice /\ DoneAsAsked /\ ReadsSurviveADrop

\* A stream accounts for every message, follows its controls and ends when closed.
StreamsAreSound == MessagesAreAccounted /\ ControlsAreKept /\ ClosedStreamsStop
=============================================================================
