------------------------------ MODULE EsProvider ------------------------------
(***************************************************************************)
(* The Elasticsearch provider: one loop that handles the host's messages   *)
(* one at a time over a pipe, and one task per asynchronous search.  An    *)
(* open that names a stored secret asks the host for it in the middle of   *)
(* its own handling and takes the next message for the answer.             *)
(*                                                                         *)
(* External: the host, the Elasticsearch server (what it answers, how long *)
(* the answer is) and its client library.                                  *)
(***************************************************************************)
EXTENDS Naturals, FiniteSets, Sequences

CONSTANTS Configs,         \* configurations a resource/open may carry
          Queries,         \* search parameters
          AnswerSizes,     \* lengths of the server's answers
          MaxBody,         \* MAX_HTTP_BODY_BYTES
          Inline,          \* longest result that is not a blob
          MaxBlobBytes,    \* MAX_TOTAL_BLOB_BYTES
          MaxJobs, MaxStreams, Capacities,
          MaxOutstanding,  \* requests the host has without an answer, at most
          MaxIds           \* resources, jobs, blobs and streams ever made

\* auth is absent, inline or a reference; authType and field are the fields of
\* the form.  A reference of 0 is none.
OpenConfig == [auth : {"none", "direct", "ref"}, credentialRef : Nat, authType : STRING, field : Nat,
               username : BOOLEAN, empty : BOOLEAN]

\* indices is "all" when none are given, "named" when all are names, "partly" when
\* some are something else and "malformed" when all are.
Query == [body : {"query", "all", "invalid"}, indices : {"all", "named", "partly", "malformed"}]

ASSUME ProviderAssumption ==
  /\ Configs \subseteq OpenConfig
  /\ Queries \subseteq Query /\ AnswerSizes \subseteq Nat
  /\ MaxBody \in Nat /\ Inline \in Nat /\ MaxBlobBytes \in Nat
  /\ MaxJobs \in Nat /\ MaxStreams \in Nat /\ Capacities \subseteq Nat \ {0}
  /\ MaxOutstanding \in Nat /\ MaxIds \in Nat

VARIABLES resources, jobs, blobs, streams,   \* ProviderState, by id
          next,         \* the next id
          pipe,         \* messages from the host
          waiting,      \* the open that waits for its secret, or NoOpen
          asked,        \* secrets asked for and not yet answered by the host
          requests,     \* counts: sent, answered, and taken for an answer and lost
          broadcasts,   \* ghost: job events, in order
          closedBlobs   \* ghost: blobs the host has closed

vars == <<resources, jobs, blobs, streams, next, pipe, waiting, asked, requests, broadcasts, closedBlobs>>
store == <<resources, jobs, blobs, streams, next, broadcasts, closedBlobs>>
wire == <<pipe, waiting, asked, requests>>

NoOpen == [auth |-> "no open"]
NoResult == [kind |-> "none"]
Put(f, k, v) == [x \in DOMAIN f \cup {k} |-> IF x = k THEN v ELSE f[x]]
Drop(f, S) == [x \in DOMAIN f \ S |-> f[x]]
-----------------------------------------------------------------------------
(* Credentials: a config has an inline auth, a credential_ref, or fields *)

\* reference: the secret a field refers to, or an error.
Reference(c, kind) ==
  IF c.field = 0 THEN [kind |-> "error"] ELSE [kind |-> "reference", of |-> kind, ref |-> c.field]

CredentialsFromFields(c) ==
  CASE c.authType = "none" -> [kind |-> "none"]
    [] c.authType \in {"api_key", "basic", "bearer"} -> Reference(c, c.authType)
    [] OTHER -> [kind |-> "error"]

ParseOpenParams(c) ==
  CASE c.auth = "none" /\ c.credentialRef # 0 -> [kind |-> "reference", of |-> "api_key", ref |-> c.credentialRef]
    [] c.auth = "none" /\ c.credentialRef = 0 -> CredentialsFromFields(c)
    [] c.auth = "direct" -> IF c.empty THEN [kind |-> "error"] ELSE [kind |-> "direct"]
    [] OTHER -> IF c.credentialRef = 0 THEN [kind |-> "error"]
                ELSE [kind |-> "reference", of |-> c.authType, ref |-> c.credentialRef]

\* stored_credentials: a kind it does not know, and a basic one without a user
\* name, is used as an API key.
StoredCredentials(c, of, secret) ==
  [kind |-> IF of \in {"api_key", "bearer"} \/ (of = "basic" /\ c.username) THEN of ELSE "api_key", secret |-> secret]
-----------------------------------------------------------------------------
(* Results and blobs *)

\* response_json: a value of some length, or an error.
ResponseJson(success, size) == IF success /\ size <= MaxBody THEN <<size>> ELSE <<>>

\* The bytes of all blobs, each by its blob and its place, and how many they are.
BlobBytes(b) == UNION {{id} \X (1..b[id].size) : id \in DOMAIN b}
TotalBlobBytes(b) == Cardinality(BlobBytes(b))

StoreBlob(resource, size) ==
  IF TotalBlobBytes(blobs) + size > MaxBlobBytes THEN [kind |-> "none"]
  ELSE [kind |-> "blob", id |-> next, blobs |-> Put(blobs, next, [resource |-> resource, size |-> size, offset |-> 0])]

\* blob_result: in line, as a blob, or an error when there is no room.
BlobResult(resource, size) ==
  IF size <= Inline THEN [kind |-> "inline", blobs |-> blobs]
  ELSE StoreBlob(resource, size)
-----------------------------------------------------------------------------
Init == /\ resources = <<>> /\ jobs = <<>> /\ blobs = <<>> /\ streams = <<>> /\ next = 1
        /\ pipe = <<>> /\ waiting = NoOpen /\ asked = <<>>
        /\ requests = [sent |-> 0, answered |-> 0, strays |-> 0]
        /\ broadcasts = <<>> /\ closedBlobs = {}

Idle == waiting = NoOpen /\ pipe = <<>>      \* the loop waits for a request
Fresh == next <= MaxIds /\ next' = next + 1
FreshBlob(b) == IF b.kind = "blob" THEN Fresh ELSE UNCHANGED next
Answered == requests' = [requests EXCEPT !.answered = @ + 1]
-----------------------------------------------------------------------------
(* Opening, over the pipe *)

\* The host need not wait for one answer before it sends the next request: the pages
\* of the explorer send theirs beside one another.
HostSends(m) ==
  /\ requests.sent - requests.answered < MaxOutstanding /\ requests.sent < MaxIds
  /\ pipe' = Append(pipe, m) /\ requests' = [requests EXCEPT !.sent = @ + 1]
  /\ UNCHANGED <<store, waiting, asked>>

HostResolves == \E known \in BOOLEAN :
  /\ asked # <<>> /\ asked' = Tail(asked)
  /\ pipe' = Append(pipe, [kind |-> "secret", known |-> known, of |-> Head(asked)])
  /\ UNCHANGED <<store, waiting, requests>>

\* The rest of an open: the client is built, the server must be of version 9.
FinishOpen(c, credentials) ==
  \/ Fresh /\ resources' = Put(resources, next, [config |-> c, credentials |-> credentials])
  \/ UNCHANGED <<next, resources>>

\* serve and handle_request: an answer nobody waits for is passed over.
Serve ==
  /\ waiting = NoOpen /\ pipe # <<>> /\ pipe' = Tail(pipe)
  /\ LET m == Head(pipe)  p == ParseOpenParams(m.config) IN
     CASE m.kind = "secret" -> UNCHANGED <<resources, next, waiting, asked, requests>>
       [] m.kind = "ping" -> Answered /\ UNCHANGED <<resources, next, waiting, asked>>
       [] m.kind = "open" /\ p.kind = "reference" ->
            /\ waiting' = m.config /\ asked' = Append(asked, p.ref)
            /\ UNCHANGED <<resources, next, requests>>
       [] m.kind = "open" /\ p.kind = "error" -> Answered /\ UNCHANGED <<resources, next, waiting, asked>>
       [] OTHER -> FinishOpen(m.config, p) /\ Answered /\ UNCHANGED <<waiting, asked>>
  /\ UNCHANGED <<jobs, blobs, streams, broadcasts, closedBlobs>>

\* Mutant: the answer is given up without being read.
ResolveSecretImpatient ==
  /\ waiting # NoOpen /\ waiting' = NoOpen /\ Answered
  /\ IF pipe # <<>> /\ Head(pipe).kind = "secret" /\ Head(pipe).known
     THEN /\ pipe' = Tail(pipe)
          /\ FinishOpen(waiting, StoredCredentials(waiting, ParseOpenParams(waiting).of, Head(pipe).of))
     ELSE UNCHANGED <<pipe, resources, next>>
  /\ UNCHANGED <<jobs, blobs, streams, broadcasts, closedBlobs, asked>>

\* resolve_secret: whatever comes next is the answer, of this question or another; a
\* request is lost, and the answer comes when nobody waits, or somebody else does.
ResolveSecret ==
  /\ waiting # NoOpen /\ pipe # <<>> /\ pipe' = Tail(pipe) /\ waiting' = NoOpen
  /\ LET m == Head(pipe)  p == ParseOpenParams(waiting) IN
     IF m.kind = "secret" /\ m.known
     THEN FinishOpen(waiting, StoredCredentials(waiting, p.of, m.of)) ELSE UNCHANGED <<resources, next>>
  /\ requests' = [requests EXCEPT !.answered = @ + 1, !.strays = IF Head(pipe).kind = "secret" THEN @ ELSE @ + 1]
  /\ UNCHANGED <<jobs, blobs, streams, broadcasts, closedBlobs, asked>>

WireNext == \/ \E c \in Configs : HostSends([kind |-> "open", config |-> c])
            \/ HostSends([kind |-> "ping", config |-> [auth |-> "direct", empty |-> TRUE]])
            \/ HostResolves \/ Serve \/ ResolveSecret
WireSpec == Init /\ [][WireNext]_vars
-----------------------------------------------------------------------------
(* Jobs, blobs and events, each handled between two messages *)

\* resource/open of a server that asks for no credentials.
Anonymous == [auth |-> "none", credentialRef |-> 0, authType |-> "none", field |-> 0, username |-> FALSE, empty |-> FALSE]

Open == /\ Idle /\ FinishOpen(Anonymous, [kind |-> "none"])
        /\ UNCHANGED <<jobs, blobs, streams, broadcasts, closedBlobs, wire>>

\* search_body: what a search asks for; "invalid" is an error.
SearchBody(query) == IF query.body = "invalid" THEN <<>> ELSE <<query.body>>

\* execute_search: what cannot be read as a search is a search for everything; an
\* entry that is no name is passed over, and without a name every index is searched.
ExecuteSearch(query) ==
  [body |-> IF SearchBody(query) = <<>> THEN "all" ELSE SearchBody(query)[1],
   indices |-> IF query.indices \in {"named", "partly"} THEN "named" ELSE "all"]

Invoke == \E r \in DOMAIN resources, success \in BOOLEAN, size \in AnswerSizes :
  /\ Idle
  /\ LET value == ResponseJson(success, size)
         b == IF value = <<>> THEN NoResult ELSE BlobResult(r, value[1])
     IN FreshBlob(b) /\ blobs' = IF b.kind = "none" THEN blobs ELSE b.blobs
  /\ UNCHANGED <<resources, jobs, streams, broadcasts, closedBlobs, wire>>

StartJob == \E r \in DOMAIN resources, query \in Queries :
  /\ Idle /\ Cardinality(DOMAIN jobs) < MaxJobs /\ SearchBody(query) # <<>> /\ Fresh
  /\ jobs' = Put(jobs, next, [resource |-> r, state |-> "running", query |-> query, runs |-> ExecuteSearch(query),
                              worker |-> "searching", size |-> 0, result |-> NoResult])
  /\ UNCHANGED <<resources, blobs, streams, broadcasts, closedBlobs, wire>>

\* The worker of a job ends on its own, with an answer, an error or a panic.
WorkerEnds == \E j \in DOMAIN jobs, success \in BOOLEAN, size \in AnswerSizes :
  /\ jobs[j].worker = "searching"
  /\ LET value == ResponseJson(success, size) IN
     jobs' = IF value = <<>> THEN [jobs EXCEPT ![j].worker = "failed"]
             ELSE [jobs EXCEPT ![j].worker = "done", ![j].size = value[1]]
  /\ UNCHANGED <<resources, blobs, streams, next, broadcasts, closedBlobs, wire>>

\* push_event: a full buffer loses its oldest event.
PushEvent(s, e) ==
  IF Len(s.buffer) >= s.capacity THEN [s EXCEPT !.buffer = Append(Tail(@), e), !.dropped = @ + 1]
  ELSE [s EXCEPT !.buffer = Append(@, e)]

\* emit_job_event and broadcast_event.
EmitJobEvent(j, state) ==
  LET e == [job |-> j, state |-> state] IN
  /\ broadcasts' = Append(broadcasts, e)
  /\ streams' = [s \in DOMAIN streams |-> PushEvent(streams[s], e)]

\* poll_job and complete_job: what has ended is taken over, and told.
Ended(j) == j \in DOMAIN jobs /\ jobs[j].state = "running" /\ jobs[j].worker # "searching"

PollJob(j) ==
  LET b == IF jobs[j].worker = "done" THEN BlobResult(jobs[j].resource, jobs[j].size) ELSE NoResult
      state == IF b.kind = "none" THEN "failed" ELSE "succeeded"
      result == CASE b.kind = "blob" -> [kind |-> "blob", id |-> b.id] [] b.kind = "inline" -> [kind |-> "inline"]
                  [] OTHER -> NoResult
  IN /\ FreshBlob(b)
     /\ jobs' = [jobs EXCEPT ![j].state = state, ![j].result = result]
     /\ blobs' = IF b.kind = "none" THEN blobs ELSE b.blobs
     /\ EmitJobEvent(j, state)
     /\ UNCHANGED <<resources, closedBlobs, wire>>

\* job/status and job/result do this first; what they answer changes nothing more.
JobStatus == Idle /\ \E j \in DOMAIN jobs : Ended(j) /\ PollJob(j)

\* Mutant: a job that has ended can be cancelled.
CancelJobAny == \E j \in DOMAIN jobs :
  /\ Idle /\ jobs' = [jobs EXCEPT ![j].state = "cancelled", ![j].result = NoResult]
  /\ EmitJobEvent(j, "cancelled")
  /\ UNCHANGED <<resources, blobs, next, closedBlobs, wire>>

\* job/cancel: also of a job whose worker is done and that nobody has polled.
CancelJob == \E j \in DOMAIN jobs :
  /\ Idle /\ jobs[j].state = "running"
  /\ jobs' = [jobs EXCEPT ![j].state = "cancelled", ![j].worker = "stopped", ![j].result = NoResult]
  /\ EmitJobEvent(j, "cancelled")
  /\ UNCHANGED <<resources, blobs, next, closedBlobs, wire>>

BlobOf(j) == IF jobs[j].result.kind = "blob" THEN {jobs[j].result.id} ELSE {}

\* close_job_by_id: the blob of its result goes with it.
CloseJob == \E j \in DOMAIN jobs :
  /\ Idle /\ jobs' = Drop(jobs, {j}) /\ blobs' = Drop(blobs, BlobOf(j))
  /\ UNCHANGED <<resources, streams, next, broadcasts, closedBlobs, wire>>

CloseResource == \E r \in DOMAIN resources :
  /\ Idle /\ resources' = Drop(resources, {r})
  /\ jobs' = Drop(jobs, {j \in DOMAIN jobs : jobs[j].resource = r})
  /\ blobs' = Drop(blobs, {b \in DOMAIN blobs : blobs[b].resource = r})
  /\ UNCHANGED <<streams, next, broadcasts, closedBlobs, wire>>

ReadBlob == \E b \in DOMAIN blobs, max \in 1..2 :
  /\ Idle /\ blobs' = [blobs EXCEPT ![b].offset = IF @ + max > blobs[b].size THEN blobs[b].size ELSE @ + max]
  /\ UNCHANGED <<resources, jobs, streams, next, broadcasts, closedBlobs, wire>>

CloseBlob == \E b \in DOMAIN blobs :
  /\ Idle /\ blobs' = Drop(blobs, {b}) /\ closedBlobs' = closedBlobs \cup {b}
  /\ UNCHANGED <<resources, jobs, streams, next, broadcasts, wire>>

OpenEventStream == \E capacity \in Capacities :
  /\ Idle /\ resources # <<>> /\ Cardinality(DOMAIN streams) < MaxStreams /\ Fresh
  /\ streams' = Put(streams, next, [buffer |-> <<>>, capacity |-> capacity, dropped |-> 0,
                                    since |-> Len(broadcasts), got |-> <<>>])
  /\ UNCHANGED <<resources, jobs, blobs, broadcasts, closedBlobs, wire>>

ReadEventStream == \E s \in DOMAIN streams, max \in 1..2 :
  /\ Idle /\ streams[s].buffer # <<>>
  /\ LET n == IF max > Len(streams[s].buffer) THEN Len(streams[s].buffer) ELSE max IN
     streams' = [streams EXCEPT ![s].got = @ \o SubSeq(streams[s].buffer, 1, n),
                                ![s].buffer = SubSeq(@, n + 1, Len(@))]
  /\ UNCHANGED <<resources, jobs, blobs, next, broadcasts, closedBlobs, wire>>

CloseEventStream == \E s \in DOMAIN streams :
  /\ Idle /\ streams' = Drop(streams, {s})
  /\ UNCHANGED <<resources, jobs, blobs, next, broadcasts, closedBlobs, wire>>

\* shutdown: everything goes, and the loop ends after the answer.
Shutdown ==
  /\ Idle /\ next <= MaxIds /\ next' = MaxIds + 1
  /\ resources' = <<>> /\ jobs' = <<>> /\ blobs' = <<>> /\ streams' = <<>>
  /\ UNCHANGED <<broadcasts, closedBlobs, wire>>

Next == \/ Open \/ Invoke \/ StartJob \/ WorkerEnds \/ JobStatus \/ CancelJob \/ CloseJob \/ CloseResource
        \/ ReadBlob \/ CloseBlob \/ OpenEventStream \/ ReadEventStream \/ CloseEventStream \/ Shutdown
Spec == Init /\ [][Next]_vars
-----------------------------------------------------------------------------
\* Types, and the limits on jobs, streams and event buffers.
TypeOK == /\ Cardinality(DOMAIN jobs) <= MaxJobs /\ Cardinality(DOMAIN streams) <= MaxStreams
          /\ \A j \in DOMAIN jobs : jobs[j].state \in {"running", "succeeded", "failed", "cancelled"}
          /\ \A s \in DOMAIN streams : Len(streams[s].buffer) <= streams[s].capacity
          /\ \A b \in DOMAIN blobs : blobs[b].offset <= blobs[b].size

\* A job and a blob have an open resource: nothing outlives the resource it is of,
\* however its search ends.
NothingIsOrphaned == /\ \A j \in DOMAIN jobs : jobs[j].resource \in DOMAIN resources
                     /\ \A b \in DOMAIN blobs : blobs[b].resource \in DOMAIN resources

\* All blobs together stay within the budget.
BlobsFitBudget == TotalBlobBytes(blobs) <= MaxBlobBytes

\* What a job that succeeded refers to can be read until the host itself closes it.
ResultsAreReadable ==
  \A j \in DOMAIN jobs : BlobOf(j) \subseteq DOMAIN blobs \cup closedBlobs

\* A job that is over has been told of exactly once, in the state it is in, and
\* stays in it; one that runs has not been told of.
Told(j) == {i \in DOMAIN broadcasts : broadcasts[i].job = j}
EndIsToldOnce ==
  \A j \in DOMAIN jobs :
    IF jobs[j].state = "running" THEN Told(j) = {}
    ELSE \E i \in DOMAIN broadcasts : Told(j) = {i} /\ broadcasts[i].state = jobs[j].state

\* A stream holds the latest events; read, held and dropped ones are all there were.
EventsAreAccounted ==
  \A s \in DOMAIN streams :
    LET held == streams[s].buffer IN
    /\ Len(broadcasts) = streams[s].since + Len(streams[s].got) + streams[s].dropped + Len(held)
    /\ \A i \in DOMAIN held : held[i] = broadcasts[(Len(broadcasts) - Len(held)) + i]

\* A job searches for what it was asked to search for, and everywhere only when the
\* request names no index: the fallbacks of execute_search never widen it.
JobsRunTheirQuery ==
  \A j \in DOMAIN jobs : LET q == jobs[j].query  runs == jobs[j].runs IN
    runs.body = q.body /\ (runs.indices = "all" => q.indices \in {"all", "malformed"})

\* A resource is opened with the secret its own configuration refers to, also when
\* requests wait behind the open, as long as none was taken for the answer to it.
\* Once one was, the answer that is left over may open another resource.
SecretsMatch ==
  \A r \in DOMAIN resources :
    LET p == ParseOpenParams(resources[r].config) IN
    requests.strays = 0 /\ p.kind = "reference" => resources[r].credentials.secret = p.ref

\* A configuration that asks for authentication never opens without, whatever was
\* taken for an answer.
AuthIsNotDropped ==
  \A r \in DOMAIN resources :
    resources[r].config.authType # "none" => resources[r].credentials.kind # "none"

\* A resource is opened with its own secret until a request was taken for one, and
\* never without credentials it asks for.
OpensAreSafe == SecretsMatch /\ AuthIsNotDropped

\* Jobs, their results and their events: nothing outlives its resource, the
\* limits hold, an end is told once, events are accounted for.
JobsAreSound ==
  /\ TypeOK /\ NothingIsOrphaned /\ BlobsFitBudget /\ ResultsAreReadable
  /\ EndIsToldOnce /\ JobsRunTheirQuery /\ EventsAreAccounted
=============================================================================
