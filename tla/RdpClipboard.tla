----------------------------- MODULE RdpClipboard -----------------------------
(***************************************************************************)
(* The clipboard of the RDP helper.  Two threads share one mutex: the      *)
(* controller, which carries out what the host asks for on stdin, and the  *)
(* backend, whose callbacks the RDP client calls one at a time.  A callback*)
(* that unlocks and locks again is several steps.  Texts and files are     *)
(* known by the copy they come from; a file's bytes by copy and position.  *)
(*                                                                         *)
(* External: the RDP server, which owns the remote clipboard, answers      *)
(* over one channel, may answer with an error, and serves a locked         *)
(* copy when a request names its lock; the disk of the staging root.       *)
(***************************************************************************)
EXTENDS Naturals, FiniteSets, Sequences, SequencesExt

CONSTANTS Copies,      \* kinds of the server's copies, in the order they happen
          Sizes,       \* Sizes[c]: file sizes of copy c, a sequence
          MaxSingle,   \* MAX_SINGLE_FILE_BYTES
          MaxTotal,    \* MAX_TOTAL_TRANSFER_BYTES
          Chunk,       \* REMOTE_FILE_CHUNK_BYTES
          Locks,       \* lock ids the server may take on local files
          LocalSets,   \* how often the host may set its own clipboard
          MaxReconnects,
          MaxLists,    \* how often the server asks what the clipboard holds
          MaxErrors    \* how often the server answers with an error

\* REMOTE_CLIPBOARD_TRANSFER_BIT keeps remote transfers apart from the host's own ids.
RemoteBit == 100

ASSUME ClipboardAssumption ==
  /\ Chunk \in Nat \ {0} /\ MaxSingle \in Nat /\ MaxTotal \in Nat
  /\ Copies \in Seq({"text", "files", "other"})
  /\ Sizes \in Seq(Seq(Nat)) /\ Len(Sizes) = Len(Copies)
  /\ LocalSets \in Nat /\ LocalSets < RemoteBit

VARIABLES st,        \* TextClipboardState
          backend,   \* what the callback in progress has still to do
          open,      \* the input channel to the RDP client is open
          dirs,      \* staging directories on disk
          events,    \* clipboard events sent to the host
          cancelled, \* transfers the host cancelled in time
          copyOf,    \* copyOf[id]: the copy transfer id was reserved for
          copied,    \* external: copies the server has made
          toServer, toClient,   \* external: messages under way
          served,    \* contents served to the server, with what it asked for
          used       \* bounds: local sets, reconnects, errors so far

vars == <<st, backend, open, dirs, events, cancelled, copyOf, copied, toServer, toClient, served, used>>
serverVars == <<copied, toServer, toClient>>

None == [kind |-> "none"]
Idle == [at |-> "idle"]
IsTransfer(t) == t # None
-----------------------------------------------------------------------------
(* Sequence numbers and the download of one transfer *)

RemoteId(sequence) == RemoteBit + sequence

ReserveRemoteTransfer(s) ==
  [s EXCEPT !.transfer = None, !.pending = RemoteId(s.sequence), !.sequence = @ + 1]

AllocateStreamId(s) == [s EXCEPT !.stream = @ + 1]

Request(t, kind, requested) ==
  [kind |-> kind, stream |-> t.asked, file |-> t.file, position |-> t.offset, size |-> requested, lock |-> t.lock]

RequestSize(t, stream) == [t EXCEPT !.asked = stream, !.requested = 0]

RequestRange(t, stream) ==
  LET remaining == t.expected - t.offset IN
  [t EXCEPT !.asked = stream, !.requested = IF remaining < Chunk THEN remaining ELSE Chunk]

Wanting(t) == [act |-> "request", t |-> t,
               request |-> Request(t, IF t.requested = 0 THEN "size" ELSE "range", t.requested)]
Complete(t) == [act |-> "ready", t |-> t]
Fail(t) == [act |-> "fail", t |-> t]
Ignore(t) == [act |-> "ignore", t |-> t]

FinishFile(t, stream) ==
  LET done == [t EXCEPT !.file = @ + 1, !.offset = 0, !.expected = 0] IN
  IF done.file > Len(t.files) THEN Complete(done) ELSE Wanting(RequestSize(done, stream))

Start(t, stream) ==
  IF t.files = <<>> THEN Complete(t) ELSE Wanting(RequestSize(t, stream))

AccountSize(t, size) == size <= MaxSingle /\ t.accounted + size <= MaxTotal

AcceptSize(t, size, stream) ==
  IF t.files[t.file] \notin {<<>>, <<size>>} \/ ~AccountSize(t, size) THEN Fail(t)
  ELSE LET opened == [t EXCEPT !.accounted = @ + size, !.expected = size, !.offset = 0,
                               !.got = Append(@, <<>>)] IN
       IF size = 0 THEN FinishFile(opened, stream) ELSE Wanting(RequestRange(opened, stream))

AcceptRange(t, data, stream) ==
  IF data = <<>> \/ Len(data) > t.requested \/ t.offset + Len(data) > t.expected THEN Fail(t)
  ELSE LET written == [t EXCEPT !.offset = @ + Len(data), !.got[t.file] = @ \o data] IN
       IF written.offset = t.expected THEN FinishFile(written, stream)
       ELSE Wanting(RequestRange(written, stream))

\* An answer to anything but the request that is pending is ignored.
Advance(t, r, stream) ==
  CASE t.asked = 0 \/ r.stream # t.asked -> Ignore(t)
    [] r.stream = t.asked /\ r.error -> Fail(t)
    [] r.stream = t.asked /\ ~r.error /\ t.requested = 0 ->
         IF "size" \in DOMAIN r THEN AcceptSize(t, r.size, stream) ELSE Fail(t)
    [] OTHER -> IF "data" \in DOMAIN r THEN AcceptRange(t, r.data, stream) ELSE Fail(t)
-----------------------------------------------------------------------------
NewState == [local |-> None, locked |-> <<>>, pending |-> 0, transfer |-> None,
             waiting |-> FALSE, sequence |-> 1, stream |-> 1]

Init == /\ st = NewState /\ backend = Idle /\ open = TRUE /\ dirs = {} /\ events = <<>>
        /\ cancelled = {} /\ copyOf = <<>> /\ copied = 0 /\ toServer = <<>> /\ toClient = <<>>
        /\ served = {} /\ used = [sets |-> 0, reconnects |-> 0, errors |-> 0, lists |-> 0, shutdown |-> FALSE]

\* A transfer that is dropped without being complete takes its directory along.
DirsOf(s) == IF IsTransfer(s.transfer) THEN {s.transfer.id} ELSE {}
Dropping(s, s2) == DirsOf(s) \ DirsOf(s2)

SendClipboard(m) == open /\ toServer' = Append(toServer, m)
Lost == ~open /\ UNCHANGED toServer
Emit(e) == events' = Append(events, e)
Failed(id) == [kind |-> "failed", id |-> id]
-----------------------------------------------------------------------------
(* The controller *)

SetLocal(local) ==
  /\ ~used.shutdown /\ used.sets < LocalSets /\ used' = [used EXCEPT !.sets = @ + 1]
  /\ st' = [st EXCEPT !.local = local]
  /\ SendClipboard([kind |-> "local copy", local |-> local])
  /\ UNCHANGED <<backend, open, dirs, events, cancelled, copyOf, copied, toClient, served>>

SetLocalText == SetLocal([kind |-> "text", id |-> used.sets + 1])
SetLocalFiles == SetLocal([kind |-> "files", id |-> used.sets + 1])

\* A path that cannot be collected, or an id with the remote bit: the clipboard
\* stays and the host is told.  It is told as well of files that cannot be
\* announced, which stay on the clipboard.
SetLocalFilesFails ==
  /\ ~used.shutdown /\ used.sets < LocalSets /\ used' = [used EXCEPT !.sets = @ + 1]
  /\ Emit(Failed(used.sets + 1))
  /\ \/ UNCHANGED st
     \/ ~open /\ st' = [st EXCEPT !.local = [kind |-> "files", id |-> used.sets + 1]]
  /\ UNCHANGED <<backend, open, dirs, cancelled, copyOf, copied, toServer, toClient, served>>

CancelLocalTransfer(s, id) ==
  [s EXCEPT !.local = IF @.kind = "files" /\ @.id = id THEN None ELSE @,
            !.locked = [l \in {x \in DOMAIN s.locked : s.locked[x].id # id} |-> s.locked[l]]]

CancelTransfer(id) ==
  LET l == CancelLocalTransfer(st, id)
      s == [l EXCEPT !.pending = IF @ = id THEN 0 ELSE @,
                     !.transfer = IF IsTransfer(@) /\ @.id = id THEN None ELSE @]
  IN /\ ~used.shutdown /\ s # st /\ st' = s /\ dirs' = dirs \ Dropping(st, s)
     /\ cancelled' = cancelled \cup {id}
     /\ UNCHANGED <<backend, open, events, copyOf, serverVars, served, used>>

\* Shutdown: the state is emptied, in the middle of a callback if need be.  A text
\* that cannot be announced ends the helper's loop with an error, and so here too.
Shutdown ==
  /\ ~used.shutdown /\ used' = [used EXCEPT !.shutdown = TRUE]
  /\ st' = [NewState EXCEPT !.sequence = st.sequence, !.stream = st.stream]
  /\ dirs' = dirs \ DirsOf(st)
  /\ UNCHANGED <<backend, open, events, cancelled, copyOf, serverVars, served>>

\* External: the client is done, told to or not, and its queue closes.
ClientEnds ==
  /\ open /\ open' = FALSE
  /\ UNCHANGED <<st, backend, dirs, events, cancelled, copyOf, serverVars, served, used>>
-----------------------------------------------------------------------------
(* The backend: one callback at a time *)

Callback == backend = Idle /\ toClient # <<>>
Receive == toClient' = Tail(toClient)
Message == Head(toClient)

\* Mutant: a text that was asked for is still waited for.
OnRemoteCopyFilesStillWaiting ==
  /\ Callback /\ Message.kind = "formats" /\ Message.copy = "files" /\ Receive
  /\ LET s == ReserveRemoteTransfer(st) IN
     /\ st' = s /\ dirs' = dirs \ DirsOf(st)
     /\ backend' = [at |-> "paste", id |-> s.pending]
     /\ copyOf' = Append(copyOf, Message.number)
  /\ UNCHANGED <<open, events, cancelled, copied, toServer, served, used>>

\* begin_remote_copy with files: reserve, unlock, ask for the list.
OnRemoteCopyFiles ==
  /\ Callback /\ Message.kind = "formats" /\ Message.copy = "files" /\ Receive
  /\ LET s == ReserveRemoteTransfer([st EXCEPT !.waiting = FALSE]) IN
     /\ st' = s /\ dirs' = dirs \ DirsOf(st)
     /\ backend' = [at |-> "paste", id |-> s.pending]
     /\ copyOf' = Append(copyOf, Message.number)
  /\ UNCHANGED <<open, events, cancelled, copied, toServer, served, used>>

InitiatePaste ==
  /\ backend.at = "paste" /\ backend' = Idle
  /\ \/ SendClipboard([kind |-> "paste", copy |-> "files"]) /\ UNCHANGED <<st, events>>
     \/ /\ Lost /\ Emit(Failed(backend.id))
        /\ st' = [st EXCEPT !.pending = IF @ = backend.id THEN 0 ELSE @]
  /\ UNCHANGED <<open, dirs, cancelled, copyOf, copied, toClient, served, used>>

\* begin_remote_text: whatever was under way is over; the text is asked for.
OnRemoteCopyText ==
  /\ Callback /\ Message.kind = "formats" /\ Message.copy # "files" /\ Receive
  /\ st' = [st EXCEPT !.pending = 0, !.transfer = None, !.waiting = Message.copy = "text"]
  /\ dirs' = dirs \ DirsOf(st)
  /\ IF Message.copy = "text" THEN SendClipboard([kind |-> "paste", copy |-> "text"]) \/ Lost
     ELSE UNCHANGED toServer
  /\ UNCHANGED <<backend, open, events, cancelled, copyOf, copied, served, used>>

\* The flag is taken even by an answer that is an error.
OnFormatDataResponse ==
  /\ Callback /\ Message.kind = "text" /\ Receive
  /\ IF st.waiting /\ ~Message.error THEN Emit([kind |-> "text", number |-> Message.number]) ELSE UNCHANGED events
  /\ st' = [st EXCEPT !.waiting = FALSE]
  /\ UNCHANGED <<backend, open, dirs, cancelled, copyOf, copied, toServer, served, used>>

\* receive_remote_files: the id is read under the lock; the layout is checked
\* and the directory made without it.  Left out: a directory that is made and
\* cannot be protected or resolved then stays until it is stale.
ReceiveRemoteFiles ==
  /\ Callback /\ Message.kind = "list" /\ Receive
  /\ IF st.pending = 0 THEN UNCHANGED <<backend, dirs>>
     ELSE \E valid \in BOOLEAN :
          LET t == [id |-> st.pending, lock |-> Message.lock, files |-> Message.files, file |-> 1, offset |-> 0,
                    expected |-> 0, accounted |-> 0, asked |-> 0, requested |-> 0, got |-> <<>>]
          IN /\ backend' = [at |-> "install", id |-> st.pending, t |-> IF valid THEN t ELSE None]
             /\ dirs' = IF valid THEN dirs \cup {st.pending} ELSE dirs
  /\ UNCHANGED <<st, open, events, cancelled, copyOf, copied, toServer, served, used>>

\* Mutant: the transfer is installed although it was given up in between.
InstallRemoteTransferAlways ==
  /\ backend.at = "install"
  /\ LET a == IF IsTransfer(backend.t) THEN Start(backend.t, st.stream) ELSE Fail(backend.t) IN
     /\ st' = [AllocateStreamId(st) EXCEPT !.pending = 0, !.transfer = IF a.act = "request" THEN a.t ELSE @]
     /\ backend' = [at |-> "dispatch", id |-> backend.id, do |-> a]
  /\ UNCHANGED <<open, dirs, events, cancelled, copyOf, serverVars, served, used>>

\* install_remote_transfer: only if the id is still the one awaited, else the
\* transfer is dropped, and its directory with it.
InstallRemoteTransfer ==
  /\ backend.at = "install"
  /\ IF st.pending # backend.id
     THEN st' = st /\ backend' = Idle /\ dirs' = dirs \ {backend.id}
     ELSE LET s == [st EXCEPT !.pending = 0] IN
          IF ~IsTransfer(backend.t)
          THEN st' = s /\ backend' = [at |-> "dispatch", id |-> backend.id, do |-> Fail(None)] /\ UNCHANGED dirs
          ELSE LET a == Start(backend.t, s.stream) IN
               /\ st' = [AllocateStreamId(s) EXCEPT !.transfer = IF a.act = "request" THEN a.t ELSE @]
               /\ backend' = [at |-> "dispatch", id |-> backend.id, do |-> a]
               /\ UNCHANGED dirs
  /\ UNCHANGED <<open, events, cancelled, copyOf, serverVars, served, used>>

\* advance_remote_transfer: a stream id is used up by every answer.
AdvanceRemoteTransfer ==
  /\ Callback /\ Message.kind = "contents" /\ Receive
  /\ IF ~IsTransfer(st.transfer) THEN UNCHANGED <<st, backend, dirs>>
     ELSE LET a == Advance(st.transfer, Message, st.stream)
              keep == a.act \in {"request", "ignore"}
          IN /\ st' = [AllocateStreamId(st) EXCEPT !.transfer = IF keep THEN a.t ELSE None]
             /\ dirs' = IF a.act = "fail" THEN dirs \ {a.t.id} ELSE dirs
             /\ backend' = [at |-> "dispatch", id |-> st.transfer.id, do |-> a]
  /\ UNCHANGED <<open, events, cancelled, copyOf, copied, toServer, served, used>>

\* dispatch_remote_result, without the lock.
DispatchRemoteResult ==
  /\ backend.at = "dispatch" /\ backend' = Idle
  /\ CASE backend.do.act = "request" ->
            \/ SendClipboard(backend.do.request) /\ UNCHANGED <<st, dirs, events>>
            \/ /\ Lost /\ Emit(Failed(backend.id))
               /\ LET s == [st EXCEPT !.transfer = IF IsTransfer(@) /\ @.id = backend.id THEN None ELSE @] IN
                  st' = s /\ dirs' = dirs \ Dropping(st, s)
       [] backend.do.act = "ready" ->
            Emit([kind |-> "ready", id |-> backend.id, got |-> backend.do.t.got]) /\ UNCHANGED <<st, dirs, toServer>>
       [] backend.do.act = "fail" -> Emit(Failed(backend.id)) /\ UNCHANGED <<st, dirs, toServer>>
       [] OTHER -> UNCHANGED <<st, dirs, events, toServer>>
  /\ UNCHANGED <<open, cancelled, copyOf, copied, toClient, served, used>>

\* cancel_remote_locks: the server gave up the snapshot we read from.
CancelRemoteLocks ==
  /\ backend = Idle /\ IsTransfer(st.transfer) /\ st.transfer.lock # 0
  /\ st' = [st EXCEPT !.transfer = None] /\ dirs' = dirs \ {st.transfer.id}
  /\ Emit(Failed(st.transfer.id))
  /\ UNCHANGED <<backend, open, cancelled, copyOf, serverVars, served, used>>

\* A lock id that is in use is locked anew.
OnLock ==
  /\ backend = Idle /\ open
  /\ \E l \in Locks : /\ st.local.kind = "files"
                      /\ st' = [st EXCEPT !.locked = [x \in DOMAIN @ \cup {l} |-> IF x = l THEN st.local ELSE @[x]]]
  /\ UNCHANGED <<backend, open, dirs, events, cancelled, copyOf, serverVars, served, used>>

OnUnlock ==
  /\ backend = Idle
  /\ \E l \in DOMAIN st.locked : st' = [st EXCEPT !.locked = [x \in DOMAIN @ \ {l} |-> @[x]]]
  /\ UNCHANGED <<backend, open, dirs, events, cancelled, copyOf, serverVars, served, used>>

\* The list a request reads from: the snapshot of its lock, or the clipboard.
LocalEntry(s, lock) ==
  IF lock # 0 THEN (IF lock \in DOMAIN s.locked THEN s.locked[lock].id ELSE 0)
  ELSE IF s.local.kind = "files" THEN s.local.id ELSE 0

\* on_file_contents_request: answered with an error when there is no such list.
SendLocalFileResponse ==
  /\ backend = Idle /\ open
  /\ \E lock \in Locks \cup {0} :
       served' = {[lock |-> lock, want |-> IF lock \in DOMAIN st.locked THEN st.locked[lock].id ELSE 0,
                   from |-> LocalEntry(st, lock)]}
  /\ UNCHANGED <<st, backend, open, dirs, events, cancelled, copyOf, serverVars, used>>

\* on_format_data_request: the text, or an error when there is none.
SendLocalTextResponse ==
  /\ backend = Idle /\ open
  /\ LET text == IF st.local.kind = "text" THEN st.local.id ELSE 0 IN
     served' = {[lock |-> 0, want |-> text, from |-> text]}
  /\ UNCHANGED <<st, backend, open, dirs, events, cancelled, copyOf, serverVars, used>>

\* on_request_format_list: the clipboard is announced again.
OnRequestFormatList ==
  /\ backend = Idle /\ open /\ used.lists < MaxLists /\ used' = [used EXCEPT !.lists = @ + 1]
  /\ SendClipboard([kind |-> "local copy", local |-> st.local])
  /\ UNCHANGED <<st, backend, open, dirs, events, cancelled, copyOf, copied, toClient, served>>

\* build_cliprdr_backend: a new session has no part of the old one.
BuildCliprdrBackend ==
  /\ backend = Idle /\ open /\ used.reconnects < MaxReconnects
  /\ used' = [used EXCEPT !.reconnects = @ + 1]
  /\ st' = [st EXCEPT !.pending = 0, !.transfer = None, !.waiting = FALSE, !.locked = <<>>]
  /\ dirs' = dirs \ DirsOf(st)
  /\ toServer' = <<>> /\ toClient' = <<>>
  /\ UNCHANGED <<backend, open, events, cancelled, copyOf, copied, served>>
-----------------------------------------------------------------------------
(* The server *)

ServerCopies ==
  /\ open
  /\ copied < Len(Copies) /\ copied' = copied + 1
  /\ toClient' = Append(toClient, [kind |-> "formats", copy |-> Copies[copied'], number |-> copied'])
  /\ UNCHANGED <<st, backend, open, dirs, events, cancelled, copyOf, toServer, served, used>>

Answer(m) == toClient' = Append(toClient, m)
ServerFails == used.errors < MaxErrors /\ used' = [used EXCEPT !.errors = @ + 1]

\* Each request is answered from what is copied then, one after the other, except
\* that contents are read from disk and may be overtaken by what was asked later,
\* and that a text may be one that was taken up before later copies.
ServerAnswers == \E at \in DOMAIN toServer :
  /\ \A i \in 1..(at - 1) : toServer[i].kind \in {"size", "range"}
  /\ toServer' = RemoveAt(toServer, at)
  /\ LET m == toServer[at]
         copy == IF "lock" \in DOMAIN m /\ m.lock # 0 THEN m.lock ELSE copied
     IN CASE m.kind = "local copy" -> UNCHANGED <<toClient, used>>
          [] m.kind = "paste" /\ m.copy = "text" ->
               \/ \E n \in 1..copied :
                    /\ Copies[n] = "text" /\ Answer([kind |-> "text", error |-> FALSE, number |-> n])
                    /\ UNCHANGED used
               \/ Answer([kind |-> "text", error |-> TRUE, number |-> copied])
                    /\ IF Copies[copied] = "text" THEN ServerFails ELSE UNCHANGED used
          [] m.kind = "paste" /\ m.copy = "files" ->
               IF Copies[copied] # "files" THEN UNCHANGED <<toClient, used>>
               ELSE \E lock \in {0, copied}, known \in BOOLEAN :
                      /\ Answer([kind |-> "list", lock |-> lock, files |->
                                   [i \in DOMAIN Sizes[copied] |-> IF known THEN <<Sizes[copied][i]>> ELSE <<>>]])
                      /\ UNCHANGED used
          [] OTHER ->
               LET there == Copies[copy] = "files" /\ m.file \in DOMAIN Sizes[copy]
                   Contents == [kind |-> "contents", stream |-> m.stream, error |-> FALSE]
               IN \/ /\ Answer([kind |-> "contents", stream |-> m.stream, error |-> TRUE])
                     /\ IF there THEN ServerFails ELSE UNCHANGED used
                  \/ /\ there /\ m.kind = "size" /\ UNCHANGED used
                     /\ Answer([kind |-> "contents", stream |-> m.stream, error |-> FALSE, size |-> Sizes[copy][m.file]])
                  \/ /\ there /\ m.kind = "range" /\ UNCHANGED used
                     /\ \E n \in 1..m.size :
                          /\ m.position + n <= Sizes[copy][m.file]
                          /\ Answer([kind |-> "contents", stream |-> m.stream, error |-> FALSE,
                                     data |-> [i \in 1..n |-> <<copy, m.file, m.position + i>>]])
  /\ UNCHANGED <<st, backend, open, dirs, events, cancelled, copyOf, copied, served>>

Next == \/ SetLocalText \/ SetLocalFiles \/ SetLocalFilesFails \/ Shutdown \/ ClientEnds
        \/ \E id \in {RemoteId(i) : i \in 1..Len(Copies)} \cup (1..LocalSets) : CancelTransfer(id)
        \/ OnRemoteCopyFiles \/ InitiatePaste \/ OnRemoteCopyText \/ OnFormatDataResponse
        \/ ReceiveRemoteFiles \/ InstallRemoteTransfer \/ AdvanceRemoteTransfer \/ DispatchRemoteResult
        \/ CancelRemoteLocks \/ OnLock \/ OnUnlock \/ SendLocalFileResponse \/ SendLocalTextResponse \/ OnRequestFormatList \/ BuildCliprdrBackend
        \/ ServerCopies \/ ServerAnswers

Spec == Init /\ [][Next]_vars
-----------------------------------------------------------------------------
ReadyIds == {events[i].id : i \in {j \in DOMAIN events : events[j].kind = "ready"}}

\* A transfer is awaited or downloaded, never both; the directory of the one
\* that is downloaded exists; stream ids in use have been given out.
TypeOK == /\ st.pending # 0 => ~IsTransfer(st.transfer)
          /\ DirsOf(st) \subseteq dirs
          /\ IsTransfer(st.transfer) => st.transfer.asked \in 1..(st.stream - 1)
          /\ used.sets <= LocalSets /\ copied \in 0..Len(Copies)

\* Files that are announced to the host are whole: every file of one copy, the
\* one the transfer was begun for, byte for byte in order, however the answers
\* were cut, whatever was copied, cancelled or reconnected meanwhile.
ReadyIsComplete ==
  \A i \in DOMAIN events : events[i].kind = "ready" =>
    LET e == events[i]  copy == copyOf[e.id - RemoteBit] IN
    e.got = [f \in DOMAIN Sizes[copy] |-> [p \in 1..Sizes[copy][f] |-> <<copy, f, p>>]]

\* Staging directories are those of complete transfers and of the one under way:
\* nothing that failed, was replaced or was cancelled is left on the disk.
NoDirectoryIsLeft ==
  dirs = ReadyIds \cup DirsOf(st)
           \cup (IF backend.at = "install" /\ IsTransfer(backend.t) THEN {backend.id} ELSE {})
           \cup (IF backend.at = "dispatch" /\ backend.do.act = "ready" THEN {backend.id} ELSE {})

\* A transfer is announced ready at most once and not after it failed, and a
\* transfer the host cancelled in time is not announced at all.
OneOutcome ==
  /\ \A i, j \in DOMAIN events :
       (i < j /\ events[j].kind = "ready") => events[i].kind = "text" \/ events[i].id # events[j].id
  /\ ReadyIds \cap cancelled = {}

\* A text that reaches the host is newer than every copy of files the helper has
\* been told of, unless another text was copied since: however late the server
\* answers, the text asked for before the files took over is not passed on.
TextIsCurrent ==
  [][(Len(events') = Len(events) + 1 /\ events'[Len(events')].kind = "text") =>
       \A i \in DOMAIN copyOf : \/ copyOf[i] < events'[Len(events')].number
                               \/ \E k \in (copyOf[i] + 1)..copied : Copies[k] = "text"]_vars

\* What the server reads under a lock comes from the list that was locked,
\* though the host has since put something else on its clipboard.
LocksHold == \A r \in served : r.lock # 0 => r.from = r.want

\* Transfers are whole, of one copy, announced once and leave nothing behind, and
\* what is served under a lock is what was locked.
TransfersAreSound == TypeOK /\ ReadyIsComplete /\ NoDirectoryIsLeft /\ OneOutcome /\ LocksHold
=============================================================================
