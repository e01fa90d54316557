------------------------- MODULE RdpClipboardProofs -------------------------
(***************************************************************************)
(* The clipboard of the RDP helper, for any sequence of copies of any      *)
(* files: what is announced to the host is whole, of one copy, announced   *)
(* once and leaves nothing behind, and a text gives way to later files.    *)
(*                                                                         *)
(* The invariant has four layers, each inductive relative to the ones      *)
(* before it: the shapes of state and messages and the ids in use; the     *)
(* order of announcements on the channel; the bytes of a download and of   *)
(* the answers under way to it; outcomes and staging directories.          *)
(***************************************************************************)
EXTENDS RdpClipboard, TLAPS

----------------------------------------------------------------------------
(* Shapes *)

Content == Seq(Nat \X Nat \X Nat)
LockIds == 0 .. Len(Copies)
TransferSet ==
    [id : Nat, lock : LockIds, files : Seq(Seq(Nat)), file : Nat, offset : Nat, expected : Nat,
     accounted : Nat, asked : Nat, requested : Nat, got : Seq(Content)]
Requests == [kind : {"size", "range"}, stream : Nat, file : Nat, position : Nat, size : Nat, lock : LockIds]

Formats == [kind : {"formats"}, copy : {"text", "files", "other"}, number : 1 .. Len(Copies)]
TextAnswers == [kind : {"text"}, error : BOOLEAN, number : Nat]
Lists == [kind : {"list"}, lock : LockIds, files : Seq(Seq(Nat))]
Failures == [kind : {"contents"}, stream : Nat, error : {TRUE}]
SizeAnswers == [kind : {"contents"}, stream : Nat, error : {FALSE}, size : Nat]
RangeAnswers == [kind : {"contents"}, stream : Nat, error : {FALSE}, data : Content]
Contents == Failures \cup SizeAnswers \cup RangeAnswers
ToClient == Formats \cup TextAnswers \cup Lists \cup Contents

FileLists == [kind : {"files"}, id : 1 .. LocalSets]
LocalSet == {None} \cup [kind : {"text"}, id : 1 .. LocalSets] \cup FileLists
Announcements == [kind : {"local copy"}, local : LocalSet]
Pastes == [kind : {"paste"}, copy : {"text", "files"}]
ToServer == Announcements \cup Pastes \cup Requests

LockTables == UNION {[D -> FileLists] : D \in SUBSET Locks}
States == [local : LocalSet, locked : LockTables, pending : Nat, transfer : {None} \cup TransferSet,
           waiting : BOOLEAN, sequence : Nat, stream : Nat]

Wants == [act : {"request"}, t : TransferSet, request : Requests]
Endings == [act : {"ready", "ignore"}, t : TransferSet]
Fails == [act : {"fail"}, t : {None} \cup TransferSet]
Pasting == [at : {"paste"}, id : Nat]
Installing == [at : {"install"}, id : Nat, t : {None} \cup TransferSet]
Dispatching == [at : {"dispatch"}, id : Nat, do : Wants \cup Endings \cup Fails]

TextEvents == [kind : {"text"}, number : Nat]
FailedEvents == [kind : {"failed"}, id : Nat]
ReadyEvents == [kind : {"ready"}, id : Nat, got : Seq(Content)]

Shapes ==
    /\ st \in States
    /\ backend \in {Idle} \cup Pasting \cup Installing \cup Dispatching
    /\ open \in BOOLEAN
    /\ events \in Seq(TextEvents \cup FailedEvents \cup ReadyEvents)
    /\ copied \in 0 .. Len(Copies)
    /\ copyOf \in Seq(1 .. Len(Copies))
    /\ used \in [sets : 0 .. LocalSets, reconnects : Nat, errors : Nat, lists : Nat, shutdown : BOOLEAN]

\* The transfer that was reserved last, and the copy it is for.
Current == RemoteBit + Len(copyOf)
CurrentCopy == copyOf[Len(copyOf)]

\* Only the transfer reserved last is awaited, downloaded or dealt with.
OneTransfer ==
    /\ st.sequence = Len(copyOf) + 1
    /\ st.pending # 0 => st.pending = Current /\ copyOf # <<>> /\ ~IsTransfer(st.transfer)
    /\ IsTransfer(st.transfer) => st.transfer.id = Current /\ copyOf # <<>>
    /\ backend # Idle => backend.id = Current /\ copyOf # <<>>
    /\ backend.at \in {"paste", "install"} => ~IsTransfer(st.transfer)
    /\ backend.at = "dispatch" =>
         /\ st.pending = 0
         /\ backend.do.act \in {"ready", "fail"} => ~IsTransfer(st.transfer)
    /\ backend.at = "install" /\ IsTransfer(backend.t) => backend.t.id = Current

\* The stream id a transfer waits for has been given out.
StreamsGivenOut ==
    /\ st.stream >= 1
    /\ IsTransfer(st.transfer) => st.transfer.asked \in 1 .. st.stream - 1
    /\ backend.at = "dispatch" /\ backend.do.act = "request" => backend.do.request.stream < st.stream

\* Messages under way carry stream ids below n, and but for announcements of the
\* host's clipboard there are none before the server has copied something (c).
ServerQueue(q, n, c) ==
    /\ q \in Seq(ToServer)
    /\ \A i \in DOMAIN q : /\ q[i].kind \in {"size", "range"} => q[i].stream < n
                           /\ q[i].kind # "local copy" => c >= 1
ClientQueue(q, n, c) ==
    /\ q \in Seq(ToClient)
    /\ \A i \in DOMAIN q : (q[i].kind = "contents" => q[i].stream < n) /\ c >= 1

Queues ==
    /\ copyOf # <<>> => copied >= 1
    /\ ServerQueue(toServer, st.stream, copied)
    /\ ClientQueue(toClient, st.stream, copied)

ShapeInv == Shapes /\ OneTransfer /\ StreamsGivenOut /\ Queues
----------------------------------------------------------------------------
(* The channel from the server *)

IsFormats(i) == toClient[i].kind = "formats"
IsNumbered(m) == m.kind = "formats"

\* Announcements arrive in the order of the copies they are of, and none is
\* older than what a transfer was reserved for.
InOrder ==
    /\ \A i, j \in DOMAIN toClient :
        i < j /\ IsNumbered(toClient[i]) /\ IsNumbered(toClient[j]) => toClient[i].number <= toClient[j].number
    /\ \A i \in DOMAIN toClient : IsNumbered(toClient[i]) =>
        /\ toClient[i].number <= copied
        /\ \A c \in DOMAIN copyOf : copyOf[c] <= toClient[i].number
    /\ \A c \in DOMAIN copyOf : copyOf[c] <= copied /\ Copies[copyOf[c]] = "files"
    /\ \A i \in DOMAIN toClient : IsFormats(i) => toClient[i].copy = Copies[toClient[i].number]

\* The last announcement under way is of what is copied now.
LastIsNewest ==
    \A i \in DOMAIN toClient : IsFormats(i) =>
        toClient[i].number = copied \/ \E j \in DOMAIN toClient : i < j /\ IsFormats(j)

\* A list of files is of the copy numbered k.
ListOf(m, k) == m.lock \in {0, k} /\ Len(m.files) = Len(Sizes[k])

\* A list is of the copy announced last before it.
ListsFollow ==
    \A i, j \in DOMAIN toClient :
        (i < j /\ IsFormats(i) /\ toClient[j].kind = "list" /\ \A l \in (i + 1) .. (j - 1) : ~IsFormats(l))
            => ListOf(toClient[j], toClient[i].number)

ChannelInv == InOrder /\ LastIsNewest /\ ListsFollow
----------------------------------------------------------------------------
(* The bytes of a download *)

\* The first n bytes of file f of copy k, n bytes after o, the first n files, and the first n - 1
\* files with o bytes of the n-th.
Bytes(k, f, n) == [p \in 1 .. n |-> <<k, f, p>>]
Piece(k, f, o, n) == [i \in 1 .. n |-> <<k, f, o + i>>]
Whole(k, n) == [f \in 1 .. n |-> Bytes(k, f, Sizes[k][f])]
Partial(k, n, o) == [f \in 1 .. n |-> IF f < n THEN Bytes(k, f, Sizes[k][f]) ELSE Bytes(k, f, o)]
AllFiles(k) == Whole(k, Len(Sizes[k]))

\* What a transfer of copy k has so far: it waits for the size of a file, or for
\* a range of it.
Holds(t, k) ==
    /\ t.lock \in {0, k}
    /\ Len(t.files) = Len(Sizes[k])
    /\ t.file \in 1 .. Len(Sizes[k])
    /\ IF t.requested = 0 THEN t.offset = 0 /\ t.got = Whole(k, t.file - 1)
       ELSE /\ t.expected = Sizes[k][t.file] /\ t.offset < t.expected
            /\ t.got = Partial(k, t.file, t.offset)

\* A transfer that has not begun.
Blank(t, k) ==
    /\ t.lock \in {0, k} /\ Len(t.files) = Len(Sizes[k])
    /\ t.file = 1 /\ t.offset = 0 /\ t.requested = 0 /\ t.got = <<>>

\* The request that a transfer has made, and an answer to it.
Asked(t) == Request(t, IF t.requested = 0 THEN "size" ELSE "range", t.requested)
Answers(m, t, k) ==
    \/ m.error
    \/ t.requested = 0 /\ "size" \in DOMAIN m /\ m.size = Sizes[k][t.file]
    \/ /\ t.requested # 0 /\ "data" \in DOMAIN m
       /\ \E n \in 1 .. Sizes[k][t.file] : /\ t.offset + n <= Sizes[k][t.file]
                               /\ m.data = Piece(k, t.file, t.offset, n)

\* No announcement arrives before message i.
Ahead(i) == \A j \in 1 .. i - 1 : ~IsFormats(j)

\* A download holds what its copy holds.
DownloadHolds == IsTransfer(st.transfer) => Holds(st.transfer, CurrentCopy)

\* What the callback in progress is to install or to announce.
CallbackHolds ==
    /\ backend.at = "install" /\ IsTransfer(backend.t) => Blank(backend.t, CurrentCopy)
    /\ backend.at = "dispatch" /\ backend.do.act = "ready" => backend.do.t.got = AllFiles(CurrentCopy)

\* Unless an announcement is under way, the copy in force is the server's.
InForce ==
    st.pending # 0 \/ IsTransfer(st.transfer) =>
        copied = CurrentCopy \/ \E i \in DOMAIN toClient : IsFormats(i)

\* A request under way to the server is the one its transfer has made.
RequestsMatch ==
    IsTransfer(st.transfer) =>
        /\ \A i \in DOMAIN toServer :
            toServer[i].kind \in {"size", "range"} /\ toServer[i].stream = st.transfer.asked
                => toServer[i] = Asked(st.transfer)
        /\ backend.at = "dispatch" /\ backend.do.act = "request" /\ backend.do.request.stream = st.transfer.asked
                => backend.do.request = Asked(st.transfer)

\* An answer that no announcement comes before is of the copy in force.
AnswersMatch ==
    \A i \in DOMAIN toClient : Ahead(i) =>
        /\ st.pending # 0 /\ toClient[i].kind = "list" => ListOf(toClient[i], CurrentCopy)
        /\ IsTransfer(st.transfer) /\ toClient[i].kind = "contents" /\ toClient[i].stream = st.transfer.asked
             => Answers(toClient[i], st.transfer, CurrentCopy)

\* What was announced is whole.
ReadyIsWhole ==
    \A i \in DOMAIN events : events[i].kind = "ready" =>
        /\ events[i].id - RemoteBit \in DOMAIN copyOf
        /\ events[i].got = AllFiles(copyOf[events[i].id - RemoteBit])

DataInv == /\ DownloadHolds /\ CallbackHolds /\ InForce /\ RequestsMatch /\ AnswersMatch /\ ReadyIsWhole
----------------------------------------------------------------------------
(* Outcomes and directories *)

\* Nothing is told of a transfer before its end, and nothing is left of it then.
ToldAtTheEnd ==
    \A i \in DOMAIN events : events[i].kind # "text" =>
        /\ events[i].id <= Current
        /\ events[i].id = Current => st.pending = 0 /\ ~IsTransfer(st.transfer) /\ backend = Idle

\* A transfer that is cancelled is given up.
CancelledIsOver ==
    \A id \in cancelled :
        /\ id \in Nat /\ id <= Current
        /\ id = Current => /\ st.pending = 0 /\ ~IsTransfer(st.transfer)
                           /\ ~(backend.at = "dispatch" /\ backend.do.act = "ready")

\* A text is waited for: one was copied after all the files a transfer was begun for.
TextFollows == \A i \in DOMAIN copyOf : \E k \in (copyOf[i] + 1) .. copied : Copies[k] = "text"
WaitsForText == st.waiting => TextFollows

OutcomeInv == ToldAtTheEnd /\ CancelledIsOver /\ OneOutcome /\ NoDirectoryIsLeft /\ LocksHold

ClipInv == ShapeInv /\ ChannelInv /\ DataInv /\ OutcomeInv /\ WaitsForText
----------------------------------------------------------------------------
(* The shapes that the steps of a download keep *)

\* What one step makes of transfer t, with s the stream id it may use.
Stepped(a, t, s) ==
    /\ a \in Wants \cup Endings \cup Fails
    /\ a.t \in TransferSet /\ a.t.id = t.id
    /\ a.act = "request" => a.t.asked = s /\ a.request = Asked(a.t)
    /\ a.act = "ignore" => a.t = t

\* A transfer is told from no transfer.
LEMMA TransferIsOne ==
    ASSUME NEW t \in TransferSet
    PROVE  IsTransfer(t)
<1>1. "id" \in DOMAIN t
  BY DEF TransferSet
<1>2. "id" \notin DOMAIN None
  BY DEF None
<1>. QED
  BY <1>1, <1>2 DEF IsTransfer

\* Asking for more keeps the transfer.
LEMMA WantingShape ==
    ASSUME NEW t \in TransferSet, NEW s \in Nat, NEW u \in TransferSet, u.id = t.id, u.asked = s
    PROVE  Stepped(Wanting(u), t, s)
<1>1. Asked(u) \in Requests
  BY DEF TransferSet, Asked, Request, Requests
<1>2. Wanting(u) = [act |-> "request", t |-> u, request |-> Asked(u)]
  BY DEF Wanting, Asked
<1>. QED
  BY <1>1, <1>2 DEF Stepped, Wants

\* The end of a file.
LEMMA FinishFileShape ==
    ASSUME NEW t \in TransferSet, NEW s \in Nat, NEW u \in TransferSet, u.id = t.id
    PROVE  Stepped(FinishFile(u, s), t, s)
<1>. DEFINE done == [u EXCEPT !.file = @ + 1, !.offset = 0, !.expected = 0]
<1>0. u.file + 1 \in Nat
  BY SMTT(30) DEF TransferSet
<1>1. done \in TransferSet /\ done.id = t.id
  <2>1. done \in TransferSet
    BY <1>0 DEF TransferSet
  <2>2. done.id = u.id
    BY DEF TransferSet
  <2>. QED
    BY <2>1, <2>2
<1>2. CASE done.file > Len(u.files)
  BY <1>1, <1>2 DEF FinishFile, Complete, Stepped, Endings
<1>3. CASE ~(done.file > Len(u.files))
  <2>1. RequestSize(done, s) \in TransferSet /\ RequestSize(done, s).id = t.id /\ RequestSize(done, s).asked = s
    BY <1>1 DEF RequestSize, TransferSet
  <2>. QED
    BY <1>3, <2>1, WantingShape DEF FinishFile
<1>. QED
  BY <1>2, <1>3

\* A range is asked for.
LEMMA RequestRangeShape ==
    ASSUME NEW t \in TransferSet, NEW s \in Nat, t.offset <= t.expected
    PROVE  /\ RequestRange(t, s) \in TransferSet
           /\ RequestRange(t, s).id = t.id
           /\ RequestRange(t, s).asked = s
<1>. DEFINE n == IF t.expected - t.offset < Chunk THEN t.expected - t.offset ELSE Chunk
<1>1. n \in Nat
  BY ClipboardAssumption DEF TransferSet
<1>2. RequestRange(t, s) = [t EXCEPT !.asked = s, !.requested = n]
  BY DEF RequestRange
<1>. HIDE DEF n
<1>3. [t EXCEPT !.asked = s, !.requested = n] \in TransferSet
  BY <1>1 DEF TransferSet
<1>4. [t EXCEPT !.asked = s, !.requested = n].id = t.id /\ [t EXCEPT !.asked = s, !.requested = n].asked = s
  BY DEF TransferSet
<1>. QED
  BY <1>2, <1>3, <1>4

\* The first request, or a list of no files.
LEMMA StartShape ==
    ASSUME NEW t \in TransferSet, NEW s \in Nat
    PROVE  Stepped(Start(t, s), t, s)
<1>1. CASE t.files = <<>>
  BY <1>1 DEF Start, Complete, Stepped, Endings
<1>2. CASE t.files # <<>>
  <2>1. RequestSize(t, s) \in TransferSet /\ RequestSize(t, s).id = t.id /\ RequestSize(t, s).asked = s
    BY DEF RequestSize, TransferSet
  <2>. QED
    BY <1>2, <2>1, WantingShape DEF Start
<1>. QED
  BY <1>1, <1>2

\* Giving up, or passing over an answer.
LEMMA FailShape ==
    ASSUME NEW t \in TransferSet, NEW s \in Nat
    PROVE  Stepped(Fail(t), t, s) /\ Stepped(Ignore(t), t, s)
BY DEF Stepped, Fail, Ignore, Fails, Endings

\* A file is opened.
Opened(t, size) == [t EXCEPT !.accounted = @ + size, !.expected = size, !.offset = 0, !.got = Append(@, <<>>)]

\* A piece is written.
Written(t, data) == [t EXCEPT !.offset = @ + Len(data), !.got[t.file] = @ \o data]

\* A size.
LEMMA AcceptSizeShape ==
    ASSUME NEW t \in TransferSet, NEW s \in Nat, NEW size \in Nat
    PROVE  Stepped(AcceptSize(t, size, s), t, s)
<1>1. CASE t.files[t.file] \notin {<<>>, <<size>>} \/ ~AccountSize(t, size)
  BY <1>1, FailShape DEF AcceptSize
<1>2. CASE ~(t.files[t.file] \notin {<<>>, <<size>>} \/ ~AccountSize(t, size))
  <2>1. Opened(t, size) \in TransferSet /\ Opened(t, size).id = t.id
        /\ Opened(t, size).offset <= Opened(t, size).expected
    <3>1. <<>> \in Content
      BY DEF Content
    <3>2. Append(t.got, <<>>) \in Seq(Content)
      BY <3>1 DEF TransferSet
    <3>3. t.accounted + size \in Nat
      BY DEF TransferSet
    <3>4. Opened(t, size) \in TransferSet
      BY <3>2, <3>3 DEF Opened, TransferSet
    <3>5. Opened(t, size).id = t.id /\ Opened(t, size).offset = 0 /\ Opened(t, size).expected = size
      BY DEF Opened, TransferSet
    <3>. QED
      BY <3>4, <3>5
  <2>2. AcceptSize(t, size, s) = IF size = 0 THEN FinishFile(Opened(t, size), s)
                                 ELSE Wanting(RequestRange(Opened(t, size), s))
    BY <1>2 DEF AcceptSize, Opened
  <2>3. CASE size = 0
    BY <2>1, <2>2, <2>3, FinishFileShape
  <2>4. CASE size # 0
    BY <2>1, <2>2, <2>4, RequestRangeShape, WantingShape
  <2>. QED
    BY <2>3, <2>4
<1>. QED
  BY <1>1, <1>2

\* A piece is written.
LEMMA WrittenShape ==
    ASSUME NEW t \in TransferSet, NEW data \in Content
    PROVE  /\ Written(t, data) \in TransferSet /\ Written(t, data).id = t.id
           /\ t.offset + Len(data) <= t.expected => Written(t, data).offset <= Written(t, data).expected
           /\ t.offset + Len(data) > t.expected \/ t.offset + Len(data) <= t.expected
<1>1. [t.got EXCEPT ![t.file] = @ \o data] \in Seq(Content)
  <2>1. t.got \in Seq(Content)
    BY DEF TransferSet
  <2>2. t.file \in DOMAIN t.got => t.got[t.file] \o data \in Content
    BY <2>1 DEF Content
  <2>. DEFINE g == [t.got EXCEPT ![t.file] = @ \o data]
  <2>3. DOMAIN g = 1 .. Len(t.got) /\ Len(t.got) \in Nat
    BY <2>1
  <2>4. \A f \in 1 .. Len(t.got) : g[f] \in Content
    BY <2>1, <2>2
  <2>5. g \in [1 .. Len(t.got) -> Content]
    <3>1. g = [f \in DOMAIN t.got |-> g[f]]
      BY DEF g
    <3>. QED
      BY <2>3, <2>4, <3>1, Zenon
  <2>. HIDE DEF g
  <2>6. g \in Seq(Content)
    BY <2>3, <2>5
  <2>. QED
    BY <2>6 DEF g
<1>2. Written(t, data) = [t EXCEPT !.offset = @ + Len(data), !.got = [t.got EXCEPT ![t.file] = @ \o data]]
  BY DEF Written
<1>3. Len(data) \in Nat
  BY DEF Content
<1>4. t.offset + Len(data) \in Nat
  BY <1>3 DEF TransferSet
<1>5. Written(t, data) \in TransferSet
  BY <1>1, <1>2, <1>4 DEF TransferSet
<1>6. /\ Written(t, data).id = t.id
      /\ Written(t, data).offset = t.offset + Len(data)
      /\ Written(t, data).expected = t.expected
  BY <1>2 DEF TransferSet
<1>7. t.expected \in Nat
  BY DEF TransferSet
<1>. QED
  BY <1>4, <1>5, <1>6, <1>7

\* A range.
LEMMA AcceptRangeShape ==
    ASSUME NEW t \in TransferSet, NEW s \in Nat, NEW data \in Content
    PROVE  Stepped(AcceptRange(t, data, s), t, s)
<1>1. CASE data = <<>> \/ Len(data) > t.requested \/ t.offset + Len(data) > t.expected
  BY <1>1, FailShape DEF AcceptRange
<1>2. CASE ~(data = <<>> \/ Len(data) > t.requested \/ t.offset + Len(data) > t.expected)
  <2>1. Written(t, data) \in TransferSet /\ Written(t, data).id = t.id
        /\ Written(t, data).offset <= Written(t, data).expected
    BY <1>2, WrittenShape
  <2>2. AcceptRange(t, data, s) = IF Written(t, data).offset = t.expected THEN FinishFile(Written(t, data), s)
                                  ELSE Wanting(RequestRange(Written(t, data), s))
    BY <1>2 DEF AcceptRange, Written
  <2>3. CASE Written(t, data).offset = t.expected
    BY <2>1, <2>2, <2>3, FinishFileShape
  <2>4. CASE Written(t, data).offset # t.expected
    BY <2>1, <2>2, <2>4, RequestRangeShape, WantingShape
  <2>. QED
    BY <2>3, <2>4
<1>. QED
  BY <1>1, <1>2

\* An answer has a size, or data, or neither.
LEMMA AnswerFields ==
    ASSUME NEW r \in Contents
    PROVE  /\ "size" \in DOMAIN r => r.size \in Nat
           /\ "data" \in DOMAIN r => r.data \in Content
           /\ r.error \in BOOLEAN /\ r.stream \in Nat
<1>1. CASE r \in Failures
  <2>1. DOMAIN r = {"kind", "stream", "error"}
    BY <1>1 DEF Failures
  <2>2. r.error \in BOOLEAN /\ r.stream \in Nat
    BY <1>1 DEF Failures
  <2>. QED
    BY <2>1, <2>2
<1>2. CASE r \in SizeAnswers
  <2>1. DOMAIN r = {"kind", "stream", "error", "size"}
    BY <1>2 DEF SizeAnswers
  <2>2. r.error \in BOOLEAN /\ r.stream \in Nat /\ r.size \in Nat
    BY <1>2 DEF SizeAnswers
  <2>. QED
    BY <2>1, <2>2
<1>3. CASE r \in RangeAnswers
  <2>1. DOMAIN r = {"kind", "stream", "error", "data"}
    BY <1>3 DEF RangeAnswers
  <2>2. r.error \in BOOLEAN /\ r.stream \in Nat /\ r.data \in Content
    BY <1>3 DEF RangeAnswers
  <2>. QED
    BY <2>1, <2>2
<1>. QED
  BY <1>1, <1>2, <1>3 DEF Contents

\* Any answer.
LEMMA AdvanceShape ==
    ASSUME NEW t \in TransferSet, NEW s \in Nat, NEW r \in Contents, t.asked # 0
    PROVE  Stepped(Advance(t, r, s), t, s)
<1>1. CASE r.stream # t.asked
  <2>1. Advance(t, r, s) = Ignore(t)
    BY <1>1 DEF Advance
  <2>. QED
    BY <2>1, FailShape
<1>2. CASE r.stream = t.asked /\ r.error
  <2>1. Advance(t, r, s) = Fail(t)
    BY <1>2 DEF Advance
  <2>. QED
    BY <2>1, FailShape
<1>3. CASE r.stream = t.asked /\ ~r.error
  <2>1. Advance(t, r, s) =
          IF t.requested = 0 THEN IF "size" \in DOMAIN r THEN AcceptSize(t, r.size, s) ELSE Fail(t)
          ELSE IF "data" \in DOMAIN r THEN AcceptRange(t, r.data, s) ELSE Fail(t)
    BY <1>3 DEF Advance
  <2>2. "size" \in DOMAIN r => r.size \in Nat
    BY AnswerFields
  <2>3. "data" \in DOMAIN r => r.data \in Content
    BY AnswerFields
  <2>. QED
    BY <2>1, <2>2, <2>3, FailShape, AcceptSizeShape, AcceptRangeShape
<1>. QED
  BY <1>1, <1>2, <1>3

\* Adding a message to a sequence, and taking one from its front.
LEMMA AppendElements ==
    ASSUME NEW S, NEW s \in Seq(S), NEW m \in S
    PROVE  /\ Append(s, m) \in Seq(S) /\ Len(Append(s, m)) = Len(s) + 1 /\ Len(s) \in Nat
           /\ \A i \in DOMAIN Append(s, m) : (i \in DOMAIN s /\ Append(s, m)[i] = s[i]) \/ Append(s, m)[i] = m
           /\ \A i \in DOMAIN s : i \in DOMAIN Append(s, m) /\ Append(s, m)[i] = s[i]
           /\ Append(s, m)[Len(s) + 1] = m
           /\ DOMAIN Append(s, m) = 1 .. Len(s) + 1 /\ DOMAIN s = 1 .. Len(s)
OBVIOUS

LEMMA TailElements ==
    ASSUME NEW S, NEW s \in Seq(S), s # <<>>
    PROVE  /\ Tail(s) \in Seq(S) /\ Head(s) \in S /\ Head(s) = s[1] /\ 1 \in DOMAIN s
           /\ \A i \in DOMAIN Tail(s) : i + 1 \in DOMAIN s /\ Tail(s)[i] = s[i + 1]
           /\ \A i \in DOMAIN s : i > 1 => i - 1 \in DOMAIN Tail(s) /\ Tail(s)[i - 1] = s[i]
OBVIOUS

\* Taking a message out of a sequence.
LEMMA RemoveAtElements ==
    ASSUME NEW S, NEW s \in Seq(S), NEW at \in DOMAIN s
    PROVE  /\ RemoveAt(s, at) \in Seq(S)
           /\ \A i \in DOMAIN RemoveAt(s, at) : \E j \in DOMAIN s : RemoveAt(s, at)[i] = s[j]
<1>. DEFINE a == SubSeq(s, 1, at - 1)
            b == SubSeq(s, at + 1, Len(s))
<1>1. at \in 1 .. Len(s) /\ Len(s) \in Nat
  OBVIOUS
<1>2. a \in Seq(S) /\ Len(a) = at - 1 /\ \A i \in 1 .. at - 1 : a[i] = s[i]
  BY <1>1
<1>3. b \in Seq(S) /\ Len(b) = Len(s) - at /\ \A i \in 1 .. Len(s) - at : b[i] = s[at + i]
  BY <1>1
<1>4. RemoveAt(s, at) = a \o b
  BY DEF RemoveAt
<1>. HIDE DEF a, b
<1>5. a \o b \in Seq(S) /\ Len(a \o b) = Len(s) - 1
  BY <1>1, <1>2, <1>3
<1>6. ASSUME NEW i \in 1 .. Len(s) - 1
      PROVE  \E j \in DOMAIN s : (a \o b)[i] = s[j]
  <2>1. CASE i <= at - 1
    <3>1. (a \o b)[i] = s[i] /\ i \in DOMAIN s
      BY <1>1, <1>2, <1>3, <2>1
    <3>. QED
      BY <3>1
  <2>2. CASE i > at - 1
    <3>0. Len(a) + Len(b) = Len(s) - 1 /\ i \in Len(a) + 1 .. Len(a) + Len(b)
      BY SMTT(30), <1>1, <1>2, <1>3, <2>2
    <3>1. (a \o b)[i] = b[i - (at - 1)]
      <4>0. a \in Seq(S) /\ b \in Seq(S)
        BY <1>2, <1>3
      <4>1. \A x \in 1 .. Len(a) + Len(b) : (a \o b)[x] = IF x <= Len(a) THEN a[x] ELSE b[x - Len(a)]
        BY <4>0
      <4>2. Len(a) \in Nat /\ Len(b) \in Nat
        BY <4>0
      <4>3. i \in 1 .. Len(a) + Len(b) /\ ~(i <= Len(a))
        BY <3>0, <4>2
      <4>. QED
        BY <4>1, <4>3, <1>2
    <3>2. b[i - (at - 1)] = s[at + (i - (at - 1))]
      BY <1>1, <1>3, <2>2
    <3>3. at + (i - (at - 1)) \in DOMAIN s
      BY <1>1, <2>2
    <3>. QED
      BY <3>1, <3>2, <3>3
  <2>3. i \in Int /\ at \in Int
    BY <1>1
  <2>4. i <= at - 1 \/ i > at - 1
    BY <2>3
  <2>. QED
    BY <2>1, <2>2, <2>4, Zenon
<1>7. DOMAIN (a \o b) = 1 .. Len(s) - 1
  BY <1>5
<1>. QED
  BY <1>4, <1>5, <1>6, <1>7
----------------------------------------------------------------------------
(* The first layer: shapes and ids *)

\* More stream ids, and more copies, do no harm.
LEMMA QueuesGrow ==
    ASSUME NEW q, NEW n \in Nat, NEW c \in Nat, NEW n2 \in Nat, NEW c2 \in Nat, n <= n2, c <= c2
    PROVE  /\ ServerQueue(q, n, c) => ServerQueue(q, n2, c2)
           /\ ClientQueue(q, n, c) => ClientQueue(q, n2, c2)
<1>1. ASSUME ServerQueue(q, n, c) PROVE ServerQueue(q, n2, c2)
  <2>1. ASSUME NEW i \in DOMAIN q, q[i].kind \in {"size", "range"} PROVE q[i].stream < n2
    <3>a. q \in Seq(ToServer)
      BY <1>1 DEF ServerQueue
    <3>0. q[i] \in ToServer
      BY <3>a, <2>1
    <3>1. q[i] \in Requests
      BY <2>1, <3>0 DEF ToServer, Announcements, Pastes
    <3>2. q[i].stream \in Nat
      BY <3>1 DEF Requests
    <3>3. q[i].stream < n
      BY <1>1, <2>1 DEF ServerQueue
    <3>. QED
      BY <3>2, <3>3
  <2>2. c >= 1 => c2 >= 1
    OBVIOUS
  <2>. QED
    BY <1>1, <2>1, <2>2 DEF ServerQueue
<1>2. ASSUME ClientQueue(q, n, c) PROVE ClientQueue(q, n2, c2)
  <2>1. ASSUME NEW i \in DOMAIN q, q[i].kind = "contents" PROVE q[i].stream < n2
    <3>1. q[i] \in Contents
      BY <1>2, <2>1 DEF ClientQueue, ToClient, Formats, TextAnswers, Lists
    <3>2. q[i].stream \in Nat
      BY <3>1, AnswerFields
    <3>3. q[i].stream < n
      BY <1>2, <2>1 DEF ClientQueue
    <3>. QED
      BY <3>2, <3>3
  <2>2. c >= 1 => c2 >= 1
    OBVIOUS
  <2>. QED
    BY <1>2, <2>1, <2>2 DEF ClientQueue
<1>. QED
  BY <1>1, <1>2

\* Messages are sent.
LEMMA QueuesAppend ==
    ASSUME NEW q, NEW n, NEW c
    PROVE  /\ \A m \in ToServer :
                /\ ServerQueue(q, n, c)
                /\ m.kind \in {"size", "range"} => m.stream < n
                /\ m.kind # "local copy" => c >= 1
                => ServerQueue(Append(q, m), n, c)
           /\ \A m \in ToClient :
                ClientQueue(q, n, c) /\ (m.kind = "contents" => m.stream < n) /\ c >= 1
                => ClientQueue(Append(q, m), n, c)
<1>1. ASSUME NEW m \in ToServer, ServerQueue(q, n, c), m.kind \in {"size", "range"} => m.stream < n,
             m.kind # "local copy" => c >= 1
      PROVE  ServerQueue(Append(q, m), n, c)
  <2>1. q \in Seq(ToServer)
    BY <1>1 DEF ServerQueue
  <2>2. Append(q, m) \in Seq(ToServer)
    BY <2>1, AppendElements, Zenon
  <2>3. \A i \in DOMAIN Append(q, m) : (i \in DOMAIN q /\ Append(q, m)[i] = q[i]) \/ Append(q, m)[i] = m
    BY <2>1, AppendElements
  <2>. QED
    BY <1>1, <2>2, <2>3 DEF ServerQueue
<1>2. ASSUME NEW m \in ToClient, ClientQueue(q, n, c), m.kind = "contents" => m.stream < n, c >= 1
      PROVE  ClientQueue(Append(q, m), n, c)
  <2>1. q \in Seq(ToClient)
    BY <1>2 DEF ClientQueue
  <2>2. Append(q, m) \in Seq(ToClient)
    BY <2>1, AppendElements, Zenon
  <2>3. \A i \in DOMAIN Append(q, m) : (i \in DOMAIN q /\ Append(q, m)[i] = q[i]) \/ Append(q, m)[i] = m
    BY <2>1, AppendElements
  <2>. QED
    BY <1>2, <2>2, <2>3 DEF ClientQueue
<1>. QED
  BY <1>1, <1>2

\* Messages are received, or lost with the session.
LEMMA QueuesTake ==
    ASSUME NEW q, NEW n, NEW c
    PROVE  /\ ClientQueue(q, n, c) /\ q # <<>> =>
                ClientQueue(Tail(q), n, c) /\ Head(q) \in ToClient /\ c >= 1
                /\ (Head(q).kind = "contents" => Head(q).stream < n)
           /\ \A at \in DOMAIN q : ServerQueue(q, n, c) => ServerQueue(RemoveAt(q, at), n, c)
           /\ ServerQueue(<<>>, n, c) /\ ClientQueue(<<>>, n, c)
<1>1. ASSUME ClientQueue(q, n, c), q # <<>>
      PROVE  ClientQueue(Tail(q), n, c) /\ Head(q) \in ToClient /\ c >= 1
             /\ (Head(q).kind = "contents" => Head(q).stream < n)
  <2>1. q \in Seq(ToClient)
    BY <1>1 DEF ClientQueue
  <2>2. Tail(q) \in Seq(ToClient) /\ \A i \in DOMAIN Tail(q) : i + 1 \in DOMAIN q /\ Tail(q)[i] = q[i + 1]
    BY <2>1, <1>1
  <2>3. Head(q) = q[1] /\ 1 \in DOMAIN q /\ Head(q) \in ToClient
    BY <2>1, <1>1
  <2>. QED
    BY <1>1, <2>2, <2>3 DEF ClientQueue
<1>2. ASSUME NEW at \in DOMAIN q, ServerQueue(q, n, c)
      PROVE  ServerQueue(RemoveAt(q, at), n, c)
  <2>1. q \in Seq(ToServer)
    BY <1>2 DEF ServerQueue
  <2>2. /\ RemoveAt(q, at) \in Seq(ToServer)
        /\ \A i \in DOMAIN RemoveAt(q, at) : \E j \in DOMAIN q : RemoveAt(q, at)[i] = q[j]
    BY <2>1, <1>2, RemoveAtElements
  <2>. QED
    BY <1>2, <2>2 DEF ServerQueue
<1>3. ServerQueue(<<>>, n, c) /\ ClientQueue(<<>>, n, c)
  BY DEF ServerQueue, ClientQueue
<1>. QED
  BY <1>1, <1>2, <1>3

\* A step that begins no transfer, and may give up the one there is.
GivesUp ==
    /\ st' \in States
    /\ st'.pending \in {0, st.pending} /\ st'.transfer \in {None, st.transfer}
    /\ st'.sequence = st.sequence /\ st'.stream = st.stream

\* The initial state.
LEMMA ShapeInit == Init => ShapeInv
<1>. SUFFICES ASSUME Init PROVE ShapeInv
  OBVIOUS
<1>. USE ClipboardAssumption DEF Init, NewState
<1>1. <<>> \in LockTables
  <2>1. <<>> \in [{} -> FileLists] /\ {} \in SUBSET Locks
    OBVIOUS
  <2>. QED
    BY <2>1 DEF LockTables
<1>2. st \in States
  BY <1>1 DEF States, LocalSet
<1>3. Shapes
  BY <1>2 DEF Shapes, Idle
<1>4. ~IsTransfer(None)
  BY DEF IsTransfer
<1>5. OneTransfer
  BY <1>4 DEF OneTransfer, Idle
<1>6. StreamsGivenOut
  BY <1>4 DEF StreamsGivenOut, Idle
<1>7. Queues
  BY QueuesTake DEF Queues
<1>. QED
  BY <1>3, <1>5, <1>6, <1>7 DEF ShapeInv

\* The parts of the invariant that most steps need.
LEMMA ShapeFacts ==
    ASSUME ShapeInv
    PROVE  /\ st \in States /\ copied \in Nat /\ st.stream \in Nat /\ st.stream >= 1
           /\ copyOf \in Seq(1 .. Len(Copies)) /\ Len(copyOf) \in Nat
           /\ toServer \in Seq(ToServer) /\ toClient \in Seq(ToClient)
           /\ events \in Seq(TextEvents \cup FailedEvents \cup ReadyEvents)
           /\ backend \in {Idle} \cup Pasting \cup Installing \cup Dispatching
<1>1. st \in States
  BY DEF ShapeInv, Shapes
<1>2. st.stream \in Nat /\ st.stream >= 1
  BY <1>1 DEF States, ShapeInv, StreamsGivenOut
<1>3. copied \in Nat /\ copyOf \in Seq(1 .. Len(Copies))
  BY ClipboardAssumption DEF ShapeInv, Shapes
<1>4. Len(copyOf) \in Nat
  BY <1>3
<1>5. toServer \in Seq(ToServer) /\ toClient \in Seq(ToClient)
  BY DEF ShapeInv, Queues, ServerQueue, ClientQueue
<1>. QED
  BY <1>1, <1>2, <1>3, <1>4, <1>5 DEF ShapeInv, Shapes

\* Giving up a transfer keeps the ids right, for any callback in progress and for none.
LEMMA GivingUp ==
    ASSUME ShapeInv, GivesUp, UNCHANGED copyOf, backend' \in {Idle, backend}
    PROVE  OneTransfer' /\ StreamsGivenOut'
<1>0. ~IsTransfer(None)
  BY DEF IsTransfer
<1>1. Idle.at = "idle"
  BY DEF Idle
<1>2. OneTransfer'
  BY <1>0, <1>1 DEF GivesUp, ShapeInv, OneTransfer, Current
<1>3. StreamsGivenOut'
  BY <1>0, <1>1 DEF GivesUp, ShapeInv, StreamsGivenOut
<1>. QED
  BY <1>2, <1>3

\* Setting the local clipboard.
LEMMA ShapeSetLocal ==
    ASSUME ShapeInv, NEW local \in LocalSet, SetLocal(local)
    PROVE  ShapeInv' /\ GivesUp
<1>1. st' \in States /\ GivesUp
  BY DEF SetLocal, ShapeInv, Shapes, States, GivesUp
<1>2. used' \in [sets : 0 .. LocalSets, reconnects : Nat, errors : Nat, lists : Nat, shutdown : BOOLEAN]
  <2>1. used.sets \in 0 .. LocalSets /\ used.sets < LocalSets
    BY DEF SetLocal, ShapeInv, Shapes
  <2>2. used.sets + 1 \in 0 .. LocalSets
    BY <2>1, ClipboardAssumption
  <2>. QED
    BY <2>2 DEF SetLocal, ShapeInv, Shapes
<1>3. PICK m \in Announcements : toServer' = Append(toServer, m) \/ toServer' = toServer
  <2>1. [kind |-> "local copy", local |-> local] \in Announcements
    BY DEF Announcements
  <2>. QED
    BY <2>1 DEF SetLocal, SendClipboard, Lost
<1>4. m \in ToServer /\ m.kind = "local copy"
  BY DEF Announcements, ToServer
<1>5. Shapes'
  BY <1>1, <1>2 DEF SetLocal, ShapeInv, Shapes
<1>6. OneTransfer' /\ StreamsGivenOut'
  BY <1>1, GivingUp DEF SetLocal
<1>7. ServerQueue(toServer', st.stream, copied)
  BY <1>3, <1>4, QueuesAppend DEF ShapeInv, Queues
<1>8. Queues'
  BY <1>1, <1>7 DEF SetLocal, ShapeInv, Queues, GivesUp
<1>. QED
  BY <1>1, <1>5, <1>6, <1>8 DEF ShapeInv

\* The host's texts and files, and a failure to collect them.
LEMMA ShapeLocal ==
    ASSUME ShapeInv, SetLocalText \/ SetLocalFiles \/ SetLocalFilesFails
    PROVE  ShapeInv' /\ GivesUp
<1>1. ~used.shutdown /\ used.sets < LocalSets /\ used.sets \in 0 .. LocalSets
  BY DEF SetLocalText, SetLocalFiles, SetLocalFilesFails, SetLocal, ShapeInv, Shapes
<1>2. used.sets + 1 \in 1 .. LocalSets
  BY <1>1, ClipboardAssumption
<1>3. CASE SetLocalText
  <2>1. [kind |-> "text", id |-> used.sets + 1] \in LocalSet
    BY <1>2 DEF LocalSet
  <2>. QED
    BY <1>3, <2>1, ShapeSetLocal DEF SetLocalText
<1>4. CASE SetLocalFiles
  <2>1. [kind |-> "files", id |-> used.sets + 1] \in LocalSet
    BY <1>2 DEF LocalSet, FileLists
  <2>. QED
    BY <1>4, <2>1, ShapeSetLocal DEF SetLocalFiles
<1>5. CASE SetLocalFilesFails
  <2>1. Failed(used.sets + 1) \in FailedEvents
    BY <1>2, ClipboardAssumption DEF Failed, FailedEvents
  <2>2. events' \in Seq(TextEvents \cup FailedEvents \cup ReadyEvents)
    BY <1>5, <2>1, ShapeFacts DEF SetLocalFilesFails, Emit
  <2>a. /\ used' = [used EXCEPT !.sets = @ + 1]
        /\ UNCHANGED <<backend, open, dirs, cancelled, copyOf, copied, toServer, toClient, served>>
    BY <1>5 DEF SetLocalFilesFails
  <2>b. st' = st \/ st' = [st EXCEPT !.local = [kind |-> "files", id |-> used.sets + 1]]
    BY <1>5 DEF SetLocalFilesFails
  <2>c. used \in [sets : 0 .. LocalSets, reconnects : Nat, errors : Nat, lists : Nat, shutdown : BOOLEAN]
        /\ st \in States
    BY DEF ShapeInv, Shapes
  <2>3. used' \in [sets : 0 .. LocalSets, reconnects : Nat, errors : Nat, lists : Nat, shutdown : BOOLEAN]
    BY <1>2, <2>a, <2>c
  <2>d. [kind |-> "files", id |-> used.sets + 1] \in LocalSet
    BY <1>2 DEF LocalSet, FileLists
  <2>5. GivesUp /\ st' \in States
    BY <2>b, <2>c, <2>d DEF GivesUp, States
  <2>4. Shapes'
    BY <2>2, <2>3, <2>5, <2>a DEF ShapeInv, Shapes
  <2>6. OneTransfer' /\ StreamsGivenOut'
    BY <2>a, <2>5, GivingUp
  <2>7. Queues'
    BY <2>a, <2>5 DEF GivesUp, ShapeInv, Queues
  <2>. QED
    BY <2>4, <2>5, <2>6, <2>7 DEF ShapeInv
<1>. QED
  BY <1>3, <1>4, <1>5

\* Steps that touch nothing but the state of the clipboard, and give up the
\* transfer at most.
LEMMA ShapeGivesUp ==
    ASSUME ShapeInv, GivesUp, UNCHANGED <<backend, events, copyOf, copied, toServer, toClient>>,
           open' \in BOOLEAN,
           used' \in [sets : 0 .. LocalSets, reconnects : Nat, errors : Nat, lists : Nat, shutdown : BOOLEAN]
    PROVE  ShapeInv'
<1>1. Shapes'
  BY DEF ShapeInv, Shapes, GivesUp
<1>2. OneTransfer' /\ StreamsGivenOut'
  BY GivingUp
<1>3. Queues'
  BY DEF ShapeInv, Queues, GivesUp
<1>. QED
  BY <1>1, <1>2, <1>3 DEF ShapeInv

\* Fewer locks, and one more.
LEMMA LockTablesKept ==
    ASSUME NEW f \in LockTables
    PROVE  /\ \A D : [l \in {x \in DOMAIN f : x \in D} |-> f[l]] \in LockTables
           /\ \A l \in Locks, v \in FileLists :
                [x \in DOMAIN f \cup {l} |-> IF x = l THEN v ELSE f[x]] \in LockTables
           /\ \A x \in DOMAIN f : f[x] \in FileLists
           /\ <<>> \in LockTables
<1>1. PICK E \in SUBSET Locks : f \in [E -> FileLists]
  BY DEF LockTables
<1>2. ASSUME NEW D PROVE [l \in {x \in DOMAIN f : x \in D} |-> f[l]] \in LockTables
  <2>1. {x \in DOMAIN f : x \in D} \in SUBSET Locks
    BY <1>1
  <2>2. [l \in {x \in DOMAIN f : x \in D} |-> f[l]] \in [{x \in DOMAIN f : x \in D} -> FileLists]
    BY <1>1
  <2>. QED
    BY <2>1, <2>2 DEF LockTables
<1>3. ASSUME NEW l \in Locks, NEW v \in FileLists
      PROVE  [x \in DOMAIN f \cup {l} |-> IF x = l THEN v ELSE f[x]] \in LockTables
  <2>1. DOMAIN f \cup {l} \in SUBSET Locks
    BY <1>1
  <2>2. [x \in DOMAIN f \cup {l} |-> IF x = l THEN v ELSE f[x]] \in [DOMAIN f \cup {l} -> FileLists]
    BY <1>1
  <2>. QED
    BY <2>1, <2>2 DEF LockTables
<1>4. <<>> \in LockTables
  <2>1. <<>> \in [{} -> FileLists] /\ {} \in SUBSET Locks
    OBVIOUS
  <2>. QED
    BY <2>1 DEF LockTables
<1>. QED
  BY <1>1, <1>2, <1>3, <1>4

\* What a cancellation makes of the state.
CancelledState(id) ==
    [st EXCEPT !.local = IF @.kind = "files" /\ @.id = id THEN None ELSE @,
               !.locked = [l \in {x \in DOMAIN st.locked : st.locked[x].id # id} |-> st.locked[l]],
               !.pending = IF @ = id THEN 0 ELSE @,
               !.transfer = IF IsTransfer(@) /\ @.id = id THEN None ELSE @]

\* Cancelling.
LEMMA CancelGivesUp ==
    ASSUME ShapeInv, NEW id, CancelTransfer(id)
    PROVE  GivesUp /\ st' = CancelledState(id)
<1>. DEFINE lk == [l \in {x \in DOMAIN st.locked : st.locked[x].id # id} |-> st.locked[l]]
            lo == IF st.local.kind = "files" /\ st.local.id = id THEN None ELSE st.local
            pe == IF st.pending = id THEN 0 ELSE st.pending
            tr == IF IsTransfer(st.transfer) /\ st.transfer.id = id THEN None ELSE st.transfer
<1>0. st \in States
  BY ShapeFacts
<1>1. lk \in LockTables
  <2>1. st.locked \in LockTables
    BY <1>0 DEF States
  <2>2. [l \in {x \in DOMAIN st.locked : x \in {y \in DOMAIN st.locked : st.locked[y].id # id}} |-> st.locked[l]]
           \in LockTables
    BY <2>1, LockTablesKept
  <2>3. {x \in DOMAIN st.locked : x \in {y \in DOMAIN st.locked : st.locked[y].id # id}}
           = {x \in DOMAIN st.locked : st.locked[x].id # id}
    OBVIOUS
  <2>. QED
    BY <2>2, <2>3
<1>2. lo \in LocalSet /\ pe \in Nat /\ pe \in {0, st.pending}
  BY <1>0 DEF States, LocalSet
<1>3. tr \in {None} \cup TransferSet /\ tr \in {None, st.transfer}
  BY <1>0 DEF States
<1>4. st' = CancelledState(id)
  BY <1>0 DEF CancelTransfer, CancelLocalTransfer, CancelledState, States
<1>5. CancelledState(id) = [st EXCEPT !.local = lo, !.locked = lk, !.pending = pe, !.transfer = tr]
  BY DEF CancelledState
<1>. HIDE DEF lk, lo, pe, tr
<1>6. st' \in States
  BY <1>0, <1>1, <1>2, <1>3, <1>4, <1>5 DEF States
<1>7. st'.pending = pe /\ st'.transfer = tr /\ st'.sequence = st.sequence /\ st'.stream = st.stream
  BY <1>0, <1>4, <1>5 DEF States
<1>. QED
  BY <1>2, <1>3, <1>4, <1>6, <1>7 DEF GivesUp

\* The other steps of the controller, and the end of the client.
LEMMA ShapeController ==
    ASSUME ShapeInv, Shutdown \/ ClientEnds \/ \E id \in Nat : CancelTransfer(id)
    PROVE  ShapeInv' /\ GivesUp
<1>0. st \in States /\ open \in BOOLEAN
  BY DEF ShapeInv, Shapes
<1>1. CASE Shutdown
  <2>1. <<>> \in LockTables
    BY <1>0, LockTablesKept DEF States
  <2>2. st' = [local |-> None, locked |-> <<>>, pending |-> 0, transfer |-> None,
               waiting |-> FALSE, sequence |-> st.sequence, stream |-> st.stream]
    BY <1>1 DEF Shutdown, NewState
  <2>3. st' \in States
    BY <1>0, <2>1, <2>2 DEF States, LocalSet
  <2>4. GivesUp
    BY <2>2, <2>3 DEF GivesUp
  <2>5. used' \in [sets : 0 .. LocalSets, reconnects : Nat, errors : Nat, lists : Nat, shutdown : BOOLEAN]
    BY <1>1 DEF Shutdown, ShapeInv, Shapes
  <2>6. UNCHANGED <<backend, events, copyOf, copied, toServer, toClient, open>>
    BY <1>1 DEF Shutdown, serverVars
  <2>. QED
    BY <1>0, <2>4, <2>5, <2>6, ShapeGivesUp
<1>2. CASE ClientEnds
  <2>1. GivesUp
    BY <1>0, <1>2 DEF ClientEnds, GivesUp
  <2>2. UNCHANGED <<backend, events, copyOf, copied, toServer, toClient, used>> /\ open' \in BOOLEAN
    BY <1>2 DEF ClientEnds, serverVars
  <2>3. used' \in [sets : 0 .. LocalSets, reconnects : Nat, errors : Nat, lists : Nat, shutdown : BOOLEAN]
    BY <2>2 DEF ShapeInv, Shapes
  <2>. QED
    BY <2>1, <2>2, <2>3, ShapeGivesUp
<1>3. ASSUME NEW id \in Nat, CancelTransfer(id)
      PROVE  ShapeInv' /\ GivesUp
  <2>1. GivesUp
    BY <1>3, CancelGivesUp
  <2>2. UNCHANGED <<backend, events, copyOf, copied, toServer, toClient, used, open>>
    BY <1>3 DEF CancelTransfer, serverVars
  <2>3. used' \in [sets : 0 .. LocalSets, reconnects : Nat, errors : Nat, lists : Nat, shutdown : BOOLEAN]
    BY <2>2 DEF ShapeInv, Shapes
  <2>. QED
    BY <1>0, <2>1, <2>2, <2>3, ShapeGivesUp
<1>. QED
  BY <1>1, <1>2, <1>3

\* The server's locks and requests for local contents.
LEMMA ShapeServing ==
    ASSUME ShapeInv, OnLock \/ OnUnlock \/ SendLocalFileResponse \/ SendLocalTextResponse
    PROVE  ShapeInv' /\ GivesUp
<1>0. st \in States /\ open \in BOOLEAN /\ st.locked \in LockTables
  BY DEF ShapeInv, Shapes, States
<1>1. UNCHANGED <<backend, events, copyOf, copied, toServer, toClient, used, open>>
  BY DEF OnLock, OnUnlock, SendLocalFileResponse, SendLocalTextResponse, serverVars
<1>2. \E f \in LockTables : st' = [st EXCEPT !.locked = f]
  <2>1. CASE OnLock
    <3>1. PICK l \in Locks : /\ st.local.kind = "files"
                             /\ st' = [st EXCEPT !.locked = [x \in DOMAIN @ \cup {l} |->
                                                               IF x = l THEN st.local ELSE @[x]]]
      BY <2>1 DEF OnLock
    <3>2. st.local \in FileLists
      <4>1. st.local \in LocalSet
        BY <1>0 DEF States
      <4>. QED
        BY <3>1, <4>1 DEF LocalSet, None
    <3>3. [x \in DOMAIN st.locked \cup {l} |-> IF x = l THEN st.local ELSE st.locked[x]] \in LockTables
      BY <1>0, <3>2, LockTablesKept
    <3>. QED
      BY <3>1, <3>3
  <2>2. CASE OnUnlock
    <3>1. PICK l \in DOMAIN st.locked : st' = [st EXCEPT !.locked = [x \in DOMAIN @ \ {l} |-> @[x]]]
      BY <2>2 DEF OnUnlock
    <3>2. DOMAIN st.locked \ {l} = {x \in DOMAIN st.locked : x \in DOMAIN st.locked \ {l}}
      OBVIOUS
    <3>3. [x \in DOMAIN st.locked \ {l} |-> st.locked[x]] \in LockTables
      BY <1>0, <3>2, LockTablesKept
    <3>. QED
      BY <3>1, <3>3
  <2>3. CASE SendLocalFileResponse \/ SendLocalTextResponse
    <3>1. st' = st
      BY <2>3 DEF SendLocalFileResponse, SendLocalTextResponse
    <3>2. st = [st EXCEPT !.locked = st.locked]
      BY <1>0 DEF States
    <3>. QED
      BY <1>0, <3>1, <3>2
  <2>. QED
    BY <2>1, <2>2, <2>3
<1>3. GivesUp
  BY <1>0, <1>2 DEF GivesUp, States
<1>4. used' \in [sets : 0 .. LocalSets, reconnects : Nat, errors : Nat, lists : Nat, shutdown : BOOLEAN]
  BY <1>1 DEF ShapeInv, Shapes
<1>. QED
  BY <1>0, <1>1, <1>3, <1>4, ShapeGivesUp

\* What a callback that is called with a message may rely on.
LEMMA CallbackFacts ==
    ASSUME ShapeInv, Callback
    PROVE  /\ Message \in ToClient /\ copied >= 1
           /\ Message.kind = "contents" => Message.stream < st.stream
           /\ ClientQueue(Tail(toClient), st.stream, copied)
           /\ toClient # <<>> /\ backend = Idle
<1>1. ClientQueue(toClient, st.stream, copied)
  BY DEF ShapeInv, Queues
<1>. QED
  BY <1>1, QueuesTake DEF Callback, Message

\* Answering with the present clipboard, a new session, an answer to a text request
\* and an announcement that is not of files.
LEMMA ShapeTexts ==
    ASSUME ShapeInv, OnRequestFormatList \/ BuildCliprdrBackend \/ CancelRemoteLocks
                       \/ OnFormatDataResponse \/ OnRemoteCopyText
    PROVE  ShapeInv' /\ GivesUp
<1>0. st \in States /\ st.locked \in LockTables /\ st.local \in LocalSet
  BY DEF ShapeInv, Shapes, States
<1>. DEFINE Used == [sets : 0 .. LocalSets, reconnects : Nat, errors : Nat, lists : Nat, shutdown : BOOLEAN]
<1>u. used \in Used
  BY DEF ShapeInv, Shapes
<1>e. events \in Seq(TextEvents \cup FailedEvents \cup ReadyEvents)
  BY ShapeFacts
<1>1. CASE OnRequestFormatList
  <2>1. GivesUp
    BY <1>0, <1>1 DEF OnRequestFormatList, GivesUp
  <2>2. used' \in Used
    <3>1. used.lists + 1 \in Nat
      BY <1>u
    <3>2. used' = [used EXCEPT !.lists = used.lists + 1]
      BY <1>1 DEF OnRequestFormatList
    <3>. QED
      BY <1>u, <3>1, <3>2
  <2>3. [kind |-> "local copy", local |-> st.local] \in ToServer
    BY <1>0 DEF Announcements, ToServer
  <2>4. ServerQueue(toServer', st.stream, copied)
    BY <1>1, <2>3, QueuesAppend DEF OnRequestFormatList, SendClipboard, ShapeInv, Queues
  <2>5. Shapes'
    BY <1>1, <2>2 DEF OnRequestFormatList, ShapeInv, Shapes
  <2>6. OneTransfer' /\ StreamsGivenOut'
    BY <1>1, <2>1, GivingUp DEF OnRequestFormatList
  <2>7. Queues'
    BY <1>1, <2>4 DEF OnRequestFormatList, ShapeInv, Queues
  <2>. QED
    BY <2>1, <2>5, <2>6, <2>7 DEF ShapeInv
<1>2. CASE BuildCliprdrBackend
  <2>0. <<>> \in LockTables
    BY <1>0, LockTablesKept
  <2>1. GivesUp
    BY <1>0, <1>2, <2>0 DEF BuildCliprdrBackend, GivesUp, States
  <2>2. used' \in Used
    BY <1>2, <1>u DEF BuildCliprdrBackend
  <2>5. Shapes'
    BY <1>2, <2>1, <2>2 DEF BuildCliprdrBackend, ShapeInv, Shapes, GivesUp
  <2>6. OneTransfer' /\ StreamsGivenOut'
    BY <1>2, <2>1, GivingUp DEF BuildCliprdrBackend
  <2>7. Queues'
    BY <1>2, QueuesTake DEF BuildCliprdrBackend, ShapeInv, Queues
  <2>. QED
    BY <2>1, <2>5, <2>6, <2>7 DEF ShapeInv
<1>3. CASE CancelRemoteLocks
  <2>1. GivesUp
    BY <1>0, <1>3 DEF CancelRemoteLocks, GivesUp, States
  <2>2. st.transfer.id \in Nat
    BY <1>0, <1>3 DEF CancelRemoteLocks, States, IsTransfer, TransferSet
  <2>3. Failed(st.transfer.id) \in FailedEvents
    BY <2>2 DEF Failed, FailedEvents
  <2>4. events' \in Seq(TextEvents \cup FailedEvents \cup ReadyEvents)
    BY <1>3, <1>e, <2>3 DEF CancelRemoteLocks, Emit
  <2>5. Shapes'
    BY <1>3, <2>1, <2>4 DEF CancelRemoteLocks, ShapeInv, Shapes, GivesUp, serverVars
  <2>6. OneTransfer' /\ StreamsGivenOut'
    BY <1>3, <2>1, GivingUp DEF CancelRemoteLocks
  <2>7. Queues'
    BY <1>3, <2>1 DEF CancelRemoteLocks, ShapeInv, Queues, GivesUp, serverVars
  <2>. QED
    BY <2>1, <2>5, <2>6, <2>7 DEF ShapeInv
<1>4. CASE OnFormatDataResponse
  <2>0. Callback
    BY <1>4 DEF OnFormatDataResponse
  <2>1. GivesUp
    BY <1>0, <1>4 DEF OnFormatDataResponse, GivesUp, States
  <2>2. Message \in TextAnswers
    <3>1. Message \in ToClient /\ Message.kind = "text"
      BY <1>4, <2>0, CallbackFacts DEF OnFormatDataResponse
    <3>. QED
      BY <3>1 DEF ToClient, Formats, TextAnswers, Lists, Contents, Failures, SizeAnswers, RangeAnswers
  <2>3. [kind |-> "text", number |-> Message.number] \in TextEvents
    BY <2>2 DEF TextAnswers, TextEvents
  <2>4. events' \in Seq(TextEvents \cup FailedEvents \cup ReadyEvents)
    BY <1>4, <1>e, <2>3 DEF OnFormatDataResponse, Emit
  <2>5. Shapes'
    BY <1>4, <2>1, <2>4 DEF OnFormatDataResponse, ShapeInv, Shapes, GivesUp
  <2>6. OneTransfer' /\ StreamsGivenOut'
    BY <1>4, <2>1, GivingUp DEF OnFormatDataResponse
  <2>7. Queues'
    BY <1>4, <2>0, <2>1, CallbackFacts DEF OnFormatDataResponse, ShapeInv, Queues, GivesUp, Receive
  <2>. QED
    BY <2>1, <2>5, <2>6, <2>7 DEF ShapeInv
<1>5. CASE OnRemoteCopyText
  <2>0. Callback
    BY <1>5 DEF OnRemoteCopyText
  <2>1. GivesUp
    <3>1. (Message.copy = "text") \in BOOLEAN
      OBVIOUS
    <3>. QED
      BY <1>0, <1>5, <3>1 DEF OnRemoteCopyText, GivesUp, States
  <2>5. Shapes'
    BY <1>5, <2>1 DEF OnRemoteCopyText, ShapeInv, Shapes, GivesUp
  <2>6. OneTransfer' /\ StreamsGivenOut'
    BY <1>5, <2>1, GivingUp DEF OnRemoteCopyText
  <2>7. ServerQueue(toServer', st.stream, copied)
    <3>1. [kind |-> "paste", copy |-> "text"] \in ToServer
      BY DEF ToServer, Pastes
    <3>2. toServer' = toServer \/ toServer' = Append(toServer, [kind |-> "paste", copy |-> "text"])
      BY <1>5 DEF OnRemoteCopyText, SendClipboard, Lost
    <3>3. ServerQueue(toServer, st.stream, copied) /\ copied >= 1
      BY <2>0, CallbackFacts DEF ShapeInv, Queues
    <3>. QED
      BY <3>1, <3>2, <3>3, QueuesAppend
  <2>8. Queues'
    BY <1>5, <2>0, <2>1, <2>7, CallbackFacts DEF OnRemoteCopyText, ShapeInv, Queues, GivesUp, Receive
  <2>. QED
    BY <2>1, <2>5, <2>6, <2>8 DEF ShapeInv
<1>. QED
  BY <1>1, <1>2, <1>3, <1>4, <1>5

\* What the server can answer to request m, reading from copy k.
Replies(r, m, k) ==
    /\ r \in Contents /\ r.stream = m.stream
    /\ \/ r.error
       \/ m.kind = "size" /\ m.file \in DOMAIN Sizes[k] /\ "size" \in DOMAIN r /\ r.size = Sizes[k][m.file]
       \/ /\ m.kind = "range" /\ m.file \in DOMAIN Sizes[k] /\ "data" \in DOMAIN r
          /\ \E n \in 1 .. m.size : /\ m.position + n <= Sizes[k][m.file]
                                   /\ r.data = Piece(k, m.file, m.position, n)

\* The message that the server takes is gone, and its answer is one of these.
Answered(at) ==
    /\ toServer' = RemoveAt(toServer, at)
    /\ \/ toClient' = toClient
       \/ \E e \in BOOLEAN, n \in 1 .. copied :
            toClient' = Append(toClient, [kind |-> "text", error |-> e, number |-> n])
       \/ \E l \in {0, copied}, f \in Seq(Seq(Nat)) :
            /\ copied >= 1 /\ Copies[copied] = "files" /\ Len(f) = Len(Sizes[copied])
            /\ toClient' = Append(toClient, [kind |-> "list", lock |-> l, files |-> f])
       \/ \E r \in Contents :
            /\ toServer[at] \in Requests /\ toClient' = Append(toClient, r)
            /\ Replies(r, toServer[at], IF toServer[at].lock # 0 THEN toServer[at].lock ELSE copied)

\* An answer carries the bytes that were asked for.
LEMMA DataIsContent ==
    ASSUME NEW k \in Nat, NEW f \in Nat, NEW p \in Nat, NEW n \in Nat
    PROVE  [i \in 1 .. n |-> <<k, f, p + i>>] \in Content
<1>1. \A i \in 1 .. n : <<k, f, p + i>> \in Nat \X Nat \X Nat
  OBVIOUS
<1>2. [i \in 1 .. n |-> <<k, f, p + i>>] \in [1 .. n -> Nat \X Nat \X Nat]
  BY <1>1
<1>. QED
  BY <1>2 DEF Content

\* The server's answers.
LEMMA ServerAnswerCases ==
    ASSUME ShapeInv, ServerAnswers
    PROVE  /\ \E at \in DOMAIN toServer : Answered(at)
           /\ used' \in [sets : 0 .. LocalSets, reconnects : Nat, errors : Nat, lists : Nat, shutdown : BOOLEAN]
           /\ UNCHANGED <<st, backend, open, dirs, events, cancelled, copyOf, copied, served>>
<1>. DEFINE Used == [sets : 0 .. LocalSets, reconnects : Nat, errors : Nat, lists : Nat, shutdown : BOOLEAN]
<1>0. UNCHANGED <<st, backend, open, dirs, events, cancelled, copyOf, copied, served>>
  BY DEF ServerAnswers
<1>u. used \in Used
  BY DEF ShapeInv, Shapes
<1>f. ServerFails => used' \in Used
  <2>1. used.errors + 1 \in Nat
    BY <1>u
  <2>. QED
    BY <1>u, <2>1 DEF ServerFails
<1>1. PICK at \in DOMAIN toServer : ServerAnswers!(at)
  BY DEF ServerAnswers
<1>2. toServer[at] \in ToServer
  BY ShapeFacts
<1>3. toServer[at].kind # "local copy" => copied >= 1
  BY DEF ShapeInv, Queues, ServerQueue
<1>r. toServer' = RemoveAt(toServer, at)
  BY <1>1
<1>4. CASE toServer[at] \in Announcements
  <2>1. toServer[at].kind = "local copy"
    BY <1>4 DEF Announcements
  <2>2. UNCHANGED <<toClient, used>>
    BY <1>1, <2>1
  <2>. QED
    BY <1>0, <1>r, <1>u, <2>2 DEF Answered
<1>5. CASE toServer[at] \in Pastes /\ toServer[at].copy = "text"
  <2>1. toServer[at].kind = "paste"
    BY <1>5 DEF Pastes
  <2>2. \/ \E n \in 1..copied :
              Copies[n] = "text" /\ Answer([kind |-> "text", error |-> FALSE, number |-> n]) /\ UNCHANGED used
        \/ Answer([kind |-> "text", error |-> TRUE, number |-> copied])
             /\ IF Copies[copied] = "text" THEN ServerFails ELSE UNCHANGED used
    BY <1>1, <1>5, <2>1
  <2>3. copied \in 1 .. copied
    BY <1>3, <2>1 DEF ShapeInv, Shapes
  <2>4. CASE \E n \in 1..copied :
              Copies[n] = "text" /\ Answer([kind |-> "text", error |-> FALSE, number |-> n]) /\ UNCHANGED used
    BY <1>0, <1>r, <1>u, <2>4 DEF Answered, Answer
  <2>5. CASE Answer([kind |-> "text", error |-> TRUE, number |-> copied])
             /\ IF Copies[copied] = "text" THEN ServerFails ELSE UNCHANGED used
    BY <1>0, <1>r, <1>u, <1>f, <2>3, <2>5 DEF Answered, Answer
  <2>. QED
    BY <2>2, <2>4, <2>5
<1>6. CASE toServer[at] \in Pastes /\ toServer[at].copy = "files"
  <2>1. toServer[at].kind = "paste"
    BY <1>6 DEF Pastes
  <2>2. IF Copies[copied] # "files" THEN UNCHANGED <<toClient, used>>
        ELSE \E lock \in {0, copied}, known \in BOOLEAN :
                      /\ Answer([kind |-> "list", lock |-> lock, files |->
                                   [i \in DOMAIN Sizes[copied] |-> IF known THEN <<Sizes[copied][i]>> ELSE <<>>]])
                      /\ UNCHANGED used
    BY <1>1, <1>6, <2>1
  <2>3. CASE Copies[copied] # "files"
    BY <1>0, <1>r, <1>u, <2>2, <2>3 DEF Answered
  <2>4. CASE Copies[copied] = "files"
    <3>1. PICK lock \in {0, copied}, known \in BOOLEAN :
             /\ Answer([kind |-> "list", lock |-> lock, files |->
                          [i \in DOMAIN Sizes[copied] |-> IF known THEN <<Sizes[copied][i]>> ELSE <<>>]])
             /\ UNCHANGED used
      BY <2>2, <2>4
    <3>. DEFINE f == [i \in DOMAIN Sizes[copied] |-> IF known THEN <<Sizes[copied][i]>> ELSE <<>>]
    <3>2. copied \in 1 .. Len(Copies)
      BY <1>3, <2>1 DEF ShapeInv, Shapes
    <3>3. Sizes[copied] \in Seq(Nat)
      BY <3>2, ClipboardAssumption
    <3>4. f \in [1 .. Len(Sizes[copied]) -> Seq(Nat)] /\ Len(Sizes[copied]) \in Nat
      BY <3>3
    <3>. HIDE DEF f
    <3>5. f \in Seq(Seq(Nat)) /\ Len(f) = Len(Sizes[copied])
      BY <3>4
    <3>6. toClient' = Append(toClient, [kind |-> "list", lock |-> lock, files |-> f])
      BY <3>1 DEF Answer, f
    <3>7. Answered(at)
      BY <1>r, <1>3, <2>1, <2>4, <3>5, <3>6 DEF Answered
    <3>. QED
      BY <1>0, <1>u, <3>1, <3>7
  <2>. QED
    BY <2>3, <2>4
<1>7. CASE toServer[at] \in Requests
  <2>. DEFINE m == toServer[at]
              copy == IF m.lock # 0 THEN m.lock ELSE copied
              there == Copies[copy] = "files" /\ m.file \in DOMAIN Sizes[copy]
  <2>1. m.kind \in {"size", "range"} /\ m.stream \in Nat /\ m.file \in Nat /\ m.position \in Nat
        /\ m.size \in Nat /\ m.lock \in LockIds /\ "lock" \in DOMAIN m
    BY <1>7 DEF Requests
  <2>2. copy \in 1 .. Len(Copies)
    <3>0. copied \in 0 .. Len(Copies) /\ copied >= 1
      BY <1>3, <2>1 DEF ShapeInv, Shapes
    <3>2. Len(Copies) \in Nat
      BY ClipboardAssumption
    <3>1. copied \in 1 .. Len(Copies)
      BY <3>0, <3>2
    <3>. QED
      BY <2>1, <3>1, <3>2 DEF LockIds
  <2>3. Sizes[copy] \in Seq(Nat)
    BY <2>2, ClipboardAssumption
  <2>4. \/ /\ Answer([kind |-> "contents", stream |-> m.stream, error |-> TRUE])
           /\ IF there THEN ServerFails ELSE UNCHANGED used
        \/ /\ there /\ m.kind = "size" /\ UNCHANGED used
           /\ Answer([kind |-> "contents", stream |-> m.stream, error |-> FALSE, size |-> Sizes[copy][m.file]])
        \/ /\ there /\ m.kind = "range" /\ UNCHANGED used
           /\ \E n \in 1..m.size :
                /\ m.position + n <= Sizes[copy][m.file]
                /\ Answer([kind |-> "contents", stream |-> m.stream, error |-> FALSE,
                           data |-> [i \in 1..n |-> <<copy, m.file, m.position + i>>]])
    BY <1>1, <2>1
  <2>. HIDE DEF copy, m
  <2>5. ASSUME NEW r \in Contents, toClient' = Append(toClient, r), Replies(r, m, copy)
        PROVE  Answered(at)
    BY <1>7, <1>r, <2>5 DEF Answered, m, copy
  <2>6. CASE /\ Answer([kind |-> "contents", stream |-> m.stream, error |-> TRUE])
             /\ IF there THEN ServerFails ELSE UNCHANGED used
    <3>. DEFINE r == [kind |-> "contents", stream |-> m.stream, error |-> TRUE]
    <3>1. r \in Contents /\ r.stream = m.stream /\ r.error
      BY <2>1 DEF Contents, Failures
    <3>2. Answered(at)
      BY <2>5, <2>6, <3>1 DEF Replies, Answer
    <3>. QED
      BY <1>0, <1>u, <1>f, <2>6, <3>2
  <2>7. CASE /\ there /\ m.kind = "size" /\ UNCHANGED used
             /\ Answer([kind |-> "contents", stream |-> m.stream, error |-> FALSE, size |-> Sizes[copy][m.file]])
    <3>. DEFINE r == [kind |-> "contents", stream |-> m.stream, error |-> FALSE, size |-> Sizes[copy][m.file]]
    <3>0. Sizes[copy][m.file] \in Nat
      BY <2>3, <2>7
    <3>1. r \in Contents
      BY <2>1, <3>0 DEF Contents, SizeAnswers
    <3>2. r.stream = m.stream /\ "size" \in DOMAIN r /\ r.size = Sizes[copy][m.file]
      OBVIOUS
    <3>3. Replies(r, m, copy)
      BY <2>7, <3>1, <3>2 DEF Replies
    <3>4. Answered(at)
      BY <2>5, <2>7, <3>1, <3>3 DEF Answer
    <3>. QED
      BY <1>0, <1>u, <2>7, <3>4
  <2>8. CASE /\ there /\ m.kind = "range" /\ UNCHANGED used
             /\ \E n \in 1..m.size :
                  /\ m.position + n <= Sizes[copy][m.file]
                  /\ Answer([kind |-> "contents", stream |-> m.stream, error |-> FALSE,
                             data |-> [i \in 1..n |-> <<copy, m.file, m.position + i>>]])
    <3>1. PICK n \in 1 .. m.size :
             /\ m.position + n <= Sizes[copy][m.file]
             /\ Answer([kind |-> "contents", stream |-> m.stream, error |-> FALSE,
                        data |-> [i \in 1..n |-> <<copy, m.file, m.position + i>>]])
      BY <2>8
    <3>. DEFINE d == [i \in 1 .. n |-> <<copy, m.file, m.position + i>>]
                r == [kind |-> "contents", stream |-> m.stream, error |-> FALSE, data |-> d]
    <3>2. n \in Nat /\ copy \in Nat
      BY <2>1, <2>2
    <3>3. d \in Content
      BY <2>1, <3>2, DataIsContent
    <3>4. toClient' = Append(toClient, r)
      BY <3>1 DEF Answer
    <3>5. \E x \in 1 .. m.size : m.position + x <= Sizes[copy][m.file]
                                /\ d = Piece(copy, m.file, m.position, x)
      BY <3>1 DEF Piece
    <3>. HIDE DEF d
    <3>6. r \in Contents
      BY <2>1, <3>3 DEF Contents, RangeAnswers
    <3>7. r.stream = m.stream /\ "data" \in DOMAIN r /\ r.data = d
      OBVIOUS
    <3>. HIDE DEF r
    <3>8. Replies(r, m, copy)
      BY <2>8, <3>5, <3>6, <3>7 DEF Replies
    <3>9. Answered(at)
      BY <2>5, <3>4, <3>6, <3>8
    <3>. QED
      BY <1>0, <1>u, <2>8, <3>9
  <2>. QED
    BY <2>4, <2>6, <2>7, <2>8
<1>. QED
  BY <1>2, <1>4, <1>5, <1>6, <1>7 DEF ToServer, Pastes

\* The server.
LEMMA ShapeServer ==
    ASSUME ShapeInv, ServerCopies \/ ServerAnswers
    PROVE  ShapeInv' /\ GivesUp
<1>0. st \in States
  BY ShapeFacts
<1>1. CASE ServerCopies
  <2>. DEFINE m == [kind |-> "formats", copy |-> Copies[copied'], number |-> copied']
  <2>1. GivesUp /\ UNCHANGED <<backend, copyOf>>
    BY <1>0, <1>1 DEF ServerCopies, GivesUp
  <2>2. copied' \in 1 .. Len(Copies) /\ copied' \in Nat /\ copied \in Nat /\ copied <= copied'
    BY <1>1, ClipboardAssumption DEF ServerCopies, ShapeInv, Shapes
  <2>3. m \in ToClient /\ m.kind = "formats"
    <3>1. Copies[copied'] \in {"text", "files", "other"}
      BY <2>2, ClipboardAssumption
    <3>2. m \in Formats
      BY <2>2, <3>1 DEF Formats
    <3>. QED
      BY <3>2 DEF ToClient
  <2>4. ClientQueue(toClient, st.stream, copied') /\ ServerQueue(toServer, st.stream, copied')
    <3>1. st.stream \in Nat /\ st.stream <= st.stream
      BY ShapeFacts
    <3>2. ClientQueue(toClient, st.stream, copied) /\ ServerQueue(toServer, st.stream, copied)
      BY DEF ShapeInv, Queues
    <3>3. copied \in Nat /\ copied' \in Nat /\ copied <= copied'
      BY <2>2
    <3>. QED
      BY <3>1, <3>2, <3>3, QueuesGrow
  <2>5. toClient' = Append(toClient, m)
    BY <1>1 DEF ServerCopies
  <2>. HIDE DEF m
  <2>6. ClientQueue(toClient', st.stream, copied')
    <3>1. copied' >= 1
      BY <2>2
    <3>. QED
      BY <2>3, <2>4, <2>5, <3>1, QueuesAppend
  <2>7. Shapes'
    <3>1. copied' \in 0 .. Len(Copies)
      BY <2>2
    <3>. QED
      BY <1>1, <3>1 DEF ServerCopies, ShapeInv, Shapes
  <2>8. OneTransfer' /\ StreamsGivenOut'
    BY <2>1, GivingUp
  <2>9. Queues'
    BY <1>1, <2>2, <2>4, <2>6 DEF ServerCopies, Queues
  <2>. QED
    BY <2>1, <2>7, <2>8, <2>9 DEF ShapeInv
<1>2. CASE ServerAnswers
  <2>1. GivesUp /\ UNCHANGED <<st, backend, open, events, copyOf, copied>>
    BY <1>0, <1>2, ServerAnswerCases DEF GivesUp
  <2>2. PICK at \in DOMAIN toServer : Answered(at)
    BY <1>2, ServerAnswerCases
  <2>3. ServerQueue(toServer', st.stream, copied)
    BY <2>2, QueuesTake DEF Answered, ShapeInv, Queues
  <2>4. Shapes'
    BY <1>2, <2>1, ServerAnswerCases DEF ShapeInv, Shapes
  <2>5. OneTransfer' /\ StreamsGivenOut'
    BY <2>1, GivingUp
  <2>6. ClientQueue(toClient', st.stream, copied)
    <3>0. ClientQueue(toClient, st.stream, copied) /\ copied \in 0 .. Len(Copies) /\ Len(Copies) \in Nat
      BY ClipboardAssumption DEF ShapeInv, Queues, Shapes
    <3>a. toServer[at].kind # "local copy" => copied >= 1
      BY DEF ShapeInv, Queues, ServerQueue
    <3>1. CASE toClient' = toClient
      BY <3>0, <3>1
    <3>2. ASSUME NEW e \in BOOLEAN, NEW n \in 1 .. copied,
                 toClient' = Append(toClient, [kind |-> "text", error |-> e, number |-> n])
          PROVE  ClientQueue(toClient', st.stream, copied)
      <4>1. [kind |-> "text", error |-> e, number |-> n] \in ToClient /\ copied >= 1
        BY <3>0 DEF ToClient, TextAnswers
      <4>. QED
        BY <3>0, <3>2, <4>1, QueuesAppend
    <3>3. ASSUME NEW l \in {0, copied}, NEW f \in Seq(Seq(Nat)), copied >= 1,
                 toClient' = Append(toClient, [kind |-> "list", lock |-> l, files |-> f])
          PROVE  ClientQueue(toClient', st.stream, copied)
      <4>1. l \in LockIds
        BY <3>0 DEF LockIds
      <4>2. [kind |-> "list", lock |-> l, files |-> f] \in ToClient
        BY <4>1 DEF ToClient, Lists
      <4>. QED
        BY <3>0, <3>3, <4>2, QueuesAppend
    <3>4. ASSUME NEW r \in Contents, toServer[at] \in Requests, toClient' = Append(toClient, r),
                 r.stream = toServer[at].stream
          PROVE  ClientQueue(toClient', st.stream, copied)
      <4>1. r \in ToClient
        BY DEF ToClient
      <4>2. toServer[at].kind \in {"size", "range"}
        BY <3>4 DEF Requests
      <4>3. toServer[at].stream < st.stream /\ copied >= 1
        BY <4>2, <3>a DEF ShapeInv, Queues, ServerQueue
      <4>. QED
        BY <3>0, <3>4, <4>1, <4>3, QueuesAppend
    <3>. QED
      BY <2>2, <3>1, <3>2, <3>3, <3>4 DEF Answered, Replies
  <2>7. Queues'
    BY <2>1, <2>3, <2>6 DEF Queues, ShapeInv
  <2>. QED
    BY <2>1, <2>4, <2>5, <2>7 DEF ShapeInv
<1>. QED
  BY <1>1, <1>2

\* The callbacks of a download, in terms of what they change.
Reserved ==
    /\ Message \in Formats /\ Message.copy = "files" /\ toClient' = Tail(toClient)
    /\ st' \in States /\ st'.pending = RemoteBit + (Len(copyOf) + 1) /\ st'.transfer = None
    /\ st'.sequence = st.sequence + 1 /\ st'.stream = st.stream
    /\ backend' = [at |-> "paste", id |-> RemoteBit + (Len(copyOf) + 1)]
    /\ copyOf' = Append(copyOf, Message.number) /\ Message.number \in 1 .. Len(Copies)

LEMMA ReservedFacts ==
    ASSUME ShapeInv, OnRemoteCopyFiles
    PROVE  Reserved
<1>0. st \in States /\ Callback
  BY ShapeFacts DEF OnRemoteCopyFiles
<1>1. Message \in Formats
  <2>1. Message \in ToClient /\ Message.kind = "formats"
    BY <1>0, CallbackFacts DEF OnRemoteCopyFiles
  <2>. QED
    BY <2>1 DEF ToClient, Formats, TextAnswers, Lists, Contents, Failures, SizeAnswers, RangeAnswers
<1>2. Message.number \in 1 .. Len(Copies)
  BY <1>1 DEF Formats
<1>3. st.sequence = Len(copyOf) + 1 /\ Len(copyOf) \in Nat
  BY ShapeFacts DEF ShapeInv, OneTransfer
<1>4. st' = [st EXCEPT !.waiting = FALSE, !.transfer = None, !.pending = RemoteBit + st.sequence,
                       !.sequence = st.sequence + 1]
  BY <1>0 DEF OnRemoteCopyFiles, ReserveRemoteTransfer, RemoteId, States
<1>5. RemoteBit + st.sequence \in Nat /\ st.sequence + 1 \in Nat
  BY <1>3 DEF RemoteBit
<1>6. st' \in States
  BY <1>0, <1>4, <1>5 DEF States
<1>7. st'.pending = RemoteBit + st.sequence /\ st'.transfer = None /\ st'.sequence = st.sequence + 1
      /\ st'.stream = st.stream
  BY <1>0, <1>4 DEF States
<1>8. backend' = [at |-> "paste", id |-> st'.pending] /\ copyOf' = Append(copyOf, Message.number)
      /\ toClient' = Tail(toClient) /\ Message.copy = "files"
  BY <1>7 DEF OnRemoteCopyFiles, Receive
<1>. QED
  BY <1>1, <1>2, <1>3, <1>6, <1>7, <1>8 DEF Reserved

\* A transfer is reserved.
LEMMA ShapeCopyFiles ==
    ASSUME ShapeInv, OnRemoteCopyFiles
    PROVE  ShapeInv'
<1>0. st \in States /\ Callback /\ Len(copyOf) \in Nat /\ copyOf \in Seq(1 .. Len(Copies))
  BY ShapeFacts DEF OnRemoteCopyFiles
<1>1. Reserved
  BY ReservedFacts
<1>2. copyOf' \in Seq(1 .. Len(Copies)) /\ Len(copyOf') = Len(copyOf) + 1 /\ copyOf' # <<>>
  BY <1>0, <1>1 DEF Reserved
<1>3. backend' \in Pasting /\ backend'.at = "paste" /\ backend'.id = RemoteBit + (Len(copyOf) + 1) /\ backend' # Idle
  <2>1. RemoteBit + (Len(copyOf) + 1) \in Nat
    BY <1>0 DEF RemoteBit
  <2>2. backend' \in Pasting /\ backend'.at = "paste" /\ backend'.id = RemoteBit + (Len(copyOf) + 1)
    BY <1>1, <2>1 DEF Reserved, Pasting
  <2>. QED
    BY <2>2 DEF Idle
<1>4. Shapes'
  BY <1>1, <1>2, <1>3 DEF Reserved, OnRemoteCopyFiles, ShapeInv, Shapes
<1>5. ~IsTransfer(None)
  BY DEF IsTransfer
<1>6. OneTransfer'
  <2>1. Current' = RemoteBit + (Len(copyOf) + 1)
    BY <1>2 DEF Current
  <2>2. st'.sequence = Len(copyOf') + 1
    BY <1>0, <1>1, <1>2 DEF Reserved, ShapeInv, OneTransfer
  <2>. QED
    BY <1>1, <1>2, <1>3, <1>5, <2>1, <2>2 DEF Reserved, OneTransfer
<1>7. StreamsGivenOut'
  BY <1>1, <1>3, <1>5, ShapeFacts DEF Reserved, StreamsGivenOut
<1>8. Queues'
  <2>1. copied' = copied /\ toServer' = toServer /\ copied >= 1
    BY <1>0, CallbackFacts DEF OnRemoteCopyFiles
  <2>. QED
    BY <1>0, <1>1, <2>1, CallbackFacts DEF Reserved, Queues, ShapeInv
<1>. QED
  BY <1>4, <1>6, <1>7, <1>8 DEF ShapeInv

\* The list is asked for.
LEMMA ShapePaste ==
    ASSUME ShapeInv, InitiatePaste
    PROVE  ShapeInv' /\ GivesUp
<1>0. st \in States /\ backend \in Pasting /\ backend' = Idle
  <2>1. backend \in {Idle} \cup Pasting \cup Installing \cup Dispatching /\ backend.at = "paste"
    BY ShapeFacts DEF InitiatePaste
  <2>2. backend \in Pasting
    BY <2>1 DEF Idle, Installing, Dispatching
  <2>. QED
    BY <2>2, ShapeFacts DEF InitiatePaste
<1>1. GivesUp
  BY <1>0 DEF InitiatePaste, GivesUp, States
<1>2. backend # Idle /\ backend.id \in Nat
  BY <1>0 DEF Pasting, Idle
<1>3. copied >= 1
  BY <1>2 DEF ShapeInv, OneTransfer, Queues
<1>4. events' \in Seq(TextEvents \cup FailedEvents \cup ReadyEvents)
  <2>1. Failed(backend.id) \in FailedEvents
    BY <1>2 DEF Failed, FailedEvents
  <2>. QED
    BY SMTT(30), <2>1, ShapeFacts DEF InitiatePaste, Emit
<1>5. Shapes'
  BY <1>0, <1>1, <1>4 DEF InitiatePaste, ShapeInv, Shapes, GivesUp
<1>6. OneTransfer' /\ StreamsGivenOut'
  BY <1>0, <1>1, GivingUp DEF InitiatePaste
<1>7. ServerQueue(toServer', st.stream, copied)
  <2>1. [kind |-> "paste", copy |-> "files"] \in ToServer
    BY DEF ToServer, Pastes
  <2>2. toServer' = toServer \/ toServer' = Append(toServer, [kind |-> "paste", copy |-> "files"])
    BY DEF InitiatePaste, SendClipboard, Lost
  <2>. QED
    BY <1>3, <2>1, <2>2, QueuesAppend DEF ShapeInv, Queues
<1>8. Queues'
  BY <1>1, <1>7 DEF InitiatePaste, ShapeInv, Queues, GivesUp
<1>. QED
  BY <1>1, <1>5, <1>6, <1>8 DEF ShapeInv

\* A list arrives: it is passed over, or its transfer is prepared.
Prepared(t) ==
    /\ st.pending # 0 /\ t \in {None} \cup TransferSet
    /\ backend' = [at |-> "install", id |-> st.pending, t |-> t]
    /\ dirs' = IF IsTransfer(t) THEN dirs \cup {st.pending} ELSE dirs
    /\ IsTransfer(t) =>
         /\ t.id = st.pending /\ t.lock = Message.lock /\ t.files = Message.files
         /\ t.file = 1 /\ t.offset = 0 /\ t.requested = 0 /\ t.got = <<>>

LEMMA PreparedFacts ==
    ASSUME ShapeInv, ReceiveRemoteFiles
    PROVE  /\ Message \in Lists
           /\ \/ UNCHANGED <<backend, dirs>>
              \/ \E t \in {None} \cup TransferSet : Prepared(t)
<1>0. Callback /\ st \in States
  BY ShapeFacts DEF ReceiveRemoteFiles
<1>1. Message \in Lists
  <2>1. Message \in ToClient /\ Message.kind = "list"
    BY <1>0, CallbackFacts DEF ReceiveRemoteFiles
  <2>. QED
    BY <2>1 DEF ToClient, Formats, TextAnswers, Lists, Contents, Failures, SizeAnswers, RangeAnswers
<1>2. CASE st.pending = 0
  BY <1>1, <1>2 DEF ReceiveRemoteFiles
<1>3. CASE st.pending # 0
  <2>. DEFINE t == [id |-> st.pending, lock |-> Message.lock, files |-> Message.files, file |-> 1, offset |-> 0,
                    expected |-> 0, accounted |-> 0, asked |-> 0, requested |-> 0, got |-> <<>>]
  <2>1. PICK valid \in BOOLEAN :
          /\ backend' = [at |-> "install", id |-> st.pending, t |-> IF valid THEN t ELSE None]
          /\ dirs' = IF valid THEN dirs \cup {st.pending} ELSE dirs
    BY <1>3 DEF ReceiveRemoteFiles
  <2>2. t \in TransferSet
    BY <1>0, <1>1 DEF TransferSet, Lists, States
  <2>3. /\ t.id = st.pending /\ t.lock = Message.lock /\ t.files = Message.files
        /\ t.file = 1 /\ t.offset = 0 /\ t.requested = 0 /\ t.got = <<>>
    OBVIOUS
  <2>. HIDE DEF t
  <2>4. IsTransfer(t) /\ ~IsTransfer(None)
    BY <2>2, TransferIsOne DEF IsTransfer
  <2>5. CASE valid
    BY <1>1, <1>3, <2>1, <2>2, <2>3, <2>4, <2>5 DEF Prepared
  <2>6. CASE ~valid
    BY <1>1, <1>3, <2>1, <2>4, <2>6 DEF Prepared
  <2>. QED
    BY <2>5, <2>6
<1>. QED
  BY <1>2, <1>3

\* The list is received.
LEMMA ShapeList ==
    ASSUME ShapeInv, ReceiveRemoteFiles
    PROVE  ShapeInv'
<1>0. st \in States /\ Callback /\ backend = Idle
  BY ShapeFacts DEF ReceiveRemoteFiles, Callback
<1>1. UNCHANGED <<st, open, events, cancelled, copyOf, copied, toServer, served, used>>
      /\ toClient' = Tail(toClient)
  BY DEF ReceiveRemoteFiles, Receive
<1>2. Queues'
  BY <1>0, <1>1, CallbackFacts DEF Queues, ShapeInv
<1>3. CASE UNCHANGED backend
  <2>1. GivesUp
    BY <1>0, <1>1 DEF GivesUp
  <2>2. OneTransfer' /\ StreamsGivenOut'
    BY <1>1, <1>3, <2>1, GivingUp
  <2>3. Shapes'
    BY <1>1, <1>3 DEF ShapeInv, Shapes
  <2>. QED
    BY <1>2, <2>2, <2>3 DEF ShapeInv
<1>4. ASSUME NEW t \in {None} \cup TransferSet, Prepared(t)
      PROVE  ShapeInv'
  <2>1. backend' \in Installing /\ backend'.at = "install" /\ backend'.id = st.pending /\ backend'.t = t
    BY <1>0, <1>4 DEF Prepared, Installing, States
  <2>2. backend' # Idle
    BY <2>1 DEF Idle
  <2>3. Shapes'
    BY <1>1, <2>1 DEF ShapeInv, Shapes
  <2>4. st.pending = Current /\ copyOf # <<>> /\ ~IsTransfer(st.transfer)
    BY <1>4 DEF Prepared, ShapeInv, OneTransfer
  <2>5. IsTransfer(t) => t.id = st.pending
    BY <1>4 DEF Prepared
  <2>6. OneTransfer'
    BY <1>1, <2>1, <2>2, <2>4, <2>5 DEF ShapeInv, OneTransfer, Current
  <2>7. StreamsGivenOut'
    BY <1>1, <2>1 DEF ShapeInv, StreamsGivenOut
  <2>. QED
    BY <1>2, <2>3, <2>6, <2>7 DEF ShapeInv
<1>. QED
  BY <1>3, <1>4, PreparedFacts

\* A transfer is installed: it was given up, it could not be laid out, or it starts.
Installs(a) ==
    /\ st.pending = backend.id /\ st' \in States /\ st'.pending = 0 /\ st'.sequence = st.sequence
    /\ backend' = [at |-> "dispatch", id |-> backend.id, do |-> a] /\ dirs' = dirs
    /\ \/ ~IsTransfer(backend.t) /\ a = Fail(None) /\ st'.transfer = st.transfer /\ st'.stream = st.stream
       \/ /\ backend.t \in TransferSet /\ a = Start(backend.t, st.stream)
          /\ st'.transfer = (IF a.act = "request" THEN a.t ELSE st.transfer) /\ st'.stream = st.stream + 1

LEMMA InstallFacts ==
    ASSUME ShapeInv, InstallRemoteTransfer
    PROVE  /\ backend \in Installing /\ backend.at = "install" /\ backend.id = Current /\ copyOf # <<>>
           /\ ~IsTransfer(st.transfer)
           /\ \/ st' = st /\ backend' = Idle /\ dirs' = dirs \ {backend.id} /\ st.pending # backend.id
              \/ \E a \in Wants \cup Endings \cup Fails : Installs(a)
<1>0. st \in States
  BY ShapeFacts
<1>1. backend \in Installing /\ backend.at = "install"
  <2>1. backend \in {Idle} \cup Pasting \cup Installing \cup Dispatching /\ backend.at = "install"
    BY ShapeFacts DEF InstallRemoteTransfer
  <2>. QED
    BY <2>1 DEF Idle, Pasting, Dispatching
<1>2. backend.id = Current /\ copyOf # <<>> /\ ~IsTransfer(st.transfer)
  <2>1. backend # Idle
    BY <1>1 DEF Idle
  <2>. QED
    BY <1>1, <2>1 DEF ShapeInv, OneTransfer
<1>3. CASE st.pending # backend.id
  BY <1>1, <1>2, <1>3 DEF InstallRemoteTransfer
<1>4. CASE st.pending = backend.id /\ ~IsTransfer(backend.t)
  <2>1. /\ st' = [st EXCEPT !.pending = 0]
        /\ backend' = [at |-> "dispatch", id |-> backend.id, do |-> Fail(None)] /\ dirs' = dirs
    BY <1>4 DEF InstallRemoteTransfer
  <2>2. Fail(None) \in Fails
    BY DEF Fail, Fails
  <2>3. st' \in States /\ st'.pending = 0 /\ st'.sequence = st.sequence /\ st'.transfer = st.transfer
        /\ st'.stream = st.stream
    BY <1>0, <2>1 DEF States
  <2>4. Installs(Fail(None))
    BY <1>4, <2>1, <2>3 DEF Installs
  <2>. QED
    BY <1>1, <1>2, <2>2, <2>4
<1>5. CASE st.pending = backend.id /\ IsTransfer(backend.t)
  <2>. DEFINE a == Start(backend.t, st.stream)
  <2>1. backend.t \in TransferSet /\ st.stream \in Nat
    BY <1>0, <1>1, <1>5 DEF Installing, IsTransfer, States
  <2>2. a \in Wants \cup Endings \cup Fails /\ a.t \in TransferSet
    BY <2>1, StartShape DEF Stepped
  <2>3. /\ st' = [st EXCEPT !.pending = 0, !.stream = st.stream + 1,
                            !.transfer = IF a.act = "request" THEN a.t ELSE @]
        /\ backend' = [at |-> "dispatch", id |-> backend.id, do |-> a] /\ dirs' = dirs
    <3>1. [st EXCEPT !.pending = 0].stream = st.stream
      BY <1>0 DEF States
    <3>. QED
      BY <1>0, <1>5, <3>1 DEF InstallRemoteTransfer, AllocateStreamId, States
  <2>4. st.stream + 1 \in Nat
    BY <2>1
  <2>. HIDE DEF a
  <2>5. st' \in States /\ st'.pending = 0 /\ st'.sequence = st.sequence /\ st'.stream = st.stream + 1
        /\ st'.transfer = (IF a.act = "request" THEN a.t ELSE st.transfer)
    BY <1>0, <2>2, <2>3, <2>4 DEF States
  <2>6. Installs(a)
    BY <1>5, <2>1, <2>3, <2>5 DEF Installs, a
  <2>. QED
    BY <1>1, <1>2, <2>2, <2>6
<1>. QED
  BY <1>3, <1>4, <1>5

\* A transfer is installed.
LEMMA ShapeInstall ==
    ASSUME ShapeInv, InstallRemoteTransfer
    PROVE  ShapeInv'
<1>0. st \in States /\ st.stream \in Nat /\ st.stream >= 1 /\ copied \in Nat
  BY ShapeFacts
<1>1. UNCHANGED <<open, events, cancelled, copyOf, copied, toServer, toClient, served, used>>
  BY DEF InstallRemoteTransfer, serverVars
<1>2. backend \in Installing /\ backend.at = "install" /\ backend.id = Current /\ copyOf # <<>>
      /\ ~IsTransfer(st.transfer)
  BY InstallFacts
<1>3. CASE st' = st /\ backend' = Idle
  <2>1. GivesUp
    BY <1>0, <1>3 DEF GivesUp
  <2>2. OneTransfer' /\ StreamsGivenOut'
    BY <1>1, <1>3, <2>1, GivingUp
  <2>3. Shapes'
    BY <1>1, <1>3 DEF ShapeInv, Shapes
  <2>4. Queues'
    BY <1>1, <1>3 DEF ShapeInv, Queues
  <2>. QED
    BY <2>2, <2>3, <2>4 DEF ShapeInv
<1>4. ASSUME NEW a \in Wants \cup Endings \cup Fails, Installs(a)
      PROVE  ShapeInv'
  <2>1. backend' \in Dispatching /\ backend'.at = "dispatch" /\ backend'.id = Current /\ backend'.do = a
    <3>1. backend.id \in Nat
      BY <1>2 DEF Installing
    <3>. QED
      BY <1>2, <1>4, <3>1 DEF Installs, Dispatching
  <2>2. backend' # Idle
    BY <2>1 DEF Idle
  <2>3. Shapes'
    BY <1>1, <1>4, <2>1 DEF Installs, ShapeInv, Shapes
  <2>4. st'.stream \in Nat /\ st.stream <= st'.stream
    BY <1>0, <1>4 DEF Installs
  <2>5. Queues'
    <3>1. ServerQueue(toServer, st'.stream, copied) /\ ClientQueue(toClient, st'.stream, copied)
      <4>1. copied <= copied
        BY <1>0
      <4>2. ServerQueue(toServer, st.stream, copied) /\ ClientQueue(toClient, st.stream, copied)
        BY DEF ShapeInv, Queues
      <4>. QED
        BY <1>0, <2>4, <4>1, <4>2, QueuesGrow
    <3>. QED
      BY <1>1, <3>1 DEF ShapeInv, Queues
  <2>6. CASE ~IsTransfer(backend.t)
    <3>1. a = Fail(None) /\ st'.transfer = st.transfer /\ st'.stream = st.stream /\ a.act = "fail"
      <4>1. backend.t \notin TransferSet
        BY <2>6, TransferIsOne
      <4>. QED
        BY <1>4, <4>1 DEF Installs, Fail
    <3>2. OneTransfer'
      BY <1>1, <1>2, <1>4, <2>1, <2>2, <3>1 DEF Installs, ShapeInv, OneTransfer, Current
    <3>3. StreamsGivenOut'
      BY <1>0, <1>2, <2>1, <3>1 DEF StreamsGivenOut
    <3>. QED
      BY <2>3, <2>5, <3>2, <3>3 DEF ShapeInv
  <2>7. CASE IsTransfer(backend.t)
    <3>1. /\ backend.t \in TransferSet /\ a = Start(backend.t, st.stream)
          /\ st'.transfer = (IF a.act = "request" THEN a.t ELSE st.transfer) /\ st'.stream = st.stream + 1
      BY <1>4, <2>7 DEF Installs
    <3>2. Stepped(a, backend.t, st.stream) /\ backend.t.id = Current
      BY <1>0, <1>2, <2>7, <3>1, StartShape DEF ShapeInv, OneTransfer
    <3>3. a.act = "request" => st'.transfer.id = Current /\ st'.transfer.asked = st.stream
                               /\ a.request.stream = st.stream
      <4>1. ASSUME a.act = "request" PROVE a.request.stream = st.stream
        BY <3>2, <4>1 DEF Stepped, Asked, Request
      <4>. QED
        BY <3>1, <3>2, <4>1 DEF Stepped
    <3>4. a.act # "request" => ~IsTransfer(st'.transfer)
      BY <1>2, <3>1
    <3>5. st'.sequence = st.sequence /\ st'.pending = 0
      BY <1>4 DEF Installs
    <3>6. OneTransfer'
      BY <1>1, <1>2, <2>1, <2>2, <3>3, <3>4, <3>5 DEF ShapeInv, OneTransfer, Current
    <3>7. StreamsGivenOut'
      BY <1>0, <2>1, <3>1, <3>3, <3>4 DEF StreamsGivenOut
    <3>. QED
      BY <2>3, <2>5, <3>6, <3>7 DEF ShapeInv
  <2>. QED
    BY <2>6, <2>7
<1>. QED
  BY <1>3, <1>4, InstallFacts

\* An answer is used: a is what the transfer makes of it.
Advances(a) ==
    /\ a = Advance(st.transfer, Message, st.stream) /\ Stepped(a, st.transfer, st.stream)
    /\ st.transfer \in TransferSet /\ st.transfer.id = Current
    /\ st' \in States /\ st'.pending = st.pending /\ st'.sequence = st.sequence /\ st'.stream = st.stream + 1
    /\ st'.transfer = (IF a.act \in {"request", "ignore"} THEN a.t ELSE None)
    /\ dirs' = (IF a.act = "fail" THEN dirs \ {Current} ELSE dirs)
    /\ backend' = [at |-> "dispatch", id |-> Current, do |-> a]

LEMMA AdvanceFacts ==
    ASSUME ShapeInv, AdvanceRemoteTransfer
    PROVE  /\ Message \in Contents
           /\ \/ UNCHANGED <<st, backend, dirs>> /\ ~IsTransfer(st.transfer)
              \/ IsTransfer(st.transfer) /\ \E a \in Wants \cup Endings \cup Fails : Advances(a)
<1>0. Callback /\ st \in States /\ st.stream \in Nat
  BY ShapeFacts DEF AdvanceRemoteTransfer
<1>1. Message \in Contents
  <2>1. Message \in ToClient /\ Message.kind = "contents"
    BY <1>0, CallbackFacts DEF AdvanceRemoteTransfer
  <2>. QED
    BY <2>1 DEF ToClient, Formats, TextAnswers, Lists
<1>2. CASE ~IsTransfer(st.transfer)
  BY <1>1, <1>2 DEF AdvanceRemoteTransfer
<1>3. CASE IsTransfer(st.transfer)
  <2>. DEFINE a == Advance(st.transfer, Message, st.stream)
  <2>1. st.transfer \in TransferSet
    BY <1>0, <1>3 DEF States, IsTransfer
  <2>2. st.transfer.asked # 0 /\ st.transfer.id = Current
    BY <1>3 DEF ShapeInv, StreamsGivenOut, OneTransfer
  <2>3. Stepped(a, st.transfer, st.stream)
    BY <1>0, <1>1, <2>1, <2>2, AdvanceShape
  <2>4. a \in Wants \cup Endings \cup Fails /\ a.t \in TransferSet /\ a.t.id = Current
    BY <2>2, <2>3 DEF Stepped
  <2>5. /\ st' = [st EXCEPT !.stream = @ + 1, !.transfer = IF a.act \in {"request", "ignore"} THEN a.t ELSE None]
        /\ dirs' = IF a.act = "fail" THEN dirs \ {a.t.id} ELSE dirs
        /\ backend' = [at |-> "dispatch", id |-> st.transfer.id, do |-> a]
    BY <1>0, <1>3 DEF AdvanceRemoteTransfer, AllocateStreamId, States
  <2>6. st.stream + 1 \in Nat
    BY <1>0
  <2>. HIDE DEF a
  <2>7. st' \in States /\ st'.pending = st.pending /\ st'.sequence = st.sequence /\ st'.stream = st.stream + 1
        /\ st'.transfer = (IF a.act \in {"request", "ignore"} THEN a.t ELSE None)
    BY <1>0, <2>4, <2>5, <2>6 DEF States
  <2>8. Advances(a)
    BY <2>1, <2>2, <2>3, <2>4, <2>5, <2>7 DEF Advances, a
  <2>. QED
    BY <1>1, <1>3, <2>4, <2>8
<1>. QED
  BY <1>2, <1>3

\* An answer is received.
LEMMA ShapeAdvance ==
    ASSUME ShapeInv, AdvanceRemoteTransfer
    PROVE  ShapeInv'
<1>0. Callback /\ st \in States /\ st.stream \in Nat /\ st.stream >= 1 /\ copied \in Nat
  BY ShapeFacts DEF AdvanceRemoteTransfer
<1>1. UNCHANGED <<open, events, cancelled, copyOf, copied, toServer, served, used>> /\ toClient' = Tail(toClient)
  BY DEF AdvanceRemoteTransfer, Receive
<1>2. CASE UNCHANGED <<st, backend>>
  <2>1. GivesUp
    BY <1>0, <1>2 DEF GivesUp
  <2>2. OneTransfer' /\ StreamsGivenOut'
    BY <1>1, <1>2, <2>1, GivingUp
  <2>3. Shapes'
    BY <1>1, <1>2 DEF ShapeInv, Shapes
  <2>4. Queues'
    BY <1>0, <1>1, <1>2, CallbackFacts DEF ShapeInv, Queues
  <2>. QED
    BY <2>2, <2>3, <2>4 DEF ShapeInv
<1>3. ASSUME NEW a \in Wants \cup Endings \cup Fails, Advances(a), IsTransfer(st.transfer)
      PROVE  ShapeInv'
  <2>1. backend' \in Dispatching /\ backend'.at = "dispatch" /\ backend'.id = Current /\ backend'.do = a
    <3>1. Current \in Nat
      BY <1>3 DEF Advances, TransferSet
    <3>. QED
      BY <1>3, <3>1 DEF Advances, Dispatching
  <2>2. backend' # Idle
    BY <2>1 DEF Idle
  <2>3. Shapes'
    BY <1>1, <1>3, <2>1 DEF Advances, ShapeInv, Shapes
  <2>4. st'.stream = st.stream + 1 /\ st'.stream \in Nat /\ st.stream <= st'.stream
    BY <1>0, <1>3 DEF Advances
  <2>5. Queues'
    <3>1. ServerQueue(toServer, st.stream, copied) /\ ClientQueue(Tail(toClient), st.stream, copied)
      BY <1>0, CallbackFacts DEF ShapeInv, Queues
    <3>2. copied <= copied
      BY <1>0
    <3>3. ServerQueue(toServer, st'.stream, copied) /\ ClientQueue(Tail(toClient), st'.stream, copied)
      BY <1>0, <2>4, <3>1, <3>2, QueuesGrow
    <3>. QED
      BY <1>1, <3>3 DEF ShapeInv, Queues
  <2>6. st.pending = 0 /\ copyOf # <<>> /\ st.transfer.asked \in 1 .. st.stream - 1
    BY <1>3 DEF ShapeInv, OneTransfer, StreamsGivenOut
  <2>7. a.act = "request" => a.t.asked = st.stream /\ a.request.stream = st.stream
    BY <1>3 DEF Advances, Stepped, Asked, Request
  <2>8. a.act = "ignore" => a.t = st.transfer
    BY <1>3 DEF Advances, Stepped
  <2>9. a.t.id = Current /\ ~IsTransfer(None)
    BY <1>3 DEF Advances, Stepped, IsTransfer
  <2>10. /\ st'.pending = 0 /\ st'.sequence = st.sequence
         /\ st'.transfer = (IF a.act \in {"request", "ignore"} THEN a.t ELSE None)
    BY <1>3, <2>6 DEF Advances
  <2>11. OneTransfer'
    BY <1>1, <2>1, <2>2, <2>6, <2>9, <2>10 DEF ShapeInv, OneTransfer, Current
  <2>12. StreamsGivenOut'
    <3>1. a.act \in {"request", "ignore"} => a.t.asked \in 1 .. st.stream
      BY <1>0, <2>6, <2>7, <2>8
    <3>. QED
      BY <1>0, <2>1, <2>4, <2>7, <2>9, <2>10, <3>1 DEF StreamsGivenOut
  <2>. QED
    BY <2>3, <2>5, <2>11, <2>12 DEF ShapeInv
<1>. QED
  BY <1>2, <1>3, AdvanceFacts

\* The outcome of a step is passed on.
Dispatches ==
    /\ backend \in Dispatching /\ backend.at = "dispatch" /\ backend.id = Current /\ copyOf # <<>>
    /\ st.pending = 0 /\ backend' = Idle
    /\ \/ /\ backend.do.act = "request" /\ backend.do.request \in Requests
          /\ toServer' = Append(toServer, backend.do.request) /\ UNCHANGED <<st, dirs, events>>
       \/ /\ backend.do.act = "request" /\ UNCHANGED toServer /\ events' = Append(events, Failed(Current))
          /\ st' = [st EXCEPT !.transfer = None] /\ dirs' = dirs \ DirsOf(st)
       \/ /\ backend.do.act = "ready" /\ UNCHANGED <<st, dirs, toServer>> /\ backend.do.t \in TransferSet
          /\ events' = Append(events, [kind |-> "ready", id |-> Current, got |-> backend.do.t.got])
       \/ /\ backend.do.act = "fail" /\ UNCHANGED <<st, dirs, toServer>>
          /\ events' = Append(events, Failed(Current))
       \/ backend.do.act = "ignore" /\ UNCHANGED <<st, dirs, events, toServer>>

LEMMA DispatchFacts ==
    ASSUME ShapeInv, DispatchRemoteResult
    PROVE  Dispatches
<1>0. st \in States
  BY ShapeFacts
<1>1. backend \in Dispatching /\ backend.at = "dispatch"
  <2>1. backend \in {Idle} \cup Pasting \cup Installing \cup Dispatching /\ backend.at = "dispatch"
    BY ShapeFacts DEF DispatchRemoteResult
  <2>. QED
    BY <2>1 DEF Idle, Pasting, Installing
<1>2. backend.id = Current /\ copyOf # <<>> /\ st.pending = 0 /\ backend' = Idle
  <2>1. backend # Idle
    BY <1>1 DEF Idle
  <2>. QED
    BY <1>1, <2>1 DEF ShapeInv, OneTransfer, DispatchRemoteResult
<1>3. backend.do \in Wants \cup Endings \cup Fails
  BY <1>1 DEF Dispatching
<1>4. CASE backend.do.act = "request"
  <2>1. backend.do \in Wants
    BY <1>3, <1>4 DEF Endings, Fails
  <2>2. backend.do.request \in Requests
    BY <2>1 DEF Wants
  <2>3. CASE SendClipboard(backend.do.request) /\ UNCHANGED <<st, dirs, events>>
    BY <1>1, <1>2, <1>4, <2>2, <2>3 DEF Dispatches, SendClipboard
  <2>. DEFINE s == [st EXCEPT !.transfer = IF IsTransfer(@) /\ @.id = backend.id THEN None ELSE @]
  <2>4. CASE Lost /\ Emit(Failed(backend.id)) /\ st' = s /\ dirs' = dirs \ Dropping(st, s)
    <3>1. s = [st EXCEPT !.transfer = None]
      <4>1. (IF IsTransfer(st.transfer) /\ st.transfer.id = backend.id THEN None ELSE st.transfer) = None
        BY <1>2 DEF ShapeInv, OneTransfer, IsTransfer
      <4>. QED
        BY <4>1
    <3>2. DirsOf(s) = {}
      BY <1>0, <3>1 DEF DirsOf, IsTransfer, States
    <3>3. Dropping(st, s) = DirsOf(st)
      BY <3>2 DEF Dropping
    <3>. HIDE DEF s
    <3>. QED
      BY <1>1, <1>2, <1>4, <2>4, <3>1, <3>3 DEF Dispatches, Lost, Emit
  <2>5. \/ SendClipboard(backend.do.request) /\ UNCHANGED <<st, dirs, events>>
        \/ Lost /\ Emit(Failed(backend.id)) /\ st' = s /\ dirs' = dirs \ Dropping(st, s)
    BY <1>4 DEF DispatchRemoteResult
  <2>. QED
    BY <2>3, <2>4, <2>5
<1>5. CASE backend.do.act = "ready"
  <2>1. backend.do.t \in TransferSet
    BY <1>3, <1>5 DEF Wants, Endings, Fails
  <2>2. Emit([kind |-> "ready", id |-> backend.id, got |-> backend.do.t.got]) /\ UNCHANGED <<st, dirs, toServer>>
    BY <1>5 DEF DispatchRemoteResult
  <2>. QED
    BY <1>1, <1>2, <1>5, <2>1, <2>2 DEF Dispatches, Emit
<1>6. CASE backend.do.act = "fail"
  <2>1. Emit(Failed(backend.id)) /\ UNCHANGED <<st, dirs, toServer>>
    BY <1>6 DEF DispatchRemoteResult
  <2>. QED
    BY <1>1, <1>2, <1>6, <2>1 DEF Dispatches, Emit
<1>7. CASE backend.do.act = "ignore"
  <2>1. UNCHANGED <<st, dirs, events, toServer>>
    BY <1>7 DEF DispatchRemoteResult
  <2>. QED
    BY <1>1, <1>2, <1>7, <2>1 DEF Dispatches
<1>8. backend.do.act \in {"request", "ready", "fail", "ignore"}
  BY <1>3 DEF Wants, Endings, Fails
<1>. QED
  BY <1>4, <1>5, <1>6, <1>7, <1>8

\* The outcome of a step is passed on.
LEMMA ShapeDispatch ==
    ASSUME ShapeInv, DispatchRemoteResult
    PROVE  ShapeInv' /\ GivesUp
<1>0. st \in States /\ events \in Seq(TextEvents \cup FailedEvents \cup ReadyEvents)
  BY ShapeFacts
<1>1. Dispatches
  BY DispatchFacts
<1>2. UNCHANGED <<open, cancelled, copyOf, copied, toClient, served, used>>
  BY DEF DispatchRemoteResult
<1>3. GivesUp
  BY <1>0, <1>1 DEF Dispatches, GivesUp, States
<1>4. Current \in Nat
  BY <1>1 DEF Dispatches, Dispatching
<1>5. events' \in Seq(TextEvents \cup FailedEvents \cup ReadyEvents)
  <2>1. Failed(Current) \in FailedEvents
    BY <1>4 DEF Failed, FailedEvents
  <2>2. backend.do.t \in TransferSet => [kind |-> "ready", id |-> Current, got |-> backend.do.t.got] \in ReadyEvents
    BY <1>4 DEF ReadyEvents, TransferSet
  <2>3. \/ events' = events \/ events' = Append(events, Failed(Current))
        \/ backend.do.t \in TransferSet
             /\ events' = Append(events, [kind |-> "ready", id |-> Current, got |-> backend.do.t.got])
    BY <1>1 DEF Dispatches
  <2>. QED
    BY <1>0, <2>1, <2>2, <2>3
<1>6. OneTransfer' /\ StreamsGivenOut'
  BY <1>1, <1>2, <1>3, GivingUp DEF Dispatches
<1>7. Shapes'
  BY <1>1, <1>2, <1>3, <1>5 DEF Dispatches, GivesUp, ShapeInv, Shapes
<1>8. ServerQueue(toServer', st.stream, copied)
  <2>0. ServerQueue(toServer, st.stream, copied) /\ copied >= 1
    BY <1>1 DEF Dispatches, ShapeInv, Queues
  <2>1. CASE toServer' = toServer
    BY <2>0, <2>1
  <2>2. CASE /\ backend.do.act = "request" /\ backend.do.request \in Requests
             /\ toServer' = Append(toServer, backend.do.request)
    <3>1. backend.do.request \in ToServer
      BY <2>2 DEF ToServer
    <3>2. backend.do.request.stream < st.stream
      BY <1>1, <2>2 DEF Dispatches, ShapeInv, StreamsGivenOut
    <3>. QED
      BY <2>0, <2>2, <3>1, <3>2, QueuesAppend
  <2>. QED
    BY <1>1, <2>1, <2>2 DEF Dispatches
<1>9. Queues'
  BY <1>2, <1>3, <1>8 DEF ShapeInv, Queues, GivesUp
<1>. QED
  BY <1>3, <1>6, <1>7, <1>9 DEF ShapeInv

\* The ids that the host can cancel.
LEMMA CancelIds ==
    ASSUME \E id \in {RemoteId(i) : i \in 1..Len(Copies)} \cup (1..LocalSets) : CancelTransfer(id)
    PROVE  \E id \in Nat : CancelTransfer(id)
<1>1. {RemoteId(i) : i \in 1..Len(Copies)} \cup (1..LocalSets) \subseteq Nat
  BY ClipboardAssumption DEF RemoteId, RemoteBit
<1>. QED
  BY <1>1

\* Every step keeps the shapes.
LEMMA ShapeStep == ShapeInv /\ [Next]_vars => ShapeInv'
<1>. SUFFICES ASSUME ShapeInv, [Next]_vars PROVE ShapeInv'
  OBVIOUS
<1>1. CASE SetLocalText \/ SetLocalFiles \/ SetLocalFilesFails
  BY <1>1, ShapeLocal
<1>2. CASE Shutdown \/ ClientEnds \/ \E id \in {RemoteId(i) : i \in 1..Len(Copies)} \cup (1..LocalSets) : CancelTransfer(id)
  BY <1>2, CancelIds, ShapeController
<1>3. CASE OnRemoteCopyFiles
  BY <1>3, ShapeCopyFiles
<1>4. CASE InitiatePaste
  BY <1>4, ShapePaste
<1>5. CASE OnRemoteCopyText \/ OnFormatDataResponse \/ CancelRemoteLocks \/ OnRequestFormatList \/ BuildCliprdrBackend
  BY <1>5, ShapeTexts
<1>6. CASE ReceiveRemoteFiles
  BY <1>6, ShapeList
<1>7. CASE InstallRemoteTransfer
  BY <1>7, ShapeInstall
<1>8. CASE AdvanceRemoteTransfer
  BY <1>8, ShapeAdvance
<1>9. CASE DispatchRemoteResult
  BY <1>9, ShapeDispatch
<1>10. CASE OnLock \/ OnUnlock \/ SendLocalFileResponse \/ SendLocalTextResponse
  BY <1>10, ShapeServing
<1>11. CASE ServerCopies \/ ServerAnswers
  BY <1>11, ShapeServer
<1>12. CASE UNCHANGED vars
  BY <1>12 DEF vars, ShapeInv, Shapes, OneTransfer, StreamsGivenOut, Queues, Current
<1>. QED
  BY <1>1, <1>2, <1>3, <1>4, <1>5, <1>6, <1>7, <1>8, <1>9, <1>10, <1>11, <1>12 DEF Next
----------------------------------------------------------------------------
(* The second layer: what arrives, and in which order *)

\* What a step can do to the channel from the server: nothing; a new session; a
\* message is taken, and a transfer reserved if it announces files; a copy is
\* announced; a request is answered.
Stays == UNCHANGED <<toClient, copied, copyOf>>
Resets == toClient' = <<>> /\ UNCHANGED <<copied, copyOf>>
Takes == /\ toClient # <<>> /\ toClient' = Tail(toClient) /\ UNCHANGED copied
         /\ \/ UNCHANGED copyOf
            \/ Message \in Formats /\ Message.copy = "files" /\ copyOf' = Append(copyOf, Message.number)
Announces == /\ copied' = copied + 1 /\ UNCHANGED copyOf
             /\ toClient' = Append(toClient, [kind |-> "formats", copy |-> Copies[copied'], number |-> copied'])
Gets(m) == /\ toClient' = Append(toClient, m) /\ UNCHANGED <<copied, copyOf>> /\ copied >= 1
           /\ \/ m \in TextAnswers
              \/ m \in Lists /\ Copies[copied] = "files" /\ ListOf(m, copied)
              \/ m \in Contents

LEMMA ChannelMoves ==
    ASSUME ShapeInv, [Next]_vars
    PROVE  Stays \/ Resets \/ Takes \/ Announces \/ \E m \in ToClient : Gets(m)
<1>1. CASE SetLocalText \/ SetLocalFiles \/ SetLocalFilesFails
  BY <1>1 DEF SetLocalText, SetLocalFiles, SetLocal, SetLocalFilesFails, Stays
<1>2. CASE Shutdown \/ ClientEnds \/ \E id \in {RemoteId(i) : i \in 1..Len(Copies)} \cup (1..LocalSets) : CancelTransfer(id)
  BY <1>2 DEF Shutdown, ClientEnds, CancelTransfer, serverVars, Stays
<1>3. CASE OnRemoteCopyFiles
  BY <1>3, ReservedFacts DEF OnRemoteCopyFiles, Callback, Reserved, Takes
<1>4. CASE OnRemoteCopyText \/ OnFormatDataResponse \/ ReceiveRemoteFiles \/ AdvanceRemoteTransfer
  BY <1>4 DEF OnRemoteCopyText, OnFormatDataResponse, ReceiveRemoteFiles, AdvanceRemoteTransfer, Callback, Receive, Takes
<1>5. CASE BuildCliprdrBackend
  BY <1>5 DEF BuildCliprdrBackend, Resets
<1>6. CASE InitiatePaste \/ InstallRemoteTransfer \/ DispatchRemoteResult \/ CancelRemoteLocks \/ OnRequestFormatList
  BY <1>6 DEF InitiatePaste, InstallRemoteTransfer, DispatchRemoteResult, CancelRemoteLocks, OnRequestFormatList,
              serverVars, Stays
<1>7. CASE OnLock \/ OnUnlock \/ SendLocalFileResponse \/ SendLocalTextResponse
  BY <1>7 DEF OnLock, OnUnlock, SendLocalFileResponse, SendLocalTextResponse, serverVars, Stays
<1>8. CASE ServerCopies
  BY <1>8 DEF ServerCopies, Announces
<1>9. CASE ServerAnswers
  <2>1. PICK at \in DOMAIN toServer : Answered(at)
    BY <1>9, ServerAnswerCases
  <2>2. UNCHANGED <<copied, copyOf>>
    BY <1>9, ServerAnswerCases
  <2>3. copied \in 0 .. Len(Copies) /\ Len(Copies) \in Nat
    BY ClipboardAssumption DEF ShapeInv, Shapes
  <2>4. CASE toClient' = toClient
    BY <2>2, <2>4 DEF Stays
  <2>5. ASSUME NEW e \in BOOLEAN, NEW n \in 1 .. copied,
               toClient' = Append(toClient, [kind |-> "text", error |-> e, number |-> n])
        PROVE  \E m \in ToClient : Gets(m)
    <3>1. [kind |-> "text", error |-> e, number |-> n] \in TextAnswers /\ copied >= 1
      BY <2>3 DEF TextAnswers
    <3>2. Gets([kind |-> "text", error |-> e, number |-> n])
      BY <2>2, <2>5, <3>1 DEF Gets
    <3>. QED
      BY <3>1, <3>2 DEF ToClient
  <2>6. ASSUME NEW l \in {0, copied}, NEW f \in Seq(Seq(Nat)),
               copied >= 1, Copies[copied] = "files", Len(f) = Len(Sizes[copied]),
               toClient' = Append(toClient, [kind |-> "list", lock |-> l, files |-> f])
        PROVE  \E m \in ToClient : Gets(m)
    <3>. DEFINE m == [kind |-> "list", lock |-> l, files |-> f]
    <3>1. l \in LockIds
      BY <2>3 DEF LockIds
    <3>2. m \in Lists /\ m \in ToClient
      BY <3>1 DEF Lists, ToClient
    <3>3. ListOf(m, copied)
      BY <2>6 DEF ListOf
    <3>4. Gets(m)
      BY <2>2, <2>6, <3>2, <3>3 DEF Gets
    <3>. QED
      BY <3>2, <3>4
  <2>7. ASSUME NEW r \in Contents, toServer[at] \in Requests, toClient' = Append(toClient, r)
        PROVE  \E m \in ToClient : Gets(m)
    <3>1. toServer[at].kind # "local copy"
      BY <2>7 DEF Requests
    <3>2. copied >= 1
      BY <3>1 DEF ShapeInv, Queues, ServerQueue
    <3>3. Gets(r) /\ r \in ToClient
      BY <2>2, <2>7, <3>2 DEF Gets, ToClient
    <3>. QED
      BY <3>3
  <2>. QED
    BY <2>1, <2>4, <2>5, <2>6, <2>7 DEF Answered
<1>10. CASE UNCHANGED vars
  BY <1>10 DEF vars, Stays
<1>. QED
  BY <1>1, <1>2, <1>3, <1>4, <1>5, <1>6, <1>7, <1>8, <1>9, <1>10 DEF Next

\* Numbers are numbers.
LEMMA NumbersAreNumbers ==
    ASSUME ShapeInv
    PROVE  /\ \A i \in DOMAIN toClient : IsNumbered(toClient[i]) => toClient[i].number \in Nat
           /\ \A c \in DOMAIN copyOf : copyOf[c] \in Nat
           /\ copied \in Nat
<1>1. toClient \in Seq(ToClient) /\ copyOf \in Seq(1 .. Len(Copies)) /\ copied \in Nat
  BY ShapeFacts
<1>2. ASSUME NEW m \in ToClient, IsNumbered(m) PROVE m.number \in Nat
  <2>1. m \in Formats
    BY <1>2 DEF IsNumbered, ToClient, TextAnswers, Lists, Contents, Failures, SizeAnswers, RangeAnswers
  <2>. QED
    BY <2>1 DEF Formats
<1>3. \A i \in DOMAIN toClient : toClient[i] \in ToClient
  BY <1>1
<1>4. \A c \in DOMAIN copyOf : copyOf[c] \in Nat
  BY <1>1
<1>. QED
  BY <1>1, <1>2, <1>3, <1>4

\* A message is taken from the channel.
LEMMA ChannelTakes ==
    ASSUME ShapeInv, ChannelInv, Takes
    PROVE  ChannelInv'
<1>0. toClient \in Seq(ToClient) /\ toClient # <<>> /\ toClient' = Tail(toClient) /\ copied' = copied
  BY ShapeFacts DEF Takes
<1>1. /\ \A i \in DOMAIN toClient' : i + 1 \in DOMAIN toClient /\ toClient'[i] = toClient[i + 1]
      /\ \A i \in DOMAIN toClient : i > 1 => i - 1 \in DOMAIN toClient' /\ toClient'[i - 1] = toClient[i]
      /\ DOMAIN toClient \subseteq Nat /\ DOMAIN toClient' \subseteq Nat /\ 1 \in DOMAIN toClient
  BY <1>0, TailElements
<1>2. Message = toClient[1]
  BY <1>0, TailElements DEF Message
<1>3. InOrder'
  <2>1. ASSUME NEW i \in DOMAIN toClient', NEW j \in DOMAIN toClient', i < j,
               IsNumbered(toClient'[i]), IsNumbered(toClient'[j])
        PROVE  toClient'[i].number <= toClient'[j].number
    BY <1>1, <2>1 DEF ChannelInv, InOrder
  <2>2. ASSUME NEW i \in DOMAIN toClient', IsNumbered(toClient'[i]) PROVE toClient'[i].number <= copied'
    BY <1>0, <1>1, <2>2 DEF ChannelInv, InOrder
  <2>3. \A c \in DOMAIN copyOf' :
          \/ c \in DOMAIN copyOf /\ copyOf'[c] = copyOf[c]
          \/ Message \in Formats /\ Message.copy = "files" /\ copyOf'[c] = Message.number
    <3>1. CASE copyOf' = copyOf
      BY <3>1
    <3>2. CASE Message \in Formats /\ Message.copy = "files" /\ copyOf' = Append(copyOf, Message.number)
      <4>1. copyOf \in Seq(1 .. Len(Copies)) /\ Message.number \in 1 .. Len(Copies)
        BY <3>2, ShapeFacts DEF Formats
      <4>. QED
        BY <3>2, <4>1, AppendElements
    <3>. QED
      BY <3>1, <3>2 DEF Takes
  <2>4. Message \in Formats => IsNumbered(toClient[1]) /\ IsFormats(1)
    BY <1>2 DEF Formats, IsNumbered, IsFormats
  <2>5. ASSUME NEW i \in DOMAIN toClient', IsNumbered(toClient'[i]), NEW c \in DOMAIN copyOf'
        PROVE  copyOf'[c] <= toClient'[i].number
    <3>0. i \in Nat \ {0}
      BY <1>0
    <3>1. i + 1 \in DOMAIN toClient /\ toClient'[i] = toClient[i + 1] /\ 1 < i + 1
      BY <1>1, <3>0
    <3>2. CASE c \in DOMAIN copyOf /\ copyOf'[c] = copyOf[c]
      BY <2>5, <3>1, <3>2 DEF ChannelInv, InOrder
    <3>3. CASE Message \in Formats /\ copyOf'[c] = Message.number
      BY <1>1, <1>2, <2>4, <2>5, <3>1, <3>3 DEF ChannelInv, InOrder
    <3>. QED
      BY <2>3, <3>2, <3>3
  <2>6. ASSUME NEW c \in DOMAIN copyOf' PROVE copyOf'[c] <= copied' /\ Copies[copyOf'[c]] = "files"
    <3>1. CASE c \in DOMAIN copyOf /\ copyOf'[c] = copyOf[c]
      BY <1>0, <3>1 DEF ChannelInv, InOrder
    <3>2. CASE Message \in Formats /\ Message.copy = "files" /\ copyOf'[c] = Message.number
      BY <1>0, <1>1, <1>2, <2>4, <3>2 DEF ChannelInv, InOrder
    <3>. QED
      BY <2>3, <3>1, <3>2
  <2>7. ASSUME NEW i \in DOMAIN toClient'
        PROVE  toClient'[i].kind = "formats" => toClient'[i].copy = Copies[toClient'[i].number]
    BY <1>1 DEF ChannelInv, InOrder, IsFormats
  <2>. QED
    BY <2>1, <2>2, <2>5, <2>6, <2>7 DEF InOrder, IsFormats
<1>4. LastIsNewest'
  <2>1. ASSUME NEW i \in DOMAIN toClient', toClient'[i].kind = "formats", toClient'[i].number # copied'
        PROVE  \E j \in DOMAIN toClient' : i < j /\ toClient'[j].kind = "formats"
    <3>1. PICK j \in DOMAIN toClient : i + 1 < j /\ toClient[j].kind = "formats"
      BY <1>0, <1>1, <2>1 DEF ChannelInv, LastIsNewest, IsFormats
    <3>2. j - 1 \in DOMAIN toClient' /\ toClient'[j - 1] = toClient[j] /\ i < j - 1
      BY <1>1, <3>1
    <3>. QED
      BY <3>1, <3>2
  <2>. QED
    BY <2>1 DEF LastIsNewest, IsFormats
<1>5. ListsFollow'
  <2>1. ASSUME NEW i \in DOMAIN toClient', NEW j \in DOMAIN toClient', i < j, toClient'[i].kind = "formats",
               toClient'[j].kind = "list", \A l \in (i + 1) .. (j - 1) : toClient'[l].kind # "formats"
        PROVE  ListOf(toClient'[j], toClient'[i].number)
    <3>1. i + 1 \in DOMAIN toClient /\ j + 1 \in DOMAIN toClient /\ i + 1 < j + 1
          /\ toClient'[i] = toClient[i + 1] /\ toClient'[j] = toClient[j + 1]
      BY <1>1, <2>1
    <3>2. ASSUME NEW l \in (i + 2) .. j PROVE toClient[l].kind # "formats"
      <4>1. l - 1 \in (i + 1) .. (j - 1) /\ l - 1 \in DOMAIN toClient' /\ l - 1 + 1 = l
        <5>1. i \in Nat /\ j \in Nat /\ l \in Nat
          BY <1>1
        <5>2. DOMAIN toClient' = 1 .. Len(toClient') /\ Len(toClient') \in Nat
          BY <1>0
        <5>. QED
          BY <5>1, <5>2
      <4>2. toClient'[l - 1] = toClient[l - 1 + 1]
        BY <1>1, <4>1
      <4>. QED
        BY <2>1, <4>1, <4>2
    <3>3. (i + 1) + 1 = i + 2 /\ (j + 1) - 1 = j
      BY <1>1
    <3>. QED
      BY <2>1, <3>1, <3>2, <3>3 DEF ChannelInv, ListsFollow, IsFormats
  <2>. QED
    BY <2>1 DEF ListsFollow, IsFormats
<1>. QED
  BY <1>3, <1>4, <1>5 DEF ChannelInv

\* A message is put on the channel.
LEMMA ChannelGrows ==
    ASSUME ShapeInv, ChannelInv, NEW m \in ToClient, toClient' = Append(toClient, m), UNCHANGED copyOf,
           copied' \in Nat, copied <= copied',
           IsNumbered(m) => m.number = copied',
           m.kind = "formats" => m.copy = Copies[m.number],
           m.kind = "list" => ListOf(m, copied),
           m.kind # "formats" => copied' = copied
    PROVE  ChannelInv'
<1>. DEFINE n == Len(toClient)
<1>0. toClient \in Seq(ToClient) /\ n \in Nat
  BY ShapeFacts
<1>1. /\ DOMAIN toClient = 1 .. n /\ DOMAIN toClient' = 1 .. n + 1
      /\ \A i \in 1 .. n : toClient'[i] = toClient[i]
      /\ toClient'[n + 1] = m
  BY <1>0, AppendElements
<1>. HIDE DEF n
<1>2. \A i \in 1 .. n + 1 : i \in 1 .. n \/ i = n + 1
  BY <1>0
<1>3. /\ \A i \in DOMAIN toClient : IsNumbered(toClient[i]) => toClient[i].number \in Nat
      /\ \A c \in DOMAIN copyOf : copyOf[c] \in Nat
      /\ copied \in Nat
  BY NumbersAreNumbers
<1>4. InOrder'
  <2>1. ASSUME NEW i \in DOMAIN toClient', IsNumbered(toClient'[i]) PROVE toClient'[i].number <= copied'
    <3>1. CASE i \in 1 .. n
      <4>1. toClient'[i] = toClient[i] /\ i \in DOMAIN toClient
        BY <1>1, <3>1
      <4>2. toClient[i].number <= copied /\ toClient[i].number \in Nat
        BY <1>3, <2>1, <4>1 DEF ChannelInv, InOrder
      <4>. QED
        BY <1>3, <4>1, <4>2
    <3>2. CASE i = n + 1
      BY <1>1, <2>1, <3>2
    <3>. QED
      BY <1>1, <1>2, <3>1, <3>2
  <2>2. ASSUME NEW i \in DOMAIN toClient', NEW j \in DOMAIN toClient', i < j,
               IsNumbered(toClient'[i]), IsNumbered(toClient'[j])
        PROVE  toClient'[i].number <= toClient'[j].number
    <3>0. i \in 1 .. n
      BY <1>0, <1>1, <2>2
    <3>1. CASE j \in 1 .. n
      BY <1>1, <2>2, <3>0, <3>1 DEF ChannelInv, InOrder
    <3>2. CASE j = n + 1
      BY <1>1, <2>1, <2>2, <3>2
    <3>. QED
      BY <1>1, <1>2, <3>1, <3>2
  <2>3. ASSUME NEW c \in DOMAIN copyOf' PROVE copyOf'[c] <= copied' /\ Copies[copyOf'[c]] = "files"
    BY <1>3 DEF ChannelInv, InOrder
  <2>4. ASSUME NEW i \in DOMAIN toClient', IsNumbered(toClient'[i]), NEW c \in DOMAIN copyOf'
        PROVE  copyOf'[c] <= toClient'[i].number
    <3>1. CASE i \in 1 .. n
      BY <1>1, <2>4, <3>1 DEF ChannelInv, InOrder
    <3>2. CASE i = n + 1
      BY <1>1, <2>3, <2>4, <3>2
    <3>. QED
      BY <1>1, <1>2, <3>1, <3>2
  <2>5. ASSUME NEW i \in DOMAIN toClient'
        PROVE  toClient'[i].kind = "formats" => toClient'[i].copy = Copies[toClient'[i].number]
    <3>1. CASE i \in 1 .. n
      BY <1>1, <3>1 DEF ChannelInv, InOrder, IsFormats
    <3>2. CASE i = n + 1
      BY <1>1, <3>2
    <3>. QED
      BY <1>1, <1>2, <3>1, <3>2
  <2>. QED
    BY <2>1, <2>2, <2>3, <2>4, <2>5 DEF InOrder, IsFormats
<1>5. LastIsNewest'
  <2>1. ASSUME NEW i \in DOMAIN toClient', toClient'[i].kind = "formats", toClient'[i].number # copied'
        PROVE  \E j \in DOMAIN toClient' : i < j /\ toClient'[j].kind = "formats"
    <3>1. CASE i = n + 1
      BY <1>1, <2>1, <3>1 DEF IsNumbered
    <3>2. CASE i \in 1 .. n /\ m.kind = "formats"
      <4>1. n + 1 \in DOMAIN toClient' /\ i < n + 1
        BY <1>0, <1>1, <3>2
      <4>. QED
        BY <1>1, <3>2, <4>1
    <3>3. CASE i \in 1 .. n /\ m.kind # "formats"
      <4>1. PICK j \in DOMAIN toClient : i < j /\ toClient[j].kind = "formats"
        BY <1>1, <2>1, <3>3 DEF ChannelInv, LastIsNewest, IsFormats
      <4>2. j \in DOMAIN toClient' /\ toClient'[j] = toClient[j]
        BY <1>0, <1>1, <4>1
      <4>. QED
        BY <4>1, <4>2
    <3>. QED
      BY <1>1, <1>2, <3>1, <3>2, <3>3
  <2>. QED
    BY <2>1 DEF LastIsNewest, IsFormats
<1>6. ListsFollow'
  <2>1. ASSUME NEW i \in DOMAIN toClient', NEW j \in DOMAIN toClient', i < j, toClient'[i].kind = "formats",
               toClient'[j].kind = "list", \A l \in (i + 1) .. (j - 1) : toClient'[l].kind # "formats"
        PROVE  ListOf(toClient'[j], toClient'[i].number)
    <3>0. i \in 1 .. n /\ toClient'[i] = toClient[i]
      BY <1>0, <1>1, <2>1
    <3>1. \A l \in (i + 1) .. (j - 1) : l \in 1 .. n /\ toClient[l].kind # "formats"
      BY <1>0, <1>1, <2>1
    <3>2. CASE j \in 1 .. n
      BY <1>1, <2>1, <3>0, <3>1, <3>2 DEF ChannelInv, ListsFollow, IsFormats
    <3>3. CASE j = n + 1
      <4>1. toClient[i].number = copied
        <5>1. ~\E l \in DOMAIN toClient : i < l /\ toClient[l].kind = "formats"
          <6>1. ASSUME NEW l \in 1 .. n, i < l PROVE l \in (i + 1) .. (j - 1)
            BY <1>0, <3>0, <3>3, <6>1
          <6>. QED
            BY <1>1, <3>1, <6>1
        <5>. QED
          BY <1>1, <2>1, <3>0, <5>1 DEF ChannelInv, LastIsNewest, IsFormats
      <4>. QED
        BY <1>1, <2>1, <3>0, <3>3, <4>1
    <3>. QED
      BY <1>1, <1>2, <3>2, <3>3
  <2>. QED
    BY <2>1 DEF ListsFollow, IsFormats
<1>. QED
  BY <1>4, <1>5, <1>6 DEF ChannelInv

\* Nothing has been announced at first.
LEMMA ChannelInit == Init => ChannelInv
BY DEF Init, ChannelInv, InOrder, LastIsNewest, ListsFollow

\* Every step keeps the order.
LEMMA ChannelStep == ShapeInv /\ ChannelInv /\ [Next]_vars => ChannelInv'
<1>. SUFFICES ASSUME ShapeInv, ChannelInv, [Next]_vars PROVE ChannelInv'
  OBVIOUS
<1>0. copied \in Nat
  BY ShapeFacts
<1>1. CASE Stays
  BY <1>1 DEF Stays, ChannelInv, InOrder, LastIsNewest, ListsFollow, IsFormats
<1>2. CASE Resets
  BY <1>2 DEF Resets, ChannelInv, InOrder, LastIsNewest, ListsFollow
<1>3. CASE Takes
  BY <1>3, ChannelTakes
<1>4. CASE Announces
  <2>. DEFINE m == [kind |-> "formats", copy |-> Copies[copied'], number |-> copied']
  <2>1. copied' \in 1 .. Len(Copies) /\ copied' \in Nat /\ copied <= copied'
    <3>1. copied' \in 0 .. Len(Copies)
      BY ShapeStep DEF ShapeInv, Shapes
    <3>. QED
      BY <1>0, <1>4, <3>1 DEF Announces
  <2>2. m \in Formats
    <3>1. Copies[copied'] \in {"text", "files", "other"}
      BY <2>1, ClipboardAssumption
    <3>. QED
      BY <2>1, <3>1 DEF Formats
  <2>3. m \in ToClient /\ m.kind = "formats" /\ m.number = copied' /\ m.copy = Copies[m.number]
    BY <2>2 DEF ToClient
  <2>4. toClient' = Append(toClient, m) /\ UNCHANGED copyOf
    BY <1>4 DEF Announces
  <2>. HIDE DEF m
  <2>. QED
    BY <2>1, <2>3, <2>4, ChannelGrows
<1>5. ASSUME NEW m \in ToClient, Gets(m) PROVE ChannelInv'
  <2>0. toClient' = Append(toClient, m) /\ UNCHANGED <<copied, copyOf>> /\ copied <= copied'
    BY <1>0, <1>5 DEF Gets
  <2>4. m \in TextAnswers \/ (m \in Lists /\ ListOf(m, copied)) \/ m \in Contents
    BY <1>5 DEF Gets
  <2>1. CASE m \in TextAnswers
    <3>1. m.kind = "text" /\ ~IsNumbered(m)
      BY <2>1 DEF TextAnswers, IsNumbered
    <3>. QED
      BY <1>0, <2>0, <3>1, ChannelGrows
  <2>2. CASE m \in Lists /\ ListOf(m, copied)
    <3>1. m.kind = "list" /\ ~IsNumbered(m)
      BY <2>2 DEF Lists, IsNumbered
    <3>. QED
      BY <1>0, <2>0, <2>2, <3>1, ChannelGrows
  <2>3. CASE m \in Contents
    <3>1. m.kind = "contents" /\ ~IsNumbered(m)
      BY <2>3 DEF Contents, Failures, SizeAnswers, RangeAnswers, IsNumbered
    <3>. QED
      BY <1>0, <2>0, <3>1, ChannelGrows
  <2>. QED
    BY <2>1, <2>2, <2>3, <2>4
<1>. QED
  BY <1>1, <1>2, <1>3, <1>4, <1>5, ChannelMoves
----------------------------------------------------------------------------
(* The third layer: the bytes of a download *)

\* Pieces of files are sequences of bytes.
LEMMA BytesAreContent ==
    ASSUME NEW k \in Nat, NEW f \in Nat, NEW n \in Nat
    PROVE  Bytes(k, f, n) \in Content /\ Len(Bytes(k, f, n)) = n
<1>1. Bytes(k, f, n) \in [1 .. n -> Nat \X Nat \X Nat]
  <2>1. \A p \in 1 .. n : <<k, f, p>> \in Nat \X Nat \X Nat
    OBVIOUS
  <2>. QED
    BY <2>1 DEF Bytes
<1>. QED
  BY <1>1 DEF Content

\* Sequences are equal when their elements are.
LEMMA SequencesAgree ==
    ASSUME NEW S, NEW s \in Seq(S), NEW u \in Seq(S), Len(s) = Len(u), \A i \in 1 .. Len(s) : s[i] = u[i]
    PROVE  s = u
OBVIOUS

\* A sequence is the function of its elements.
LEMMA SequenceIsFunction ==
    ASSUME NEW S, NEW s \in Seq(S), NEW n, DOMAIN s = 1 .. n
    PROVE  s = [i \in 1 .. n |-> s[i]]
OBVIOUS

\* What a concatenation holds.
LEMMA ConcatElements ==
    ASSUME NEW S, NEW s \in Seq(S), NEW u \in Seq(S)
    PROVE  /\ s \o u \in Seq(S) /\ Len(s \o u) = Len(s) + Len(u)
           /\ \A i \in 1 .. Len(s) + Len(u) : (s \o u)[i] = IF i <= Len(s) THEN s[i] ELSE u[i - Len(s)]
OBVIOUS

Joins(k, f, o, n) == Bytes(k, f, o) \o Piece(k, f, o, n) = Bytes(k, f, o + n)

\* The first bytes of a file and the ones after them.
LEMMA BytesJoin ==
    ASSUME NEW k \in Nat, NEW f \in Nat, NEW o \in Nat, NEW n \in Nat
    PROVE  Joins(k, f, o, n)
<1>. DEFINE a == Bytes(k, f, o)
            d == Piece(k, f, o, n)
            b == Bytes(k, f, o + n)
<1>1. a \in Content /\ Len(a) = o /\ b \in Content /\ Len(b) = o + n
  <2>1. o + n \in Nat
    OBVIOUS
  <2>. QED
    BY <2>1, BytesAreContent
<1>2. d \in Content /\ Len(d) = n
  <2>1. d \in Content
    BY DataIsContent DEF Piece
  <2>2. DOMAIN d = 1 .. n
    BY DEF Piece
  <2>. HIDE DEF d
  <2>. QED
    BY <2>1, <2>2 DEF Content
<1>3. \A i \in 1 .. o : a[i] = <<k, f, i>>
  BY DEF Bytes
<1>4. \A i \in 1 .. n : d[i] = <<k, f, o + i>>
  BY DEF Piece
<1>5. \A i \in 1 .. o + n : b[i] = <<k, f, i>>
  BY DEF Bytes
<1>. HIDE DEF a, b, d
<1>a. PICK S : Content = Seq(S)
  BY DEF Content
<1>b. a \in Seq(S) /\ d \in Seq(S) /\ b \in Seq(S)
  BY <1>1, <1>2, <1>a
<1>6. /\ a \o d \in Seq(S) /\ Len(a \o d) = o + n
      /\ \A i \in 1 .. o + n : (a \o d)[i] = IF i <= o THEN a[i] ELSE d[i - o]
  BY <1>1, <1>2, <1>b, ConcatElements
<1>7. ASSUME NEW i \in 1 .. o + n PROVE (a \o d)[i] = b[i]
  <2>1. CASE i <= o
    <3>1. i \in 1 .. o
      BY <2>1
    <3>. QED
      BY <1>3, <1>5, <1>6, <2>1, <3>1
  <2>2. CASE ~(i <= o)
    <3>1. i - o \in 1 .. n /\ o + (i - o) = i
      BY <2>2
    <3>2. (a \o d)[i] = d[i - o]
      BY <1>6, <2>2
    <3>. QED
      BY <1>4, <1>5, <3>1, <3>2
  <2>. QED
    BY <2>1, <2>2
<1>8. a \o d = b
  BY <1>1, <1>b, <1>6, <1>7, SequencesAgree
<1>. QED
  BY <1>8 DEF Joins, a, b, d

\* The sizes of a copy.
LEMMA SizesOf ==
    ASSUME NEW k \in 1 .. Len(Copies)
    PROVE  /\ Sizes[k] \in Seq(Nat) /\ Len(Sizes[k]) \in Nat /\ k \in Nat
           /\ \A f \in 1 .. Len(Sizes[k]) : Sizes[k][f] \in Nat
<1>1. Sizes[k] \in Seq(Nat) /\ k \in Nat
  BY ClipboardAssumption
<1>. QED
  BY <1>1

\* A new file.
LEMMA WholeThenOne ==
    ASSUME NEW k \in 1 .. Len(Copies), NEW n \in 1 .. Len(Sizes[k])
    PROVE  Append(Whole(k, n - 1), <<>>) = Partial(k, n, 0)
<1>. DEFINE w == Whole(k, n - 1)
            p == Partial(k, n, 0)
<1>0. n \in Nat /\ n - 1 \in Nat /\ k \in Nat
  BY SizesOf
<1>1. \A f \in 1 .. n - 1 : Bytes(k, f, Sizes[k][f]) \in Content
  <2>1. ASSUME NEW f \in 1 .. n - 1 PROVE Bytes(k, f, Sizes[k][f]) \in Content
    <3>1. f \in Nat /\ Sizes[k][f] \in Nat
      BY <1>0, SizesOf
    <3>. QED
      BY <1>0, <3>1, BytesAreContent
  <2>. QED
    BY <2>1
<1>2. w \in Seq(Content) /\ Len(w) = n - 1
  <2>1. w \in [1 .. n - 1 -> Content]
    BY <1>1 DEF Whole
  <2>. HIDE DEF w
  <2>. QED
    BY <1>0, <2>1
<1>3. Bytes(k, n, 0) = <<>>
  BY DEF Bytes
<1>4. \A f \in 1 .. n - 1 : w[f] = p[f]
  BY <1>0 DEF Whole, Partial
<1>5. p[n] = <<>> /\ DOMAIN p = 1 .. n
  BY <1>0, <1>3 DEF Partial
<1>6. p = [f \in 1 .. n |-> p[f]]
  BY DEF Partial
<1>. HIDE DEF w, p
<1>7. <<>> \in Content
  BY DEF Content
<1>8. /\ DOMAIN Append(w, <<>>) = 1 .. n /\ Append(w, <<>>)[n] = <<>>
      /\ \A f \in 1 .. n - 1 : Append(w, <<>>)[f] = w[f]
      /\ Append(w, <<>>) \in Seq(Content)
  BY <1>0, <1>2, <1>7
<1>9. Append(w, <<>>) = [f \in 1 .. n |-> Append(w, <<>>)[f]]
  BY <1>8, SequenceIsFunction
<1>10. \A f \in 1 .. n : Append(w, <<>>)[f] = p[f]
  <2>1. \A f \in 1 .. n : f \in 1 .. n - 1 \/ f = n
    BY <1>0
  <2>. QED
    BY <1>4, <1>5, <1>8, <2>1
<1>. QED
  BY <1>6, <1>9, <1>10 DEF w, p

\* A file that is complete.
LEMMA PartialIsWhole ==
    ASSUME NEW k, NEW n \in Nat
    PROVE  Partial(k, n, Sizes[k][n]) = Whole(k, n)
<1>1. \A f \in 1 .. n : (IF f < n THEN Bytes(k, f, Sizes[k][f]) ELSE Bytes(k, f, Sizes[k][n])) = Bytes(k, f, Sizes[k][f])
  <2>1. ASSUME NEW f \in 1 .. n, ~(f < n) PROVE f = n
    BY <2>1
  <2>. QED
    BY <2>1
<1>. QED
  BY <1>1 DEF Partial, Whole

Grown(got, n, data) == [got EXCEPT ![n] = @ \o data]
Grows(k, n, o, x) == Grown(Partial(k, n, o), n, Piece(k, n, o, x)) = Partial(k, n, o + x)

\* A file that a piece is added to.
LEMMA PartialGrows ==
    ASSUME NEW k \in Nat, NEW n \in Nat \ {0}, NEW o \in Nat, NEW x \in Nat
    PROVE  Grows(k, n, o, x)
<1>. DEFINE data == Piece(k, n, o, x)
<1>1. Partial(k, n, o)[n] = Bytes(k, n, o) /\ n \in 1 .. n
  BY DEF Partial
<1>2. Bytes(k, n, o) \o data = Bytes(k, n, o + x)
  <2>1. n \in Nat
    OBVIOUS
  <2>2. Joins(k, n, o, x)
    BY <2>1, BytesJoin
  <2>. QED
    BY <2>2 DEF Joins
<1>3. Grown(Partial(k, n, o), n, data) =
        [f \in 1 .. n |-> IF f = n THEN Bytes(k, n, o) \o data ELSE Partial(k, n, o)[f]]
  BY <1>1 DEF Partial, Grown
<1>4. \A f \in 1 .. n : f # n => f < n
  OBVIOUS
<1>5. ASSUME NEW f \in 1 .. n
      PROVE  (IF f = n THEN Bytes(k, n, o) \o data ELSE Partial(k, n, o)[f])
              = (IF f < n THEN Bytes(k, f, Sizes[k][f]) ELSE Bytes(k, f, o + x))
  <2>1. CASE f = n
    <3>1. ~(f < n)
      BY <2>1
    <3>. QED
      BY <1>2, <2>1, <3>1
  <2>2. CASE f # n
    <3>1. f < n
      BY <1>4, <2>2
    <3>2. Partial(k, n, o)[f] = Bytes(k, f, Sizes[k][f])
      BY <3>1 DEF Partial
    <3>. QED
      BY <2>2, <3>1, <3>2
  <2>. QED
    BY <2>1, <2>2
<1>. QED
  BY <1>3, <1>5 DEF Partial, Grows

\* What a step of a download of copy k leads to: another request of a download that
\* holds what its copy holds, or the end with all its files.
Outcome(a, k) ==
    /\ a.act = "request" => Holds(a.t, k)
    /\ a.act = "ready" => a.t.got = AllFiles(k)

\* A download of the right list.
OfCopy(t, k) == t.lock \in {0, k} /\ Len(t.files) = Len(Sizes[k])

\* The start.
LEMMA StartHolds ==
    ASSUME NEW k \in 1 .. Len(Copies), NEW t \in TransferSet, NEW s \in Nat, Blank(t, k)
    PROVE  Outcome(Start(t, s), k)
<1>0. Len(Sizes[k]) \in Nat /\ t.files \in Seq(Seq(Nat)) /\ Len(t.files) = Len(Sizes[k])
  BY SizesOf DEF TransferSet, Blank
<1>1. Whole(k, 0) = <<>>
  BY DEF Whole
<1>2. CASE t.files = <<>>
  <2>1. Len(Sizes[k]) = 0
    BY <1>0, <1>2
  <2>2. t.got = AllFiles(k)
    BY <1>1, <2>1 DEF AllFiles, Blank
  <2>. QED
    BY <1>2, <2>2 DEF Start, Complete, Outcome
<1>3. CASE t.files # <<>>
  <2>1. 1 \in 1 .. Len(Sizes[k])
    BY <1>0, <1>3
  <2>. DEFINE u == RequestSize(t, s)
  <2>2. /\ u.lock = t.lock /\ u.files = t.files /\ u.file = t.file /\ u.requested = 0
        /\ u.offset = t.offset /\ u.got = t.got
    BY DEF RequestSize, TransferSet
  <2>3. Start(t, s).act = "request" /\ Start(t, s).t = u
    BY <1>3 DEF Start, Wanting
  <2>. HIDE DEF u
  <2>4. t.file = 1 /\ t.file - 1 = 0
    BY DEF Blank
  <2>5. Holds(u, k)
    BY <1>1, <2>1, <2>2, <2>4 DEF Holds, Blank
  <2>. QED
    BY <2>3, <2>5 DEF Outcome
<1>. QED
  BY <1>2, <1>3

\* The end of a file.
LEMMA FinishHolds ==
    ASSUME NEW k \in 1 .. Len(Copies), NEW t \in TransferSet, NEW s \in Nat, OfCopy(t, k),
           t.file \in 1 .. Len(Sizes[k]), t.got = Whole(k, t.file)
    PROVE  Outcome(FinishFile(t, s), k)
<1>. DEFINE done == [t EXCEPT !.file = @ + 1, !.offset = 0, !.expected = 0]
<1>0. Len(Sizes[k]) \in Nat /\ Len(t.files) = Len(Sizes[k]) /\ t.file \in Nat
  BY SizesOf DEF TransferSet, OfCopy
<1>1. /\ done.file = t.file + 1 /\ done.offset = 0 /\ done.got = t.got /\ done.lock = t.lock
      /\ done.files = t.files
  BY DEF TransferSet
<1>2. CASE done.file > Len(t.files)
  <2>1. t.file = Len(Sizes[k])
    BY <1>0, <1>1, <1>2
  <2>2. done.got = AllFiles(k)
    BY <1>1, <2>1 DEF AllFiles
  <2>3. FinishFile(t, s).act = "ready" /\ FinishFile(t, s).t = done
    BY <1>2 DEF FinishFile, Complete
  <2>. QED
    BY <2>2, <2>3 DEF Outcome
<1>3. CASE ~(done.file > Len(t.files))
  <2>1. done.file \in 1 .. Len(Sizes[k]) /\ done.file - 1 = t.file
    BY <1>0, <1>1, <1>3
  <2>. DEFINE u == RequestSize(done, s)
  <2>2. FinishFile(t, s).act = "request" /\ FinishFile(t, s).t = u
    BY <1>3 DEF FinishFile, Wanting
  <2>3. done \in TransferSet
    <3>1. t.file + 1 \in Nat
      BY <1>0
    <3>. QED
      BY <3>1 DEF TransferSet
  <2>. HIDE DEF done
  <2>4. /\ u.lock = done.lock /\ u.files = done.files /\ u.file = done.file /\ u.requested = 0
        /\ u.offset = done.offset /\ u.got = done.got
    BY <2>3 DEF RequestSize, TransferSet
  <2>. HIDE DEF u
  <2>5. Holds(u, k)
    BY <1>1, <2>1, <2>4 DEF Holds, OfCopy
  <2>. QED
    BY <2>2, <2>5 DEF Outcome
<1>. QED
  BY <1>2, <1>3

\* A range is asked for.
LEMMA RangeHolds ==
    ASSUME NEW k \in 1 .. Len(Copies), NEW t \in TransferSet, NEW s \in Nat, OfCopy(t, k),
           t.file \in 1 .. Len(Sizes[k]), t.expected = Sizes[k][t.file], t.offset < t.expected,
           t.got = Partial(k, t.file, t.offset)
    PROVE  Outcome(Wanting(RequestRange(t, s)), k)
<1>. DEFINE n == IF t.expected - t.offset < Chunk THEN t.expected - t.offset ELSE Chunk
            u == [t EXCEPT !.asked = s, !.requested = n]
<1>1. n # 0
  <2>1. t.expected \in Nat /\ t.offset \in Nat /\ Chunk \in Nat /\ Chunk # 0
    BY ClipboardAssumption DEF TransferSet
  <2>. QED
    BY <2>1
<1>2. RequestRange(t, s) = u
  BY DEF RequestRange
<1>. HIDE DEF n
<1>3. /\ u.lock = t.lock /\ u.files = t.files /\ u.file = t.file /\ u.requested = n
      /\ u.offset = t.offset /\ u.got = t.got /\ u.expected = t.expected
  BY DEF TransferSet
<1>. HIDE DEF u
<1>4. Holds(u, k)
  BY <1>1, <1>3 DEF Holds, OfCopy
<1>. QED
  BY <1>2, <1>4 DEF Outcome, Wanting

\* A size.
LEMMA SizeHolds ==
    ASSUME NEW k \in 1 .. Len(Copies), NEW t \in TransferSet, NEW s \in Nat, Holds(t, k), t.requested = 0
    PROVE  Outcome(AcceptSize(t, Sizes[k][t.file], s), k)
<1>. DEFINE size == Sizes[k][t.file]
            u == Opened(t, size)
<1>0. /\ t.file \in 1 .. Len(Sizes[k]) /\ t.got = Whole(k, t.file - 1) /\ OfCopy(t, k) /\ t.file \in Nat
      /\ size \in Nat
  BY SizesOf DEF Holds, OfCopy, TransferSet
<1>1. CASE t.files[t.file] \notin {<<>>, <<size>>} \/ ~AccountSize(t, size)
  BY <1>1 DEF AcceptSize, Fail, Outcome
<1>2. CASE ~(t.files[t.file] \notin {<<>>, <<size>>} \/ ~AccountSize(t, size))
  <2>1. AcceptSize(t, size, s) = IF size = 0 THEN FinishFile(u, s) ELSE Wanting(RequestRange(u, s))
    BY <1>2 DEF AcceptSize, Opened
  <2>2. u \in TransferSet
    <3>1. <<>> \in Content
      BY DEF Content
    <3>2. Append(t.got, <<>>) \in Seq(Content)
      BY <3>1 DEF TransferSet
    <3>3. t.accounted + size \in Nat
      BY SMTT(30), <1>0 DEF TransferSet
    <3>. QED
      BY <1>0, <3>2, <3>3 DEF Opened, TransferSet
  <2>3. /\ u.lock = t.lock /\ u.files = t.files /\ u.file = t.file /\ u.expected = size
        /\ u.offset = 0 /\ u.got = Append(t.got, <<>>)
    BY DEF Opened, TransferSet
  <2>4. u.got = Partial(k, t.file, 0)
    <3>1. Append(Whole(k, t.file - 1), <<>>) = Partial(k, t.file, 0)
      BY <1>0, WholeThenOne
    <3>. QED
      BY <1>0, <2>3, <3>1
  <2>5. OfCopy(u, k)
    BY <1>0, <2>3 DEF OfCopy
  <2>6. CASE size = 0
    <3>1. Partial(k, t.file, Sizes[k][t.file]) = Whole(k, t.file)
      BY <1>0, PartialIsWhole
    <3>2. u.got = Whole(k, u.file)
      BY <2>3, <2>4, <2>6, <3>1
    <3>. HIDE DEF u
    <3>3. Outcome(FinishFile(u, s), k)
      BY <1>0, <2>2, <2>3, <2>5, <3>2, FinishHolds
    <3>. QED
      BY <2>1, <2>6, <3>3
  <2>7. CASE size # 0
    <3>1. u.offset < u.expected
      BY <1>0, <2>3, <2>7
    <3>2. u.got = Partial(k, u.file, u.offset) /\ u.expected = Sizes[k][u.file]
      BY <2>3, <2>4
    <3>. HIDE DEF u
    <3>3. Outcome(Wanting(RequestRange(u, s)), k)
      BY <1>0, <2>2, <2>3, <2>5, <3>1, <3>2, RangeHolds
    <3>. QED
      BY <2>1, <2>7, <3>3
  <2>. QED
    BY <2>6, <2>7
<1>. QED
  BY <1>1, <1>2

\* The length of a piece.
LEMMA PieceLength ==
    ASSUME NEW k \in Nat, NEW f \in Nat, NEW o \in Nat, NEW n \in Nat
    PROVE  Piece(k, f, o, n) \in Content /\ Len(Piece(k, f, o, n)) = n
<1>1. Piece(k, f, o, n) \in Content
  BY DataIsContent DEF Piece
<1>2. DOMAIN Piece(k, f, o, n) = 1 .. n
  BY DEF Piece
<1>. QED
  BY <1>1, <1>2 DEF Content

\* A range.
LEMMA PieceHolds ==
    ASSUME NEW k \in 1 .. Len(Copies), NEW t \in TransferSet, NEW s \in Nat, Holds(t, k), t.requested # 0,
           NEW data, NEW n \in Nat, n >= 1, data = Piece(k, t.file, t.offset, n)
    PROVE  Outcome(AcceptRange(t, data, s), k)
<1>. DEFINE u == Written(t, data)
<1>0. /\ t.file \in 1 .. Len(Sizes[k]) /\ t.got = Partial(k, t.file, t.offset) /\ OfCopy(t, k)
      /\ t.expected = Sizes[k][t.file]
  BY DEF Holds, OfCopy
<1>1. t.file \in Nat \ {0} /\ t.offset \in Nat /\ t.expected \in Nat /\ k \in Nat
  BY SMTT(30), <1>0, SizesOf DEF TransferSet
<1>2. data \in Content /\ Len(data) = n
  BY ZenonT(40), <1>1, PieceLength
<1>3. CASE data = <<>> \/ Len(data) > t.requested \/ t.offset + Len(data) > t.expected
  BY <1>3 DEF AcceptRange, Fail, Outcome
<1>4. CASE ~(data = <<>> \/ Len(data) > t.requested \/ t.offset + Len(data) > t.expected)
  <2>1. AcceptRange(t, data, s) = IF u.offset = t.expected THEN FinishFile(u, s) ELSE Wanting(RequestRange(u, s))
    BY <1>4 DEF AcceptRange, Written
  <2>2. u \in TransferSet
    BY <1>2, WrittenShape
  <2>3. /\ u.lock = t.lock /\ u.files = t.files /\ u.file = t.file /\ u.expected = t.expected
        /\ u.offset = t.offset + n /\ u.got = Grown(t.got, t.file, data)
    BY <1>2 DEF Written, TransferSet, Grown
  <2>4. u.got = Partial(k, t.file, t.offset + n)
    <3>1. Grows(k, t.file, t.offset, n)
      BY <1>1, PartialGrows
    <3>. QED
      BY <1>0, <2>3, <3>1 DEF Grows
  <2>5. OfCopy(u, k)
    BY <1>0, <2>3 DEF OfCopy
  <2>. HIDE DEF u
  <2>6. CASE u.offset = t.expected
    <3>1. Partial(k, t.file, Sizes[k][t.file]) = Whole(k, t.file)
      BY <1>1, PartialIsWhole
    <3>2. u.got = Whole(k, u.file)
      BY <1>0, <2>3, <2>4, <2>6, <3>1
    <3>3. Outcome(FinishFile(u, s), k)
      BY <1>0, <2>2, <2>3, <2>5, <3>2, FinishHolds
    <3>. QED
      BY <2>1, <2>6, <3>3
  <2>7. CASE u.offset # t.expected
    <3>1. u.offset < u.expected
      BY <1>1, <1>2, <1>4, <2>3, <2>7
    <3>2. u.got = Partial(k, u.file, u.offset) /\ u.expected = Sizes[k][u.file]
      BY <1>0, <2>3, <2>4
    <3>3. Outcome(Wanting(RequestRange(u, s)), k)
      BY <1>0, <2>2, <2>3, <2>5, <3>1, <3>2, RangeHolds
    <3>. QED
      BY <2>1, <2>7, <3>3
  <2>. QED
    BY <2>6, <2>7
<1>. QED
  BY <1>3, <1>4

\* Any answer.
LEMMA AdvanceHolds ==
    ASSUME NEW k \in 1 .. Len(Copies), NEW t \in TransferSet, NEW s \in Nat, NEW r \in Contents, Holds(t, k),
           t.asked # 0, r.stream = t.asked => Answers(r, t, k)
    PROVE  Outcome(Advance(t, r, s), k)
<1>1. CASE r.stream # t.asked
  BY <1>1 DEF Advance, Ignore, Outcome
<1>2. CASE r.stream = t.asked /\ r.error
  BY <1>2 DEF Advance, Fail, Outcome
<1>3. CASE r.stream = t.asked /\ ~r.error
  <2>1. Advance(t, r, s) =
          IF t.requested = 0 THEN IF "size" \in DOMAIN r THEN AcceptSize(t, r.size, s) ELSE Fail(t)
          ELSE IF "data" \in DOMAIN r THEN AcceptRange(t, r.data, s) ELSE Fail(t)
    BY <1>3 DEF Advance
  <2>2. CASE t.requested = 0
    <3>1. "size" \in DOMAIN r /\ r.size = Sizes[k][t.file]
      BY <1>3, <2>2 DEF Answers
    <3>2. Advance(t, r, s) = AcceptSize(t, Sizes[k][t.file], s)
      BY <2>1, <2>2, <3>1
    <3>. QED
      BY <2>2, <3>2, SizeHolds
  <2>3. CASE t.requested # 0
    <3>1. "data" \in DOMAIN r /\ \E n \in 1 .. Sizes[k][t.file] : r.data = Piece(k, t.file, t.offset, n)
      BY <1>3, <2>3 DEF Answers
    <3>2. PICK n \in 1 .. Sizes[k][t.file] : r.data = Piece(k, t.file, t.offset, n)
      BY <3>1
    <3>3. n \in Nat /\ n >= 1
      BY SizesOf DEF Holds
    <3>4. Advance(t, r, s) = AcceptRange(t, r.data, s)
      BY <2>1, <2>3, <3>1
    <3>5. Outcome(AcceptRange(t, r.data, s), k)
      BY <2>3, <3>2, <3>3, PieceHolds
    <3>. QED
      BY <3>4, <3>5
  <2>. QED
    BY <2>2, <2>3
<1>. QED
  BY <1>1, <1>2, <1>3

\* What a step does to the transfer under way and the channel: everything under way
\* is given up; nothing but what the host and the server do to the state; a message
\* that announces nothing is passed over; a copy is announced; a request is answered;
\* and the four steps of a download.
Keeps == GivesUp /\ UNCHANGED copyOf /\ backend' \in {Idle, backend}
Clears == Keeps /\ st'.pending = 0 /\ st'.transfer = None
Leaves == Keeps /\ UNCHANGED <<toClient, copied>>
Arrives == toClient # <<>> /\ toClient' = Tail(toClient) /\ UNCHANGED copied
PassesOver == Keeps /\ Arrives /\ Message.kind # "formats"
Publishes == Keeps /\ Announces
Serves == Keeps /\ UNCHANGED copied /\ \E at \in DOMAIN toServer : Answered(at)
Begins == Reserved /\ Arrives
Prepares == Arrives /\ Message \in Lists /\ UNCHANGED <<st, copyOf, toServer>> /\ \E t \in {None} \cup TransferSet : Prepared(t)
InstallsOne ==
    /\ UNCHANGED <<copyOf, copied, toServer, toClient>> /\ ~IsTransfer(st.transfer)
    /\ backend \in Installing /\ backend.at = "install"
    /\ \E a \in Wants \cup Endings \cup Fails : Installs(a)
Continues ==
    /\ Arrives /\ Message \in Contents /\ UNCHANGED <<copyOf, toServer>> /\ IsTransfer(st.transfer)
    /\ \E a \in Wants \cup Endings \cup Fails : Advances(a)

\* Every step is one of these.
LEMMA TransferMoves ==
    ASSUME ShapeInv, [Next]_vars
    PROVE  \/ Clears \/ Leaves \/ PassesOver \/ Publishes \/ Serves
           \/ Begins \/ Prepares \/ InstallsOne \/ Continues
<1>0. st \in States
  BY ShapeFacts
<1>1. CASE SetLocalText \/ SetLocalFiles \/ SetLocalFilesFails
  <2>1. GivesUp
    BY <1>1, ShapeLocal
  <2>. QED
    BY <1>1, <2>1 DEF SetLocalText, SetLocalFiles, SetLocal, SetLocalFilesFails, Leaves, Keeps
<1>2. CASE Shutdown \/ ClientEnds \/ \E id \in {RemoteId(i) : i \in 1..Len(Copies)} \cup (1..LocalSets) : CancelTransfer(id)
  <2>1. GivesUp
    BY <1>2, CancelIds, ShapeController
  <2>. QED
    BY <1>2, <2>1 DEF Shutdown, ClientEnds, CancelTransfer, serverVars, Leaves, Keeps
<1>3. CASE OnRemoteCopyFiles
  BY <1>3, ReservedFacts DEF OnRemoteCopyFiles, Callback, Reserved, Begins, Arrives
<1>4. CASE OnRemoteCopyText
  <2>1. GivesUp
    BY <1>4, ShapeTexts
  <2>2. st'.pending = 0 /\ st'.transfer = None /\ UNCHANGED <<copyOf, backend>>
    BY <1>0, <1>4 DEF OnRemoteCopyText, States
  <2>. QED
    BY <2>1, <2>2 DEF Clears, Keeps
<1>5. CASE OnFormatDataResponse
  <2>1. GivesUp
    BY <1>5, ShapeTexts
  <2>2. UNCHANGED <<copyOf, backend>> /\ Arrives /\ Message.kind # "formats"
    BY <1>5 DEF OnFormatDataResponse, Callback, Receive, Arrives
  <2>. QED
    BY <2>1, <2>2 DEF PassesOver, Keeps
<1>6. CASE CancelRemoteLocks \/ OnRequestFormatList
  <2>1. GivesUp
    BY <1>6, ShapeTexts
  <2>. QED
    BY <1>6, <2>1 DEF CancelRemoteLocks, OnRequestFormatList, serverVars, Leaves, Keeps
<1>7. CASE BuildCliprdrBackend
  <2>1. GivesUp
    BY <1>7, ShapeTexts
  <2>2. st'.pending = 0 /\ st'.transfer = None /\ UNCHANGED <<copyOf, backend>>
    BY <1>0, <1>7 DEF BuildCliprdrBackend, States
  <2>. QED
    BY <2>1, <2>2 DEF Clears, Keeps
<1>8. CASE OnLock \/ OnUnlock \/ SendLocalFileResponse \/ SendLocalTextResponse
  <2>1. GivesUp
    BY <1>8, ShapeServing
  <2>. QED
    BY <1>8, <2>1 DEF OnLock, OnUnlock, SendLocalFileResponse, SendLocalTextResponse, serverVars, Leaves, Keeps
<1>9. CASE ServerCopies
  <2>1. GivesUp
    BY <1>9, ShapeServer
  <2>. QED
    BY <1>9, <2>1 DEF ServerCopies, Announces, Publishes, Keeps
<1>10. CASE ServerAnswers
  <2>1. GivesUp
    BY <1>10, ShapeServer
  <2>. QED
    BY <1>10, <2>1, ServerAnswerCases DEF Serves, Keeps
<1>11. CASE InitiatePaste
  <2>1. GivesUp
    BY <1>11, ShapePaste
  <2>. QED
    BY <1>11, <2>1 DEF InitiatePaste, Leaves, Keeps
<1>12. CASE DispatchRemoteResult
  <2>1. GivesUp
    BY <1>12, ShapeDispatch
  <2>. QED
    BY <1>12, <2>1 DEF DispatchRemoteResult, Leaves, Keeps
<1>13. CASE ReceiveRemoteFiles
  <2>1. Arrives /\ UNCHANGED <<st, copyOf, toServer>> /\ Message.kind # "formats"
    BY <1>13 DEF ReceiveRemoteFiles, Callback, Receive, Arrives
  <2>2. GivesUp
    BY <1>0, <2>1 DEF GivesUp
  <2>. QED
    BY <1>13, <2>1, <2>2, PreparedFacts DEF PassesOver, Keeps, Prepares
<1>14. CASE InstallRemoteTransfer
  <2>1. UNCHANGED <<copyOf, copied, toServer, toClient>>
    BY <1>14 DEF InstallRemoteTransfer, serverVars
  <2>2. st' = st => GivesUp
    BY <1>0 DEF GivesUp
  <2>. QED
    BY <1>14, <2>1, <2>2, InstallFacts DEF Leaves, Keeps, InstallsOne
<1>15. CASE AdvanceRemoteTransfer
  <2>1. Arrives /\ UNCHANGED <<copyOf, toServer>> /\ Message.kind # "formats"
    BY <1>15 DEF AdvanceRemoteTransfer, Callback, Receive, Arrives
  <2>2. st' = st => GivesUp
    BY <1>0 DEF GivesUp
  <2>. QED
    BY <1>15, <2>1, <2>2, AdvanceFacts DEF PassesOver, Keeps, Continues
<1>16. CASE UNCHANGED vars
  <2>1. st' = st => GivesUp
    BY <1>0 DEF GivesUp
  <2>. QED
    BY <1>16, <2>1 DEF vars, Leaves, Keeps
<1>. QED
  BY <1>1, <1>2, <1>3, <1>4, <1>5, <1>6, <1>7, <1>8, <1>9, <1>10, <1>11, <1>12, <1>13, <1>14, <1>15, <1>16 DEF Next

\* A request under way was under way before, or is the one that was to be sent.
RequestsComeFrom ==
    \A i \in DOMAIN toServer' : toServer'[i].kind \in {"size", "range"} =>
        \/ \E j \in DOMAIN toServer : toServer'[i] = toServer[j]
        \/ backend.at = "dispatch" /\ backend.do.act = "request" /\ toServer'[i] = backend.do.request

\* A message that is not a request is added.
LEMMA OthersAdded ==
    ASSUME ShapeInv, NEW m \in ToServer, toServer' = Append(toServer, m),
           m.kind \notin {"size", "range"}
             \/ (backend.at = "dispatch" /\ backend.do.act = "request" /\ m = backend.do.request)
    PROVE  RequestsComeFrom
<1>1. toServer \in Seq(ToServer)
  BY ShapeFacts
<1>2. \A i \in DOMAIN toServer' : (i \in DOMAIN toServer /\ toServer'[i] = toServer[i]) \/ toServer'[i] = m
  BY <1>1, AppendElements
<1>. QED
  BY <1>2 DEF RequestsComeFrom

\* Where the requests under way to the server come from.
LEMMA RequestMoves ==
    ASSUME ShapeInv, [Next]_vars
    PROVE  RequestsComeFrom
<1>0. st \in States /\ st.local \in LocalSet /\ toServer \in Seq(ToServer)
  BY ShapeFacts DEF States
<1>1. ASSUME UNCHANGED toServer PROVE RequestsComeFrom
  BY <1>1 DEF RequestsComeFrom
<1>2. ASSUME NEW l \in LocalSet, toServer' = Append(toServer, [kind |-> "local copy", local |-> l])
      PROVE  RequestsComeFrom
  <2>1. [kind |-> "local copy", local |-> l] \in ToServer
    BY DEF ToServer, Announcements
  <2>. QED
    BY <1>2, <2>1, OthersAdded
<1>3. ASSUME NEW c \in {"text", "files"}, toServer' = Append(toServer, [kind |-> "paste", copy |-> c])
      PROVE  RequestsComeFrom
  <2>1. [kind |-> "paste", copy |-> c] \in ToServer
    BY DEF ToServer, Pastes
  <2>. QED
    BY <1>3, <2>1, OthersAdded
<1>4. CASE SetLocalText \/ SetLocalFiles
  <2>1. used.sets + 1 \in 1 .. LocalSets
    <3>1. used.sets < LocalSets /\ used.sets \in 0 .. LocalSets
      BY <1>4 DEF SetLocalText, SetLocalFiles, SetLocal, ShapeInv, Shapes
    <3>. QED
      BY <3>1, ClipboardAssumption
  <2>2. [kind |-> "text", id |-> used.sets + 1] \in LocalSet /\ [kind |-> "files", id |-> used.sets + 1] \in LocalSet
    BY <2>1 DEF LocalSet, FileLists
  <2>. QED
    BY <1>1, <1>2, <1>4, <2>2 DEF SetLocalText, SetLocalFiles, SetLocal, SendClipboard, Lost
<1>5. CASE SetLocalFilesFails \/ Shutdown \/ ClientEnds
             \/ \E id \in {RemoteId(i) : i \in 1..Len(Copies)} \cup (1..LocalSets) : CancelTransfer(id)
  BY <1>1, <1>5 DEF SetLocalFilesFails, Shutdown, ClientEnds, CancelTransfer, serverVars
<1>6. CASE OnRemoteCopyFiles \/ OnFormatDataResponse \/ ReceiveRemoteFiles \/ InstallRemoteTransfer
             \/ AdvanceRemoteTransfer \/ CancelRemoteLocks
  BY <1>1, <1>6 DEF OnRemoteCopyFiles, OnFormatDataResponse, ReceiveRemoteFiles, InstallRemoteTransfer,
                    AdvanceRemoteTransfer, CancelRemoteLocks, serverVars
<1>7. CASE OnLock \/ OnUnlock \/ SendLocalFileResponse \/ SendLocalTextResponse \/ ServerCopies
  BY <1>1, <1>7 DEF OnLock, OnUnlock, SendLocalFileResponse, SendLocalTextResponse, ServerCopies, serverVars
<1>8. CASE InitiatePaste \/ OnRemoteCopyText
  BY <1>1, <1>3, <1>8 DEF InitiatePaste, OnRemoteCopyText, SendClipboard, Lost
<1>9. CASE OnRequestFormatList
  BY <1>0, <1>2, <1>9 DEF OnRequestFormatList, SendClipboard
<1>10. CASE BuildCliprdrBackend
  BY <1>10 DEF BuildCliprdrBackend, RequestsComeFrom
<1>11. CASE DispatchRemoteResult
  <2>1. Dispatches
    BY <1>11, DispatchFacts
  <2>2. CASE UNCHANGED toServer
    BY <1>1, <2>2
  <2>3. CASE backend.do.act = "request" /\ backend.do.request \in Requests
               /\ toServer' = Append(toServer, backend.do.request)
    <3>1. backend.do.request \in ToServer
      BY <2>3 DEF ToServer
    <3>2. backend.at = "dispatch"
      BY <2>1 DEF Dispatches
    <3>. QED
      BY <2>3, <3>1, <3>2, OthersAdded
  <2>. QED
    BY <2>1, <2>2, <2>3 DEF Dispatches
<1>12. CASE ServerAnswers
  <2>1. PICK at \in DOMAIN toServer : toServer' = RemoveAt(toServer, at)
    BY <1>12, ServerAnswerCases DEF Answered
  <2>. QED
    BY <1>0, <2>1, RemoveAtElements DEF RequestsComeFrom
<1>13. CASE UNCHANGED vars
  BY <1>1, <1>13 DEF vars
<1>. QED
  BY <1>4, <1>5, <1>6, <1>7, <1>8, <1>9, <1>10, <1>11, <1>12, <1>13 DEF Next

\* Nothing is left of the transfer reserved last.
Over == st'.pending = 0 /\ ~IsTransfer(st'.transfer) /\ backend' = Idle /\ UNCHANGED copyOf

\* The event a step adds: a text, the failure of files of the host, the failure of
\* the transfer reserved last, or that it is ready.
AddsEvent(e) ==
    /\ events' = Append(events, e)
    /\ \/ e \in TextEvents /\ UNCHANGED <<copyOf, backend>>
       \/ e \in FailedEvents /\ e.id < RemoteBit /\ UNCHANGED <<backend, copyOf>>
       \/ e \in FailedEvents /\ e.id = Current /\ Over
       \/ /\ e \in ReadyEvents /\ e.id = Current /\ Over /\ copyOf # <<>>
          /\ backend.at = "dispatch" /\ backend.do.act = "ready" /\ e.got = backend.do.t.got

\* The events that steps add.
LEMMA EventMoves ==
    ASSUME ShapeInv, [Next]_vars
    PROVE  UNCHANGED events \/ \E e \in TextEvents \cup FailedEvents \cup ReadyEvents : AddsEvent(e)
<1>0. st \in States /\ Current \in Nat /\ ~IsTransfer(None)
  BY ShapeFacts DEF Current, RemoteBit, IsTransfer
<1>1. CASE SetLocalText \/ SetLocalFiles \/ Shutdown \/ ClientEnds
             \/ \E id \in {RemoteId(i) : i \in 1..Len(Copies)} \cup (1..LocalSets) : CancelTransfer(id)
  BY <1>1 DEF SetLocalText, SetLocalFiles, SetLocal, Shutdown, ClientEnds, CancelTransfer
<1>2. CASE SetLocalFilesFails
  <2>1. used.sets + 1 \in Nat /\ used.sets + 1 < RemoteBit
    <3>1. used.sets < LocalSets /\ used.sets \in 0 .. LocalSets
      BY <1>2 DEF SetLocalFilesFails, ShapeInv, Shapes
    <3>. QED
      BY <3>1, ClipboardAssumption DEF RemoteBit
  <2>2. Failed(used.sets + 1) \in FailedEvents /\ Failed(used.sets + 1).id = used.sets + 1
    BY <2>1 DEF Failed, FailedEvents
  <2>3. AddsEvent(Failed(used.sets + 1))
    BY <1>2, <2>1, <2>2 DEF SetLocalFilesFails, Emit, AddsEvent
  <2>. QED
    BY <2>2, <2>3
<1>3. CASE OnRemoteCopyFiles \/ OnRemoteCopyText \/ ReceiveRemoteFiles \/ InstallRemoteTransfer \/ AdvanceRemoteTransfer
  BY <1>3 DEF OnRemoteCopyFiles, OnRemoteCopyText, ReceiveRemoteFiles, InstallRemoteTransfer, AdvanceRemoteTransfer
<1>4. CASE OnLock \/ OnUnlock \/ SendLocalFileResponse \/ SendLocalTextResponse \/ OnRequestFormatList \/ BuildCliprdrBackend
             \/ ServerCopies \/ ServerAnswers
  BY <1>4 DEF OnLock, OnUnlock, SendLocalFileResponse, SendLocalTextResponse, OnRequestFormatList, BuildCliprdrBackend,
              ServerCopies, ServerAnswers
<1>5. ASSUME events' = Append(events, Failed(Current)), Over
      PROVE  \E e \in TextEvents \cup FailedEvents \cup ReadyEvents : AddsEvent(e)
  <2>1. Failed(Current) \in FailedEvents /\ Failed(Current).id = Current
    BY <1>0 DEF Failed, FailedEvents
  <2>. QED
    BY <1>5, <2>1 DEF AddsEvent
<1>6. CASE InitiatePaste
  <2>0. backend.id = Current /\ ~IsTransfer(st.transfer) /\ st.pending \in {0, Current} /\ UNCHANGED copyOf /\ backend' = Idle
    <3>1. backend # Idle
      BY <1>6 DEF InitiatePaste, Idle
    <3>. QED
      BY <1>6, <3>1 DEF InitiatePaste, ShapeInv, OneTransfer
  <2>1. CASE Lost /\ Emit(Failed(backend.id)) /\ st' = [st EXCEPT !.pending = IF @ = backend.id THEN 0 ELSE @]
    <3>1. st'.pending = 0 /\ st'.transfer = st.transfer
      BY <1>0, <2>0, <2>1 DEF States
    <3>. QED
      BY <1>5, <2>0, <2>1, <3>1 DEF Emit, Over
  <2>. QED
    BY <1>6, <2>1 DEF InitiatePaste
<1>7. CASE OnFormatDataResponse
  <2>1. Callback /\ Message.kind = "text"
    BY <1>7 DEF OnFormatDataResponse
  <2>2. Message \in TextAnswers
    BY <2>1, CallbackFacts DEF ToClient, Formats, Lists, Contents, Failures, SizeAnswers, RangeAnswers
  <2>3. [kind |-> "text", number |-> Message.number] \in TextEvents
    BY <2>2 DEF TextAnswers, TextEvents
  <2>. QED
    BY <1>7, <2>3 DEF OnFormatDataResponse, Emit, AddsEvent
<1>8. CASE DispatchRemoteResult
  <2>1. Dispatches
    BY <1>8, DispatchFacts
  <2>2. UNCHANGED copyOf /\ backend' = Idle /\ st.pending = 0 /\ backend.at = "dispatch"
    BY <1>8, <2>1 DEF DispatchRemoteResult, Dispatches
  <2>3. backend.do.act \in {"ready", "fail"} => ~IsTransfer(st.transfer)
    BY <2>2 DEF ShapeInv, OneTransfer
  <2>4. CASE UNCHANGED events
    BY <2>4
  <2>5. CASE events' = Append(events, Failed(Current)) /\ st' = [st EXCEPT !.transfer = None]
    <3>1. st'.transfer = None /\ st'.pending = st.pending
      BY <1>0, <2>5 DEF States
    <3>. QED
      BY <1>0, <1>5, <2>2, <2>5, <3>1 DEF Over
  <2>6. CASE backend.do.act = "fail" /\ events' = Append(events, Failed(Current)) /\ st' = st
    BY <1>5, <2>2, <2>3, <2>6 DEF Over
  <2>7. CASE /\ backend.do.act = "ready" /\ st' = st /\ backend.do.t \in TransferSet
             /\ events' = Append(events, [kind |-> "ready", id |-> Current, got |-> backend.do.t.got])
    <3>. DEFINE e == [kind |-> "ready", id |-> Current, got |-> backend.do.t.got]
    <3>1. backend.do.t.got \in Seq(Content)
      BY <2>7 DEF TransferSet
    <3>2. e \in ReadyEvents /\ e.id = Current /\ e.got = backend.do.t.got
      BY <1>0, <3>1 DEF ReadyEvents
    <3>3. Over /\ copyOf # <<>>
      BY <2>1, <2>2, <2>3, <2>7 DEF Over, Dispatches
    <3>4. events' = Append(events, e)
      BY <2>7
    <3>. HIDE DEF e
    <3>5. AddsEvent(e)
      BY <2>2, <2>7, <3>2, <3>3, <3>4 DEF AddsEvent
    <3>. QED
      BY <3>2, <3>5
  <2>. QED
    BY <2>1, <2>4, <2>5, <2>6, <2>7 DEF Dispatches
<1>9. CASE CancelRemoteLocks
  <2>1. st.transfer.id = Current /\ st.pending = 0 /\ backend = Idle
    BY <1>9 DEF CancelRemoteLocks, ShapeInv, OneTransfer
  <2>2. st'.transfer = None /\ st'.pending = 0 /\ backend' = Idle /\ UNCHANGED copyOf
    BY <1>0, <1>9, <2>1 DEF CancelRemoteLocks, States
  <2>. QED
    BY <1>0, <1>5, <1>9, <2>1, <2>2 DEF CancelRemoteLocks, Emit, Over
<1>10. CASE UNCHANGED vars
  BY <1>10 DEF vars
<1>. QED
  BY <1>1, <1>2, <1>3, <1>4, <1>6, <1>7, <1>8, <1>9, <1>10 DEF Next

\* A message is taken: the others move up.
LEMMA ArriveFacts ==
    ASSUME ShapeInv, Arrives
    PROVE  /\ 1 \in DOMAIN toClient /\ Message = toClient[1] /\ Ahead(1)
           /\ \A i \in DOMAIN toClient' : i + 1 \in DOMAIN toClient /\ toClient'[i] = toClient[i + 1]
           /\ \A i \in DOMAIN toClient : i > 1 => i - 1 \in DOMAIN toClient' /\ toClient'[i - 1] = toClient[i]
           /\ DOMAIN toClient \subseteq Nat /\ DOMAIN toClient' \subseteq Nat \ {0}
           /\ \A i \in DOMAIN toClient' : Ahead(i)' =>
                \A j \in 2 .. i : ~IsFormats(j)
           /\ \A i \in DOMAIN toClient' : Ahead(i)' /\ Message.kind # "formats" => Ahead(i + 1)
<1>0. toClient \in Seq(ToClient) /\ toClient # <<>> /\ toClient' = Tail(toClient)
  BY ShapeFacts DEF Arrives
<1>1. /\ Message = toClient[1] /\ 1 \in DOMAIN toClient
      /\ \A i \in DOMAIN toClient' : i + 1 \in DOMAIN toClient /\ toClient'[i] = toClient[i + 1]
      /\ \A i \in DOMAIN toClient : i > 1 => i - 1 \in DOMAIN toClient' /\ toClient'[i - 1] = toClient[i]
      /\ DOMAIN toClient \subseteq Nat
  BY <1>0, TailElements DEF Message
<1>2. DOMAIN toClient' = 1 .. Len(toClient') /\ Len(toClient') \in Nat
  BY <1>0
<1>3. ASSUME NEW i \in DOMAIN toClient', Ahead(i)', NEW j \in 2 .. i PROVE ~IsFormats(j)
  <2>1. j - 1 \in 1 .. i - 1 /\ (j - 1) + 1 = j /\ j - 1 \in DOMAIN toClient'
    BY <1>2
  <2>2. toClient'[j - 1].kind # "formats"
    BY <1>3, <2>1 DEF Ahead, IsFormats
  <2>3. toClient'[j - 1] = toClient[j]
    BY <1>1, <2>1
  <2>. QED
    BY <2>2, <2>3 DEF IsFormats
<1>4. ASSUME NEW i \in DOMAIN toClient', Ahead(i)', Message.kind # "formats" PROVE Ahead(i + 1)
  <2>1. ASSUME NEW j \in 1 .. (i + 1) - 1 PROVE ~IsFormats(j)
    <3>1. j = 1 \/ j \in 2 .. i
      BY <1>2
    <3>2. ~IsFormats(1)
      BY <1>1, <1>4 DEF IsFormats
    <3>. QED
      BY <1>3, <1>4, <3>1, <3>2
  <2>. QED
    BY <2>1 DEF Ahead
<1>5. Ahead(1)
  BY DEF Ahead
<1>. QED
  BY <1>1, <1>2, <1>3, <1>4, <1>5

\* The copy in force is one of the server's.
LEMMA CurrentIsCopy ==
    ASSUME ShapeInv, copyOf # <<>>
    PROVE  CurrentCopy \in 1 .. Len(Copies) /\ Len(copyOf) \in DOMAIN copyOf /\ Current - RemoteBit = Len(copyOf)
<1>1. copyOf \in Seq(1 .. Len(Copies))
  BY ShapeFacts
<1>2. Len(copyOf) \in DOMAIN copyOf /\ Len(copyOf) \in Nat
  BY <1>1
<1>3. Current - RemoteBit = Len(copyOf)
  BY <1>2 DEF Current, RemoteBit
<1>. QED
  BY <1>1, <1>2, <1>3 DEF CurrentCopy

\* The copy in force is the server's unless an announcement is under way.
LEMMA InForceStep ==
    ASSUME ShapeInv, ChannelInv, DataInv, [Next]_vars
    PROVE  InForce'
<1>0. ~IsTransfer(None) /\ InForce /\ toClient \in Seq(ToClient)
  BY ShapeFacts DEF IsTransfer, DataInv
<1>1. CASE Clears
  BY <1>0, <1>1 DEF Clears, InForce
<1>2. CASE Leaves
  BY <1>0, <1>2 DEF Leaves, Keeps, GivesUp, InForce, CurrentCopy, IsFormats
<1>3. ASSUME Arrives, Message.kind # "formats", UNCHANGED copyOf,
             st'.pending # 0 \/ IsTransfer(st'.transfer) => st.pending # 0 \/ IsTransfer(st.transfer)
      PROVE  InForce'
  <2>1. ASSUME NEW i \in DOMAIN toClient, IsFormats(i)
        PROVE  \E j \in DOMAIN toClient' : toClient'[j].kind = "formats"
    <3>1. i # 1
      BY <1>3, <2>1, ArriveFacts DEF IsFormats
    <3>2. i > 1
      BY <1>0, <3>1
    <3>3. i - 1 \in DOMAIN toClient' /\ toClient'[i - 1] = toClient[i]
      BY <1>3, <3>2, ArriveFacts
    <3>. QED
      BY <2>1, <3>3 DEF IsFormats
  <2>. QED
    BY <1>0, <1>3, <2>1 DEF InForce, Arrives, CurrentCopy, IsFormats
<1>4. CASE PassesOver
  BY <1>0, <1>3, <1>4 DEF PassesOver, Keeps, GivesUp
<1>5. CASE Publishes
  <2>. DEFINE m == [kind |-> "formats", copy |-> Copies[copied'], number |-> copied']
  <2>1. toClient' = Append(toClient, m) /\ m.kind = "formats"
    BY <1>5 DEF Publishes, Announces
  <2>. HIDE DEF m
  <2>2. Len(toClient) + 1 \in DOMAIN toClient' /\ toClient'[Len(toClient) + 1] = m
    BY <1>0, <2>1
  <2>. QED
    BY <2>1, <2>2 DEF InForce, IsFormats
<1>6. CASE Serves
  <2>1. \A i \in DOMAIN toClient : i \in DOMAIN toClient' /\ toClient'[i] = toClient[i]
    <3>1. ASSUME NEW m, toClient' = Append(toClient, m)
          PROVE  \A i \in DOMAIN toClient : i \in DOMAIN toClient' /\ toClient'[i] = toClient[i]
      BY <1>0, <3>1
    <3>. QED
      BY <1>6, <3>1 DEF Serves, Answered
  <2>. QED
    BY <1>0, <1>6, <2>1 DEF Serves, Keeps, GivesUp, InForce, CurrentCopy, IsFormats
<1>7. CASE Begins
  <2>1. Message \in Formats /\ copyOf' = Append(copyOf, Message.number) /\ Arrives
    BY <1>7 DEF Begins, Reserved
  <2>2. CurrentCopy' = Message.number
    <3>1. copyOf \in Seq(1 .. Len(Copies)) /\ Message.number \in 1 .. Len(Copies)
      BY <2>1, ShapeFacts DEF Formats
    <3>2. Len(copyOf') = Len(copyOf) + 1 /\ copyOf'[Len(copyOf) + 1] = Message.number
      BY <2>1, <3>1, AppendElements
    <3>. QED
      BY <3>2 DEF CurrentCopy
  <2>3. 1 \in DOMAIN toClient /\ Message = toClient[1] /\ IsFormats(1)
    BY <2>1, ArriveFacts DEF Formats, IsFormats
  <2>4. toClient[1].number = copied \/ \E j \in DOMAIN toClient : 1 < j /\ IsFormats(j)
    BY <2>3 DEF ChannelInv, LastIsNewest
  <2>5. ASSUME NEW j \in DOMAIN toClient, 1 < j, IsFormats(j)
        PROVE  \E i \in DOMAIN toClient' : toClient'[i].kind = "formats"
    <3>1. j - 1 \in DOMAIN toClient' /\ toClient'[j - 1] = toClient[j]
      BY <2>1, <2>5, ArriveFacts
    <3>. QED
      BY <2>5, <3>1 DEF IsFormats
  <2>6. copied' = copied
    BY <2>1 DEF Arrives
  <2>. QED
    BY <2>2, <2>3, <2>4, <2>5, <2>6 DEF InForce, IsFormats
<1>8. CASE Prepares
  BY <1>3, <1>8 DEF Prepares, Lists
<1>9. CASE InstallsOne
  <2>1. st.pending # 0
    <3>1. backend.id = Current /\ Current # 0 /\ st.pending = backend.id
      <4>1. backend # Idle
        BY <1>9 DEF InstallsOne, Idle
      <4>2. Current \in Nat /\ Current # 0
        BY ShapeFacts DEF Current, RemoteBit
      <4>. QED
        BY <1>9, <4>1, <4>2 DEF InstallsOne, Installs, ShapeInv, OneTransfer
    <3>. QED
      BY <3>1
  <2>. QED
    BY <1>0, <1>9, <2>1 DEF InstallsOne, InForce, CurrentCopy, IsFormats
<1>10. CASE Continues
  <2>1. Message.kind = "contents"
    BY <1>10 DEF Continues, Contents, Failures, SizeAnswers, RangeAnswers
  <2>. QED
    BY <1>3, <1>10, <2>1 DEF Continues
<1>. QED
  BY <1>1, <1>2, <1>4, <1>5, <1>6, <1>7, <1>8, <1>9, <1>10, TransferMoves

\* A download and the callback in progress hold what the copy holds.
LEMMA HoldsStep ==
    ASSUME ShapeInv, ChannelInv, DataInv, [Next]_vars
    PROVE  DownloadHolds' /\ CallbackHolds'
<1>0. ~IsTransfer(None) /\ st \in States /\ DownloadHolds /\ CallbackHolds /\ st.stream \in Nat
  BY ShapeFacts DEF IsTransfer, DataInv
<1>i. Idle.at = "idle"
  BY DEF Idle
<1>1. CASE Keeps
  <2>1. DownloadHolds'
    BY <1>0, <1>1 DEF Keeps, GivesUp, DownloadHolds, CurrentCopy
  <2>2. CASE backend' = Idle
    BY <1>1, <1>i, <2>1, <2>2 DEF CallbackHolds
  <2>3. CASE backend' = backend
    BY <1>0, <1>1, <2>1, <2>3 DEF Keeps, CallbackHolds, CurrentCopy
  <2>. QED
    BY <1>1, <2>2, <2>3 DEF Keeps
<1>2. CASE Begins
  <2>1. st'.transfer = None /\ backend' = [at |-> "paste", id |-> RemoteBit + (Len(copyOf) + 1)]
    BY <1>2 DEF Begins, Reserved
  <2>2. backend'.at = "paste"
    BY <2>1
  <2>. QED
    BY <1>0, <2>1, <2>2 DEF DownloadHolds, CallbackHolds
<1>3. CASE Prepares
  <2>1. PICK t \in {None} \cup TransferSet : Prepared(t)
    BY <1>3 DEF Prepares
  <2>2. Arrives /\ Message \in Lists /\ UNCHANGED <<st, copyOf>> /\ st.pending # 0
    BY <1>3, <2>1 DEF Prepares, Prepared
  <2>3. 1 \in DOMAIN toClient /\ Ahead(1) /\ toClient[1] = Message /\ Message.kind = "list"
    BY <2>2, ArriveFacts DEF Lists
  <2>4. ListOf(Message, CurrentCopy)
    BY <2>2, <2>3 DEF DataInv, AnswersMatch
  <2>5. IsTransfer(t) => Blank(t, CurrentCopy)
    BY <2>1, <2>4 DEF Prepared, ListOf, Blank
  <2>6. backend'.at = "install" /\ backend'.t = t
    BY <2>1 DEF Prepared
  <2>. QED
    BY <1>0, <2>2, <2>5, <2>6 DEF DownloadHolds, CallbackHolds, CurrentCopy
<1>4. CASE InstallsOne
  <2>1. PICK a \in Wants \cup Endings \cup Fails : Installs(a)
    BY <1>4 DEF InstallsOne
  <2>2. backend'.at = "dispatch" /\ backend'.do = a
    BY <2>1 DEF Installs
  <2>3. UNCHANGED copyOf /\ ~IsTransfer(st.transfer) /\ backend.at = "install" /\ copyOf # <<>>
    <3>1. backend # Idle
      BY <1>4 DEF InstallsOne, Idle
    <3>. QED
      BY <1>4, <3>1 DEF InstallsOne, ShapeInv, OneTransfer
  <2>4. CASE ~IsTransfer(backend.t) /\ a = Fail(None) /\ st'.transfer = st.transfer
    <3>1. a.act = "fail"
      BY <2>4 DEF Fail
    <3>. QED
      BY <2>2, <2>3, <2>4, <3>1 DEF DownloadHolds, CallbackHolds
  <2>5. CASE /\ backend.t \in TransferSet /\ a = Start(backend.t, st.stream)
             /\ st'.transfer = (IF a.act = "request" THEN a.t ELSE st.transfer)
    <3>1. Blank(backend.t, CurrentCopy)
      BY <1>0, <2>3, <2>5, TransferIsOne DEF CallbackHolds
    <3>2. CurrentCopy \in 1 .. Len(Copies)
      BY <2>3, CurrentIsCopy
    <3>3. Outcome(a, CurrentCopy)
      BY <1>0, <2>5, <3>1, <3>2, StartHolds
    <3>. QED
      BY <2>2, <2>3, <2>5, <3>3 DEF DownloadHolds, CallbackHolds, Outcome, CurrentCopy
  <2>. QED
    BY <2>1, <2>4, <2>5 DEF Installs
<1>5. CASE Continues
  <2>1. PICK a \in Wants \cup Endings \cup Fails : Advances(a)
    BY <1>5 DEF Continues
  <2>2. Arrives /\ Message \in Contents /\ UNCHANGED copyOf /\ IsTransfer(st.transfer) /\ copyOf # <<>>
    BY <1>5 DEF Continues, ShapeInv, OneTransfer
  <2>3. 1 \in DOMAIN toClient /\ Ahead(1) /\ toClient[1] = Message /\ Message.kind = "contents"
    BY <2>2, ArriveFacts DEF Contents, Failures, SizeAnswers, RangeAnswers
  <2>4. Message.stream = st.transfer.asked => Answers(Message, st.transfer, CurrentCopy)
    BY <2>2, <2>3 DEF DataInv, AnswersMatch
  <2>5. st.transfer.asked # 0 /\ st.transfer \in TransferSet
    BY <2>1, <2>2 DEF ShapeInv, StreamsGivenOut, Advances
  <2>6. CurrentCopy \in 1 .. Len(Copies)
    BY <2>2, CurrentIsCopy
  <2>7. Holds(st.transfer, CurrentCopy)
    BY <1>0, <2>2 DEF DownloadHolds
  <2>8. Outcome(a, CurrentCopy)
    <3>1. a = Advance(st.transfer, Message, st.stream)
      BY <2>1 DEF Advances
    <3>. QED
      BY <1>0, <2>2, <2>4, <2>5, <2>6, <2>7, <3>1, AdvanceHolds
  <2>9. backend'.at = "dispatch" /\ backend'.do = a
    BY <2>1 DEF Advances
  <2>10. CallbackHolds'
    BY <2>2, <2>8, <2>9 DEF CallbackHolds, Outcome, CurrentCopy
  <2>11. st'.transfer = (IF a.act \in {"request", "ignore"} THEN a.t ELSE None) /\ (a.act = "ignore" => a.t = st.transfer)
    BY <2>1 DEF Advances, Stepped
  <2>12. DownloadHolds'
    BY <1>0, <2>2, <2>7, <2>8, <2>11 DEF DownloadHolds, Outcome, CurrentCopy
  <2>. QED
    BY <2>10, <2>12
<1>. QED
  BY <1>1, <1>2, <1>3, <1>4, <1>5, TransferMoves DEF Clears, Leaves, PassesOver, Publishes, Serves

\* The requests under way are those of their transfers.
LEMMA RequestsStep ==
    ASSUME ShapeInv, ChannelInv, DataInv, [Next]_vars
    PROVE  RequestsMatch'
<1>0. ~IsTransfer(None) /\ st \in States /\ RequestsMatch /\ st.stream \in Nat /\ RequestsComeFrom
  BY ShapeFacts, RequestMoves DEF IsTransfer, DataInv
<1>i. Idle.at = "idle"
  BY DEF Idle
<1>1. CASE Keeps
  <2>. SUFFICES ASSUME IsTransfer(st'.transfer) PROVE RequestsMatch'
    BY DEF RequestsMatch
  <2>1. st'.transfer = st.transfer
    BY <1>0, <1>1 DEF Keeps, GivesUp
  <2>2. ASSUME NEW i \in DOMAIN toServer', toServer'[i].kind \in {"size", "range"}, toServer'[i].stream = st'.transfer.asked
        PROVE  toServer'[i] = Asked(st'.transfer)
    BY <1>0, <2>1, <2>2 DEF RequestsComeFrom, RequestsMatch
  <2>3. backend'.at = "dispatch" => backend' = backend
    BY <1>1, <1>i DEF Keeps
  <2>. QED
    BY <1>0, <2>1, <2>2, <2>3 DEF RequestsMatch
<1>2. CASE Begins
  BY <1>0, <1>2 DEF Begins, Reserved, RequestsMatch
<1>3. CASE Prepares
  <2>1. ~IsTransfer(st.transfer) /\ st' = st
    BY <1>3 DEF Prepares, Prepared, ShapeInv, OneTransfer
  <2>. QED
    BY <2>1 DEF RequestsMatch
<1>4. ASSUME NEW a, a.act = "request" => a.request = Asked(a.t), a.t.asked = st.stream, st'.transfer = a.t,
             UNCHANGED toServer, backend'.do = a
      PROVE  RequestsMatch'
  <2>1. \A i \in DOMAIN toServer : toServer[i].kind \in {"size", "range"} => toServer[i].stream # st.stream
    <3>1. ASSUME NEW i \in DOMAIN toServer, toServer[i].kind \in {"size", "range"} PROVE toServer[i].stream # st.stream
      <4>1. toServer[i] \in ToServer
        BY ShapeFacts
      <4>2. toServer[i].stream < st.stream
        BY <3>1 DEF ShapeInv, Queues, ServerQueue
      <4>3. toServer[i] \in Requests
        BY <3>1, <4>1 DEF ToServer, Announcements, Pastes
      <4>4. toServer[i].stream \in Nat
        BY <4>3 DEF Requests
      <4>. QED
        BY <1>0, <4>2, <4>4
    <3>. QED
      BY <3>1
  <2>. QED
    BY <1>4, <2>1 DEF RequestsMatch
<1>5. CASE InstallsOne
  <2>1. PICK a \in Wants \cup Endings \cup Fails : Installs(a)
    BY <1>5 DEF InstallsOne
  <2>2. CASE ~IsTransfer(st'.transfer)
    BY <2>2 DEF RequestsMatch
  <2>3. CASE IsTransfer(st'.transfer)
    <3>1. /\ backend.t \in TransferSet /\ a = Start(backend.t, st.stream) /\ a.act = "request"
          /\ st'.transfer = a.t /\ UNCHANGED toServer
      BY <1>5, <2>1, <2>3 DEF InstallsOne, Installs
    <3>2. Stepped(a, backend.t, st.stream)
      BY <1>0, <3>1, StartShape
    <3>3. a.t.asked = st.stream /\ a.request = Asked(a.t)
      BY <3>1, <3>2 DEF Stepped
    <3>4. backend'.do = a
      BY <2>1 DEF Installs
    <3>. QED
      BY <1>4, <3>1, <3>3, <3>4
  <2>. QED
    BY <2>2, <2>3
<1>6. CASE Continues
  <2>1. PICK a \in Wants \cup Endings \cup Fails : Advances(a)
    BY <1>6 DEF Continues
  <2>2. Stepped(a, st.transfer, st.stream) /\ backend'.do = a /\ UNCHANGED toServer
    BY <1>6, <2>1 DEF Advances, Continues
  <2>3. st'.transfer = (IF a.act \in {"request", "ignore"} THEN a.t ELSE None)
    BY <2>1 DEF Advances
  <2>4. CASE a.act = "request"
    BY <1>4, <2>2, <2>3, <2>4 DEF Stepped
  <2>5. CASE a.act = "ignore"
    <3>1. st'.transfer = st.transfer /\ backend'.do.act = "ignore"
      BY <2>2, <2>3, <2>5 DEF Stepped
    <3>. QED
      BY <1>0, <2>2, <3>1 DEF RequestsMatch
  <2>6. CASE a.act \notin {"request", "ignore"}
    BY <1>0, <2>3, <2>6 DEF RequestsMatch
  <2>. QED
    BY <2>4, <2>5, <2>6
<1>. QED
  BY <1>1, <1>2, <1>3, <1>5, <1>6, TransferMoves DEF Clears, Leaves, PassesOver, Publishes, Serves

\* An answer to the request that a download waits for.
LEMMA RepliesAnswer ==
    ASSUME NEW k \in 1 .. Len(Copies), NEW t \in TransferSet, Holds(t, k),
           NEW r \in Contents, Replies(r, Asked(t), k)
    PROVE  Answers(r, t, k)
<1>. DEFINE m == Asked(t)
<1>0. t.file \in 1 .. Len(Sizes[k]) /\ Sizes[k][t.file] \in Nat /\ t.offset \in Nat /\ t.requested \in Nat
  BY SizesOf DEF Holds, TransferSet
<1>1. /\ m.kind = (IF t.requested = 0 THEN "size" ELSE "range")
      /\ m.file = t.file /\ m.position = t.offset /\ m.size = t.requested
  BY DEF Asked, Request
<1>. HIDE DEF m
<1>2. CASE r.error
  BY <1>2 DEF Answers
<1>3. CASE m.kind = "size" /\ "size" \in DOMAIN r /\ r.size = Sizes[k][m.file]
  BY <1>1, <1>3 DEF Answers
<1>4. CASE /\ m.kind = "range" /\ "data" \in DOMAIN r
           /\ \E n \in 1 .. m.size : m.position + n <= Sizes[k][m.file] /\ r.data = Piece(k, m.file, m.position, n)
  <2>1. PICK n \in 1 .. m.size : m.position + n <= Sizes[k][m.file] /\ r.data = Piece(k, m.file, m.position, n)
    BY <1>4
  <2>2. t.requested # 0 /\ "data" \in DOMAIN r
    BY <1>1, <1>4
  <2>3. t.offset + n <= Sizes[k][t.file] /\ r.data = Piece(k, t.file, t.offset, n) /\ n \in 1 .. t.requested
    BY <1>1, <2>1
  <2>4. n \in 1 .. Sizes[k][t.file]
    BY <1>0, <2>3
  <2>. QED
    BY <2>2, <2>3, <2>4 DEF Answers
<1>. QED
  BY <1>2, <1>3, <1>4 DEF Replies, m

\* The answers under way are of the copy in force.
LEMMA AnswersStep ==
    ASSUME ShapeInv, ChannelInv, DataInv, [Next]_vars
    PROVE  AnswersMatch'
<1>0. ~IsTransfer(None) /\ st \in States /\ AnswersMatch /\ st.stream \in Nat /\ toClient \in Seq(ToClient)
  BY ShapeFacts DEF IsTransfer, DataInv
<1>1. CASE Clears
  BY <1>0, <1>1 DEF Clears, AnswersMatch
<1>2. CASE Leaves
  <2>1. UNCHANGED <<toClient, copyOf>>
    BY <1>2 DEF Leaves, Keeps
  <2>2. st'.pending \in {0, st.pending} /\ st'.transfer \in {None, st.transfer}
    BY <1>2 DEF Leaves, Keeps, GivesUp
  <2>. QED
    BY <1>0, <2>1, <2>2 DEF AnswersMatch, CurrentCopy, Ahead, IsFormats
<1>3. ASSUME Arrives, Message.kind # "formats", UNCHANGED copyOf,
             st'.pending \in {0, st.pending}, st'.transfer \in {None, st.transfer}
      PROVE  AnswersMatch'
  <2>1. ASSUME NEW i \in DOMAIN toClient', Ahead(i)'
        PROVE  i + 1 \in DOMAIN toClient /\ toClient'[i] = toClient[i + 1] /\ Ahead(i + 1)
    BY <1>3, <2>1, ArriveFacts
  <2>. QED
    BY <1>0, <1>3, <2>1 DEF AnswersMatch, CurrentCopy
<1>4. CASE PassesOver
  BY <1>3, <1>4 DEF PassesOver, Keeps, GivesUp
<1>5. ASSUME NEW m \in ToClient, toClient' = Append(toClient, m), UNCHANGED copyOf,
             st'.pending \in {0, st.pending}, st'.transfer \in {None, st.transfer},
             (\A j \in DOMAIN toClient : ~IsFormats(j)) =>
                /\ st'.pending # 0 /\ m.kind = "list" => ListOf(m, CurrentCopy)
                /\ IsTransfer(st'.transfer) /\ m.kind = "contents" /\ m.stream = st'.transfer.asked
                     => Answers(m, st'.transfer, CurrentCopy)
      PROVE  AnswersMatch'
  <2>n. PICK n \in Nat : n = Len(toClient)
    BY <1>0
  <2>0. n \in Nat /\ DOMAIN toClient = 1 .. n /\ DOMAIN toClient' = 1 .. n + 1 /\ toClient'[n + 1] = m
        /\ \A i \in 1 .. n : toClient'[i] = toClient[i]
    BY <1>0, <1>5, <2>n, AppendElements
  <2>1. ASSUME NEW i \in 1 .. n, Ahead(i)' PROVE Ahead(i)
    BY <2>0, <2>1 DEF Ahead, IsFormats
  <2>2. Ahead(n + 1)' => \A j \in DOMAIN toClient : ~IsFormats(j)
    BY <2>0 DEF Ahead, IsFormats
  <2>3. \A i \in 1 .. n + 1 : i \in 1 .. n \/ i = n + 1
    BY <2>0
  <2>4. CurrentCopy' = CurrentCopy
    BY <1>5 DEF CurrentCopy
  <2>5. ASSUME NEW i \in 1 .. n, Ahead(i)'
        PROVE  /\ st'.pending # 0 /\ toClient'[i].kind = "list" => ListOf(toClient'[i], CurrentCopy')
               /\ IsTransfer(st'.transfer) /\ toClient'[i].kind = "contents" /\ toClient'[i].stream = st'.transfer.asked
                    => Answers(toClient'[i], st'.transfer, CurrentCopy')
    BY <1>0, <1>5, <2>0, <2>1, <2>4, <2>5 DEF AnswersMatch
  <2>6. ASSUME Ahead(n + 1)'
        PROVE  /\ st'.pending # 0 /\ toClient'[n + 1].kind = "list" => ListOf(toClient'[n + 1], CurrentCopy')
               /\ IsTransfer(st'.transfer) /\ toClient'[n + 1].kind = "contents"
                    /\ toClient'[n + 1].stream = st'.transfer.asked
                    => Answers(toClient'[n + 1], st'.transfer, CurrentCopy')
    BY <1>5, <2>0, <2>2, <2>4, <2>6
  <2>. QED
    BY <2>0, <2>3, <2>5, <2>6 DEF AnswersMatch
<1>6. CASE Publishes
  <2>. DEFINE m == [kind |-> "formats", copy |-> Copies[copied'], number |-> copied']
  <2>1. toClient' = Append(toClient, m) /\ m.kind = "formats" /\ UNCHANGED copyOf
    BY <1>6 DEF Publishes, Announces
  <2>2. m \in ToClient
    <3>1. copied' \in 0 .. Len(Copies) /\ copied' = copied + 1 /\ copied \in Nat
      BY <1>6, ShapeStep, ShapeFacts DEF ShapeInv, Shapes, Publishes, Announces
    <3>2. copied' \in 1 .. Len(Copies)
      BY <3>1
    <3>3. Copies[copied'] \in {"text", "files", "other"}
      BY <3>2, ClipboardAssumption
    <3>. QED
      BY <3>2, <3>3 DEF ToClient, Formats
  <2>. HIDE DEF m
  <2>3. st'.pending \in {0, st.pending} /\ st'.transfer \in {None, st.transfer}
    BY <1>6 DEF Publishes, Keeps, GivesUp
  <2>. QED
    BY <1>5, <2>1, <2>2, <2>3
<1>7. CASE Serves
  <2>1. PICK at \in DOMAIN toServer : Answered(at)
    BY <1>7 DEF Serves
  <2>2. st'.pending \in {0, st.pending} /\ st'.transfer \in {None, st.transfer} /\ UNCHANGED <<copyOf, copied>>
    BY <1>7 DEF Serves, Keeps, GivesUp
  <2>3. (\A j \in DOMAIN toClient : ~IsFormats(j)) /\ (st'.pending # 0 \/ IsTransfer(st'.transfer)) => copied = CurrentCopy
    BY <1>0, <2>2 DEF DataInv, InForce
  <2>4. CASE toClient' = toClient
    BY <1>0, <2>2, <2>4 DEF AnswersMatch, CurrentCopy, Ahead, IsFormats
  <2>5. ASSUME NEW e \in BOOLEAN, NEW k \in 1 .. copied,
               toClient' = Append(toClient, [kind |-> "text", error |-> e, number |-> k])
        PROVE  AnswersMatch'
    <3>. DEFINE m == [kind |-> "text", error |-> e, number |-> k]
    <3>1. m \in ToClient /\ m.kind = "text"
      BY ShapeFacts DEF ToClient, TextAnswers
    <3>2. toClient' = Append(toClient, m)
      BY <2>5
    <3>. HIDE DEF m
    <3>. QED
      BY <1>5, <2>2, <3>1, <3>2
  <2>6. ASSUME NEW l \in {0, copied}, NEW f \in Seq(Seq(Nat)), Len(f) = Len(Sizes[copied]),
               toClient' = Append(toClient, [kind |-> "list", lock |-> l, files |-> f])
        PROVE  AnswersMatch'
    <3>. DEFINE m == [kind |-> "list", lock |-> l, files |-> f]
    <3>1. m \in ToClient /\ m.kind = "list"
      <4>1. l \in LockIds
        BY ClipboardAssumption DEF LockIds, ShapeInv, Shapes
      <4>. QED
        BY <4>1 DEF ToClient, Lists
    <3>2. toClient' = Append(toClient, m) /\ ListOf(m, copied)
      BY <2>6 DEF ListOf
    <3>. HIDE DEF m
    <3>. QED
      BY <1>5, <2>2, <2>3, <3>1, <3>2
  <2>7. ASSUME NEW r \in Contents, toServer[at] \in Requests, toClient' = Append(toClient, r),
               Replies(r, toServer[at], IF toServer[at].lock # 0 THEN toServer[at].lock ELSE copied)
        PROVE  AnswersMatch'
    <3>1. r \in ToClient /\ r.kind = "contents"
      BY DEF ToClient, Contents, Failures, SizeAnswers, RangeAnswers
    <3>2. ASSUME \A j \in DOMAIN toClient : ~IsFormats(j), IsTransfer(st'.transfer), r.stream = st'.transfer.asked
          PROVE  Answers(r, st'.transfer, CurrentCopy)
      <4>1. st'.transfer = st.transfer /\ copied = CurrentCopy
        BY <1>0, <2>2, <2>3, <3>2
      <4>2. st.transfer \in TransferSet /\ copyOf # <<>> /\ IsTransfer(st.transfer)
        BY <1>0, <3>2, <4>1 DEF States, ShapeInv, OneTransfer
      <4>3. toServer[at].stream = st.transfer.asked /\ toServer[at].kind \in {"size", "range"}
        BY <2>7, <3>2, <4>1 DEF Replies, Requests
      <4>4. toServer[at] = Asked(st.transfer)
        BY <4>2, <4>3 DEF DataInv, RequestsMatch
      <4>5. Holds(st.transfer, CurrentCopy)
        BY <4>2 DEF DataInv, DownloadHolds
      <4>6. toServer[at].lock = st.transfer.lock /\ st.transfer.lock \in {0, CurrentCopy}
        BY <4>4, <4>5 DEF Asked, Request, Holds
      <4>7. CurrentCopy \in 1 .. Len(Copies)
        BY <4>2, CurrentIsCopy
      <4>8. (IF toServer[at].lock # 0 THEN toServer[at].lock ELSE copied) = CurrentCopy
        BY <4>1, <4>6
      <4>9. Replies(r, Asked(st.transfer), CurrentCopy)
        BY <2>7, <4>4, <4>8
      <4>. QED
        BY <4>1, <4>2, <4>5, <4>7, <4>9, RepliesAnswer
    <3>. QED
      BY <1>5, <2>2, <2>7, <3>1, <3>2
  <2>. QED
    BY <2>1, <2>4, <2>5, <2>6, <2>7 DEF Answered
<1>8. CASE Begins
  <2>1. Message \in Formats /\ copyOf' = Append(copyOf, Message.number) /\ Arrives /\ st'.transfer = None
    BY <1>8 DEF Begins, Reserved
  <2>2. CurrentCopy' = Message.number
    <3>1. copyOf \in Seq(1 .. Len(Copies)) /\ Message.number \in 1 .. Len(Copies)
      BY <2>1, ShapeFacts DEF Formats
    <3>2. Len(copyOf') = Len(copyOf) + 1 /\ copyOf'[Len(copyOf) + 1] = Message.number
      BY <2>1, <3>1, AppendElements
    <3>. QED
      BY <3>2 DEF CurrentCopy
  <2>3. 1 \in DOMAIN toClient /\ Message = toClient[1] /\ IsFormats(1)
    BY <2>1, ArriveFacts DEF Formats, IsFormats
  <2>4. ASSUME NEW i \in DOMAIN toClient', Ahead(i)', toClient'[i].kind = "list"
        PROVE  ListOf(toClient'[i], CurrentCopy')
    <3>1. /\ i + 1 \in DOMAIN toClient /\ toClient'[i] = toClient[i + 1] /\ i \in Nat \ {0}
          /\ \A j \in 2 .. i : ~IsFormats(j)
      BY <2>1, <2>4, ArriveFacts
    <3>2. 1 < i + 1 /\ (1 + 1) .. ((i + 1) - 1) = 2 .. i
      BY <3>1
    <3>3. ListOf(toClient[i + 1], toClient[1].number)
      BY <2>3, <2>4, <3>1, <3>2 DEF ChannelInv, ListsFollow
    <3>. QED
      BY <2>2, <2>3, <3>1, <3>3
  <2>. QED
    BY <1>0, <2>1, <2>4 DEF AnswersMatch
<1>9. CASE Prepares
  <2>1. Arrives /\ Message.kind # "formats" /\ UNCHANGED <<st, copyOf>>
    BY <1>9 DEF Prepares, Lists
  <2>. QED
    BY <1>3, <2>1
<1>10. ASSUME st'.pending = 0, st'.transfer.asked = st.stream,
              \A i \in DOMAIN toClient' : \E j \in DOMAIN toClient : toClient'[i] = toClient[j]
       PROVE  AnswersMatch'
  <2>1. ASSUME NEW j \in DOMAIN toClient, toClient[j].kind = "contents" PROVE toClient[j].stream # st.stream
    <3>1. toClient[j].stream < st.stream
      BY <2>1 DEF ShapeInv, Queues, ClientQueue
    <3>2. toClient[j] \in ToClient
      BY <1>0
    <3>3. toClient[j].stream \in Nat
      BY <2>1, <3>2 DEF ToClient, Formats, TextAnswers, Lists, Contents, Failures, SizeAnswers, RangeAnswers
    <3>. QED
      BY <1>0, <3>1, <3>3
  <2>. QED
    BY <1>10, <2>1 DEF AnswersMatch
<1>11. CASE InstallsOne
  <2>1. PICK a \in Wants \cup Endings \cup Fails : Installs(a)
    BY <1>11 DEF InstallsOne
  <2>2. st'.pending = 0 /\ UNCHANGED toClient
    BY <1>11, <2>1 DEF InstallsOne, Installs
  <2>3. CASE ~IsTransfer(st'.transfer)
    BY <2>2, <2>3 DEF AnswersMatch
  <2>4. CASE IsTransfer(st'.transfer)
    <3>1. backend.t \in TransferSet /\ a = Start(backend.t, st.stream) /\ a.act = "request" /\ st'.transfer = a.t
      BY <1>11, <2>1, <2>4 DEF InstallsOne, Installs
    <3>2. a.t.asked = st.stream
      BY <1>0, <3>1, StartShape DEF Stepped
    <3>. QED
      BY <1>10, <2>2, <3>1, <3>2
  <2>. QED
    BY <2>3, <2>4
<1>12. CASE Continues
  <2>1. PICK a \in Wants \cup Endings \cup Fails : Advances(a)
    BY <1>12 DEF Continues
  <2>2. Stepped(a, st.transfer, st.stream) /\ Arrives /\ UNCHANGED copyOf /\ st'.pending = st.pending
    BY <1>12, <2>1 DEF Advances, Continues
  <2>3. st'.transfer = (IF a.act \in {"request", "ignore"} THEN a.t ELSE None)
    BY <2>1 DEF Advances
  <2>4. Message.kind # "formats"
    BY <1>12 DEF Continues, Contents, Failures, SizeAnswers, RangeAnswers
  <2>5. st.pending = 0
    BY <1>12 DEF Continues, ShapeInv, OneTransfer
  <2>6. CASE a.act = "request"
    BY <1>10, <2>2, <2>3, <2>5, <2>6, ArriveFacts DEF Stepped
  <2>7. CASE a.act # "request"
    <3>1. st'.transfer \in {None, st.transfer}
      BY <2>2, <2>3, <2>7 DEF Stepped
    <3>. QED
      BY <1>3, <2>2, <2>4, <3>1
  <2>. QED
    BY <2>6, <2>7
<1>. QED
  BY <1>1, <1>2, <1>4, <1>6, <1>7, <1>8, <1>9, <1>11, <1>12, TransferMoves

\* What was announced stays whole, and what is announced is.
LEMMA ReadyStep ==
    ASSUME ShapeInv, DataInv, [Next]_vars
    PROVE  ReadyIsWhole'
<1>0. ReadyIsWhole /\ CallbackHolds /\ copyOf \in Seq(1 .. Len(Copies))
      /\ events \in Seq(TextEvents \cup FailedEvents \cup ReadyEvents)
  BY ShapeFacts DEF DataInv
<1>1. \A c \in DOMAIN copyOf : c \in DOMAIN copyOf' /\ copyOf'[c] = copyOf[c]
  <2>1. ASSUME NEW n \in 1 .. Len(Copies), copyOf' = Append(copyOf, n)
        PROVE  \A c \in DOMAIN copyOf : c \in DOMAIN copyOf' /\ copyOf'[c] = copyOf[c]
    BY <1>0, <2>1
  <2>2. UNCHANGED copyOf \/ \E n \in 1 .. Len(Copies) : copyOf' = Append(copyOf, n)
    BY TransferMoves DEF Clears, Leaves, PassesOver, Publishes, Serves, Keeps, Begins, Reserved, Prepares,
                         InstallsOne, Continues
  <2>. QED
    BY <2>1, <2>2
<1>2. CASE UNCHANGED events
  BY <1>0, <1>1, <1>2 DEF ReadyIsWhole
<1>3. ASSUME NEW e \in TextEvents \cup FailedEvents \cup ReadyEvents, AddsEvent(e)
      PROVE  ReadyIsWhole'
  <2>1. \A i \in DOMAIN events' : (i \in DOMAIN events /\ events'[i] = events[i]) \/ events'[i] = e
    BY <1>0, <1>3, AppendElements DEF AddsEvent
  <2>2. ASSUME e.kind = "ready"
        PROVE  e.id - RemoteBit \in DOMAIN copyOf' /\ e.got = AllFiles(copyOf'[e.id - RemoteBit])
    <3>1. e \notin TextEvents /\ e \notin FailedEvents
      BY <2>2 DEF TextEvents, FailedEvents
    <3>2. /\ e.id = Current /\ copyOf # <<>> /\ backend.at = "dispatch" /\ backend.do.act = "ready"
          /\ e.got = backend.do.t.got
      BY <1>3, <3>1 DEF AddsEvent
    <3>3. e.id - RemoteBit = Len(copyOf) /\ Len(copyOf) \in DOMAIN copyOf
      BY <3>2, CurrentIsCopy
    <3>4. e.got = AllFiles(copyOf[Len(copyOf)])
      BY <1>0, <3>2 DEF CallbackHolds, CurrentCopy
    <3>. QED
      BY <1>1, <3>3, <3>4
  <2>. QED
    BY <1>0, <1>1, <2>1, <2>2 DEF ReadyIsWhole
<1>. QED
  BY <1>2, <1>3, EventMoves

\* Nothing is under way at first.
LEMMA DataInit == Init => DataInv
<1>1. ~IsTransfer(None)
  BY DEF IsTransfer
<1>. QED
  BY <1>1 DEF Init, NewState, Idle, DataInv, DownloadHolds, CallbackHolds, InForce, RequestsMatch, AnswersMatch, ReadyIsWhole

\* Every step keeps the bytes right.
LEMMA DataStep == ShapeInv /\ ChannelInv /\ DataInv /\ [Next]_vars => DataInv'
BY InForceStep, HoldsStep, RequestsStep, AnswersStep, ReadyStep DEF DataInv
----------------------------------------------------------------------------
(* The fourth layer: outcomes and directories *)

\* Ids of transfers are not ids of the host.
LEMMA CurrentIsId ==
    ASSUME ShapeInv
    PROVE  Current \in Nat /\ Current >= RemoteBit /\ Current # 0 /\ RemoteBit \in Nat
BY ShapeFacts DEF Current, RemoteBit

\* A transfer that is reserved has a new id, and the id stays otherwise.
LEMMA CurrentMoves ==
    ASSUME ShapeInv
    PROVE  /\ Begins => Current' = Current + 1
           /\ UNCHANGED copyOf => Current' = Current
<1>1. ASSUME Begins PROVE Current' = Current + 1
  <2>1. copyOf \in Seq(1 .. Len(Copies)) /\ Message.number \in 1 .. Len(Copies) /\ copyOf' = Append(copyOf, Message.number)
    BY <1>1, ShapeFacts DEF Begins, Reserved
  <2>2. Len(copyOf') = Len(copyOf) + 1 /\ Len(copyOf) \in Nat
    BY <2>1, AppendElements
  <2>. QED
    BY <2>2 DEF Current, RemoteBit
<1>2. UNCHANGED copyOf => Current' = Current
  BY DEF Current
<1>. QED
  BY <1>1, <1>2

\* What the host can cancel: its own files, or the transfer reserved last while it
\* is awaited or downloaded.
LEMMA CancelWhich ==
    ASSUME ShapeInv, NEW id \in Nat, CancelTransfer(id)
    PROVE  \/ id < RemoteBit
           \/ id = Current /\ (st.pending = id \/ IsTransfer(st.transfer))
<1>. SUFFICES ASSUME id >= RemoteBit, ~(id = Current /\ (st.pending = id \/ IsTransfer(st.transfer)))
              PROVE  FALSE
  BY CurrentIsId
<1>0. st \in States /\ st.local \in LocalSet /\ st.locked \in LockTables
  BY ShapeFacts DEF States
<1>1. st' = CancelledState(id) /\ st' # st
  BY CancelGivesUp DEF CancelTransfer
<1>2. \A n \in 1 .. LocalSets : n # id
  BY ClipboardAssumption, CurrentIsId
<1>3. ~(st.local.kind = "files" /\ st.local.id = id)
  BY <1>0, <1>2 DEF LocalSet, FileLists, None
<1>4. PICK D \in SUBSET Locks : st.locked \in [D -> FileLists]
  BY <1>0 DEF LockTables
<1>5. [l \in {x \in DOMAIN st.locked : st.locked[x].id # id} |-> st.locked[l]] = st.locked
  <2>1. \A x \in D : st.locked[x].id # id
    BY <1>2, <1>4 DEF FileLists
  <2>2. {x \in DOMAIN st.locked : st.locked[x].id # id} = D
    BY <1>4, <2>1
  <2>. QED
    BY <1>4, <2>2
<1>6. st.pending # id
  BY CurrentIsId DEF ShapeInv, OneTransfer, RemoteBit
<1>7. ~(IsTransfer(st.transfer) /\ st.transfer.id = id)
  BY DEF ShapeInv, OneTransfer
<1>8. CancelledState(id) = [st EXCEPT !.local = st.local, !.locked = st.locked, !.pending = st.pending,
                                      !.transfer = st.transfer]
  <2>. DEFINE lk == [l \in {x \in DOMAIN st.locked : st.locked[x].id # id} |-> st.locked[l]]
              lo == IF st.local.kind = "files" /\ st.local.id = id THEN None ELSE st.local
              pe == IF st.pending = id THEN 0 ELSE st.pending
              tr == IF IsTransfer(st.transfer) /\ st.transfer.id = id THEN None ELSE st.transfer
  <2>1. CancelledState(id) = [st EXCEPT !.local = lo, !.locked = lk, !.pending = pe, !.transfer = tr]
    BY DEF CancelledState
  <2>2. lo = st.local /\ lk = st.locked /\ pe = st.pending /\ tr = st.transfer
    BY <1>3, <1>5, <1>6, <1>7
  <2>. HIDE DEF lo, lk, pe, tr
  <2>. QED
    BY <2>1, <2>2
<1>9. [st EXCEPT !.local = st.local, !.locked = st.locked, !.pending = st.pending, !.transfer = st.transfer] = st
  BY <1>0 DEF States
<1>. QED
  BY <1>1, <1>8, <1>9

\* Nothing is left of a transfer once its end was told.
LEMMA ToldStep ==
    ASSUME ShapeInv, OutcomeInv, [Next]_vars
    PROVE  ToldAtTheEnd'
<1>0. /\ ~IsTransfer(None) /\ ToldAtTheEnd /\ events \in Seq(TextEvents \cup FailedEvents \cup ReadyEvents)
      /\ Current \in Nat /\ Current >= RemoteBit /\ RemoteBit \in Nat
  BY ShapeFacts, CurrentIsId DEF IsTransfer, OutcomeInv
<1>1. ASSUME NEW e \in TextEvents \cup FailedEvents \cup ReadyEvents, e.kind # "text", e.id <= Current,
             e.id = Current => st.pending = 0 /\ ~IsTransfer(st.transfer) /\ backend = Idle
      PROVE  e.id <= Current' /\ (e.id = Current' => st'.pending = 0 /\ ~IsTransfer(st'.transfer) /\ backend' = Idle)
  <2>0. e.id \in Nat
    BY <1>1 DEF TextEvents, FailedEvents, ReadyEvents
  <2>1. CASE Keeps
    BY <1>0, <1>1, <2>1, CurrentMoves DEF Keeps, GivesUp
  <2>2. CASE Begins
    BY <1>0, <1>1, <2>0, <2>2, CurrentMoves
  <2>3. CASE Prepares \/ InstallsOne \/ Continues
    <3>1. st.pending # 0 \/ backend # Idle \/ IsTransfer(st.transfer)
      BY <2>3 DEF Prepares, Prepared, InstallsOne, Idle, Continues
    <3>2. UNCHANGED copyOf
      BY <2>3 DEF Prepares, InstallsOne, Continues
    <3>. QED
      BY <1>1, <3>1, <3>2, CurrentMoves
  <2>. QED
    BY <2>1, <2>2, <2>3, TransferMoves DEF Clears, Leaves, PassesOver, Publishes, Serves
<1>2. ASSUME NEW i \in DOMAIN events, events[i].kind # "text"
      PROVE  /\ events[i].id <= Current'
             /\ events[i].id = Current' => st'.pending = 0 /\ ~IsTransfer(st'.transfer) /\ backend' = Idle
  <2>1. events[i] \in TextEvents \cup FailedEvents \cup ReadyEvents
    BY <1>0
  <2>2. events[i].id <= Current /\ (events[i].id = Current => st.pending = 0 /\ ~IsTransfer(st.transfer) /\ backend = Idle)
    BY <1>0, <1>2 DEF ToldAtTheEnd
  <2>. QED
    BY <1>1, <1>2, <2>1, <2>2
<1>3. CASE UNCHANGED events
  BY <1>2, <1>3 DEF ToldAtTheEnd
<1>4. ASSUME NEW e \in TextEvents \cup FailedEvents \cup ReadyEvents, AddsEvent(e) PROVE ToldAtTheEnd'
  <2>1. \A i \in DOMAIN events' : (i \in DOMAIN events /\ events'[i] = events[i]) \/ events'[i] = e
    BY <1>0, <1>4, AppendElements DEF AddsEvent
  <2>2. ASSUME e.kind # "text"
        PROVE  e.id <= Current' /\ (e.id = Current' => st'.pending = 0 /\ ~IsTransfer(st'.transfer) /\ backend' = Idle)
    <3>0. e.id \in Nat /\ e \notin TextEvents
      BY <2>2 DEF TextEvents, FailedEvents, ReadyEvents
    <3>1. CASE e.id < RemoteBit /\ UNCHANGED copyOf
      BY <1>0, <3>0, <3>1, CurrentMoves
    <3>2. CASE e.id = Current /\ Over
      BY <1>0, <3>2, CurrentMoves DEF Over
    <3>. QED
      BY <1>4, <3>0, <3>1, <3>2 DEF AddsEvent
  <2>. QED
    BY <1>2, <2>1, <2>2 DEF ToldAtTheEnd
<1>. QED
  BY <1>3, <1>4, EventMoves

\* What the host cancels.
LEMMA CancelMoves ==
    ASSUME ShapeInv, [Next]_vars
    PROVE  \/ UNCHANGED cancelled
           \/ \E id \in Nat : CancelTransfer(id) /\ cancelled' = cancelled \cup {id}
<1>1. CASE SetLocalText \/ SetLocalFiles \/ SetLocalFilesFails \/ Shutdown \/ ClientEnds
  BY <1>1 DEF SetLocalText, SetLocalFiles, SetLocal, SetLocalFilesFails, Shutdown, ClientEnds
<1>2. CASE \E id \in {RemoteId(i) : i \in 1..Len(Copies)} \cup (1..LocalSets) : CancelTransfer(id)
  BY <1>2, CancelIds DEF CancelTransfer
<1>3. CASE OnRemoteCopyFiles \/ InitiatePaste \/ OnRemoteCopyText \/ OnFormatDataResponse \/ ReceiveRemoteFiles
  BY <1>3 DEF OnRemoteCopyFiles, InitiatePaste, OnRemoteCopyText, OnFormatDataResponse, ReceiveRemoteFiles
<1>4. CASE InstallRemoteTransfer \/ AdvanceRemoteTransfer \/ DispatchRemoteResult \/ CancelRemoteLocks \/ OnLock \/ OnUnlock
  BY <1>4 DEF InstallRemoteTransfer, AdvanceRemoteTransfer, DispatchRemoteResult, CancelRemoteLocks, OnLock, OnUnlock
<1>5. CASE SendLocalFileResponse \/ SendLocalTextResponse \/ OnRequestFormatList \/ BuildCliprdrBackend
             \/ ServerCopies \/ ServerAnswers \/ UNCHANGED vars
  BY <1>5 DEF SendLocalFileResponse, SendLocalTextResponse, OnRequestFormatList, BuildCliprdrBackend, ServerCopies,
              ServerAnswers, vars
<1>. QED
  BY <1>1, <1>2, <1>3, <1>4, <1>5 DEF Next

\* A transfer that is cancelled stays given up.
LEMMA CancelledStep ==
    ASSUME ShapeInv, OutcomeInv, [Next]_vars
    PROVE  CancelledIsOver'
<1>0. /\ ~IsTransfer(None) /\ CancelledIsOver /\ Idle.at = "idle"
      /\ Current \in Nat /\ Current >= RemoteBit /\ RemoteBit \in Nat /\ Current # 0
  BY CurrentIsId DEF IsTransfer, OutcomeInv, Idle
<1>1. ASSUME NEW id \in cancelled
      PROVE  /\ id \in Nat /\ id <= Current'
             /\ id = Current' => /\ st'.pending = 0 /\ ~IsTransfer(st'.transfer)
                                 /\ ~(backend'.at = "dispatch" /\ backend'.do.act = "ready")
  <2>0. /\ id \in Nat /\ id <= Current
        /\ id = Current => /\ st.pending = 0 /\ ~IsTransfer(st.transfer)
                           /\ ~(backend.at = "dispatch" /\ backend.do.act = "ready")
    BY <1>0 DEF CancelledIsOver
  <2>1. CASE Keeps
    <3>1. backend'.at = "dispatch" => backend' = backend
      BY <1>0, <2>1 DEF Keeps
    <3>. QED
      BY <1>0, <2>0, <2>1, <3>1, CurrentMoves DEF Keeps, GivesUp
  <2>2. CASE Begins
    BY <1>0, <2>0, <2>2, CurrentMoves
  <2>3. CASE Prepares \/ InstallsOne \/ Continues
    <3>1. CASE InstallsOne
      <4>1. backend # Idle /\ st.pending = backend.id
        BY <3>1 DEF InstallsOne, Installs, Idle
      <4>2. st.pending = Current
        BY <4>1 DEF ShapeInv, OneTransfer
      <4>3. UNCHANGED copyOf
        BY <3>1 DEF InstallsOne
      <4>. QED
        BY <1>0, <2>0, <4>2, <4>3, CurrentMoves
    <3>2. CASE Prepares \/ Continues
      <4>1. st.pending # 0 \/ IsTransfer(st.transfer)
        BY <3>2 DEF Prepares, Prepared, Continues
      <4>2. UNCHANGED copyOf
        BY <3>2 DEF Prepares, Continues
      <4>. QED
        BY <2>0, <4>1, <4>2, CurrentMoves
    <3>. QED
      BY <2>3, <3>1, <3>2
  <2>. QED
    BY <2>1, <2>2, <2>3, TransferMoves DEF Clears, Leaves, PassesOver, Publishes, Serves
<1>2. CASE UNCHANGED cancelled
  BY <1>1, <1>2 DEF CancelledIsOver
<1>3. ASSUME NEW id \in Nat, CancelTransfer(id), cancelled' = cancelled \cup {id} PROVE CancelledIsOver'
  <2>0. st \in States /\ UNCHANGED <<copyOf, backend>>
    BY <1>3, ShapeFacts DEF CancelTransfer
  <2>1. CASE id < RemoteBit
    <3>1. id <= Current' /\ id # Current'
      BY <1>0, <2>0, <2>1, CurrentMoves
    <3>. QED
      BY <1>1, <1>3, <3>1 DEF CancelledIsOver
  <2>2. CASE id = Current /\ (st.pending = id \/ IsTransfer(st.transfer))
    <3>1. ~(backend.at = "dispatch" /\ backend.do.act = "ready")
      BY <1>0, <2>2 DEF ShapeInv, OneTransfer
    <3>2. st' = CancelledState(id)
      BY <1>3, CancelGivesUp
    <3>3. /\ st'.pending = (IF st.pending = id THEN 0 ELSE st.pending)
          /\ st'.transfer = (IF IsTransfer(st.transfer) /\ st.transfer.id = id THEN None ELSE st.transfer)
      BY <2>0, <3>2 DEF CancelledState, States
    <3>4. st'.pending = 0 /\ ~IsTransfer(st'.transfer)
      BY <1>0, <2>2, <3>3 DEF ShapeInv, OneTransfer
    <3>5. Current' = Current
      BY <2>0, CurrentMoves
    <3>. QED
      BY <1>0, <1>1, <1>3, <2>0, <2>2, <3>1, <3>4, <3>5 DEF CancelledIsOver
  <2>. QED
    BY <1>3, <2>1, <2>2, CancelWhich
<1>. QED
  BY <1>2, <1>3, CancelMoves

\* What a step adds to the transfers that are announced.
LEMMA ReadyMoves ==
    ASSUME ShapeInv, [Next]_vars
    PROVE  \/ ReadyIds' = ReadyIds
           \/ /\ ReadyIds' = ReadyIds \cup {Current} /\ Over
              /\ backend.at = "dispatch" /\ backend.do.act = "ready"
<1>0. events \in Seq(TextEvents \cup FailedEvents \cup ReadyEvents)
  BY ShapeFacts
<1>1. CASE UNCHANGED events
  BY <1>1 DEF ReadyIds
<1>2. ASSUME NEW e \in TextEvents \cup FailedEvents \cup ReadyEvents, AddsEvent(e)
      PROVE  \/ ReadyIds' = ReadyIds
             \/ /\ ReadyIds' = ReadyIds \cup {Current} /\ Over
                /\ backend.at = "dispatch" /\ backend.do.act = "ready"
  <2>n. PICK n \in Nat : n = Len(events)
    BY <1>0
  <2>1. /\ DOMAIN events = 1 .. n /\ DOMAIN events' = 1 .. n + 1 /\ events'[n + 1] = e
        /\ \A i \in 1 .. n : events'[i] = events[i]
    BY <1>0, <1>2, <2>n, AppendElements DEF AddsEvent
  <2>2. \A i : i \in 1 .. n + 1 <=> i \in 1 .. n \/ i = n + 1
    OBVIOUS
  <2>3. CASE e.kind # "ready"
    <3>1. ReadyIds' = ReadyIds
      <4>1. {j \in DOMAIN events' : events'[j].kind = "ready"} = {j \in DOMAIN events : events[j].kind = "ready"}
        BY <2>1, <2>2, <2>3
      <4>. QED
        BY <2>1, <4>1 DEF ReadyIds
    <3>. QED
      BY <3>1
  <2>4. CASE e.kind = "ready"
    <3>1. e \notin TextEvents /\ e \notin FailedEvents
      BY <2>4 DEF TextEvents, FailedEvents
    <3>2. e.id = Current /\ Over /\ backend.at = "dispatch" /\ backend.do.act = "ready"
      BY <1>2, <3>1 DEF AddsEvent
    <3>3. ReadyIds' = ReadyIds \cup {Current}
      <4>1. ASSUME NEW x \in ReadyIds' PROVE x \in ReadyIds \cup {Current}
        <5>1. PICK i \in DOMAIN events' : events'[i].kind = "ready" /\ x = events'[i].id
          BY <4>1 DEF ReadyIds
        <5>. QED
          BY <2>1, <2>2, <3>2, <5>1 DEF ReadyIds
      <4>2. ASSUME NEW x \in ReadyIds PROVE x \in ReadyIds'
        <5>1. PICK i \in DOMAIN events : events[i].kind = "ready" /\ x = events[i].id
          BY <4>2 DEF ReadyIds
        <5>. QED
          BY <2>1, <2>2, <5>1 DEF ReadyIds
      <4>3. Current \in ReadyIds'
        <5>1. n + 1 \in DOMAIN events' /\ events'[n + 1].kind = "ready" /\ events'[n + 1].id = Current
          BY <2>1, <2>4, <3>2
        <5>. QED
          BY <5>1 DEF ReadyIds
      <4>. QED
        BY <4>1, <4>2, <4>3
    <3>. QED
      BY <3>2, <3>3
  <2>. QED
    BY <2>3, <2>4
<1>. QED
  BY <1>1, <1>2, EventMoves

\* A transfer that is not over has not been announced.
LEMMA NotYetReady ==
    ASSUME ShapeInv, OutcomeInv, ~(st.pending = 0 /\ ~IsTransfer(st.transfer) /\ backend = Idle)
    PROVE  Current \notin ReadyIds
BY DEF OutcomeInv, ToldAtTheEnd, ReadyIds

\* A transfer has one outcome.
LEMMA OneOutcomeStep ==
    ASSUME ShapeInv, DataInv, OutcomeInv, [Next]_vars
    PROVE  OneOutcome'
<1>0. OneOutcome /\ events \in Seq(TextEvents \cup FailedEvents \cup ReadyEvents) /\ ToldAtTheEnd
  BY ShapeFacts DEF OutcomeInv
<1>i. Idle.at = "idle"
  BY DEF Idle
<1>1. ASSUME NEW i \in DOMAIN events', NEW j \in DOMAIN events', i < j, events'[j].kind = "ready"
      PROVE  events'[i].kind = "text" \/ events'[i].id # events'[j].id
  <2>1. CASE UNCHANGED events
    BY <1>0, <1>1, <2>1 DEF OneOutcome
  <2>2. ASSUME NEW e \in TextEvents \cup FailedEvents \cup ReadyEvents, AddsEvent(e)
        PROVE  events'[i].kind = "text" \/ events'[i].id # events'[j].id
    <3>n. PICK n \in Nat : n = Len(events)
      BY <1>0
    <3>1. /\ DOMAIN events = 1 .. n /\ DOMAIN events' = 1 .. n + 1 /\ events'[n + 1] = e
          /\ \A x \in 1 .. n : events'[x] = events[x]
      BY <1>0, <2>2, <3>n, AppendElements DEF AddsEvent
    <3>2. i \in 1 .. n /\ (j \in 1 .. n \/ j = n + 1)
      BY <1>1, <3>1
    <3>3. CASE j \in 1 .. n
      BY <1>0, <1>1, <3>1, <3>2, <3>3 DEF OneOutcome
    <3>4. CASE j = n + 1
      <4>1. e.kind = "ready" /\ events'[j] = e
        BY <1>1, <3>1, <3>4
      <4>2. e \notin TextEvents /\ e \notin FailedEvents
        BY <4>1 DEF TextEvents, FailedEvents
      <4>3. e.id = Current /\ backend.at = "dispatch"
        BY <2>2, <4>2 DEF AddsEvent
      <4>4. backend # Idle
        BY <1>i, <4>3
      <4>5. events[i].kind = "text" \/ events[i].id # Current
        BY <1>0, <3>1, <3>2, <4>4 DEF ToldAtTheEnd
      <4>. QED
        BY <3>1, <3>2, <4>1, <4>3, <4>5
    <3>. QED
      BY <3>2, <3>3, <3>4
  <2>. QED
    BY <2>1, <2>2, EventMoves
<1>2. ReadyIds' \cap cancelled' = {}
  <2>0. ReadyIds \cap cancelled = {}
    BY <1>0 DEF OneOutcome
  <2>1. CASE UNCHANGED cancelled
    <3>1. backend.at = "dispatch" /\ backend.do.act = "ready" => Current \notin cancelled
      BY DEF OutcomeInv, CancelledIsOver
    <3>. QED
      BY <2>0, <2>1, <3>1, ReadyMoves
  <2>2. ASSUME NEW id \in Nat, CancelTransfer(id), cancelled' = cancelled \cup {id}
        PROVE  ReadyIds' \cap cancelled' = {}
    <3>1. UNCHANGED events
      BY <2>2 DEF CancelTransfer
    <3>2. ReadyIds' = ReadyIds
      BY <3>1 DEF ReadyIds
    <3>3. ASSUME id < RemoteBit PROVE id \notin ReadyIds
      <4>1. ASSUME NEW i \in DOMAIN events, events[i].kind = "ready" PROVE events[i].id # id
        <5>1. events[i].id - RemoteBit \in DOMAIN copyOf
          BY <4>1 DEF DataInv, ReadyIsWhole
        <5>2. copyOf \in Seq(1 .. Len(Copies))
          BY ShapeFacts
        <5>3. events[i].id - RemoteBit >= 1
          BY <5>1, <5>2
        <5>4. events[i] \in ReadyEvents
          BY <1>0, <4>1 DEF TextEvents, FailedEvents
        <5>5. events[i].id \in Nat
          BY <5>4 DEF ReadyEvents
        <5>. QED
          BY <3>3, <5>3, <5>5 DEF RemoteBit
      <4>. QED
        BY <4>1 DEF ReadyIds
    <3>4. ASSUME id = Current /\ (st.pending = id \/ IsTransfer(st.transfer)) PROVE id \notin ReadyIds
      BY <3>4, CurrentIsId, NotYetReady
    <3>5. id \notin ReadyIds
      BY <2>2, <3>3, <3>4, CancelWhich
    <3>. QED
      BY <2>0, <2>2, <3>2, <3>5
  <2>. QED
    BY <2>1, <2>2, CancelMoves
<1>. QED
  BY <1>1, <1>2 DEF OneOutcome

\* A directory is in use while files are downloaded to it, while a transfer is
\* prepared, and until it is announced.
Working ==
    \/ IsTransfer(st.transfer)
    \/ backend.at = "install" /\ IsTransfer(backend.t)
    \/ backend.at = "dispatch" /\ backend.do.act = "ready"
InUse == IF Working THEN {Current} ELSE {}

\* The directories, in these terms.
LEMMA DirsInUse == ShapeInv => (NoDirectoryIsLeft <=> dirs = ReadyIds \cup InUse)
<1>. SUFFICES ASSUME ShapeInv PROVE NoDirectoryIsLeft <=> dirs = ReadyIds \cup InUse
  OBVIOUS
<1>1. IsTransfer(st.transfer) => st.transfer.id = Current
  BY DEF ShapeInv, OneTransfer
<1>2. backend.at \in {"install", "dispatch"} => backend.id = Current
  <2>1. backend.at \in {"install", "dispatch"} => backend # Idle
    BY DEF Idle
  <2>. QED
    BY <2>1 DEF ShapeInv, OneTransfer
<1>3. DirsOf(st) = IF IsTransfer(st.transfer) THEN {Current} ELSE {}
  BY <1>1 DEF DirsOf
<1>. QED
  BY <1>2, <1>3 DEF NoDirectoryIsLeft, InUse, Working
\* What a step does to the directories: those of a download that is given up go,
\* those of a transfer that is given up while it was prepared go, and the steps of a
\* download do what they say.
Retains ==
    /\ Keeps
    /\ \/ st'.transfer = st.transfer /\ UNCHANGED dirs
       \/ st'.transfer = None /\ dirs' = dirs \ DirsOf(st)
    /\ \/ UNCHANGED backend
       \/ backend.at = "paste"
       \/ (backend.at = "dispatch" /\ backend.do.act # "ready")
Abandons ==
    /\ backend.at = "install" /\ backend.id = Current /\ ~IsTransfer(st.transfer)
    /\ UNCHANGED <<st, copyOf>> /\ backend' = Idle /\ dirs' = dirs \ {Current}
Finishes ==
    /\ backend.at = "dispatch" /\ backend.do.act = "ready" /\ backend' = Idle /\ UNCHANGED <<st, dirs, copyOf>>
    /\ events' = Append(events, [kind |-> "ready", id |-> Current, got |-> backend.do.t.got])
DropsFirst == Begins /\ dirs' = dirs \ DirsOf(st) /\ backend = Idle

\* Every step is one of these.
LEMMA DirMoves ==
    ASSUME ShapeInv, [Next]_vars
    PROVE  \/ Retains \/ Abandons \/ Finishes \/ DropsFirst
           \/ (Prepares /\ backend = Idle) \/ InstallsOne \/ (Continues /\ backend = Idle)
<1>0. st \in States
  BY ShapeFacts
<1>s. UNCHANGED st => GivesUp /\ st'.transfer = st.transfer
  BY <1>0 DEF GivesUp
<1>1. CASE SetLocalText \/ SetLocalFiles \/ SetLocalFilesFails
  <2>1. GivesUp
    BY <1>1, ShapeLocal
  <2>2. st'.transfer = st.transfer
    BY <1>0, <1>1 DEF SetLocalText, SetLocalFiles, SetLocal, SetLocalFilesFails, States
  <2>. QED
    BY <1>1, <2>1, <2>2 DEF SetLocalText, SetLocalFiles, SetLocal, SetLocalFilesFails, Retains, Keeps
<1>2. CASE Shutdown \/ ClientEnds
  <2>1. GivesUp
    BY <1>2, ShapeController
  <2>2. Shutdown => st'.transfer = None
    BY <1>0 DEF Shutdown, NewState
  <2>. QED
    BY <1>2, <2>1, <2>2, <1>s DEF Shutdown, ClientEnds, Retains, Keeps
<1>3. ASSUME NEW id \in Nat, CancelTransfer(id) PROVE Retains
  <2>1. GivesUp /\ st' = CancelledState(id)
    BY <1>3, CancelGivesUp
  <2>2. dirs' = dirs \ Dropping(st, st') /\ UNCHANGED <<backend, copyOf>>
    BY <1>3 DEF CancelTransfer
  <2>3. CASE st'.transfer = st.transfer
    <3>1. Dropping(st, st') = {}
      BY <2>3 DEF Dropping, DirsOf
    <3>. QED
      BY <2>1, <2>2, <2>3, <3>1 DEF Retains, Keeps
  <2>4. CASE st'.transfer = None
    <3>1. Dropping(st, st') = DirsOf(st)
      BY <2>4 DEF Dropping, DirsOf, IsTransfer
    <3>. QED
      BY <2>1, <2>2, <2>4, <3>1 DEF Retains, Keeps
  <2>. QED
    BY <2>1, <2>3, <2>4 DEF GivesUp
<1>4. CASE OnRemoteCopyFiles
  BY <1>4, ReservedFacts DEF OnRemoteCopyFiles, Callback, Reserved, Begins, Arrives, DropsFirst
<1>5. CASE OnRemoteCopyText \/ BuildCliprdrBackend
  <2>1. GivesUp
    BY <1>5, ShapeTexts
  <2>2. st'.transfer = None
    BY <1>0, <1>5 DEF OnRemoteCopyText, BuildCliprdrBackend, States
  <2>. QED
    BY <1>5, <2>1, <2>2 DEF OnRemoteCopyText, BuildCliprdrBackend, Retains, Keeps
<1>6. CASE OnFormatDataResponse \/ OnRequestFormatList
  <2>1. GivesUp
    BY <1>6, ShapeTexts
  <2>2. st'.transfer = st.transfer
    BY <1>0, <1>6 DEF OnFormatDataResponse, OnRequestFormatList, States
  <2>. QED
    BY <1>6, <2>1, <2>2 DEF OnFormatDataResponse, OnRequestFormatList, Retains, Keeps
<1>7. CASE CancelRemoteLocks
  <2>1. GivesUp
    BY <1>7, ShapeTexts
  <2>2. st'.transfer = None /\ dirs' = dirs \ DirsOf(st)
    BY <1>0, <1>7 DEF CancelRemoteLocks, States, DirsOf
  <2>. QED
    BY <1>7, <2>1, <2>2 DEF CancelRemoteLocks, Retains, Keeps
<1>8. CASE OnLock \/ OnUnlock \/ SendLocalFileResponse \/ SendLocalTextResponse
  <2>1. GivesUp
    BY <1>8, ShapeServing
  <2>2. st'.transfer = st.transfer
    BY <1>0, <1>8 DEF OnLock, OnUnlock, SendLocalFileResponse, SendLocalTextResponse, States
  <2>. QED
    BY <1>8, <2>1, <2>2 DEF OnLock, OnUnlock, SendLocalFileResponse, SendLocalTextResponse, Retains, Keeps
<1>9. CASE ServerCopies \/ ServerAnswers \/ UNCHANGED vars
  BY <1>9, <1>s DEF ServerCopies, ServerAnswers, vars, Retains, Keeps
<1>10. CASE InitiatePaste
  <2>1. GivesUp
    BY <1>10, ShapePaste
  <2>2. st'.transfer = st.transfer
    BY <1>0, <1>10 DEF InitiatePaste, States
  <2>. QED
    BY <1>10, <2>1, <2>2 DEF InitiatePaste, Retains, Keeps
<1>11. CASE DispatchRemoteResult
  <2>1. Dispatches /\ GivesUp /\ UNCHANGED copyOf
    BY <1>11, DispatchFacts, ShapeDispatch DEF DispatchRemoteResult
  <2>2. backend.at = "dispatch" /\ backend' = Idle
    BY <2>1 DEF Dispatches
  <2>3. CASE backend.do.act = "ready"
    BY <2>1, <2>2, <2>3 DEF Dispatches, Finishes
  <2>4. CASE backend.do.act # "ready"
    <3>1. CASE UNCHANGED <<st, dirs>>
      BY <1>s, <2>1, <2>2, <2>4, <3>1 DEF Retains, Keeps
    <3>2. CASE st' = [st EXCEPT !.transfer = None] /\ dirs' = dirs \ DirsOf(st)
      <4>1. st'.transfer = None
        BY <1>0, <3>2 DEF States
      <4>. QED
        BY <2>1, <2>2, <2>4, <3>2, <4>1 DEF Retains, Keeps
    <3>. QED
      BY <2>1, <2>4, <3>1, <3>2 DEF Dispatches
  <2>. QED
    BY <2>3, <2>4
<1>12. CASE ReceiveRemoteFiles
  <2>1. Arrives /\ UNCHANGED <<st, copyOf, toServer>> /\ backend = Idle
    BY <1>12 DEF ReceiveRemoteFiles, Callback, Receive, Arrives
  <2>. QED
    BY <1>12, <1>s, <2>1, PreparedFacts DEF Retains, Keeps, Prepares
<1>13. CASE InstallRemoteTransfer
  <2>1. UNCHANGED <<copyOf, copied, toServer, toClient>>
    BY <1>13 DEF InstallRemoteTransfer, serverVars
  <2>. QED
    BY <1>13, <2>1, InstallFacts DEF Abandons, InstallsOne
<1>14. CASE AdvanceRemoteTransfer
  <2>1. Arrives /\ UNCHANGED <<copyOf, toServer>> /\ backend = Idle
    BY <1>14 DEF AdvanceRemoteTransfer, Callback, Receive, Arrives
  <2>. QED
    BY <1>14, <1>s, <2>1, AdvanceFacts DEF Retains, Keeps, Continues
<1>. QED
  BY <1>1, <1>2, <1>3, <1>4, <1>5, <1>6, <1>7, <1>8, <1>9, <1>10, <1>11, <1>12, <1>13, <1>14, CancelIds DEF Next

\* No directory is left.
LEMMA DirsStep ==
    ASSUME ShapeInv, OutcomeInv, [Next]_vars
    PROVE  NoDirectoryIsLeft'
<1>0. ~IsTransfer(None) /\ dirs = ReadyIds \cup InUse /\ ShapeInv'
  BY DirsInUse, ShapeStep DEF IsTransfer, OutcomeInv
<1>i. Idle.at = "idle"
  BY DEF Idle
<1>t. IsTransfer(st.transfer) => DirsOf(st) = {Current}
  BY DEF DirsOf, ShapeInv, OneTransfer
<1>n. ~IsTransfer(st.transfer) => DirsOf(st) = {}
  BY DEF DirsOf
<1>w. Working => Current \notin ReadyIds
  BY <1>i, NotYetReady DEF Working
<1>r. ~(backend.at = "dispatch" /\ backend.do.act = "ready") => ReadyIds' = ReadyIds
  BY ReadyMoves
<1>d. (ShapeInv => (NoDirectoryIsLeft <=> dirs = ReadyIds \cup InUse))'
  BY DirsInUse, PTL
<1>. SUFFICES dirs' = ReadyIds' \cup InUse'
  BY <1>0, <1>d
<1>1. CASE Retains
  <2>1. Current' = Current /\ (backend' = backend \/ ~(backend.at = "dispatch" /\ backend.do.act = "ready"))
    BY <1>1, CurrentMoves DEF Retains, Keeps
  <2>2. ReadyIds' = ReadyIds
    <3>1. CASE backend' = backend
      BY <1>i, <3>1, ReadyMoves DEF Over
    <3>. QED
      BY <1>r, <2>1, <3>1
  <2>3. /\ backend'.at \in {"install", "dispatch"} => backend' = backend
        /\ \/ backend' = backend
           \/ backend.at = "paste"
           \/ (backend.at = "dispatch" /\ backend.do.act # "ready")
    BY <1>1, <1>i DEF Retains, Keeps
  <2>4. CASE st'.transfer = st.transfer /\ UNCHANGED dirs
    <3>1. Working' <=> Working
      BY <1>i, <2>3, <2>4 DEF Working
    <3>. QED
      BY <1>0, <2>1, <2>2, <2>4, <3>1 DEF InUse
  <2>5. CASE st'.transfer = None /\ dirs' = dirs \ DirsOf(st) /\ IsTransfer(st.transfer)
    <3>1. ~Working'
      BY <1>0, <2>3, <2>5 DEF Working, ShapeInv, OneTransfer
    <3>2. Working
      BY <2>5 DEF Working
    <3>. QED
      BY <1>0, <1>t, <1>w, <2>2, <2>5, <3>1, <3>2 DEF InUse
  <2>6. CASE st'.transfer = None /\ dirs' = dirs \ DirsOf(st) /\ ~IsTransfer(st.transfer)
    <3>1. Working' <=> Working
      BY <1>0, <1>i, <2>3, <2>6 DEF Working
    <3>. QED
      BY <1>0, <1>n, <2>1, <2>2, <2>6, <3>1 DEF InUse
  <2>. QED
    BY <1>1, <2>4, <2>5, <2>6 DEF Retains
<1>2. CASE Abandons
  <2>1. ~Working' /\ ReadyIds' = ReadyIds
    BY <1>2, <1>i, <1>r DEF Working, Abandons
  <2>2. Current \notin ReadyIds
    BY <1>2, <1>i, NotYetReady DEF Abandons
  <2>. QED
    BY <1>0, <1>2, <2>1, <2>2 DEF InUse, Abandons
<1>3. CASE Finishes
  <2>1. ~IsTransfer(st.transfer) /\ Working
    BY <1>3 DEF Working, Finishes, ShapeInv, OneTransfer
  <2>2. ~Working'
    BY <1>3, <1>i, <2>1 DEF Working, Finishes
  <2>3. ReadyIds' = ReadyIds \cup {Current}
    <3>1. ReadyIds' = ReadyIds \/ ReadyIds' = ReadyIds \cup {Current}
      BY ReadyMoves
    <3>2. Current \in ReadyIds'
      <4>. DEFINE e == [kind |-> "ready", id |-> Current, got |-> backend.do.t.got]
      <4>0. events \in Seq(TextEvents \cup FailedEvents \cup ReadyEvents) /\ events' = Append(events, e)
            /\ e.kind = "ready" /\ e.id = Current
        BY <1>3, ShapeFacts DEF Finishes
      <4>. HIDE DEF e
      <4>1. Len(events) + 1 \in DOMAIN events' /\ events'[Len(events) + 1] = e
        BY <4>0
      <4>. QED
        BY <4>0, <4>1 DEF ReadyIds
    <3>. QED
      BY <3>1, <3>2
  <2>. QED
    BY <1>0, <1>3, <2>1, <2>2, <2>3 DEF InUse, Finishes
<1>4. CASE DropsFirst
  <2>1. backend = Idle /\ backend'.at = "paste" /\ st'.transfer = None /\ dirs' = dirs \ DirsOf(st)
    BY <1>4 DEF DropsFirst, Begins, Reserved
  <2>2. ~Working' /\ ReadyIds' = ReadyIds /\ (Working <=> IsTransfer(st.transfer))
    BY <1>0, <1>i, <1>r, <2>1 DEF Working
  <2>. QED
    BY <1>0, <1>t, <1>n, <1>w, <2>1, <2>2 DEF InUse
<1>5. CASE Prepares /\ backend = Idle
  <2>1. PICK t \in {None} \cup TransferSet : Prepared(t)
    BY <1>5 DEF Prepares
  <2>2. st.pending = Current /\ ~IsTransfer(st.transfer) /\ UNCHANGED <<st, copyOf>>
    BY <1>5, <2>1 DEF Prepares, Prepared, ShapeInv, OneTransfer
  <2>3. backend'.at = "install" /\ backend'.t = t /\ dirs' = (IF IsTransfer(t) THEN dirs \cup {Current} ELSE dirs)
    BY <2>1, <2>2 DEF Prepared
  <2>4. (Working' <=> IsTransfer(t)) /\ ~Working /\ ReadyIds' = ReadyIds /\ Current' = Current
    BY <1>5, <1>i, <1>r, <2>2, <2>3, CurrentMoves DEF Working
  <2>. QED
    BY <1>0, <2>3, <2>4 DEF InUse
<1>6. CASE InstallsOne
  <2>1. PICK a \in Wants \cup Endings \cup Fails : Installs(a)
    BY <1>6 DEF InstallsOne
  <2>2. /\ ~IsTransfer(st.transfer) /\ backend.at = "install" /\ UNCHANGED <<copyOf, dirs>>
        /\ backend'.at = "dispatch" /\ backend'.do = a
    BY <1>6, <2>1 DEF InstallsOne, Installs
  <2>3. ReadyIds' = ReadyIds /\ Current' = Current
    BY <1>r, <2>2, CurrentMoves
  <2>4. Working' <=> Working
    <3>1. CASE ~IsTransfer(backend.t) /\ a = Fail(None) /\ st'.transfer = st.transfer
      <4>1. a.act = "fail"
        BY <3>1 DEF Fail
      <4>. QED
        BY <2>2, <3>1, <4>1 DEF Working
    <3>2. CASE /\ backend.t \in TransferSet /\ a = Start(backend.t, st.stream)
               /\ st'.transfer = (IF a.act = "request" THEN a.t ELSE st.transfer)
      <4>1. Working
        BY <2>2, <3>2, TransferIsOne DEF Working
      <4>2. Stepped(a, backend.t, st.stream) /\ a.act \in {"request", "ready"}
        BY <3>2, StartShape, ShapeFacts DEF Start, Complete, Wanting
      <4>3. a.act = "request" => IsTransfer(st'.transfer)
        BY <3>2, <4>2, TransferIsOne DEF Stepped
      <4>. QED
        BY <2>2, <4>1, <4>2, <4>3 DEF Working
    <3>. QED
      BY <2>1, <3>1, <3>2 DEF Installs
  <2>. QED
    BY <1>0, <2>2, <2>3, <2>4 DEF InUse
<1>7. CASE Continues /\ backend = Idle
  <2>1. PICK a \in Wants \cup Endings \cup Fails : Advances(a)
    BY <1>7 DEF Continues
  <2>2. /\ IsTransfer(st.transfer) /\ UNCHANGED copyOf /\ backend'.at = "dispatch" /\ backend'.do = a
        /\ st'.transfer = (IF a.act \in {"request", "ignore"} THEN a.t ELSE None)
        /\ dirs' = (IF a.act = "fail" THEN dirs \ {Current} ELSE dirs) /\ a.t \in TransferSet
    BY <1>7, <2>1 DEF Continues, Advances, Stepped
  <2>3. ReadyIds' = ReadyIds /\ Current' = Current /\ Working
    BY <1>7, <1>i, <1>r, <2>2, CurrentMoves DEF Working
  <2>4. a.act \in {"request", "ignore", "ready", "fail"}
    BY DEF Wants, Endings, Fails
  <2>5. CASE a.act = "fail"
    <3>1. ~Working'
      BY <1>0, <2>2, <2>5 DEF Working
    <3>. QED
      BY <1>0, <1>w, <2>2, <2>3, <2>5, <3>1 DEF InUse
  <2>6. CASE a.act # "fail"
    <3>1. Working'
      BY <2>2, <2>4, <2>6, TransferIsOne DEF Working
    <3>. QED
      BY <1>0, <2>2, <2>3, <2>6, <3>1 DEF InUse
  <2>. QED
    BY <2>5, <2>6
<1>. QED
  BY <1>1, <1>2, <1>3, <1>4, <1>5, <1>6, <1>7, DirMoves
\* What is served under a lock is what was locked.
LEMMA LocksStep ==
    ASSUME LocksHold, [Next]_vars
    PROVE  LocksHold'
<1>1. CASE UNCHANGED served
  BY <1>1 DEF LocksHold
<1>2. CASE SendLocalFileResponse
  BY <1>2 DEF SendLocalFileResponse, LocalEntry, LocksHold
<1>3. CASE SendLocalTextResponse
  BY <1>3 DEF SendLocalTextResponse, LocksHold
<1>4. UNCHANGED served \/ SendLocalFileResponse \/ SendLocalTextResponse
  <2>1. CASE SetLocalText \/ SetLocalFiles \/ SetLocalFilesFails \/ Shutdown \/ ClientEnds
               \/ \E id \in {RemoteId(i) : i \in 1..Len(Copies)} \cup (1..LocalSets) : CancelTransfer(id)
    BY <2>1 DEF SetLocalText, SetLocalFiles, SetLocal, SetLocalFilesFails, Shutdown, ClientEnds, CancelTransfer
  <2>2. CASE OnRemoteCopyFiles \/ InitiatePaste \/ OnRemoteCopyText \/ OnFormatDataResponse \/ ReceiveRemoteFiles
               \/ InstallRemoteTransfer \/ AdvanceRemoteTransfer
    BY <2>2 DEF OnRemoteCopyFiles, InitiatePaste, OnRemoteCopyText, OnFormatDataResponse, ReceiveRemoteFiles,
                InstallRemoteTransfer, AdvanceRemoteTransfer
  <2>3. CASE DispatchRemoteResult \/ CancelRemoteLocks \/ OnLock \/ OnUnlock \/ OnRequestFormatList
               \/ BuildCliprdrBackend \/ ServerCopies \/ ServerAnswers \/ UNCHANGED vars
    BY <2>3 DEF DispatchRemoteResult, CancelRemoteLocks, OnLock, OnUnlock, OnRequestFormatList,
                BuildCliprdrBackend, ServerCopies, ServerAnswers, vars
  <2>. QED
    BY <2>1, <2>2, <2>3 DEF Next
<1>. QED
  BY <1>1, <1>2, <1>3, <1>4

\* Nothing has happened at first.
LEMMA OutcomeInit == Init => OutcomeInv
<1>. SUFFICES ASSUME Init PROVE OutcomeInv
  OBVIOUS
<1>0. events = <<>> /\ cancelled = {} /\ served = {} /\ dirs = {} /\ backend = Idle /\ ~IsTransfer(st.transfer)
  BY DEF Init, NewState, IsTransfer
<1>1. ToldAtTheEnd /\ CancelledIsOver /\ LocksHold
  BY <1>0 DEF ToldAtTheEnd, CancelledIsOver, LocksHold
<1>2. ReadyIds = {}
  BY <1>0 DEF ReadyIds
<1>3. OneOutcome
  BY <1>0, <1>2 DEF OneOutcome
<1>4. NoDirectoryIsLeft
  BY <1>0, <1>2 DEF NoDirectoryIsLeft, DirsOf, Idle
<1>. QED
  BY <1>1, <1>3, <1>4 DEF OutcomeInv

\* Every step keeps the outcomes right.
LEMMA OutcomeStep == ShapeInv /\ DataInv /\ OutcomeInv /\ [Next]_vars => OutcomeInv'
BY ToldStep, CancelledStep, OneOutcomeStep, DirsStep, LocksStep DEF OutcomeInv
----------------------------------------------------------------------------
(* The text that is waited for *)

\* Every step keeps that a text was copied since.
LEMMA WaitsStep == ShapeInv /\ ChannelInv /\ WaitsForText /\ [Next]_vars => WaitsForText'
<1>. SUFFICES ASSUME ShapeInv, ChannelInv, WaitsForText, [Next]_vars PROVE WaitsForText'
  OBVIOUS
<1>0. /\ st \in States /\ copied \in Nat /\ Len(Copies) \in Nat
      /\ copyOf \in Seq(1 .. Len(Copies)) /\ \A i \in DOMAIN copyOf : copyOf[i] \in Nat
  BY ShapeFacts, NumbersAreNumbers, ClipboardAssumption
<1>1. ASSUME st'.waiting = FALSE PROVE WaitsForText'
  BY <1>1 DEF WaitsForText
<1>2. ASSUME UNCHANGED copyOf, copied' \in {copied, copied + 1}, st'.waiting = st.waiting PROVE WaitsForText'
  <2>1. \A i \in DOMAIN copyOf : (copyOf[i] + 1) .. copied \subseteq (copyOf[i] + 1) .. copied'
    BY <1>0, <1>2
  <2>. QED
    BY <1>2, <2>1 DEF WaitsForText, TextFollows
<1>3. CASE SetLocalText \/ SetLocalFiles \/ SetLocalFilesFails
  BY <1>0, <1>2, <1>3 DEF SetLocalText, SetLocalFiles, SetLocal, SetLocalFilesFails, States
<1>4. CASE Shutdown \/ BuildCliprdrBackend
  BY <1>0, <1>1, <1>4 DEF Shutdown, BuildCliprdrBackend, NewState, States
<1>5. CASE ClientEnds \/ \E id \in {RemoteId(i) : i \in 1..Len(Copies)} \cup (1..LocalSets) : CancelTransfer(id)
  BY <1>0, <1>2, <1>5 DEF ClientEnds, CancelTransfer, CancelLocalTransfer, serverVars, States
<1>6. CASE OnRemoteCopyFiles
  <2>1. st' = ReserveRemoteTransfer([st EXCEPT !.waiting = FALSE])
    BY <1>6 DEF OnRemoteCopyFiles
  <2>2. st'.waiting = FALSE
    BY <1>0, <2>1 DEF ReserveRemoteTransfer, States
  <2>. QED
    BY <1>1, <2>2
<1>7. CASE OnRemoteCopyText
  <2>1. /\ toClient # <<>> /\ Message.kind = "formats" /\ UNCHANGED <<copyOf, copied>>
        /\ st' = [st EXCEPT !.pending = 0, !.transfer = None, !.waiting = Message.copy = "text"]
    BY <1>7 DEF OnRemoteCopyText, Callback
  <2>2. CASE Message.copy # "text"
    BY <1>0, <1>1, <2>1, <2>2 DEF States
  <2>3. CASE Message.copy = "text"
    <3>1. 1 \in DOMAIN toClient /\ Message = toClient[1]
      BY <2>1, ShapeFacts, TailElements DEF Message
    <3>2. /\ Copies[Message.number] = "text" /\ Message.number <= copied /\ Message.number \in Nat
          /\ \A i \in DOMAIN copyOf : copyOf[i] <= Message.number /\ Copies[copyOf[i]] = "files"
      BY <2>1, <2>3, <3>1, NumbersAreNumbers DEF ChannelInv, InOrder, IsNumbered, IsFormats
    <3>3. ASSUME NEW i \in DOMAIN copyOf PROVE \E k \in (copyOf[i] + 1) .. copied : Copies[k] = "text"
      <4>1. copyOf[i] # Message.number /\ copyOf[i] <= Message.number
        BY <3>2, <3>3
      <4>2. Message.number \in (copyOf[i] + 1) .. copied
        BY <1>0, <3>2, <4>1
      <4>. QED
        BY <3>2, <4>2
    <3>. QED
      BY <2>1, <3>3 DEF WaitsForText, TextFollows
  <2>. QED
    BY <2>2, <2>3
<1>8. CASE OnFormatDataResponse
  BY <1>0, <1>1, <1>8 DEF OnFormatDataResponse, States
<1>9. CASE InitiatePaste \/ ReceiveRemoteFiles \/ CancelRemoteLocks \/ OnLock \/ OnUnlock
             \/ SendLocalFileResponse \/ SendLocalTextResponse \/ OnRequestFormatList
  BY <1>0, <1>2, <1>9 DEF InitiatePaste, ReceiveRemoteFiles, CancelRemoteLocks, OnLock, OnUnlock,
       SendLocalFileResponse, SendLocalTextResponse, OnRequestFormatList, serverVars, States
<1>10. CASE InstallRemoteTransfer
  <2>1. st'.waiting = st.waiting /\ UNCHANGED <<copyOf, copied>>
    BY <1>0, <1>10 DEF InstallRemoteTransfer, AllocateStreamId, serverVars, States
  <2>. QED
    BY <1>2, <2>1
<1>11. CASE AdvanceRemoteTransfer
  <2>1. st'.waiting = st.waiting /\ UNCHANGED <<copyOf, copied>>
    BY <1>0, <1>11 DEF AdvanceRemoteTransfer, AllocateStreamId, States
  <2>. QED
    BY <1>2, <2>1
<1>12. CASE DispatchRemoteResult
  <2>1. st'.waiting = st.waiting /\ UNCHANGED <<copyOf, copied>>
    BY <1>0, <1>12 DEF DispatchRemoteResult, States
  <2>. QED
    BY <1>2, <2>1
<1>13. CASE ServerCopies \/ UNCHANGED vars
  BY <1>2, <1>13 DEF ServerCopies, vars
<1>14. CASE ServerAnswers
  BY <1>2, <1>14 DEF ServerAnswers
<1>. QED
  BY <1>3, <1>4, <1>5, <1>6, <1>7, <1>8, <1>9, <1>10, <1>11, <1>12, <1>13, <1>14 DEF Next
----------------------------------------------------------------------------
(* The theorems *)

\* The invariant holds.
LEMMA ClipAlways == Spec => []ClipInv
<1>1. Init => ClipInv
  BY ShapeInit, ChannelInit, DataInit, OutcomeInit DEF ClipInv, Init, NewState, WaitsForText
<1>2. ClipInv /\ [Next]_vars => ClipInv'
  BY ShapeStep, ChannelStep, DataStep, OutcomeStep, WaitsStep DEF ClipInv
<1>. QED
  BY <1>1, <1>2, PTL DEF Spec

\* The invariant is enough.
LEMMA ClipSound == ClipInv => TransfersAreSound
<1>. SUFFICES ASSUME ClipInv PROVE TransfersAreSound
  OBVIOUS
<1>1. TypeOK
  <2>1. DirsOf(st) \subseteq dirs
    BY DEF ClipInv, OutcomeInv, NoDirectoryIsLeft
  <2>2. used.sets <= LocalSets
    BY ClipboardAssumption DEF ClipInv, ShapeInv, Shapes
  <2>. QED
    BY <2>1, <2>2 DEF TypeOK, ClipInv, ShapeInv, Shapes, OneTransfer, StreamsGivenOut
<1>2. ReadyIsComplete
  <2>1. ASSUME NEW i \in DOMAIN events, events[i].kind = "ready"
        PROVE  LET e == events[i]  copy == copyOf[e.id - RemoteBit] IN
               e.got = [f \in DOMAIN Sizes[copy] |-> [p \in 1..Sizes[copy][f] |-> <<copy, f, p>>]]
    <3>. DEFINE c == events[i].id - RemoteBit
                k == copyOf[c]
    <3>1. c \in DOMAIN copyOf /\ events[i].got = AllFiles(k)
      BY <2>1 DEF ClipInv, DataInv, ReadyIsWhole
    <3>2. k \in 1 .. Len(Copies)
      BY <3>1, ShapeFacts DEF ClipInv
    <3>. HIDE DEF k
    <3>3. DOMAIN Sizes[k] = 1 .. Len(Sizes[k])
      BY <3>2, SizesOf
    <3>4. AllFiles(k) = [f \in DOMAIN Sizes[k] |-> [p \in 1..Sizes[k][f] |-> <<k, f, p>>]]
      BY <3>3 DEF AllFiles, Whole, Bytes
    <3>. QED
      BY <3>1, <3>4 DEF k
  <2>. QED
    BY <2>1 DEF ReadyIsComplete
<1>. QED
  BY <1>1, <1>2 DEF TransfersAreSound, ClipInv, OutcomeInv

\* Whatever the server copies, the host cancels or sets and the session does, files
\* that are announced are every file of the one copy the transfer was begun for, byte
\* for byte; a transfer has one outcome, none after it was cancelled; a staging
\* directory is that of a transfer that is complete or under way; and what the server
\* reads under a lock is what was locked.
THEOREM RdpTransfersSound == Spec => []TransfersAreSound
BY ClipAlways, ClipSound, PTL

\* A text is passed on only by the answer to a text request.
LEMMA TextIsAnswered ==
    ASSUME ShapeInv, [Next]_vars, Len(events') = Len(events) + 1, events'[Len(events')].kind = "text"
    PROVE  st.waiting
<1>0. events \in Seq(TextEvents \cup FailedEvents \cup ReadyEvents) /\ Len(events) \in Nat
  BY ShapeFacts
<1>1. ASSUME NEW e, events' = Append(events, e) PROVE e = events'[Len(events')]
  BY <1>0, <1>1
<1>2. ~UNCHANGED events
  BY <1>0
<1>3. CASE OnFormatDataResponse
  BY <1>2, <1>3 DEF OnFormatDataResponse
<1>4. ASSUME NEW id, events' = Append(events, Failed(id)) PROVE FALSE
  <2>1. Failed(id) = events'[Len(events')]
    BY <1>1, <1>4
  <2>2. Failed(id).kind = "failed"
    BY DEF Failed
  <2>. QED
    BY <2>1, <2>2
<1>5. CASE SetLocalFilesFails \/ InitiatePaste \/ CancelRemoteLocks
  BY <1>2, <1>4, <1>5 DEF SetLocalFilesFails, InitiatePaste, CancelRemoteLocks, Emit
<1>6. CASE DispatchRemoteResult
  <2>1. Dispatches
    BY <1>6, DispatchFacts
  <2>2. events' # Append(events, [kind |-> "ready", id |-> Current, got |-> backend.do.t.got])
    <3>1. [kind |-> "ready", id |-> Current, got |-> backend.do.t.got].kind = "ready"
      OBVIOUS
    <3>. QED
      BY <1>1, <3>1
  <2>. QED
    BY <1>2, <1>4, <2>1, <2>2 DEF Dispatches
<1>7. CASE SetLocalText \/ SetLocalFiles \/ Shutdown \/ ClientEnds
             \/ \E id \in {RemoteId(i) : i \in 1..Len(Copies)} \cup (1..LocalSets) : CancelTransfer(id)
  BY <1>2, <1>7 DEF SetLocalText, SetLocalFiles, SetLocal, Shutdown, ClientEnds, CancelTransfer
<1>8. CASE OnRemoteCopyFiles \/ OnRemoteCopyText \/ ReceiveRemoteFiles \/ InstallRemoteTransfer \/ AdvanceRemoteTransfer
  BY <1>2, <1>8 DEF OnRemoteCopyFiles, OnRemoteCopyText, ReceiveRemoteFiles, InstallRemoteTransfer, AdvanceRemoteTransfer
<1>9. CASE OnLock \/ OnUnlock \/ SendLocalFileResponse \/ SendLocalTextResponse \/ OnRequestFormatList \/ BuildCliprdrBackend
             \/ ServerCopies \/ ServerAnswers \/ UNCHANGED vars
  BY <1>2, <1>9 DEF OnLock, OnUnlock, SendLocalFileResponse, SendLocalTextResponse, OnRequestFormatList,
                    BuildCliprdrBackend, ServerCopies, ServerAnswers, vars
<1>. QED
  BY <1>3, <1>5, <1>6, <1>7, <1>8, <1>9 DEF Next

\* However late the server answers and whatever is copied, cancelled or reconnected
\* meanwhile, a text that was asked for before files took over is not passed on
\* unless another text was copied since.
THEOREM RdpTextIsCurrent == Spec => TextIsCurrent
<1>1. ClipInv /\ [Next]_vars =>
        [(Len(events') = Len(events) + 1 /\ events'[Len(events')].kind = "text") =>
            \A i \in DOMAIN copyOf : \/ copyOf[i] < events'[Len(events')].number
                                    \/ \E k \in (copyOf[i] + 1)..copied : Copies[k] = "text"]_vars
  BY TextIsAnswered DEF ClipInv, WaitsForText, TextFollows
<1>. QED
  BY <1>1, ClipAlways, PTL DEF Spec, TextIsCurrent
=============================================================================
