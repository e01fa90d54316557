------------------------------- MODULE MongoDb -------------------------------
(***************************************************************************)
(* The three MongoDB drivers: "modern" (servers from 4.2), "legacy" and    *)
(* "legacy-3-2".  A connection is opened, the first two by trying the      *)
(* admin database where the credentials were refused; then documents are   *)
(* found, and what is too long for an answer is read from a blob in parts. *)
(*                                                                         *)
(* A connection string is a sequence of its parts: a scheme, "user@",      *)
(* "host", "/", a database, "?" and options with "&" between them.         *)
(*                                                                         *)
(* External: the server and the client libraries; the host.                *)
(***************************************************************************)
EXTENDS Integers, FiniteSets, Sequences, SequencesExt

CONSTANTS Strings,       \* connection strings
          UserDatabases, \* where the user of the server may be known
          Versions,      \* <<major, minor>>, or <<>> when the server does not tell
          Collections,   \* lists of documents, each given by its length
          Skips, Limits, \* of a find
          InlineBytes,   \* longest answer that is not a blob
          Chunks,        \* sizes of a read
          MaxBlobs

\* What the constants are.
MongoAssumption == InlineBytes \in Nat /\ Chunks \subseteq Nat \ {0} /\ Skips \subseteq Int /\ Limits \subseteq Int

VARIABLES generation,   \* the driver
          server,       \* [user, version, up]
          conn,         \* [state, code, asked, string]: what conn/open answered, and to which string
          blobs,        \* blob |-> [bytes, offset], the BlobStore
          found,        \* blob |-> [documents, count, read, done], what the host has of it
          last          \* the latest find and its answer

vars == <<generation, server, conn, blobs, found, last>>
Generations == {"modern", "legacy", "legacy-3-2"}
Options == {"w=1", "authSource=users", "authSource=admin", "tls=true"}
NoFind == [state |-> "none"]
Put(f, k, v) == [x \in DOMAIN f \cup {k} |-> IF x = k THEN v ELSE f[x]]
Drop(f, S) == [x \in DOMAIN f \ S |-> f[x]]
-----------------------------------------------------------------------------
(* Connection strings *)

Has(s, part) == part \in ToSet(s)
NamesAuthSource(s) == Has(s, "authSource=users") \/ Has(s, "authSource=admin")

ShouldRetryWithAdminAuthSource(s, error) == Has(s, "user@") /\ ~NamesAuthSource(s) /\ error = "authentication"

\* Mutant: the options the string has are replaced.
AppendAdminAuthSourceReplacing(s) ==
  SelectSeq(s, LAMBDA p : p \notin Options \cup {"?", "&"}) \o (IF Has(s, "/") THEN <<>> ELSE <<"/">>) \o <<"?", "authSource=admin">>

AppendAdminAuthSource(s) ==
  IF Has(s, "?") THEN (IF Last(s) \in {"?", "&"} THEN s ELSE Append(s, "&")) \o <<"authSource=admin">>
  ELSE IF Has(s, "/") THEN s \o <<"?", "authSource=admin">>
  ELSE s \o <<"/", "?", "authSource=admin">>

UriOptionIsTrue(s) == Has(s, "tls=true")

\* External: how a client library reads a connection string.
Read(s) ==
  LET options == IF Has(s, "?") THEN SubSeq(s, 1 + SelectInSeq(s, LAMBDA p : p = "?"), Len(s)) ELSE <<>>
      named == SelectSeq(options, LAMBDA p : p \in {"authSource=users", "authSource=admin"})
      database == SelectSeq(s, LAMBDA p : p = "app")
  IN [valid |-> /\ Has(s, "?") => Has(s, "/")
                /\ \A i \in 1..Len(options) - 1 : options[i] \in Options => options[i + 1] = "&",
      user |-> Has(s, "user@"), database |-> database, options |-> ToSet(options) \cap Options,
      authSource |-> CASE named # <<>> -> IF named[1] = "authSource=users" THEN "users" ELSE "admin"
                       [] named = <<>> /\ database # <<>> -> "app"
                       [] OTHER -> "admin"]

\* External: how an attempt to connect and to ask for the build goes.  A client
\* library may itself refuse a server that is older than those it knows.
Attempts(s, g) ==
  LET r == Read(s) IN
  CASE ~r.valid -> {"invalid"}
    [] r.valid /\ ~server.up -> {"unreachable"}
    [] r.valid /\ server.up /\ r.user /\ r.authSource # server.user -> {"authentication"}
    [] OTHER -> IF g = "modern" /\ server.old THEN {"ok", "wire version"} ELSE {"ok"}
-----------------------------------------------------------------------------
(* Opening *)

ServerRequiresLegacy(version) ==
  Len(version) = 2 /\ (version[1] < 4 \/ (version[1] = 4 /\ version[2] < 2))

\* modern_connection_error: only an incompatible server is told as one.
ConnectionError(error) == IF error = "wire version" THEN "incompatible" ELSE "refused"

Opened(s, used) == [state |-> "open", code |-> "none", asked |-> s, string |-> used]
Refused(s, code) == [state |-> "refused", code |-> code, asked |-> s, string |-> <<>>]

\* The attempt of connect_and_read_build_info, and the second one where it applies:
\* the string it succeeded with, or the error.
Connect(s, first, second) ==
  CASE first = "ok" -> [string |-> s, error |-> "none"]
    [] ShouldRetryWithAdminAuthSource(s, first) ->
         [string |-> AppendAdminAuthSource(s), error |-> IF second = "ok" THEN "none" ELSE second]
    [] OTHER -> [string |-> s, error |-> first]

OpenModern == \E s \in Strings :
  /\ generation = "modern" /\ conn.state # "open"
  /\ \E first \in Attempts(s, "modern"), second \in Attempts(AppendAdminAuthSource(s), "modern") :
       LET c == Connect(s, first, second) IN
       conn' = IF c.error # "none" THEN Refused(s, ConnectionError(c.error))
               ELSE IF ServerRequiresLegacy(server.version) THEN Refused(s, "incompatible") ELSE Opened(s, c.string)
  /\ UNCHANGED <<generation, server, blobs, found, last>>

OpenLegacy == \E s \in Strings :
  /\ generation = "legacy" /\ conn.state # "open"
  /\ \E first \in Attempts(s, "legacy"), second \in Attempts(AppendAdminAuthSource(s), "legacy") :
       LET c == Connect(s, first, second) IN
       conn' = IF c.error # "none" THEN Refused(s, "refused") ELSE Opened(s, c.string)
  /\ UNCHANGED <<generation, server, blobs, found, last>>

\* connect: no second attempt, and no encryption.
OpenLegacy32 == \E s \in Strings :
  /\ generation = "legacy-3-2" /\ conn.state # "open"
  /\ \E first \in Attempts(s, "legacy-3-2") :
       conn' = IF first = "ok" /\ ~UriOptionIsTrue(s) /\ ~Has(s, "mongodb+srv://") THEN Opened(s, s) ELSE Refused(s, "refused")
  /\ UNCHANGED <<generation, server, blobs, found, last>>
-----------------------------------------------------------------------------
(* Finding, and reading what was found *)

Bytes(i, n) == [b \in 1..n |-> [document |-> i, byte |-> b]]
Pack(documents) ==
  FlattenSeq([i \in DOMAIN documents |-> <<[length |-> documents[i].length]>> \o Bytes(documents[i].id, documents[i].length)])

\* External: the documents of a collection after some, up to some number.
Select(collection, skip, limit) ==
  LET all == [i \in DOMAIN collection |-> [id |-> i, length |-> collection[i]]]
      max == IF limit < 0 THEN -limit ELSE limit
      rest == SubSeq(all, skip + 1, Len(all))
  IN IF max = 0 \/ max > Len(rest) THEN rest ELSE SubSeq(rest, 1, max)

\* The answer to a find: documents, or the blob that holds them.
FindResult(documents, id) ==
  IF Len(Pack(documents)) > InlineBytes THEN [documents |-> <<>>, blob |-> <<id>>, count |-> Len(documents)]
  ELSE [documents |-> documents, blob |-> <<>>, count |-> Len(documents)]

Find(collection, asked, skip, limit) ==
  LET documents == Select(collection, skip, limit)  id == Cardinality(DOMAIN found) + 1
      r == FindResult(documents, id)
  IN /\ last' = [state |-> "found", collection |-> collection, skip |-> asked, limit |-> limit, answer |-> r, documents |-> documents]
     /\ IF r.blob = <<>> THEN UNCHANGED <<blobs, found>>
        ELSE /\ id <= MaxBlobs
             /\ blobs' = Put(blobs, id, [bytes |-> Pack(documents), offset |-> 0])
             /\ found' = Put(found, id, [documents |-> documents, count |-> r.count, read |-> <<>>, done |-> FALSE])

\* The cursor fails: everything that was read so far is let go.
FindFails == last' = [state |-> "failed"] /\ UNCHANGED <<blobs, found>>

FindModern == \E c \in Collections, skip \in Skips, limit \in Limits :
  /\ generation = "modern" /\ conn.state = "open"
  /\ Find(c, skip, IF skip < 0 THEN 0 ELSE skip, limit) \/ FindFails
  /\ UNCHANGED <<generation, server, conn>>

FindLegacy == \E c \in Collections, skip \in Skips, limit \in Limits :
  /\ generation = "legacy" /\ conn.state = "open"
  /\ Find(c, skip, IF skip < 0 THEN 0 ELSE skip, limit) \/ FindFails
  /\ UNCHANGED <<generation, server, conn>>

\* A negative skip goes to the server, which refuses it.
FindLegacy32 == \E c \in Collections, skip \in Skips, limit \in Limits :
  /\ generation = "legacy-3-2" /\ conn.state = "open"
  /\ (skip >= 0 /\ Find(c, skip, skip, limit)) \/ FindFails
  /\ UNCHANGED <<generation, server, conn>>

\* The answer of read_blob; the host keeps it.
Deliver(id, chunk, done) ==
  found' = [found EXCEPT ![id].read = @ \o chunk, ![id].done = @ \/ done]

\* Mutant: a part that is as long as it may be is the last one's predecessor.
ReadBlobShort == \E id \in DOMAIN blobs, max \in Chunks :
  /\ conn.state = "open"
  /\ LET b == blobs[id]
         end == IF b.offset + max < Len(b.bytes) THEN b.offset + max ELSE Len(b.bytes)
     IN blobs' = [blobs EXCEPT ![id].offset = end] /\ Deliver(id, SubSeq(b.bytes, b.offset + 1, end), end + 1 >= Len(b.bytes))
  /\ UNCHANGED <<generation, server, conn, last>>

ReadBlob == \E id \in DOMAIN blobs, max \in Chunks :
  /\ conn.state = "open"
  /\ LET b == blobs[id]
         end == IF b.offset + max < Len(b.bytes) THEN b.offset + max ELSE Len(b.bytes)
     IN blobs' = [blobs EXCEPT ![id].offset = end] /\ Deliver(id, SubSeq(b.bytes, b.offset + 1, end), end = Len(b.bytes))
  /\ UNCHANGED <<generation, server, conn, last>>

CloseBlob == \E id \in DOMAIN blobs :
  /\ conn.state = "open" /\ blobs' = Drop(blobs, {id})
  /\ UNCHANGED <<generation, server, conn, found, last>>

Close ==
  /\ conn.state = "open" /\ conn' = Refused(<<>>, "closed") /\ blobs' = <<>>
  /\ UNCHANGED <<generation, server, found, last>>
-----------------------------------------------------------------------------
Init ==
  /\ generation \in Generations
  /\ server \in {[user |-> u, version |-> v, up |-> up, old |-> v # <<>> /\ ServerRequiresLegacy(v)] :
                   u \in UserDatabases, v \in Versions, up \in BOOLEAN}
  /\ conn = Refused(<<>>, "none") /\ blobs = <<>> /\ found = <<>> /\ last = NoFind

Next == \/ OpenModern \/ OpenLegacy \/ OpenLegacy32 \/ FindModern \/ FindLegacy \/ FindLegacy32
        \/ ReadBlob \/ CloseBlob \/ Close
Spec == Init /\ [][Next]_vars
-----------------------------------------------------------------------------
\* A blob is kept by an open connection only, and never read past its end.
TypeOK ==
  /\ generation \in Generations /\ conn.state \in {"open", "refused"}
  /\ conn.state # "open" => blobs = <<>>
  /\ \A id \in DOMAIN blobs : blobs[id].offset \in 0..Len(blobs[id].bytes)

\* A connection is authenticated where its string says, else in its database, else in
\* the admin database; and what was added for that changed nothing else of the string.
OpenedAsAsked ==
  conn.state = "open" =>
    LET asked == Read(conn.asked)  used == Read(conn.string) IN
    /\ used.valid /\ used.database = asked.database /\ used.user = asked.user
    /\ used.options = asked.options \/ (used.options = asked.options \cup {"authSource=admin"} /\ ~NamesAuthSource(conn.asked))

\* A user that the admin database knows is let in by the modern driver wherever the
\* server is up, whatever database the string names, unless it names another source.
AdminUsersGetIn ==
  (generation = "modern" /\ server.up /\ server.user = "admin" /\ conn.code = "refused") => Has(conn.asked, "authSource=users")

\* The modern driver is never left talking to a server that says it is older than 4.2,
\* and says so of such servers only, so that the host tries another driver in time.
OldServersAreRouted ==
  LET older == Len(server.version) = 2 /\ server.version[1] * 100 + server.version[2] < 402 IN
  /\ (conn.state = "open" /\ generation = "modern") => ~older
  /\ conn.code = "incompatible" => older

\* What a find answers, in line or in a blob but not both, is what it asked for.
FindIsExact ==
  last.state = "found" =>
    /\ last.answer.count = Len(last.documents)
    /\ IF last.answer.blob = <<>> THEN last.answer.documents = last.documents ELSE last.answer.documents = <<>>
    /\ last.documents = Select(last.collection, IF last.skip < 0 THEN 0 ELSE last.skip, last.limit)

\* When a read says that it was the last, the parts together are the documents found,
\* whole and in order, however the reads were cut.
DoneIsWhole ==
  \A id \in DOMAIN found : found[id].done => found[id].read = Pack(found[id].documents)

\* A connection is what its string asks for, and old servers go to other drivers.
OpenIsExact == OpenedAsAsked /\ AdminUsersGetIn /\ OldServersAreRouted

\* A find answers what it asked for, in line or in parts.
ResultsAreExact == TypeOK /\ FindIsExact /\ DoneIsWhole
=============================================================================
