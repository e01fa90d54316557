--------------------------- MODULE ServicesProofs ---------------------------
(***************************************************************************)
(* The drivers of services that are no SQL databases, for any limits, any  *)
(* answers of their servers and any order of requests.                     *)
(*                                                                         *)
(* Elasticsearch: jobs, blobs and event streams keep their promises, and   *)
(* an open gets the secret it asked for.  Redis: what is sent twice only   *)
(* reads, a request is done where and as it was asked, and a Pub/Sub       *)
(* stream accounts for its messages and follows its controls.              *)
(***************************************************************************)
EXTENDS EsProvider, Redis, FiniteSetTheorems, TLAPS

----------------------------------------------------------------------------
(* Tables by id *)

\* A table of entries of S, with ids below n.
Table(f, n, S) == f \in [DOMAIN f -> S] /\ DOMAIN f \subseteq 1 .. n - 1

\* g is f with one more entry; without some; with another entry at k.
Added(f, g, k, v) == DOMAIN g = DOMAIN f \cup {k} /\ k \notin DOMAIN f /\ g[k] = v /\ \A x \in DOMAIN f : g[x] = f[x]
Thinned(f, g, D) == DOMAIN g = DOMAIN f \ D /\ \A x \in DOMAIN g : g[x] = f[x]
Changed(f, g, k, v) == DOMAIN g = DOMAIN f /\ g[k] = v /\ \A x \in DOMAIN f : x # k => g[x] = f[x]

\* Put under the next id adds an entry.
LEMMA PutAdds ==
    ASSUME NEW n \in Nat \ {0}, NEW S, NEW f, Table(f, n, S), NEW v \in S
    PROVE  Table(Put(f, n, v), n + 1, S) /\ Added(f, Put(f, n, v), n, v)
<1>1. n \notin DOMAIN f
  BY DEF Table
<1>2. Added(f, Put(f, n, v), n, v)
  BY <1>1 DEF Added, Put
<1>3. Put(f, n, v) \in [DOMAIN f \cup {n} -> S]
  BY DEF Table, Put
<1>4. DOMAIN f \cup {n} \subseteq 1 .. (n + 1) - 1
  BY DEF Table
<1> QED BY <1>2, <1>3, <1>4 DEF Table, Put

\* Drop removes entries.
LEMMA DropThins ==
    ASSUME NEW n, NEW S, NEW f, Table(f, n, S), NEW D
    PROVE  Table(Drop(f, D), n, S) /\ Thinned(f, Drop(f, D), D)
BY DEF Table, Drop, Thinned

\* EXCEPT changes one entry.
LEMMA ExceptChanges ==
    ASSUME NEW n, NEW S, NEW f, Table(f, n, S), NEW k \in DOMAIN f, NEW v \in S
    PROVE  Table([f EXCEPT ![k] = v], n, S) /\ Changed(f, [f EXCEPT ![k] = v], k, v)
BY DEF Table, Changed

\* A table stays one when more ids are handed out.
LEMMA TableLater ==
    ASSUME NEW n \in Nat, NEW m \in Nat, n <= m, NEW S, NEW f, Table(f, n, S)
    PROVE  Table(f, m, S)
<1>1. 1 .. n - 1 \subseteq 1 .. m - 1
  OBVIOUS
<1> QED BY <1>1 DEF Table

\* Nothing is a table.
LEMMA NoTable ==
    ASSUME NEW n, NEW S
    PROVE  Table(<<>>, n, S) /\ DOMAIN <<>> = {}
BY DEF Table
----------------------------------------------------------------------------
(* The bytes of blobs *)

Blob == [resource : Nat, size : Nat, offset : Nat]

\* The bytes are finitely many and within the budget.
Fits(b) == IsFiniteSet(BlobBytes(b)) /\ TotalBlobBytes(b) <= MaxBlobBytes

\* Which bytes there are depends on the sizes alone.
LEMMA BytesBySize ==
    ASSUME NEW b, NEW c, DOMAIN c \subseteq DOMAIN b, \A x \in DOMAIN c : c[x].size = b[x].size, Fits(b)
    PROVE  Fits(c)
<1>1. BlobBytes(c) \subseteq BlobBytes(b)
  <2> SUFFICES ASSUME NEW e \in BlobBytes(c) PROVE e \in BlobBytes(b)
    OBVIOUS
  <2>1. PICK id \in DOMAIN c : e \in {id} \X (1 .. c[id].size)
    BY DEF BlobBytes
  <2>2. id \in DOMAIN b /\ e \in {id} \X (1 .. b[id].size)
    BY <2>1
  <2> QED BY <2>2 DEF BlobBytes
<1>2. IsFiniteSet(BlobBytes(c)) /\ Cardinality(BlobBytes(c)) <= Cardinality(BlobBytes(b))
  BY <1>1, FS_Subset DEF Fits
<1>3. Cardinality(BlobBytes(b)) \in Nat /\ Cardinality(BlobBytes(c)) \in Nat
  BY <1>2, FS_CardinalityType DEF Fits
<1> QED BY <1>2, <1>3, ProviderAssumption DEF Fits, TotalBlobBytes

\* A blob that StoreBlob accepts fits.
LEMMA BytesOfOneMore ==
    ASSUME NEW b, NEW c, NEW k, NEW v \in Blob, Added(b, c, k, v), Fits(b),
           ~(TotalBlobBytes(b) + v.size > MaxBlobBytes)
    PROVE  Fits(c)
<1> DEFINE more == {k} \X (1 .. v.size)
<1>0. v.size \in Nat
  BY DEF Blob
<1>1. BlobBytes(c) = BlobBytes(b) \cup more
  <2>1. ASSUME NEW e \in BlobBytes(c) PROVE e \in BlobBytes(b) \cup more
    <3>1. PICK id \in DOMAIN c : e \in {id} \X (1 .. c[id].size)
      BY <2>1 DEF BlobBytes
    <3>2. CASE id = k
      BY <3>1, <3>2 DEF Added
    <3>3. CASE id # k
      <4>1. id \in DOMAIN b /\ c[id] = b[id]
        BY <3>3 DEF Added
      <4> QED BY <3>1, <4>1 DEF BlobBytes
    <3> QED BY <3>2, <3>3
  <2>2. ASSUME NEW e \in BlobBytes(b) PROVE e \in BlobBytes(c)
    <3>1. PICK id \in DOMAIN b : e \in {id} \X (1 .. b[id].size)
      BY <2>2 DEF BlobBytes
    <3>2. id \in DOMAIN c /\ c[id] = b[id]
      BY DEF Added
    <3> QED BY <3>1, <3>2 DEF BlobBytes
  <2>3. more \subseteq BlobBytes(c)
    <3>1. k \in DOMAIN c /\ c[k] = v
      BY DEF Added
    <3> QED BY <3>1 DEF BlobBytes
  <2> QED BY <2>1, <2>2, <2>3
<1>2. BlobBytes(b) \cap more = {}
  BY DEF BlobBytes, Added
<1>3. IsFiniteSet(more) /\ Cardinality(more) = v.size
  <2>1. IsFiniteSet({k}) /\ Cardinality({k}) = 1
    BY FS_Singleton
  <2>2. IsFiniteSet(1 .. v.size) /\ Cardinality(1 .. v.size) = v.size
    BY SMTT(30), <1>0, FS_Interval
  <2>3. IsFiniteSet(more) /\ Cardinality(more) = Cardinality({k}) * Cardinality(1 .. v.size)
    BY <2>1, <2>2, FS_Product
  <2> QED BY <1>0, <2>1, <2>2, <2>3
<1> HIDE DEF more
<1>4. Cardinality(BlobBytes(b)) \in Nat
  BY FS_CardinalityType DEF Fits
<1>5. /\ IsFiniteSet(BlobBytes(c))
      /\ Cardinality(BlobBytes(c)) = Cardinality(BlobBytes(b)) + Cardinality(more) - Cardinality({})
  BY <1>1, <1>2, <1>3, FS_Union DEF Fits
<1>6. Cardinality(BlobBytes(c)) = Cardinality(BlobBytes(b)) + v.size
  BY <1>0, <1>3, <1>4, <1>5, FS_EmptySet
<1> QED BY <1>0, <1>4, <1>5, <1>6, ProviderAssumption DEF Fits, TotalBlobBytes
----------------------------------------------------------------------------
(* Limits on how many there are *)

Limited(D, max) == IsFiniteSet(D) /\ Cardinality(D) <= max

\* Fewer stay within the limit.
LEMMA LimitedLess ==
    ASSUME NEW max \in Nat, NEW D, Limited(D, max), NEW E, E \subseteq D
    PROVE  Limited(E, max)
<1>1. IsFiniteSet(E) /\ Cardinality(E) <= Cardinality(D)
  BY FS_Subset DEF Limited
<1>2. Cardinality(D) \in Nat /\ Cardinality(E) \in Nat
  BY <1>1, FS_CardinalityType DEF Limited
<1> QED BY <1>1, <1>2 DEF Limited

\* One more does while the limit was not reached.
LEMMA LimitedMore ==
    ASSUME NEW max \in Nat, NEW D, Limited(D, max), Cardinality(D) < max, NEW k
    PROVE  Limited(D \cup {k}, max)
<1>1. IsFiniteSet(D \cup {k}) /\ Cardinality(D \cup {k}) = IF k \in D THEN Cardinality(D) ELSE Cardinality(D) + 1
  BY FS_AddElement DEF Limited
<1>2. Cardinality(D) \in Nat
  BY FS_CardinalityType DEF Limited
<1> QED BY <1>1, <1>2 DEF Limited

\* None do.
LEMMA LimitedNone ==
    ASSUME NEW max \in Nat
    PROVE  Limited({}, max)
BY FS_EmptySet DEF Limited
----------------------------------------------------------------------------
(* Event streams *)

Ends == {"succeeded", "failed", "cancelled"}
Event == [job : Nat, state : Ends]
Stream == [buffer : Seq(Event), capacity : Nat \ {0}, dropped : Nat, since : Nat, got : Seq(Event)]

\* What was read, is held and was dropped is all of the log since the stream was
\* opened, and what is held is the end of the log.
Accounted(s, log) ==
    /\ Len(s.buffer) <= s.capacity
    /\ Len(log) = s.since + Len(s.got) + s.dropped + Len(s.buffer)
    /\ \A i \in DOMAIN s.buffer : s.buffer[i] = log[(Len(log) - Len(s.buffer)) + i]

StreamInv ==
    /\ Table(streams, next, Stream) /\ Limited(DOMAIN streams, MaxStreams)
    /\ broadcasts \in Seq(Event)
    /\ \A s \in DOMAIN streams : Accounted(streams[s], broadcasts)

\* An event that is pushed is held, and the one it replaces counted.
LEMMA PushAccounts ==
    ASSUME NEW s \in Stream, NEW log \in Seq(Event), NEW e \in Event, Accounted(s, log)
    PROVE  PushEvent(s, e) \in Stream /\ Accounted(PushEvent(s, e), Append(log, e))
<1> DEFINE b == s.buffer
<1>0. /\ b \in Seq(Event) /\ s.got \in Seq(Event) /\ s.capacity \in Nat \ {0} /\ s.dropped \in Nat /\ s.since \in Nat
      /\ Len(b) \in Nat /\ Len(s.got) \in Nat /\ Len(log) \in Nat
  BY DEF Stream
<1>11. PICK l \in Nat, m \in Nat, r \in Nat, c \in Nat, d \in Nat, o \in Nat :
         l = Len(b) /\ m = Len(log) /\ r = Len(s.got) /\ c = s.capacity /\ d = s.dropped /\ o = s.since
  BY <1>0
<1>1. l <= c /\ m = o + r + d + l
  BY <1>11 DEF Accounted
<1>9. \A i \in 1 .. Len(b) : b[i] = log[(Len(log) - Len(b)) + i]
  BY <1>0 DEF Accounted
<1>7. m - l \in Nat
  BY <1>1
<1>2. Len(log) - Len(b) \in Nat
  BY <1>7, <1>11
<1>3. Len(Append(log, e)) = Len(log) + 1
  OBVIOUS
<1>6. Append(log, e)[Len(log) + 1] = e /\ \A i \in 1 .. Len(log) : Append(log, e)[i] = log[i]
  OBVIOUS
<1>4. CASE Len(b) >= s.capacity
  <2> DEFINE t == Append(Tail(b), e)
             u == [s EXCEPT !.buffer = t, !.dropped = s.dropped + 1]
  <2>1. Tail(b) \in Seq(Event) /\ Len(Tail(b)) = Len(b) - 1 /\ \A i \in 1 .. Len(b) - 1 : Tail(b)[i] = b[i + 1]
    BY <1>0, <1>4
  <2>2. t \in Seq(Event) /\ Len(t) = Len(b)
    BY <1>0, <1>4, <2>1
  <2>8. t[Len(b)] = e /\ \A i \in 1 .. Len(b) - 1 : t[i] = b[i + 1]
    BY <1>0, <1>4, <2>1
  <2>3. PushEvent(s, e) = u
    BY <1>4 DEF PushEvent
  <2> HIDE DEF t
  <2>9. s.dropped + 1 \in Nat
    BY <1>0
  <2>4. u \in Stream /\ u.buffer = t /\ u.dropped = s.dropped + 1
        /\ u.capacity = s.capacity /\ u.since = s.since /\ u.got = s.got
    BY <2>2, <2>9 DEF Stream
  <2> HIDE DEF u
  <2>10. m + 1 = o + r + (d + 1) + l
    BY <1>1
  <2>5. Len(Append(log, e)) = u.since + Len(u.got) + u.dropped + Len(u.buffer) /\ Len(u.buffer) <= u.capacity
    BY <1>1, <1>3, <1>11, <2>2, <2>4, <2>10
  <2>6. ASSUME NEW i \in 1 .. Len(b)
        PROVE  t[i] = Append(log, e)[((Len(log) + 1) - Len(b)) + i]
    <3>1. CASE i = Len(b)
      <4>1. ((Len(log) + 1) - Len(b)) + i = Len(log) + 1
        BY <1>11, <3>1
      <4> QED BY <1>6, <2>8, <3>1, <4>1
    <3>2. CASE i # Len(b)
      <4>1. i \in 1 .. Len(b) - 1 /\ i + 1 \in 1 .. Len(b)
        BY <1>0, <3>2
      <4>2. /\ (Len(log) - Len(b)) + (i + 1) = ((Len(log) + 1) - Len(b)) + i
            /\ (Len(log) - Len(b)) + (i + 1) \in 1 .. Len(log)
        BY <1>0, <1>2, <4>1
      <4>3. t[i] = log[(Len(log) - Len(b)) + (i + 1)]
        BY <1>9, <2>8, <4>1
      <4> QED BY <1>6, <4>2, <4>3
    <3> QED BY <3>1, <3>2
  <2>7. DOMAIN u.buffer = 1 .. Len(b)
    BY <2>2, <2>4
  <2> QED BY <1>3, <2>2, <2>3, <2>4, <2>5, <2>6, <2>7 DEF Accounted
<1>5. CASE ~(Len(b) >= s.capacity)
  <2> DEFINE t == Append(b, e)
             u == [s EXCEPT !.buffer = t]
  <2>2. t \in Seq(Event) /\ Len(t) = Len(b) + 1
    BY <1>0
  <2>8. t[Len(b) + 1] = e /\ \A i \in 1 .. Len(b) : t[i] = b[i]
    BY <1>0
  <2>3. PushEvent(s, e) = u
    BY <1>5 DEF PushEvent
  <2> HIDE DEF t
  <2>4. u \in Stream /\ u.buffer = t /\ u.dropped = s.dropped
        /\ u.capacity = s.capacity /\ u.since = s.since /\ u.got = s.got
    BY <2>2 DEF Stream
  <2> HIDE DEF u
  <2>11. ~(l >= c)
    BY <1>5, <1>11
  <2>10. m + 1 = o + r + d + (l + 1) /\ l + 1 <= c
    BY <1>1, <2>11
  <2>5. Len(Append(log, e)) = u.since + Len(u.got) + u.dropped + Len(u.buffer) /\ Len(u.buffer) <= u.capacity
    BY <1>3, <1>11, <2>2, <2>4, <2>10
  <2>6. ASSUME NEW i \in 1 .. Len(b) + 1
        PROVE  t[i] = Append(log, e)[((Len(log) + 1) - (Len(b) + 1)) + i]
    <3>1. CASE i = Len(b) + 1
      <4>0. ((m + 1) - (l + 1)) + (l + 1) = m + 1
        OBVIOUS
      <4>1. ((Len(log) + 1) - (Len(b) + 1)) + i = Len(log) + 1
        BY <1>11, <3>1, <4>0
      <4> QED BY <1>6, <2>8, <3>1, <4>1
    <3>2. CASE i # Len(b) + 1
      <4>1. i \in 1 .. Len(b)
        BY <1>0, <3>2
      <4>2. /\ (Len(log) - Len(b)) + i = ((Len(log) + 1) - (Len(b) + 1)) + i
            /\ (Len(log) - Len(b)) + i \in 1 .. Len(log)
        BY <1>0, <1>2, <4>1
      <4> QED BY <1>6, <1>9, <2>8, <4>1, <4>2
    <3> QED BY <3>1, <3>2
  <2>7. DOMAIN u.buffer = 1 .. Len(b) + 1
    BY <2>2, <2>4
  <2> QED BY <1>3, <2>2, <2>3, <2>4, <2>5, <2>6, <2>7 DEF Accounted
<1> QED BY <1>4, <1>5

\* Reading moves the oldest events that are held to those that were read.
TakeEvents(s, n) ==
    [s EXCEPT !.got = s.got \o SubSeq(s.buffer, 1, n), !.buffer = SubSeq(s.buffer, n + 1, Len(s.buffer))]

LEMMA ReadAccounts ==
    ASSUME NEW s \in Stream, NEW log \in Seq(Event), Accounted(s, log), NEW n \in 1 .. Len(s.buffer)
    PROVE  TakeEvents(s, n) \in Stream /\ Accounted(TakeEvents(s, n), log)
<1> DEFINE b == s.buffer
           g == s.got \o SubSeq(b, 1, n)
           t == SubSeq(b, n + 1, Len(b))
           u == TakeEvents(s, n)
<1>0. /\ b \in Seq(Event) /\ s.got \in Seq(Event) /\ s.capacity \in Nat \ {0} /\ s.dropped \in Nat /\ s.since \in Nat
      /\ Len(b) \in Nat /\ Len(s.got) \in Nat /\ Len(log) \in Nat
  BY DEF Stream
<1>11. PICK l \in Nat, m \in Nat, r \in Nat, c \in Nat, d \in Nat, o \in Nat :
         l = Len(b) /\ m = Len(log) /\ r = Len(s.got) /\ c = s.capacity /\ d = s.dropped /\ o = s.since
  BY <1>0
<1>1. l <= c /\ m = o + r + d + l
  BY <1>11 DEF Accounted
<1>9. \A i \in 1 .. Len(b) : b[i] = log[(Len(log) - Len(b)) + i]
  BY SMTT(30), <1>0 DEF Accounted
<1>2. SubSeq(b, 1, n) \in Seq(Event) /\ Len(SubSeq(b, 1, n)) = n
  BY <1>0
<1>3. g \in Seq(Event) /\ Len(g) = Len(s.got) + n
  BY <1>0, <1>2
<1>4. t \in Seq(Event) /\ Len(t) = Len(b) - n
  BY <1>0
<1>10. \A i \in 1 .. Len(b) - n : t[i] = b[n + i]
  BY <1>0
<1> HIDE DEF g, t
<1>5. u \in Stream /\ u.buffer = t /\ u.got = g /\ u.dropped = s.dropped /\ u.since = s.since /\ u.capacity = s.capacity
  BY <1>0, <1>3, <1>4 DEF Stream, TakeEvents, g, t
<1> HIDE DEF u
<1>12. n \in 1 .. l
  BY <1>11
<1>13. m = o + (r + n) + d + (l - n) /\ l - n <= c
  BY <1>1, <1>12
<1>6. Len(u.buffer) <= u.capacity /\ Len(log) = u.since + Len(u.got) + u.dropped + Len(u.buffer)
  BY <1>3, <1>4, <1>5, <1>11, <1>13
<1>7. ASSUME NEW i \in 1 .. Len(b) - n
      PROVE  t[i] = log[(Len(log) - (Len(b) - n)) + i]
  <2>1. n + i \in 1 .. Len(b) /\ (Len(log) - Len(b)) + (n + i) = (Len(log) - (Len(b) - n)) + i
    BY <1>0
  <2> QED BY <1>9, <1>10, <2>1
<1>8. DOMAIN u.buffer = 1 .. Len(b) - n
  BY <1>4, <1>5
<1> QED BY <1>4, <1>5, <1>6, <1>7, <1>8 DEF Accounted, u

\* The next id only grows.
IdsGrow == next \in Nat \ {0} /\ next' \in Nat \ {0} /\ next <= next'

\* Ids that were handed out stay so.
LEMMA IdsStay ==
    ASSUME NEW n \in Nat, NEW m \in Nat, n <= m
    PROVE  1 .. n - 1 \subseteq 1 .. m - 1
OBVIOUS

\* A step that leaves streams and events alone.
LEMMA StreamsKept ==
    ASSUME StreamInv, IdsGrow, UNCHANGED <<streams, broadcasts>>
    PROVE  StreamInv'
<1>1. Table(streams, next', Stream)
  BY TableLater DEF StreamInv, IdsGrow
<1> QED BY <1>1 DEF StreamInv

\* An event is told to every stream.
LEMMA StreamsEmit ==
    ASSUME StreamInv, IdsGrow, NEW j \in Nat, NEW state \in Ends, EmitJobEvent(j, state)
    PROVE  StreamInv'
<1> DEFINE e == [job |-> j, state |-> state]
<1>1. /\ e \in Event /\ broadcasts' = Append(broadcasts, e)
      /\ streams' = [s \in DOMAIN streams |-> PushEvent(streams[s], e)]
  BY DEF EmitJobEvent, Event
<1>2. broadcasts \in Seq(Event) /\ \A s \in DOMAIN streams : streams[s] \in Stream /\ Accounted(streams[s], broadcasts)
  BY DEF StreamInv, Table
<1> HIDE DEF e
<1>3. \A s \in DOMAIN streams :
        PushEvent(streams[s], e) \in Stream /\ Accounted(PushEvent(streams[s], e), Append(broadcasts, e))
  BY <1>1, <1>2, PushAccounts
<1>4. DOMAIN streams' = DOMAIN streams /\ streams' \in [DOMAIN streams -> Stream]
  BY <1>1, <1>3
<1>5. DOMAIN streams \subseteq 1 .. next' - 1
  <2>1. Table(streams, next', Stream)
    BY TableLater DEF StreamInv, IdsGrow
  <2> QED BY <2>1 DEF Table
<1>6. Table(streams', next', Stream) /\ Limited(DOMAIN streams', MaxStreams)
  BY <1>4, <1>5 DEF Table, StreamInv
<1>7. \A s \in DOMAIN streams' : Accounted(streams'[s], broadcasts')
  BY <1>1, <1>3, <1>4
<1>8. broadcasts' \in Seq(Event)
  BY <1>1, <1>2
<1> QED BY <1>6, <1>7, <1>8 DEF StreamInv

\* A stream is opened at the end of the log.
LEMMA StreamsOpen ==
    ASSUME StreamInv, next \in Nat \ {0}, OpenEventStream
    PROVE  StreamInv'
<1>1. PICK capacity \in Capacities :
        streams' = Put(streams, next, [buffer |-> <<>>, capacity |-> capacity, dropped |-> 0,
                                       since |-> Len(broadcasts), got |-> <<>>])
  BY DEF OpenEventStream
<1> DEFINE v == [buffer |-> <<>>, capacity |-> capacity, dropped |-> 0, since |-> Len(broadcasts), got |-> <<>>]
<1>2. capacity \in Nat \ {0} /\ Len(broadcasts) \in Nat
  BY ProviderAssumption DEF StreamInv
<1>3. v \in Stream
  BY <1>2 DEF Stream
<1>4. Accounted(v, broadcasts)
  BY <1>2 DEF Accounted
<1> HIDE DEF v
<1>5. next' = next + 1 /\ Cardinality(DOMAIN streams) < MaxStreams /\ broadcasts' = broadcasts /\ streams' = Put(streams, next, v)
  BY <1>1 DEF OpenEventStream, Fresh, v
<1>6. Table(streams', next', Stream) /\ Added(streams, streams', next, v)
  BY <1>3, <1>5, PutAdds DEF StreamInv
<1>7. Limited(DOMAIN streams', MaxStreams)
  <2>1. MaxStreams \in Nat /\ Limited(DOMAIN streams, MaxStreams)
    BY ProviderAssumption DEF StreamInv
  <2>2. Limited(DOMAIN streams \cup {next}, MaxStreams)
    BY <1>5, <2>1, LimitedMore
  <2> QED BY <1>6, <2>2 DEF Added
<1>8. \A s \in DOMAIN streams' : Accounted(streams'[s], broadcasts')
  BY <1>4, <1>5, <1>6 DEF StreamInv, Added
<1> QED BY <1>5, <1>6, <1>7, <1>8 DEF StreamInv

\* Some of what is held is read.
LEMMA StreamsRead ==
    ASSUME StreamInv, next \in Nat \ {0}, ReadEventStream
    PROVE  StreamInv'
<1>1. PICK s \in DOMAIN streams, max \in 1 .. 2 :
        /\ streams[s].buffer # <<>>
        /\ LET n == IF max > Len(streams[s].buffer) THEN Len(streams[s].buffer) ELSE max IN
           streams' = [streams EXCEPT ![s].got = @ \o SubSeq(streams[s].buffer, 1, n),
                                      ![s].buffer = SubSeq(@, n + 1, Len(@))]
  BY DEF ReadEventStream
<1> DEFINE n == IF max > Len(streams[s].buffer) THEN Len(streams[s].buffer) ELSE max
           v == TakeEvents(streams[s], n)
<1>2. streams[s] \in Stream /\ Accounted(streams[s], broadcasts) /\ broadcasts \in Seq(Event)
  BY DEF StreamInv, Table
<1>3. n \in 1 .. Len(streams[s].buffer)
  <2>1. streams[s].buffer \in Seq(Event)
    BY <1>2 DEF Stream
  <2>2. Len(streams[s].buffer) \in Nat \ {0}
    BY <1>1, <2>1
  <2> QED BY <2>2
<1>4. streams' = [streams EXCEPT ![s] = v]
  BY <1>1, <1>2 DEF TakeEvents, Stream
<1> HIDE DEF n
<1>5. v \in Stream /\ Accounted(v, broadcasts)
  BY <1>2, <1>3, ReadAccounts
<1> HIDE DEF v
<1>6. Table(streams', next, Stream) /\ Changed(streams, streams', s, v)
  BY <1>4, <1>5, ExceptChanges DEF StreamInv
<1>7. next' = next /\ broadcasts' = broadcasts
  BY DEF ReadEventStream
<1>8. DOMAIN streams' = DOMAIN streams /\ \A x \in DOMAIN streams' : Accounted(streams'[x], broadcasts)
  BY <1>5, <1>6 DEF StreamInv, Changed
<1> QED BY <1>6, <1>7, <1>8 DEF StreamInv

\* Streams are closed.
LEMMA StreamsClose ==
    ASSUME StreamInv, next \in Nat \ {0}, next' = next, NEW D, streams' = Drop(streams, D), broadcasts' = broadcasts
    PROVE  StreamInv'
<1>1. Table(streams', next, Stream) /\ Thinned(streams, streams', D)
  BY DropThins DEF StreamInv
<1>2. Limited(DOMAIN streams', MaxStreams)
  BY <1>1, LimitedLess, ProviderAssumption DEF StreamInv, Thinned
<1> QED BY <1>1, <1>2 DEF StreamInv, Thinned

\* None is left.
LEMMA StreamsGone ==
    ASSUME StreamInv, streams' = <<>>, broadcasts' = broadcasts
    PROVE  StreamInv'
<1>1. Table(streams', next', Stream) /\ DOMAIN streams' = {}
  BY NoTable
<1>2. Limited(DOMAIN streams', MaxStreams)
  BY <1>1, LimitedNone, ProviderAssumption
<1> QED BY <1>1, <1>2 DEF StreamInv
----------------------------------------------------------------------------
(* Blobs *)

BlobInv == Table(blobs, next, Blob) /\ Fits(blobs) /\ \A b \in DOMAIN blobs : blobs[b].offset <= blobs[b].size

\* A step that leaves the blobs alone.
LEMMA BlobsKept ==
    ASSUME BlobInv, IdsGrow, UNCHANGED blobs
    PROVE  BlobInv'
<1>1. Table(blobs, next', Blob)
  BY TableLater DEF BlobInv, IdsGrow
<1> QED BY <1>1 DEF BlobInv

\* One blob more, of the resource and the size given.
NewBlob(resource, size) == [resource |-> resource, size |-> size, offset |-> 0]
StoresBlob(resource, size) ==
    /\ blobs' = Put(blobs, next, NewBlob(resource, size)) /\ next' = next + 1
    /\ ~(TotalBlobBytes(blobs) + size > MaxBlobBytes)

\* What BlobResult and the id of a new blob come to: nothing is stored, or one blob is.
LEMMA BlobResultEffect ==
    ASSUME NEW resource, NEW size, NEW b, b = BlobResult(resource, size),
           FreshBlob(b), blobs' = IF b.kind = "none" THEN blobs ELSE b.blobs
    PROVE  \/ b.kind \in {"none", "inline"} /\ UNCHANGED <<blobs, next>>
           \/ b.kind = "blob" /\ b.id = next /\ StoresBlob(resource, size)
<1>1. CASE size <= Inline
  BY <1>1 DEF BlobResult, FreshBlob
<1>2. CASE ~(size <= Inline)
  <2>1. b = StoreBlob(resource, size)
    BY <1>2 DEF BlobResult
  <2>2. CASE TotalBlobBytes(blobs) + size > MaxBlobBytes
    BY <2>1, <2>2 DEF StoreBlob, FreshBlob
  <2>3. CASE ~(TotalBlobBytes(blobs) + size > MaxBlobBytes)
    BY <2>1, <2>3 DEF StoreBlob, FreshBlob, Fresh, StoresBlob, NewBlob
  <2> QED BY <2>2, <2>3
<1> QED BY <1>1, <1>2

\* A blob is stored when there is room.
LEMMA BlobsStore ==
    ASSUME BlobInv, next \in Nat \ {0}, NEW resource \in Nat, NEW size \in Nat, StoresBlob(resource, size)
    PROVE  BlobInv' /\ Added(blobs, blobs', next, NewBlob(resource, size))
<1> DEFINE v == NewBlob(resource, size)
<1>1. v \in Blob /\ v.size = size /\ v.offset <= v.size
  BY DEF NewBlob, Blob
<1>2. Table(blobs', next', Blob) /\ Added(blobs, blobs', next, v)
  BY <1>1, PutAdds DEF StoresBlob, BlobInv
<1> HIDE DEF v
<1>3. Fits(blobs')
  BY <1>1, <1>2, BytesOfOneMore DEF BlobInv, StoresBlob
<1>4. \A b \in DOMAIN blobs' : blobs'[b].offset <= blobs'[b].size
  BY <1>1, <1>2 DEF BlobInv, Added
<1> QED BY <1>2, <1>3, <1>4 DEF BlobInv, v

\* Blobs are closed.
LEMMA BlobsDrop ==
    ASSUME BlobInv, next \in Nat \ {0}, next' = next, NEW D, blobs' = Drop(blobs, D)
    PROVE  BlobInv' /\ Thinned(blobs, blobs', D)
<1>1. Table(blobs', next, Blob) /\ Thinned(blobs, blobs', D)
  BY DropThins DEF BlobInv
<1>2. DOMAIN blobs' \subseteq DOMAIN blobs /\ \A x \in DOMAIN blobs' : blobs'[x] = blobs[x]
  BY <1>1 DEF Thinned
<1>3. Fits(blobs')
  BY <1>2, BytesBySize DEF BlobInv
<1> QED BY <1>1, <1>2, <1>3 DEF BlobInv

\* A blob is read on, to its end at most.
LEMMA BlobsRead ==
    ASSUME BlobInv, ReadBlob
    PROVE  BlobInv' /\ DOMAIN blobs' = DOMAIN blobs /\ \A x \in DOMAIN blobs : blobs'[x].resource = blobs[x].resource
<1>1. PICK b \in DOMAIN blobs, max \in 1 .. 2 :
        blobs' = [blobs EXCEPT ![b].offset = IF @ + max > blobs[b].size THEN blobs[b].size ELSE @ + max]
  BY DEF ReadBlob
<1> DEFINE o == IF blobs[b].offset + max > blobs[b].size THEN blobs[b].size ELSE blobs[b].offset + max
           v == [blobs[b] EXCEPT !.offset = o]
<1>2. blobs[b] \in Blob /\ blobs[b].size \in Nat /\ blobs[b].offset \in Nat
  BY DEF BlobInv, Table, Blob
<1>3. o \in Nat /\ o <= blobs[b].size
  BY <1>2
<1>4. blobs' = [blobs EXCEPT ![b] = v]
  BY <1>1, <1>2 DEF Blob
<1> HIDE DEF o
<1>5. v \in Blob /\ v.size = blobs[b].size /\ v.offset = o /\ v.resource = blobs[b].resource
  BY <1>2, <1>3 DEF Blob
<1> HIDE DEF v
<1>6. Table(blobs', next, Blob) /\ Changed(blobs, blobs', b, v)
  BY <1>4, <1>5, ExceptChanges DEF BlobInv
<1>7. /\ DOMAIN blobs' = DOMAIN blobs
      /\ \A x \in DOMAIN blobs' : blobs'[x].size = blobs[x].size /\ blobs'[x].resource = blobs[x].resource
      /\ \A x \in DOMAIN blobs' : blobs'[x].offset <= blobs'[x].size
  BY <1>3, <1>5, <1>6 DEF Changed, BlobInv
<1>8. Fits(blobs')
  BY <1>7, BytesBySize DEF BlobInv
<1> QED BY <1>6, <1>7, <1>8 DEF BlobInv, ReadBlob

\* None is left.
LEMMA BlobsGone ==
    ASSUME BlobInv, blobs' = <<>>
    PROVE  BlobInv'
<1>1. Table(blobs', next', Blob) /\ DOMAIN blobs' = {}
  BY NoTable
<1>2. Fits(blobs')
  BY <1>1, BytesBySize DEF BlobInv
<1> QED BY <1>1, <1>2 DEF BlobInv
----------------------------------------------------------------------------
(* Jobs and what they refer to *)

JobStates == {"running", "succeeded", "failed", "cancelled"}
Results == {NoResult} \cup [kind : {"blob"}, id : Nat] \cup [kind : {"inline"}]
Job == [resource : Nat, state : JobStates, query : Query, runs : Query,
        worker : {"searching", "done", "failed", "stopped"}, size : Nat, result : Results]

HasBlob(job) == job.result.kind = "blob"

\* The blob of a result has an id that was handed out, is of the job's resource
\* and belongs to no other job: so it goes with its job and never before.
OwnResults ==
    \A j \in DOMAIN jobs : HasBlob(jobs[j]) =>
        /\ jobs[j].result.id \in 1 .. next - 1
        /\ jobs[j].result.id \in DOMAIN blobs => blobs[jobs[j].result.id].resource = jobs[j].resource
        /\ \A k \in DOMAIN jobs : k # j /\ HasBlob(jobs[k]) => jobs[k].result.id # jobs[j].result.id

JobInv ==
    /\ Table(jobs, next, Job) /\ Limited(DOMAIN jobs, MaxJobs)
    /\ DOMAIN resources \subseteq Nat
    /\ NothingIsOrphaned /\ ResultsAreReadable /\ OwnResults /\ JobsRunTheirQuery

\* What most steps do: no job goes, none gets the blob of another, blobs go only when
\* the host closes them, and new ones are of an open resource.
JobsStay ==
    /\ DOMAIN jobs' = DOMAIN jobs /\ Table(jobs', next', Job)
    /\ \A j \in DOMAIN jobs :
         /\ jobs'[j].resource = jobs[j].resource /\ jobs'[j].query = jobs[j].query /\ jobs'[j].runs = jobs[j].runs
         /\ jobs'[j].result = jobs[j].result \/ ~HasBlob(jobs'[j])
BlobsStay ==
    /\ DOMAIN resources \subseteq DOMAIN resources' /\ DOMAIN resources' \subseteq Nat
    /\ DOMAIN blobs \subseteq DOMAIN blobs' \cup closedBlobs' /\ closedBlobs \subseteq closedBlobs'
    /\ \A b \in DOMAIN blobs' :
         \/ b \in DOMAIN blobs /\ blobs'[b].resource = blobs[b].resource
         \/ b \notin 1 .. next - 1 /\ blobs'[b].resource \in DOMAIN resources

LEMMA JobsKept ==
    ASSUME JobInv, BlobInv, IdsGrow, JobsStay, BlobsStay
    PROVE  JobInv'
<1>1. Limited(DOMAIN jobs', MaxJobs) /\ Table(jobs', next', Job) /\ DOMAIN resources' \subseteq Nat
  BY DEF JobInv, JobsStay, BlobsStay
<1>2. NothingIsOrphaned'
  BY DEF JobInv, JobsStay, BlobsStay, NothingIsOrphaned
<1>3. JobsRunTheirQuery'
  BY DEF JobInv, JobsStay, JobsRunTheirQuery
<1>4. \A j \in DOMAIN jobs' : HasBlob(jobs'[j]) => HasBlob(jobs[j]) /\ jobs'[j].result.id = jobs[j].result.id
  BY DEF JobsStay, HasBlob
<1>5. ResultsAreReadable'
  BY <1>4 DEF JobInv, ResultsAreReadable, BlobOf, JobsStay, BlobsStay, HasBlob
<1>6. ASSUME NEW j \in DOMAIN jobs', HasBlob(jobs'[j])
      PROVE  /\ jobs'[j].result.id \in 1 .. next' - 1
             /\ jobs'[j].result.id \in DOMAIN blobs' => blobs'[jobs'[j].result.id].resource = jobs'[j].resource
             /\ \A k \in DOMAIN jobs' : k # j /\ HasBlob(jobs'[k]) => jobs'[k].result.id # jobs'[j].result.id
  <2>1. j \in DOMAIN jobs /\ HasBlob(jobs[j]) /\ jobs'[j].result.id = jobs[j].result.id /\ jobs'[j].resource = jobs[j].resource
    BY <1>4, <1>6 DEF JobsStay
  <2>2. jobs[j].result.id \in 1 .. next - 1
    BY <2>1 DEF JobInv, OwnResults
  <2>3. jobs'[j].result.id \in 1 .. next' - 1
    BY <2>1, <2>2 DEF IdsGrow
  <2>4. jobs[j].result.id \in DOMAIN blobs' => blobs'[jobs[j].result.id].resource = jobs[j].resource
    BY <2>1, <2>2 DEF JobInv, OwnResults, BlobsStay
  <2>5. \A k \in DOMAIN jobs' : k # j /\ HasBlob(jobs'[k]) => jobs'[k].result.id # jobs'[j].result.id
    BY <1>4, <2>1 DEF JobInv, OwnResults, JobsStay
  <2> QED BY <2>1, <2>3, <2>4, <2>5
<1> QED BY <1>1, <1>2, <1>3, <1>5, <1>6 DEF JobInv, OwnResults

\* Entries go: no job without its resource or its blob is left.
LEMMA JobsDropped ==
    ASSUME JobInv, next' = next, NEW D, NEW E, NEW R,
           jobs' = Drop(jobs, D), Thinned(blobs, blobs', E), Thinned(resources, resources', R),
           \A j \in DOMAIN jobs \ D : jobs[j].resource \notin R /\ BlobOf(j) \cap E = {},
           \A b \in DOMAIN blobs \ E : blobs[b].resource \notin R,
           closedBlobs' = closedBlobs
    PROVE  JobInv'
<1>1. Table(jobs', next', Job) /\ Thinned(jobs, jobs', D)
  BY DropThins DEF JobInv
<1>2. DOMAIN jobs' \subseteq DOMAIN jobs /\ \A j \in DOMAIN jobs' : jobs'[j] = jobs[j]
  BY <1>1 DEF Thinned
<1>3. Limited(DOMAIN jobs', MaxJobs) /\ DOMAIN resources' \subseteq Nat
  BY <1>2, LimitedLess, ProviderAssumption DEF JobInv, Thinned
<1>4. NothingIsOrphaned'
  BY <1>1 DEF JobInv, NothingIsOrphaned, Thinned
<1>5. ResultsAreReadable'
  BY <1>1 DEF JobInv, ResultsAreReadable, BlobOf, Thinned
<1>6. OwnResults'
  BY <1>2 DEF JobInv, OwnResults, Thinned
<1>7. JobsRunTheirQuery'
  BY <1>2 DEF JobInv, JobsRunTheirQuery
<1> QED BY <1>1, <1>3, <1>4, <1>5, <1>6, <1>7 DEF JobInv

\* A job starts, with the query it was given.
LEMMA JobsStart ==
    ASSUME JobInv, next \in Nat \ {0}, StartJob
    PROVE  JobInv' /\ \E v : Added(jobs, jobs', next, v) /\ v.state = "running"
<1>1. PICK r \in DOMAIN resources, query \in Queries :
        /\ SearchBody(query) # <<>>
        /\ jobs' = Put(jobs, next, [resource |-> r, state |-> "running", query |-> query, runs |-> ExecuteSearch(query),
                              worker |-> "searching", size |-> 0, result |-> NoResult])
  BY DEF StartJob
<1> DEFINE v == [resource |-> r, state |-> "running", query |-> query, runs |-> ExecuteSearch(query),
                 worker |-> "searching", size |-> 0, result |-> NoResult]
<1>2. query \in Query /\ ExecuteSearch(query) \in Query
      /\ ExecuteSearch(query).body = query.body
      /\ (ExecuteSearch(query).indices = "all" => query.indices \in {"all", "malformed"})
  BY <1>1, ProviderAssumption DEF ExecuteSearch, SearchBody, Query
<1>3. r \in Nat
  BY DEF JobInv
<1>4. v \in Job /\ v.resource = r /\ v.query = query /\ v.runs = ExecuteSearch(query) /\ v.state = "running" /\ ~HasBlob(v)
  BY <1>2, <1>3 DEF Job, Results, JobStates, HasBlob, NoResult
<1>5. jobs' = Put(jobs, next, v)
  BY <1>1
<1> HIDE DEF v
<1>6. next' = next + 1 /\ Cardinality(DOMAIN jobs) < MaxJobs /\ UNCHANGED <<resources, blobs, closedBlobs>>
  BY DEF StartJob, Fresh
<1>7. Table(jobs', next', Job) /\ Added(jobs, jobs', next, v)
  BY <1>4, <1>5, <1>6, PutAdds DEF JobInv
<1>8. Limited(DOMAIN jobs', MaxJobs)
  <2>1. MaxJobs \in Nat /\ Limited(DOMAIN jobs, MaxJobs)
    BY ProviderAssumption DEF JobInv
  <2>2. Limited(DOMAIN jobs \cup {next}, MaxJobs)
    BY <1>6, <2>1, LimitedMore
  <2> QED BY <1>7, <2>2 DEF Added
<1>9. NothingIsOrphaned'
  BY <1>4, <1>6, <1>7 DEF JobInv, NothingIsOrphaned, Added
<1>10. ResultsAreReadable'
  BY <1>4, <1>6, <1>7 DEF JobInv, ResultsAreReadable, BlobOf, Added, HasBlob
<1>11. \A j \in DOMAIN jobs' : HasBlob(jobs'[j]) => j \in DOMAIN jobs /\ jobs'[j] = jobs[j]
  BY <1>4, <1>7 DEF Added
<1>12. 1 .. next - 1 \subseteq 1 .. next' - 1
  BY <1>6
<1>13. OwnResults'
  BY <1>6, <1>11, <1>12 DEF JobInv, OwnResults
<1>14. JobsRunTheirQuery'
  BY <1>2, <1>4, <1>7 DEF JobInv, JobsRunTheirQuery, Added
<1> QED BY <1>4, <1>6, <1>7, <1>8, <1>9, <1>10, <1>13, <1>14 DEF JobInv

\* One job changes, but not what it is of nor what it searches for.
LEMMA OneJobChanges ==
    ASSUME JobInv, next \in Nat \ {0}, next' = next, NEW j \in DOMAIN jobs, NEW v \in Job,
           v.resource = jobs[j].resource, v.query = jobs[j].query, v.runs = jobs[j].runs,
           v.result = jobs[j].result \/ ~HasBlob(v), jobs' = [jobs EXCEPT ![j] = v]
    PROVE  JobsStay /\ Changed(jobs, jobs', j, v)
<1>1. Table(jobs', next', Job) /\ Changed(jobs, jobs', j, v)
  BY ExceptChanges DEF JobInv
<1> QED BY <1>1 DEF JobsStay, Changed

\* Jobs keep their resources and blobs theirs.
LEMMA BlobsUntouched ==
    ASSUME JobInv, UNCHANGED <<resources, blobs, closedBlobs>>
    PROVE  BlobsStay
BY DEF BlobsStay, JobInv

\* The worker of a job ends.
LEMMA WorkerEndsStep ==
    ASSUME JobInv, next \in Nat \ {0}, WorkerEnds
    PROVE  JobsStay /\ BlobsStay /\ \A j \in DOMAIN jobs : jobs'[j].state = jobs[j].state
<1>1. PICK j \in DOMAIN jobs, success \in BOOLEAN, size \in AnswerSizes :
        jobs' = IF ResponseJson(success, size) = <<>> THEN [jobs EXCEPT ![j].worker = "failed"]
                ELSE [jobs EXCEPT ![j].worker = "done", ![j].size = ResponseJson(success, size)[1]]
  BY DEF WorkerEnds
<1>2. jobs[j] \in Job /\ size \in Nat
  BY ProviderAssumption DEF JobInv, Table
<1>3. UNCHANGED <<next, resources, blobs, closedBlobs>>
  BY DEF WorkerEnds
<1>4. \E v \in Job : /\ jobs' = [jobs EXCEPT ![j] = v]
                     /\ v.resource = jobs[j].resource /\ v.query = jobs[j].query /\ v.runs = jobs[j].runs
                     /\ v.result = jobs[j].result /\ v.state = jobs[j].state
  <2>1. CASE ResponseJson(success, size) = <<>>
    <3> DEFINE v == [jobs[j] EXCEPT !.worker = "failed"]
    <3>1. v \in Job /\ v.resource = jobs[j].resource /\ v.query = jobs[j].query /\ v.runs = jobs[j].runs
          /\ v.result = jobs[j].result /\ v.state = jobs[j].state
      BY <1>2 DEF Job
    <3>2. jobs' = [jobs EXCEPT ![j] = v]
      BY <1>1, <2>1
    <3> QED BY <3>1, <3>2
  <2>2. CASE ResponseJson(success, size) # <<>>
    <3> DEFINE v == [jobs[j] EXCEPT !.worker = "done", !.size = size]
    <3>0. ResponseJson(success, size) # <<>> /\ ResponseJson(success, size)[1] = size
      BY <2>2 DEF ResponseJson
    <3>1. v \in Job /\ v.resource = jobs[j].resource /\ v.query = jobs[j].query /\ v.runs = jobs[j].runs
          /\ v.result = jobs[j].result /\ v.state = jobs[j].state
      BY <1>2 DEF Job
    <3>2. jobs' = [jobs EXCEPT ![j] = v]
      BY <1>1, <1>2, <3>0 DEF Job
    <3> QED BY <3>1, <3>2
  <2> QED BY <2>1, <2>2
<1>5. PICK v \in Job : /\ jobs' = [jobs EXCEPT ![j] = v]
                       /\ v.resource = jobs[j].resource /\ v.query = jobs[j].query /\ v.runs = jobs[j].runs
                       /\ v.result = jobs[j].result /\ v.state = jobs[j].state
  BY <1>4
<1>6. JobsStay /\ Changed(jobs, jobs', j, v)
  BY <1>3, <1>5, OneJobChanges
<1>7. BlobsStay
  BY <1>3, BlobsUntouched
<1> QED BY <1>5, <1>6, <1>7 DEF Changed

\* A job is cancelled.
LEMMA CancelStep ==
    ASSUME JobInv, next \in Nat \ {0}, NEW j \in DOMAIN jobs, UNCHANGED <<next, resources, blobs, closedBlobs>>,
           jobs' = [jobs EXCEPT ![j].state = "cancelled", ![j].worker = "stopped", ![j].result = NoResult]
    PROVE  JobsStay /\ BlobsStay /\ \E v : Changed(jobs, jobs', j, v) /\ v.state = "cancelled"
<1> DEFINE v == [jobs[j] EXCEPT !.state = "cancelled", !.worker = "stopped", !.result = NoResult]
<1>1. jobs[j] \in Job
  BY DEF JobInv, Table
<1>2. v \in Job /\ v.resource = jobs[j].resource /\ v.query = jobs[j].query /\ v.runs = jobs[j].runs
      /\ v.state = "cancelled" /\ ~HasBlob(v)
  BY <1>1 DEF Job, JobStates, Results, HasBlob, NoResult
<1>3. jobs' = [jobs EXCEPT ![j] = v]
  BY <1>1 DEF Job
<1> HIDE DEF v
<1>4. JobsStay /\ Changed(jobs, jobs', j, v)
  BY <1>2, <1>3, OneJobChanges
<1>5. BlobsStay
  BY BlobsUntouched
<1> QED BY <1>2, <1>4, <1>5

\* What taking over an ended job comes to.
PollEffect(j, state, result) ==
    jobs' = [jobs EXCEPT ![j].state = state, ![j].result = result]

LEMMA PollCases ==
    ASSUME JobInv, next \in Nat \ {0}, NEW j \in DOMAIN jobs, PollJob(j)
    PROVE  \E state \in {"failed", "succeeded"}, result \in Results :
             /\ PollEffect(j, state, result) /\ EmitJobEvent(j, state) /\ UNCHANGED <<resources, closedBlobs>>
             /\ \/ result.kind # "blob" /\ UNCHANGED <<blobs, next>>
                \/ result = [kind |-> "blob", id |-> next] /\ StoresBlob(jobs[j].resource, jobs[j].size)
<1> DEFINE b == IF jobs[j].worker = "done" THEN BlobResult(jobs[j].resource, jobs[j].size) ELSE NoResult
           state == IF b.kind = "none" THEN "failed" ELSE "succeeded"
           result == CASE b.kind = "blob" -> [kind |-> "blob", id |-> b.id] [] b.kind = "inline" -> [kind |-> "inline"]
                       [] OTHER -> NoResult
<1>1. /\ FreshBlob(b) /\ blobs' = (IF b.kind = "none" THEN blobs ELSE b.blobs)
      /\ PollEffect(j, state, result) /\ EmitJobEvent(j, state) /\ UNCHANGED <<resources, closedBlobs>>
  BY DEF PollJob, PollEffect
<1>2. \/ b.kind \in {"none", "inline"} /\ UNCHANGED <<blobs, next>>
      \/ b.kind = "blob" /\ b.id = next /\ StoresBlob(jobs[j].resource, jobs[j].size)
  <2>1. CASE jobs[j].worker = "done"
    <3>1. b = BlobResult(jobs[j].resource, jobs[j].size)
      BY <2>1
    <3> HIDE DEF b
    <3> QED BY <1>1, <3>1, BlobResultEffect
  <2>2. CASE jobs[j].worker # "done"
    <3>1. b = NoResult
      BY <2>2
    <3> HIDE DEF b
    <3> QED BY <1>1, <3>1 DEF NoResult, FreshBlob
  <2> QED BY <2>1, <2>2
<1> HIDE DEF b
<1>3. CASE b.kind \in {"none", "inline"} /\ UNCHANGED <<blobs, next>>
  <2>1. result \in Results /\ result.kind # "blob"
    BY <1>3 DEF Results, NoResult
  <2> QED BY <1>1, <1>3, <2>1
<1>4. CASE b.kind = "blob" /\ b.id = next /\ StoresBlob(jobs[j].resource, jobs[j].size)
  <2>1. result = [kind |-> "blob", id |-> next]
    BY <1>4
  <2>2. result \in Results
    BY <2>1 DEF Results
  <2> QED BY <1>1, <1>4, <2>1, <2>2
<1> QED BY <1>2, <1>3, <1>4

\* An ended job is taken over; the blob of its result, if any, is its own.
LEMMA PollStep ==
    ASSUME JobInv, BlobInv, next \in Nat \ {0}, NEW j \in DOMAIN jobs, PollJob(j)
    PROVE  /\ JobInv' /\ BlobInv' /\ IdsGrow
           /\ \E v : Changed(jobs, jobs', j, v) /\ v.state \in {"failed", "succeeded"} /\ EmitJobEvent(j, v.state)
<1>1. PICK state \in {"failed", "succeeded"}, result \in Results :
        /\ PollEffect(j, state, result) /\ EmitJobEvent(j, state) /\ UNCHANGED <<resources, closedBlobs>>
        /\ \/ result.kind # "blob" /\ UNCHANGED <<blobs, next>>
           \/ result = [kind |-> "blob", id |-> next] /\ StoresBlob(jobs[j].resource, jobs[j].size)
  BY PollCases
<1> DEFINE v == [jobs[j] EXCEPT !.state = state, !.result = result]
<1>2. jobs[j] \in Job /\ jobs[j].resource \in Nat /\ jobs[j].size \in Nat
  BY DEF JobInv, Table, Job
<1>3. v \in Job /\ v.resource = jobs[j].resource /\ v.query = jobs[j].query /\ v.runs = jobs[j].runs
      /\ v.state = state /\ v.result = result
  BY <1>2 DEF Job, JobStates
<1>4. jobs' = [jobs EXCEPT ![j] = v]
  BY <1>1, <1>2 DEF PollEffect, Job
<1> HIDE DEF v
<1>5. Table(jobs', next, Job) /\ Changed(jobs, jobs', j, v)
  BY <1>3, <1>4, ExceptChanges DEF JobInv
<1>6. CASE result.kind # "blob" /\ UNCHANGED <<blobs, next>>
  <2>1. IdsGrow
    BY <1>6 DEF IdsGrow
  <2>2. JobsStay
    BY <1>3, <1>4, <1>6, OneJobChanges DEF HasBlob
  <2>3. BlobsStay
    BY <1>1, <1>6, BlobsUntouched
  <2>4. JobInv'
    BY <2>1, <2>2, <2>3, JobsKept
  <2>5. BlobInv'
    BY <1>6, <2>1, BlobsKept
  <2> QED BY <1>1, <1>3, <1>5, <2>1, <2>4, <2>5
<1>7. CASE result = [kind |-> "blob", id |-> next] /\ StoresBlob(jobs[j].resource, jobs[j].size)
  <2> DEFINE w == NewBlob(jobs[j].resource, jobs[j].size)
  <2>1. IdsGrow /\ next' = next + 1
    BY <1>7 DEF StoresBlob, IdsGrow
  <2>2. BlobInv' /\ Added(blobs, blobs', next, w)
    BY <1>2, <1>7, BlobsStore
  <2>3. w.resource = jobs[j].resource
    BY DEF NewBlob
  <2> HIDE DEF w
  <2>4. Table(jobs', next', Job)
    BY <1>5, <2>1, TableLater DEF IdsGrow
  <2>5. /\ DOMAIN jobs' = DOMAIN jobs /\ jobs'[j].resource = jobs[j].resource
        /\ HasBlob(jobs'[j]) /\ jobs'[j].result.id = next /\ jobs'[j].runs = jobs[j].runs /\ jobs'[j].query = jobs[j].query
        /\ \A k \in DOMAIN jobs : k # j => jobs'[k] = jobs[k]
    BY <1>3, <1>5, <1>7 DEF Changed, HasBlob
  <2>6. \A k \in DOMAIN jobs : jobs'[k].resource = jobs[k].resource
    BY <2>5
  <2>7. NothingIsOrphaned'
    BY <1>1, <2>2, <2>3, <2>5, <2>6 DEF JobInv, NothingIsOrphaned, Added
  <2>8. ResultsAreReadable'
    BY <1>1, <2>2, <2>5 DEF JobInv, ResultsAreReadable, BlobOf, Added, HasBlob
  <2>9. JobsRunTheirQuery'
    BY <2>5 DEF JobInv, JobsRunTheirQuery
  <2>10. /\ \A k \in DOMAIN jobs : k # j /\ HasBlob(jobs[k]) => jobs[k].result.id \in 1 .. next - 1
         /\ next \notin 1 .. next - 1 /\ next \in 1 .. next' - 1 /\ 1 .. next - 1 \subseteq 1 .. next' - 1
    BY <2>1 DEF JobInv, OwnResults
  <2>11. ASSUME NEW k \in DOMAIN jobs', HasBlob(jobs'[k])
         PROVE  /\ jobs'[k].result.id \in 1 .. next' - 1
                /\ jobs'[k].result.id \in DOMAIN blobs' => blobs'[jobs'[k].result.id].resource = jobs'[k].resource
                /\ \A l \in DOMAIN jobs' : l # k /\ HasBlob(jobs'[l]) => jobs'[l].result.id # jobs'[k].result.id
    <3>1. CASE k = j
      BY <2>2, <2>3, <2>5, <2>10, <3>1 DEF Added
    <3>2. CASE k # j
      <4>1. k \in DOMAIN jobs /\ jobs'[k] = jobs[k] /\ HasBlob(jobs[k]) /\ jobs[k].result.id \in 1 .. next - 1
        BY <2>5, <2>10, <2>11, <3>2
      <4>2. jobs[k].result.id \in DOMAIN blobs' => blobs'[jobs[k].result.id].resource = jobs[k].resource
        BY <2>2, <2>10, <4>1 DEF JobInv, OwnResults, Added
      <4>3. \A l \in DOMAIN jobs' : l # k /\ HasBlob(jobs'[l]) => jobs'[l].result.id # jobs[k].result.id
        BY <2>5, <2>10, <4>1 DEF JobInv, OwnResults
      <4> QED BY <2>10, <4>1, <4>2, <4>3
    <3> QED BY <3>1, <3>2
  <2>12. OwnResults'
    BY <2>11 DEF OwnResults
  <2>13. JobInv'
    BY <1>1, <2>4, <2>5, <2>7, <2>8, <2>9, <2>12 DEF JobInv
  <2> QED BY <1>1, <1>3, <1>5, <2>1, <2>2, <2>13
<1> QED BY <1>1, <1>6, <1>7
----------------------------------------------------------------------------
(* The ends of jobs *)

EndInv ==
    /\ \A i \in DOMAIN broadcasts : broadcasts[i].job \in 1 .. next - 1
    /\ EndIsToldOnce

\* No job ends, and a new one has an id nobody was told of.
LEMMA EndsKept ==
    ASSUME EndInv, IdsGrow, UNCHANGED broadcasts,
           \A j \in DOMAIN jobs' : \/ j \in DOMAIN jobs /\ jobs'[j].state = jobs[j].state
                                   \/ j \notin 1 .. next - 1 /\ jobs'[j].state = "running"
    PROVE  EndInv'
<1>1. 1 .. next - 1 \subseteq 1 .. next' - 1
  BY IdsStay DEF IdsGrow
<1>2. \A j : Told(j)' = Told(j)
  BY DEF Told
<1>3. ASSUME NEW j \in DOMAIN jobs'
      PROVE  IF jobs'[j].state = "running" THEN Told(j)' = {}
             ELSE \E i \in DOMAIN broadcasts' : Told(j)' = {i} /\ broadcasts'[i].state = jobs'[j].state
  <2>1. CASE j \in DOMAIN jobs /\ jobs'[j].state = jobs[j].state
    BY <1>2, <2>1 DEF EndInv, EndIsToldOnce
  <2>2. CASE j \notin 1 .. next - 1 /\ jobs'[j].state = "running"
    <3>1. Told(j) = {}
      BY <2>2 DEF Told, EndInv
    <3> QED BY <1>2, <2>2, <3>1
  <2> QED BY <2>1, <2>2
<1> QED BY <1>1, <1>3 DEF EndInv, EndIsToldOnce

\* A job that runs ends, and that is told.
LEMMA EndsTold ==
    ASSUME EndInv, IdsGrow, broadcasts \in Seq(Event), NEW j \in DOMAIN jobs, j \in 1 .. next - 1,
           jobs[j].state = "running", NEW v, Changed(jobs, jobs', j, v), v.state # "running", EmitJobEvent(j, v.state)
    PROVE  EndInv'
<1> DEFINE e == [job |-> j, state |-> v.state]
           n == Len(broadcasts) + 1
<1>1. broadcasts' = Append(broadcasts, e) /\ e.job = j /\ e.state = v.state
  BY DEF EmitJobEvent
<1> HIDE DEF e
<1>2. /\ n \in Nat /\ DOMAIN broadcasts = 1 .. n - 1 /\ DOMAIN broadcasts' = 1 .. n
      /\ broadcasts'[n] = e /\ \A i \in 1 .. n - 1 : broadcasts'[i] = broadcasts[i]
  BY <1>1
<1> HIDE DEF n
<1>3. Told(j) = {} /\ DOMAIN jobs' = DOMAIN jobs /\ jobs'[j] = v /\ \A k \in DOMAIN jobs : k # j => jobs'[k] = jobs[k]
  BY DEF EndInv, EndIsToldOnce, Changed
<1>4. Told(j)' = {n}
  BY <1>1, <1>2, <1>3 DEF Told
<1>5. \A k : k # j => Told(k)' = Told(k)
  BY <1>1, <1>2 DEF Told
<1>6. ASSUME NEW k \in DOMAIN jobs'
      PROVE  IF jobs'[k].state = "running" THEN Told(k)' = {}
             ELSE \E i \in DOMAIN broadcasts' : Told(k)' = {i} /\ broadcasts'[i].state = jobs'[k].state
  <2>1. CASE k = j
    <3>1. n \in DOMAIN broadcasts' /\ broadcasts'[n].state = jobs'[j].state /\ jobs'[j].state # "running"
      BY <1>1, <1>2, <1>3
    <3> QED BY <1>4, <2>1, <3>1
  <2>2. CASE k # j
    <3>1. k \in DOMAIN jobs /\ jobs'[k] = jobs[k] /\ Told(k)' = Told(k)
      BY <1>3, <1>5, <2>2
    <3>2. CASE jobs[k].state = "running"
      BY <3>1, <3>2 DEF EndInv, EndIsToldOnce
    <3>3. CASE jobs[k].state # "running"
      <4>1. PICK i \in DOMAIN broadcasts : Told(k) = {i} /\ broadcasts[i].state = jobs[k].state
        BY <3>1, <3>3 DEF EndInv, EndIsToldOnce
      <4>2. i \in DOMAIN broadcasts' /\ broadcasts'[i] = broadcasts[i]
        BY <1>2
      <4> QED BY <3>1, <3>3, <4>1, <4>2
    <3> QED BY <3>2, <3>3
  <2> QED BY <2>1, <2>2
<1>7. 1 .. next - 1 \subseteq 1 .. next' - 1
  BY IdsStay DEF IdsGrow
<1>8. \A i \in DOMAIN broadcasts' : broadcasts'[i].job \in 1 .. next' - 1
  BY <1>1, <1>2, <1>7 DEF EndInv
<1> QED BY <1>6, <1>8 DEF EndInv, EndIsToldOnce
----------------------------------------------------------------------------
(* All of it *)

EsInv == next \in Nat \ {0} /\ StreamInv /\ BlobInv /\ JobInv /\ EndInv

\* Nothing is there at first.
LEMMA EsInvInit == Init => EsInv
<1> SUFFICES ASSUME Init PROVE EsInv
  OBVIOUS
<1> USE DEF Init
<1>1. Table(streams, next, Stream) /\ Table(blobs, next, Blob) /\ Table(jobs, next, Job) /\ DOMAIN <<>> = {}
  BY NoTable
<1>2. Limited(DOMAIN streams, MaxStreams) /\ Limited(DOMAIN jobs, MaxJobs)
  BY <1>1, LimitedNone, ProviderAssumption
<1>3. StreamInv
  BY <1>1, <1>2 DEF StreamInv
<1>4. BlobInv
  <2>1. BlobBytes(blobs) = {}
    BY <1>1 DEF BlobBytes
  <2>2. Fits(blobs)
    BY <2>1, FS_EmptySet, ProviderAssumption DEF Fits, TotalBlobBytes
  <2> QED BY <1>1, <2>2 DEF BlobInv
<1>5. JobInv
  BY <1>1, <1>2 DEF JobInv, NothingIsOrphaned, ResultsAreReadable, OwnResults, JobsRunTheirQuery
<1>6. EndInv
  BY <1>1 DEF EndInv, EndIsToldOnce
<1> QED BY <1>3, <1>4, <1>5, <1>6 DEF EsInv

\* A job that only changes otherwise keeps its state: what EndsKept asks for.
SameEnds == \A j \in DOMAIN jobs' : j \in DOMAIN jobs /\ jobs'[j].state = jobs[j].state

\* A step that neither starts nor ends a job.
LEMMA EndsSame ==
    ASSUME EndInv, IdsGrow, UNCHANGED broadcasts, SameEnds
    PROVE  EndInv'
BY EndsKept DEF SameEnds

\* A step that leaves all jobs as they are.
LEMMA JobsAlone ==
    ASSUME JobInv, IdsGrow, UNCHANGED jobs
    PROVE  JobsStay /\ SameEnds
<1>1. Table(jobs, next', Job)
  BY TableLater DEF JobInv, IdsGrow
<1> QED BY <1>1 DEF JobsStay, SameEnds

\* resource/open: one resource more, or none.
LEMMA OpenKeeps == EsInv /\ Open => EsInv'
<1> SUFFICES ASSUME EsInv, Open PROVE EsInv'
  OBVIOUS
<1> USE DEF EsInv
<1>1. UNCHANGED <<jobs, blobs, streams, broadcasts, closedBlobs>>
  BY DEF Open
<1>2. /\ next' = next \/ next' = next + 1
      /\ DOMAIN resources \subseteq DOMAIN resources' /\ DOMAIN resources' \subseteq DOMAIN resources \cup {next}
  BY DEF Open, FinishOpen, Fresh, Put
<1>3. IdsGrow
  BY <1>2 DEF IdsGrow
<1>4. JobsStay /\ SameEnds
  BY <1>1, <1>3, JobsAlone
<1>5. BlobsStay
  BY <1>1, <1>2 DEF BlobsStay, JobInv
<1>6. JobInv'
  BY <1>3, <1>4, <1>5, JobsKept
<1> QED BY <1>1, <1>3, <1>4, <1>6, StreamsKept, BlobsKept, EndsSame DEF IdsGrow

\* invoke: its result may be a blob, which belongs to no job.
LEMMA InvokeKeeps == EsInv /\ Invoke => EsInv'
<1> SUFFICES ASSUME EsInv, Invoke PROVE EsInv'
  OBVIOUS
<1> USE DEF EsInv
<1>1. UNCHANGED <<resources, jobs, streams, broadcasts, closedBlobs>>
  BY DEF Invoke
<1>2. PICK r \in DOMAIN resources, success \in BOOLEAN, size \in AnswerSizes :
        LET value == ResponseJson(success, size)
            b == IF value = <<>> THEN NoResult ELSE BlobResult(r, value[1])
        IN FreshBlob(b) /\ blobs' = IF b.kind = "none" THEN blobs ELSE b.blobs
  BY DEF Invoke
<1>3. r \in Nat /\ size \in Nat
  BY ProviderAssumption DEF JobInv
<1>4. UNCHANGED <<blobs, next>> \/ StoresBlob(r, size)
  <2>1. CASE ResponseJson(success, size) = <<>>
    BY <1>2, <2>1 DEF NoResult, FreshBlob
  <2>2. CASE ResponseJson(success, size) # <<>>
    <3>1. ResponseJson(success, size)[1] = size
      BY <2>2 DEF ResponseJson
    <3>2. PICK b : b = BlobResult(r, size)
      OBVIOUS
    <3>3. FreshBlob(b) /\ blobs' = IF b.kind = "none" THEN blobs ELSE b.blobs
      BY <1>2, <2>2, <3>1, <3>2
    <3> QED BY <3>2, <3>3, BlobResultEffect
  <2> QED BY <2>1, <2>2
<1>5. IdsGrow
  BY <1>4 DEF IdsGrow, StoresBlob
<1>6. JobsStay /\ SameEnds
  BY <1>1, <1>5, JobsAlone
<1>7. BlobInv' /\ BlobsStay
  <2>1. CASE UNCHANGED <<blobs, next>>
    BY <1>1, <1>5, <2>1, BlobsKept, BlobsUntouched
  <2>2. CASE StoresBlob(r, size)
    <3>1. BlobInv' /\ Added(blobs, blobs', next, NewBlob(r, size))
      BY <1>3, <2>2, BlobsStore
    <3>2. NewBlob(r, size).resource = r /\ next \notin 1 .. next - 1
      BY DEF NewBlob
    <3> QED BY <1>1, <3>1, <3>2 DEF BlobsStay, JobInv, Added
  <2> QED BY <1>4, <2>1, <2>2
<1>8. JobInv'
  BY <1>5, <1>6, <1>7, JobsKept
<1> QED BY <1>1, <1>5, <1>6, <1>7, <1>8, StreamsKept, EndsSame DEF IdsGrow

\* job/start.
LEMMA StartJobKeeps == EsInv /\ StartJob => EsInv'
<1> SUFFICES ASSUME EsInv, StartJob PROVE EsInv'
  OBVIOUS
<1> USE DEF EsInv
<1>1. UNCHANGED <<resources, blobs, streams, broadcasts, closedBlobs>> /\ next' = next + 1
  BY DEF StartJob, Fresh
<1>2. IdsGrow
  BY <1>1 DEF IdsGrow
<1>3. JobInv' /\ \E v : Added(jobs, jobs', next, v) /\ v.state = "running"
  BY JobsStart
<1>4. next \notin 1 .. next - 1
  OBVIOUS
<1>5. EndInv'
  <2>1. \A j \in DOMAIN jobs' : \/ j \in DOMAIN jobs /\ jobs'[j].state = jobs[j].state
                                \/ j \notin 1 .. next - 1 /\ jobs'[j].state = "running"
    BY <1>3, <1>4 DEF Added
  <2> QED BY <1>1, <1>2, <2>1, EndsKept
<1> QED BY <1>1, <1>2, <1>3, <1>5, StreamsKept, BlobsKept DEF IdsGrow

\* The end of a worker shows when its job is polled.
LEMMA WorkerEndsKeeps == EsInv /\ WorkerEnds => EsInv'
<1> SUFFICES ASSUME EsInv, WorkerEnds PROVE EsInv'
  OBVIOUS
<1> USE DEF EsInv
<1>1. UNCHANGED <<resources, blobs, streams, next, broadcasts, closedBlobs>>
  BY DEF WorkerEnds
<1>2. IdsGrow
  BY <1>1 DEF IdsGrow
<1>3. JobsStay /\ BlobsStay /\ \A j \in DOMAIN jobs : jobs'[j].state = jobs[j].state
  BY WorkerEndsStep
<1>4. SameEnds
  BY <1>3 DEF SameEnds, JobsStay
<1>5. JobInv'
  BY <1>2, <1>3, JobsKept
<1> QED BY <1>1, <1>2, <1>4, <1>5, StreamsKept, BlobsKept, EndsSame DEF IdsGrow

\* The ids of jobs were handed out.
LEMMA JobIds ==
    ASSUME JobInv, NEW j \in DOMAIN jobs, next \in Nat \ {0}
    PROVE  j \in 1 .. next - 1 /\ j \in Nat
BY DEF JobInv, Table

\* job/status and job/result of a job whose worker has ended.
LEMMA JobStatusKeeps == EsInv /\ JobStatus => EsInv'
<1> SUFFICES ASSUME EsInv, JobStatus PROVE EsInv'
  OBVIOUS
<1> USE DEF EsInv
<1>1. PICK j \in DOMAIN jobs : jobs[j].state = "running" /\ PollJob(j)
  BY DEF JobStatus, Ended
<1>2. j \in 1 .. next - 1 /\ j \in Nat
  BY JobIds
<1>3. /\ JobInv' /\ BlobInv' /\ IdsGrow
      /\ \E v : Changed(jobs, jobs', j, v) /\ v.state \in {"failed", "succeeded"} /\ EmitJobEvent(j, v.state)
  BY <1>1, PollStep
<1>4. PICK v : Changed(jobs, jobs', j, v) /\ v.state \in {"failed", "succeeded"} /\ EmitJobEvent(j, v.state)
  BY <1>3
<1>5. v.state \in Ends /\ v.state # "running" /\ broadcasts \in Seq(Event)
  <2>1. v.state # "running"
    BY <1>4
  <2>2. v.state \in Ends
    BY <1>4 DEF Ends
  <2> QED BY <2>1, <2>2 DEF StreamInv
<1>6. StreamInv'
  BY <1>2, <1>3, <1>4, <1>5, StreamsEmit
<1>7. EndInv'
  BY <1>1, <1>2, <1>3, <1>4, <1>5, EndsTold
<1> QED BY <1>3, <1>6, <1>7 DEF IdsGrow

\* job/cancel.
LEMMA CancelJobKeeps == EsInv /\ CancelJob => EsInv'
<1> SUFFICES ASSUME EsInv, CancelJob PROVE EsInv'
  OBVIOUS
<1> USE DEF EsInv
<1>1. PICK j \in DOMAIN jobs :
        /\ jobs[j].state = "running" /\ EmitJobEvent(j, "cancelled") /\ UNCHANGED <<next, resources, blobs, closedBlobs>>
        /\ jobs' = [jobs EXCEPT ![j].state = "cancelled", ![j].worker = "stopped", ![j].result = NoResult]
  BY DEF CancelJob
<1>2. j \in 1 .. next - 1 /\ j \in Nat /\ IdsGrow /\ broadcasts \in Seq(Event)
  BY <1>1, JobIds DEF IdsGrow, StreamInv
<1>3. JobsStay /\ BlobsStay /\ \E v : Changed(jobs, jobs', j, v) /\ v.state = "cancelled"
  BY <1>1, CancelStep
<1>4. PICK v : Changed(jobs, jobs', j, v) /\ v.state = "cancelled"
  BY <1>3
<1>5. EmitJobEvent(j, v.state) /\ v.state # "running" /\ "cancelled" \in Ends
  <2>1. EmitJobEvent(j, v.state)
    BY <1>1, <1>4 DEF EmitJobEvent
  <2>2. v.state # "running"
    BY <1>4
  <2>3. "cancelled" \in Ends
    BY DEF Ends
  <2> QED BY <2>1, <2>2, <2>3
<1>6. StreamInv'
  BY <1>1, <1>2, <1>5, StreamsEmit
<1>7. EndInv'
  BY <1>1, <1>2, <1>4, <1>5, EndsTold
<1>8. BlobInv' /\ JobInv'
  BY <1>1, <1>2, <1>3, BlobsKept, JobsKept
<1> QED BY <1>2, <1>6, <1>7, <1>8 DEF IdsGrow

\* Jobs that stay after others were dropped are as they were.
LEMMA DropSameEnds ==
    ASSUME NEW D, jobs' = Drop(jobs, D)
    PROVE  SameEnds
BY DEF Drop, SameEnds

\* job/close: a job takes its blob along, and nobody else's.
LEMMA CloseJobKeeps == EsInv /\ CloseJob => EsInv'
<1> SUFFICES ASSUME EsInv, CloseJob PROVE EsInv'
  OBVIOUS
<1> USE DEF EsInv
<1>1. UNCHANGED <<resources, streams, next, broadcasts, closedBlobs>>
  BY DEF CloseJob
<1>2. PICK j \in DOMAIN jobs : jobs' = Drop(jobs, {j}) /\ blobs' = Drop(blobs, BlobOf(j))
  BY DEF CloseJob
<1>3. IdsGrow
  BY <1>1 DEF IdsGrow
<1>4. BlobInv' /\ Thinned(blobs, blobs', BlobOf(j))
  BY <1>1, <1>2, BlobsDrop
<1>5. Thinned(resources, resources', {})
  BY <1>1 DEF Thinned
<1>6. \A k \in DOMAIN jobs \ {j} : BlobOf(k) \cap BlobOf(j) = {}
  BY DEF JobInv, OwnResults, BlobOf, HasBlob
<1>7. JobInv'
  <2>1. \A k \in DOMAIN jobs \ {j} : jobs[k].resource \notin {} /\ BlobOf(k) \cap BlobOf(j) = {}
    BY <1>6
  <2>2. \A b \in DOMAIN blobs \ BlobOf(j) : blobs[b].resource \notin {}
    OBVIOUS
  <2> QED BY <1>1, <1>2, <1>4, <1>5, <2>1, <2>2, JobsDropped
<1>8. SameEnds
  BY <1>2, DropSameEnds
<1> QED BY <1>1, <1>3, <1>4, <1>7, <1>8, StreamsKept, EndsSame DEF IdsGrow

\* resource/close: the jobs of the resource go, and its blobs.
LEMMA CloseResourceKeeps == EsInv /\ CloseResource => EsInv'
<1> SUFFICES ASSUME EsInv, CloseResource PROVE EsInv'
  OBVIOUS
<1> USE DEF EsInv
<1>1. UNCHANGED <<streams, next, broadcasts, closedBlobs>>
  BY DEF CloseResource
<1>2. PICK r \in DOMAIN resources :
        /\ resources' = Drop(resources, {r})
        /\ jobs' = Drop(jobs, {j \in DOMAIN jobs : jobs[j].resource = r})
        /\ blobs' = Drop(blobs, {b \in DOMAIN blobs : blobs[b].resource = r})
  BY DEF CloseResource
<1> DEFINE D == {j \in DOMAIN jobs : jobs[j].resource = r}
           E == {b \in DOMAIN blobs : blobs[b].resource = r}
<1>3. IdsGrow
  BY <1>1 DEF IdsGrow
<1>4. BlobInv' /\ Thinned(blobs, blobs', E)
  BY <1>1, <1>2, BlobsDrop
<1>5. Thinned(resources, resources', {r})
  BY <1>2 DEF Thinned, Drop
<1>6. \A j \in DOMAIN jobs \ D : jobs[j].resource \notin {r} /\ BlobOf(j) \cap E = {}
  BY DEF JobInv, OwnResults, BlobOf, HasBlob
<1>7. \A b \in DOMAIN blobs \ E : blobs[b].resource \notin {r}
  OBVIOUS
<1>8. jobs' = Drop(jobs, D)
  BY <1>2
<1> HIDE DEF D, E
<1>9. JobInv'
  BY <1>1, <1>4, <1>5, <1>6, <1>7, <1>8, JobsDropped
<1>10. SameEnds
  BY <1>8, DropSameEnds
<1> QED BY <1>1, <1>3, <1>4, <1>9, <1>10, StreamsKept, EndsSame DEF IdsGrow

\* blob/read.
LEMMA ReadBlobKeeps == EsInv /\ ReadBlob => EsInv'
<1> SUFFICES ASSUME EsInv, ReadBlob PROVE EsInv'
  OBVIOUS
<1> USE DEF EsInv
<1>1. UNCHANGED <<resources, jobs, streams, next, broadcasts, closedBlobs>>
  BY DEF ReadBlob
<1>2. IdsGrow
  BY <1>1 DEF IdsGrow
<1>3. BlobInv' /\ DOMAIN blobs' = DOMAIN blobs /\ \A x \in DOMAIN blobs : blobs'[x].resource = blobs[x].resource
  BY BlobsRead
<1>4. JobsStay /\ SameEnds
  BY <1>1, <1>2, JobsAlone
<1>5. BlobsStay
  BY <1>1, <1>3 DEF BlobsStay, JobInv
<1>6. JobInv'
  BY <1>2, <1>4, <1>5, JobsKept
<1> QED BY <1>1, <1>2, <1>3, <1>4, <1>6, StreamsKept, EndsSame DEF IdsGrow

\* blob/close: a job whose blob the host closes still names it.
LEMMA CloseBlobKeeps == EsInv /\ CloseBlob => EsInv'
<1> SUFFICES ASSUME EsInv, CloseBlob PROVE EsInv'
  OBVIOUS
<1> USE DEF EsInv
<1>1. UNCHANGED <<resources, jobs, streams, next, broadcasts>>
  BY DEF CloseBlob
<1>2. PICK b \in DOMAIN blobs : blobs' = Drop(blobs, {b}) /\ closedBlobs' = closedBlobs \cup {b}
  BY DEF CloseBlob
<1>3. IdsGrow
  BY <1>1 DEF IdsGrow
<1>4. BlobInv' /\ Thinned(blobs, blobs', {b})
  BY <1>1, <1>2, BlobsDrop
<1>5. JobsStay /\ SameEnds
  BY <1>1, <1>3, JobsAlone
<1>6. BlobsStay
  BY <1>1, <1>2, <1>4 DEF BlobsStay, JobInv, Thinned
<1>7. JobInv'
  BY <1>3, <1>5, <1>6, JobsKept
<1> QED BY <1>1, <1>3, <1>4, <1>5, <1>7, StreamsKept, EndsSame DEF IdsGrow

\* A step that leaves jobs, blobs and the log alone.
LEMMA OthersKept ==
    ASSUME EsInv, IdsGrow, UNCHANGED <<resources, jobs, blobs, broadcasts, closedBlobs>>
    PROVE  JobInv' /\ BlobInv' /\ EndInv'
<1> USE DEF EsInv
<1>1. JobsStay /\ SameEnds
  BY JobsAlone
<1>2. BlobsStay
  BY BlobsUntouched
<1> QED BY <1>1, <1>2, JobsKept, BlobsKept, EndsSame

\* events/open, events/read and events/close.
LEMMA EventStreamsKeep == EsInv /\ (OpenEventStream \/ ReadEventStream \/ CloseEventStream) => EsInv'
<1>1. ASSUME EsInv, OpenEventStream PROVE EsInv'
  <2>1. StreamInv'
    BY <1>1, StreamsOpen DEF EsInv
  <2>2. IdsGrow /\ UNCHANGED <<resources, jobs, blobs, broadcasts, closedBlobs>>
    BY <1>1 DEF OpenEventStream, Fresh, IdsGrow, EsInv
  <2> QED BY <1>1, <2>1, <2>2, OthersKept DEF EsInv, IdsGrow
<1>2. ASSUME EsInv, ReadEventStream PROVE EsInv'
  <2>1. StreamInv'
    BY <1>2, StreamsRead DEF EsInv
  <2>2. IdsGrow /\ UNCHANGED <<resources, jobs, blobs, broadcasts, closedBlobs>>
    BY <1>2 DEF ReadEventStream, IdsGrow, EsInv
  <2> QED BY <1>2, <2>1, <2>2, OthersKept DEF EsInv, IdsGrow
<1>3. ASSUME EsInv, CloseEventStream PROVE EsInv'
  <2>1. PICK s \in DOMAIN streams : streams' = Drop(streams, {s})
    BY <1>3 DEF CloseEventStream
  <2>2. IdsGrow /\ UNCHANGED <<next, resources, jobs, blobs, broadcasts, closedBlobs>>
    BY <1>3 DEF CloseEventStream, IdsGrow, EsInv
  <2>3. StreamInv'
    BY <1>3, <2>1, <2>2, StreamsClose DEF EsInv
  <2> QED BY <1>3, <2>2, <2>3, OthersKept DEF EsInv, IdsGrow
<1> QED BY <1>1, <1>2, <1>3

\* shutdown.
LEMMA ShutdownKeeps == EsInv /\ Shutdown => EsInv'
<1> SUFFICES ASSUME EsInv, Shutdown PROVE EsInv'
  OBVIOUS
<1> USE DEF EsInv
<1>1. /\ next <= MaxIds /\ next' = MaxIds + 1 /\ UNCHANGED <<broadcasts, closedBlobs>>
      /\ resources' = <<>> /\ jobs' = <<>> /\ blobs' = <<>> /\ streams' = <<>>
  BY DEF Shutdown
<1>2. MaxIds \in Nat
  BY ProviderAssumption
<1>3. IdsGrow
  BY <1>1, <1>2 DEF IdsGrow
<1>4. Table(jobs', next', Job) /\ DOMAIN <<>> = {}
  BY <1>1, NoTable
<1>5. Limited(DOMAIN jobs', MaxJobs)
  BY <1>1, <1>4, LimitedNone, ProviderAssumption
<1>6. JobInv'
  BY <1>1, <1>4, <1>5 DEF JobInv, NothingIsOrphaned, ResultsAreReadable, OwnResults, JobsRunTheirQuery
<1>7. SameEnds
  BY <1>1, <1>4 DEF SameEnds
<1> QED BY <1>1, <1>3, <1>6, <1>7, StreamsGone, BlobsGone, EndsSame DEF IdsGrow

\* Nothing changes.
LEMMA StutterKeeps == EsInv /\ UNCHANGED vars => EsInv'
<1> SUFFICES ASSUME EsInv, UNCHANGED vars PROVE EsInv'
  OBVIOUS
<1>1. IdsGrow /\ UNCHANGED <<next, resources, jobs, blobs, streams, broadcasts, closedBlobs>>
  BY DEF vars, IdsGrow, EsInv
<1>2. StreamInv'
  BY <1>1, StreamsKept DEF EsInv
<1> QED BY <1>1, <1>2, OthersKept DEF EsInv, IdsGrow

\* The invariant says what was to be shown.
LEMMA EsInvImplies == EsInv => JobsAreSound
<1> SUFFICES ASSUME EsInv PROVE JobsAreSound
  OBVIOUS
<1>1. \A j \in DOMAIN jobs : jobs[j].state \in {"running", "succeeded", "failed", "cancelled"}
  BY DEF EsInv, JobInv, Table, Job, JobStates
<1>2. TypeOK
  BY <1>1 DEF EsInv, TypeOK, JobInv, StreamInv, BlobInv, Limited, Accounted
<1>3. EventsAreAccounted
  BY DEF EsInv, StreamInv, Accounted, EventsAreAccounted
<1>4. BlobsFitBudget
  BY DEF EsInv, BlobInv, Fits, BlobsFitBudget
<1> QED BY <1>2, <1>3, <1>4 DEF EsInv, JobInv, EndInv, JobsAreSound

\* However requests, searches that end and closings follow one another: no job or blob
\* outlives its resource, the budget of blobs and the limits on jobs, streams and
\* event buffers hold, a result can be read until the host closes it, the end of a job
\* is told exactly once and is not taken back, and a stream accounts for every event.
THEOREM EsJobsSound == Spec => []JobsAreSound
<1>1. EsInv /\ [Next]_vars => EsInv'
  <2> SUFFICES ASSUME EsInv, [Next]_vars PROVE EsInv'
    OBVIOUS
  <2>1. CASE Next
    BY <2>1, OpenKeeps, InvokeKeeps, StartJobKeeps, WorkerEndsKeeps, JobStatusKeeps, CancelJobKeeps, CloseJobKeeps,
       CloseResourceKeeps, ReadBlobKeeps, CloseBlobKeeps, EventStreamsKeep, ShutdownKeeps DEF Next
  <2>2. CASE UNCHANGED vars
    BY <2>2, StutterKeeps
  <2> QED BY <2>1, <2>2
<1> QED BY <1>1, EsInvInit, EsInvImplies, PTL DEF Spec
----------------------------------------------------------------------------
(* Opening over the pipe, with any number of requests under way *)

References(c) == c \in Configs /\ ParseOpenParams(c).kind = "reference"
RefOf(c) == ParseOpenParams(c).ref

OpenMessage == [kind : {"open"}, config : Configs]
PingMessage == {[kind |-> "ping", config |-> [auth |-> "direct", empty |-> TRUE]]}
SecretMessage == [kind : {"secret"}, known : BOOLEAN, of : Nat]
Message == OpenMessage \cup PingMessage \cup SecretMessage

WireOK ==
    /\ pipe \in Seq(Message) /\ asked \in Seq(Nat)
    /\ requests \in [sent : Nat, answered : Nat, strays : Nat]
    /\ waiting = NoOpen \/ References(waiting)

\* Until a request was taken for an answer there is at most one question under way,
\* of the open that waits, and it is with the host or its answer is on the pipe.
Quiet == asked = <<>> /\ \A i \in DOMAIN pipe : pipe[i].kind # "secret"
OneQuestion ==
    /\ asked = <<>> \/ (asked = <<RefOf(waiting)>> /\ \A i \in DOMAIN pipe : pipe[i].kind # "secret")
    /\ \A i \in DOMAIN pipe : pipe[i].kind = "secret" => pipe[i].of = RefOf(waiting)
    /\ \A i, j \in DOMAIN pipe : pipe[i].kind = "secret" /\ pipe[j].kind = "secret" => i = j
Straight == IF waiting = NoOpen THEN Quiet ELSE OneQuestion

\* Opened with the secret it refers to; and with credentials when it asks for them.
OwnSecret(v) == ParseOpenParams(v.config).kind = "reference" => v.credentials.secret = RefOf(v.config)
HasAuth(v) == v.config.authType # "none" => v.credentials.kind # "none"

WireInv ==
    /\ WireOK
    /\ \A r \in DOMAIN resources : HasAuth(resources[r])
    /\ requests.strays = 0 => Straight /\ \A r \in DOMAIN resources : OwnSecret(resources[r])

\* An open that waits is none that does not.
LEMMA ConfigIsOpen ==
    ASSUME NEW c \in Configs
    PROVE  c # NoOpen
<1>1. c.auth \in {"none", "direct", "ref"}
  BY ProviderAssumption DEF OpenConfig
<1>2. NoOpen.auth = "no open"
  BY DEF NoOpen
<1> QED BY <1>1, <1>2

\* parse_open_params finds no credentials only in a configuration that needs none.
LEMMA ParsedSafely ==
    ASSUME NEW c \in Configs, ParseOpenParams(c).kind \notin {"reference", "error"}
    PROVE  LET v == [config |-> c, credentials |-> ParseOpenParams(c)] IN OwnSecret(v) /\ HasAuth(v)
<1>1. c.auth \in {"none", "direct", "ref"}
  BY ProviderAssumption DEF OpenConfig
<1>2. c.authType # "none" => ParseOpenParams(c).kind # "none"
  <2>1. CASE c.auth = "none" /\ c.credentialRef # 0
    BY <2>1 DEF ParseOpenParams
  <2>2. CASE c.auth = "none" /\ c.credentialRef = 0
    <3>1. ParseOpenParams(c) = CredentialsFromFields(c)
      BY <2>2 DEF ParseOpenParams
    <3>2. c.authType # "none" => CredentialsFromFields(c).kind # "none"
      BY DEF CredentialsFromFields, Reference
    <3> QED BY <3>1, <3>2
  <2>3. CASE c.auth = "direct"
    BY <2>3 DEF ParseOpenParams
  <2>4. CASE c.auth = "ref"
    BY <2>4 DEF ParseOpenParams
  <2> QED BY <1>1, <2>1, <2>2, <2>3, <2>4
<1> QED BY <1>2 DEF OwnSecret, HasAuth

\* What a configuration refers to is a number, as the answer to it is.
LEMMA RefIsNat ==
    ASSUME NEW c, References(c)
    PROVE  RefOf(c) \in Nat
<1>1. c.credentialRef \in Nat /\ c.field \in Nat
  BY ProviderAssumption DEF References, OpenConfig
<1> QED BY <1>1 DEF References, RefOf, ParseOpenParams, CredentialsFromFields, Reference

\* stored_credentials keeps the secret and is never without.
LEMMA StoredSafely ==
    ASSUME NEW c, NEW of, NEW secret
    PROVE  LET v == [config |-> c, credentials |-> StoredCredentials(c, of, secret)]
           IN HasAuth(v) /\ (secret = RefOf(c) => OwnSecret(v))
BY DEF OwnSecret, HasAuth, StoredCredentials

\* What is opened stays as it is.
LEMMA FinishKeepsOpened ==
    ASSUME NEW c, NEW credentials, FinishOpen(c, credentials), NEW r \in DOMAIN resources'
    PROVE  resources'[r] = [config |-> c, credentials |-> credentials] \/ (r \in DOMAIN resources /\ resources'[r] = resources[r])
BY DEF FinishOpen, Put

\* The first message of the pipe is taken: the others move up.
LEMMA TailMoves ==
    ASSUME NEW q \in Seq(Message), q # <<>>
    PROVE  /\ Head(q) = q[1] /\ q[1] \in Message /\ 1 \in DOMAIN q /\ Tail(q) \in Seq(Message)
           /\ \A i \in DOMAIN Tail(q) : i + 1 \in DOMAIN q /\ Tail(q)[i] = q[i + 1] /\ i + 1 # 1
OBVIOUS

\* A message is put at the end of the pipe.
LEMMA AppendMoves ==
    ASSUME NEW q \in Seq(Message), NEW m \in Message
    PROVE  /\ Append(q, m) \in Seq(Message)
           /\ \A i \in DOMAIN Append(q, m) : (i \in DOMAIN q /\ Append(q, m)[i] = q[i]) \/ (i = Len(q) + 1 /\ Append(q, m)[i] = m)
OBVIOUS

\* A request of the host waits behind what there is, and asks and answers nothing.
LEMMA HostSendsKeeps ==
    ASSUME WireInv, NEW m \in Message, m.kind # "secret", HostSends(m)
    PROVE  WireInv'
<1>1. pipe' = Append(pipe, m) /\ UNCHANGED <<resources, waiting, asked>> /\ pipe \in Seq(Message)
  BY DEF HostSends, store, WireInv, WireOK
<1>2. requests' \in [sent : Nat, answered : Nat, strays : Nat] /\ requests'.strays = requests.strays
  BY DEF HostSends, WireInv, WireOK
<1>3. pipe' \in Seq(Message) /\ \A i \in DOMAIN pipe' : pipe'[i].kind = "secret" => i \in DOMAIN pipe /\ pipe'[i] = pipe[i]
  BY <1>1, AppendMoves
<1>4. WireOK'
  BY <1>1, <1>2, <1>3 DEF WireInv, WireOK
<1>5. Straight => Straight'
  BY <1>1, <1>3 DEF Straight, Quiet, OneQuestion
<1> QED BY <1>1, <1>2, <1>4, <1>5 DEF WireInv

\* The host sends a secret it was asked for.
LEMMA HostResolvesKeeps == WireInv /\ HostResolves => WireInv'
<1> SUFFICES ASSUME WireInv, HostResolves PROVE WireInv'
  OBVIOUS
<1>1. PICK known \in BOOLEAN :
        /\ asked # <<>> /\ asked' = Tail(asked)
        /\ pipe' = Append(pipe, [kind |-> "secret", known |-> known, of |-> Head(asked)])
  BY DEF HostResolves
<1>2. UNCHANGED <<resources, waiting, requests>>
  BY DEF HostResolves, store
<1>3. pipe \in Seq(Message) /\ asked \in Seq(Nat) /\ Head(asked) \in Nat /\ Tail(asked) \in Seq(Nat)
  BY <1>1 DEF WireInv, WireOK
<1> DEFINE m == [kind |-> "secret", known |-> known, of |-> Head(asked)]
<1>4. m \in Message /\ m.kind = "secret" /\ m.of = Head(asked)
  BY <1>3 DEF Message, SecretMessage
<1>5. pipe' = Append(pipe, m)
  BY <1>1
<1> HIDE DEF m
<1>6. /\ pipe' \in Seq(Message)
      /\ \A i \in DOMAIN pipe' : (i \in DOMAIN pipe /\ pipe'[i] = pipe[i]) \/ (i = Len(pipe) + 1 /\ pipe'[i] = m)
  BY <1>3, <1>4, <1>5, AppendMoves
<1>7. WireOK'
  BY <1>1, <1>2, <1>3, <1>6 DEF WireInv, WireOK
<1>8. ASSUME Straight PROVE Straight'
  <2>1. waiting # NoOpen /\ OneQuestion
    BY <1>1, <1>8 DEF Straight, Quiet
  <2>2. asked = <<RefOf(waiting)>> /\ \A i \in DOMAIN pipe : pipe[i].kind # "secret"
    BY <1>1, <2>1 DEF OneQuestion
  <2>3. asked' = <<>> /\ m.of = RefOf(waiting)
    BY <1>1, <1>4, <2>2
  <2>4. \A i \in DOMAIN pipe' : pipe'[i].kind = "secret" => i = Len(pipe) + 1 /\ pipe'[i] = m
    BY <1>6, <2>2
  <2> QED BY <1>2, <2>1, <2>3, <2>4 DEF Straight, OneQuestion, RefOf
<1> QED BY <1>2, <1>7, <1>8 DEF WireInv

\* What the loop makes of a message, and of what is open.
LEMMA ServeCases ==
    ASSUME WireInv, Serve
    PROVE  /\ waiting = NoOpen /\ pipe # <<>> /\ pipe' = Tail(pipe)
           /\ requests' \in [sent : Nat, answered : Nat, strays : Nat] /\ requests'.strays = requests.strays
           /\ \/ UNCHANGED <<resources, waiting, asked>>
              \/ /\ Head(pipe).kind = "open" /\ References(Head(pipe).config) /\ UNCHANGED resources
                 /\ waiting' = Head(pipe).config /\ asked' = Append(asked, RefOf(Head(pipe).config))
              \/ /\ Head(pipe).kind = "open" /\ Head(pipe).config \in Configs /\ UNCHANGED <<waiting, asked>>
                 /\ ParseOpenParams(Head(pipe).config).kind \notin {"reference", "error"}
                 /\ FinishOpen(Head(pipe).config, ParseOpenParams(Head(pipe).config))
<1> DEFINE m == Head(pipe)
           p == ParseOpenParams(m.config)
<1>1. waiting = NoOpen /\ pipe # <<>> /\ pipe' = Tail(pipe)
  BY DEF Serve
<1>2. m \in Message /\ requests \in [sent : Nat, answered : Nat, strays : Nat]
  BY <1>1, TailMoves DEF WireInv, WireOK
<1>3. \/ m.kind \in {"ping", "secret"}
      \/ m.kind = "open" /\ m.config \in Configs
  BY <1>2 DEF Message, OpenMessage, PingMessage, SecretMessage
<1>4. Answered \/ UNCHANGED requests => requests' \in [sent : Nat, answered : Nat, strays : Nat] /\ requests'.strays = requests.strays
  BY <1>2 DEF Answered
<1>5. \/ m.kind = "secret" /\ UNCHANGED <<resources, waiting, asked, requests>>
      \/ m.kind = "ping" /\ Answered /\ UNCHANGED <<resources, waiting, asked>>
      \/ /\ m.kind = "open" /\ p.kind = "reference" /\ waiting' = m.config /\ asked' = Append(asked, p.ref)
         /\ UNCHANGED <<resources, requests>>
      \/ m.kind = "open" /\ p.kind = "error" /\ Answered /\ UNCHANGED <<resources, waiting, asked>>
      \/ /\ m.kind = "open" /\ p.kind \notin {"reference", "error"} /\ FinishOpen(m.config, p) /\ Answered
         /\ UNCHANGED <<waiting, asked>>
  BY <1>3 DEF Serve
<1> HIDE DEF m
<1> QED BY <1>1, <1>3, <1>4, <1>5 DEF References, RefOf, m

\* A request is served, or its open waits for a secret.
LEMMA ServeKeeps == WireInv /\ Serve => WireInv'
<1> SUFFICES ASSUME WireInv, Serve PROVE WireInv'
  OBVIOUS
<1> DEFINE m == Head(pipe)
           p == ParseOpenParams(m.config)
<1>1. /\ waiting = NoOpen /\ pipe # <<>> /\ pipe' = Tail(pipe)
      /\ requests' \in [sent : Nat, answered : Nat, strays : Nat] /\ requests'.strays = requests.strays
  BY ServeCases
<1>2. pipe \in Seq(Message) /\ asked \in Seq(Nat)
  BY DEF WireInv, WireOK
<1>3. pipe' \in Seq(Message) /\ \A i \in DOMAIN pipe' : i + 1 \in DOMAIN pipe /\ pipe'[i] = pipe[i + 1]
  BY <1>1, <1>2, TailMoves
<1>4. Straight => asked = <<>> /\ \A i \in DOMAIN pipe' : pipe'[i].kind # "secret"
  BY <1>1, <1>3 DEF Straight, Quiet
<1>5. CASE UNCHANGED <<resources, waiting, asked>>
  BY <1>1, <1>2, <1>3, <1>4, <1>5 DEF WireInv, WireOK, Straight, Quiet
<1>6. CASE /\ m.kind = "open" /\ References(m.config) /\ UNCHANGED resources
           /\ waiting' = m.config /\ asked' = Append(asked, RefOf(m.config))
  <2>1. RefOf(m.config) \in Nat /\ m.config # NoOpen
    BY <1>6, RefIsNat, ConfigIsOpen DEF References
  <2>2. asked' \in Seq(Nat) /\ (asked = <<>> => asked' = <<RefOf(m.config)>>)
    <3>1. \A n \in Nat : Append(asked, n) \in Seq(Nat)
      BY <1>2
    <3>2. \A n : Append(<<>>, n) = <<n>>
      OBVIOUS
    <3> HIDE DEF m
    <3> QED BY <1>6, <2>1, <3>1, <3>2
  <2>3. WireOK'
    BY <1>1, <1>3, <1>6, <2>2 DEF WireOK
  <2>4. Straight => Straight'
    BY <1>4, <1>6, <2>1, <2>2 DEF Straight, OneQuestion
  <2> QED BY <1>1, <1>6, <2>3, <2>4 DEF WireInv
<1>7. CASE /\ m.kind = "open" /\ m.config \in Configs /\ UNCHANGED <<waiting, asked>>
           /\ p.kind \notin {"reference", "error"} /\ FinishOpen(m.config, p)
  <2>1. OwnSecret([config |-> m.config, credentials |-> p]) /\ HasAuth([config |-> m.config, credentials |-> p])
    BY <1>7, ParsedSafely
  <2>2. \A r \in DOMAIN resources' : resources'[r] = [config |-> m.config, credentials |-> p] \/ (r \in DOMAIN resources /\ resources'[r] = resources[r])
    BY <1>7, FinishKeepsOpened
  <2>3. WireOK'
    BY <1>1, <1>2, <1>3, <1>7 DEF WireInv, WireOK
  <2>4. Straight => Straight'
    BY <1>1, <1>4, <1>7 DEF Straight, Quiet
  <2> HIDE DEF p, m
  <2> QED BY <1>1, <2>1, <2>2, <2>3, <2>4 DEF WireInv
<1> QED BY <1>5, <1>6, <1>7, ServeCases

\* An open takes the next message for its answer: it is, or a request is lost.
LEMMA ResolveSecretKeeps == WireInv /\ ResolveSecret => WireInv'
<1> SUFFICES ASSUME WireInv, ResolveSecret PROVE WireInv'
  OBVIOUS
<1> DEFINE m == Head(pipe)
           credentials == StoredCredentials(waiting, ParseOpenParams(waiting).of, m.of)
<1>1. waiting # NoOpen /\ pipe # <<>> /\ pipe' = Tail(pipe) /\ waiting' = NoOpen /\ asked' = asked
  BY DEF ResolveSecret
<1>2. pipe \in Seq(Message) /\ requests \in [sent : Nat, answered : Nat, strays : Nat]
  BY DEF WireInv, WireOK
<1>3. /\ m = pipe[1] /\ 1 \in DOMAIN pipe /\ pipe' \in Seq(Message)
      /\ \A i \in DOMAIN pipe' : i + 1 \in DOMAIN pipe /\ pipe'[i] = pipe[i + 1] /\ i + 1 # 1
  BY <1>1, <1>2, TailMoves
<1>4. requests' = [requests EXCEPT !.answered = @ + 1, !.strays = IF m.kind = "secret" THEN @ ELSE @ + 1]
  BY DEF ResolveSecret
<1>5. requests' \in [sent : Nat, answered : Nat, strays : Nat] /\ (requests'.strays = 0 => requests.strays = 0 /\ m.kind = "secret")
  <2> HIDE DEF m
  <2>1. requests.answered + 1 \in Nat /\ requests.strays \in Nat /\ requests.strays + 1 \in Nat /\ requests.strays + 1 # 0
    BY <1>2
  <2>2. CASE m.kind = "secret"
    <3>1. requests' = [requests EXCEPT !.answered = @ + 1, !.strays = @]
      BY <1>4, <2>2
    <3> QED BY <1>2, <2>1, <2>2, <3>1
  <2>3. CASE m.kind # "secret"
    <3>1. requests' = [requests EXCEPT !.answered = @ + 1, !.strays = @ + 1]
      BY <1>4, <2>3
    <3> QED BY <1>2, <2>1, <3>1
  <2> QED BY <2>2, <2>3
<1>6. WireOK'
  BY <1>1, <1>3, <1>5 DEF WireInv, WireOK
<1>7. \A r \in DOMAIN resources' : \/ r \in DOMAIN resources /\ resources'[r] = resources[r]
                                   \/ m.kind = "secret" /\ resources'[r] = [config |-> waiting, credentials |-> credentials]
  <2>1. CASE m.kind = "secret" /\ m.known
    <3>1. FinishOpen(waiting, credentials)
      BY <2>1 DEF ResolveSecret
    <3> QED BY <2>1, <3>1, FinishKeepsOpened
  <2>2. CASE ~(m.kind = "secret" /\ m.known)
    BY <2>2 DEF ResolveSecret
  <2> QED BY <2>1, <2>2
<1>8. HasAuth([config |-> waiting, credentials |-> credentials])
  BY StoredSafely
<1>9. ASSUME requests'.strays = 0
      PROVE  Straight' /\ \A r \in DOMAIN resources' : OwnSecret(resources'[r])
  <2>1. m.kind = "secret" /\ OneQuestion /\ \A r \in DOMAIN resources : OwnSecret(resources[r])
    BY <1>1, <1>5, <1>9 DEF WireInv, Straight
  <2>2. asked = <<>> /\ m.of = RefOf(waiting) /\ \A i \in DOMAIN pipe' : pipe'[i].kind # "secret"
    BY <1>3, <2>1 DEF OneQuestion
  <2>3. Straight'
    BY <1>1, <2>2 DEF Straight, Quiet
  <2>4. OwnSecret([config |-> waiting, credentials |-> credentials])
    BY <2>2, StoredSafely
  <2> QED BY <1>7, <2>1, <2>3, <2>4
<1> HIDE DEF m, credentials
<1> QED BY <1>6, <1>7, <1>8, <1>9 DEF WireInv

\* However many requests the host has under way and whatever it answers, a resource is
\* opened with the secret its own configuration refers to until a request was taken
\* for an answer, and a configuration that asks for authentication never opens without.
THEOREM EsOpensSafe == WireSpec => []OpensAreSafe
<1>1. Init => WireInv
  BY DEF Init, WireInv, WireOK, Straight, Quiet
<1>2. WireInv /\ [WireNext]_vars => WireInv'
  <2> SUFFICES ASSUME WireInv, [WireNext]_vars PROVE WireInv'
    OBVIOUS
  <2>1. ASSUME NEW c \in Configs, HostSends([kind |-> "open", config |-> c]) PROVE WireInv'
    <3>1. [kind |-> "open", config |-> c] \in Message
      BY DEF Message, OpenMessage
    <3> QED BY <2>1, <3>1, HostSendsKeeps
  <2>2. CASE HostSends([kind |-> "ping", config |-> [auth |-> "direct", empty |-> TRUE]])
    <3>1. [kind |-> "ping", config |-> [auth |-> "direct", empty |-> TRUE]] \in Message
      BY DEF Message, PingMessage
    <3> QED BY <2>2, <3>1, HostSendsKeeps
  <2>3. CASE HostResolves \/ Serve \/ ResolveSecret
    BY <2>3, HostResolvesKeeps, ServeKeeps, ResolveSecretKeeps
  <2>4. CASE UNCHANGED vars
    BY <2>4 DEF vars, WireInv, WireOK, Straight, Quiet, OneQuestion, RefOf
  <2> QED BY <2>1, <2>2, <2>3, <2>4 DEF WireNext
<1>3. WireInv => OpensAreSafe
  BY DEF WireInv, OwnSecret, HasAuth, RefOf, OpensAreSafe, SecretsMatch, AuthIsNotDropped
<1> QED BY <1>1, <1>2, <1>3, PTL DEF WireSpec
-----------------------------------------------------------------------------
(* Redis: calls, the inductive invariant *)

CallResults == {"ok", "refused by server", "dropped", "timeout", "refused", "invalid"}

\* What the driver decides about a request before it sends it.
Safe(r) == IF r.kind = "command" THEN CanRetryCommand(r.commands[1]) ELSE CanRetryPipeline(r.commands)

Commands == Seq(Seq(STRING))

Requests == [state : CallResults \cup {"none", "sent"}, kind : {"none", "command", "pipeline"}, commands : Commands,
             database : Databases, done : Seq(Nat), at : SUBSET Databases, retryable : BOOLEAN, tries : Nat, faults : Nat,
             altered : BOOLEAN]

RequestOK(r) ==
  /\ r \in Requests /\ Len(r.done) = Len(r.commands)
  /\ r.kind = "command" => Len(r.commands) = 1

\* A request that is not safe has done nothing while it may be sent (again), and
\* nothing twice afterwards.
OnceInv(r) ==
  ~Safe(r) => /\ \A i \in DOMAIN r.done : r.done[i] <= 1
              /\ (r.state = "sent" \/ r.retryable) => \A i \in DOMAIN r.done : r.done[i] = 0

DoneInv(r) ==
  ~r.altered => /\ r.state = "ok" => \A i \in DOMAIN r.done : r.done[i] > 0
                /\ r.at \subseteq {r.database}

DropInv(r) == (r.state = "dropped" /\ Safe(r)) => r.faults > 1

RequestInv(r) == RequestOK(r) /\ OnceInv(r) /\ DoneInv(r) /\ DropInv(r)

\* A cached connection that no command has altered is as it was made, and one to the
\* database it is cached under.
Connection == [open : {TRUE}, database : Databases, queues : BOOLEAN, altered : BOOLEAN]
ConnectionOK(c, d) == c \in Connection /\ (~c.altered => c = OpenConnectionManager(d))
ConnectionsOK(f) ==
  /\ DOMAIN f = Databases
  /\ \A d \in Databases : f[d] = NoConnection \/ ConnectionOK(f[d], d)

CallInv == ConnectionsOK(connections) /\ RequestInv(request)
-----------------------------------------------------------------------------
\* can_retry_command accepts only what the server does not change anything for.
LEMMA RetriedReads == ASSUME NEW args, CanRetryCommand(args) PROVE ~Writes(args)
<1>1. \A name \in ReadOnly : name \in ServerReads BY DEF ReadOnly, ServerReads
<1> QED BY <1>1 DEF CanRetryCommand, Writes, ReadsMemory

\* A request that is safe has no command that writes.
LEMMA SafeReads ==
  ASSUME NEW r, RequestOK(r), Safe(r), NEW i \in DOMAIN r.commands PROVE ~Writes(r.commands[i])
<1>1. CASE r.kind = "command"
  <2>1. i = 1 BY <1>1 DEF RequestOK, Requests, Commands
  <2>2. CanRetryCommand(r.commands[i]) BY <1>1, <2>1 DEF Safe
  <2> QED BY <2>2, RetriedReads
<1>2. CASE r.kind # "command"
  <2>1. CanRetryCommand(r.commands[i]) BY <1>2 DEF Safe, CanRetryPipeline
  <2> QED BY <2>1, RetriedReads
<1> QED BY <1>1, <1>2

\* A request whose commands all may be sent again is safe, unless it has none.
LEMMA ReadsAreSafe ==
  ASSUME NEW r, RequestOK(r), r.commands # <<>>, \A i \in DOMAIN r.commands : CanRetryCommand(r.commands[i])
  PROVE  Safe(r)
<1>1. CASE r.kind = "command"
  <2>1. 1 \in DOMAIN r.commands BY <1>1 DEF RequestOK, Requests, Commands
  <2> QED BY <1>1, <2>1 DEF Safe
<1>2. CASE r.kind # "command" BY <1>2 DEF Safe, CanRetryPipeline
<1> QED BY <1>1, <1>2

\* The invariant says what CallsAreSafe says.
LEMMA CallInvSuffices == CallInv => CallsAreSafe
<1> SUFFICES ASSUME CallInv PROVE CallsAreSafe
  OBVIOUS
<1>1. RequestOK(request) /\ OnceInv(request) /\ DoneInv(request) /\ DropInv(request) BY DEF CallInv, RequestInv
<1>2. DOMAIN request.done = DOMAIN request.commands /\ request.done \in Seq(Nat) BY <1>1 DEF RequestOK, Requests, Commands
<1>3. NoWriteTwice
  <2> SUFFICES ASSUME NEW i \in DOMAIN request.commands, request.done[i] > 0, Writes(request.commands[i])
               PROVE  request.done[i] = 1
    BY DEF NoWriteTwice
  <2>1. ~Safe(request) BY <1>1, SafeReads
  <2>2. request.done[i] <= 1 BY <1>1, <1>2, <2>1 DEF OnceInv
  <2>3. request.done[i] \in Nat BY <1>2
  <2> QED BY <2>2, <2>3
<1>4. DoneAsAsked BY <1>1 DEF DoneInv, DoneAsAsked
<1>5. ReadsSurviveADrop BY <1>1, ReadsAreSafe DEF DropInv, ReadsSurviveADrop
<1> QED BY <1>3, <1>4, <1>5 DEF CallsAreSafe
-----------------------------------------------------------------------------
(* Calls: the steps *)

\* Whether a request meets a connection that a command alters or has altered.
Meets(r) == r.altered \/ Manager(r.database).altered \/ Alters(r.commands)

\* What a call may do with the request it ends.
CallEnds(r, result, retryable, q, p, faults) ==
  /\ result \in CallResults /\ retryable \in BOOLEAN /\ faults \in Nat
  /\ q.at \subseteq Databases /\ p.at \subseteq Databases
  /\ ~Safe(r) => p.done = {} /\ (retryable => q.done = {})
  /\ ~Meets(r) => /\ result = "ok" => \A i \in DOMAIN r.done : i \in q.done \cup p.done
                  /\ q.at \subseteq {r.database} /\ p.at \subseteq {r.database}
  /\ (result = "dropped" /\ Safe(r)) => faults > 1

\* The connection of a request is there, new or as it was cached.
LEMMA ManagerOK ==
  ASSUME CallInv
  PROVE  request.database \in Databases /\ ConnectionOK(Manager(request.database), request.database)
<1>1. request.database \in Databases BY DEF CallInv, RequestInv, RequestOK, Requests
<1>2. ConnectionOK(OpenConnectionManager(request.database), request.database)
  BY <1>1 DEF ConnectionOK, OpenConnectionManager, Connection
<1> QED BY <1>1, <1>2 DEF CallInv, ConnectionsOK, Manager

\* The end of a call keeps the invariant.
LEMMA FinishKeeps ==
  ASSUME CallInv, request.state = "sent", NEW result, NEW retryable, NEW q, NEW p, NEW faults,
         CallEnds(request, result, retryable, q, p, faults),
         Finish(result, retryable, q, p, faults)
  PROVE  RequestInv(request')
<1> DEFINE r == request
           done == [i \in DOMAIN r.done |-> r.done[i] + (IF i \in q.done THEN 1 ELSE 0) + (IF i \in p.done THEN 1 ELSE 0)]
           places == r.at \cup q.at \cup p.at
           altered == r.altered \/ Manager(r.database).altered \/ Alters(r.commands)
<1>1. r \in Requests /\ Len(r.done) = Len(r.commands) BY DEF CallInv, RequestInv, RequestOK
<1>2. request' = [r EXCEPT !.state = result, !.retryable = retryable, !.faults = faults, !.done = done, !.at = places, !.altered = altered]
  BY DEF Finish
<1>3. r.done \in Seq(Nat) /\ r.at \subseteq Databases /\ r.altered \in BOOLEAN BY <1>1 DEF Requests
<1>4. done \in Seq(Nat) /\ Len(done) = Len(r.done) /\ DOMAIN done = DOMAIN r.done BY SMTT(30), <1>3
<1>5. places \in SUBSET Databases BY <1>3 DEF CallEnds
<1>6. result \in CallResults /\ retryable \in BOOLEAN /\ faults \in Nat BY DEF CallEnds
<1>7. altered \in BOOLEAN /\ altered = Meets(r) BY DEF Meets
<1>8. ~altered => places \subseteq {r.database} BY <1>7 DEF CallEnds, CallInv, RequestInv, DoneInv, Meets
<1> HIDE DEF places, altered
<1>9. request' \in Requests
  <2> HIDE DEF done, r
  <2> QED BY <1>1, <1>2, <1>4, <1>5, <1>6, <1>7 DEF Requests
<1>10. /\ request'.commands = r.commands /\ request'.kind = r.kind /\ request'.database = r.database
       /\ request'.done = done /\ request'.at = places /\ request'.state = result /\ request'.retryable = retryable
       /\ request'.faults = faults /\ request'.altered = altered
  BY <1>1, <1>2 DEF Requests
<1>11. Safe(request') = Safe(r) BY <1>10 DEF Safe
<1>12. RequestOK(request') BY <1>1, <1>4, <1>9, <1>10 DEF RequestOK, RequestInv, CallInv
<1>13. OnceInv(request')
  <2> SUFFICES ASSUME ~Safe(r)
               PROVE  /\ \A i \in DOMAIN done : done[i] <= 1
                      /\ retryable => \A i \in DOMAIN done : done[i] = 0
    BY <1>10, <1>11 DEF OnceInv, CallEnds, CallResults
  <2>1. \A i \in DOMAIN r.done : r.done[i] = 0 BY DEF CallInv, RequestInv, OnceInv
  <2>2. p.done = {} /\ (retryable => q.done = {}) BY DEF CallEnds
  <2> QED BY <2>1, <2>2
<1>14. DoneInv(request')
  <2>1. ASSUME ~altered, result = "ok", NEW i \in DOMAIN done PROVE done[i] > 0
    <3>1. i \in DOMAIN r.done /\ i \in q.done \cup p.done BY <1>7, <2>1 DEF CallEnds
    <3>2. r.done[i] \in Nat BY <1>3, <3>1
    <3> QED BY <3>1, <3>2
  <2> QED BY <2>1, <1>8, <1>10 DEF DoneInv
<1>15. DropInv(request') BY <1>10, <1>11 DEF DropInv, CallEnds
<1> QED BY <1>12, <1>13, <1>14, <1>15 DEF RequestInv

\* What a query may answer, how it leaves its connection, and that over one that is
\* not altered "ok" means everything was done, in its own database.
LEMMA Outcomes ==
  ASSUME NEW commands, NEW d \in Databases, NEW c, ConnectionOK(c, d), NEW q \in QueryOutcomes(commands, c)
  PROVE  /\ q.result \in {"ok", "refused by server", "dropped", "timeout"}
         /\ q.at \subseteq Databases /\ ConnectionOK(q.left, d)
         /\ ~c.altered /\ ~Alters(commands) => (q.result = "ok" => q.done = DOMAIN commands) /\ q.at \subseteq {d}
<1>1. CASE Alters(commands)
  <2>1. q \in [result : {"ok", "refused by server", "dropped", "timeout"}, done : SUBSET DOMAIN commands,
                at : SUBSET Databases, left : Altered]
    BY <1>1 DEF QueryOutcomes
  <2>2. q.left \in Altered BY <2>1
  <2>3. ConnectionOK(q.left, d) BY <2>2 DEF Altered, ConnectionOK, Connection
  <2> QED BY <1>1, <2>1, <2>3
<1>2. CASE ~Alters(commands)
  <2>1. PICK e \in WaysToEnd(commands) : q = Sent(e, c)
    BY <1>2 DEF QueryOutcomes
  <2>2. q.result = e[1] /\ q.done = (IF c.queues THEN {} ELSE e[2]) /\ q.at \subseteq {c.database} /\ q.left = c BY <2>1 DEF Sent
  <2>3. e[1] \in {"ok", "refused by server", "dropped", "timeout"} /\ (e[1] = "ok" => e[2] = DOMAIN commands)
    <3> DEFINE B == {"refused by server"} \X SUBSET DOMAIN commands
               C == CutShort(commands)
    <3>1. CASE e = <<"ok", DOMAIN commands>> BY <3>1
    <3>2. CASE e \in B BY <3>2
    <3>3. CASE e \in C
      <4>1. PICK x \in {"dropped", "timeout"}, n \in 0..Len(commands) : e = <<x, 1..n>> BY <3>3 DEF CutShort
      <4>2. e[1] = x BY <4>1
      <4> QED BY <4>2
    <3>4. WaysToEnd(commands) = ({<<"ok", DOMAIN commands>>} \cup B) \cup C BY DEF WaysToEnd
    <3> HIDE DEF B, C
    <3> QED BY <3>1, <3>2, <3>3, <3>4
  <2>4. c.database \in Databases BY DEF ConnectionOK, Connection
  <2>5. ~c.altered => c.queues = FALSE /\ c.database = d BY DEF ConnectionOK, OpenConnectionManager
  <2> QED BY <2>2, <2>3, <2>4, <2>5
<1> QED BY <1>1, <1>2

\* A cached connection is replaced.
LEMMA CachesKeeps ==
  ASSUME CallInv, NEW c, c = NoConnection \/ ConnectionOK(c, request.database), Caches(c)
  PROVE  ConnectionsOK(connections')
<1>1. request.database \in Databases BY ManagerOK
<1> QED BY <1>1 DEF CallInv, Caches, ConnectionsOK

\* One query and at most one more keep the invariant.
LEMMA RunKeeps ==
  ASSUME CallInv, request.state = "sent", NEW safe, safe = Safe(request), Run(safe)
  PROVE  CallInv'
<1> DEFINE d == request.database
           fresh == OpenConnectionManager(d)
<1>1. d \in Databases /\ ConnectionOK(Manager(d), d) BY ManagerOK
<1>2. DOMAIN request.done = DOMAIN request.commands BY DEF CallInv, RequestInv, RequestOK, Requests, Commands
<1>3. ConnectionOK(fresh, d) /\ ~fresh.altered BY <1>1 DEF ConnectionOK, OpenConnectionManager, Connection
<1>4. safe \in BOOLEAN BY DEF Safe, CanRetryCommand, CanRetryPipeline
<1>5. NotSent.done = {} /\ NotSent.at = {} BY DEF NotSent
<1>6. ASSUME NEW c, c = NoConnection \/ ConnectionOK(c, d), Caches(c), NEW result, NEW retryable, NEW q, NEW p, NEW faults,
             CallEnds(request, result, retryable, q, p, faults), Finish(result, retryable, q, p, faults)
      PROVE  CallInv'
  BY <1>6, FinishKeeps, CachesKeeps DEF CallInv
<1>7. CASE connections[d] = NoConnection /\ Caches(NoConnection) /\ Finish("refused", TRUE, NotSent, NotSent, 1)
  <2>1. CallEnds(request, "refused", TRUE, NotSent, NotSent, 1) BY <1>5 DEF CallEnds, CallResults
  <2> QED BY <1>6, <1>7, <2>1
<1>8. ASSUME NEW q \in QueryOutcomes(request.commands, Manager(d)),
             \/ /\ q.result # "dropped" /\ Caches(q.left)
                /\ Finish(q.result, Retryable(q.result, safe), q, NotSent, 1)
             \/ /\ q.result = "dropped" /\ ~safe /\ (Caches(fresh) \/ Caches(NoConnection))
                /\ Finish("dropped", FALSE, q, NotSent, 1)
             \/ /\ q.result = "dropped" /\ safe /\ Caches(NoConnection)
                /\ Finish("refused", TRUE, q, NotSent, 2)
             \/ /\ q.result = "dropped" /\ safe
                /\ \E r \in QueryOutcomes(request.commands, fresh) :
                     Caches(r.left) /\ Finish(r.result, Retryable(r.result, TRUE), q, r, 2)
      PROVE  CallInv'
  <2>1. /\ q.result \in {"ok", "refused by server", "dropped", "timeout"} /\ q.at \subseteq Databases /\ ConnectionOK(q.left, d)
        /\ ~Meets(request) => (q.result = "ok" => q.done = DOMAIN request.commands) /\ q.at \subseteq {d}
    BY <1>1, <1>8, Outcomes DEF Meets
  <2>2. CASE /\ q.result # "dropped" /\ Caches(q.left)
             /\ Finish(q.result, Retryable(q.result, safe), q, NotSent, 1)
    <3>1. Retryable(q.result, safe) \in BOOLEAN /\ (~safe => ~Retryable(q.result, safe)) BY <1>4 DEF Retryable
    <3>2. CallEnds(request, q.result, Retryable(q.result, safe), q, NotSent, 1)
      BY <1>2, <1>5, <2>1, <2>2, <3>1 DEF CallEnds, CallResults
    <3> QED BY <1>6, <2>1, <2>2, <3>2
  <2>3. CASE /\ q.result = "dropped" /\ ~safe /\ (Caches(fresh) \/ Caches(NoConnection))
             /\ Finish("dropped", FALSE, q, NotSent, 1)
    <3>1. CallEnds(request, "dropped", FALSE, q, NotSent, 1) BY <1>5, <2>1, <2>3 DEF CallEnds, CallResults
    <3> QED BY <1>3, <1>6, <2>3, <3>1
  <2>4. CASE q.result = "dropped" /\ safe /\ Caches(NoConnection) /\ Finish("refused", TRUE, q, NotSent, 2)
    <3>1. CallEnds(request, "refused", TRUE, q, NotSent, 2) BY <1>5, <2>1, <2>4 DEF CallEnds, CallResults
    <3> QED BY <1>6, <2>4, <3>1
  <2>5. ASSUME q.result = "dropped", safe, NEW r \in QueryOutcomes(request.commands, fresh),
               Caches(r.left), Finish(r.result, Retryable(r.result, TRUE), q, r, 2)
        PROVE  CallInv'
    <3>1. /\ r.result \in {"ok", "refused by server", "dropped", "timeout"} /\ r.at \subseteq Databases /\ ConnectionOK(r.left, d)
          /\ ~Meets(request) => (r.result = "ok" => r.done = DOMAIN request.commands) /\ r.at \subseteq {d}
      BY <1>1, <1>3, <2>5, Outcomes DEF Meets
    <3>2. Retryable(r.result, TRUE) \in BOOLEAN BY DEF Retryable
    <3>3. CallEnds(request, r.result, Retryable(r.result, TRUE), q, r, 2)
      <4>1. Safe(request) BY <2>5
      <4>2. ~Meets(request) /\ r.result = "ok" => \A i \in DOMAIN request.done : i \in q.done \cup r.done BY <1>2, <3>1
      <4>3. r.result \in CallResults BY <3>1 DEF CallResults
      <4>4. 2 \in Nat /\ 2 > 1 OBVIOUS
      <4> HIDE DEF d
      <4>5. ~Meets(request) => q.at \subseteq {request.database} /\ r.at \subseteq {request.database} BY <2>1, <2>5, <3>1 DEF d
      <4> QED BY <2>1, <3>1, <3>2, <4>1, <4>2, <4>3, <4>4, <4>5, Zenon DEF CallEnds
    <3> QED BY <1>6, <2>5, <3>1, <3>3
  <2> QED BY <1>8, <2>2, <2>3, <2>4, <2>5
<1> QED BY <1>7, <1>8 DEF Run

\* A request that cannot be built ends without a trace.
LEMMA RefuseKeeps == ASSUME CallInv, request.state = "sent", Refuse PROVE CallInv'
<1>1. CallEnds(request, "invalid", FALSE, NotSent, NotSent, 0) BY DEF CallEnds, CallResults, NotSent
<1>2. RequestInv(request') BY <1>1, FinishKeeps DEF Refuse
<1> QED BY <1>2 DEF CallInv, Refuse

\* A command is run, or refused.
LEMMA ExecuteKeeps == ASSUME CallInv, Execute PROVE CallInv'
<1>1. request.state = "sent" /\ Safe(request) = CanRetryCommand(request.commands[1]) BY DEF Execute, Running, Safe
<1>2. CASE BuildCommand(request.commands[1]) BY <1>1, <1>2, RunKeeps DEF Execute
<1>3. CASE ~BuildCommand(request.commands[1]) BY <1>1, <1>3, RefuseKeeps DEF Execute
<1> QED BY <1>2, <1>3

\* A pipeline is run, or refused.
LEMMA ExecutePipelineKeeps == ASSUME CallInv, ExecutePipeline PROVE CallInv'
<1>1. request.state = "sent" /\ Safe(request) = CanRetryPipeline(request.commands) BY DEF ExecutePipeline, Running, Safe
<1>2. CASE BuildPipeline(request.commands) BY <1>1, <1>2, RunKeeps DEF ExecutePipeline
<1>3. CASE ~BuildPipeline(request.commands) BY <1>1, <1>3, RefuseKeeps DEF ExecutePipeline
<1> QED BY <1>2, <1>3

\* A new request has done nothing yet.
LEMMA HostRequestsKeeps == ASSUME CallInv, HostRequests PROVE CallInv'
<1>1. PICK commands \in Pipelines, kind \in {"command", "pipeline"}, d \in Databases :
        /\ kind = "command" => Len(commands) = 1
        /\ request' = [NoRequest EXCEPT !.state = "sent", !.kind = kind, !.commands = commands, !.database = d,
                                        !.done = [i \in DOMAIN commands |-> 0], !.tries = 1]
  BY DEF HostRequests
<1>2. commands \in Commands BY RedisAssumption DEF Commands
<1> DOMAIN commands = 1..Len(commands) /\ Len(commands) \in Nat BY <1>2 DEF Commands
<1> DEFINE done == [i \in DOMAIN commands |-> 0]
<1>3. done \in Seq(Nat) /\ Len(done) = Len(commands) /\ \A i \in DOMAIN done : done[i] = 0 BY <1>2
<1> HIDE DEF done
<1>4. request' = [state |-> "sent", kind |-> kind, commands |-> commands, database |-> d, done |-> done, at |-> {},
                  retryable |-> FALSE, tries |-> 1, faults |-> 0, altered |-> FALSE]
  BY <1>1 DEF NoRequest, done
<1>5. RequestOK(request')
  <2>1. "sent" \in CallResults \cup {"none", "sent"} /\ {} \in SUBSET Databases /\ FALSE \in BOOLEAN OBVIOUS
  <2>2. request' \in Requests BY <1>2, <1>3, <1>4, <2>1 DEF Requests
  <2> QED BY <1>1, <1>3, <1>4, <2>2 DEF RequestOK
<1>6. OnceInv(request') /\ DoneInv(request') /\ DropInv(request') BY <1>3, <1>4 DEF OnceInv, DoneInv, DropInv
<1> QED BY <1>5, <1>6 DEF CallInv, RequestInv, HostRequests

\* A request that is repeated is one that may be.
LEMMA HostRepeatsKeeps == ASSUME CallInv, HostRepeats PROVE CallInv'
<1>1. request.retryable /\ request' = [request EXCEPT !.state = "sent", !.retryable = FALSE, !.tries = @ + 1]
  BY DEF HostRepeats
<1>2. RequestOK(request) /\ OnceInv(request) /\ DoneInv(request) BY DEF CallInv, RequestInv
<1>3. request' \in Requests
  <2>1. request \in Requests BY <1>2 DEF RequestOK
  <2>2. "sent" \in CallResults \cup {"none", "sent"} /\ FALSE \in BOOLEAN OBVIOUS
  <2>3. request.tries + 1 \in Nat BY <2>1 DEF Requests
  <2> QED BY <1>1, <2>1, <2>2, <2>3 DEF Requests
<1>4. /\ request'.commands = request.commands /\ request'.kind = request.kind /\ request'.database = request.database
      /\ request'.done = request.done /\ request'.at = request.at /\ request'.state = "sent"
      /\ request'.altered = request.altered
  BY <1>1, <1>2 DEF RequestOK, Requests
<1>5. Safe(request') = Safe(request) BY <1>4 DEF Safe
<1>6. RequestOK(request') BY <1>2, <1>3, <1>4 DEF RequestOK
<1>7. OnceInv(request') BY <1>1, <1>2, <1>4, <1>5 DEF OnceInv
<1>8. DoneInv(request') /\ DropInv(request') BY <1>2, <1>4 DEF DoneInv, DropInv
<1> QED BY <1>6, <1>7, <1>8 DEF CallInv, RequestInv, HostRepeats
-----------------------------------------------------------------------------
(* Redis: Pub/Sub streams, the inductive invariant *)

Messages == [message : Nat, topic : Topics]
Streams == [open : BOOLEAN, task : {"running", "ended"}, capacity : EventCapacities, commands : Seq(Controls),
            subscribed : SUBSET Topics, wanted : SUBSET Topics, incoming : Seq(Messages), channel : Seq(Messages),
            dropped : Nat, received : Seq(Messages), got : Seq(Messages), reported : Nat]

Sorted(q) == \A i, j \in DOMAIN q : i < j => q[i].message <= q[j].message
Before(q, r) == \A i \in DOMAIN q, j \in DOMAIN r : q[i].message <= r[j].message
UpTo(q, n) == \A i \in DOMAIN q : q[i].message <= n

\* What was read is older than what can be read, and that older than what arrives.
InOrder(e, n) ==
  /\ Sorted(e.got) /\ Sorted(e.channel) /\ Sorted(e.incoming)
  /\ Before(e.got, e.channel) /\ Before(e.got, e.incoming) /\ Before(e.channel, e.incoming)
  /\ UpTo(e.got, n) /\ UpTo(e.channel, n) /\ UpTo(e.incoming, n)

PubSubAccounted(e) ==
  /\ Len(e.received) = Len(e.got) + Len(e.channel) + e.dropped + e.reported
  /\ Len(e.channel) <= e.capacity

\* The last control on a topic turns it on, or there is none and it is subscribed.
EndsOn(commands, subscribed, topic) ==
  \/ \E i \in DOMAIN commands : /\ commands[i].on /\ commands[i].topic = topic
                                /\ \A j \in DOMAIN commands : j > i => commands[j].topic # topic
  \/ topic \in subscribed /\ \A i \in DOMAIN commands : commands[i].topic # topic

Follows(e) == e.task = "running" => \A topic \in Topics : topic \in e.wanted <=> EndsOn(e.commands, e.subscribed, topic)

Stops(e) == ~e.open => e.task = "ended" /\ e.subscribed = {}

StreamOK(e, n) == e \in Streams /\ InOrder(e, n) /\ PubSubAccounted(e) /\ Follows(e) /\ Stops(e)

PubSubInv == published \in Nat /\ events \in Seq(Streams) /\ \A s \in DOMAIN events : StreamOK(events[s], published)
-----------------------------------------------------------------------------
(* Streams: sequences of messages *)

\* Two sequences in order, one before the other, are in order end to end.
LEMMA SortedConcat ==
  ASSUME NEW q \in Seq(Messages), NEW r \in Seq(Messages), Sorted(q), Sorted(r), Before(q, r)
  PROVE  Sorted(q \o r)
<1> SUFFICES ASSUME NEW i \in DOMAIN (q \o r), NEW j \in DOMAIN (q \o r), i < j
             PROVE  (q \o r)[i].message <= (q \o r)[j].message
  BY DEF Sorted
<1>1. CASE j <= Len(q)
  <2>1. i \in DOMAIN q /\ j \in DOMAIN q /\ (q \o r)[i] = q[i] /\ (q \o r)[j] = q[j] BY <1>1
  <2> QED BY <2>1 DEF Sorted
<1>2. CASE i <= Len(q) /\ j > Len(q)
  <2>1. i \in DOMAIN q /\ j - Len(q) \in DOMAIN r /\ (q \o r)[i] = q[i] /\ (q \o r)[j] = r[j - Len(q)] BY <1>2
  <2> QED BY <2>1 DEF Before
<1>3. CASE i > Len(q)
  <2>1. /\ i - Len(q) \in DOMAIN r /\ j - Len(q) \in DOMAIN r /\ i - Len(q) < j - Len(q)
        /\ (q \o r)[i] = r[i - Len(q)] /\ (q \o r)[j] = r[j - Len(q)]
    BY <1>3
  <2> QED BY <2>1 DEF Sorted
<1> QED BY <1>1, <1>2, <1>3

\* What holds of the messages of two sequences holds of them end to end.
LEMMA UpToConcat ==
  ASSUME NEW q \in Seq(Messages), NEW r \in Seq(Messages), NEW n, UpTo(q, n), UpTo(r, n)
  PROVE  UpTo(q \o r, n)
<1> SUFFICES ASSUME NEW i \in DOMAIN (q \o r) PROVE (q \o r)[i].message <= n
  BY DEF UpTo
<1>1. CASE i <= Len(q) BY <1>1 DEF UpTo
<1>2. CASE i > Len(q)
  <2>1. i - Len(q) \in DOMAIN r /\ (q \o r)[i] = r[i - Len(q)] BY <1>2
  <2> QED BY <2>1 DEF UpTo
<1> QED BY <1>1, <1>2

\* Both parts come before a third sequence.
LEMMA BeforeConcat ==
  ASSUME NEW q \in Seq(Messages), NEW r \in Seq(Messages), NEW t \in Seq(Messages), Before(q, t), Before(r, t)
  PROVE  Before(q \o r, t)
<1> SUFFICES ASSUME NEW i \in DOMAIN (q \o r), NEW j \in DOMAIN t PROVE (q \o r)[i].message <= t[j].message
  BY DEF Before
<1>1. CASE i <= Len(q) BY <1>1 DEF Before
<1>2. CASE i > Len(q)
  <2>1. i - Len(q) \in DOMAIN r /\ (q \o r)[i] = r[i - Len(q)] BY <1>2
  <2> QED BY <2>1 DEF Before
<1> QED BY <1>1, <1>2

\* Both parts come after a third sequence.
LEMMA ConcatAfter ==
  ASSUME NEW q \in Seq(Messages), NEW r \in Seq(Messages), NEW t \in Seq(Messages), Before(t, q), Before(t, r)
  PROVE  Before(t, q \o r)
<1> SUFFICES ASSUME NEW i \in DOMAIN (q \o r), NEW j \in DOMAIN t PROVE t[j].message <= (q \o r)[i].message
  BY DEF Before
<1>1. CASE i <= Len(q) BY <1>1 DEF Before
<1>2. CASE i > Len(q)
  <2>1. i - Len(q) \in DOMAIN r /\ (q \o r)[i] = r[i - Len(q)] BY <1>2
  <2> QED BY <2>1 DEF Before
<1> QED BY <1>1, <1>2

\* The parts of a sequence in order are in order, and the first before the second.
LEMMA PartsInOrder ==
  ASSUME NEW q \in Seq(Messages), Sorted(q), NEW n \in 0..Len(q)
  PROVE  /\ Sorted(SubSeq(q, 1, n)) /\ Sorted(SubSeq(q, n + 1, Len(q)))
         /\ Before(SubSeq(q, 1, n), SubSeq(q, n + 1, Len(q)))
<1>1. /\ Len(SubSeq(q, 1, n)) = n /\ Len(SubSeq(q, n + 1, Len(q))) = Len(q) - n
      /\ \A i \in DOMAIN SubSeq(q, 1, n) : i \in DOMAIN q /\ i <= n /\ SubSeq(q, 1, n)[i] = q[i]
      /\ \A i \in DOMAIN SubSeq(q, n + 1, Len(q)) : i + n \in DOMAIN q /\ i > 0 /\ SubSeq(q, n + 1, Len(q))[i] = q[i + n]
  OBVIOUS
<1>2. Sorted(SubSeq(q, 1, n)) BY <1>1 DEF Sorted
<1>3. Sorted(SubSeq(q, n + 1, Len(q))) BY SMTT(30), <1>1 DEF Sorted
<1>4. Before(SubSeq(q, 1, n), SubSeq(q, n + 1, Len(q)))
  <2> SUFFICES ASSUME NEW i \in DOMAIN SubSeq(q, 1, n), NEW j \in DOMAIN SubSeq(q, n + 1, Len(q))
               PROVE  SubSeq(q, 1, n)[i].message <= SubSeq(q, n + 1, Len(q))[j].message
    BY DEF Before
  <2>1. i \in DOMAIN q /\ j + n \in DOMAIN q /\ i < j + n BY <1>1
  <2>2. SubSeq(q, 1, n)[i] = q[i] /\ SubSeq(q, n + 1, Len(q))[j] = q[j + n] BY <1>1
  <2> QED BY <2>1, <2>2 DEF Sorted
<1> QED BY <1>2, <1>3, <1>4

\* Every message of one sequence is one of the other.
From(p, q) == \A i \in DOMAIN p : \E j \in DOMAIN q : p[i] = q[j]

\* Two sequences end to end.
LEMMA ConcatLength ==
  ASSUME NEW q \in Seq(Messages), NEW r \in Seq(Messages) PROVE Len(q \o r) = Len(q) + Len(r)
OBVIOUS

\* What the parts of a sequence are.
LEMMA Parts ==
  ASSUME NEW q \in Seq(Messages), NEW n \in 0..Len(q)
  PROVE  /\ SubSeq(q, 1, n) \in Seq(Messages) /\ SubSeq(q, n + 1, Len(q)) \in Seq(Messages)
         /\ Len(SubSeq(q, 1, n)) = n /\ Len(SubSeq(q, n + 1, Len(q))) = Len(q) - n
         /\ From(SubSeq(q, 1, n), q) /\ From(SubSeq(q, n + 1, Len(q)), q)
<1>1. /\ Len(SubSeq(q, 1, n)) = n /\ Len(SubSeq(q, n + 1, Len(q))) = Len(q) - n
      /\ \A i \in DOMAIN SubSeq(q, 1, n) : i \in DOMAIN q /\ SubSeq(q, 1, n)[i] = q[i]
      /\ \A i \in DOMAIN SubSeq(q, n + 1, Len(q)) : i + n \in DOMAIN q /\ SubSeq(q, n + 1, Len(q))[i] = q[i + n]
  OBVIOUS
<1>2. SubSeq(q, 1, n) \in Seq(Messages) OBVIOUS
<1>3. SubSeq(q, n + 1, Len(q)) \in Seq(Messages) OBVIOUS
<1>4. From(SubSeq(q, 1, n), q) BY <1>1 DEF From
<1>5. From(SubSeq(q, n + 1, Len(q)), q) BY <1>1 DEF From
<1> QED BY <1>1, <1>2, <1>3, <1>4, <1>5

\* What is known of the messages of a sequence is known of those taken from it.
LEMMA FromKeeps ==
  ASSUME NEW p \in Seq(Messages), NEW q \in Seq(Messages), From(p, q), NEW t \in Seq(Messages), NEW n
  PROVE  /\ Before(t, q) => Before(t, p)
         /\ Before(q, t) => Before(p, t)
         /\ UpTo(q, n) => UpTo(p, n)
<1>1. Before(t, q) => Before(t, p) BY DEF From, Before
<1>2. Before(q, t) => Before(p, t) BY DEF From, Before
<1>3. UpTo(q, n) => UpTo(p, n) BY DEF From, UpTo
<1> QED BY <1>1, <1>2, <1>3

\* Taking the first message of a sequence in order.
LEMMA TailInOrder ==
  ASSUME NEW q \in Seq(Messages), q # <<>>
  PROVE  /\ Tail(q) \in Seq(Messages) /\ From(Tail(q), q) /\ <<Head(q)>> \in Seq(Messages) /\ From(<<Head(q)>>, q)
         /\ Sorted(q) => Sorted(Tail(q)) /\ Before(<<Head(q)>>, Tail(q))
         /\ Sorted(<<Head(q)>>) /\ Head(q) \in Messages
<1>1. /\ Tail(q) \in Seq(Messages) /\ \A i \in DOMAIN Tail(q) : i + 1 \in DOMAIN q /\ i > 0 /\ Tail(q)[i] = q[i + 1]
      /\ 1 \in DOMAIN q /\ Head(q) = q[1] /\ Head(q) \in Messages
  OBVIOUS
<1>2. From(Tail(q), q) BY <1>1 DEF From
<1>3. <<Head(q)>> \in Seq(Messages) /\ DOMAIN <<Head(q)>> = {1} /\ <<Head(q)>>[1] = Head(q) BY <1>1
<1>4. From(<<Head(q)>>, q) BY <1>1, <1>3 DEF From
<1>5. ASSUME Sorted(q) PROVE Sorted(Tail(q)) BY <1>1, <1>5 DEF Sorted
<1>6. ASSUME Sorted(q) PROVE Before(<<Head(q)>>, Tail(q))
  <2> SUFFICES ASSUME NEW j \in DOMAIN Tail(q) PROVE q[1].message <= q[j + 1].message
    BY <1>1, <1>3 DEF Before
  <2>1. 1 \in DOMAIN q /\ j + 1 \in DOMAIN q /\ 1 < j + 1 BY <1>1
  <2> QED BY <1>6, <2>1 DEF Sorted
<1>7. Sorted(<<Head(q)>>) BY <1>3 DEF Sorted
<1> QED BY <1>1, <1>2, <1>3, <1>4, <1>5, <1>6, <1>7

\* Messages that are published now come after all that were.
LEMMA NewMessages ==
  ASSUME NEW q \in Seq(Messages), NEW n \in Nat, UpTo(q, n), NEW h \in Seq(Messages), \A i \in DOMAIN h : h[i].message = n + 1
  PROVE  Sorted(h) /\ Before(q, h) /\ UpTo(h, n + 1) /\ UpTo(q, n + 1)
<1>1. Sorted(h) /\ UpTo(h, n + 1) BY DEF Sorted, UpTo
<1>2. \A i \in DOMAIN q : q[i].message \in Nat /\ q[i].message <= n
  <2>1. \A i \in DOMAIN q : q[i] \in Messages OBVIOUS
  <2>2. \A i \in DOMAIN q : q[i].message \in Nat BY <2>1 DEF Messages
  <2> QED BY <2>2 DEF UpTo
<1>3. Before(q, h)
  <2> SUFFICES ASSUME NEW i \in DOMAIN q, NEW j \in DOMAIN h PROVE q[i].message <= h[j].message
    BY DEF Before
  <2> QED BY <1>2
<1>4. UpTo(q, n + 1)
  <2> SUFFICES ASSUME NEW i \in DOMAIN q PROVE q[i].message <= n + 1
    BY DEF UpTo
  <2> QED BY <1>2
<1> QED BY <1>1, <1>3, <1>4
-----------------------------------------------------------------------------
(* Streams: the steps *)

\* The types of a stream's fields.
LEMMA Fields ==
  ASSUME NEW e \in Streams
  PROVE  /\ e.open \in BOOLEAN /\ e.task \in {"running", "ended"} /\ e.capacity \in EventCapacities
         /\ e.commands \in Seq(Controls) /\ e.subscribed \in SUBSET Topics /\ e.wanted \in SUBSET Topics
         /\ e.incoming \in Seq(Messages) /\ e.channel \in Seq(Messages) /\ e.dropped \in Nat
         /\ e.received \in Seq(Messages) /\ e.got \in Seq(Messages) /\ e.reported \in Nat
BY DEF Streams

\* One stream changes, to one that is in order.
LEMMA ChangeKeeps ==
  ASSUME PubSubInv, NEW s \in DOMAIN events, NEW e, StreamOK(e, published), NEW enabled, Changes(s, enabled, e)
  PROVE  PubSubInv'
<1>1. events' = [events EXCEPT ![s] = e] /\ published' = published BY DEF Changes
<1>2. e \in Streams /\ events \in Seq(Streams) BY DEF StreamOK, PubSubInv
<1>3. events' \in Seq(Streams) /\ DOMAIN events' = DOMAIN events BY <1>1, <1>2
<1>4. \A i \in DOMAIN events' : events'[i] = e \/ events'[i] = events[i] BY <1>1, <1>2
<1>5. \A i \in DOMAIN events' : StreamOK(events'[i], published) BY <1>3, <1>4 DEF PubSubInv
<1> QED BY <1>1, <1>3, <1>5 DEF PubSubInv

\* Applying a control.
LEMMA AppliedTopics ==
  ASSUME NEW T \in SUBSET Topics, NEW c \in Controls
  PROVE  /\ Applied(T, c) \in SUBSET Topics
         /\ \A topic : topic \in Applied(T, c) <=> IF topic = c.topic THEN c.on ELSE topic \in T
<1>1. c.on \in BOOLEAN /\ c.topic \in Topics BY DEF Controls
<1> QED BY <1>1 DEF Applied

\* A control at the end of the queue decides on its topic.
LEMMA EndsOnAppend ==
  ASSUME NEW commands \in Seq(Controls), NEW c \in Controls, NEW subscribed, NEW topic
  PROVE  EndsOn(Append(commands, c), subscribed, topic) <=> IF topic = c.topic THEN c.on ELSE EndsOn(commands, subscribed, topic)
<1> DEFINE q == Append(commands, c)
           L == Len(commands)
<1>1. /\ L \in Nat /\ DOMAIN commands = 1..L /\ DOMAIN q = 1..(L + 1) /\ q[L + 1] = c
      /\ \A i \in 1..L : q[i] = commands[i]
  OBVIOUS
<1> HIDE DEF q, L
<1>2. CASE topic = c.topic
  <2>1. ASSUME c.on PROVE EndsOn(q, subscribed, topic)
    <3>1. L + 1 \in DOMAIN q /\ q[L + 1].on /\ q[L + 1].topic = topic /\ \A j \in DOMAIN q : ~(j > L + 1) BY <1>1, <1>2, <2>1
    <3> QED BY <3>1 DEF EndsOn
  <2>2. ASSUME EndsOn(q, subscribed, topic) PROVE c.on
    <3>1. L + 1 \in DOMAIN q /\ q[L + 1].topic = topic BY <1>1, <1>2
    <3>2. PICK i \in DOMAIN q : q[i].on /\ \A j \in DOMAIN q : j > i => q[j].topic # topic BY <2>2, <3>1 DEF EndsOn
    <3>3. ~(L + 1 > i) BY <3>1, <3>2
    <3>4. i = L + 1 BY <1>1, <3>3
    <3> QED BY <1>1, <3>2, <3>4
  <2> QED BY <1>2, <2>1, <2>2 DEF q
<1>3. CASE topic # c.topic
  <2>1. ASSUME EndsOn(q, subscribed, topic) PROVE EndsOn(commands, subscribed, topic)
    <3>1. CASE \E i \in DOMAIN q : q[i].on /\ q[i].topic = topic /\ \A j \in DOMAIN q : j > i => q[j].topic # topic
      <4>1. PICK i \in DOMAIN q : q[i].on /\ q[i].topic = topic /\ \A j \in DOMAIN q : j > i => q[j].topic # topic BY <3>1
      <4>2. i # L + 1 BY <1>1, <1>3, <4>1
      <4>3. i \in 1..L BY <1>1, <4>2
      <4>4. \A j \in 1..L : j > i => commands[j].topic # topic BY <1>1, <4>1
      <4> QED BY <1>1, <4>1, <4>3, <4>4 DEF EndsOn
    <3>2. CASE topic \in subscribed /\ \A i \in DOMAIN q : q[i].topic # topic
      <4>1. \A i \in 1..L : commands[i].topic # topic BY <1>1, <3>2
      <4> QED BY <1>1, <3>2, <4>1 DEF EndsOn
    <3> QED BY <2>1, <3>1, <3>2 DEF EndsOn
  <2>2. ASSUME EndsOn(commands, subscribed, topic) PROVE EndsOn(q, subscribed, topic)
    <3>1. CASE \E i \in 1..L : commands[i].on /\ commands[i].topic = topic /\ \A j \in 1..L : j > i => commands[j].topic # topic
      <4>1. PICK i \in 1..L : commands[i].on /\ commands[i].topic = topic /\ \A j \in 1..L : j > i => commands[j].topic # topic BY <3>1
      <4>2. i \in DOMAIN q /\ q[i].on /\ q[i].topic = topic BY <1>1, <4>1
      <4>3. \A j \in DOMAIN q : j > i => q[j].topic # topic BY <1>1, <1>3, <4>1
      <4> QED BY <4>2, <4>3 DEF EndsOn
    <3>2. CASE topic \in subscribed /\ \A i \in 1..L : commands[i].topic # topic
      <4>1. \A i \in DOMAIN q : q[i].topic # topic BY <1>1, <1>3, <3>2
      <4> QED BY <3>2, <4>1 DEF EndsOn
    <3> QED BY <1>1, <2>2, <3>1, <3>2 DEF EndsOn
  <2> QED BY <1>3, <2>1, <2>2 DEF q
<1> QED BY <1>2, <1>3

\* The first control of the queue is a subscription once it is taken.
LEMMA EndsOnTail ==
  ASSUME NEW commands \in Seq(Controls), commands # <<>>, NEW subscribed \in SUBSET Topics, NEW topic
  PROVE  EndsOn(Tail(commands), Applied(subscribed, Head(commands)), topic) <=> EndsOn(commands, subscribed, topic)
<1> DEFINE q == Tail(commands)
           L == Len(q)
           c == Head(commands)
           after == Applied(subscribed, c)
<1>1. /\ L \in Nat /\ DOMAIN q = 1..L /\ DOMAIN commands = 1..(L + 1) /\ commands[1] = c /\ c \in Controls
      /\ \A i \in 1..L : q[i] = commands[i + 1]
  OBVIOUS
<1>2. topic \in after <=> IF topic = c.topic THEN c.on ELSE topic \in subscribed BY <1>1, AppliedTopics
<1>3. \A i \in DOMAIN commands : i # 1 => i - 1 \in 1..L /\ commands[i] = q[i - 1] BY <1>1
<1> HIDE DEF q, L, c, after
<1>4. ASSUME EndsOn(q, after, topic) PROVE EndsOn(commands, subscribed, topic)
  <2>1. CASE \E i \in 1..L : q[i].on /\ q[i].topic = topic /\ \A j \in 1..L : j > i => q[j].topic # topic
    <3>1. PICK i \in 1..L : q[i].on /\ q[i].topic = topic /\ \A j \in 1..L : j > i => q[j].topic # topic BY <2>1
    <3>2. i + 1 \in DOMAIN commands /\ commands[i + 1].on /\ commands[i + 1].topic = topic BY <1>1, <3>1
    <3>3. ASSUME NEW j \in DOMAIN commands, j > i + 1 PROVE commands[j].topic # topic
      <4>1. j # 1 /\ j - 1 > i BY <1>1, <3>3
      <4> QED BY <1>3, <3>1, <4>1
    <3> QED BY <3>2, <3>3 DEF EndsOn
  <2>2. CASE topic \in after /\ \A i \in 1..L : q[i].topic # topic
    <3>1. \A j \in DOMAIN commands : j > 1 => commands[j].topic # topic BY <1>1, <1>3, <2>2
    <3>2. CASE topic = c.topic
      <4>1. 1 \in DOMAIN commands /\ commands[1].on /\ commands[1].topic = topic BY <1>1, <1>2, <2>2, <3>2
      <4> QED BY <3>1, <4>1 DEF EndsOn
    <3>3. CASE topic # c.topic
      <4>1. topic \in subscribed BY <1>2, <2>2, <3>3
      <4>2. \A j \in DOMAIN commands : commands[j].topic # topic BY <1>1, <3>1, <3>3
      <4> QED BY <4>1, <4>2 DEF EndsOn
    <3> QED BY <3>2, <3>3
  <2> QED BY <1>1, <1>4, <2>1, <2>2 DEF EndsOn
<1>5. ASSUME EndsOn(commands, subscribed, topic) PROVE EndsOn(q, after, topic)
  <2>1. CASE \E i \in DOMAIN commands : commands[i].on /\ commands[i].topic = topic
                                        /\ \A j \in DOMAIN commands : j > i => commands[j].topic # topic
    <3>1. PICK i \in DOMAIN commands : commands[i].on /\ commands[i].topic = topic
                                        /\ \A j \in DOMAIN commands : j > i => commands[j].topic # topic
      BY <2>1
    <3>2. \A j \in 1..L : j + 1 > i => q[j].topic # topic BY <1>1, <3>1
    <3>3. CASE i = 1
      <4>1. topic \in after BY <1>1, <1>2, <3>1, <3>3
      <4>2. \A j \in DOMAIN q : q[j].topic # topic BY <1>1, <3>2, <3>3
      <4> QED BY <4>1, <4>2 DEF EndsOn
    <3>4. CASE i # 1
      <4>1. i - 1 \in DOMAIN q /\ q[i - 1].on /\ q[i - 1].topic = topic BY <1>1, <1>3, <3>1, <3>4
      <4>2. \A j \in DOMAIN q : j > i - 1 => q[j].topic # topic BY <1>1, <3>2
      <4> QED BY <4>1, <4>2 DEF EndsOn
    <3> QED BY <3>3, <3>4
  <2>2. CASE topic \in subscribed /\ \A i \in DOMAIN commands : commands[i].topic # topic
    <3>1. topic # c.topic /\ \A j \in DOMAIN q : q[j].topic # topic BY <1>1, <2>2
    <3>2. topic \in after BY <1>2, <2>2, <3>1
    <3> QED BY <3>1, <3>2 DEF EndsOn
  <2> QED BY <1>5, <2>1, <2>2 DEF EndsOn
<1> QED BY <1>4, <1>5 DEF q, c, after

\* A stream that is opened has nothing yet.
LEMMA NewEventOK == ASSUME NEW capacity \in EventCapacities, NEW n PROVE StreamOK(NewEvent(capacity), n)
<1> DEFINE e == NewEvent(capacity)
<1>1. /\ e.open = TRUE /\ e.task = "running" /\ e.capacity = capacity /\ e.commands = <<>> /\ e.subscribed = {}
      /\ e.wanted = {} /\ e.incoming = <<>> /\ e.channel = <<>> /\ e.dropped = 0 /\ e.received = <<>> /\ e.got = <<>>
      /\ e.reported = 0
  BY DEF NewEvent
<1>2. e \in Streams
  <2>1. TRUE \in BOOLEAN /\ "running" \in {"running", "ended"} /\ {} \in SUBSET Topics /\ <<>> \in Seq(Controls) /\ <<>> \in Seq(Messages)
    OBVIOUS
  <2> QED BY <2>1 DEF NewEvent, Streams
<1>3. InOrder(e, n) BY <1>1 DEF InOrder, Sorted, Before, UpTo
<1>4. PubSubAccounted(e) BY <1>1, RedisAssumption DEF PubSubAccounted
<1>5. Follows(e) /\ Stops(e) BY <1>1 DEF Follows, Stops, EndsOn
<1> QED BY <1>2, <1>3, <1>4, <1>5 DEF StreamOK

\* A control joins the queue: its topic is wanted as it says.
LEMMA ControlledOK ==
  ASSUME NEW n, NEW e, StreamOK(e, n), e.open, NEW c \in Controls PROVE StreamOK(Controlled(e, c), n)
<1> DEFINE f == Controlled(e, c)
<1>1. e \in Streams BY DEF StreamOK
<1>2. /\ f.open = e.open /\ f.task = e.task /\ f.capacity = e.capacity /\ f.commands = Append(e.commands, c)
      /\ f.subscribed = e.subscribed /\ f.wanted = Applied(e.wanted, c) /\ f.incoming = e.incoming
      /\ f.channel = e.channel /\ f.dropped = e.dropped /\ f.received = e.received /\ f.got = e.got /\ f.reported = e.reported
  BY <1>1 DEF Controlled, Streams
<1>3. Applied(e.wanted, c) \in SUBSET Topics BY <1>1, Fields, AppliedTopics
<1>4. Append(e.commands, c) \in Seq(Controls) BY <1>1, Fields
<1>5. f \in Streams BY <1>1, <1>3, <1>4 DEF Controlled, Streams
<1>6. Follows(f)
  <2> SUFFICES ASSUME e.task = "running", NEW topic \in Topics
               PROVE  topic \in Applied(e.wanted, c) <=> EndsOn(Append(e.commands, c), e.subscribed, topic)
    BY <1>2 DEF Follows
  <2>1. topic \in e.wanted <=> EndsOn(e.commands, e.subscribed, topic) BY DEF StreamOK, Follows
  <2>2. e.wanted \in SUBSET Topics /\ e.commands \in Seq(Controls) BY <1>1, Fields
  <2>3. topic \in Applied(e.wanted, c) <=> IF topic = c.topic THEN c.on ELSE topic \in e.wanted BY <2>2, AppliedTopics
  <2>4. EndsOn(Append(e.commands, c), e.subscribed, topic) <=> IF topic = c.topic THEN c.on ELSE EndsOn(e.commands, e.subscribed, topic)
    BY <2>2, EndsOnAppend
  <2> QED BY <2>1, <2>3, <2>4
<1>7. InOrder(f, n) /\ PubSubAccounted(f) /\ Stops(f) BY <1>2 DEF StreamOK, InOrder, PubSubAccounted, Stops
<1> QED BY <1>5, <1>6, <1>7 DEF StreamOK

\* The task takes the first control.
LEMMA TookOK ==
  ASSUME NEW n, NEW e, StreamOK(e, n), e.task = "running", e.commands # <<>> PROVE StreamOK(Took(e), n)
<1> DEFINE f == Took(e)
           after == Applied(e.subscribed, Head(e.commands))
<1>1. e \in Streams BY DEF StreamOK
<1>2. /\ f.open = e.open /\ f.task = e.task /\ f.capacity = e.capacity /\ f.commands = Tail(e.commands)
      /\ f.subscribed = after /\ f.wanted = e.wanted /\ f.incoming = e.incoming
      /\ f.channel = e.channel /\ f.dropped = e.dropped /\ f.received = e.received /\ f.got = e.got /\ f.reported = e.reported
  BY <1>1 DEF Took, Streams
<1>3. e.commands \in Seq(Controls) /\ e.subscribed \in SUBSET Topics BY <1>1, Fields
<1>4. Tail(e.commands) \in Seq(Controls) /\ Head(e.commands) \in Controls BY <1>3
<1>5. after \in SUBSET Topics BY <1>3, <1>4, AppliedTopics
<1>6. f \in Streams BY <1>1, <1>4, <1>5 DEF Took, Streams
<1>7. Follows(f)
  <2> SUFFICES ASSUME NEW topic \in Topics PROVE topic \in e.wanted <=> EndsOn(Tail(e.commands), after, topic)
    BY <1>2 DEF Follows
  <2>1. topic \in e.wanted <=> EndsOn(e.commands, e.subscribed, topic) BY DEF StreamOK, Follows
  <2> QED BY <1>3, <2>1, EndsOnTail
<1>8. InOrder(f, n) /\ PubSubAccounted(f) /\ Stops(f) BY <1>2 DEF StreamOK, InOrder, PubSubAccounted, Stops
<1> QED BY <1>6, <1>7, <1>8 DEF StreamOK

\* A stream whose task has ended: nothing is subscribed, and what had been read or
\* could be read stays as it is.
LEMMA EndedOK ==
  ASSUME NEW n, NEW e, StreamOK(e, n), NEW f \in Streams, f.task = "ended", f.subscribed = {}, f.capacity = e.capacity,
         f.incoming \in {e.incoming, <<>>}, f.channel = e.channel, f.dropped = e.dropped, f.received = e.received,
         f.got = e.got, f.reported = e.reported
  PROVE  StreamOK(f, n)
<1>1. InOrder(f, n)
  <2>1. InOrder(e, n) BY DEF StreamOK
  <2>2. CASE f.incoming = e.incoming BY <2>1, <2>2 DEF InOrder
  <2>3. CASE f.incoming = <<>>
    <3>1. Sorted(f.incoming) /\ Before(f.got, f.incoming) /\ Before(f.channel, f.incoming) /\ UpTo(f.incoming, n)
      BY <2>3 DEF Sorted, Before, UpTo
    <3> QED BY <2>1, <3>1 DEF InOrder
  <2> QED BY <2>2, <2>3
<1>2. PubSubAccounted(f) BY DEF StreamOK, PubSubAccounted
<1>3. Follows(f) /\ Stops(f) BY DEF Follows, Stops
<1> QED BY <1>1, <1>2, <1>3 DEF StreamOK

\* A control that fails ends the task.
LEMMA FailedOK == ASSUME NEW n, NEW e, StreamOK(e, n), e.commands # <<>> PROVE StreamOK(Failed(e), n)
<1>1. e \in Streams BY DEF StreamOK
<1>2. Tail(e.commands) \in Seq(Controls) /\ <<>> \in Seq(Messages) /\ {} \in SUBSET Topics /\ "ended" \in {"running", "ended"}
  BY <1>1, Fields
<1>3. Failed(e) \in Streams BY <1>1, <1>2 DEF Failed, Streams
<1>4. /\ Failed(e).task = "ended" /\ Failed(e).subscribed = {} /\ Failed(e).capacity = e.capacity /\ Failed(e).incoming = <<>>
      /\ Failed(e).channel = e.channel /\ Failed(e).dropped = e.dropped /\ Failed(e).received = e.received
      /\ Failed(e).got = e.got /\ Failed(e).reported = e.reported
  BY <1>1 DEF Failed, Streams
<1> QED BY <1>3, <1>4, EndedOK

\* The connection is lost.
LEMMA LostOK == ASSUME NEW n, NEW e, StreamOK(e, n) PROVE StreamOK(Lost(e), n)
<1>1. e \in Streams BY DEF StreamOK
<1>2. {} \in SUBSET Topics /\ "ended" \in {"running", "ended"} OBVIOUS
<1>3. Lost(e) \in Streams BY <1>1, <1>2 DEF Lost, Streams
<1>4. /\ Lost(e).task = "ended" /\ Lost(e).subscribed = {} /\ Lost(e).capacity = e.capacity /\ Lost(e).incoming = e.incoming
      /\ Lost(e).channel = e.channel /\ Lost(e).dropped = e.dropped /\ Lost(e).received = e.received
      /\ Lost(e).got = e.got /\ Lost(e).reported = e.reported
  BY <1>1 DEF Lost, Streams
<1> QED BY <1>3, <1>4, EndedOK

\* The stream is closed.
LEMMA AbortedOK == ASSUME NEW n, NEW e, StreamOK(e, n) PROVE StreamOK(Aborted(e), n)
<1>1. e \in Streams BY DEF StreamOK
<1>2. {} \in SUBSET Topics /\ <<>> \in Seq(Messages) /\ "ended" \in {"running", "ended"} /\ FALSE \in BOOLEAN OBVIOUS
<1>3. Aborted(e) \in Streams BY <1>1, <1>2 DEF Aborted, Streams
<1>4. /\ Aborted(e).task = "ended" /\ Aborted(e).subscribed = {} /\ Aborted(e).capacity = e.capacity /\ Aborted(e).incoming = <<>>
      /\ Aborted(e).channel = e.channel /\ Aborted(e).dropped = e.dropped /\ Aborted(e).received = e.received
      /\ Aborted(e).got = e.got /\ Aborted(e).reported = e.reported
  BY <1>1 DEF Aborted, Streams
<1> QED BY <1>3, <1>4, EndedOK

\* A step that leaves the controls and the subscriptions alone.
LEMMA ControlsAlone ==
  ASSUME NEW n, NEW e, StreamOK(e, n), NEW f \in Streams, f.open = e.open, f.task = e.task, f.commands = e.commands,
         f.subscribed = e.subscribed, f.wanted = e.wanted, InOrder(f, n), PubSubAccounted(f)
  PROVE  StreamOK(f, n)
BY DEF StreamOK, Follows, Stops

\* A message more on either side of the account.
LEMMA OneMore ==
  ASSUME NEW r \in Nat, NEW g \in Nat, NEW c \in Nat, NEW d \in Nat, NEW p \in Nat, r = g + c + d + p
  PROVE  r + 1 = g + c + (d + 1) + p /\ r + 1 = g + (c + 1) + d + p
OBVIOUS

\* A capacity is a number.
LEMMA CapacityIsNat == ASSUME NEW capacity \in EventCapacities PROVE capacity \in Nat
BY RedisAssumption

\* A message that does not fit is counted as lost.
LEMMA OverflowedOK ==
  ASSUME NEW n, NEW e, StreamOK(e, n), e.incoming # <<>> PROVE StreamOK(Overflowed(e), n)
<1> DEFINE f == Overflowed(e)
           m == Head(e.incoming)
<1>1. e \in Streams /\ InOrder(e, n) /\ PubSubAccounted(e) BY DEF StreamOK
<1>2. e.incoming \in Seq(Messages) /\ e.received \in Seq(Messages) /\ e.channel \in Seq(Messages) /\ e.got \in Seq(Messages)
      /\ e.dropped \in Nat /\ e.reported \in Nat
  BY <1>1, Fields
<1>3. Tail(e.incoming) \in Seq(Messages) /\ From(Tail(e.incoming), e.incoming) /\ Sorted(Tail(e.incoming)) /\ m \in Messages
  BY <1>1, <1>2, TailInOrder DEF InOrder
<1>4. Append(e.received, m) \in Seq(Messages) /\ Len(Append(e.received, m)) = Len(e.received) + 1 /\ e.dropped + 1 \in Nat
  BY <1>2, <1>3
<1>5. f \in Streams BY <1>1, <1>3, <1>4 DEF Overflowed, Streams
<1>6. /\ f.open = e.open /\ f.task = e.task /\ f.capacity = e.capacity /\ f.commands = e.commands /\ f.subscribed = e.subscribed
      /\ f.wanted = e.wanted /\ f.incoming = Tail(e.incoming) /\ f.channel = e.channel /\ f.dropped = e.dropped + 1
      /\ f.received = Append(e.received, m) /\ f.got = e.got /\ f.reported = e.reported
  BY <1>1 DEF Overflowed, Streams
<1>7. InOrder(f, n)
  <2>1. Before(e.got, Tail(e.incoming)) /\ Before(e.channel, Tail(e.incoming)) /\ UpTo(Tail(e.incoming), n)
    BY <1>1, <1>2, <1>3, FromKeeps DEF InOrder
  <2> QED BY <1>1, <1>3, <1>6, <2>1 DEF InOrder
<1>8. PubSubAccounted(f)
  <2>1. Len(e.received) \in Nat /\ Len(e.got) \in Nat /\ Len(e.channel) \in Nat BY <1>2
  <2>2. Len(e.received) + 1 = Len(e.got) + Len(e.channel) + (e.dropped + 1) + e.reported
    <3>1. Len(e.received) = Len(e.got) + Len(e.channel) + e.dropped + e.reported BY <1>1 DEF PubSubAccounted
    <3>2. PICK r, g, c \in Nat : r = Len(e.received) /\ g = Len(e.got) /\ c = Len(e.channel) BY <2>1
    <3>3. PICK d, p \in Nat : d = e.dropped /\ p = e.reported BY <1>2
    <3>4. r = g + c + d + p BY <3>1, <3>2, <3>3
    <3>5. r + 1 = g + c + (d + 1) + p /\ r + 1 = g + (c + 1) + d + p BY <3>4, OneMore
    <3> QED BY <3>2, <3>3, <3>5
  <2> QED BY <1>1, <1>4, <1>6, <2>2 DEF PubSubAccounted
<1> QED BY <1>5, <1>6, <1>7, <1>8, ControlsAlone

\* A message that fits waits behind the ones before it.
LEMMA ForwardedOK ==
  ASSUME NEW n, NEW e, StreamOK(e, n), e.incoming # <<>>, ~(Len(e.channel) >= e.capacity) PROVE StreamOK(Forwarded(e), n)
<1> DEFINE f == Forwarded(e)
           m == Head(e.incoming)
<1>1. e \in Streams /\ InOrder(e, n) /\ PubSubAccounted(e) BY DEF StreamOK
<1>2. e.incoming \in Seq(Messages) /\ e.received \in Seq(Messages) /\ e.channel \in Seq(Messages) /\ e.got \in Seq(Messages)
      /\ e.dropped \in Nat /\ e.reported \in Nat /\ e.capacity \in EventCapacities
  BY <1>1, Fields
<1>3. /\ Tail(e.incoming) \in Seq(Messages) /\ From(Tail(e.incoming), e.incoming) /\ Sorted(Tail(e.incoming)) /\ m \in Messages
      /\ <<m>> \in Seq(Messages) /\ From(<<m>>, e.incoming) /\ Before(<<m>>, Tail(e.incoming)) /\ Sorted(<<m>>)
  BY <1>1, <1>2, TailInOrder DEF InOrder
<1>4. /\ Append(e.received, m) \in Seq(Messages) /\ Len(Append(e.received, m)) = Len(e.received) + 1
      /\ Append(e.channel, m) = e.channel \o <<m>> /\ e.channel \o <<m>> \in Seq(Messages)
      /\ Len(e.channel \o <<m>>) = Len(e.channel) + 1
  BY <1>2, <1>3
<1>5. f \in Streams BY <1>1, <1>3, <1>4 DEF Forwarded, Streams
<1>6. /\ f.open = e.open /\ f.task = e.task /\ f.capacity = e.capacity /\ f.commands = e.commands /\ f.subscribed = e.subscribed
      /\ f.wanted = e.wanted /\ f.incoming = Tail(e.incoming) /\ f.channel = e.channel \o <<m>> /\ f.dropped = e.dropped
      /\ f.received = Append(e.received, m) /\ f.got = e.got /\ f.reported = e.reported
  BY <1>1, <1>4 DEF Forwarded, Streams
<1>7. InOrder(f, n)
  <2>1. Before(e.got, Tail(e.incoming)) /\ Before(e.channel, Tail(e.incoming)) /\ UpTo(Tail(e.incoming), n)
    BY <1>1, <1>2, <1>3, FromKeeps DEF InOrder
  <2>2. Before(e.got, <<m>>) /\ Before(e.channel, <<m>>) /\ UpTo(<<m>>, n)
    BY <1>1, <1>2, <1>3, FromKeeps DEF InOrder
  <2>3. Sorted(e.channel \o <<m>>) BY <1>1, <1>2, <1>3, <2>2, SortedConcat DEF InOrder
  <2>4. Before(e.got, e.channel \o <<m>>) BY <1>1, <1>2, <1>3, <2>2, ConcatAfter DEF InOrder
  <2>5. Before(e.channel \o <<m>>, Tail(e.incoming)) BY <1>2, <1>3, <2>1, BeforeConcat
  <2>6. UpTo(e.channel \o <<m>>, n) BY <1>1, <1>2, <1>3, <2>2, UpToConcat DEF InOrder
  <2> QED BY <1>1, <1>3, <1>6, <2>1, <2>3, <2>4, <2>5, <2>6 DEF InOrder
<1>8. PubSubAccounted(f)
  <2>1. Len(e.received) \in Nat /\ Len(e.got) \in Nat /\ Len(e.channel) \in Nat /\ e.capacity \in Nat BY <1>2, CapacityIsNat
  <2>2. Len(e.received) + 1 = Len(e.got) + (Len(e.channel) + 1) + e.dropped + e.reported
    <3>1. Len(e.received) = Len(e.got) + Len(e.channel) + e.dropped + e.reported BY <1>1 DEF PubSubAccounted
    <3>2. PICK r, g, c \in Nat : r = Len(e.received) /\ g = Len(e.got) /\ c = Len(e.channel) BY <2>1
    <3>3. PICK d, p \in Nat : d = e.dropped /\ p = e.reported BY <1>2
    <3>4. r = g + c + d + p BY <3>1, <3>2, <3>3
    <3>5. r + 1 = g + c + (d + 1) + p /\ r + 1 = g + (c + 1) + d + p BY <3>4, OneMore
    <3> QED BY <3>2, <3>3, <3>5
  <2>3. Len(e.channel) + 1 <= e.capacity BY <2>1
  <2> QED BY <1>4, <1>6, <2>2, <2>3 DEF PubSubAccounted
<1> QED BY <1>5, <1>6, <1>7, <1>8, ControlsAlone

\* A read takes a first part of what waits, and the count.
LEMMA ReadOK ==
  ASSUME NEW n, NEW e, StreamOK(e, n), NEW k \in 0..Len(e.channel) PROVE StreamOK(Read(e, k), n)
<1> DEFINE f == Read(e, k)
           taken == SubSeq(e.channel, 1, k)
           left == SubSeq(e.channel, k + 1, Len(e.channel))
<1>1. e \in Streams /\ InOrder(e, n) /\ PubSubAccounted(e) BY DEF StreamOK
<1>2. e.incoming \in Seq(Messages) /\ e.received \in Seq(Messages) /\ e.channel \in Seq(Messages) /\ e.got \in Seq(Messages)
      /\ e.dropped \in Nat /\ e.reported \in Nat /\ e.capacity \in Nat
  BY <1>1, Fields, CapacityIsNat
<1>3. taken \in Seq(Messages) /\ Len(taken) = k /\ left \in Seq(Messages) /\ Len(left) = Len(e.channel) - k
  BY <1>2, Parts
<1>4. From(taken, e.channel) /\ From(left, e.channel) BY <1>2, Parts
<1>5. Sorted(taken) /\ Sorted(left) /\ Before(taken, left) BY <1>1, <1>2, PartsInOrder DEF InOrder
<1> HIDE DEF taken, left
<1>6. e.got \o taken \in Seq(Messages) /\ Len(e.got \o taken) = Len(e.got) + k /\ e.reported + e.dropped \in Nat /\ 0 \in Nat
  <2>1. e.got \o taken \in Seq(Messages) BY <1>2, <1>3
  <2>2. Len(e.got \o taken) = Len(e.got) + Len(taken) BY <1>2, <1>3, ConcatLength
  <2>3. e.reported + e.dropped \in Nat /\ 0 \in Nat BY <1>2
  <2> QED BY <1>3, <2>1, <2>2, <2>3
<1>7. f = [e EXCEPT !.got = e.got \o taken, !.channel = left, !.reported = e.reported + e.dropped, !.dropped = 0]
  BY DEF Read, taken, left
<1>8. f \in Streams BY <1>1, <1>3, <1>6, <1>7 DEF Streams
<1>9. /\ f.open = e.open /\ f.task = e.task /\ f.capacity = e.capacity /\ f.commands = e.commands /\ f.subscribed = e.subscribed
      /\ f.wanted = e.wanted /\ f.incoming = e.incoming /\ f.channel = left /\ f.dropped = 0
      /\ f.received = e.received /\ f.got = e.got \o taken /\ f.reported = e.reported + e.dropped
  BY <1>1, <1>7 DEF Streams
<1> HIDE DEF f
<1>10. InOrder(f, n)
  <2>1. Before(e.got, taken) /\ Before(taken, e.incoming) /\ UpTo(taken, n) BY <1>1, <1>2, <1>3, <1>4, FromKeeps DEF InOrder
  <2>2. Before(e.got, left) /\ Before(left, e.incoming) /\ UpTo(left, n) BY <1>1, <1>2, <1>3, <1>4, FromKeeps DEF InOrder
  <2>3. Sorted(e.got \o taken) BY <1>1, <1>2, <1>3, <1>5, <2>1, SortedConcat DEF InOrder
  <2>4. Before(e.got \o taken, left) BY <1>2, <1>3, <1>5, <2>2, BeforeConcat
  <2>5. Before(e.got \o taken, e.incoming) BY <1>1, <1>2, <1>3, <2>1, BeforeConcat DEF InOrder
  <2>6. UpTo(e.got \o taken, n) BY <1>1, <1>2, <1>3, <2>1, UpToConcat DEF InOrder
  <2> QED BY <1>1, <1>5, <1>9, <2>2, <2>3, <2>4, <2>5, <2>6 DEF InOrder
<1>11. PubSubAccounted(f)
  <2>1. Len(e.received) = Len(e.got) + Len(e.channel) + e.dropped + e.reported /\ Len(e.channel) <= e.capacity BY <1>1 DEF PubSubAccounted
  <2>2. Len(e.received) \in Nat /\ Len(e.got) \in Nat /\ Len(e.channel) \in Nat BY <1>2
  <2>3. PICK r, g, c \in Nat : r = Len(e.received) /\ g = Len(e.got) /\ c = Len(e.channel) BY <2>2
  <2>4. PICK d, p \in Nat : d = e.dropped /\ p = e.reported BY <1>2
  <2>5. r = (g + k) + (c - k) + 0 + (p + d)
    <3>1. r = g + c + d + p BY <2>1, <2>3, <2>4
    <3>2. k \in 0..c BY <2>3
    <3> QED BY <3>1, <3>2
  <2>6. c - k <= e.capacity
    <3>1. c <= e.capacity /\ k \in 0..c BY <2>1, <2>3
    <3> QED BY <1>2, <3>1
  <2> QED BY <1>3, <1>6, <1>9, <2>3, <2>4, <2>5, <2>6 DEF PubSubAccounted
<1>12. StreamOK(f, n) BY <1>8, <1>9, <1>10, <1>11, ControlsAlone
<1> QED BY <1>12 DEF f

\* What is published arrives behind what was.
LEMMA ArrivedOK ==
  ASSUME NEW n \in Nat, NEW e, StreamOK(e, n), NEW channel \in Channels PROVE StreamOK(Arrived(e, channel, n + 1), n + 1)
<1> DEFINE f == Arrived(e, channel, n + 1)
           h1 == Hits(e, <<channel, FALSE>>, n + 1)
           h2 == Hits(e, <<channel, TRUE>>, n + 1)
           h == h1 \o h2
<1>1. e \in Streams /\ InOrder(e, n) /\ PubSubAccounted(e) BY DEF StreamOK
<1>2. e.incoming \in Seq(Messages) /\ e.channel \in Seq(Messages) /\ e.got \in Seq(Messages) BY <1>1, Fields
<1>3. ASSUME NEW topic \in Topics
      PROVE  Hits(e, topic, n + 1) \in Seq(Messages) /\ \A i \in DOMAIN Hits(e, topic, n + 1) : Hits(e, topic, n + 1)[i].message = n + 1
  <2>1. [message |-> n + 1, topic |-> topic] \in Messages BY <1>3 DEF Messages
  <2> QED BY <2>1 DEF Hits
<1>4. <<channel, FALSE>> \in Topics /\ <<channel, TRUE>> \in Topics BY DEF Topics
<1>5. /\ h1 \in Seq(Messages) /\ h2 \in Seq(Messages)
      /\ \A i \in DOMAIN h1 : h1[i].message = n + 1
      /\ \A i \in DOMAIN h2 : h2[i].message = n + 1
  BY <1>3, <1>4
<1> HIDE DEF h1, h2
<1>6. h \in Seq(Messages) /\ \A i \in DOMAIN h : h[i].message = n + 1
  <2>1. h \in Seq(Messages) BY <1>5
  <2>2. ASSUME NEW i \in DOMAIN h PROVE h[i].message = n + 1
    <3>1. CASE i <= Len(h1) BY <1>5, <3>1
    <3>2. CASE i > Len(h1)
      <4>1. i - Len(h1) \in DOMAIN h2 /\ h[i] = h2[i - Len(h1)] BY <1>5, <3>2
      <4> QED BY <1>5, <4>1
    <3> QED BY <1>5, <3>1, <3>2
  <2> QED BY <2>1, <2>2
<1>7. f = [e EXCEPT !.incoming = e.incoming \o h]
  BY DEF Arrived, h1, h2
<1> HIDE DEF h
<1>8. e.incoming \o h \in Seq(Messages) BY <1>2, <1>6
<1>9. f \in Streams BY <1>1, <1>7, <1>8 DEF Streams
<1>10. /\ f.open = e.open /\ f.task = e.task /\ f.capacity = e.capacity /\ f.commands = e.commands /\ f.subscribed = e.subscribed
       /\ f.wanted = e.wanted /\ f.incoming = e.incoming \o h /\ f.channel = e.channel /\ f.dropped = e.dropped
       /\ f.received = e.received /\ f.got = e.got /\ f.reported = e.reported
  BY <1>1, <1>7 DEF Streams
<1> HIDE DEF f
<1>11. InOrder(f, n + 1)
  <2>1. /\ Sorted(h) /\ UpTo(h, n + 1) /\ Before(e.got, h) /\ Before(e.channel, h) /\ Before(e.incoming, h)
        /\ UpTo(e.got, n + 1) /\ UpTo(e.channel, n + 1) /\ UpTo(e.incoming, n + 1)
    BY <1>1, <1>2, <1>6, NewMessages DEF InOrder
  <2>2. Sorted(e.incoming \o h) BY <1>1, <1>2, <1>6, <2>1, SortedConcat DEF InOrder
  <2>3. Before(e.got, e.incoming \o h) /\ Before(e.channel, e.incoming \o h) BY <1>1, <1>2, <1>6, <2>1, ConcatAfter DEF InOrder
  <2>4. UpTo(e.incoming \o h, n + 1) BY <1>2, <1>6, <2>1, UpToConcat
  <2> QED BY <1>1, <1>10, <2>1, <2>2, <2>3, <2>4 DEF InOrder
<1>12. PubSubAccounted(f) BY <1>1, <1>10 DEF PubSubAccounted
<1>13. Follows(f) /\ Stops(f) BY <1>10 DEF StreamOK, Follows, Stops
<1>14. StreamOK(f, n + 1) BY <1>9, <1>11, <1>12, <1>13 DEF StreamOK
<1> QED BY <1>14 DEF f
-----------------------------------------------------------------------------
(* Streams: the actions *)

\* A new stream is one more.
LEMMA OpenEventKeeps == ASSUME PubSubInv, OpenEvent PROVE PubSubInv'
<1>1. PICK capacity \in EventCapacities : events' = Append(events, NewEvent(capacity)) /\ published' = published
  BY DEF OpenEvent
<1> DEFINE e == NewEvent(capacity)
<1>2. StreamOK(e, published) BY NewEventOK
<1>3. e \in Streams /\ events \in Seq(Streams) BY <1>2 DEF StreamOK, PubSubInv
<1> HIDE DEF e
<1>4. Append(events, e) \in Seq(Streams) /\ \A i \in DOMAIN Append(events, e) :
        Append(events, e)[i] = e \/ (i \in DOMAIN events /\ Append(events, e)[i] = events[i])
  BY <1>3
<1>5. events' = Append(events, e) BY <1>1 DEF e
<1>6. \A i \in DOMAIN events' : StreamOK(events'[i], published) BY <1>2, <1>4, <1>5 DEF PubSubInv
<1> QED BY <1>1, <1>4, <1>5, <1>6 DEF PubSubInv

\* The host controls a stream.
LEMMA ControlEventKeeps == ASSUME PubSubInv, ControlEvent PROVE PubSubInv'
<1>1. PICK s \in DOMAIN events, c \in Controls :
        Changes(s, events[s].open /\ events[s].task = "running" /\ Len(events[s].commands) < MaxControls, Controlled(events[s], c))
  BY DEF ControlEvent
<1>2. StreamOK(events[s], published) /\ events[s].open BY <1>1 DEF PubSubInv, Changes
<1>3. StreamOK(Controlled(events[s], c), published) BY <1>2, ControlledOK
<1> QED BY <1>1, <1>3, ChangeKeeps

\* The task of a stream takes a control.
LEMMA TaskControlsKeeps == ASSUME PubSubInv, TaskControls PROVE PubSubInv'
<1>1. PICK s \in DOMAIN events, success \in BOOLEAN :
        Changes(s, events[s].task = "running" /\ events[s].commands # <<>>, IF success THEN Took(events[s]) ELSE Failed(events[s]))
  BY DEF TaskControls
<1>2. StreamOK(events[s], published) /\ events[s].task = "running" /\ events[s].commands # <<>> BY <1>1 DEF PubSubInv, Changes
<1>3. StreamOK(IF success THEN Took(events[s]) ELSE Failed(events[s]), published) BY <1>2, TookOK, FailedOK
<1> QED BY <1>1, <1>3, ChangeKeeps

\* The task of a stream takes a message.
LEMMA TaskForwardsKeeps == ASSUME PubSubInv, TaskForwards PROVE PubSubInv'
<1>1. PICK s \in DOMAIN events :
        Changes(s, events[s].task = "running" /\ events[s].incoming # <<>>,
                IF Len(events[s].channel) >= events[s].capacity THEN Overflowed(events[s]) ELSE Forwarded(events[s]))
  BY DEF TaskForwards
<1>2. StreamOK(events[s], published) /\ events[s].incoming # <<>> BY <1>1 DEF PubSubInv, Changes
<1>3. StreamOK(IF Len(events[s].channel) >= events[s].capacity THEN Overflowed(events[s]) ELSE Forwarded(events[s]), published)
  BY <1>2, OverflowedOK, ForwardedOK
<1> QED BY <1>1, <1>3, ChangeKeeps

\* The connection of a stream is lost.
LEMMA ConnectionLostKeeps == ASSUME PubSubInv, ConnectionLost PROVE PubSubInv'
<1>1. PICK s \in DOMAIN events : Changes(s, events[s].task = "running" /\ events[s].incoming = <<>>, Lost(events[s]))
  BY DEF ConnectionLost
<1>2. StreamOK(Lost(events[s]), published) BY LostOK DEF PubSubInv
<1> QED BY <1>1, <1>2, ChangeKeeps

\* The host reads a stream.
LEMMA ReadEventKeeps == ASSUME PubSubInv, ReadEvent PROVE PubSubInv'
<1>1. PICK s \in DOMAIN events : \E n \in 0..Len(events[s].channel) :
        Changes(s, events[s].open /\ (n = 0 => events[s].channel = <<>>), Read(events[s], n))
  BY DEF ReadEvent
<1>2. PICK n \in 0..Len(events[s].channel) :
        Changes(s, events[s].open /\ (n = 0 => events[s].channel = <<>>), Read(events[s], n))
  BY <1>1
<1>3. StreamOK(Read(events[s], n), published) BY ReadOK DEF PubSubInv
<1> QED BY <1>2, <1>3, ChangeKeeps

\* The host closes a stream.
LEMMA CloseEventKeeps == ASSUME PubSubInv, CloseEvent PROVE PubSubInv'
<1>1. PICK s \in DOMAIN events : Changes(s, events[s].open, Aborted(events[s])) BY DEF CloseEvent
<1>2. StreamOK(Aborted(events[s]), published) BY AbortedOK DEF PubSubInv
<1> QED BY <1>1, <1>2, ChangeKeeps

\* Every stream changes, each to one that is in order.
LEMMA ChangeAll ==
  ASSUME events \in Seq(Streams), NEW n \in Nat, published' = n, NEW f, events' = f, DOMAIN f = DOMAIN events,
         \A s \in DOMAIN events : StreamOK(f[s], n), f = [s \in DOMAIN events |-> f[s]]
  PROVE  PubSubInv'
<1>1. DOMAIN events = 1..Len(events) /\ Len(events) \in Nat OBVIOUS
<1>2. \A s \in DOMAIN events : f[s] \in Streams BY DEF StreamOK
<1>3. f \in Seq(Streams) BY <1>1, <1>2
<1> QED BY <1>3 DEF PubSubInv

\* A message is published.
LEMMA PublishKeeps == ASSUME PubSubInv, Publish PROVE PubSubInv'
<1>1. PICK channel \in Channels : /\ published' = published + 1
                                  /\ events' = [s \in DOMAIN events |-> Arrived(events[s], channel, published + 1)]
  BY DEF Publish
<1>2. \A s \in DOMAIN events : StreamOK(Arrived(events[s], channel, published + 1), published + 1) BY ArrivedOK DEF PubSubInv
<1>3. published + 1 \in Nat /\ events \in Seq(Streams) BY DEF PubSubInv
<1> DEFINE f == [s \in DOMAIN events |-> Arrived(events[s], channel, published + 1)]
<1>4. DOMAIN f = DOMAIN events /\ (\A s \in DOMAIN events : StreamOK(f[s], published + 1)) /\ f = [s \in DOMAIN events |-> f[s]] /\ events' = f
  BY <1>1, <1>2
<1> HIDE DEF f
<1> QED BY <1>1, <1>3, <1>4, ChangeAll

\* The connection is closed, with every stream of it.
LEMMA CloseKeeps == ASSUME PubSubInv, Close PROVE PubSubInv'
<1>1. published' = published /\ events' = [s \in DOMAIN events |-> Aborted(events[s])] BY DEF Close
<1>2. \A s \in DOMAIN events : StreamOK(Aborted(events[s]), published) BY AbortedOK DEF PubSubInv
<1>3. published \in Nat /\ events \in Seq(Streams) BY DEF PubSubInv
<1> DEFINE f == [s \in DOMAIN events |-> Aborted(events[s])]
<1>4. DOMAIN f = DOMAIN events /\ (\A s \in DOMAIN events : StreamOK(f[s], published)) /\ f = [s \in DOMAIN events |-> f[s]] /\ events' = f
  BY <1>1, <1>2
<1> HIDE DEF f
<1> QED BY <1>1, <1>3, <1>4, ChangeAll

\* The invariant says what StreamsAreSound says.
LEMMA StreamInvSuffices == PubSubInv => StreamsAreSound
<1> SUFFICES ASSUME PubSubInv PROVE StreamsAreSound OBVIOUS
<1>1. MessagesAreAccounted
  <2> SUFFICES ASSUME NEW s \in DOMAIN events
               PROVE  /\ Len(events[s].received) = Len(events[s].got \o events[s].channel) + events[s].dropped + events[s].reported
                      /\ Sorted(events[s].got \o events[s].channel)
                      /\ Len(events[s].channel) <= events[s].capacity
    BY DEF MessagesAreAccounted, Sorted
  <2>1. PICK e : e = events[s] OBVIOUS
  <2>2. StreamOK(e, published) BY <2>1 DEF PubSubInv
  <2>3. e \in Streams /\ InOrder(e, published) /\ PubSubAccounted(e) BY <2>2 DEF StreamOK
  <2>4. e.got \in Seq(Messages) /\ e.channel \in Seq(Messages) BY <2>3, Fields
  <2>5. Sorted(e.got \o e.channel) BY <2>3, <2>4, SortedConcat DEF InOrder
  <2>6. Len(e.got \o e.channel) = Len(e.got) + Len(e.channel) BY <2>4, ConcatLength
  <2>7. Len(e.received) = Len(e.got) + Len(e.channel) + e.dropped + e.reported /\ Len(e.channel) <= e.capacity BY <2>3 DEF PubSubAccounted
  <2>8. Len(e.received) = Len(e.got \o e.channel) + e.dropped + e.reported BY <2>6, <2>7
  <2> QED BY <2>1, <2>5, <2>7, <2>8
<1>2. ControlsAreKept
  <2>1. \A s \in DOMAIN events : Follows(events[s]) BY DEF PubSubInv, StreamOK
  <2> QED BY <2>1 DEF ControlsAreKept, Follows, EndsOn
<1>3. ClosedStreamsStop
  <2>1. \A s \in DOMAIN events : Stops(events[s]) BY DEF PubSubInv, StreamOK
  <2> QED BY <2>1 DEF ClosedStreamsStop, Stops
<1> QED BY <1>1, <1>2, <1>3 DEF StreamsAreSound
-----------------------------------------------------------------------------
\* Closing drops every connection and leaves the request as it is.
LEMMA CloseKeepsCalls == ASSUME CallInv, Close PROVE CallInv'
<1>1. connections' = [d \in Databases |-> NoConnection] /\ request' = request BY DEF Close
<1>2. ConnectionsOK(connections') BY <1>1 DEF ConnectionsOK
<1> QED BY <1>1, <1>2 DEF CallInv

\* The other steps of the streams leave the calls alone, and the calls the streams.
LEMMA CallsAlone == ASSUME StreamNext PROVE Close \/ UNCHANGED callVars
BY DEF StreamNext, OpenEvent, ControlEvent, TaskControls, TaskForwards, Publish, ConnectionLost, ReadEvent, CloseEvent, Changes

LEMMA StreamsAlone == ASSUME CallNext PROVE UNCHANGED streamVars
BY DEF CallNext, Execute, ExecutePipeline, HostRequests, HostRepeats, Running

\* For any pipelines, those that alter a connection included, a write is done at most
\* once however often the host repeats what it may repeat (execute, execute_pipeline
\* and command_error decide on the same commands), and a read fails on a drop only when
\* something else fails as well.  Over a connection that no SELECT or MULTI of the host
\* has altered since it was made, a request that succeeds is done completely and in
\* its own database.
THEOREM RedisCallsSafe == RedisSpec => []CallsAreSafe
<1>1. RedisInit => CallInv
  <2> SUFFICES ASSUME RedisInit PROVE CallInv OBVIOUS
  <2>1. ConnectionsOK(connections)
    <3>1. ASSUME NEW d \in Databases PROVE connections[d] = NoConnection \/ ConnectionOK(connections[d], d)
      <4>1. ConnectionOK(OpenConnectionManager(d), d) BY DEF ConnectionOK, OpenConnectionManager, Connection
      <4> QED BY <4>1 DEF RedisInit
    <3> QED BY <3>1 DEF RedisInit, ConnectionsOK
  <2>2. RequestOK(request)
    <3>1. "none" \in CallResults \cup {"none", "sent"} /\ {} \in SUBSET Databases /\ FALSE \in BOOLEAN /\ <<>> \in Commands /\ <<>> \in Seq(Nat)
      BY DEF Commands
    <3>2. Default \in Databases BY RedisAssumption
    <3>3. NoRequest \in Requests BY <3>1, <3>2 DEF NoRequest, Requests
    <3> QED BY <3>3 DEF RedisInit, RequestOK, NoRequest
  <2>3. OnceInv(request) /\ DoneInv(request) /\ DropInv(request) BY DEF RedisInit, NoRequest, OnceInv, DoneInv, DropInv
  <2> QED BY <2>1, <2>2, <2>3 DEF CallInv, RequestInv
<1>2. CallInv /\ [CallNext \/ StreamNext]_redisVars => CallInv'
  <2> SUFFICES ASSUME CallInv, [CallNext \/ StreamNext]_redisVars PROVE CallInv' OBVIOUS
  <2>1. CASE CallNext
    BY <2>1, ExecuteKeeps, ExecutePipelineKeeps, HostRequestsKeeps, HostRepeatsKeeps DEF CallNext
  <2>2. CASE Close BY <2>2, CloseKeepsCalls
  <2>3. CASE UNCHANGED callVars BY <2>3 DEF callVars, CallInv
  <2>4. CASE UNCHANGED redisVars BY <2>4 DEF redisVars, CallInv
  <2> QED BY <2>1, <2>2, <2>3, <2>4, CallsAlone
<1> QED BY <1>1, <1>2, CallInvSuffices, PTL DEF RedisSpec

\* Every message a stream was given is read, waits or is counted as lost exactly
\* once, in order and within the capacity (read_event, try_send); the subscriptions
\* are what the controls that were accepted say; and a stream that is closed, alone
\* or with its connection, has stopped.
THEOREM RedisStreamsSound == RedisSpec => []StreamsAreSound
<1>1. RedisInit => PubSubInv
  <2> SUFFICES ASSUME RedisInit PROVE PubSubInv OBVIOUS
  <2>1. events = <<>> /\ published = 0 BY DEF RedisInit
  <2> QED BY <2>1 DEF PubSubInv
<1>2. PubSubInv /\ [CallNext \/ StreamNext]_redisVars => PubSubInv'
  <2> SUFFICES ASSUME PubSubInv, [CallNext \/ StreamNext]_redisVars PROVE PubSubInv' OBVIOUS
  <2>1. CASE CallNext
    <3>1. UNCHANGED streamVars BY <2>1, StreamsAlone
    <3> QED BY <3>1 DEF streamVars, PubSubInv
  <2>2. CASE StreamNext
    BY <2>2, OpenEventKeeps, ControlEventKeeps, TaskControlsKeeps, TaskForwardsKeeps, PublishKeeps, ConnectionLostKeeps,
       ReadEventKeeps, CloseEventKeeps, CloseKeeps DEF StreamNext
  <2>3. CASE UNCHANGED redisVars BY <2>3 DEF redisVars, PubSubInv
  <2> QED BY <2>1, <2>2, <2>3
<1> QED BY <1>1, <1>2, StreamInvSuffices, PTL DEF RedisSpec
=============================================================================
