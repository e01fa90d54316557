-------------------------- MODULE VncMailboxProofs --------------------------
(***************************************************************************)
(* The VNC output mailbox: what its operators return, for queues of any    *)
(* length (the facts that the proofs about the helper use too), and its    *)
(* promises under arbitrary use, for every number of sends and of senders  *)
(* and for every picture.                                                  *)
(***************************************************************************)
EXTENDS VncMailboxLog, FiniteSetTheorems, TLAPS

Below == {ss \in Nat \X Nat : ss[1] < ss[2]}

LEMMA BelowIsWellFounded == IsWellFoundedOn(Below, Nat)
<1>1. Below = OpToRel(<, Nat)
  BY Zenon DEF OpToRel, Below
<1> QED BY <1>1, NatLessThanWellFounded, Zenon

\* Induction over the natural numbers for a set of them.
LEMMA SetInduction ==
  ASSUME NEW S \in SUBSET Nat, 0 \in S, \A n \in S : n + 1 \in S
  PROVE  S = Nat
<1> SUFFICES ASSUME Nat \ S # {} PROVE FALSE
  OBVIOUS
<1>1. PICK x \in Nat \ S : \A y \in Nat \ S : ~(<<y, x>> \in Below)
  <2>1. Nat \ S \subseteq Nat OBVIOUS
  <2> QED BY <2>1, BelowIsWellFounded, WFMin, Zenon
<1>2. x # 0 /\ x - 1 \in Nat
  OBVIOUS
<1>3. <<x - 1, x>> \in Below
  BY <1>2 DEF Below
<1>4. x - 1 \in S
  BY <1>1, <1>2, <1>3
<1> QED BY <1>2, <1>4

\* A finite set of natural numbers can be listed in order.
Listing(K, n) == {e \in [1..n -> K] : \A i, j \in 1..n : i < j => e[i] < e[j]}

LEMMA ListingExtends ==
  ASSUME NEW n \in Nat, NEW U \in SUBSET (1..n), NEW c \in Nat, NEW e \in Listing(U, c)
  PROVE  [i \in 1..c+1 |-> IF i = c + 1 THEN n + 1 ELSE e[i]] \in Listing(U \cup {n + 1}, c + 1)
<1> DEFINE f == [i \in 1..c+1 |-> IF i = c + 1 THEN n + 1 ELSE e[i]]
<1>0. e \in [1..c -> U]
  BY DEF Listing
<1>1. \A i \in 1..c : e[i] \in U /\ e[i] \in Nat /\ e[i] < n + 1
  <2>1. \A u \in U : u \in Nat /\ u < n + 1 OBVIOUS
  <2> QED BY <1>0, <2>1
<1>2. f \in [1..c+1 -> U \cup {n + 1}]
  BY <1>1
<1>3. \A i, j \in 1..c+1 : i < j => f[i] < f[j]
  BY <1>1 DEF Listing
<1> QED BY <1>2, <1>3 DEF Listing

LEMMA OrderedListing ==
  ASSUME NEW m \in Nat, NEW K \in SUBSET (1..m)
  PROVE  /\ IsFiniteSet(K) /\ Cardinality(K) \in Nat
         /\ Listing(K, Cardinality(K)) # {}
<1> DEFINE Listed(T) == /\ IsFiniteSet(T) /\ Cardinality(T) \in Nat
                        /\ Listing(T, Cardinality(T)) # {}
           S == {n \in Nat : \A T \in SUBSET (1..n) : Listed(T)}
<1>1. 0 \in S
  <2> SUFFICES ASSUME NEW T \in SUBSET (1..0) PROVE Listed(T)
    OBVIOUS
  <2>1. T = {} OBVIOUS
  <2>2. IsFiniteSet(T) /\ Cardinality(T) = 0
    BY <2>1, FS_EmptySet
  <2>3. [i \in 1..0 |-> i] \in Listing(T, 0)
    BY <2>1 DEF Listing
  <2> QED BY <2>2, <2>3
<1>2. ASSUME NEW n \in S PROVE n + 1 \in S
  <2> SUFFICES ASSUME NEW T \in SUBSET (1..n+1) PROVE Listed(T)
    OBVIOUS
  <2>1. n \in Nat OBVIOUS
  <2>2. PICK U \in SUBSET (1..n) : U = T \ {n + 1}
    <3>1. \A t \in T : t # n + 1 => t \in 1..n BY <2>1
    <3> QED BY <3>1
  <2>3. Listed(U) BY <2>2
  <2>4. CASE n + 1 \notin T
    <3>1. T = U BY <2>2, <2>4
    <3> QED BY <2>3, <3>1
  <2>5. CASE n + 1 \in T
    <3>1. T = U \cup {n + 1} /\ n + 1 \notin U
      BY <2>2, <2>5
    <3>2. IsFiniteSet(U) /\ IsFiniteSet(T) /\ Cardinality(T) = Cardinality(U) + 1
      BY <2>3, <3>1, FS_AddElement, Zenon
    <3>3. PICK c \in Nat : c = Cardinality(U) BY <2>3
    <3>4. PICK e \in Listing(U, c) : TRUE BY <2>3, <3>3
    <3>5. Listing(T, c + 1) # {}
      BY <2>1, <3>1, <3>3, <3>4, ListingExtends
    <3>6. Cardinality(T) = c + 1 /\ c + 1 \in Nat
      BY <3>2, <3>3
    <3> QED BY <3>2, <3>5, <3>6
  <2> QED BY <2>4, <2>5
<1> HIDE DEF S
<1>3. S = Nat
  <2>1. S \in SUBSET Nat BY DEF S
  <2> QED BY <1>1, <1>2, <2>1, SetInduction
<1> QED BY <1>3 DEF S

\* The outputs of a queue that are not session-scoped, in the order of the queue,
\* and nothing else.
Retains(rest, queue) ==
  /\ Len(rest) \in Nat /\ DOMAIN rest = 1..Len(rest)
  /\ rest = [i \in 1..Len(rest) |-> rest[i]]
  /\ \E place \in [DOMAIN rest -> DOMAIN queue] :
       /\ \A i \in DOMAIN rest : rest[i] = queue[place[i]] /\ ~IsSessionScopedControl(rest[i])
       /\ \A i, j \in DOMAIN rest : i < j => place[i] < place[j]
       /\ \A k \in DOMAIN queue : ~IsSessionScopedControl(queue[k])
                                    => \E i \in DOMAIN rest : place[i] = k

\* What VecDeque::retain keeps.
LEMMA DiscardKeepsOrder ==
  ASSUME NEW queue, Len(queue) \in Nat, DOMAIN queue = 1..Len(queue)
  PROVE  Retains(DiscardPendingSessionControls(queue), queue)
<1> DEFINE place == KeptOrder(queue)
           K == KeptControls(queue)
           rest == DiscardPendingSessionControls(queue)
<1>1. PICK n \in Nat : n = Cardinality(K) /\ IsFiniteSet(K) /\ Listing(K, n) # {}
  <2>1. K \in SUBSET (1..Len(queue)) BY DEF KeptControls
  <2> QED BY <2>1, OrderedListing
<1>2. place \in Listing(K, n)
  <2>1. \E e \in [1..n -> K] : \A i, j \in DOMAIN e : i < j => e[i] < e[j]
    BY <1>1 DEF Listing
  <2>2. place = CHOOSE e \in [1..n -> K] : \A i, j \in DOMAIN e : i < j => e[i] < e[j]
    BY <1>1 DEF KeptOrder
  <2> HIDE DEF place
  <2> QED BY <2>1, <2>2 DEF Listing
<1> HIDE DEF place, K
<1>3. place \in [1..n -> K] /\ \A i, j \in 1..n : i < j => place[i] < place[j]
  BY <1>2 DEF Listing
<1>4. rest = [i \in 1..n |-> queue[place[i]]]
  BY <1>1 DEF DiscardPendingSessionControls, place, K
<1>5. \A k \in K : \E i \in 1..n : place[i] = k
  <2>1. K \subseteq Nat BY DEF K, KeptControls
  <2>2. place \in Injection(1..n, K)
    <3>1. ASSUME NEW i \in 1..n, NEW j \in 1..n, place[i] = place[j] PROVE i = j
      <4>1. place[i] \in Nat
        BY <1>3, <2>1
      <4>2. ~(place[i] < place[j]) /\ ~(place[j] < place[i])
        BY <3>1, <4>1
      <4> QED BY <1>3, <4>2
    <3> QED BY <1>3, <3>1 DEF Injection, IsInjective
  <2>3. IsFiniteSet(1..n) /\ Cardinality(1..n) = n
    BY SMTT(30), FS_Interval
  <2>4. place \in Surjection(1..n, K)
    BY <1>1, <2>2, <2>3, FS_Injection, Zenon
  <2> QED BY <2>4 DEF Surjection
<1>6. \A k \in K : k \in DOMAIN queue /\ ~IsSessionScopedControl(queue[k])
  BY DEF K, KeptControls
<1>7. \A k \in DOMAIN queue : ~IsSessionScopedControl(queue[k]) => k \in K
  BY DEF K, KeptControls
<1>8. DOMAIN rest = 1..n /\ Len(rest) = n
  BY <1>4
<1>9. place \in [DOMAIN rest -> DOMAIN queue]
  BY <1>3, <1>6, <1>8
<1>10. \A i \in DOMAIN rest : rest[i] = queue[place[i]] /\ ~IsSessionScopedControl(rest[i])
  BY <1>3, <1>4, <1>6
<1>11. \A i, j \in DOMAIN rest : i < j => place[i] < place[j]
  BY <1>3, <1>8
<1>12. \A k \in DOMAIN queue : ~IsSessionScopedControl(queue[k]) => \E i \in DOMAIN rest : place[i] = k
  BY <1>5, <1>7, <1>8
<1>13. rest = [i \in 1..Len(rest) |-> rest[i]]
  BY <1>4, <1>8
<1>14. /\ Len(rest) \in Nat /\ DOMAIN rest = 1..Len(rest)
       /\ rest = [i \in 1..Len(rest) |-> rest[i]]
  BY <1>8, <1>13
<1> HIDE DEF rest
<1>15. Retains(rest, queue)
  BY <1>9, <1>10, <1>11, <1>12, <1>14, Zenon DEF Retains
<1> QED BY <1>15 DEF rest

\* Merging keeps the later update's number and size.
LEMMA MergeShape ==
  ASSUME NEW G, NEW H, NEW previous \in Deltas(G) \cup {None}, NEW next \in Deltas(H)
  PROVE  /\ MergeDeltas(previous, next) \in Deltas(H)
         /\ MergeDeltas(previous, next) # None
         /\ MergeDeltas(previous, next).gen = next.gen
         /\ MergeDeltas(previous, next).size = next.size
<1>1. \A d \in Deltas(H) : d # None
  BY DEF Deltas, None
<1>2. CASE previous # None /\ previous.size = next.size
  <2> DEFINE px == [c \in DOMAIN previous.px \cup DOMAIN next.px |->
                     IF c \in DOMAIN next.px THEN next.px[c] ELSE previous.px[c]]
  <2>1. previous.px \in DeltaPictures /\ next.px \in DeltaPictures
    BY <1>2 DEF Deltas
  <2>2. PICK A \in SUBSET Cells : previous.px \in [A -> Pixels]
    BY <2>1 DEF DeltaPictures
  <2>3. PICK B \in SUBSET Cells : next.px \in [B -> Pixels]
    BY <2>1 DEF DeltaPictures
  <2>4. px \in [A \cup B -> Pixels]
    BY <2>2, <2>3
  <2>5. px \in DeltaPictures
    BY <2>4 DEF DeltaPictures
  <2>6. MergeDeltas(previous, next) = [next EXCEPT !.px = px]
    BY <1>2 DEF MergeDeltas
  <2> HIDE DEF px
  <2>7. [next EXCEPT !.px = px] \in Deltas(H)
    BY <2>5 DEF Deltas
  <2>8. [next EXCEPT !.px = px].gen = next.gen /\ [next EXCEPT !.px = px].size = next.size
    BY DEF Deltas
  <2> QED BY <1>1, <2>6, <2>7, <2>8
<1>3. CASE ~(previous # None /\ previous.size = next.size)
  BY <1>1, <1>3 DEF MergeDeltas
<1> QED BY <1>2, <1>3
-----------------------------------------------------------------------------
(* Under arbitrary use *)

Kinds == ControlKinds \cup {"Frame", "Delta"}

Outputs == {Output(kind, n) : kind \in Kinds, n \in 1..MaxSends}

Controls(n) == [kind : ControlKinds, gen : 1..n]

\* Outputs are numbered in the order they are sent.
SentInOrder(log) ==
  /\ log \in Seq(Outputs) /\ Len(log) <= MaxSends
  /\ \A n \in DOMAIN log : log[n].gen = n

\* The queue and what was received hold outputs that were sent, in the order they
\* were sent, and no lossless one is missing.
Accounts(queue, got, log) ==
  /\ \A i \in DOMAIN got : got[i] = log[got[i].gen]
  /\ \A i \in DOMAIN queue : queue[i] = log[queue[i].gen]
  /\ \A i, j \in DOMAIN got : i < j => got[i].gen < got[j].gen
  /\ \A i, j \in DOMAIN queue : i < j => queue[i].gen < queue[j].gen
  /\ \A i \in DOMAIN got, j \in DOMAIN queue : got[i].gen < queue[j].gen
  /\ \A n \in DOMAIN log : IsLossless(log[n]) =>
        \/ \E i \in DOMAIN got : got[i].gen = n
        \/ \E i \in DOMAIN queue : queue[i].gen = n

\* The histories are sequences of numbered outputs; what is pending was sent.
Numbered ==
  /\ control \in Seq(Controls(Len(sent)))
  /\ received \in Seq(Controls(Len(sent)))
  /\ SentInOrder(sent)
  /\ latest_frame # None => latest_frame.gen <= Len(sent)
  /\ latest_delta # None => latest_delta.gen <= Len(sent)
  /\ epoch <= Len(sent)

InOrder == Accounts(control, received, sent)

\* The mailbox accepts session outputs only after a Connected that followed the
\* last close, and holds nothing once its receiver has gone.
Gate ==
  /\ receiver_alive /\ accepting /\ closed =>
       \E i \in (epoch + 1)..Len(sent) : sent[i].kind = "Connected"
  /\ ~receiver_alive => MailboxEmpty
  /\ exited => ~receiver_alive /\ senders = 0

LogInv ==
  /\ LogTypeOK /\ Numbered
  /\ (receiver_alive \/ exited => InOrder)
  /\ Gate
  /\ OnlyCurrentSessionPending /\ UpdateFollowsFrame /\ NoLostWakeup

LEMMA LogInvInit == LogInit => LogInv
<1> SUFFICES ASSUME LogInit PROVE LogInv
  OBVIOUS
<1> USE DEF LogInit, MailboxInit
<1>1. LogTypeOK
  <2>1. senders \in 0..MaxSenders /\ epoch \in 0..MaxSends
    BY LogBounds
  <2>2. \A i \in DOMAIN control : control[i].kind \in ControlKinds
    OBVIOUS
  <2> QED BY <2>1, <2>2 DEF LogTypeOK
<1>2. Numbered /\ InOrder
  BY LogBounds DEF Numbered, InOrder, SentInOrder, Accounts
<1>3. Gate /\ OnlyCurrentSessionPending /\ UpdateFollowsFrame /\ NoLostWakeup
  BY DEF Gate, OnlyCurrentSessionPending, UpdateFollowsFrame, NoLostWakeup
<1> QED BY <1>1, <1>2, <1>3 DEF LogInv

\* An output that SendAny makes.
LEMMA OutputShape ==
  ASSUME NEW kind \in Kinds, NEW n \in 1..MaxSends
  PROVE  /\ Output(kind, n).kind = kind /\ Output(kind, n).gen = n
         /\ Output(kind, n) # None
         /\ kind \in ControlKinds => Output(kind, n) \in [kind : {kind}, gen : {n}]
         /\ kind = "Frame" => Output(kind, n) \in Frames({n})
         /\ kind = "Delta" => Output(kind, n) \in Deltas({n})
<1>1. /\ (CHOOSE s \in Sizes : TRUE) \in Sizes
      /\ [c \in Cells |-> CHOOSE p \in Pixels : TRUE] \in FramePictures
  BY PictureAssumption DEF FramePictures
<1>2. FramePictures \subseteq DeltaPictures
  BY DEF FramePictures, DeltaPictures
<1>3. kind \in {"Frame", "Delta"} => kind \notin ControlKinds
  BY DEF ControlKinds, Barriers
<1>4. CASE kind \in ControlKinds
  BY <1>3, <1>4 DEF Output, None, ControlKinds, Barriers
<1>5. CASE kind \in {"Frame", "Delta"}
  BY <1>1, <1>2, <1>3, <1>5 DEF Output, None, Frames, Deltas
<1> QED BY <1>4, <1>5 DEF Kinds
-----------------------------------------------------------------------------
(* What each way of changing the queue does to the account of the outputs *)

\* The log with one more output.
Extends(next, log, output) ==
  /\ SentInOrder(next) /\ Len(log) \in Nat /\ Len(next) = Len(log) + 1
  /\ DOMAIN log = 1..Len(log) /\ DOMAIN next = 1..(Len(log) + 1)
  /\ \A i \in 1..Len(log) : next[i] = log[i] /\ log[i].gen = i
  /\ next[Len(log) + 1] = output
  /\ output.gen = Len(log) + 1

LEMMA SendExtendsLog ==
  ASSUME NEW log, SentInOrder(log), Len(log) < MaxSends, NEW kind \in Kinds,
         NEW output, output = Output(kind, Len(log) + 1)
  PROVE  output.kind = kind /\ Extends(Append(log, output), log, output)
<1> DEFINE next == Append(log, output)
<1>1. log \in Seq(Outputs) /\ Len(log) \in Nat /\ Len(log) + 1 \in 1..MaxSends
  BY LogBounds DEF SentInOrder
<1>2. output \in Outputs /\ output.kind = kind /\ output.gen = Len(log) + 1
  <2>1. output.kind = kind /\ output.gen = Len(log) + 1
    BY <1>1, OutputShape
  <2>2. output \in Outputs
    BY <1>1 DEF Outputs
  <2> QED BY <2>1, <2>2
<1>3. /\ next \in Seq(Outputs) /\ Len(next) = Len(log) + 1
      /\ DOMAIN log = 1..Len(log) /\ DOMAIN next = 1..(Len(log) + 1)
      /\ \A i \in 1..Len(log) : next[i] = log[i]
      /\ next[Len(log) + 1] = output
  BY <1>1, <1>2
<1>4. \A i \in 1..Len(log) : log[i].gen = i
  BY <1>3 DEF SentInOrder
<1>5. SentInOrder(next)
  BY <1>1, <1>2, <1>3, <1>4 DEF SentInOrder
<1> QED BY <1>1, <1>2, <1>3, <1>4, <1>5 DEF Extends

LEMMA QueueElements ==
  ASSUME NEW n, NEW queue \in Seq(Controls(n))
  PROVE  /\ Len(queue) \in Nat /\ DOMAIN queue = 1..Len(queue)
         /\ \A i \in DOMAIN queue : /\ queue[i] \in Controls(n)
                                    /\ queue[i].kind \in ControlKinds /\ queue[i].gen \in 1..n
<1>1. \A i \in DOMAIN queue : queue[i] \in Controls(n)
  OBVIOUS
<1>2. \A c \in Controls(n) : c.kind \in ControlKinds /\ c.gen \in 1..n
  BY DEF Controls
<1> QED BY <1>1, <1>2

\* An output is added to the log.
Logs(kind, output, log, next) ==
  /\ SentInOrder(log) /\ Len(log) < MaxSends
  /\ output = Output(kind, Len(log) + 1) /\ next = Append(log, output)

\* The queue takes the output at its end.
LEMMA AppendAccounts ==
  ASSUME NEW log, NEW kind \in ControlKinds, NEW output, NEW next, Logs(kind, output, log, next),
         NEW queue \in Seq(Controls(Len(log))), NEW got \in Seq(Controls(Len(log)))
  PROVE  /\ Append(queue, output) \in Seq(Controls(Len(next)))
         /\ Accounts(queue, got, log) => Accounts(Append(queue, output), got, next)
<1>0. kind \in Kinds
  BY DEF Kinds
<1>1. /\ Len(log) \in Nat /\ Len(next) = Len(log) + 1
      /\ DOMAIN log = 1..Len(log) /\ DOMAIN next = 1..(Len(log) + 1)
      /\ \A i \in 1..Len(log) : next[i] = log[i]
      /\ next[Len(log) + 1] = output
      /\ output.kind = kind /\ output.gen = Len(log) + 1
  BY <1>0, SendExtendsLog DEF Extends, Logs
<1>2. output \in Controls(Len(log) + 1)
  <2>1. Len(log) + 1 \in 1..MaxSends
    BY <1>1, LogBounds DEF Logs
  <2>2. output \in [kind : {kind}, gen : {Len(log) + 1}]
    BY <1>0, <2>1, OutputShape DEF Logs
  <2> QED BY <1>1, <2>2 DEF Controls
<1>3. Controls(Len(log)) \subseteq Controls(Len(log) + 1)
  BY <1>1 DEF Controls
<1> DEFINE longer == Append(queue, output)
<1>4. /\ longer \in Seq(Controls(Len(log) + 1))
      /\ Len(queue) \in Nat /\ DOMAIN queue = 1..Len(queue)
      /\ DOMAIN longer = 1..(Len(queue) + 1)
      /\ \A i \in 1..Len(queue) : longer[i] = queue[i]
      /\ longer[Len(queue) + 1] = output
  <2>1. queue \in Seq(Controls(Len(log) + 1))
    BY <1>3
  <2> QED BY <2>1, <1>2
<1>5. /\ \A i \in DOMAIN queue : queue[i].gen \in 1..Len(log)
      /\ \A i \in DOMAIN got : got[i].gen \in 1..Len(log)
  BY QueueElements
<1> HIDE DEF longer
<1>6. ASSUME Accounts(queue, got, log) PROVE Accounts(longer, got, next)
  <2> USE <1>6
  <2>1. \A i \in DOMAIN got : got[i] = next[got[i].gen]
    BY <1>1, <1>5 DEF Accounts
  <2>2. ASSUME NEW i \in DOMAIN longer PROVE longer[i] = next[longer[i].gen]
    <3>1. CASE i = Len(queue) + 1
      BY <1>1, <1>4, <3>1
    <3>2. CASE i \in DOMAIN queue
      BY <1>1, <1>4, <1>5, <3>2 DEF Accounts
    <3>3. i = Len(queue) + 1 \/ i \in DOMAIN queue
      BY <1>4
    <3> QED BY <3>1, <3>2, <3>3
  <2>3. \A i, j \in DOMAIN longer : i < j => longer[i].gen < longer[j].gen
    BY <1>1, <1>4, <1>5 DEF Accounts
  <2>4. \A i \in DOMAIN got, j \in DOMAIN longer : got[i].gen < longer[j].gen
    BY <1>1, <1>4, <1>5 DEF Accounts
  <2>5. ASSUME NEW n \in DOMAIN next, IsLossless(next[n])
        PROVE  \/ \E i \in DOMAIN got : got[i].gen = n
               \/ \E i \in DOMAIN longer : longer[i].gen = n
    <3>1. CASE n = Len(log) + 1
      BY SMTT(30), <1>1, <1>4, <3>1
    <3>2. CASE n \in 1..Len(log)
      BY SMTT(30), <1>1, <1>4, <2>5, <3>2 DEF Accounts
    <3> QED BY <1>1, <3>1, <3>2
  <2> QED BY <2>1, <2>2, <2>3, <2>4, <2>5 DEF Accounts
<1> QED BY <1>1, <1>4, <1>6 DEF longer

\* The output is not for the queue, or coalesced.
LEMMA SkipAccounts ==
  ASSUME NEW log, NEW kind \in Kinds, NEW output, NEW next, Logs(kind, output, log, next),
         ~IsLossless(output),
         NEW queue \in Seq(Controls(Len(log))), NEW got \in Seq(Controls(Len(log)))
  PROVE  /\ queue \in Seq(Controls(Len(next))) /\ got \in Seq(Controls(Len(next)))
         /\ Accounts(queue, got, log) => Accounts(queue, got, next)
<1>1. /\ Len(log) \in Nat /\ Len(next) = Len(log) + 1
      /\ DOMAIN log = 1..Len(log) /\ DOMAIN next = 1..(Len(log) + 1)
      /\ \A i \in 1..Len(log) : next[i] = log[i]
      /\ next[Len(log) + 1] = output
  BY SendExtendsLog DEF Extends, Logs
<1>2. Controls(Len(log)) \subseteq Controls(Len(next))
  BY <1>1 DEF Controls
<1>3. queue \in Seq(Controls(Len(next))) /\ got \in Seq(Controls(Len(next)))
  BY <1>2
<1>4. /\ \A i \in DOMAIN queue : queue[i].gen \in 1..Len(log)
      /\ \A i \in DOMAIN got : got[i].gen \in 1..Len(log)
  BY QueueElements
<1>5. ASSUME Accounts(queue, got, log) PROVE Accounts(queue, got, next)
  <2>1. \A n \in DOMAIN next : IsLossless(next[n]) => n \in DOMAIN log /\ next[n] = log[n]
    BY <1>1
  <2> QED BY <1>1, <1>4, <1>5, <2>1 DEF Accounts
<1> QED BY <1>3, <1>5

\* The output takes the place of the last one of the queue.
LEMMA CoalesceAccounts ==
  ASSUME NEW log, NEW kind \in ControlKinds, NEW output, NEW next, Logs(kind, output, log, next),
         NEW queue \in Seq(Controls(Len(log))), NEW got \in Seq(Controls(Len(log))),
         queue # <<>>, ~IsLossless(queue[Len(queue)]),
         NEW merged, merged = [queue EXCEPT ![Len(queue)] = output]
  PROVE  /\ merged \in Seq(Controls(Len(next)))
         /\ Accounts(queue, got, log) => Accounts(merged, got, next)
<1>0. kind \in Kinds
  BY DEF Kinds
<1>1. /\ Len(log) \in Nat /\ Len(next) = Len(log) + 1
      /\ DOMAIN log = 1..Len(log) /\ DOMAIN next = 1..(Len(log) + 1)
      /\ \A i \in 1..Len(log) : next[i] = log[i] /\ log[i].gen = i
      /\ next[Len(log) + 1] = output
      /\ output.kind = kind /\ output.gen = Len(log) + 1
  BY <1>0, SendExtendsLog DEF Extends, Logs
<1>2. output \in Controls(Len(next))
  <2>1. Len(log) + 1 \in 1..MaxSends
    BY <1>1, LogBounds DEF Logs
  <2>2. output \in [kind : {kind}, gen : {Len(log) + 1}]
    BY <1>0, <2>1, OutputShape DEF Logs
  <2> QED BY <1>1, <2>2 DEF Controls
<1>3. Controls(Len(log)) \subseteq Controls(Len(next))
  BY <1>1 DEF Controls
<1>4. PICK m \in Nat : m > 0 /\ m = Len(queue) /\ DOMAIN queue = 1..m
  OBVIOUS
<1>5. /\ \A i \in DOMAIN queue : queue[i].gen \in 1..Len(log)
      /\ \A i \in DOMAIN got : got[i].gen \in 1..Len(log)
  BY QueueElements
<1>6. /\ merged \in Seq(Controls(Len(next)))
      /\ DOMAIN merged = 1..m /\ merged[m] = output
      /\ \A i \in 1..m : i # m => merged[i] = queue[i]
  <2>1. queue \in Seq(Controls(Len(next)))
    BY <1>3
  <2> QED BY <2>1, <1>2, <1>4
<1>7. ASSUME Accounts(queue, got, log) PROVE Accounts(merged, got, next)
  <2> USE <1>7
  <2>1. \A i \in DOMAIN got : got[i] = next[got[i].gen]
    BY <1>1, <1>5 DEF Accounts
  <2>2. ASSUME NEW i \in DOMAIN merged PROVE merged[i] = next[merged[i].gen]
    <3>1. CASE i = m
      BY <1>1, <1>6, <3>1
    <3>2. CASE i # m
      BY <1>1, <1>4, <1>5, <1>6, <3>2 DEF Accounts
    <3> QED BY <3>1, <3>2
  <2>3. \A i, j \in DOMAIN merged : i < j => merged[i].gen < merged[j].gen
    BY <1>1, <1>4, <1>5, <1>6 DEF Accounts
  <2>4. \A i \in DOMAIN got, j \in DOMAIN merged : got[i].gen < merged[j].gen
    BY <1>1, <1>4, <1>5, <1>6 DEF Accounts
  <2>5. ASSUME NEW n \in DOMAIN next, IsLossless(next[n])
        PROVE  \/ \E i \in DOMAIN got : got[i].gen = n
               \/ \E i \in DOMAIN merged : merged[i].gen = n
    <3>1. CASE n = Len(log) + 1
      BY <1>1, <1>4, <1>6, <3>1
    <3>2. CASE n \in DOMAIN log
      <4>1. IsLossless(log[n])
        BY <1>1, <2>5, <3>2
      <4>2. CASE \E i \in DOMAIN got : got[i].gen = n
        BY <4>2
      <4>3. ASSUME NEW i \in DOMAIN queue, queue[i].gen = n
            PROVE  \E k \in DOMAIN merged : merged[k].gen = n
        <5>1. queue[i] = log[n]
          BY <4>3 DEF Accounts
        <5>2. i # m
          BY <1>4, <4>1, <5>1
        <5> QED BY <1>4, <1>6, <4>3, <5>2
      <4> QED BY <3>2, <4>1, <4>2, <4>3 DEF Accounts
    <3>3. n = Len(log) + 1 \/ n \in DOMAIN log
      BY <1>1
    <3> QED BY <3>1, <3>2, <3>3
  <2> QED BY <2>1, <2>2, <2>3, <2>4, <2>5 DEF Accounts
<1> QED BY <1>6, <1>7

\* The session-scoped outputs are discarded.
LEMMA DiscardAccounts ==
  ASSUME NEW log, SentInOrder(log),
         NEW queue \in Seq(Controls(Len(log))), NEW got \in Seq(Controls(Len(log))),
         NEW rest, rest = DiscardPendingSessionControls(queue)
  PROVE  /\ rest \in Seq(Controls(Len(log)))
         /\ Accounts(queue, got, log) => Accounts(rest, got, log)
         /\ \A i \in DOMAIN rest : ~IsSessionScopedControl(rest[i])
<1>1. /\ Len(queue) \in Nat /\ DOMAIN queue = 1..Len(queue)
      /\ \A i \in DOMAIN queue : queue[i] \in Controls(Len(log)) /\ queue[i].gen \in Nat
  BY QueueElements
<1>2. Retains(rest, queue)
  BY <1>1, DiscardKeepsOrder
<1>3. PICK place \in [DOMAIN rest -> DOMAIN queue] :
        /\ \A i \in DOMAIN rest : rest[i] = queue[place[i]] /\ ~IsSessionScopedControl(rest[i])
        /\ \A i, j \in DOMAIN rest : i < j => place[i] < place[j]
        /\ \A k \in DOMAIN queue : ~IsSessionScopedControl(queue[k])
                                     => \E i \in DOMAIN rest : place[i] = k
  BY <1>2 DEF Retains
<1>4. rest \in Seq(Controls(Len(log)))
  <2>1. \A i \in 1..Len(rest) : rest[i] \in Controls(Len(log))
    BY <1>1, <1>2, <1>3 DEF Retains
  <2>2. Len(rest) \in Nat /\ rest = [i \in 1..Len(rest) |-> rest[i]]
    BY <1>2 DEF Retains
  <2> QED BY <1>2, <2>1, <2>2
<1>5. ASSUME Accounts(queue, got, log) PROVE Accounts(rest, got, log)
  <2> USE <1>5
  <2>1. \A i \in DOMAIN rest : rest[i] = log[rest[i].gen]
    BY <1>3 DEF Accounts
  <2>2. \A i, j \in DOMAIN rest : i < j => rest[i].gen < rest[j].gen
    BY <1>3 DEF Accounts
  <2>3. \A i \in DOMAIN got, j \in DOMAIN rest : got[i].gen < rest[j].gen
    BY <1>3 DEF Accounts
  <2>4. ASSUME NEW n \in DOMAIN log, IsLossless(log[n])
        PROVE  \/ \E i \in DOMAIN got : got[i].gen = n
               \/ \E i \in DOMAIN rest : rest[i].gen = n
    <3>1. CASE \E i \in DOMAIN got : got[i].gen = n
      BY <3>1
    <3>2. ASSUME NEW k \in DOMAIN queue, queue[k].gen = n
          PROVE  \E i \in DOMAIN rest : rest[i].gen = n
      <4>1. queue[k] = log[n]
        BY <3>2 DEF Accounts
      <4>2. ~IsSessionScopedControl(queue[k])
        BY <2>4, <4>1 DEF IsLossless, IsSessionScopedControl, Barriers
      <4> QED BY <1>3, <3>2, <4>2
    <3> QED BY <2>4, <3>1, <3>2 DEF Accounts
  <2> QED BY <2>1, <2>2, <2>3, <2>4 DEF Accounts
<1> QED BY <1>3, <1>4, <1>5

\* recv() takes the first output of the queue.
LEMMA ReceiveAccounts ==
  ASSUME NEW log, SentInOrder(log),
         NEW queue \in Seq(Controls(Len(log))), NEW got \in Seq(Controls(Len(log))),
         queue # <<>>
  PROVE  /\ Tail(queue) \in Seq(Controls(Len(log)))
         /\ Append(got, Head(queue)) \in Seq(Controls(Len(log)))
         /\ \A i \in DOMAIN Tail(queue) : i + 1 \in DOMAIN queue /\ Tail(queue)[i] = queue[i + 1]
         /\ Accounts(queue, got, log) => Accounts(Tail(queue), Append(got, Head(queue)), log)
<1> DEFINE rest == Tail(queue)
           more == Append(got, Head(queue))
<1>1. PICK m \in Nat : m > 0 /\ m = Len(queue) /\ DOMAIN queue = 1..m
  OBVIOUS
<1>2. PICK g \in Nat : g = Len(got) /\ DOMAIN got = 1..g
  OBVIOUS
<1>3. /\ rest \in Seq(Controls(Len(log))) /\ DOMAIN rest = 1..(m - 1)
      /\ \A i \in 1..(m - 1) : rest[i] = queue[i + 1]
      /\ \A i \in DOMAIN rest : i \in Nat /\ i + 1 \in DOMAIN queue /\ i + 1 > 1 /\ rest[i] = queue[i + 1]
  <2>1. /\ rest \in Seq(Controls(Len(log))) /\ DOMAIN rest = 1..(m - 1)
        /\ \A i \in 1..(m - 1) : rest[i] = queue[i + 1]
    BY <1>1
  <2> HIDE DEF rest
  <2> QED BY <1>1, <2>1
<1>4. /\ more \in Seq(Controls(Len(log))) /\ DOMAIN more = 1..(g + 1)
      /\ \A i \in 1..g : more[i] = got[i]
      /\ more[g + 1] = queue[1]
  BY <1>1, <1>2
<1>5. /\ \A i \in DOMAIN queue : queue[i].gen \in Nat
      /\ \A i \in DOMAIN got : got[i].gen \in Nat
  <2>1. \A n \in 1..Len(log) : n \in Nat OBVIOUS
  <2> QED BY <2>1, QueueElements
<1> HIDE DEF rest, more
<1>6. ASSUME Accounts(queue, got, log) PROVE Accounts(rest, more, log)
  <2> USE <1>6
  <2>1. ASSUME NEW i \in DOMAIN more PROVE more[i] = log[more[i].gen]
    <3>1. CASE i = g + 1
      BY SMTT(30), <1>1, <1>4, <3>1 DEF Accounts
    <3>2. CASE i \in DOMAIN got
      BY <1>2, <1>4, <3>2 DEF Accounts
    <3>3. i = g + 1 \/ i \in DOMAIN got BY <1>2, <1>4
    <3> QED BY <3>1, <3>2, <3>3
  <2>2. \A i \in DOMAIN rest : rest[i] = log[rest[i].gen]
    BY <1>3 DEF Accounts
  <2>3. \A i, j \in DOMAIN more : i < j => more[i].gen < more[j].gen
    BY <1>1, <1>2, <1>4 DEF Accounts
  <2>4. \A i, j \in DOMAIN rest : i < j => rest[i].gen < rest[j].gen
    BY <1>3 DEF Accounts
  <2>5. \A i \in DOMAIN more, j \in DOMAIN rest : more[i].gen < rest[j].gen
    <3>1. \A i \in DOMAIN got, j \in DOMAIN rest : got[i].gen < rest[j].gen
      BY <1>3 DEF Accounts
    <3>2. \A j \in DOMAIN rest : queue[1].gen < rest[j].gen
      BY <1>1, <1>3 DEF Accounts
    <3>3. \A i \in DOMAIN more : (i \in DOMAIN got /\ more[i] = got[i]) \/ more[i] = queue[1]
      BY <1>2, <1>4
    <3> QED BY <3>1, <3>2, <3>3
  <2>6. ASSUME NEW n \in DOMAIN log, IsLossless(log[n])
        PROVE  \/ \E i \in DOMAIN more : more[i].gen = n
               \/ \E i \in DOMAIN rest : rest[i].gen = n
    <3>1. CASE \E i \in DOMAIN got : got[i].gen = n
      BY <1>2, <1>4, <3>1
    <3>2. ASSUME NEW k \in DOMAIN queue, queue[k].gen = n
          PROVE  \/ \E i \in DOMAIN more : more[i].gen = n
                 \/ \E i \in DOMAIN rest : rest[i].gen = n
      <4>1. CASE k = 1
        BY <1>2, <1>4, <3>2, <4>1
      <4>2. CASE k # 1
        <5>1. k - 1 \in DOMAIN rest /\ rest[k - 1] = queue[k]
          BY <1>1, <1>3, <4>2
        <5> QED BY <3>2, <5>1
      <4> QED BY <4>1, <4>2
    <3> QED BY <2>6, <3>1, <3>2 DEF Accounts
  <2> QED BY <2>1, <2>2, <2>3, <2>4, <2>5, <2>6 DEF Accounts
<1> QED BY <1>1, <1>3, <1>4, <1>6 DEF rest, more
-----------------------------------------------------------------------------
(* Every step keeps the invariant *)

\* What was fresh when it was sent stays so as more is sent.
LEMMA FreshStays ==
  ASSUME Numbered, NEW pending, pending.gen \in 1..Len(sent), Fresh(pending),
         epoch \in Nat, epoch' = epoch, closed' = closed,
         \A i \in 1..Len(sent) : sent'[i] = sent[i]
  PROVE  /\ pending.gen > epoch'
         /\ closed' => \E i \in (epoch' + 1)..(pending.gen - 1) : sent'[i].kind = "Connected"
<1>1. Len(sent) \in Nat
  BY DEF Numbered, SentInOrder
<1>2. pending.gen > epoch'
  BY DEF Fresh
<1>3. ASSUME closed PROVE \E i \in (epoch + 1)..(pending.gen - 1) : sent'[i].kind = "Connected"
  <2>1. PICK i \in (epoch + 1)..(pending.gen - 1) : sent[i].kind = "Connected"
    BY <1>3 DEF Fresh
  <2>2. i \in 1..Len(sent)
    BY <1>1, <2>1
  <2> QED BY <2>1, <2>2
<1> QED BY <1>2, <1>3

\* What all sends have in common.
Sending(kind, output) ==
  /\ Logs(kind, output, sent, sent') /\ output.kind = kind
  /\ Extends(sent', sent, output) /\ epoch \in Nat /\ epoch <= Len(sent)
  /\ control \in Seq(Controls(Len(sent'))) /\ received' \in Seq(Controls(Len(sent')))
  /\ received' = received /\ exited' = FALSE /\ senders # 0
  /\ epoch' = IF receiver_alive /\ kind \in Barriers THEN Len(sent) + 1 ELSE epoch
  /\ closed' = (closed \/ (receiver_alive /\ kind \in Barriers))

LEMMA SendAnyFacts ==
  ASSUME LogInv, SendAny
  PROVE  \E kind \in Kinds : \E output : Sending(kind, output) /\ Send(output)
<1>0. PICK kind \in Kinds : \E output :
        /\ output = Output(kind, Len(sent) + 1) /\ sent' = Append(sent, output)
        /\ Send(output) /\ Len(sent) < MaxSends
        /\ epoch' = IF receiver_alive /\ kind \in Barriers THEN Len(sent) + 1 ELSE epoch
        /\ closed' = (closed \/ (receiver_alive /\ kind \in Barriers))
  BY DEF SendAny, Kinds
<1>1. PICK output :
        /\ output = Output(kind, Len(sent) + 1) /\ sent' = Append(sent, output)
        /\ Send(output) /\ Len(sent) < MaxSends
        /\ epoch' = IF receiver_alive /\ kind \in Barriers THEN Len(sent) + 1 ELSE epoch
        /\ closed' = (closed \/ (receiver_alive /\ kind \in Barriers))
  BY <1>0
<1>2. received' = received /\ exited' = FALSE /\ senders # 0
  BY DEF SendAny, LogInv, LogTypeOK, Gate
<1>3. SentInOrder(sent) /\ epoch \in Nat /\ epoch <= Len(sent)
  BY DEF LogInv, Numbered, LogTypeOK
<1>4. Extends(sent', sent, output) /\ output.kind = kind
  BY <1>1, <1>3, SendExtendsLog
<1>5. control \in Seq(Controls(Len(sent'))) /\ received' \in Seq(Controls(Len(sent')))
  <2>1. Controls(Len(sent)) \subseteq Controls(Len(sent'))
    BY <1>4 DEF Controls, Extends
  <2> QED BY <1>2, <2>1 DEF LogInv, Numbered
<1>6. Sending(kind, output)
  BY <1>1, <1>2, <1>3, <1>4, <1>5 DEF Sending, Logs
<1> QED BY <1>1, <1>6

\* What is pending and stays is fresh after a send that closes nothing.
LEMMA PendingStaysFresh ==
  ASSUME LogInv, NEW kind \in Kinds, NEW output, Sending(kind, output), kind \notin Barriers
  PROVE  /\ latest_frame # None /\ latest_frame' = latest_frame => Fresh(latest_frame)'
         /\ latest_delta # None /\ latest_delta' = latest_delta => Fresh(latest_delta)'
         /\ \A i \in DOMAIN control : IsSessionScopedControl(control[i]) =>
              /\ control[i].gen > epoch'
              /\ closed' => \E k \in (epoch' + 1)..(control[i].gen - 1) : sent'[k].kind = "Connected"
<1>1. /\ Numbered /\ epoch \in Nat /\ epoch' = epoch /\ closed' = closed
      /\ \A i \in 1..Len(sent) : sent'[i] = sent[i]
  <2>1. closed \in BOOLEAN /\ closed' = (closed \/ FALSE)
    BY DEF LogInv, LogTypeOK, Sending
  <2>2. closed' = closed BY <2>1
  <2> QED BY <2>2 DEF LogInv, Sending, Extends
<1>2. Len(sent) \in Nat /\ MaxSends \in Nat
  BY LogBounds DEF Sending, Logs, Extends
<1>3. ASSUME latest_frame # None, latest_frame' = latest_frame PROVE Fresh(latest_frame)'
  <2>1. latest_frame.gen \in 1..Len(sent) /\ Fresh(latest_frame)
    BY <1>2, <1>3 DEF LogInv, LogTypeOK, Numbered, OnlyCurrentSessionPending, Frames
  <2> QED BY <1>1, <1>3, <2>1, FreshStays DEF Fresh
<1>4. ASSUME latest_delta # None, latest_delta' = latest_delta PROVE Fresh(latest_delta)'
  <2>1. latest_delta.gen \in 1..Len(sent) /\ Fresh(latest_delta)
    BY <1>2, <1>4 DEF LogInv, LogTypeOK, Numbered, OnlyCurrentSessionPending, Deltas
  <2> QED BY <1>1, <1>4, <2>1, FreshStays DEF Fresh
<1>5. ASSUME NEW i \in DOMAIN control, IsSessionScopedControl(control[i])
      PROVE  /\ control[i].gen > epoch'
             /\ closed' => \E k \in (epoch' + 1)..(control[i].gen - 1) : sent'[k].kind = "Connected"
  <2>1. control[i].gen \in 1..Len(sent)
    BY <1>1, QueueElements DEF Numbered
  <2>2. Fresh(control[i])
    BY <1>5 DEF LogInv, OnlyCurrentSessionPending
  <2> QED BY <1>1, <2>1, <2>2, FreshStays
<1> QED BY <1>3, <1>4, <1>5

\* An output of the session that is accepted is fresh.
LEMMA AcceptedIsFresh ==
  ASSUME LogInv, NEW kind \in Kinds, NEW output, Sending(kind, output), kind \notin Barriers,
         receiver_alive, accepting
  PROVE  /\ output.gen > epoch'
         /\ closed' => \E k \in (epoch' + 1)..(output.gen - 1) : sent'[k].kind = "Connected"
<1>1. /\ Len(sent) \in Nat /\ epoch \in Nat /\ epoch' = epoch /\ (closed' => closed)
      /\ output.gen = Len(sent) + 1 /\ epoch <= Len(sent)
      /\ \A i \in 1..Len(sent) : sent'[i] = sent[i]
  BY DEF Sending, Logs, Extends
<1>2. ASSUME closed' PROVE \E k \in (epoch' + 1)..(output.gen - 1) : sent'[k].kind = "Connected"
  <2>1. PICK k \in (epoch + 1)..Len(sent) : sent[k].kind = "Connected"
    BY <1>1, <1>2 DEF LogInv, Gate
  <2>2. k \in 1..Len(sent) /\ k \in (epoch' + 1)..(output.gen - 1)
    BY <1>1
  <2> QED BY <1>1, <2>1, <2>2
<1> QED BY <1>1, <1>2

\* The gate after a send that leaves the session as it is.
LEMMA GateStays ==
  ASSUME LogInv, NEW kind \in Kinds, NEW output, Sending(kind, output), kind \notin Barriers,
         receiver_alive, receiver_alive' = receiver_alive, accepting' = accepting
  PROVE  Gate'
<1>1. /\ Len(sent) \in Nat /\ epoch \in Nat /\ epoch' = epoch /\ (closed' => closed)
      /\ Len(sent') = Len(sent) + 1 /\ ~exited'
      /\ \A i \in 1..Len(sent) : sent'[i] = sent[i]
  BY DEF Sending, Logs, Extends
<1>2. ASSUME accepting', closed' PROVE \E k \in (epoch' + 1)..Len(sent') : sent'[k].kind = "Connected"
  <2>1. PICK k \in (epoch + 1)..Len(sent) : sent[k].kind = "Connected"
    BY <1>1, <1>2 DEF LogInv, Gate
  <2>2. k \in 1..Len(sent) /\ k \in (epoch' + 1)..Len(sent')
    BY <1>1
  <2> QED BY <1>1, <2>1, <2>2
<1> QED BY <1>1, <1>2 DEF Gate

\* What is left to show of a send that the receiver is there to get.
Settles ==
  /\ control' \in Seq(Controls(Len(sent'))) /\ Accounts(control', received', sent')
  /\ latest_frame' \in Frames(1..Len(sent')) \cup {None}
  /\ latest_delta' \in Deltas(1..Len(sent')) \cup {None}
  /\ accepting' \in BOOLEAN /\ Gate' /\ OnlyCurrentSessionPending' /\ UpdateFollowsFrame'

LEMMA SendSettles ==
  ASSUME LogInv, NEW kind \in Kinds, NEW output, Sending(kind, output),
         receiver_alive, Notify, UNCHANGED <<senders, receiver_alive>>, Settles
  PROVE  LogInv'
<1>1. /\ Len(sent) \in Nat /\ MaxSends \in Nat /\ Len(sent') = Len(sent) + 1 /\ Len(sent) < MaxSends
      /\ epoch' \in Nat /\ epoch' <= Len(sent')
  BY LogBounds DEF Sending, Logs, Extends
<1>2. \A n \in 1..Len(sent') : n \in 1..MaxSends /\ n \in Nat /\ n <= Len(sent')
  BY <1>1
<1>3. latest_frame' # None => latest_frame' \in Frames(1..MaxSends) /\ latest_frame'.gen <= Len(sent')
  BY <1>2 DEF Settles, Frames
<1>4. latest_delta' # None => latest_delta' \in Deltas(1..MaxSends) /\ latest_delta'.gen <= Len(sent')
  BY <1>2 DEF Settles, Deltas
<1>5. \A i \in DOMAIN control' : control'[i].kind \in ControlKinds
  BY QueueElements DEF Settles
<1>6. closed' \in BOOLEAN /\ exited' \in BOOLEAN
  <2>1. exited' = FALSE /\ closed' = (closed \/ (receiver_alive /\ kind \in Barriers))
    BY DEF Sending
  <2> QED BY <2>1
<1>7. LogTypeOK'
  <2>1. epoch' \in 0..MaxSends
    BY <1>1
  <2>2. senders' \in 0..MaxSenders /\ receiver_alive' \in BOOLEAN /\ receiver_waiting' \in BOOLEAN
    BY DEF LogInv, LogTypeOK, Notify
  <2>3. /\ latest_frame' \in Frames(1..MaxSends) \cup {None} /\ latest_delta' \in Deltas(1..MaxSends) \cup {None}
        /\ accepting' \in BOOLEAN
    BY <1>3, <1>4 DEF Settles
  <2> QED BY <1>5, <1>6, <2>1, <2>2, <2>3 DEF LogTypeOK
<1>8. Numbered'
  BY <1>1, <1>3, <1>4 DEF Settles, Sending, Extends, Numbered
<1>9. NoLostWakeup'
  BY DEF Notify, NoLostWakeup
<1> QED BY <1>7, <1>8, <1>9 DEF Settles, LogInv, InOrder

\* The pending pictures, where a send leaves them, stay numbered.
LEMMA PicturesStayNumbered ==
  ASSUME LogInv, NEW kind \in Kinds, NEW output, Sending(kind, output)
  PROVE  /\ latest_frame \in Frames(1..Len(sent')) \cup {None}
         /\ latest_delta \in Deltas(1..Len(sent')) \cup {None}
         /\ latest_frame # None => latest_frame.gen \in Nat /\ latest_frame.gen <= Len(sent)
<1>1. Len(sent) \in Nat /\ MaxSends \in Nat /\ Len(sent') = Len(sent) + 1
  BY LogBounds DEF Sending, Logs, Extends
<1>2. \A n \in 1..MaxSends : n \in Nat /\ (n <= Len(sent) => n \in 1..Len(sent'))
  BY <1>1
<1>3. latest_frame # None =>
        latest_frame \in Frames(1..Len(sent')) /\ latest_frame.gen \in Nat /\ latest_frame.gen <= Len(sent)
  BY <1>2 DEF LogInv, LogTypeOK, Numbered, Frames
<1>4. latest_delta # None => latest_delta \in Deltas(1..Len(sent'))
  BY <1>2 DEF LogInv, LogTypeOK, Numbered, Deltas
<1> QED BY <1>3, <1>4

LEMMA SendBarrierSettles ==
  ASSUME LogInv, NEW kind \in Kinds, NEW output, Sending(kind, output),
         receiver_alive, UNCHANGED receiver_alive, SendBarrier(output)
  PROVE  Settles
<1>1. kind \in Barriers /\ kind \in ControlKinds
  BY DEF SendBarrier, Sending, ControlKinds
<1>2. latest_frame' = None /\ latest_delta' = None /\ accepting' = FALSE
  BY DEF SendBarrier, CloseSessionOutputs
<1> DEFINE rest == DiscardPendingSessionControls(control)
<1>3. /\ SentInOrder(sent) /\ control \in Seq(Controls(Len(sent))) /\ received \in Seq(Controls(Len(sent)))
      /\ Accounts(control, received, sent)
  BY DEF LogInv, Numbered, InOrder
<1>4. /\ rest \in Seq(Controls(Len(sent))) /\ Accounts(rest, received, sent)
      /\ \A i \in DOMAIN rest : ~IsSessionScopedControl(rest[i])
  BY <1>3, DiscardAccounts
<1>5. control' = Append(rest, output)
  BY DEF SendBarrier
<1> HIDE DEF rest
<1>6. control' \in Seq(Controls(Len(sent'))) /\ Accounts(control', received', sent')
  BY <1>1, <1>3, <1>4, <1>5, AppendAccounts DEF Sending
<1>7. \A i \in DOMAIN control' : ~IsSessionScopedControl(control'[i])
  <2>1. ~IsSessionScopedControl(output)
    BY <1>1 DEF Sending, IsSessionScopedControl, Barriers
  <2> QED BY <1>4, <1>5, <2>1
<1>8. OnlyCurrentSessionPending' /\ UpdateFollowsFrame'
  BY <1>2, <1>7 DEF OnlyCurrentSessionPending, UpdateFollowsFrame
<1>9. Gate'
  BY <1>2 DEF Gate, Sending
<1> QED BY <1>2, <1>6, <1>8, <1>9 DEF Settles

LEMMA SendConnectedSettles ==
  ASSUME LogInv, NEW kind \in Kinds, NEW output, Sending(kind, output),
         receiver_alive, UNCHANGED receiver_alive, SendConnected(output)
  PROVE  Settles
<1>1. kind = "Connected" /\ kind \notin Barriers /\ kind \in ControlKinds /\ ~IsSessionScopedControl(output)
  BY DEF SendConnected, Sending, ControlKinds, Barriers, IsSessionScopedControl
<1>2. latest_frame' = latest_frame /\ latest_delta' = latest_delta /\ accepting' = TRUE
  BY DEF SendConnected
<1>3. /\ SentInOrder(sent) /\ control \in Seq(Controls(Len(sent))) /\ received \in Seq(Controls(Len(sent)))
      /\ Accounts(control, received, sent)
  BY DEF LogInv, Numbered, InOrder
<1>4. control' = Append(control, output)
  BY DEF SendConnected
<1>5. control' \in Seq(Controls(Len(sent'))) /\ Accounts(control', received', sent')
  BY <1>1, <1>3, <1>4, AppendAccounts DEF Sending
<1>6. OnlyCurrentSessionPending'
  <2>1. \A i \in DOMAIN control' : (i \in DOMAIN control /\ control'[i] = control[i]) \/ control'[i] = output
    BY <1>3, <1>4
  <2>2. \A i \in DOMAIN control' : IsSessionScopedControl(control'[i]) => Fresh(control[i])'
    BY <1>1, <2>1, PendingStaysFresh DEF Fresh
  <2> QED BY <1>1, <1>2, <2>2, PendingStaysFresh DEF OnlyCurrentSessionPending
<1>7. UpdateFollowsFrame'
  BY <1>2 DEF LogInv, UpdateFollowsFrame
<1>8. Gate'
  <2>1. /\ Len(sent) \in Nat /\ epoch' = epoch /\ epoch \in Nat /\ epoch <= Len(sent)
        /\ Len(sent') = Len(sent) + 1 /\ sent'[Len(sent) + 1].kind = "Connected"
    BY <1>1 DEF Sending, Logs, Extends
  <2>2. Len(sent) + 1 \in (epoch' + 1)..Len(sent')
    BY <2>1
  <2> QED BY <2>1, <2>2 DEF Gate, Sending
<1> QED BY <1>2, <1>5, <1>6, <1>7, <1>8, PicturesStayNumbered DEF Settles

LEMMA SendFrameSettles ==
  ASSUME LogInv, NEW kind \in Kinds, NEW output, Sending(kind, output),
         receiver_alive, UNCHANGED receiver_alive, SendFrame(output)
  PROVE  Settles
<1>1. kind = "Frame" /\ kind \notin Barriers /\ ~IsLossless(output)
  BY DEF SendFrame, Sending, Barriers, IsLossless
<1>2. /\ accepting /\ accepting' = accepting /\ latest_frame' = output /\ latest_delta' = None
      /\ control' = control
  BY DEF SendFrame
<1>3. control' \in Seq(Controls(Len(sent'))) /\ Accounts(control', received', sent')
  <2>1. Accounts(control, received, sent)
    BY DEF LogInv, InOrder
  <2>2. control \in Seq(Controls(Len(sent))) /\ received \in Seq(Controls(Len(sent)))
    BY DEF LogInv, Numbered
  <2> QED BY <1>1, <1>2, <2>1, <2>2, SkipAccounts DEF Sending
<1>4. output \in Frames(1..Len(sent')) /\ output # None
  <2>1. Len(sent) + 1 \in 1..MaxSends /\ Len(sent) + 1 \in 1..Len(sent')
    BY LogBounds DEF Sending, Logs, Extends
  <2>2. output \in Frames({Len(sent) + 1}) /\ output # None
    BY <1>1, <2>1, OutputShape DEF Sending, Logs
  <2> QED BY <2>1, <2>2 DEF Frames
<1>5. OnlyCurrentSessionPending'
  <2>1. Fresh(latest_frame)'
    BY <1>1, <1>2, AcceptedIsFresh DEF Fresh
  <2>2. \A i \in DOMAIN control' : IsSessionScopedControl(control'[i]) => Fresh(control[i])'
    BY <1>1, <1>2, PendingStaysFresh DEF Fresh
  <2> QED BY <1>2, <2>1, <2>2 DEF OnlyCurrentSessionPending
<1>6. UpdateFollowsFrame'
  BY <1>2 DEF UpdateFollowsFrame
<1>7. Gate'
  BY <1>1, <1>2, GateStays
<1>8. accepting' \in BOOLEAN
  BY <1>2 DEF LogInv, LogTypeOK
<1> QED BY <1>2, <1>3, <1>4, <1>5, <1>6, <1>7, <1>8 DEF Settles

LEMMA SendDeltaSettles ==
  ASSUME LogInv, NEW kind \in Kinds, NEW output, Sending(kind, output),
         receiver_alive, UNCHANGED receiver_alive, SendDelta(output)
  PROVE  Settles
<1>1. kind = "Delta" /\ kind \notin Barriers /\ ~IsLossless(output)
  BY DEF SendDelta, Sending, Barriers, IsLossless
<1>2. /\ accepting /\ accepting' = accepting /\ latest_frame' = latest_frame
      /\ latest_delta' = MergeDeltas(latest_delta, output) /\ control' = control
  BY DEF SendDelta
<1>3. control' \in Seq(Controls(Len(sent'))) /\ Accounts(control', received', sent')
  <2>1. Accounts(control, received, sent)
    BY DEF LogInv, InOrder
  <2>2. control \in Seq(Controls(Len(sent))) /\ received \in Seq(Controls(Len(sent)))
    BY DEF LogInv, Numbered
  <2> QED BY <1>1, <1>2, <2>1, <2>2, SkipAccounts DEF Sending
<1>4. /\ Len(sent) \in Nat /\ Len(sent) + 1 \in 1..MaxSends
      /\ Len(sent) + 1 \in 1..Len(sent') /\ output.gen = Len(sent) + 1
  BY LogBounds DEF Sending, Logs, Extends
<1>5. latest_delta' \in Deltas(1..Len(sent')) /\ latest_delta' # None /\ latest_delta'.gen = output.gen
  <2>1. output \in Deltas({Len(sent) + 1})
    BY <1>1, <1>4, OutputShape DEF Sending, Logs
  <2>2. output \in Deltas(1..Len(sent'))
    BY <1>4, <2>1 DEF Deltas
  <2>3. latest_delta \in Deltas(1..MaxSends) \cup {None}
    BY DEF LogInv, LogTypeOK
  <2>4. PICK earlier, later : earlier = 1..MaxSends /\ later = 1..Len(sent')
    OBVIOUS
  <2>5. latest_delta \in Deltas(earlier) \cup {None} /\ output \in Deltas(later)
    BY <2>2, <2>3, <2>4
  <2>6. /\ MergeDeltas(latest_delta, output) \in Deltas(later)
        /\ MergeDeltas(latest_delta, output) # None
        /\ MergeDeltas(latest_delta, output).gen = output.gen
    BY <2>5, MergeShape
  <2> QED BY <1>2, <2>4, <2>6
<1>6. OnlyCurrentSessionPending'
  <2>1. Fresh(latest_delta)'
    BY <1>1, <1>2, <1>5, AcceptedIsFresh DEF Fresh
  <2>2. \A i \in DOMAIN control' : IsSessionScopedControl(control'[i]) => Fresh(control[i])'
    BY <1>1, <1>2, PendingStaysFresh DEF Fresh
  <2> QED BY <1>1, <1>2, <2>1, <2>2, PendingStaysFresh DEF OnlyCurrentSessionPending
<1>7. UpdateFollowsFrame'
  BY <1>2, <1>4, <1>5, PicturesStayNumbered DEF UpdateFollowsFrame
<1>8. Gate'
  BY <1>1, <1>2, GateStays
<1>9. accepting' \in BOOLEAN
  BY <1>2 DEF LogInv, LogTypeOK
<1> QED BY <1>2, <1>3, <1>5, <1>6, <1>7, <1>8, <1>9, PicturesStayNumbered DEF Settles

LEMMA SendLateSettles ==
  ASSUME LogInv, NEW kind \in Kinds, NEW output, Sending(kind, output),
         receiver_alive, UNCHANGED receiver_alive, SendLate(output)
  PROVE  Settles
<1>1. kind \notin Barriers /\ ~IsLossless(output)
  BY DEF SendLate, Sending, Barriers, IsLossless, IsSessionScopedControl
<1>2. /\ accepting' = accepting /\ latest_frame' = latest_frame
      /\ latest_delta' = latest_delta /\ control' = control
  BY DEF SendLate
<1>3. control' \in Seq(Controls(Len(sent'))) /\ Accounts(control', received', sent')
  <2>1. Accounts(control, received, sent)
    BY DEF LogInv, InOrder
  <2>2. control \in Seq(Controls(Len(sent))) /\ received \in Seq(Controls(Len(sent)))
    BY DEF LogInv, Numbered
  <2> QED BY <1>1, <1>2, <2>1, <2>2, SkipAccounts DEF Sending
<1>4. OnlyCurrentSessionPending'
  <2>1. \A i \in DOMAIN control' : IsSessionScopedControl(control'[i]) => Fresh(control[i])'
    BY <1>1, <1>2, PendingStaysFresh DEF Fresh
  <2> QED BY <1>1, <1>2, <2>1, PendingStaysFresh DEF OnlyCurrentSessionPending
<1>5. UpdateFollowsFrame'
  BY <1>2 DEF LogInv, UpdateFollowsFrame
<1>6. Gate'
  BY <1>1, <1>2, GateStays
<1>7. accepting' \in BOOLEAN
  BY <1>2 DEF LogInv, LogTypeOK
<1> QED BY <1>2, <1>3, <1>4, <1>5, <1>6, <1>7, PicturesStayNumbered DEF Settles

LEMMA SendControlSettles ==
  ASSUME LogInv, NEW kind \in Kinds, NEW output, Sending(kind, output),
         receiver_alive, UNCHANGED receiver_alive, SendControl(output)
  PROVE  Settles
<1>1. /\ kind \notin Barriers /\ kind \in ControlKinds
      /\ IsSessionScopedControl(output) => accepting
  BY DEF SendControl, Sending, ControlKinds, Barriers, IsSessionScopedControl
<1>2. /\ accepting' = accepting /\ latest_frame' = latest_frame
      /\ latest_delta' = latest_delta /\ control' = EnqueueControl(control, output)
  BY DEF SendControl
<1>3. /\ SentInOrder(sent) /\ control \in Seq(Controls(Len(sent))) /\ received \in Seq(Controls(Len(sent)))
      /\ Accounts(control, received, sent)
  BY DEF LogInv, Numbered, InOrder
<1>4. /\ control' \in Seq(Controls(Len(sent'))) /\ Accounts(control', received', sent')
      /\ \A i \in DOMAIN control' : (i \in DOMAIN control /\ control'[i] = control[i]) \/ control'[i] = output
  <2>1. CASE control' = Append(control, output)
    <3>1. \A i \in DOMAIN control' : (i \in DOMAIN control /\ control'[i] = control[i]) \/ control'[i] = output
      BY <1>3, <2>1
    <3> QED BY <1>1, <1>3, <2>1, <3>1, AppendAccounts DEF Sending
  <2>2. CASE /\ control # <<>> /\ control[Len(control)].kind = kind
             /\ kind \in {"CursorPosition", "CursorBitmap"}
             /\ control' = [control EXCEPT ![Len(control)] = output]
    <3>1. \A i \in DOMAIN control' : (i \in DOMAIN control /\ control'[i] = control[i]) \/ control'[i] = output
      BY <1>3, <2>2
    <3>2. ~IsLossless(control[Len(control)])
      BY <2>2 DEF IsLossless, Barriers
    <3> QED BY <1>1, <1>3, <2>2, <3>1, <3>2, CoalesceAccounts DEF Sending
  <2> QED BY <1>2, <2>1, <2>2 DEF EnqueueControl, Sending
<1>5. OnlyCurrentSessionPending'
  <2>1. \A i \in DOMAIN control' : IsSessionScopedControl(control'[i]) => Fresh(control[i])'
    BY <1>1, <1>4, PendingStaysFresh, AcceptedIsFresh DEF Fresh
  <2> QED BY <1>1, <1>2, <2>1, PendingStaysFresh DEF OnlyCurrentSessionPending
<1>6. UpdateFollowsFrame'
  BY <1>2 DEF LogInv, UpdateFollowsFrame
<1>7. Gate'
  BY <1>1, <1>2, GateStays
<1>8. accepting' \in BOOLEAN
  BY <1>2 DEF LogInv, LogTypeOK
<1> QED BY <1>2, <1>4, <1>5, <1>6, <1>7, <1>8, PicturesStayNumbered DEF Settles

LEMMA SendKeepsInv ==
  ASSUME LogInv, SendAny
  PROVE  LogInv'
<1>0. PICK kind \in Kinds : \E output : Sending(kind, output) /\ Send(output)
  BY SendAnyFacts
<1>1. PICK output : Sending(kind, output) /\ Send(output)
  BY <1>0
<1>2. CASE ~receiver_alive /\ UNCHANGED mailbox
  <2>1. MailboxEmpty /\ control' = <<>> /\ latest_frame' = None /\ latest_delta' = None
    BY <1>2 DEF LogInv, Gate, MailboxEmpty, mailbox
  <2>2. /\ epoch' = epoch /\ closed' = closed /\ exited' = FALSE /\ receiver_alive' = receiver_alive
        /\ accepting' = accepting /\ senders' = senders /\ receiver_waiting' = receiver_waiting
    BY <1>1, <1>2 DEF Sending, mailbox, LogInv, LogTypeOK
  <2>3. LogTypeOK'
    <3>1. \A i \in DOMAIN control' : control'[i].kind \in ControlKinds
      BY <2>1
    <3>2. latest_frame' \in Frames(1..MaxSends) \cup {None} /\ latest_delta' \in Deltas(1..MaxSends) \cup {None}
      BY <2>1
    <3> QED BY <2>2, <3>1, <3>2 DEF LogInv, LogTypeOK
  <2>4. Numbered'
    <3>1. epoch' <= Len(sent')
      BY <1>1, <2>2 DEF Sending, Extends
    <3> QED BY <1>1, <2>1, <2>2, <3>1 DEF Numbered, Sending, Extends
  <2>5. ~receiver_waiting'
    BY <1>2, <2>2 DEF LogInv, NoLostWakeup
  <2> QED BY <1>2, <2>1, <2>2, <2>3, <2>4, <2>5 DEF LogInv, Gate, MailboxEmpty,
            OnlyCurrentSessionPending, UpdateFollowsFrame, NoLostWakeup
<1>3. CASE /\ receiver_alive /\ Notify /\ UNCHANGED <<senders, receiver_alive>>
           /\ \/ SendBarrier(output) \/ SendConnected(output) \/ SendFrame(output)
              \/ SendDelta(output) \/ SendLate(output) \/ SendControl(output)
  <2>1. Settles
    BY <1>1, <1>3, SendBarrierSettles, SendConnectedSettles, SendFrameSettles, SendDeltaSettles,
       SendLateSettles, SendControlSettles
  <2> QED BY <1>1, <1>3, <2>1, SendSettles
<1> QED BY <1>1, <1>2, <1>3 DEF Send, SendToClosed

LEMMA StartGenerationKeepsInv ==
  ASSUME LogInv, StartGeneration
  PROVE  LogInv'
<1>1. /\ latest_frame' = None /\ latest_delta' = None /\ accepting' = FALSE /\ receiver_waiting' = FALSE
      /\ UNCHANGED <<senders, receiver_alive, sent, received, exited>>
      /\ epoch' = Len(sent) /\ closed' = TRUE /\ ~exited
      /\ control' = DiscardPendingSessionControls(control)
  BY DEF StartGeneration, BeginGeneration, CloseSessionOutputs, Notify, LogInv, Gate
<1>2. /\ SentInOrder(sent) /\ control \in Seq(Controls(Len(sent))) /\ received \in Seq(Controls(Len(sent)))
      /\ (receiver_alive => Accounts(control, received, sent))
  BY DEF LogInv, Numbered, InOrder
<1>3. /\ control' \in Seq(Controls(Len(sent)))
      /\ receiver_alive => Accounts(control', received, sent)
      /\ \A i \in DOMAIN control' : ~IsSessionScopedControl(control'[i])
  BY <1>1, <1>2, DiscardAccounts
<1>4. Len(sent) \in 0..MaxSends
  BY <1>2, LogBounds DEF SentInOrder
<1>5. LogTypeOK'
  <2>1. \A i \in DOMAIN control' : control'[i].kind \in ControlKinds
    BY <1>3, QueueElements
  <2> QED BY <1>1, <1>4, <2>1 DEF LogInv, LogTypeOK
<1>6. Numbered'
  BY <1>1, <1>2, <1>3, <1>4 DEF Numbered
<1>7. receiver_alive' \/ exited' => InOrder'
  BY <1>1, <1>3 DEF InOrder
<1>8. Gate'
  <2>1. ASSUME ~receiver_alive PROVE control' = <<>>
    <3>1. control = <<>>
      BY <2>1 DEF LogInv, Gate, MailboxEmpty
    <3>2. Len(control) = 0 /\ DOMAIN control = 1..Len(control) /\ Len(control) \in Nat
      BY <3>1
    <3>3. Retains(control', control)
      BY <1>1, <3>2, DiscardKeepsOrder
    <3>4. DOMAIN control' = {}
      BY <3>2, <3>3 DEF Retains
    <3> QED BY <1>3, <3>4
  <2> QED BY <1>1, <2>1 DEF Gate, MailboxEmpty
<1>9. OnlyCurrentSessionPending' /\ UpdateFollowsFrame' /\ NoLostWakeup'
  BY <1>1, <1>3 DEF OnlyCurrentSessionPending, UpdateFollowsFrame, NoLostWakeup
<1> QED BY <1>5, <1>6, <1>7, <1>8, <1>9 DEF LogInv

\* The outputs and their history are left alone.
LEMMA SendersKeepInv ==
  ASSUME LogInv, AddSender \/ RemoveSender
  PROVE  LogInv'
<1>1. /\ UNCHANGED <<control, latest_frame, latest_delta, accepting, receiver_alive,
                     sent, received, epoch, closed, exited>>
      /\ senders # 0 /\ ~exited
  BY DEF AddSender, RemoveSender, CloneSender, DropSender, logs, LogInv, Gate
<1>2. senders' \in 0..MaxSenders /\ receiver_waiting' \in BOOLEAN /\ NoLostWakeup'
  <2>1. senders \in 0..MaxSenders /\ receiver_waiting \in BOOLEAN /\ MaxSenders \in Nat /\ NoLostWakeup
    BY LogBounds DEF LogInv, LogTypeOK
  <2>2. CASE AddSender
    BY <1>1, <2>1, <2>2 DEF AddSender, CloneSender, NoLostWakeup, MailboxEmpty
  <2>3. CASE RemoveSender
    <3>1. senders' = senders - 1 /\ receiver_waiting' = (receiver_waiting /\ senders' # 0)
      BY <1>1, <2>3 DEF RemoveSender, DropSender
    <3>2. senders' \in 0..MaxSenders
      BY <1>1, <2>1, <3>1
    <3>3. receiver_waiting' \in BOOLEAN /\ (receiver_waiting' => receiver_waiting /\ senders' # 0)
      BY <2>1, <3>1
    <3> QED BY <1>1, <2>1, <3>2, <3>3 DEF NoLostWakeup, MailboxEmpty
  <2> QED BY <2>2, <2>3
<1>3. LogTypeOK' /\ Numbered' /\ InOrder' = InOrder /\ Gate'
  BY <1>1, <1>2 DEF LogInv, LogTypeOK, Numbered, InOrder, Gate, MailboxEmpty
<1>4. OnlyCurrentSessionPending' /\ UpdateFollowsFrame'
  BY <1>1 DEF LogInv, OnlyCurrentSessionPending, Fresh, UpdateFollowsFrame
<1> QED BY <1>1, <1>2, <1>3, <1>4 DEF LogInv

LEMMA ReceiveKeepsInv ==
  ASSUME LogInv, Receive
  PROVE  LogInv'
<1>1. /\ UNCHANGED <<accepting, senders, receiver_alive, receiver_waiting, sent, epoch, closed, exited>>
      /\ receiver_alive /\ ~receiver_waiting
  BY DEF Receive, Recv
<1>2. /\ SentInOrder(sent) /\ control \in Seq(Controls(Len(sent))) /\ received \in Seq(Controls(Len(sent)))
      /\ Accounts(control, received, sent)
  BY <1>1 DEF LogInv, Numbered, InOrder
<1>3. /\ control' \in Seq(Controls(Len(sent))) /\ received' \in Seq(Controls(Len(sent)))
      /\ Accounts(control', received', sent)
      /\ \A i \in DOMAIN control' : \E k \in DOMAIN control : control'[i] = control[k]
      /\ latest_frame' \in {latest_frame, None} /\ latest_delta' \in {latest_delta, None}
  <2>1. CASE control # <<>>
    <3>1. /\ control' = Tail(control) /\ received' = Append(received, Head(control))
          /\ latest_frame' = latest_frame /\ latest_delta' = latest_delta
      BY <2>1 DEF Receive, Recv, RecvControl, RecvFrame, RecvDelta, Received
    <3>2. \A i \in DOMAIN Tail(control) : \E k \in DOMAIN control : Tail(control)[i] = control[k]
      BY <1>2, <2>1, ReceiveAccounts
    <3> QED BY <1>2, <2>1, <3>1, <3>2, ReceiveAccounts
  <2>2. CASE control = <<>>
    <3>1. /\ control' = control /\ received' = received
          /\ latest_frame' \in {latest_frame, None} /\ latest_delta' \in {latest_delta, None}
      BY <2>2 DEF Receive, Recv, RecvControl, RecvFrame, RecvDelta, Received
    <3> QED BY <1>2, <3>1
  <2> QED BY <2>1, <2>2
<1>4. LogTypeOK'
  <2>1. \A i \in DOMAIN control' : control'[i].kind \in ControlKinds
    BY <1>3, QueueElements
  <2> QED BY <1>1, <1>3, <2>1 DEF LogInv, LogTypeOK
<1>5. Numbered'
  BY <1>1, <1>2, <1>3 DEF LogInv, Numbered
<1>6. InOrder' /\ Gate' /\ NoLostWakeup'
  BY <1>1, <1>3 DEF LogInv, InOrder, Gate, NoLostWakeup
<1>7. OnlyCurrentSessionPending' /\ UpdateFollowsFrame'
  BY <1>1, <1>3 DEF LogInv, OnlyCurrentSessionPending, Fresh, UpdateFollowsFrame
<1> QED BY <1>4, <1>5, <1>6, <1>7 DEF LogInv

LEMMA ReceiverKeepsInv ==
  ASSUME LogInv, ReceiveWaits \/ ReceiveEnds
  PROVE  LogInv'
<1>1. CASE ReceiveWaits
  <2>1. /\ UNCHANGED <<control, latest_frame, latest_delta, accepting, senders, receiver_alive,
                       sent, received, epoch, closed, exited>>
        /\ receiver_waiting' = TRUE /\ receiver_alive /\ MailboxEmpty /\ senders # 0
    BY <1>1 DEF ReceiveWaits, RecvWait, logs
  <2>2. LogTypeOK' /\ Numbered' /\ InOrder' = InOrder /\ Gate' /\ NoLostWakeup'
    BY <2>1 DEF LogInv, LogTypeOK, Numbered, InOrder, Gate, MailboxEmpty, NoLostWakeup
  <2>3. OnlyCurrentSessionPending' /\ UpdateFollowsFrame'
    BY <2>1 DEF LogInv, OnlyCurrentSessionPending, Fresh, UpdateFollowsFrame
  <2> QED BY <2>1, <2>2, <2>3 DEF LogInv
<1>2. CASE ReceiveEnds
  <2>1. /\ UNCHANGED <<accepting, senders, sent, received, epoch, closed>>
        /\ receiver_waiting' = FALSE /\ receiver_alive /\ receiver_alive' = FALSE
        /\ control' = <<>> /\ latest_frame' = None /\ latest_delta' = None
        /\ exited' = (senders = 0 /\ MailboxEmpty)
    BY <1>2 DEF ReceiveEnds, DropReceiver, ClearMailbox, Notify
  <2>2. exited' \in BOOLEAN /\ (exited' => senders = 0 /\ control = <<>>)
    BY <2>1 DEF MailboxEmpty
  <2>3. LogTypeOK' /\ Numbered'
    <3>1. \A i \in DOMAIN control' : control'[i].kind \in ControlKinds
      BY <2>1
    <3>2. latest_frame' \in Frames(1..MaxSends) \cup {None} /\ latest_delta' \in Deltas(1..MaxSends) \cup {None}
      BY <2>1
    <3>3. LogTypeOK'
      BY <2>1, <2>2, <3>1, <3>2 DEF LogInv, LogTypeOK
    <3> QED BY <2>1, <3>3 DEF LogInv, Numbered
  <2>4. exited' => InOrder'
    BY <2>1, <2>2 DEF LogInv, InOrder
  <2>5. Gate' /\ OnlyCurrentSessionPending' /\ UpdateFollowsFrame' /\ NoLostWakeup'
    BY <2>1, <2>2 DEF Gate, MailboxEmpty, OnlyCurrentSessionPending, UpdateFollowsFrame, NoLostWakeup
  <2> QED BY <2>1, <2>3, <2>4, <2>5 DEF LogInv
<1> QED BY <1>1, <1>2

LEMMA LogInvStep == LogInv /\ [LogNext]_logVars => LogInv'
<1> SUFFICES ASSUME LogInv, [LogNext]_logVars PROVE LogInv'
  OBVIOUS
<1>1. CASE LogNext
  BY <1>1, SendKeepsInv, StartGenerationKeepsInv, SendersKeepInv, ReceiveKeepsInv, ReceiverKeepsInv
  DEF LogNext
<1>2. CASE UNCHANGED logVars
  <2>1. UNCHANGED <<control, latest_frame, latest_delta, accepting, senders, receiver_alive,
                    receiver_waiting, sent, received, epoch, closed, exited>>
    BY <1>2 DEF logVars, mailbox, logs
  <2>2. /\ LogTypeOK' = LogTypeOK /\ Numbered' = Numbered /\ InOrder' = InOrder /\ Gate' = Gate
        /\ OnlyCurrentSessionPending' = OnlyCurrentSessionPending
        /\ UpdateFollowsFrame' = UpdateFollowsFrame /\ NoLostWakeup' = NoLostWakeup
    BY <2>1 DEF LogTypeOK, Numbered, InOrder, Gate, MailboxEmpty, OnlyCurrentSessionPending, Fresh,
                UpdateFollowsFrame, NoLostWakeup
  <2> QED BY <2>1, <2>2 DEF LogInv
<1> QED BY <1>1, <1>2

\* The account of the two sequences is the promise about their concatenation.
LEMMA AccountsAreFifo == LogInv => LosslessControlIsFifo
<1> SUFFICES ASSUME LogInv, receiver_alive \/ exited
             PROVE  /\ \A i \in DOMAIN Delivered : Delivered[i].gen \in DOMAIN sent /\ Delivered[i] = sent[Delivered[i].gen]
                    /\ \A i, j \in DOMAIN Delivered : i < j => Delivered[i].gen < Delivered[j].gen
                    /\ \A n \in DOMAIN sent : IsLossless(sent[n]) => \E i \in DOMAIN Delivered : Delivered[i].gen = n
  BY DEF LosslessControlIsFifo
<1>1. /\ sent \in Seq(Outputs) /\ control \in Seq(Controls(Len(sent))) /\ received \in Seq(Controls(Len(sent)))
      /\ Accounts(control, received, sent)
  BY DEF LogInv, Numbered, InOrder, SentInOrder
<1>2. PICK r \in Nat : r = Len(received) /\ DOMAIN received = 1..r
  BY <1>1
<1>3. PICK c \in Nat : c = Len(control) /\ DOMAIN control = 1..c
  BY <1>1
<1>4. /\ DOMAIN Delivered = 1..(r + c)
      /\ \A i \in 1..(r + c) : Delivered[i] = IF i <= r THEN received[i] ELSE control[i - r]
  BY <1>1, <1>2, <1>3 DEF Delivered
<1>5. /\ \A i \in DOMAIN received : received[i].gen \in DOMAIN sent
      /\ \A i \in DOMAIN control : control[i].gen \in DOMAIN sent
  BY <1>1, QueueElements
<1>6. \A i \in DOMAIN Delivered :
        \/ i \in DOMAIN received /\ Delivered[i] = received[i]
        \/ i - r \in DOMAIN control /\ Delivered[i] = control[i - r]
  <2> SUFFICES ASSUME NEW i \in 1..(r + c)
               PROVE  \/ i \in 1..r /\ Delivered[i] = received[i]
                      \/ i - r \in 1..c /\ Delivered[i] = control[i - r]
    BY <1>2, <1>3, <1>4
  <2>1. (i \in 1..r /\ i <= r) \/ (i - r \in 1..c /\ ~(i <= r))
    OBVIOUS
  <2> QED BY <1>4, <2>1
<1>7. \A i \in DOMAIN Delivered : Delivered[i].gen \in DOMAIN sent /\ Delivered[i] = sent[Delivered[i].gen]
  BY <1>1, <1>5, <1>6 DEF Accounts
<1>8. ASSUME NEW i \in DOMAIN Delivered, NEW j \in DOMAIN Delivered, i < j
      PROVE  Delivered[i].gen < Delivered[j].gen
  <2>1. CASE j <= r
    BY <1>1, <1>2, <1>4, <1>8, <2>1 DEF Accounts
  <2>2. CASE i <= r /\ j > r
    <3>1. i \in DOMAIN received /\ j - r \in DOMAIN control
      BY <1>2, <1>3, <1>4, <1>8, <2>2
    <3> QED BY <1>1, <1>4, <2>2, <3>1 DEF Accounts
  <2>3. CASE i > r
    <3>1. i - r \in DOMAIN control /\ j - r \in DOMAIN control /\ i - r < j - r /\ j > r
      BY <1>2, <1>3, <1>4, <1>8, <2>3
    <3>2. control[i - r].gen < control[j - r].gen
      BY <1>1, <3>1 DEF Accounts
    <3> QED BY <1>4, <2>3, <3>1, <3>2
  <2> QED BY <1>4, <1>8, <2>1, <2>2, <2>3
<1>9. ASSUME NEW n \in DOMAIN sent, IsLossless(sent[n])
      PROVE  \E i \in DOMAIN Delivered : Delivered[i].gen = n
  <2>1. ASSUME NEW i \in DOMAIN received, received[i].gen = n
        PROVE  \E k \in DOMAIN Delivered : Delivered[k].gen = n
    BY <1>2, <1>4, <2>1
  <2>2. ASSUME NEW i \in DOMAIN control, control[i].gen = n
        PROVE  \E k \in DOMAIN Delivered : Delivered[k].gen = n
    <3>1. i + r \in 1..(r + c) /\ ~(i + r <= r) /\ (i + r) - r = i
      BY <1>3
    <3>2. i + r \in DOMAIN Delivered /\ Delivered[i + r] = control[i]
      BY <1>4, <3>1
    <3> QED BY <2>2, <3>2
  <2> QED BY <1>1, <1>9, <2>1, <2>2 DEF Accounts
<1> QED BY <1>7, <1>8, <1>9

\* Whatever the senders send and in whatever order they clone and drop their
\* handles: connection, status, failure and termination outputs reach the receiver
\* once each and in order, nothing of a session that has ended is pending, a
\* pending update follows the pending frame, and the receiver never sleeps on a
\* mailbox that has something for it.
THEOREM VncMailboxSound == LogSpec => []MailboxIsSound
<1>1. LogInv => MailboxIsSound
  BY AccountsAreFifo DEF LogInv, MailboxIsSound
<1> QED BY LogInvInit, LogInvStep, <1>1, PTL DEF LogSpec
=============================================================================
