------------------------ MODULE RepairManagerProofs ------------------------
(***************************************************************************)
(* Proofs about repair requests, for any slots, block sizes, peers and     *)
(* socket channel capacity.                                                *)
(***************************************************************************)
EXTENDS RepairManager, FiniteSetTheorems, NaturalsInduction, TLAPS

\* A request carries a nonce that was drawn for it.
OwnNonce(r) == r.nonce = <<r.kind, r.slot, r.shred, r.nonce[4]>>

GoodRequests == {r \in Requests : OwnNonce(r)}

\* A batch is a finite set of packets.
Batches == {b \in SUBSET PacketType : IsFiniteSet(b)}

ResponseType ==
  [slot : Slots, index : Nat, nonce : Nonces, peer : Peers, valid : BOOLEAN]

LoopMsgs == [type : {"new", "timeout"}, req : GoodRequests]

\* The types, sharpened by what a fresh nonce rests on: only finitely many are
\* in use, and each names the request it was drawn for.
Typed ==
  /\ repair_tx \in Seq(RepairReqs)
  /\ processor \in Batches \cup {None}
  /\ out_q \in Seq(LoopMsgs)
  /\ outstanding \in SUBSET GoodRequests
  /\ IsFiniteSet(outstanding)
  /\ ticking \subseteq outstanding
  /\ resend \in GoodRequests \cup {None}
  /\ socket_tx \in Seq(Batches)
  /\ responses \in SUBSET ResponseType
  /\ IsFiniteSet(responses)
  /\ receiver \in [batch : Batches, shred : ShredType] \cup {None}
  /\ filter_tx \in SUBSET ShredType
  /\ peer_has \in [Slots -> Nat]

\* The inductive invariant.
IInv == Typed /\ NoStrandedEntry

-----------------------------------------------------------------------------
(* Finite sets and queues.                                                 *)

\* The values of a function on a finite set are finitely many.
LEMMA ImageFinite ==
  ASSUME NEW S, IsFiniteSet(S), NEW g, DOMAIN g = S, g = [x \in S |-> g[x]]
  PROVE  IsFiniteSet({g[x] : x \in S})
<1>. DEFINE T == {g[x] : x \in S}
<1>1. g \in [S -> T]
  OBVIOUS
<1>2. g \in Surjection(S, T)
  BY <1>1 DEF Surjection
<1>. QED
  BY <1>2, FS_Surjection

\* Finitely many messages have finitely many nonces.
LEMMA NoncesFinite ==
  ASSUME NEW S, IsFiniteSet(S)
  PROVE  IsFiniteSet({r.nonce : r \in S})
<1>. DEFINE g == [r \in S |-> r.nonce]
<1>1. IsFiniteSet({g[r] : r \in S})
  BY ImageFinite
<1>2. {g[r] : r \in S} = {r.nonce : r \in S}
  OBVIOUS
<1>. QED
  BY <1>1, <1>2

\* The messages in a queue are finitely many.
LEMMA SeqsFinite ==
  ASSUME NEW S, NEW q \in Seq(S)
  PROVE  IsFiniteSet(Seqs(q)) /\ Seqs(q) \subseteq S
<1>1. DOMAIN q = 1 .. Len(q) /\ Len(q) \in Nat /\ q = [i \in 1 .. Len(q) |-> q[i]]
  OBVIOUS
<1>2. IsFiniteSet(1 .. Len(q))
  <2>. DEFINE n == Len(q)
  <2>1. n \in Int /\ 1 \in Int
    BY <1>1
  <2>. HIDE DEF n
  <2>2. IsFiniteSet(1 .. n)
    BY <2>1, FS_Interval
  <2>. QED
    BY <2>2 DEF n
<1>. QED
  BY <1>1, <1>2, ImageFinite DEF Seqs

\* A queue after a send.
LEMMA SeqsAppend ==
  ASSUME NEW S, NEW q \in Seq(S), NEW x
  PROVE  Seqs(Append(q, x)) = Seqs(q) \cup {x}
<1>1. Len(Append(q, x)) = Len(q) + 1 /\ Len(q) \in Nat
  OBVIOUS
<1>2. /\ \A i \in 1 .. Len(q) : Append(q, x)[i] = q[i]
      /\ Append(q, x)[Len(q) + 1] = x
  OBVIOUS
<1>. QED
  BY <1>1, <1>2 DEF Seqs

\* A queue after several sends.
LEMMA SeqsConcat ==
  ASSUME NEW S, NEW q \in Seq(S), NEW p \in Seq(S)
  PROVE  q \o p \in Seq(S) /\ Seqs(q) \subseteq Seqs(q \o p)
<1>1. /\ q \o p \in Seq(S)
      /\ Len(q \o p) = Len(q) + Len(p) /\ Len(q) \in Nat /\ Len(p) \in Nat
      /\ \A i \in 1 .. Len(q) : (q \o p)[i] = q[i]
  OBVIOUS
<1>. QED
  BY <1>1 DEF Seqs

\* A queue of messages of one type is a queue of messages of a wider one.
LEMMA SeqWider ==
  ASSUME NEW S, NEW T, S \subseteq T, NEW q \in Seq(S)
  PROVE  q \in Seq(T)
  OBVIOUS

\* A queue after a receive.
LEMMA SeqsTail ==
  ASSUME NEW S, NEW q \in Seq(S), q # <<>>
  PROVE  /\ Head(q) \in S /\ Tail(q) \in Seq(S)
         /\ Seqs(q) = Seqs(Tail(q)) \cup {Head(q)}
<1>1. /\ Len(Tail(q)) = Len(q) - 1 /\ Len(q) \in Nat \ {0} /\ Head(q) = q[1]
      /\ \A i \in 1 .. Len(Tail(q)) : Tail(q)[i] = q[i + 1]
      /\ Head(q) \in S /\ Tail(q) \in Seq(S)
  OBVIOUS
<1>2. ASSUME NEW i \in 1 .. Len(q), i # 1
      PROVE  q[i] \in Seqs(Tail(q))
  <2>1. i - 1 \in 1 .. Len(Tail(q)) /\ (i - 1) + 1 = i
    BY <1>1, <1>2
  <2>. QED
    BY <1>1, <2>1 DEF Seqs
<1>3. \A i \in 1 .. Len(Tail(q)) : i + 1 \in 1 .. Len(q)
  BY <1>1
<1>4. 1 \in 1 .. Len(q)
  BY <1>1
<1>. QED
  BY <1>1, <1>2, <1>3, <1>4 DEF Seqs

\* Every set of numbers that is not empty has a least element.
LEMMA LeastElement ==
  ASSUME NEW T \in SUBSET Nat, T # {}
  PROVE  \E m \in T : \A k \in T : ~(k < m)
<1>. DEFINE R == OpToRel(<, Nat)
<1>1. IsWellFoundedOn(R, Nat)
  BY NatLessThanWellFounded
<1>2. \A x, y \in Nat : x < y => <<x, y>> \in R
  BY DEF OpToRel
<1>. HIDE DEF R
<1>3. \E x \in T : \A y \in T : ~(<<y, x>> \in R)
  BY <1>1, WFMin
<1>. QED
  BY <1>2, <1>3

-----------------------------------------------------------------------------
(* Requests.                                                               *)

\* Finitely many nonces are in use at any time.
LEMMA InUseFinite ==
  ASSUME Typed
  PROVE  IsFiniteSet(InUse)
<1>1. IsFiniteSet({r.nonce : r \in outstanding \cup responses})
  BY NoncesFinite, FS_Union DEF Typed
<1>2. IsFiniteSet({m.req.nonce : m \in Seqs(out_q)})
  <2>. DEFINE g == [m \in Seqs(out_q) |-> m.req.nonce]
  <2>1. IsFiniteSet(Seqs(out_q))
    BY SeqsFinite DEF Typed
  <2>2. IsFiniteSet({g[m] : m \in Seqs(out_q)})
    BY <2>1, ImageFinite
  <2>3. {g[m] : m \in Seqs(out_q)} = {m.req.nonce : m \in Seqs(out_q)}
    OBVIOUS
  <2>. QED
    BY <2>2, <2>3
<1>3. IsFiniteSet({p.nonce : p \in UNION Seqs(socket_tx)})
  <2>1. IsFiniteSet(Seqs(socket_tx)) /\ Seqs(socket_tx) \subseteq Batches
    BY SeqsFinite DEF Typed
  <2>2. \A b \in Seqs(socket_tx) : IsFiniteSet(b)
    BY <2>1 DEF Batches
  <2>3. IsFiniteSet(UNION Seqs(socket_tx))
    BY <2>1, <2>2, FS_UNION
  <2>. QED
    BY <2>3, NoncesFinite
<1>4. IsFiniteSet({p.nonce : p \in IF processor = None THEN {} ELSE processor})
  BY NoncesFinite, FS_EmptySet DEF Typed, Batches
<1>5. IsFiniteSet({p.nonce : p \in IF receiver = None THEN {} ELSE receiver.batch})
  BY NoncesFinite, FS_EmptySet DEF Typed, Batches
<1>6. IsFiniteSet(IF resend = None THEN {} ELSE {resend.nonce})
  BY FS_EmptySet, FS_Singleton
<1>. QED
  BY <1>1, <1>2, <1>3, <1>4, <1>5, <1>6, FS_Union DEF InUse

\* There is always a fresh nonce: more attempt numbers are tried than nonces
\* are in use.
LEMMA FreshNonceExists ==
  ASSUME Typed, NEW kind, NEW s, NEW i
  PROVE  \E k \in Nat : FreshNonce(kind, s, i) = <<kind, s, i, k>>
<1>. DEFINE n == Cardinality(InUse)
            f == [k \in 0 .. n |-> <<kind, s, i, k>>]
            Free(k) == /\ <<kind, s, i, k>> \notin InUse
                       /\ \A j \in 0 .. (k - 1) : <<kind, s, i, j>> \in InUse
            T == {k \in 0 .. n : <<kind, s, i, k>> \notin InUse}
<1>1. IsFiniteSet(InUse) /\ n \in Nat
  BY InUseFinite, FS_CardinalityType
<1>2. IsFiniteSet(0 .. n) /\ Cardinality(0 .. n) = n + 1
  BY <1>1, FS_Interval
<1>3. T # {}
  <2>1. SUFFICES ASSUME \A k \in 0 .. n : <<kind, s, i, k>> \in InUse
                 PROVE  FALSE
    OBVIOUS
  <2>2. f \in [0 .. n -> InUse]
    BY <2>1
  <2>3. n < n + 1
    BY <1>1
  <2>. HIDE DEF n, f
  <2>4. \E x, y \in 0 .. n : x # y /\ f[x] = f[y]
    <3>1. IsFiniteSet(0 .. n) /\ IsFiniteSet(InUse) /\ Cardinality(InUse) < Cardinality(0 .. n)
      BY <1>1, <1>2, <2>3 DEF n
    <3>. QED
      BY <2>2, <3>1, FS_PigeonHole
  <2>. USE DEF f
  <2>. QED
    BY <2>4
<1>4. T \in SUBSET Nat
  BY <1>1
<1>5. PICK k \in T : \A j \in T : ~(j < k)
  BY <1>3, <1>4, LeastElement
<1>6. k \in 0 .. n /\ Free(k)
  <2>1. k \in 0 .. n /\ <<kind, s, i, k>> \notin InUse
    BY <1>5
  <2>2. \A j \in 0 .. (k - 1) : <<kind, s, i, j>> \in InUse
    <3>1. TAKE j \in 0 .. (k - 1)
    <3>2. j \in 0 .. n /\ j < k
      BY <1>1, <2>1
    <3>. QED
      BY <1>5, <3>2
  <2>. QED
    BY <2>1, <2>2
<1>. DEFINE c == CHOOSE j \in 0 .. n : Free(j)
<1>7. c \in 0 .. n
  BY <1>6
<1>8. FreshNonce(kind, s, i) = <<kind, s, i, c>>
  BY DEF FreshNonce
<1>9. c \in Nat
  BY <1>1, <1>7
<1>. HIDE DEF c
<1>. QED
  BY <1>8, <1>9

\* A request is recorded under a nonce of its own.
LEMMA RequestGood ==
  ASSUME Typed, NEW kind \in Kinds, NEW s \in Slots, NEW i \in Nat, NEW p \in Peers
  PROVE  LET r == Request(kind, s, i, p)
         IN /\ r \in GoodRequests
            /\ r.kind = kind /\ r.slot = s /\ r.shred = i
<1>1. PICK k \in Nat : FreshNonce(kind, s, i) = <<kind, s, i, k>>
  BY FreshNonceExists
<1>2. Request(kind, s, i, p) =
        [kind |-> kind, slot |-> s, shred |-> i, nonce |-> <<kind, s, i, k>>,
         peer |-> p]
  BY <1>1 DEF Request
<1>3. <<kind, s, i, k>> \in Nonces /\ <<kind, s, i, k>>[4] = k
  BY <1>1 DEF Nonces
<1>. QED
  BY <1>2, <1>3 DEF GoodRequests, Requests, OwnNonce

\* The ranks of a finite set of numbers are 1 to its size: every place in the
\* order is taken.
LEMMA RankOnto ==
  ASSUME NEW is \in SUBSET Nat, IsFiniteSet(is),
         NEW k \in 1 .. Cardinality(is)
  PROVE  \E i \in is : Rank(is, i) = k
<1>. DEFINE n == Cardinality(is)
            low(i) == {j \in is : j <= i}
            f == [i \in is |-> Rank(is, i)]
<1>1. n \in Nat
  BY FS_CardinalityType
<1>2. \A i \in is : /\ IsFiniteSet(low(i)) /\ Cardinality(low(i)) \in Nat
                    /\ Cardinality(low(i)) <= n
  <2>1. TAKE i \in is
  <2>2. low(i) \in SUBSET is
    OBVIOUS
  <2>. QED
    BY <2>2, FS_Subset, FS_CardinalityType
<1>3. \A i \in is : Cardinality(low(i)) # 0
  <2>1. TAKE i \in is
  <2>2. i \in low(i)
    OBVIOUS
  <2>. QED
    BY <1>2, <2>2, FS_EmptySet
<1>4. ASSUME NEW i \in is, NEW j \in is, i < j
      PROVE  Rank(is, i) # Rank(is, j)
  <2>1. low(i) \in SUBSET low(j)
    <3>1. i \in Nat /\ j \in Nat
      BY <1>4
    <3>2. \A x \in is : x <= i => x <= j
      BY <1>4, <3>1
    <3>. QED
      BY <3>2
  <2>2. j \in low(j) /\ j \notin low(i)
    BY <1>4
  <2>3. Cardinality(low(i)) # Cardinality(low(j))
    BY <1>2, <2>1, <2>2, FS_Subset
  <2>. QED
    BY <2>3 DEF Rank
<1>5. \A i \in is : Rank(is, i) \in 1 .. n
  BY <1>1, <1>2, <1>3 DEF Rank
<1>6. f \in [is -> 1 .. n]
  BY <1>5
<1>7. \A i, j \in is : i # j => f[i] # f[j]
  <2>1. TAKE i, j \in is
  <2>2. i < j \/ j < i \/ i = j
    OBVIOUS
  <2>. QED
    BY <1>4, <2>2
<1>8. f \in Injection(is, 1 .. n)
  BY <1>6, <1>7 DEF Injection, IsInjective
<1>9. IsFiniteSet(1 .. n) /\ Cardinality(1 .. n) = n
  <2>1. n \in Int /\ 1 \in Int
    BY <1>1
  <2>. HIDE DEF n
  <2>. QED
    BY <1>1, <2>1, FS_Interval
<1>10. f \in Surjection(is, 1 .. n)
  BY <1>8, <1>9, FS_Injection
<1>11. \E i \in is : f[i] = k
  BY <1>10 DEF Surjection
<1>. QED
  BY <1>11

\* process_missing_shreds makes one request for each shred.
LEMMA WindowGood ==
  ASSUME Typed, NEW s \in Slots, NEW is \in SUBSET Nat, IsFiniteSet(is),
         NEW peer, \A i \in is : peer[i] \in Peers
  PROVE  WindowRequests(s, is, peer) \in Seq(GoodRequests)
<1>. DEFINE nth(k) == CHOOSE i \in is : Rank(is, i) = k
            n == Cardinality(is)
            Of(k) == Request("window", s, nth(k), peer[nth(k)])
<1>1. n \in Nat
  BY FS_CardinalityType
<1>2. \A k \in 1 .. n : nth(k) \in is
  BY RankOnto
<1>. HIDE DEF nth
<1>3. \A k \in 1 .. n : nth(k) \in Nat /\ peer[nth(k)] \in Peers
  BY <1>2
<1>4. "window" \in Kinds
  BY DEF Kinds
<1>5. \A k \in 1 .. n : Of(k) \in GoodRequests
  BY <1>3, <1>4, RequestGood
<1>6. WindowRequests(s, is, peer) = [k \in 1 .. n |-> Of(k)]
  BY DEF WindowRequests, nth
<1>. HIDE DEF n, Of
<1>7. [k \in 1 .. n |-> Of(k)] \in Seq(GoodRequests)
  BY <1>1, <1>5
<1>. QED
  BY <1>6, <1>7

\* Requests on their way to the store.
LEMMA NewsGood ==
  ASSUME NEW reqs \in Seq(GoodRequests)
  PROVE  News(reqs) \in Seq(LoopMsgs)
<1>1. Len(reqs) \in Nat /\ \A k \in 1 .. Len(reqs) : reqs[k] \in GoodRequests
  OBVIOUS
<1>2. \A k \in 1 .. Len(reqs) : New(reqs[k]) \in LoopMsgs
  BY <1>1 DEF New, LoopMsgs
<1>. QED
  BY <1>1, <1>2 DEF News

\* A request as a packet.
LEMMA PacketGood ==
  ASSUME NEW r \in GoodRequests, NEW i \in Nat
  PROVE  Packet(r, i) \in PacketType
  BY DEF GoodRequests, Requests, Packet, PacketType

\* A batch holds a packet per request.
LEMMA PacketsGood ==
  ASSUME NEW reqs \in Seq(GoodRequests)
  PROVE  Packets(reqs) \in Batches
<1>. DEFINE g == [r \in Seqs(reqs) |-> Packet(r, r.shred)]
<1>1. IsFiniteSet(Seqs(reqs)) /\ Seqs(reqs) \subseteq GoodRequests
  BY SeqsFinite
<1>2. IsFiniteSet({g[r] : r \in Seqs(reqs)})
  BY <1>1, ImageFinite
<1>3. {g[r] : r \in Seqs(reqs)} = Packets(reqs)
  BY DEF Packets
<1>4. \A r \in Seqs(reqs) : Packet(r, r.shred) \in PacketType
  BY <1>1, PacketGood DEF GoodRequests, Requests
<1>5. Packets(reqs) \subseteq PacketType
  BY <1>4 DEF Packets
<1>. QED
  BY <1>2, <1>3, <1>5 DEF Batches

\* A batch of one packet, and a batch with one packet more.
LEMMA BatchAdd ==
  ASSUME NEW b \in Batches, NEW p \in PacketType
  PROVE  b \cup {p} \in Batches /\ {p} \in Batches /\ {} \in Batches
  BY FS_AddElement, FS_Singleton, FS_EmptySet DEF Batches

\* The indexes of a block are finitely many.
LEMMA IndexesFinite ==
  ASSUME NEW s \in Slots
  PROVE  IsFiniteSet(Indexes(s)) /\ Indexes(s) \subseteq Nat
<1>. DEFINE n == NumShreds[s] - 1
<1>1. n \in Int /\ 0 \in Int
  BY NumShredsAssumption
<1>2. Indexes(s) = 0 .. n
  BY DEF Indexes
<1>. HIDE DEF n
<1>3. IsFiniteSet(0 .. n) /\ 0 .. n \subseteq Nat
  BY <1>1, FS_Interval
<1>. QED
  BY <1>2, <1>3

\* What a message from the slot metadata carries.
LEMMA MessageFields ==
  ASSUME NEW msg \in RepairReqs
  PROVE  /\ msg.slot \in Slots
         /\ msg.type \in {"bounded", "unbounded"} =>
              /\ msg.shreds \in SUBSET Nat /\ IsFiniteSet(msg.shreds)
         /\ msg.type = "unbounded" => msg.max_inclusive \in Nat
         /\ msg.type = "cancel" => msg = [type |-> "cancel", slot |-> msg.slot]
<1>1. PICK s \in Slots :
        \/ msg \in [type : {"bounded"}, slot : {s}, shreds : SUBSET Indexes(s)]
        \/ msg \in [type : {"unbounded"}, slot : {s}, shreds : SUBSET Indexes(s),
                    max_inclusive : Indexes(s)]
        \/ msg \in [type : {"cancel"}, slot : {s}]
  BY DEF RepairReqs
<1>2. IsFiniteSet(Indexes(s)) /\ Indexes(s) \subseteq Nat
  BY <1>1, IndexesFinite
<1>3. \A T \in SUBSET Indexes(s) : T \in SUBSET Nat /\ IsFiniteSet(T)
  BY <1>2, FS_Subset
<1>4. CASE msg \in [type : {"bounded"}, slot : {s}, shreds : SUBSET Indexes(s)]
  BY <1>1, <1>3, <1>4
<1>5. CASE msg \in [type : {"unbounded"}, slot : {s}, shreds : SUBSET Indexes(s),
                    max_inclusive : Indexes(s)]
  BY <1>1, <1>2, <1>3, <1>5
<1>6. CASE msg \in [type : {"cancel"}, slot : {s}]
  BY <1>1, <1>6
<1>. QED
  BY <1>1, <1>4, <1>5, <1>6

-----------------------------------------------------------------------------
(* Every step preserves the invariant.                                     *)

\* No entry is stranded by a step that takes nothing from the queue and stops
\* the timers of the entries it removes only.
LEMMA EntriesKept ==
  ASSUME IInv, Seqs(out_q) \subseteq Seqs(out_q'),
         outstanding' \subseteq outstanding,
         \A r \in outstanding' : r \in ticking => r \in ticking'
  PROVE  NoStrandedEntry'
  BY DEF IInv, NoStrandedEntry, Seqs, Timeout

\* The request processor's send, or its wait for room.
LEMMA ProcessorSendsGood ==
  ASSUME Typed, NEW batch \in Batches, ProcessorSends(batch)
  PROVE  socket_tx' \in Seq(Batches) /\ processor' \in Batches \cup {None}
<1>1. socket_tx \in Seq(Batches) /\ processor \in Batches \cup {None}
  BY DEF Typed
<1>2. \/ socket_tx' = Append(socket_tx, batch) /\ UNCHANGED processor
      \/ processor' = batch /\ UNCHANGED socket_tx
  BY DEF ProcessorSends
<1>. QED
  BY <1>1, <1>2

\* The message the processor takes.
LEMMA ProcessorMessage ==
  ASSUME Typed, NEW type, ProcessorReady(type)
  PROVE  /\ Head(repair_tx) \in RepairReqs
         /\ Head(repair_tx).type = type
         /\ repair_tx' \in Seq(RepairReqs)
<1>1. /\ repair_tx \in Seq(RepairReqs) /\ repair_tx # <<>>
      /\ repair_tx' = Tail(repair_tx) /\ Head(repair_tx).type = type
  BY DEF Typed, ProcessorReady
<1>. QED
  BY <1>1, SeqsTail

\* Making requests: they join the queue, and their packets are sent.
LEMMA RequestsMade ==
  ASSUME IInv, NEW reqs \in Seq(GoodRequests), out_q' = out_q \o News(reqs),
         ProcessorSends(Packets(reqs)), repair_tx' \in Seq(RepairReqs),
         UNCHANGED <<outstanding, ticking, resend, receiver, netVars>>
  PROVE  IInv' /\ Seqs(out_q) \subseteq Seqs(out_q')
<1>1. out_q \in Seq(LoopMsgs) /\ News(reqs) \in Seq(LoopMsgs)
  BY NewsGood DEF IInv, Typed
<1>2. out_q' \in Seq(LoopMsgs) /\ Seqs(out_q) \subseteq Seqs(out_q')
  BY <1>1, SeqsConcat
<1>3. socket_tx' \in Seq(Batches) /\ processor' \in Batches \cup {None}
  BY PacketsGood, ProcessorSendsGood DEF IInv
<1>4. Typed'
  BY <1>2, <1>3 DEF IInv, Typed, netVars
<1>5. NoStrandedEntry'
  BY <1>2, EntriesKept
<1>. QED
  BY <1>2, <1>4, <1>5 DEF IInv

\* The steps that change neither the store nor the queue into the loop.
LEMMA QuietStep ==
  ASSUME IInv, Typed', UNCHANGED <<out_q, outstanding, ticking>>
  PROVE  IInv'
<1>1. NoStrandedEntry'
  BY DEF IInv, NoStrandedEntry, Seqs, Timeout
<1>. QED
  BY <1>1 DEF IInv

\* A bounded request of the slot metadata.
LEMMA ProcessBoundedIInv ==
  ASSUME IInv, ProcessBounded
  PROVE  IInv' /\ Seqs(out_q) \subseteq Seqs(out_q')
<1>. DEFINE msg == Head(repair_tx)
            s == msg.slot
<1>1. /\ msg \in RepairReqs /\ msg.type = "bounded"
      /\ repair_tx' \in Seq(RepairReqs)
  BY ProcessorMessage DEF IInv, ProcessBounded
<1>2. s \in Slots /\ msg.shreds \in SUBSET Nat /\ IsFiniteSet(msg.shreds)
  BY <1>1, MessageFields
<1>3. UNCHANGED <<outstanding, ticking, resend, receiver, netVars>>
  BY DEF ProcessBounded
<1>4. CASE UNCHANGED <<out_q, socket_tx, processor>>
  <2>1. Typed'
    BY <1>1, <1>3, <1>4 DEF IInv, Typed, netVars
  <2>. QED
    BY <1>3, <1>4, <2>1, QuietStep DEF Seqs
<1>5. CASE \E found \in HasPeers, peer \in [msg.shreds -> Peers] :
             LET is   == IF found THEN msg.shreds ELSE {}
                 reqs == WindowRequests(s, is, peer)
             IN /\ out_q' = out_q \o News(reqs)
                /\ ProcessorSends(Packets(reqs))
  <2>1. PICK found \in HasPeers, peer \in [msg.shreds -> Peers] :
             LET is   == IF found THEN msg.shreds ELSE {}
                 reqs == WindowRequests(s, is, peer)
             IN /\ out_q' = out_q \o News(reqs)
                /\ ProcessorSends(Packets(reqs))
    BY <1>5
  <2>. DEFINE is   == IF found THEN msg.shreds ELSE {}
              reqs == WindowRequests(s, is, peer)
  <2>2. is \in SUBSET Nat /\ IsFiniteSet(is) /\ \A i \in is : peer[i] \in Peers
    BY <1>2, <2>1, FS_EmptySet
  <2>3. reqs \in Seq(GoodRequests)
    BY <1>2, <2>2, WindowGood DEF IInv
  <2>4. out_q' = out_q \o News(reqs) /\ ProcessorSends(Packets(reqs))
    BY <2>1
  <2>. HIDE DEF reqs
  <2>. QED
    BY <1>1, <1>3, <2>3, <2>4, RequestsMade
<1>. QED
  BY <1>4, <1>5 DEF ProcessBounded

\* An unbounded request of the slot metadata.
LEMMA ProcessUnboundedIInv ==
  ASSUME IInv, ProcessUnbounded
  PROVE  IInv' /\ Seqs(out_q) \subseteq Seqs(out_q')
<1>. DEFINE msg == Head(repair_tx)
            s == msg.slot
<1>1. /\ msg \in RepairReqs /\ msg.type = "unbounded"
      /\ repair_tx' \in Seq(RepairReqs)
  BY ProcessorMessage DEF IInv, ProcessUnbounded
<1>2. /\ s \in Slots /\ msg.shreds \in SUBSET Nat /\ IsFiniteSet(msg.shreds)
      /\ msg.max_inclusive \in Nat
  BY <1>1, MessageFields
<1>3. UNCHANGED <<outstanding, ticking, resend, receiver, netVars>>
  BY DEF ProcessUnbounded
<1>4. CASE UNCHANGED <<out_q, socket_tx, processor>>
  <2>1. Typed'
    BY <1>1, <1>3, <1>4 DEF IInv, Typed, netVars
  <2>. QED
    BY <1>3, <1>4, <2>1, QuietStep DEF Seqs
<1>5. CASE \E peer \in [msg.shreds -> Peers], p \in Peers :
             LET reqs == WindowRequests(s, msg.shreds, peer)
                 all  == Append(reqs, Request("highest", s, msg.max_inclusive, p))
             IN /\ out_q' = out_q \o News(all)
                /\ ProcessorSends(Packets(all))
  <2>1. PICK peer \in [msg.shreds -> Peers], p \in Peers :
             LET reqs == WindowRequests(s, msg.shreds, peer)
                 all  == Append(reqs, Request("highest", s, msg.max_inclusive, p))
             IN /\ out_q' = out_q \o News(all)
                /\ ProcessorSends(Packets(all))
    BY <1>5
  <2>. DEFINE reqs == WindowRequests(s, msg.shreds, peer)
              high == Request("highest", s, msg.max_inclusive, p)
              all  == Append(reqs, high)
  <2>2. reqs \in Seq(GoodRequests)
    BY <1>2, <2>1, WindowGood DEF IInv
  <2>3. high \in GoodRequests
    BY <1>2, <2>1, RequestGood DEF IInv, Kinds
  <2>4. out_q' = out_q \o News(all) /\ ProcessorSends(Packets(all))
    BY <2>1
  <2>. HIDE DEF reqs, high
  <2>5. all \in Seq(GoodRequests)
    BY <2>2, <2>3
  <2>. HIDE DEF all
  <2>. QED
    BY <1>1, <1>3, <2>4, <2>5, RequestsMade
<1>. QED
  BY <1>4, <1>5 DEF ProcessUnbounded

\* Requests leave the store with their timers.
LEMMA RemoveIInv ==
  ASSUME IInv, NEW rs, Remove(rs), Seqs(out_q) \subseteq Seqs(out_q')
  PROVE  /\ outstanding' \in SUBSET GoodRequests /\ IsFiniteSet(outstanding')
         /\ ticking' \subseteq outstanding'
         /\ NoStrandedEntry'
<1>1. outstanding' = outstanding \ rs /\ ticking' = ticking \ rs
  BY DEF Remove
<1>2. IsFiniteSet(outstanding')
  BY <1>1, FS_Difference DEF IInv, Typed
<1>3. NoStrandedEntry'
  BY <1>1, EntriesKept
<1>. QED
  BY <1>1, <1>2, <1>3 DEF IInv, Typed

\* A cancellation.
LEMMA ProcessCancelIInv ==
  ASSUME IInv, ProcessCancel
  PROVE  IInv'
<1>1. repair_tx' \in Seq(RepairReqs)
  BY ProcessorMessage DEF IInv, ProcessCancel
<1>2. /\ \E rs : Remove(rs)
      /\ UNCHANGED <<processor, out_q, resend, socket_tx, receiver, netVars>>
  BY DEF ProcessCancel
<1>3. /\ outstanding' \in SUBSET GoodRequests /\ IsFiniteSet(outstanding')
      /\ ticking' \subseteq outstanding'
      /\ NoStrandedEntry'
  BY <1>2, RemoveIInv
<1>4. Typed'
  BY <1>1, <1>2, <1>3 DEF IInv, Typed, netVars
<1>. QED
  BY <1>3, <1>4 DEF IInv

\* The waiting processor sends its batch.
LEMMA ProcessorResumesIInv ==
  ASSUME IInv, ProcessorResumes
  PROVE  IInv'
<1>1. /\ processor \in Batches /\ socket_tx \in Seq(Batches)
      /\ socket_tx' = Append(socket_tx, processor) /\ processor' = None
      /\ UNCHANGED <<repair_tx, out_q, outstanding, ticking, resend, receiver,
                     netVars>>
  BY DEF IInv, Typed, ProcessorResumes
<1>2. Typed'
  BY <1>1 DEF IInv, Typed, netVars
<1>. QED
  BY <1>1, <1>2, QuietStep

-----------------------------------------------------------------------------
(* The outstanding loop.                                                   *)

\* The message the loop takes, and the ones it leaves.
LEMMA LoopMessage ==
  ASSUME Typed, NEW type, LoopReady(type)
  PROVE  /\ Head(out_q).req \in GoodRequests
         /\ Head(out_q) = [type |-> type, req |-> Head(out_q).req]
         /\ out_q' \in Seq(LoopMsgs)
         /\ \A m \in Seqs(out_q) : m # Head(out_q) => m \in Seqs(out_q')
         /\ resend = None
<1>1. /\ out_q \in Seq(LoopMsgs) /\ out_q # <<>> /\ out_q' = Tail(out_q)
      /\ Head(out_q).type = type /\ resend = None
  BY DEF Typed, LoopReady
<1>2. /\ Head(out_q) \in LoopMsgs /\ Tail(out_q) \in Seq(LoopMsgs)
      /\ Seqs(out_q) = Seqs(Tail(out_q)) \cup {Head(out_q)}
  BY <1>1, SeqsTail
<1>3. Head(out_q).req \in GoodRequests
      /\ Head(out_q) = [type |-> type, req |-> Head(out_q).req]
  BY <1>1, <1>2 DEF LoopMsgs
<1>. QED
  BY <1>1, <1>2, <1>3

\* The messages of the loop's channel are told apart by type and request.
LEMMA LoopMsgsDiffer ==
  ASSUME NEW r, NEW q
  PROVE  New(r) # Timeout(q) /\ (r # q => Timeout(r) # Timeout(q))
<1>1. New(r).type # Timeout(q).type /\ Timeout(r).req = r /\ Timeout(q).req = q
  BY DEF New, Timeout
<1>. QED
  BY <1>1

\* A request enters the store.
LEMMA TrackNewIInv ==
  ASSUME IInv, TrackNew
  PROVE  IInv'
<1>. DEFINE r == Head(out_q).req
<1>1. /\ r \in GoodRequests /\ Head(out_q) = New(r)
      /\ out_q' \in Seq(LoopMsgs)
      /\ \A m \in Seqs(out_q) : m # Head(out_q) => m \in Seqs(out_q')
  BY LoopMessage DEF IInv, TrackNew, New
<1>2. /\ outstanding' = outstanding \cup {r} /\ ticking' = ticking \cup {r}
      /\ UNCHANGED <<repair_tx, processor, resend, socket_tx, receiver, netVars>>
  BY DEF TrackNew, Insert
<1>3. \A q : Timeout(q) \in Seqs(out_q) => Timeout(q) \in Seqs(out_q')
  BY <1>1, LoopMsgsDiffer
<1>. HIDE DEF r
<1>4. IsFiniteSet(outstanding')
  BY <1>2, FS_AddElement DEF IInv, Typed
<1>5. Typed'
  BY <1>1, <1>2, <1>4 DEF IInv, Typed, netVars
<1>6. \A q \in outstanding' : q \in ticking' \/ Timeout(q) \in Seqs(out_q')
  BY <1>2, <1>3 DEF IInv, NoStrandedEntry
<1>7. NoStrandedEntry'
  BY <1>6 DEF NoStrandedEntry, Seqs, Timeout
<1>. QED
  BY <1>5, <1>7 DEF IInv

\* An expiry that comes too late, or finds no peer.
LEMMA RetryDroppedIInv ==
  ASSUME IInv, RetryDropped
  PROVE  IInv'
<1>. DEFINE r == Head(out_q).req
<1>1. /\ r \in GoodRequests /\ Head(out_q) = Timeout(r)
      /\ out_q' \in Seq(LoopMsgs)
      /\ \A m \in Seqs(out_q) : m # Head(out_q) => m \in Seqs(out_q')
  BY LoopMessage DEF IInv, RetryDropped, Timeout
<1>2. /\ outstanding' = outstanding \ {r} /\ ticking' = ticking \ {r}
      /\ UNCHANGED <<repair_tx, processor, resend, socket_tx, receiver, netVars>>
  BY DEF RetryDropped, Remove
<1>3. \A q : q # r /\ Timeout(q) \in Seqs(out_q) => Timeout(q) \in Seqs(out_q')
  BY <1>1, LoopMsgsDiffer
<1>. HIDE DEF r
<1>4. IsFiniteSet(outstanding')
  BY <1>2, FS_RemoveElement DEF IInv, Typed
<1>5. Typed'
  BY <1>1, <1>2, <1>4 DEF IInv, Typed, netVars
<1>6. \A q \in outstanding' : q \in ticking' \/ Timeout(q) \in Seqs(out_q')
  BY <1>2, <1>3 DEF IInv, NoStrandedEntry
<1>7. NoStrandedEntry'
  BY <1>6 DEF NoStrandedEntry, Seqs, Timeout
<1>. QED
  BY <1>5, <1>7 DEF IInv

\* A request as the loop sends it again: of the same kind, for the same shred.
LEMMA AgainGood ==
  ASSUME Typed, NEW r \in GoodRequests, NEW p \in Peers
  PROVE  LET again == Request(r.kind, r.slot, r.shred, p)
         IN /\ again \in GoodRequests
            /\ {Packet(again, again.shred)} \in Batches
            /\ again.kind = r.kind /\ again.slot = r.slot /\ again.shred = r.shred
<1>. DEFINE again == Request(r.kind, r.slot, r.shred, p)
<1>1. r.kind \in Kinds /\ r.slot \in Slots /\ r.shred \in Nat
  BY DEF GoodRequests, Requests
<1>2. /\ again \in GoodRequests
      /\ again.kind = r.kind /\ again.slot = r.slot /\ again.shred = r.shred
  BY <1>1, RequestGood
<1>. HIDE DEF again
<1>3. Packet(again, again.shred) \in PacketType
  BY <1>1, <1>2, PacketGood
<1>4. {} \in Batches /\ {Packet(again, again.shred)} \in Batches
  BY <1>3, FS_EmptySet, FS_Singleton DEF Batches
<1>. QED
  BY <1>2, <1>4 DEF again

\* An expired request is sent again, or waits to be.
LEMMA RetryIInv ==
  ASSUME IInv, Retry
  PROVE  IInv'
<1>. DEFINE r == Head(out_q).req
<1>1. /\ r \in GoodRequests /\ Head(out_q) = Timeout(r)
      /\ out_q' \in Seq(LoopMsgs)
      /\ \A m \in Seqs(out_q) : m # Head(out_q) => m \in Seqs(out_q')
      /\ resend = None
  BY LoopMessage DEF IInv, Retry, Timeout
<1>2. UNCHANGED <<repair_tx, processor, receiver, netVars>>
  BY DEF Retry
<1>3. \A q : q # r /\ Timeout(q) \in Seqs(out_q) => Timeout(q) \in Seqs(out_q')
  BY <1>1, LoopMsgsDiffer
<1>4. PICK p \in Peers :
        LET again == Request(r.kind, r.slot, r.shred, p)
        IN \/ /\ socket_tx' = Append(socket_tx, {Packet(again, again.shred)})
              /\ outstanding' = (outstanding \ {r}) \cup {again}
              /\ ticking' = (ticking \ {r}) \cup {again}
              /\ UNCHANGED resend
           \/ /\ resend' = again
              /\ Remove({r})
              /\ UNCHANGED socket_tx
  BY DEF Retry
<1>. DEFINE again == Request(r.kind, r.slot, r.shred, p)
            batch == {Packet(again, again.shred)}
<1>5. again \in GoodRequests /\ batch \in Batches
  BY <1>1, <1>4, AgainGood DEF IInv
<1>6. \/ /\ socket_tx' = Append(socket_tx, batch)
         /\ outstanding' = (outstanding \ {r}) \cup {again}
         /\ ticking' = (ticking \ {r}) \cup {again}
         /\ UNCHANGED resend
      \/ /\ resend' = again
         /\ outstanding' = outstanding \ {r} /\ ticking' = ticking \ {r}
         /\ UNCHANGED socket_tx
  BY <1>4 DEF Remove
<1>. HIDE DEF r, again, batch
<1>7. IsFiniteSet(outstanding \ {r}) /\ IsFiniteSet((outstanding \ {r}) \cup {again})
  BY FS_RemoveElement, FS_AddElement DEF IInv, Typed
<1>8. socket_tx' \in Seq(Batches)
  <2>1. socket_tx \in Seq(Batches)
    BY DEF IInv, Typed
  <2>. QED
    BY <1>5, <1>6, <2>1
<1>9. Typed'
  BY <1>1, <1>2, <1>5, <1>6, <1>7, <1>8 DEF IInv, Typed, netVars
<1>10. \A q \in outstanding' : q \in ticking' \/ Timeout(q) \in Seqs(out_q')
  BY <1>3, <1>6 DEF IInv, NoStrandedEntry
<1>11. NoStrandedEntry'
  BY <1>10 DEF NoStrandedEntry, Seqs, Timeout
<1>. QED
  BY <1>9, <1>11 DEF IInv

\* The waiting loop sends, and puts the request back into the store.
LEMMA RetryResumesIInv ==
  ASSUME IInv, RetryResumes
  PROVE  IInv'
<1>1. /\ resend \in GoodRequests /\ resend' = None
      /\ socket_tx' = Append(socket_tx, {Packet(resend, resend.shred)})
      /\ outstanding' = outstanding \cup {resend}
      /\ ticking' = ticking \cup {resend}
      /\ UNCHANGED <<repair_tx, processor, out_q, receiver, netVars>>
  BY DEF IInv, Typed, RetryResumes, Insert
<1>2. {Packet(resend, resend.shred)} \in Batches
  <2>1. Packet(resend, resend.shred) \in PacketType
    BY <1>1, PacketGood DEF GoodRequests, Requests
  <2>. QED
    BY <2>1, FS_Singleton DEF Batches
<1>3. socket_tx' \in Seq(Batches)
  <2>. DEFINE b == {Packet(resend, resend.shred)}
  <2>1. socket_tx \in Seq(Batches) /\ b \in Batches /\ socket_tx' = Append(socket_tx, b)
    BY <1>1, <1>2 DEF IInv, Typed
  <2>. HIDE DEF b
  <2>. QED
    BY <2>1
<1>4. IsFiniteSet(outstanding')
  BY <1>1, FS_AddElement DEF IInv, Typed
<1>5. Typed'
  BY <1>1, <1>3, <1>4 DEF IInv, Typed, netVars
<1>6. NoStrandedEntry'
  BY <1>1 DEF IInv, NoStrandedEntry, Seqs, Timeout
<1>. QED
  BY <1>5, <1>6 DEF IInv

\* A timer fires.
LEMMA TimerFiresIInv ==
  ASSUME IInv, NEW r \in ticking, TimerFires(r)
  PROVE  IInv'
<1>1. /\ ticking' = ticking \ {r} /\ out_q' = Append(out_q, Timeout(r))
      /\ UNCHANGED <<repair_tx, processor, outstanding, resend, socket_tx,
                     receiver, netVars>>
  BY DEF TimerFires
<1>2. r \in GoodRequests /\ out_q \in Seq(LoopMsgs)
  BY DEF IInv, Typed
<1>3. Timeout(r) \in LoopMsgs
  BY <1>2 DEF Timeout, LoopMsgs
<1>4. out_q' \in Seq(LoopMsgs)
  BY <1>1, <1>2, <1>3
<1>5. Seqs(out_q') = Seqs(out_q) \cup {Timeout(r)}
  BY <1>1, <1>2, SeqsAppend
<1>6. Typed'
  BY <1>1, <1>4 DEF IInv, Typed, netVars
<1>7. \A q \in outstanding' : q \in ticking' \/ Timeout(q) \in Seqs(out_q')
  BY <1>1, <1>5 DEF IInv, NoStrandedEntry
<1>8. NoStrandedEntry'
  BY <1>7 DEF NoStrandedEntry, Seqs, Timeout
<1>. QED
  BY <1>6, <1>8 DEF IInv

-----------------------------------------------------------------------------
(* The receiver.                                                           *)

\* A response is taken, and the requests it answers leave the store.
LEMMA ReceivesIInv ==
  ASSUME IInv, NEW pkt \in responses, Receives(pkt),
         Seqs(out_q) \subseteq Seqs(out_q')
  PROVE  /\ outstanding' \in SUBSET GoodRequests /\ IsFiniteSet(outstanding')
         /\ ticking' \subseteq outstanding'
         /\ NoStrandedEntry'
         /\ responses' \in SUBSET ResponseType /\ IsFiniteSet(responses')
         /\ pkt \in ResponseType /\ Shred(pkt) \in ShredType
<1>1. responses' = responses \ {pkt} /\ Remove(Matching(pkt))
  BY DEF Receives
<1>2. IsFiniteSet(responses') /\ responses' \in SUBSET ResponseType
      /\ pkt \in ResponseType
  BY <1>1, FS_RemoveElement DEF IInv, Typed
<1>3. Shred(pkt) \in ShredType
  BY <1>2 DEF Shred, ShredType, ResponseType
<1>. QED
  BY <1>1, <1>2, <1>3, RemoveIInv

\* A response that goes no further, or only to the packet filter.
LEMMA ReceiveIInv ==
  ASSUME IInv, NEW pkt \in responses, ReceiveDropped(pkt) \/ ReceiveWindow(pkt)
  PROVE  IInv'
<1>1. /\ Receives(pkt)
      /\ filter_tx' \subseteq filter_tx \cup {Shred(pkt)}
      /\ UNCHANGED <<repair_tx, processor, out_q, resend, socket_tx, receiver,
                     peer_has>>
  BY DEF ReceiveDropped, ReceiveWindow
<1>2. /\ outstanding' \in SUBSET GoodRequests /\ IsFiniteSet(outstanding')
      /\ ticking' \subseteq outstanding'
      /\ NoStrandedEntry'
      /\ responses' \in SUBSET ResponseType /\ IsFiniteSet(responses')
      /\ Shred(pkt) \in ShredType
  BY <1>1, ReceivesIInv
<1>3. Typed'
  BY <1>1, <1>2 DEF IInv, Typed
<1>. QED
  BY <1>2, <1>3 DEF IInv

\* The shreds a HighestWindowIndex answer leaves to be asked for.
LEMMA RangeFinite ==
  ASSUME NEW a \in Nat, NEW b \in Nat
  PROVE  FollowUpRange(a, b) \in SUBSET Nat /\ IsFiniteSet(FollowUpRange(a, b))
<1>1. IsFiniteSet(a .. b) /\ a .. b \subseteq Nat
  BY FS_Interval
<1>2. FollowUpRange(a, b) \in SUBSET (a .. b)
  BY DEF FollowUpRange
<1>. QED
  BY <1>1, <1>2, FS_Subset

\* A HighestWindowIndex answer and its follow-up requests.
LEMMA ReceiveHighestIInv ==
  ASSUME IInv, NEW pkt \in responses, ReceiveHighest(pkt)
  PROVE  IInv' /\ Seqs(out_q) \subseteq Seqs(out_q')
<1>. DEFINE s == pkt.slot
            r == CHOOSE x \in Matching(pkt) : TRUE
<1>1. Receives(pkt) /\ UNCHANGED <<repair_tx, processor, resend, peer_has>>
  BY DEF ReceiveHighest
<1>2. pkt \in ResponseType
  BY DEF IInv, Typed
<1>3. s \in Slots /\ pkt.index \in Nat
  BY <1>2 DEF ResponseType
<1>4. r.shred \in Nat
  <2>1. Matching(pkt) # {}
    BY DEF ReceiveHighest
  <2>2. r \in Matching(pkt)
    BY <2>1
  <2>. HIDE DEF r
  <2>3. r \in outstanding
    BY <2>2 DEF Matching
  <2>. QED
    BY <2>3 DEF IInv, Typed, GoodRequests, Requests
<1>. HIDE DEF r
<1>5. PICK found \in HasPeers :
        LET is   == IF found THEN FollowUpRange(r.shred, pkt.index) ELSE {}
            more == found /\ MoreToCome(s, pkt.index)
        IN \E peer \in [is -> Peers], p \in Peers :
             LET reqs  == WindowRequests(s, is, peer)
                 high  == Request("highest", s, pkt.index, p)
                 batch == Packets(reqs) \cup
                   (IF more THEN {Packet(high, pkt.index + 1)} ELSE {})
             IN /\ out_q' = out_q \o
                     News(IF more THEN Append(reqs, high) ELSE reqs)
                /\ FollowUp(batch, Shred(pkt))
  BY DEF ReceiveHighest, r
<1>. DEFINE is   == IF found THEN FollowUpRange(r.shred, pkt.index) ELSE {}
            more == found /\ MoreToCome(s, pkt.index)
<1>6. is \in SUBSET Nat /\ IsFiniteSet(is)
  BY <1>3, <1>4, RangeFinite, FS_EmptySet
<1>7. PICK peer \in [is -> Peers], p \in Peers :
        LET reqs  == WindowRequests(s, is, peer)
            high  == Request("highest", s, pkt.index, p)
            batch == Packets(reqs) \cup
              (IF more THEN {Packet(high, pkt.index + 1)} ELSE {})
        IN /\ out_q' = out_q \o
                News(IF more THEN Append(reqs, high) ELSE reqs)
           /\ FollowUp(batch, Shred(pkt))
  BY <1>5
<1>. DEFINE reqs  == WindowRequests(s, is, peer)
            high  == Request("highest", s, pkt.index, p)
            extra == IF more THEN {Packet(high, pkt.index + 1)} ELSE {}
            batch == Packets(reqs) \cup extra
            all   == IF more THEN Append(reqs, high) ELSE reqs
<1>8. out_q' = out_q \o News(all) /\ FollowUp(batch, Shred(pkt))
  BY <1>7
<1>. HIDE DEF is, more
<1>9. reqs \in Seq(GoodRequests)
  BY <1>3, <1>6, <1>7, WindowGood DEF IInv
<1>10. high \in GoodRequests
  BY <1>3, <1>7, RequestGood DEF IInv, Kinds
<1>. HIDE DEF reqs, high
<1>11. all \in Seq(GoodRequests)
  BY <1>9, <1>10
<1>12. batch \in Batches
  <2>1. Packets(reqs) \in Batches
    BY <1>9, PacketsGood
  <2>2. Packet(high, pkt.index + 1) \in PacketType
    BY <1>3, <1>10, PacketGood
  <2>3. Packets(reqs) \cup {Packet(high, pkt.index + 1)} \in Batches
    BY <2>1, <2>2, BatchAdd
  <2>. QED
    BY <2>1, <2>3
<1>. HIDE DEF all, batch
<1>13. out_q' \in Seq(LoopMsgs) /\ Seqs(out_q) \subseteq Seqs(out_q')
  BY <1>8, <1>11, NewsGood, SeqsConcat DEF IInv, Typed
<1>14. /\ outstanding' \in SUBSET GoodRequests /\ IsFiniteSet(outstanding')
       /\ ticking' \subseteq outstanding'
       /\ NoStrandedEntry'
       /\ responses' \in SUBSET ResponseType /\ IsFiniteSet(responses')
       /\ Shred(pkt) \in ShredType
  BY <1>1, <1>13, ReceivesIInv
<1>15. /\ socket_tx' \in Seq(Batches)
       /\ receiver' \in [batch : Batches, shred : ShredType] \cup {None}
       /\ filter_tx' \in SUBSET ShredType
  <2>. DEFINE shred == Shred(pkt)
  <2>1. /\ socket_tx \in Seq(Batches) /\ filter_tx \in SUBSET ShredType
        /\ receiver \in [batch : Batches, shred : ShredType] \cup {None}
        /\ shred \in ShredType
    BY <1>14 DEF IInv, Typed
  <2>2. \/ /\ socket_tx' = Append(socket_tx, batch)
           /\ filter_tx' = filter_tx \cup {shred}
           /\ UNCHANGED receiver
        \/ /\ receiver' = [batch |-> batch, shred |-> shred]
           /\ UNCHANGED <<socket_tx, filter_tx>>
    BY <1>8 DEF FollowUp
  <2>. HIDE DEF shred
  <2>. QED
    BY <1>12, <2>1, <2>2
<1>16. Typed'
  BY <1>1, <1>13, <1>14, <1>15 DEF IInv, Typed
<1>. QED
  BY <1>13, <1>14, <1>16 DEF IInv

\* The waiting receiver sends its requests and passes the shred on.
LEMMA ReceiverResumesIInv ==
  ASSUME IInv, ReceiverResumes
  PROVE  IInv'
<1>1. /\ receiver \in [batch : Batches, shred : ShredType]
      /\ socket_tx' = Append(socket_tx, receiver.batch)
      /\ filter_tx' = filter_tx \cup {receiver.shred}
      /\ receiver' = None
      /\ UNCHANGED <<repair_tx, processor, out_q, outstanding, ticking, resend,
                     responses, peer_has>>
  BY DEF IInv, Typed, ReceiverResumes
<1>2. receiver.batch \in Batches /\ receiver.shred \in ShredType
  BY <1>1
<1>3. Typed'
  BY <1>1, <1>2 DEF IInv, Typed
<1>. QED
  BY <1>1, <1>3, QuietStep

-----------------------------------------------------------------------------
(* The network and the two ends.                                           *)

\* A batch goes out, and at most one answer to each request comes back.
LEMMA SocketSendsIInv ==
  ASSUME IInv, SocketSends
  PROVE  IInv'
<1>. DEFINE batch == Head(socket_tx)
<1>1. /\ socket_tx # <<>> /\ socket_tx' = Tail(socket_tx)
      /\ UNCHANGED <<managerVars, filter_tx, peer_has>>
  BY DEF SocketSends
<1>2. batch \in Batches /\ socket_tx' \in Seq(Batches)
  BY <1>1, SeqsTail DEF IInv, Typed
<1>3. PICK answers \in SUBSET UNION {Responses(pkt) : pkt \in batch} :
        /\ \A a, b \in answers : a.nonce = b.nonce => a = b
        /\ responses' = responses \cup answers
  BY DEF SocketSends
<1>4. ASSUME NEW a \in answers
      PROVE  a \in ResponseType /\ \E pkt \in batch : a.nonce = pkt.nonce
  <2>1. PICK pkt \in batch : a \in Responses(pkt)
    BY <1>3, <1>4
  <2>2. pkt \in PacketType
    BY <1>2, <2>1 DEF Batches
  <2>3. Answer(pkt) \subseteq Nat
    <3>1. peer_has[pkt.slot] \in Nat /\ pkt.index \in Nat
      BY <2>2 DEF IInv, Typed, PacketType
    <3>. QED
      BY <3>1 DEF Answer
  <2>4. /\ pkt.slot \in Slots /\ pkt.nonce \in Nonces /\ pkt.peer \in Peers
    BY <2>2 DEF PacketType
  <2>5. (IF Faulty THEN BOOLEAN ELSE {TRUE}) \subseteq BOOLEAN
    OBVIOUS
  <2>. QED
    BY <2>1, <2>3, <2>4, <2>5 DEF Responses, ResponseType
<1>5. IsFiniteSet(answers)
  <2>. DEFINE N == {pkt.nonce : pkt \in batch}
              f == [a \in answers |-> a.nonce]
  <2>1. IsFiniteSet(N)
    BY <1>2, NoncesFinite DEF Batches
  <2>2. f \in [answers -> N]
    BY <1>4
  <2>3. f \in Injection(answers, N)
    BY <1>3, <2>2 DEF Injection, IsInjective
  <2>. QED
    BY <2>1, <2>3, FS_Injection
<1>6. IsFiniteSet(responses') /\ responses' \in SUBSET ResponseType
  BY <1>3, <1>4, <1>5, FS_Union DEF IInv, Typed
<1>7. Typed'
  BY <1>1, <1>2, <1>6 DEF IInv, Typed, managerVars
<1>. QED
  BY <1>1, <1>7, QuietStep DEF managerVars

\* The peers receive the block, the metadata asks, the filter takes.
LEMMA EndsIInv ==
  ASSUME IInv,
         \/ \E s \in Slots : PeersAdvance(s)
         \/ \E req \in Asks : Ask(req)
         \/ \E shred \in filter_tx : FilterTakes(shred)
         \/ UNCHANGED vars
  PROVE  IInv'
<1>1. CASE \E s \in Slots : PeersAdvance(s)
  <2>1. peer_has' \in [Slots -> Nat]
    BY <1>1 DEF IInv, Typed, PeersAdvance
  <2>2. UNCHANGED <<managerVars, socket_tx, responses, filter_tx>>
    BY <1>1 DEF PeersAdvance
  <2>3. Typed'
    BY <2>1, <2>2 DEF IInv, Typed, managerVars
  <2>. QED
    BY <2>2, <2>3, QuietStep DEF managerVars
<1>2. ASSUME NEW req \in Asks, Ask(req)
      PROVE  IInv'
  <2>1. req \in RepairReqs
    BY AsksAssumption
  <2>2. repair_tx' \in Seq(RepairReqs)
    BY <1>2, <2>1 DEF IInv, Typed, Ask
  <2>3. UNCHANGED <<processor, out_q, outstanding, ticking, resend, socket_tx,
                    receiver, netVars>>
    BY <1>2 DEF Ask
  <2>4. Typed'
    BY <2>2, <2>3 DEF IInv, Typed, netVars
  <2>. QED
    BY <2>3, <2>4, QuietStep
<1>3. CASE \E shred \in filter_tx : FilterTakes(shred)
  <2>1. filter_tx' \subseteq filter_tx
        /\ UNCHANGED <<managerVars, socket_tx, responses, peer_has>>
    BY <1>3 DEF FilterTakes
  <2>2. Typed'
    BY <2>1 DEF IInv, Typed, managerVars
  <2>. QED
    BY <2>1, <2>2, QuietStep DEF managerVars
<1>4. CASE UNCHANGED vars
  <2>1. Typed'
    BY <1>4 DEF IInv, Typed, vars, netVars
  <2>. QED
    BY <1>4, <2>1, QuietStep DEF vars
<1>. QED
  BY <1>1, <1>2, <1>3, <1>4

-----------------------------------------------------------------------------
\* IInv is inductive.
THEOREM IInvHolds == Spec => []IInv
<1>1. Init => IInv
  <2>1. SUFFICES ASSUME Init PROVE IInv
    OBVIOUS
  <2>2. <<>> \in Seq(RepairReqs) /\ <<>> \in Seq(LoopMsgs) /\ <<>> \in Seq(Batches)
    OBVIOUS
  <2>3. peer_has \in [Slots -> Nat]
    BY <2>1, NumShredsAssumption DEF Init
  <2>4. Typed
    BY <2>1, <2>2, <2>3, FS_EmptySet DEF Init, Typed
  <2>5. NoStrandedEntry
    BY <2>1 DEF Init, NoStrandedEntry
  <2>. QED
    BY <2>4, <2>5 DEF IInv
<1>2. IInv /\ [Next]_vars => IInv'
  <2>1. SUFFICES ASSUME IInv, [Next]_vars
                 PROVE  IInv'
    OBVIOUS
  <2>2. CASE ProcessBounded
    BY <2>1, <2>2, ProcessBoundedIInv
  <2>3. CASE ProcessUnbounded
    BY <2>1, <2>3, ProcessUnboundedIInv
  <2>4. CASE ProcessCancel
    BY <2>1, <2>4, ProcessCancelIInv
  <2>5. CASE ProcessorResumes
    BY <2>1, <2>5, ProcessorResumesIInv
  <2>6. CASE TrackNew
    BY <2>1, <2>6, TrackNewIInv
  <2>7. CASE RetryDropped
    BY <2>1, <2>7, RetryDroppedIInv
  <2>8. CASE Retry
    BY <2>1, <2>8, RetryIInv
  <2>9. CASE RetryResumes
    BY <2>1, <2>9, RetryResumesIInv
  <2>10. ASSUME NEW r \in ticking, TimerFires(r)
         PROVE  IInv'
    BY <2>1, <2>10, TimerFiresIInv
  <2>11. ASSUME NEW pkt \in responses, ReceiveDropped(pkt) \/ ReceiveWindow(pkt)
         PROVE  IInv'
    BY <2>1, <2>11, ReceiveIInv
  <2>12. ASSUME NEW pkt \in responses, ReceiveHighest(pkt)
         PROVE  IInv'
    BY <2>1, <2>12, ReceiveHighestIInv
  <2>13. CASE ReceiverResumes
    BY <2>1, <2>13, ReceiverResumesIInv
  <2>14. CASE SocketSends
    BY <2>1, <2>14, SocketSendsIInv
  <2>15. CASE \/ \E s \in Slots : PeersAdvance(s)
              \/ \E req \in Asks : Ask(req)
              \/ \E shred \in filter_tx : FilterTakes(shred)
              \/ UNCHANGED vars
    BY <2>1, <2>15, EndsIInv
  <2>. QED
    BY <2>1, <2>2, <2>3, <2>4, <2>5, <2>6, <2>7, <2>8, <2>9, <2>10, <2>11,
       <2>12, <2>13, <2>14, <2>15 DEF Next, Manager, Network
<1>. QED
  BY <1>1, <1>2, PTL DEF Spec

\* Type correctness of the repair manager: store, timers and the messages in
\* all channels keep their types, and no timer outlives its request's entry.
THEOREM TypeCorrect == Spec => []TypeOK
<1>1. IInv => TypeOK
  <2>1. SUFFICES ASSUME IInv PROVE TypeOK
    OBVIOUS
  <2>2. GoodRequests \subseteq Requests /\ Batches \subseteq SUBSET PacketType
    BY DEF GoodRequests, Batches
  <2>3. LoopMsgs \subseteq [type : {"new", "timeout"}, req : Requests]
    BY <2>2 DEF LoopMsgs
  <2>4. out_q \in Seq([type : {"new", "timeout"}, req : Requests])
    <3>1. out_q \in Seq(LoopMsgs)
      BY <2>1 DEF IInv, Typed
    <3>. QED
      BY <2>3, <3>1, SeqWider
  <2>5. socket_tx \in Seq(SUBSET PacketType)
    <3>1. socket_tx \in Seq(Batches)
      BY <2>1 DEF IInv, Typed
    <3>. QED
      BY <2>2, <3>1, SeqWider
  <2>. QED
    BY <2>1, <2>2, <2>4, <2>5 DEF IInv, Typed, TypeOK, ResponseType
<1>. QED
  BY <1>1, IInvHolds, PTL

\* Whatever is answered, cancelled, late or lost, a request in the store has a
\* running timer or its expiry is on its way to the loop that sends it again.
THEOREM NoEntryStranded == Spec => []NoStrandedEntry
<1>1. IInv => NoStrandedEntry
  BY DEF IInv
<1>. QED
  BY <1>1, IInvHolds, PTL

-----------------------------------------------------------------------------
(* No request is lost.                                                     *)

Key(r) == <<r.kind, r.slot, r.shred>>

\* What is undertaken is in the store, queued to enter it or being sent again.
LEMMA UndertakenHeld ==
  ASSUME Typed, NEW x \in Undertaken
  PROVE  \E r \in GoodRequests :
           x = Key(r) /\ (r \in outstanding \/ New(r) \in Seqs(out_q) \/ r = resend)
<1>1. PICK r \in outstanding
                  \cup {m.req : m \in {y \in Seqs(out_q) : y.type = "new"}}
                  \cup ({resend} \ {None}) : x = Key(r)
  BY DEF Undertaken, Key
<1>2. CASE r \in outstanding
  BY <1>1, <1>2 DEF Typed
<1>3. CASE r \in {m.req : m \in {y \in Seqs(out_q) : y.type = "new"}}
  <2>1. PICK m \in Seqs(out_q) : m.type = "new" /\ r = m.req
    BY <1>3
  <2>2. m \in LoopMsgs
    BY <2>1, SeqsFinite DEF Typed
  <2>3. m = New(r) /\ r \in GoodRequests
    BY <2>1, <2>2 DEF LoopMsgs, New
  <2>. QED
    BY <1>1, <2>1, <2>3
<1>4. CASE r \in {resend} \ {None}
  BY <1>1, <1>4 DEF Typed
<1>. QED
  BY <1>1, <1>2, <1>3, <1>4

\* The same for the next state, in the other direction.
LEMMA HeldNext ==
  ASSUME NEW r \in GoodRequests,
         r \in outstanding' \/ New(r) \in Seqs(out_q') \/ r = resend'
  PROVE  Key(r) \in Undertaken'
<1>1. r # None
  BY IdleAssumption DEF GoodRequests
<1>2. New(r).type = "new" /\ New(r).req = r
  BY DEF New
<1>3. r \in outstanding'
              \cup {m.req : m \in {y \in Seqs(out_q') : y.type = "new"}}
              \cup ({resend'} \ {None})
  BY <1>1, <1>2
<1>. HIDE DEF New
<1>. QED
  BY <1>3 DEF Undertaken, Key, Seqs

\* A step that lets go of no request, except for another of the same key.
LEMMA NothingLost ==
  ASSUME Typed,
         \A r \in GoodRequests :
           r \in outstanding \/ New(r) \in Seqs(out_q) \/ r = resend =>
             \E q \in GoodRequests :
               /\ Key(q) = Key(r)
               /\ q \in outstanding' \/ New(q) \in Seqs(out_q') \/ q = resend'
  PROVE  Undertaken \subseteq Undertaken'
<1>1. SUFFICES ASSUME NEW x \in Undertaken PROVE x \in Undertaken'
  OBVIOUS
<1>2. PICK r \in GoodRequests :
        x = Key(r) /\ (r \in outstanding \/ New(r) \in Seqs(out_q) \/ r = resend)
  BY <1>1, UndertakenHeld
<1>3. PICK q \in GoodRequests :
        /\ Key(q) = Key(r)
        /\ q \in outstanding' \/ New(q) \in Seqs(out_q') \/ q = resend'
  BY <1>2
<1>. QED
  BY <1>2, <1>3, HeldNext

\* The ways a request may end.
Answered(x) == \E pkt \in responses \ responses' : SubSeq(pkt.nonce, 1, 3) = x

Withdrawn(x) ==
  /\ repair_tx # <<>>
  /\ Head(repair_tx) = [type |-> "cancel", slot |-> x[2]]
  /\ repair_tx' = Tail(repair_tx)

GivenUp ==
  /\ Lonely
  /\ out_q # <<>>
  /\ Head(out_q).type = "timeout"
  /\ out_q' = Tail(out_q)
  /\ UNCHANGED <<socket_tx, resend>>

\* The first three parts of a nonce.
LEMMA FirstThree ==
  ASSUME NEW a, NEW b, NEW c, NEW d
  PROVE  SubSeq(<<a, b, c, d>>, 1, 3) = <<a, b, c>>
<1>. DEFINE S == {a, b, c, d}
            q == <<a, b, c, d>>
            t == <<a, b, c>>
            r == SubSeq(q, 1, 3)
<1>1. q \in Seq(S) /\ Len(q) = 4 /\ q[1] = a /\ q[2] = b /\ q[3] = c
  OBVIOUS
<1>2. t \in Seq(S) /\ Len(t) = 3 /\ t[1] = a /\ t[2] = b /\ t[3] = c
  OBVIOUS
<1>. HIDE DEF q, t
<1>3. r \in Seq(S) /\ Len(r) = 3 /\ \A i \in 1 .. 3 : r[i] = q[i]
  BY <1>1
<1>4. \A i \in 1 .. 3 : i = 1 \/ i = 2 \/ i = 3
  OBVIOUS
<1>. HIDE DEF r
<1>5. \A i \in 1 .. 3 : r[i] = t[i]
  BY <1>1, <1>2, <1>3, <1>4
<1>6. r = t
  BY <1>2, <1>3, <1>5
<1>. QED
  BY <1>6 DEF r, q, t

\* A response answers only requests its nonce was drawn for.
LEMMA MatchingAnswered ==
  ASSUME Typed, NEW pkt \in responses, Receives(pkt), NEW r \in Matching(pkt)
  PROVE  Answered(Key(r))
<1>1. r \in GoodRequests /\ r.nonce = pkt.nonce
  BY DEF Matching, Typed
<1>2. r.nonce = <<r.kind, r.slot, r.shred, r.nonce[4]>>
  BY <1>1 DEF GoodRequests, OwnNonce
<1>3. SubSeq(pkt.nonce, 1, 3) = Key(r)
  BY <1>1, <1>2, FirstThree DEF Key
<1>4. pkt \in responses \ responses'
  BY DEF Receives
<1>. QED
  BY <1>3, <1>4 DEF Answered

\* A response costs the requests it answers, and no other.
LEMMA ReceiveLoses ==
  ASSUME Typed, NEW pkt \in responses, Receives(pkt),
         Seqs(out_q) \subseteq Seqs(out_q'), UNCHANGED resend,
         NEW x \in Undertaken \ Undertaken'
  PROVE  Answered(x)
<1>1. PICK r \in GoodRequests :
        x = Key(r) /\ (r \in outstanding \/ New(r) \in Seqs(out_q) \/ r = resend)
  BY UndertakenHeld
<1>2. ~(r \in outstanding' \/ New(r) \in Seqs(out_q') \/ r = resend')
  BY <1>1, HeldNext
<1>3. r \in outstanding /\ r \notin outstanding'
  BY <1>1, <1>2
<1>4. r \in Matching(pkt)
  BY <1>3 DEF Receives, Remove
<1>. QED
  BY <1>1, <1>4, MatchingAnswered

\* A cancellation costs the requests for its slot, and no other.
LEMMA CancelLoses ==
  ASSUME Typed, ProcessCancel, NEW x \in Undertaken \ Undertaken'
  PROVE  Withdrawn(x)
<1>1. PICK r \in GoodRequests :
        x = Key(r) /\ (r \in outstanding \/ New(r) \in Seqs(out_q) \/ r = resend)
  BY UndertakenHeld
<1>2. ~(r \in outstanding' \/ New(r) \in Seqs(out_q') \/ r = resend')
  BY <1>1, HeldNext
<1>3. UNCHANGED <<out_q, resend>>
  BY DEF ProcessCancel
<1>4. r \in outstanding /\ r \notin outstanding'
  BY <1>1, <1>2, <1>3
<1>5. r.slot = Head(repair_tx).slot
  BY <1>4 DEF ProcessCancel, Remove
<1>6. /\ repair_tx # <<>> /\ repair_tx' = Tail(repair_tx)
      /\ Head(repair_tx) \in RepairReqs /\ Head(repair_tx).type = "cancel"
  BY ProcessorMessage DEF ProcessCancel, ProcessorReady
<1>7. Head(repair_tx) = [type |-> "cancel", slot |-> Head(repair_tx).slot]
  BY <1>6, MessageFields
<1>8. x[2] = r.slot
  BY <1>1 DEF Key
<1>. QED
  BY <1>5, <1>6, <1>7, <1>8 DEF Withdrawn

\* The outstanding loop loses no request for want of anything but a peer.
LEMMA LoopLosesNothing ==
  ASSUME IInv, TrackNew \/ Retry \/ RetryResumes
  PROVE  Undertaken \subseteq Undertaken'
<1>1. CASE TrackNew
  <2>. DEFINE h == Head(out_q).req
  <2>1. /\ h \in GoodRequests /\ Head(out_q) = New(h)
        /\ \A m \in Seqs(out_q) : m # Head(out_q) => m \in Seqs(out_q')
    BY <1>1, LoopMessage DEF IInv, TrackNew, New
  <2>2. outstanding' = outstanding \cup {h} /\ UNCHANGED resend
    BY <1>1 DEF TrackNew, Insert
  <2>3. \A r : New(r) = New(h) => r = h
    <3>1. \A r : New(r).req = r
      BY DEF New
    <3>. QED
      BY <3>1
  <2>. HIDE DEF h
  <2>4. \A r \in GoodRequests :
          r \in outstanding \/ New(r) \in Seqs(out_q) \/ r = resend =>
            r \in outstanding' \/ New(r) \in Seqs(out_q') \/ r = resend'
    BY <2>1, <2>2, <2>3
  <2>. QED
    BY <2>4, NothingLost DEF IInv
<1>2. CASE Retry
  <2>. DEFINE h == Head(out_q).req
  <2>1. /\ h \in GoodRequests /\ Head(out_q) = Timeout(h)
        /\ \A m \in Seqs(out_q) : m # Head(out_q) => m \in Seqs(out_q')
        /\ resend = None
    BY <1>2, LoopMessage DEF IInv, Retry, Timeout
  <2>2. PICK p \in Peers :
          LET again == Request(h.kind, h.slot, h.shred, p)
          IN \/ outstanding' = (outstanding \ {h}) \cup {again}
             \/ resend' = again /\ outstanding' = outstanding \ {h}
    BY <1>2 DEF Retry, Remove
  <2>. DEFINE again == Request(h.kind, h.slot, h.shred, p)
  <2>3. again \in GoodRequests /\ Key(again) = Key(h)
    BY <2>1, <2>2, AgainGood DEF IInv, Key
  <2>4. \/ outstanding' = (outstanding \ {h}) \cup {again}
        \/ resend' = again /\ outstanding' = outstanding \ {h}
    BY <2>2
  <2>5. \A r : New(r) \in Seqs(out_q) => New(r) \in Seqs(out_q')
    BY <2>1, LoopMsgsDiffer
  <2>6. \A r \in GoodRequests : r # resend
    BY <2>1, IdleAssumption DEF GoodRequests
  <2>. HIDE DEF h, again
  <2>7. ASSUME NEW r \in GoodRequests,
               r \in outstanding \/ New(r) \in Seqs(out_q) \/ r = resend
        PROVE  \E q \in GoodRequests :
                 /\ Key(q) = Key(r)
                 /\ q \in outstanding' \/ New(q) \in Seqs(out_q') \/ q = resend'
    <3>1. CASE r = h /\ r \in outstanding
      BY <2>3, <2>4, <3>1
    <3>2. CASE r # h /\ r \in outstanding
      BY <2>4, <2>7, <3>2
    <3>3. CASE New(r) \in Seqs(out_q)
      BY <2>5, <2>7, <3>3
    <3>. QED
      BY <2>6, <2>7, <3>1, <3>2, <3>3
  <2>. QED
    BY <2>7, NothingLost DEF IInv
<1>3. CASE RetryResumes
  <2>1. outstanding' = outstanding \cup {resend} /\ UNCHANGED out_q
    BY <1>3 DEF RetryResumes, Insert
  <2>2. \A r \in GoodRequests :
          r \in outstanding \/ New(r) \in Seqs(out_q) \/ r = resend =>
            r \in outstanding' \/ New(r) \in Seqs(out_q')
    BY <2>1
  <2>. QED
    BY <2>2, NothingLost DEF IInv
<1>. QED
  BY <1>1, <1>2, <1>3

\* An expiry that finds its request gone, or no peer to ask.
LEMMA RetryDroppedLoses ==
  ASSUME IInv, RetryDropped, NEW x \in Undertaken \ Undertaken'
  PROVE  GivenUp
<1>. DEFINE h == Head(out_q).req
<1>1. /\ h \in GoodRequests /\ Head(out_q) = Timeout(h)
      /\ \A m \in Seqs(out_q) : m # Head(out_q) => m \in Seqs(out_q')
  BY LoopMessage DEF IInv, RetryDropped, Timeout
<1>2. /\ out_q # <<>> /\ Head(out_q).type = "timeout" /\ out_q' = Tail(out_q)
      /\ UNCHANGED <<socket_tx, resend>>
      /\ outstanding' = outstanding \ {h}
      /\ h \notin outstanding \/ FALSE \in HasPeers
  BY DEF RetryDropped, LoopReady, Remove
<1>3. \A r : New(r) \in Seqs(out_q) => New(r) \in Seqs(out_q')
  BY <1>1, LoopMsgsDiffer
<1>. HIDE DEF h
<1>4. CASE h \notin outstanding
  <2>1. \A r \in GoodRequests :
          r \in outstanding \/ New(r) \in Seqs(out_q) \/ r = resend =>
            r \in outstanding' \/ New(r) \in Seqs(out_q') \/ r = resend'
    BY <1>2, <1>3, <1>4
  <2>2. Undertaken \subseteq Undertaken'
    BY <2>1, NothingLost DEF IInv
  <2>. QED
    BY <2>2
<1>5. CASE FALSE \in HasPeers
  <2>1. Lonely
    BY <1>5 DEF HasPeers
  <2>. QED
    BY <1>2, <2>1 DEF GivenUp
<1>. QED
  BY <1>2, <1>4, <1>5

\* The steps that take no request from the store, the queue or the loop.
LEMMA OthersLoseNothing ==
  ASSUME IInv, outstanding \subseteq outstanding',
         Seqs(out_q) \subseteq Seqs(out_q'), UNCHANGED resend
  PROVE  Undertaken \subseteq Undertaken'
  BY NothingLost DEF IInv

\* A repair request is lost by no step: it ends with a response the receiver
\* takes, a cancellation of its slot, or a retry that finds no peer.
THEOREM RequestsNeverLost == Spec => RequestsPersist
<1>1. ASSUME IInv, [Next]_vars, NEW x \in Undertaken \ Undertaken'
      PROVE  Answered(x) \/ Withdrawn(x) \/ GivenUp
  <2>1. CASE ProcessBounded
    <3>1. Seqs(out_q) \subseteq Seqs(out_q') /\ UNCHANGED <<outstanding, resend>>
      BY <1>1, <2>1, ProcessBoundedIInv DEF ProcessBounded
    <3>. QED
      BY <1>1, <3>1, OthersLoseNothing
  <2>2. CASE ProcessUnbounded
    <3>1. Seqs(out_q) \subseteq Seqs(out_q') /\ UNCHANGED <<outstanding, resend>>
      BY <1>1, <2>2, ProcessUnboundedIInv DEF ProcessUnbounded
    <3>. QED
      BY <1>1, <3>1, OthersLoseNothing
  <2>3. CASE ProcessCancel
    BY <1>1, <2>3, CancelLoses DEF IInv
  <2>4. CASE TrackNew \/ Retry \/ RetryResumes
    BY <1>1, <2>4, LoopLosesNothing
  <2>5. CASE RetryDropped
    BY <1>1, <2>5, RetryDroppedLoses
  <2>6. ASSUME NEW r \in ticking, TimerFires(r)
        PROVE  FALSE
    <3>1. out_q \in Seq(LoopMsgs) /\ out_q' = Append(out_q, Timeout(r))
          /\ UNCHANGED <<outstanding, resend>>
      BY <1>1, <2>6 DEF TimerFires, IInv, Typed
    <3>2. Seqs(out_q) \subseteq Seqs(out_q')
      BY <3>1, SeqsAppend
    <3>. QED
      BY <1>1, <3>1, <3>2, OthersLoseNothing
  <2>7. ASSUME NEW pkt \in responses, ReceiveDropped(pkt) \/ ReceiveWindow(pkt)
        PROVE  Answered(x)
    <3>1. Receives(pkt) /\ UNCHANGED <<out_q, resend>>
      BY <2>7 DEF ReceiveDropped, ReceiveWindow
    <3>. QED
      BY <1>1, <3>1, ReceiveLoses DEF IInv
  <2>8. ASSUME NEW pkt \in responses, ReceiveHighest(pkt)
        PROVE  Answered(x)
    <3>1. Receives(pkt) /\ UNCHANGED resend
      BY <2>8 DEF ReceiveHighest
    <3>2. Seqs(out_q) \subseteq Seqs(out_q')
      BY <1>1, <2>8, ReceiveHighestIInv
    <3>. QED
      BY <1>1, <3>1, <3>2, ReceiveLoses DEF IInv
  <2>9. CASE \/ ProcessorResumes
             \/ ReceiverResumes
             \/ SocketSends
             \/ \E s \in Slots : PeersAdvance(s)
             \/ \E req \in Asks : Ask(req)
             \/ \E shred \in filter_tx : FilterTakes(shred)
             \/ UNCHANGED vars
    <3>1. UNCHANGED <<out_q, outstanding, resend>>
      BY <2>9 DEF ProcessorResumes, ReceiverResumes, SocketSends, PeersAdvance,
                  Ask, FilterTakes, managerVars, vars
    <3>. QED
      BY <1>1, <3>1, OthersLoseNothing
  <2>. QED
    BY <1>1, <2>1, <2>2, <2>3, <2>4, <2>5, <2>6, <2>7, <2>8, <2>9
       DEF Next, Manager, Network
<1>2. IInv /\ [Next]_vars
        => [\A x \in Undertaken \ Undertaken' :
              \/ \E pkt \in responses \ responses' : SubSeq(pkt.nonce, 1, 3) = x
              \/ /\ repair_tx # <<>>
                 /\ Head(repair_tx) = [type |-> "cancel", slot |-> x[2]]
                 /\ repair_tx' = Tail(repair_tx)
              \/ /\ Lonely
                 /\ out_q # <<>>
                 /\ Head(out_q).type = "timeout"
                 /\ out_q' = Tail(out_q)
                 /\ UNCHANGED <<socket_tx, resend>>]_vars
  BY <1>1 DEF Answered, Withdrawn, GivenUp
<1>. QED
  BY <1>2, IInvHolds, PTL DEF Spec, RequestsPersist
=============================================================================
