----------------------- MODULE OverlayTransportProofs -----------------------
(***************************************************************************)
(* Proofs about the overlay's transport, for any number of addresses,      *)
(* identities, connections and streams.                                    *)
(***************************************************************************)
EXTENDS OverlayTransport, FiniteSetTheorems, TLAPS

\* The connections, the table and the streams, spelled out.
Dirs == {"out", "in"}

Conns ==
  [established : BOOLEAN, peer_pubkey : Ids \cup {None}, socket : Helpers \cup {None},
   pending : Seq(Payloads), expect_pubkey : Ids \cup {None},
   streams : Partial(QuicIds, Nat), opened : [Dirs -> Nat]]

Streams ==
  [peer_addr : Addrs, quic_id : QuicIds, fin_pending : BOOLEAN, fin_done : BOOLEAN,
   recv_done : BOOLEAN]

\* What is pending for an identity waits on a connection that is only ever
\* flushed to this identity.
Reserved(c) ==
  \A i \in DOMAIN c.pending :
    LET p == c.pending[i]
    IN p.sound /\ p.for # None => p.for \in {c.expect_pubkey, c.peer_pubkey}

\* A connection, when n streams were made: it holds at most MaxPending
\* datagrams, and the next id of either direction is not in use.
Fit(c, n) ==
  /\ Len(c.pending) <= MaxPending
  /\ c.established => c.peer_pubkey # None
  /\ Reserved(c)
  /\ \A d \in Dirs : c.opened[d] <= n
  /\ \A q \in DOMAIN c.streams : q.n < c.opened[q.dir]

\* Between two calls an established connection has nothing pending.
Sound(c, n) == Fit(c, n) /\ (c.established => c.pending = <<>>)

TableInv(cs, n) ==
  /\ cs \in Partial(Addrs, Conns)
  /\ IsFiniteSet(DOMAIN cs) /\ Cardinality(DOMAIN cs) <= MaxConnections
  /\ \A a \in DOMAIN cs : Sound(cs[a], n)

StatesInv(ss, n) ==
  /\ n \in 0 .. MaxStreams
  /\ ss \in Partial(0 .. (n - 1), Streams)
  /\ IsFiniteSet(DOMAIN ss) /\ Cardinality(DOMAIN ss) <= MaxStreamStates

\* The streams that a connection lists are alive and point back to it.
ListedAlive(cs, ss) ==
  \A a \in DOMAIN cs : \A q \in DOMAIN cs[a].streams :
    /\ cs[a].streams[q] \in DOMAIN ss
    /\ ss[cs[a].streams[q]].peer_addr = a
    /\ ss[cs[a].streams[q]].quic_id = q

\* The stream s is listed by the connection at its address.
Listed(cs, ss, s) ==
  /\ ss[s].peer_addr \in DOMAIN cs
  /\ ss[s].quic_id \in DOMAIN cs[ss[s].peer_addr].streams
  /\ cs[ss[s].peer_addr].streams[ss[s].quic_id] = s

AliveListed(cs, ss, rs) ==
  \A s \in DOMAIN ss : ss[s].peer_addr \notin rs => Listed(cs, ss, s)

\* The entry of k in the index names an established connection of k.
Names(cs, by, k) ==
  /\ by[k] \in DOMAIN cs
  /\ cs[by[k]].established
  /\ cs[by[k]].peer_pubkey = k

IndexInv(cs, by, rs) ==
  \A k \in DOMAIN by : by[k] \notin rs => Names(cs, by, k)

\* The inductive invariant.
IInv ==
  /\ TableInv(connections, next_stream)
  /\ StatesInv(stream_states, next_stream)
  /\ by_pubkey \in Partial(Ids, Addrs)
  /\ strayed \subseteq Payloads
  /\ probe_sockets \subseteq Helpers
  /\ DeliveredToIntended
  /\ ListedAlive(connections, stream_states)
  /\ AliveListed(connections, stream_states, replaced)
  /\ IndexInv(connections, by_pubkey, replaced)

-----------------------------------------------------------------------------
(* Partial functions.                                                      *)

\* What a partial function is.
LEMMA PartialIs ==
  ASSUME NEW S, NEW T, NEW f
  PROVE  f \in Partial(S, T) <=> /\ f = [x \in DOMAIN f |-> f[x]]
                                 /\ DOMAIN f \subseteq S
                                 /\ \A x \in DOMAIN f : f[x] \in T
<1>1. ASSUME f \in Partial(S, T)
      PROVE  /\ f = [x \in DOMAIN f |-> f[x]]
             /\ DOMAIN f \subseteq S
             /\ \A x \in DOMAIN f : f[x] \in T
  <2>1. PICK D \in SUBSET S : f \in [D -> T]
    BY <1>1 DEF Partial
  <2>. QED
    BY <2>1
<1>2. ASSUME f = [x \in DOMAIN f |-> f[x]], DOMAIN f \subseteq S,
             \A x \in DOMAIN f : f[x] \in T
      PROVE  f \in Partial(S, T)
  <2>1. f \in [DOMAIN f -> T] /\ DOMAIN f \in SUBSET S
    BY <1>2
  <2>. QED
    BY <2>1 DEF Partial
<1>. QED
  BY <1>1, <1>2

\* The function that is defined nowhere.
LEMMA EmptyPartial ==
  ASSUME NEW S, NEW T
  PROVE  <<>> \in Partial(S, T) /\ DOMAIN <<>> = {}
<1>1. DOMAIN <<>> = {}
  OBVIOUS
<1>2. <<>> = [x \in DOMAIN <<>> |-> <<>>[x]]
  BY <1>1
<1>. QED
  BY <1>1, <1>2, PartialIs

\* An entry is put into a partial function.
LEMMA PutPartial ==
  ASSUME NEW S, NEW T, NEW f \in Partial(S, T), NEW x \in S, NEW v \in T
  PROVE  Put(f, x, v) \in Partial(S, T)
<1>1. DOMAIN f \subseteq S /\ \A y \in DOMAIN f : f[y] \in T
  BY PartialIs
<1>2. /\ DOMAIN Put(f, x, v) \subseteq S
      /\ \A y \in DOMAIN Put(f, x, v) : Put(f, x, v)[y] \in T
  BY <1>1 DEF Put
<1>3. Put(f, x, v) = [y \in DOMAIN Put(f, x, v) |-> Put(f, x, v)[y]]
  BY DEF Put
<1>. QED
  BY <1>2, <1>3, PartialIs

\* The last entry put counts.
LEMMA PutPut ==
  ASSUME NEW f, NEW x, NEW v, NEW w
  PROVE  Put(Put(f, x, v), x, w) = Put(f, x, w)
  BY DEF Put

\* Entries are taken out of a partial function.
LEMMA WithoutPartial ==
  ASSUME NEW S, NEW T, NEW f \in Partial(S, T), NEW R
  PROVE  Without(f, R) \in Partial(S, T)
<1>1. DOMAIN f \subseteq S /\ \A y \in DOMAIN f : f[y] \in T
  BY PartialIs
<1>2. DOMAIN Without(f, R) \subseteq S
      /\ \A y \in DOMAIN Without(f, R) : Without(f, R)[y] \in T
  BY <1>1 DEF Without, Restrict
<1>3. Without(f, R) = [y \in DOMAIN Without(f, R) |-> Without(f, R)[y]]
  BY DEF Without, Restrict
<1>. QED
  BY <1>2, <1>3, PartialIs

\* A wider range of names.
LEMMA PartialWider ==
  ASSUME NEW S, NEW W, S \subseteq W, NEW T, NEW f \in Partial(S, T)
  PROVE  f \in Partial(W, T)
<1>1. DOMAIN f \subseteq W
  BY PartialIs
<1>. QED
  BY <1>1, PartialIs

\* How many entries there are.
LEMMA PutSize ==
  ASSUME NEW f, IsFiniteSet(DOMAIN f), NEW x, NEW v, NEW max \in Nat,
         \/ x \in DOMAIN f /\ Cardinality(DOMAIN f) <= max
         \/ Cardinality(DOMAIN f) < max
  PROVE  /\ IsFiniteSet(DOMAIN Put(f, x, v))
         /\ Cardinality(DOMAIN Put(f, x, v)) <= max
<1>1. /\ IsFiniteSet(DOMAIN f \cup {x})
      /\ x \in DOMAIN f => Cardinality(DOMAIN f \cup {x}) = Cardinality(DOMAIN f)
      /\ x \notin DOMAIN f => Cardinality(DOMAIN f \cup {x}) = Cardinality(DOMAIN f) + 1
  BY FS_AddElement
<1>2. Cardinality(DOMAIN f) \in Nat
  BY FS_CardinalityType
<1>3. DOMAIN Put(f, x, v) = DOMAIN f \cup {x}
  BY DEF Put
<1>. QED
  BY <1>1, <1>2, <1>3

LEMMA WithoutSize ==
  ASSUME NEW f, IsFiniteSet(DOMAIN f), NEW R, NEW max \in Nat,
         Cardinality(DOMAIN f) <= max
  PROVE  /\ IsFiniteSet(DOMAIN Without(f, R))
         /\ Cardinality(DOMAIN Without(f, R)) <= max
<1>1. DOMAIN Without(f, R) \subseteq DOMAIN f
  BY DEF Without, Restrict
<1>2. /\ IsFiniteSet(DOMAIN Without(f, R))
      /\ Cardinality(DOMAIN Without(f, R)) <= Cardinality(DOMAIN f)
  BY <1>1, FS_Subset
<1>3. Cardinality(DOMAIN f) \in Nat /\ Cardinality(DOMAIN Without(f, R)) \in Nat
  BY <1>2, FS_CardinalityType
<1>. QED
  BY <1>2, <1>3

-----------------------------------------------------------------------------
(* Connections.                                                            *)

\* push_bounded: what is in the queue was there or is new, and the queue stays
\* within its limit.
LEMMA PushBoundedIs ==
  ASSUME NEW S, NEW q \in Seq(S), NEW v \in S, NEW cap \in Nat \ {0}, Len(q) <= cap
  PROVE  /\ PushBounded(q, v, cap) \in Seq(S)
         /\ Len(PushBounded(q, v, cap)) <= cap
         /\ \A i \in DOMAIN PushBounded(q, v, cap) :
              \/ PushBounded(q, v, cap)[i] = v
              \/ \E j \in DOMAIN q : PushBounded(q, v, cap)[i] = q[j]
<1>1. CASE Len(q) >= cap
  <2>1. q # <<>> /\ Len(q) = cap
    BY <1>1
  <2>. DEFINE t == Tail(q)
  <2>2. /\ t \in Seq(S) /\ Len(t) = cap - 1
        /\ \A i \in 1 .. (cap - 1) : t[i] = q[i + 1]
    BY <2>1
  <2>3. PushBounded(q, v, cap) = Append(t, v)
    BY <1>1 DEF PushBounded
  <2>. HIDE DEF t
  <2>4. /\ Append(t, v) \in Seq(S) /\ Len(Append(t, v)) = cap
        /\ DOMAIN Append(t, v) = 1 .. cap
        /\ \A i \in 1 .. (cap - 1) : Append(t, v)[i] = t[i]
        /\ Append(t, v)[cap] = v
    BY <2>2
  <2>5. \A i \in 1 .. (cap - 1) : i + 1 \in DOMAIN q
    BY <2>1
  <2>6. \A i \in 1 .. cap : i = cap \/ i \in 1 .. (cap - 1)
    OBVIOUS
  <2>. QED
    BY <2>2, <2>3, <2>4, <2>5, <2>6
<1>2. CASE ~(Len(q) >= cap)
  <2>1. PushBounded(q, v, cap) = Append(q, v)
    BY <1>2 DEF PushBounded
  <2>2. /\ Append(q, v) \in Seq(S) /\ Len(Append(q, v)) = Len(q) + 1
        /\ DOMAIN Append(q, v) = 1 .. (Len(q) + 1)
        /\ \A i \in 1 .. Len(q) : Append(q, v)[i] = q[i]
        /\ Append(q, v)[Len(q) + 1] = v
    OBVIOUS
  <2>3. Len(q) + 1 <= cap
    BY <1>2
  <2>4. \A i \in 1 .. (Len(q) + 1) : i = Len(q) + 1 \/ i \in DOMAIN q
    OBVIOUS
  <2>. QED
    BY <2>1, <2>2, <2>3, <2>4
<1>. QED
  BY <1>1, <1>2

\* The limits are positive.
LEMMA LimitsAre ==
  /\ MaxConnections \in Nat \ {0} /\ MaxPending \in Nat \ {0}
  /\ MaxStreamStates \in Nat \ {0} /\ MaxHandles \in Nat /\ MaxStreams \in Nat
  BY LimitsAssumption, BoundsAssumption

\* A connection that was just made.
LEMMA ConnectionIs ==
  ASSUME NEW h \in Helpers \cup {None}, NEW n \in Nat
  PROVE  /\ Connection(h) \in Conns
         /\ Sound(Connection(h), n)
         /\ Connection(h).established = FALSE
         /\ DOMAIN Connection(h).streams = {}
<1>. DEFINE c == Connection(h)
<1>1. /\ c.established = FALSE /\ c.peer_pubkey = None /\ c.socket = h
      /\ c.pending = <<>> /\ c.expect_pubkey = None /\ c.streams = <<>>
      /\ c.opened = [dir \in Dirs |-> 0]
  BY DEF Connection, Dirs
<1>2. /\ <<>> \in Seq(Payloads) /\ <<>> \in Partial(QuicIds, Nat)
      /\ [dir \in Dirs |-> 0] \in [Dirs -> Nat] /\ FALSE \in BOOLEAN
  BY EmptyPartial
<1>3. c \in Conns
  BY <1>2 DEF Connection, Conns, Dirs
<1>4. DOMAIN c.streams = {} /\ DOMAIN c.pending = {} /\ Len(c.pending) = 0
  BY <1>1
<1>5. Sound(c, n)
  <2>1. Reserved(c)
    BY <1>4 DEF Reserved
  <2>2. \A d \in Dirs : c.opened[d] <= n
    BY <1>1
  <2>3. Fit(c, n)
    BY <1>1, <1>4, <2>1, <2>2, LimitsAre DEF Fit
  <2>. QED
    BY <1>1, <2>3 DEF Sound
<1>. QED
  BY <1>1, <1>3, <1>4, <1>5

\* The first expectation wins, so that what is pending keeps its reader.
LEMMA ExpectingFit ==
  ASSUME NEW n, NEW c \in Conns, Fit(c, n), NEW k \in Ids
  PROVE  /\ Expecting(c, k) \in Conns
         /\ Fit(Expecting(c, k), n)
         /\ Expecting(c, k).established = c.established
         /\ Expecting(c, k).peer_pubkey = c.peer_pubkey
         /\ Expecting(c, k).streams = c.streams
<1>. DEFINE e == Expecting(c, k)
<1>1. /\ e \in Conns /\ e.established = c.established
      /\ e.peer_pubkey = c.peer_pubkey /\ e.streams = c.streams
      /\ e.opened = c.opened /\ e.pending = c.pending
      /\ e.expect_pubkey = IF c.expect_pubkey = None THEN k ELSE c.expect_pubkey
  BY DEF Expecting, Conns
<1>2. Reserved(c)
  BY DEF Fit
<1>. HIDE DEF e
<1>3. Reserved(e)
  BY <1>1, <1>2 DEF Reserved
<1>4. Fit(e, n)
  BY <1>1, <1>3 DEF Fit
<1>. QED
  BY <1>1, <1>4 DEF e

\* A datagram is queued.
LEMMA QueuedFit ==
  ASSUME NEW n, NEW c \in Conns, Fit(c, n), NEW p \in Payloads,
         p.sound /\ p.for # None => p.for \in {c.expect_pubkey, c.peer_pubkey}
  PROVE  /\ Queued(c, p) \in Conns
         /\ Fit(Queued(c, p), n)
         /\ Queued(c, p).established = c.established
         /\ Queued(c, p).peer_pubkey = c.peer_pubkey
         /\ Queued(c, p).streams = c.streams
<1>. DEFINE e == Queued(c, p)
            b == PushBounded(c.pending, p, MaxPending)
<1>1. c.pending \in Seq(Payloads) /\ Len(c.pending) <= MaxPending /\ Reserved(c)
  BY DEF Conns, Fit
<1>2. /\ b \in Seq(Payloads) /\ Len(b) <= MaxPending
      /\ \A i \in DOMAIN b : b[i] = p \/ \E j \in DOMAIN c.pending : b[i] = c.pending[j]
  BY <1>1, LimitsAre, PushBoundedIs
<1>. HIDE DEF b
<1>3. e = [c EXCEPT !.pending = b]
  BY DEF Queued, b
<1>. HIDE DEF e
<1>4. /\ e \in Conns /\ e.established = c.established
      /\ e.peer_pubkey = c.peer_pubkey /\ e.streams = c.streams
      /\ e.opened = c.opened /\ e.pending = b
      /\ e.expect_pubkey = c.expect_pubkey
  BY <1>2, <1>3 DEF Conns
<1>5. Reserved(e)
  <2>. SUFFICES ASSUME NEW i \in DOMAIN b, b[i].sound, b[i].for # None
                PROVE  b[i].for \in {c.expect_pubkey, c.peer_pubkey}
    BY <1>4 DEF Reserved
  <2>1. CASE b[i] = p
    BY <2>1
  <2>2. CASE \E j \in DOMAIN c.pending : b[i] = c.pending[j]
    BY <1>1, <2>2 DEF Reserved
  <2>. QED
    BY <1>2, <2>1, <2>2
<1>6. Fit(e, n)
  BY <1>2, <1>4, <1>5 DEF Fit
<1>. QED
  BY <1>4, <1>6 DEF e

\* flush_pending: nothing stays pending on an established connection, and what
\* was reserved for an identity is handed to no other one.
LEMMA Flushed ==
  ASSUME NEW n, NEW c \in Conns, Fit(c, n)
  PROVE  /\ Drained(c) \in Conns
         /\ Sound(Drained(c), n)
         /\ Drained(c).established = c.established
         /\ Drained(c).peer_pubkey = c.peer_pubkey
         /\ Drained(c).streams = c.streams
         /\ Astray(c) \subseteq Payloads
         /\ \A d \in Astray(c) : ~d.sound
<1>. DEFINE e == Drained(c)
<1>1. c.pending \in Seq(Payloads) /\ Reserved(c) /\ Len(c.pending) <= MaxPending
  BY DEF Conns, Fit
<1>2. /\ e \in Conns /\ Sound(e, n) /\ e.established = c.established
      /\ e.peer_pubkey = c.peer_pubkey /\ e.streams = c.streams
  <2>1. CASE c.established
    <3>1. <<>> \in Seq(Payloads) /\ Len(<<>>) = 0 /\ DOMAIN <<>> = {}
      OBVIOUS
    <3>2. e = [c EXCEPT !.pending = <<>>]
      BY <2>1 DEF Drained
    <3>. HIDE DEF e
    <3>3. /\ e \in Conns /\ e.established = c.established
          /\ e.peer_pubkey = c.peer_pubkey /\ e.streams = c.streams
          /\ e.opened = c.opened /\ e.pending = <<>>
      BY <3>1, <3>2 DEF Conns
    <3>4. Reserved(e)
      BY <3>1, <3>3 DEF Reserved
    <3>5. Fit(e, n)
      BY <3>1, <3>3, <3>4, LimitsAre DEF Fit
    <3>. QED
      BY <3>3, <3>5 DEF Sound
  <2>2. CASE ~c.established
    BY <2>2 DEF Drained, Sound
  <2>. QED
    BY <2>1, <2>2
<1>3. ASSUME NEW d \in Astray(c)
      PROVE  d \in Payloads /\ ~d.sound
  <2>1. PICK i \in DOMAIN c.pending : d = c.pending[i]
    BY DEF Astray, Range
  <2>2. GateOpen(c) /\ d.for \notin {None, c.peer_pubkey}
    BY DEF Astray
  <2>3. d \in Payloads
    BY <1>1, <2>1
  <2>. QED
    BY <1>1, <2>1, <2>2, <2>3 DEF Reserved, GateOpen
<1>. QED
  BY <1>2, <1>3

-----------------------------------------------------------------------------
(* The table.                                                              *)

\* The connections in the table.
LEMMA TableIs ==
  ASSUME NEW cs, NEW n, TableInv(cs, n)
  PROVE  /\ DOMAIN cs \subseteq Addrs
         /\ \A a \in DOMAIN cs : cs[a] \in Conns /\ Sound(cs[a], n) /\ Fit(cs[a], n)
  BY PartialIs DEF TableInv, Sound

\* A connection takes its place in the table.
LEMMA TablePut ==
  ASSUME NEW cs, NEW n, TableInv(cs, n), NEW a \in Addrs,
         NEW c \in Conns, Sound(c, n),
         a \in DOMAIN cs \/ Cardinality(DOMAIN cs) < MaxConnections
  PROVE  TableInv(Put(cs, a, c), n)
<1>1. /\ cs \in Partial(Addrs, Conns)
      /\ IsFiniteSet(DOMAIN cs) /\ Cardinality(DOMAIN cs) <= MaxConnections
      /\ \A b \in DOMAIN cs : Sound(cs[b], n)
  BY DEF TableInv
<1>2. Put(cs, a, c) \in Partial(Addrs, Conns)
  BY <1>1, PutPartial
<1>3. /\ IsFiniteSet(DOMAIN Put(cs, a, c))
      /\ Cardinality(DOMAIN Put(cs, a, c)) <= MaxConnections
  BY <1>1, LimitsAre, PutSize
<1>4. \A b \in DOMAIN Put(cs, a, c) : Sound(Put(cs, a, c)[b], n)
  <2>1. /\ DOMAIN Put(cs, a, c) = DOMAIN cs \cup {a} /\ Put(cs, a, c)[a] = c
        /\ \A b \in DOMAIN cs : b # a => Put(cs, a, c)[b] = cs[b]
    BY DEF Put
  <2>. QED
    BY <1>1, <2>1
<1>. QED
  BY <1>2, <1>3, <1>4 DEF TableInv

\* A connection that keeps the streams of the one at its address, or that is
\* made where there was none or where one is known to be replaced, leaves every
\* stream where it belongs.
LEMMA LinksPut ==
  ASSUME NEW cs, NEW ss, NEW rs, NEW ts, rs \subseteq ts, NEW a, NEW c,
         ListedAlive(cs, ss), AliveListed(cs, ss, rs),
         \/ a \in DOMAIN cs /\ c.streams = cs[a].streams
         \/ DOMAIN c.streams = {} /\ (a \notin DOMAIN cs \/ a \in ts)
  PROVE  ListedAlive(Put(cs, a, c), ss) /\ AliveListed(Put(cs, a, c), ss, ts)
<1>. DEFINE ds == Put(cs, a, c)
<1>1. /\ DOMAIN ds = DOMAIN cs \cup {a} /\ ds[a] = c
      /\ \A b \in DOMAIN cs : b # a => ds[b] = cs[b]
  BY DEF Put
<1>. HIDE DEF ds
<1>2. ASSUME NEW b \in DOMAIN ds, NEW q \in DOMAIN ds[b].streams
      PROVE  /\ ds[b].streams[q] \in DOMAIN ss
             /\ ss[ds[b].streams[q]].peer_addr = b
             /\ ss[ds[b].streams[q]].quic_id = q
  <2>1. b \in DOMAIN cs /\ ds[b].streams = cs[b].streams
    BY <1>1, <1>2
  <2>. QED
    BY <1>2, <2>1 DEF ListedAlive
<1>3. ASSUME NEW s \in DOMAIN ss, ss[s].peer_addr \notin ts
      PROVE  Listed(ds, ss, s)
  <2>1. Listed(cs, ss, s)
    BY <1>3 DEF AliveListed
  <2>2. ds[ss[s].peer_addr].streams = cs[ss[s].peer_addr].streams
        /\ ss[s].peer_addr \in DOMAIN ds
    BY <1>1, <1>3, <2>1 DEF Listed
  <2>. QED
    BY <2>1, <2>2 DEF Listed
<1>4. ListedAlive(ds, ss)
  BY <1>2 DEF ListedAlive
<1>5. AliveListed(ds, ss, ts)
  BY <1>3 DEF AliveListed
<1>. QED
  BY <1>4, <1>5 DEF ds

\* Neither does it leave an entry of the index behind, if it does not take an
\* established connection's place.
LEMMA IndexPut ==
  ASSUME NEW cs, NEW by, NEW rs, NEW ts, rs \subseteq ts, NEW a, NEW c,
         IndexInv(cs, by, rs),
         \/ a \notin DOMAIN cs
         \/ a \in ts
         \/ /\ cs[a].established => c.established
            /\ cs[a].established => c.peer_pubkey = cs[a].peer_pubkey
  PROVE  IndexInv(Put(cs, a, c), by, ts)
<1>. DEFINE ds == Put(cs, a, c)
<1>1. /\ DOMAIN ds = DOMAIN cs \cup {a} /\ ds[a] = c
      /\ \A b \in DOMAIN cs : b # a => ds[b] = cs[b]
  BY DEF Put
<1>. HIDE DEF ds
<1>2. ASSUME NEW k \in DOMAIN by, by[k] \notin ts
      PROVE  Names(ds, by, k)
  <2>1. Names(cs, by, k)
    BY <1>2 DEF IndexInv
  <2>. QED
    BY <1>1, <1>2, <2>1 DEF Names
<1>. QED
  BY <1>2 DEF IndexInv, ds

\* The invariant after a step, part by part.
LEMMA NextIInv ==
  ASSUME TableInv(connections', next_stream'), StatesInv(stream_states', next_stream'),
         by_pubkey' \in Partial(Ids, Addrs), strayed' \subseteq Payloads,
         probe_sockets' \subseteq Helpers, DeliveredToIntended',
         ListedAlive(connections', stream_states'),
         AliveListed(connections', stream_states', replaced'),
         IndexInv(connections', by_pubkey', replaced')
  PROVE  IInv'
  BY DEF IInv, TableInv, StatesInv, ListedAlive, AliveListed, Listed, IndexInv, Names,
         Sound, Fit, Reserved

\* What the invariant says of the state before a step.
LEMMA Before ==
  ASSUME IInv
  PROVE  /\ TableInv(connections, next_stream)
         /\ StatesInv(stream_states, next_stream)
         /\ next_stream \in Nat
         /\ DOMAIN connections \subseteq Addrs
         /\ \A a \in DOMAIN connections :
              /\ connections[a] \in Conns
              /\ Sound(connections[a], next_stream)
              /\ Fit(connections[a], next_stream)
         /\ ListedAlive(connections, stream_states)
         /\ AliveListed(connections, stream_states, replaced)
         /\ IndexInv(connections, by_pubkey, replaced)
         /\ by_pubkey \in Partial(Ids, Addrs)
         /\ DOMAIN by_pubkey \subseteq Ids
         /\ \A k \in DOMAIN by_pubkey : by_pubkey[k] \in Addrs
<1>1. TableInv(connections, next_stream) /\ StatesInv(stream_states, next_stream)
      /\ by_pubkey \in Partial(Ids, Addrs)
  BY DEF IInv
<1>2. next_stream \in Nat
  BY <1>1, LimitsAre DEF StatesInv
<1>3. /\ DOMAIN connections \subseteq Addrs
      /\ \A a \in DOMAIN connections :
           /\ connections[a] \in Conns
           /\ Sound(connections[a], next_stream)
           /\ Fit(connections[a], next_stream)
  BY <1>1, TableIs
<1>4. DOMAIN by_pubkey \subseteq Ids /\ \A k \in DOMAIN by_pubkey : by_pubkey[k] \in Addrs
  BY <1>1, PartialIs
<1>. QED
  BY <1>1, <1>2, <1>3, <1>4 DEF IInv

\* A connection settles: a fit one with the streams and, once established, the
\* identity of the one that was at its address, or a new one where there was
\* none.
LEMMA SettleKeeps ==
  ASSUME IInv, NEW a \in Addrs, NEW c \in Conns, Fit(c, next_stream), NEW table,
         table = connections \/ \E v : table = Put(connections, a, v),
         Settle(table, a, c),
         \/ /\ a \in DOMAIN connections
            /\ c.streams = connections[a].streams
            /\ connections[a].established =>
                 c.established /\ c.peer_pubkey = connections[a].peer_pubkey
         \/ /\ a \notin DOMAIN connections
            /\ Cardinality(DOMAIN connections) < MaxConnections
            /\ DOMAIN c.streams = {},
         by_pubkey' \in Partial(Ids, Addrs),
         \A k \in DOMAIN by_pubkey' :
           \/ k \in DOMAIN by_pubkey /\ by_pubkey'[k] = by_pubkey[k]
           \/ by_pubkey'[k] = a /\ c.established /\ c.peer_pubkey = k,
         UNCHANGED <<replaced, stream_states, next_stream, probe_sockets>>
  PROVE  IInv'
<1>. DEFINE e == Drained(c)
<1>1. /\ TableInv(connections, next_stream) /\ StatesInv(stream_states, next_stream)
      /\ ListedAlive(connections, stream_states)
      /\ AliveListed(connections, stream_states, replaced)
      /\ IndexInv(connections, by_pubkey, replaced)
  BY Before
<1>2. /\ e \in Conns /\ Sound(e, next_stream)
      /\ e.established = c.established /\ e.peer_pubkey = c.peer_pubkey
      /\ e.streams = c.streams
      /\ Astray(c) \subseteq Payloads /\ \A d \in Astray(c) : ~d.sound
  BY Flushed
<1>3. connections' = Put(connections, a, e) /\ strayed' = strayed \cup Astray(c)
  BY PutPut DEF Settle
<1>. HIDE DEF e
<1>4. TableInv(connections', next_stream')
  BY <1>1, <1>2, <1>3, TablePut
<1>5. /\ ListedAlive(connections', stream_states')
      /\ AliveListed(connections', stream_states', replaced')
  BY <1>1, <1>2, <1>3, LinksPut
<1>6. IndexInv(connections', by_pubkey', replaced')
  <2>1. IndexInv(connections', by_pubkey, replaced')
    BY <1>1, <1>2, <1>3, IndexPut
  <2>2. connections'[a] = e /\ a \in DOMAIN connections'
    BY <1>3 DEF Put
  <2>3. ASSUME NEW k \in DOMAIN by_pubkey', by_pubkey'[k] \notin replaced'
        PROVE  Names(connections', by_pubkey', k)
    <3>1. CASE k \in DOMAIN by_pubkey /\ by_pubkey'[k] = by_pubkey[k]
      BY <2>1, <2>3, <3>1 DEF IndexInv, Names
    <3>2. CASE by_pubkey'[k] = a /\ c.established /\ c.peer_pubkey = k
      BY <1>2, <2>2, <3>2 DEF Names
    <3>. QED
      BY <3>1, <3>2
  <2>. QED
    BY <2>3 DEF IndexInv
<1>7. strayed' \subseteq Payloads /\ DeliveredToIntended'
  BY <1>2, <1>3 DEF IInv, DeliveredToIntended
<1>8. probe_sockets' \subseteq Helpers /\ StatesInv(stream_states', next_stream')
  BY <1>1 DEF IInv
<1>. QED
  BY <1>4, <1>5, <1>6, <1>7, <1>8, NextIInv

-----------------------------------------------------------------------------
(* Dialling, queueing and handshakes.                                      *)

\* ensure_connection_from: the table with a connection to this address.
LEMMA EnsuredIs ==
  ASSUME IInv, NEW to \in Addrs, NEW h \in Helpers \cup {None}, Ensured(to, h) # None
  PROVE  /\ \/ Ensured(to, h) = connections
            \/ \E v : Ensured(to, h) = Put(connections, to, v)
         /\ Ensured(to, h)[to] \in Conns
         /\ Fit(Ensured(to, h)[to], next_stream)
         /\ \/ /\ to \in DOMAIN connections
               /\ Ensured(to, h)[to] = connections[to]
            \/ /\ to \notin DOMAIN connections
               /\ Cardinality(DOMAIN connections) < MaxConnections
               /\ DOMAIN Ensured(to, h)[to].streams = {}
<1>0. /\ next_stream \in Nat
      /\ TableInv(connections, next_stream)
      /\ \A a \in DOMAIN connections :
           connections[a] \in Conns /\ Fit(connections[a], next_stream)
  BY Before
<1>1. CASE to \in DOMAIN connections
  <2>1. Ensured(to, h) = connections
    BY <1>1 DEF Ensured, Has
  <2>. QED
    BY <1>0, <1>1, <2>1
<1>2. CASE to \notin DOMAIN connections
  <2>1. /\ Ensured(to, h) = Put(connections, to, Connection(h))
        /\ ~(Cardinality(DOMAIN connections) >= MaxConnections)
    BY <1>2 DEF Ensured, Has
  <2>2. Cardinality(DOMAIN connections) < MaxConnections
    <3>1. Cardinality(DOMAIN connections) \in Nat
      BY <1>0, FS_CardinalityType DEF TableInv
    <3>. QED
      BY <2>1, <3>1, LimitsAre
  <2>3. Put(connections, to, Connection(h))[to] = Connection(h)
    BY DEF Put
  <2>4. /\ Connection(h) \in Conns /\ Fit(Connection(h), next_stream)
        /\ DOMAIN Connection(h).streams = {}
    BY <1>0, ConnectionIs DEF Sound
  <2>. QED
    BY <1>2, <2>1, <2>2, <2>3, <2>4
<1>. QED
  BY <1>1, <1>2

\* The index that stays as it is.
LEMMA SameIndex ==
  ASSUME IInv, UNCHANGED by_pubkey
  PROVE  /\ by_pubkey' \in Partial(Ids, Addrs)
         /\ \A k \in DOMAIN by_pubkey' :
              k \in DOMAIN by_pubkey /\ by_pubkey'[k] = by_pubkey[k]
  BY Before

LEMMA QueueDatagramKeeps ==
  ASSUME IInv, NEW to \in Addrs, QueueDatagram(to)
  PROVE  IInv'
<1>. DEFINE table == Ensured(to, None)
            p == Payload(None, TRUE)
            c == Queued(table[to], p)
<1>1. /\ table # None /\ Settle(table, to, c)
      /\ UNCHANGED <<by_pubkey, replaced, stream_states, next_stream, probe_sockets>>
  BY DEF QueueDatagram, streamVars
<1>2. /\ \/ table = connections
         \/ \E v : table = Put(connections, to, v)
      /\ table[to] \in Conns /\ Fit(table[to], next_stream)
      /\ \/ to \in DOMAIN connections /\ table[to] = connections[to]
         \/ /\ to \notin DOMAIN connections
            /\ Cardinality(DOMAIN connections) < MaxConnections
            /\ DOMAIN table[to].streams = {}
  BY <1>1, EnsuredIs
<1>3. p \in Payloads /\ p.for = None
  BY DEF Payload, Payloads
<1>. HIDE DEF table, p
<1>4. /\ c \in Conns /\ Fit(c, next_stream)
      /\ c.established = table[to].established
      /\ c.peer_pubkey = table[to].peer_pubkey
      /\ c.streams = table[to].streams
  BY <1>2, <1>3, QueuedFit
<1>. HIDE DEF c
<1>5. IInv'
  BY <1>1, <1>2, <1>4, SameIndex, SettleKeeps
<1>. QED
  BY <1>5

LEMMA QueueDatagramExpectingKeeps ==
  ASSUME IInv, NEW to \in Addrs, NEW k \in Ids, QueueDatagramExpecting(to, k)
  PROVE  IInv'
<1>. DEFINE table == Ensured(to, None)
            e == Expecting(table[to], k)
            p == Payload(k, e.expect_pubkey = k)
            c == Queued(e, p)
<1>1. /\ table # None /\ Settle(table, to, c)
      /\ UNCHANGED <<by_pubkey, replaced, stream_states, next_stream, probe_sockets>>
  BY DEF QueueDatagramExpecting, streamVars
<1>2. /\ \/ table = connections
         \/ \E v : table = Put(connections, to, v)
      /\ table[to] \in Conns /\ Fit(table[to], next_stream)
      /\ \/ to \in DOMAIN connections /\ table[to] = connections[to]
         \/ /\ to \notin DOMAIN connections
            /\ Cardinality(DOMAIN connections) < MaxConnections
            /\ DOMAIN table[to].streams = {}
  BY <1>1, EnsuredIs
<1>. HIDE DEF table
<1>3. /\ e \in Conns /\ Fit(e, next_stream)
      /\ e.established = table[to].established
      /\ e.peer_pubkey = table[to].peer_pubkey
      /\ e.streams = table[to].streams
  BY <1>2, ExpectingFit
<1>. HIDE DEF e
<1>4. /\ p \in Payloads
      /\ p.sound /\ p.for # None => p.for \in {e.expect_pubkey, e.peer_pubkey}
  BY DEF Payload, Payloads
<1>. HIDE DEF p
<1>5. /\ c \in Conns /\ Fit(c, next_stream)
      /\ c.established = e.established
      /\ c.peer_pubkey = e.peer_pubkey
      /\ c.streams = e.streams
  BY <1>3, <1>4, QueuedFit
<1>. HIDE DEF c
<1>6. IInv'
  BY <1>1, <1>2, <1>3, <1>5, SameIndex, SettleKeeps
<1>. QED
  BY <1>6

LEMMA DialExpectingKeeps ==
  ASSUME IInv, NEW to \in Addrs, NEW k \in Ids, NEW h \in probe_sockets \cup {None},
         DialExpecting(to, k, h)
  PROVE  IInv'
<1>. DEFINE table == Ensured(to, h)
            c == Expecting(table[to], k)
<1>1. /\ table # None /\ Settle(table, to, c)
      /\ UNCHANGED <<by_pubkey, replaced, stream_states, next_stream, probe_sockets>>
  BY DEF DialExpecting, streamVars
<1>2. h \in Helpers \cup {None}
  BY DEF IInv
<1>3. /\ \/ table = connections
         \/ \E v : table = Put(connections, to, v)
      /\ table[to] \in Conns /\ Fit(table[to], next_stream)
      /\ \/ to \in DOMAIN connections /\ table[to] = connections[to]
         \/ /\ to \notin DOMAIN connections
            /\ Cardinality(DOMAIN connections) < MaxConnections
            /\ DOMAIN table[to].streams = {}
  BY <1>1, <1>2, EnsuredIs
<1>. HIDE DEF table
<1>4. /\ c \in Conns /\ Fit(c, next_stream)
      /\ c.established = table[to].established
      /\ c.peer_pubkey = table[to].peer_pubkey
      /\ c.streams = table[to].streams
  BY <1>3, ExpectingFit
<1>. HIDE DEF c
<1>5. IInv'
  BY <1>1, <1>3, <1>4, SameIndex, SettleKeeps
<1>. QED
  BY <1>5

LEMMA QueueDatagramToPeerKeeps ==
  ASSUME IInv, NEW k \in Ids, QueueDatagramToPeer(k)
  PROVE  IInv'
<1>. DEFINE a == by_pubkey[k]
            p == Payload(k, Undisturbed(a))
            c == Queued(connections[a], p)
<1>1. /\ k \in DOMAIN by_pubkey /\ a \in DOMAIN connections /\ Settle(connections, a, c)
      /\ UNCHANGED <<by_pubkey, replaced, stream_states, next_stream, probe_sockets>>
  BY DEF QueueDatagramToPeer, streamVars, Has
<1>2. a \in Addrs /\ connections[a] \in Conns /\ Fit(connections[a], next_stream)
  BY <1>1, Before
<1>3. /\ p \in Payloads
      /\ p.sound /\ p.for # None =>
           p.for \in {connections[a].expect_pubkey, connections[a].peer_pubkey}
  <2>1. IndexInv(connections, by_pubkey, replaced)
    BY Before
  <2>2. Undisturbed(a) => connections[a].peer_pubkey = k
    BY <1>1, <2>1 DEF IndexInv, Names, Undisturbed
  <2>3. p \in Payloads /\ p.for = k /\ p.sound = Undisturbed(a)
    BY DEF Payload, Payloads, Undisturbed
  <2>. QED
    BY <2>2, <2>3
<1>. HIDE DEF a
<1>. HIDE DEF p
<1>4. /\ c \in Conns /\ Fit(c, next_stream)
      /\ c.established = connections[a].established
      /\ c.peer_pubkey = connections[a].peer_pubkey
      /\ c.streams = connections[a].streams
  BY <1>2, <1>3, QueuedFit
<1>. HIDE DEF c
<1>5. IInv'
  BY <1>1, <1>2, <1>4, SameIndex, SettleKeeps
<1>. QED
  BY <1>5

\* The identity of a connection is learnt: what waits for it waits for the
\* identity that was expected.
LEMMA IdentifiedFit ==
  ASSUME NEW n, NEW c \in Conns, Fit(c, n), NEW k \in Ids, c.peer_pubkey \in {None, k},
         NEW e, e.peer_pubkey = k, e.expect_pubkey = c.expect_pubkey,
         e.pending = c.pending, e.streams = c.streams, e.opened = c.opened
  PROVE  Fit(e, n)
<1>1. Reserved(e)
  BY DEF Reserved, Fit
<1>2. k # None
  BY NoneAssumption
<1>. QED
  BY <1>1, <1>2 DEF Fit

LEMMA HandshakeDataReadyKeeps ==
  ASSUME IInv, NEW a \in Addrs, NEW k \in Ids, HandshakeDataReady(a, k)
  PROVE  IInv'
<1>. DEFINE c == [connections[a] EXCEPT !.established = FALSE, !.peer_pubkey = k]
<1>1. /\ a \in DOMAIN connections /\ connections[a].established = FALSE
      /\ connections[a].peer_pubkey = None
      /\ connections[a] \in Conns /\ Fit(connections[a], next_stream)
      /\ UNCHANGED <<by_pubkey, replaced, strayed, stream_states, next_stream,
                     probe_sockets>>
  BY Before DEF HandshakeDataReady, Hears, Has, streamVars, Conns
<1>2. /\ c \in Conns /\ Fit(c, next_stream) /\ c.established = FALSE
      /\ c.streams = connections[a].streams
  <2>1. /\ c \in Conns /\ c.established = FALSE /\ c.peer_pubkey = k
        /\ c.expect_pubkey = connections[a].expect_pubkey
        /\ c.pending = connections[a].pending
        /\ c.streams = connections[a].streams /\ c.opened = connections[a].opened
    BY <1>1 DEF Conns
  <2>. HIDE DEF c
  <2>2. Fit(c, next_stream)
    BY <1>1, <2>1, IdentifiedFit
  <2>. QED
    BY <2>1, <2>2
<1>3. c = [connections[a] EXCEPT !.peer_pubkey = k]
  BY <1>1 DEF Conns
<1>4. connections' = Put(connections, a, c)
  <2>1. connections = [b \in DOMAIN connections |-> connections[b]]
    BY Before, PartialIs DEF TableInv
  <2>2. connections' = [connections EXCEPT ![a] = [connections[a] EXCEPT !.peer_pubkey = k]]
    BY DEF HandshakeDataReady
  <2>. HIDE DEF c
  <2>3. connections' = [connections EXCEPT ![a] = c]
    BY <1>3, <2>2
  <2>. QED
    BY <1>1, <2>1, <2>3 DEF Put
<1>. HIDE DEF c
<1>5. Drained(c) = c /\ Astray(c) = {}
  BY <1>2 DEF Drained, Astray
<1>6. Settle(connections, a, c)
  BY <1>1, <1>4, <1>5 DEF Settle
<1>7. IInv'
  BY <1>1, <1>2, <1>6, SameIndex, SettleKeeps
<1>. QED
  BY <1>7

LEMMA ConnectedKeeps ==
  ASSUME IInv, NEW a \in Addrs, NEW k \in Ids, Connected(a, k)
  PROVE  IInv'
<1>. DEFINE c == [connections[a] EXCEPT !.established = TRUE, !.peer_pubkey = k]
<1>1. /\ a \in DOMAIN connections /\ ~connections[a].established
      /\ connections[a].peer_pubkey \in {None, k}
      /\ connections[a] \in Conns /\ Fit(connections[a], next_stream)
      /\ Settle(connections, a, c)
      /\ by_pubkey' = Indexed(a, k)
      /\ UNCHANGED <<replaced, stream_states, next_stream, probe_sockets>>
  BY Before DEF Connected, Hears, Has, streamVars
<1>2. /\ c \in Conns /\ Fit(c, next_stream) /\ c.established = TRUE
      /\ c.peer_pubkey = k /\ c.streams = connections[a].streams
  <2>1. /\ c \in Conns /\ c.established = TRUE /\ c.peer_pubkey = k
        /\ c.expect_pubkey = connections[a].expect_pubkey
        /\ c.pending = connections[a].pending
        /\ c.streams = connections[a].streams /\ c.opened = connections[a].opened
    BY <1>1 DEF Conns
  <2>. HIDE DEF c
  <2>2. Fit(c, next_stream)
    BY <1>1, <2>1, IdentifiedFit
  <2>. QED
    BY <2>1, <2>2
<1>. HIDE DEF c
<1>3. by_pubkey' \in Partial(Ids, Addrs)
  <2>1. by_pubkey \in Partial(Ids, Addrs)
    BY Before
  <2>2. Put(by_pubkey, k, a) \in Partial(Ids, Addrs)
    BY <2>1, PutPartial
  <2>. QED
    BY <1>1, <2>1, <2>2 DEF Indexed
<1>4. \A x \in DOMAIN by_pubkey' :
        \/ x \in DOMAIN by_pubkey /\ by_pubkey'[x] = by_pubkey[x]
        \/ by_pubkey'[x] = a /\ c.established /\ c.peer_pubkey = x
  BY <1>1, <1>2 DEF Indexed, Put
<1>5. IInv'
  BY <1>1, <1>2, <1>3, <1>4, SettleKeeps
<1>. QED
  BY <1>5

\* A connection is accepted; where it takes another one's place, the address is
\* noted as replaced.
LEMMA AcceptKeeps ==
  ASSUME IInv, NEW a \in Addrs, NEW h \in Helpers \cup {None}, Accept(a, h)
  PROVE  IInv'
<1>. DEFINE c == Connection(h)
<1>1. /\ Cardinality(DOMAIN connections) < MaxConnections
      /\ connections' = Put(connections, a, c)
      /\ replaced \subseteq replaced'
      /\ a \notin DOMAIN connections \/ a \in replaced'
      /\ by_pubkey' = by_pubkey /\ strayed' = strayed
      /\ stream_states' = stream_states /\ next_stream' = next_stream
      /\ probe_sockets' = probe_sockets
  BY DEF Accept, Has, streamVars
<1>2. /\ TableInv(connections, next_stream) /\ StatesInv(stream_states, next_stream)
      /\ next_stream \in Nat
      /\ ListedAlive(connections, stream_states)
      /\ AliveListed(connections, stream_states, replaced)
      /\ IndexInv(connections, by_pubkey, replaced)
  BY Before
<1>3. c \in Conns /\ Sound(c, next_stream) /\ DOMAIN c.streams = {}
  BY <1>2, ConnectionIs
<1>. HIDE DEF c
<1>4. TableInv(connections', next_stream')
  BY <1>1, <1>2, <1>3, TablePut
<1>5. /\ ListedAlive(connections', stream_states')
      /\ AliveListed(connections', stream_states', replaced')
  BY <1>1, <1>2, <1>3, LinksPut
<1>6. IndexInv(connections', by_pubkey', replaced')
  BY <1>1, <1>2, IndexPut
<1>7. /\ by_pubkey' \in Partial(Ids, Addrs) /\ strayed' \subseteq Payloads
      /\ probe_sockets' \subseteq Helpers /\ DeliveredToIntended'
      /\ StatesInv(stream_states', next_stream')
  BY <1>1, <1>2 DEF IInv, DeliveredToIntended
<1>. QED
  BY <1>4, <1>5, <1>6, <1>7, NextIInv

-----------------------------------------------------------------------------
(* The end of a connection.                                                *)

\* A connection is removed with its entry in the index and its streams.
LEMMA RemovedKeeps ==
  ASSUME IInv, NEW a \in Addrs, Removed(a)
  PROVE  IInv'
<1>. DEFINE dead == Casualties(a)
            gone == {k \in DOMAIN by_pubkey :
                       by_pubkey[k] = a /\ connections[a].peer_pubkey = k}
<1>1. /\ TableInv(connections, next_stream) /\ StatesInv(stream_states, next_stream)
      /\ next_stream \in Nat /\ by_pubkey \in Partial(Ids, Addrs)
      /\ ListedAlive(connections, stream_states)
      /\ AliveListed(connections, stream_states, replaced)
      /\ IndexInv(connections, by_pubkey, replaced)
  BY Before
<1>2. /\ a \in DOMAIN connections
      /\ connections' = Without(connections, {a})
      /\ by_pubkey' = Without(by_pubkey, gone)
      /\ stream_states' = Without(stream_states, dead)
      /\ strayed' = strayed /\ replaced' = replaced
      /\ next_stream' = next_stream /\ probe_sockets' = probe_sockets
  BY DEF Removed, Has, Unindexed
<1>3. /\ DOMAIN connections' = DOMAIN connections \ {a}
      /\ \A b \in DOMAIN connections \ {a} : connections'[b] = connections[b]
  BY <1>2 DEF Without, Restrict
<1>4. /\ DOMAIN by_pubkey' = DOMAIN by_pubkey \ gone
      /\ \A k \in DOMAIN by_pubkey \ gone : by_pubkey'[k] = by_pubkey[k]
  BY <1>2 DEF Without, Restrict
<1>5. /\ DOMAIN stream_states' = DOMAIN stream_states \ dead
      /\ \A s \in DOMAIN stream_states \ dead : stream_states'[s] = stream_states[s]
  BY <1>2 DEF Without, Restrict
<1>6. \A s : s \in dead <=> /\ s \in DOMAIN stream_states
                            /\ \E q \in DOMAIN connections[a].streams :
                                 connections[a].streams[q] = s
  BY DEF Casualties, Range
<1>7. \A k \in DOMAIN by_pubkey :
        k \in gone <=> by_pubkey[k] = a /\ connections[a].peer_pubkey = k
  OBVIOUS
<1>. HIDE DEF dead, gone
<1>8. TableInv(connections', next_stream')
  <2>1. connections' \in Partial(Addrs, Conns)
    BY <1>1, <1>2, WithoutPartial DEF TableInv
  <2>2. IsFiniteSet(DOMAIN connections') /\ Cardinality(DOMAIN connections') <= MaxConnections
    BY <1>1, <1>2, LimitsAre, WithoutSize DEF TableInv
  <2>3. \A b \in DOMAIN connections' : Sound(connections'[b], next_stream')
    BY <1>1, <1>2, <1>3 DEF TableInv
  <2>. QED
    BY <2>1, <2>2, <2>3 DEF TableInv
<1>9. StatesInv(stream_states', next_stream')
  <2>1. stream_states' \in Partial(0 .. (next_stream - 1), Streams)
    BY <1>1, <1>2, WithoutPartial DEF StatesInv
  <2>2. /\ IsFiniteSet(DOMAIN stream_states')
        /\ Cardinality(DOMAIN stream_states') <= MaxStreamStates
    BY <1>1, <1>2, LimitsAre, WithoutSize DEF StatesInv
  <2>. QED
    BY <1>1, <1>2, <2>1, <2>2 DEF StatesInv
<1>10. by_pubkey' \in Partial(Ids, Addrs)
  BY <1>1, <1>2, WithoutPartial
<1>11. ListedAlive(connections', stream_states')
  <2>. SUFFICES ASSUME NEW b \in DOMAIN connections \ {a},
                       NEW q \in DOMAIN connections[b].streams
                PROVE  LET s == connections[b].streams[q]
                       IN /\ s \in DOMAIN stream_states'
                          /\ stream_states'[s].peer_addr = b
                          /\ stream_states'[s].quic_id = q
    BY <1>3 DEF ListedAlive
  <2>. DEFINE s == connections[b].streams[q]
  <2>1. /\ s \in DOMAIN stream_states /\ stream_states[s].peer_addr = b
        /\ stream_states[s].quic_id = q
    BY <1>1 DEF ListedAlive
  <2>2. s \notin dead
    BY <1>1, <1>2, <1>6, <2>1 DEF ListedAlive
  <2>. QED
    BY <1>5, <2>1, <2>2
<1>12. AliveListed(connections', stream_states', replaced')
  <2>. SUFFICES ASSUME NEW s \in DOMAIN stream_states \ dead,
                       stream_states[s].peer_addr \notin replaced
                PROVE  Listed(connections', stream_states', s)
    BY <1>2, <1>5 DEF AliveListed
  <2>1. Listed(connections, stream_states, s)
    BY <1>1 DEF AliveListed
  <2>2. stream_states[s].peer_addr # a
    BY <1>6, <2>1 DEF Listed
  <2>. QED
    BY <1>3, <1>5, <2>1, <2>2 DEF Listed
<1>13. IndexInv(connections', by_pubkey', replaced')
  <2>. SUFFICES ASSUME NEW k \in DOMAIN by_pubkey \ gone, by_pubkey[k] \notin replaced
                PROVE  Names(connections', by_pubkey', k)
    BY <1>2, <1>4 DEF IndexInv
  <2>1. Names(connections, by_pubkey, k)
    BY <1>1 DEF IndexInv
  <2>2. by_pubkey[k] # a
    BY <1>7, <2>1 DEF Names
  <2>. QED
    BY <1>3, <1>4, <2>1, <2>2 DEF Names
<1>14. /\ strayed' \subseteq Payloads /\ probe_sockets' \subseteq Helpers
       /\ DeliveredToIntended'
  BY <1>2 DEF IInv, DeliveredToIntended
<1>. QED
  BY <1>8, <1>9, <1>10, <1>11, <1>12, <1>13, <1>14, NextIInv

-----------------------------------------------------------------------------
(* Streams.                                                                *)

\* A stream that is alive.
LEMMA StreamIs ==
  ASSUME IInv, NEW s \in DOMAIN stream_states
  PROVE  /\ stream_states[s] \in Streams
         /\ s \in 0 .. (next_stream - 1)
<1>. DEFINE numbers == 0 .. (next_stream - 1)
<1>1. stream_states \in Partial(numbers, Streams)
  BY Before DEF StatesInv
<1>. HIDE DEF numbers
<1>2. DOMAIN stream_states \subseteq numbers
      /\ \A x \in DOMAIN stream_states : stream_states[x] \in Streams
  BY <1>1, PartialIs
<1>. QED
  BY <1>2 DEF numbers

\* A stream ends and is forgotten by the connection at its address.
LEMMA ForgetKeeps ==
  ASSUME IInv, NEW s \in DOMAIN stream_states,
         stream_states' = Without(stream_states, {s}),
         connections' = Unlisted(stream_states[s].peer_addr, stream_states[s].quic_id),
         UNCHANGED <<by_pubkey, strayed, replaced, next_stream, probe_sockets>>
  PROVE  IInv'
<1>. DEFINE a == stream_states[s].peer_addr
            q == stream_states[s].quic_id
<1>1. /\ TableInv(connections, next_stream) /\ StatesInv(stream_states, next_stream)
      /\ next_stream \in Nat
      /\ ListedAlive(connections, stream_states)
      /\ AliveListed(connections, stream_states, replaced)
      /\ IndexInv(connections, by_pubkey, replaced)
  BY Before
<1>2. connections' = Unlisted(a, q)
  OBVIOUS
<1>. HIDE DEF a, q
<1>3. /\ DOMAIN stream_states' = DOMAIN stream_states \ {s}
      /\ \A t \in DOMAIN stream_states \ {s} : stream_states'[t] = stream_states[t]
  BY DEF Without, Restrict
<1>4. StatesInv(stream_states', next_stream')
  <2>1. stream_states' \in Partial(0 .. (next_stream - 1), Streams)
    BY <1>1, WithoutPartial DEF StatesInv
  <2>2. /\ IsFiniteSet(DOMAIN stream_states')
        /\ Cardinality(DOMAIN stream_states') <= MaxStreamStates
    BY <1>1, LimitsAre, WithoutSize DEF StatesInv
  <2>. QED
    BY <1>1, <2>1, <2>2 DEF StatesInv
<1>5. /\ TableInv(connections', next_stream')
      /\ IndexInv(connections', by_pubkey', replaced')
      /\ DOMAIN connections' = DOMAIN connections
      /\ \A b \in DOMAIN connections \ {a} : connections'[b] = connections[b]
      /\ a \in DOMAIN connections =>
           /\ DOMAIN connections'[a].streams = DOMAIN connections[a].streams \ {q}
           /\ \A x \in DOMAIN connections[a].streams \ {q} :
                connections'[a].streams[x] = connections[a].streams[x]
  <2>1. CASE a \notin DOMAIN connections
    <3>1. connections' = connections
      BY <1>2, <2>1 DEF Unlisted, Has
    <3>. QED
      BY <1>1, <2>1, <3>1
  <2>2. CASE a \in DOMAIN connections
    <3>. DEFINE c == connections[a]
                w == Without(c.streams, {q})
                e == [c EXCEPT !.streams = w]
    <3>1. a \in Addrs /\ c \in Conns /\ Sound(c, next_stream)
      BY <2>2, Before
    <3>2. /\ w \in Partial(QuicIds, Nat) /\ DOMAIN w = DOMAIN c.streams \ {q}
          /\ \A x \in DOMAIN c.streams \ {q} : w[x] = c.streams[x]
      <4>1. c.streams \in Partial(QuicIds, Nat)
        BY <3>1 DEF Conns
      <4>2. w \in Partial(QuicIds, Nat)
        BY <4>1, WithoutPartial
      <4>. QED
        BY <4>2 DEF Without, Restrict
    <3>. HIDE DEF w
    <3>3. /\ e \in Conns /\ e.established = c.established
          /\ e.peer_pubkey = c.peer_pubkey /\ e.expect_pubkey = c.expect_pubkey
          /\ e.pending = c.pending /\ e.opened = c.opened /\ e.streams = w
      BY <3>1, <3>2 DEF Conns
    <3>4. connections' = Put(connections, a, e)
      <4>1. connections = [b \in DOMAIN connections |-> connections[b]]
        BY <1>1, PartialIs DEF TableInv
      <4>2. connections' = [connections EXCEPT ![a] = e]
        BY <1>2, <2>2 DEF Unlisted, Has, w
      <4>. HIDE DEF e
      <4>. QED
        BY <2>2, <4>1, <4>2 DEF Put
    <3>. HIDE DEF e
    <3>5. Sound(e, next_stream)
      <4>1. Reserved(e)
        BY <3>1, <3>3 DEF Sound, Fit, Reserved
      <4>. QED
        BY <3>1, <3>2, <3>3, <4>1 DEF Sound, Fit
    <3>6. TableInv(connections', next_stream')
      BY <1>1, <2>2, <3>1, <3>3, <3>4, <3>5, TablePut
    <3>7. IndexInv(connections', by_pubkey', replaced')
      BY <1>1, <3>3, <3>4, IndexPut
    <3>8. /\ DOMAIN connections' = DOMAIN connections /\ connections'[a] = e
          /\ \A b \in DOMAIN connections \ {a} : connections'[b] = connections[b]
      BY <2>2, <3>4 DEF Put
    <3>. QED
      BY <3>2, <3>3, <3>6, <3>7, <3>8
  <2>. QED
    BY <2>1, <2>2
<1>6. ListedAlive(connections', stream_states')
  <2>. SUFFICES ASSUME NEW b \in DOMAIN connections',
                       NEW x \in DOMAIN connections'[b].streams
                PROVE  LET t == connections'[b].streams[x]
                       IN /\ t \in DOMAIN stream_states'
                          /\ stream_states'[t].peer_addr = b
                          /\ stream_states'[t].quic_id = x
    BY DEF ListedAlive
  <2>. DEFINE t == connections'[b].streams[x]
  <2>1. /\ b \in DOMAIN connections /\ x \in DOMAIN connections[b].streams
        /\ t = connections[b].streams[x] /\ (b = a => x # q)
    BY <1>5
  <2>. HIDE DEF t
  <2>2. /\ t \in DOMAIN stream_states /\ stream_states[t].peer_addr = b
        /\ stream_states[t].quic_id = x
    BY <1>1, <2>1 DEF ListedAlive
  <2>3. t # s
    BY <2>1, <2>2 DEF a, q
  <2>4. /\ t \in DOMAIN stream_states' /\ stream_states'[t].peer_addr = b
        /\ stream_states'[t].quic_id = x
    BY <1>3, <2>2, <2>3
  <2>. QED
    BY <2>4 DEF t
<1>7. AliveListed(connections', stream_states', replaced')
  <2>. SUFFICES ASSUME NEW t \in DOMAIN stream_states \ {s},
                       stream_states[t].peer_addr \notin replaced
                PROVE  Listed(connections', stream_states', t)
    BY <1>3 DEF AliveListed
  <2>1. Listed(connections, stream_states, t)
    BY <1>1 DEF AliveListed
  <2>2. CASE stream_states[t].peer_addr # a
    BY <1>3, <1>5, <2>1, <2>2 DEF Listed
  <2>3. CASE stream_states[t].peer_addr = a
    <3>1. Listed(connections, stream_states, s)
      BY <1>1, <2>3 DEF AliveListed, a
    <3>2. stream_states[t].quic_id # q
      BY <2>1, <2>3, <3>1 DEF Listed, a, q
    <3>. QED
      BY <1>3, <1>5, <2>1, <2>3, <3>2 DEF Listed
  <2>. QED
    BY <2>2, <2>3
<1>8. /\ by_pubkey' \in Partial(Ids, Addrs) /\ strayed' \subseteq Payloads
      /\ probe_sockets' \subseteq Helpers /\ DeliveredToIntended'
  BY DEF IInv, DeliveredToIntended
<1>. QED
  BY <1>4, <1>5, <1>6, <1>7, <1>8, NextIInv

\* A stream gets another state, at the same address and under the same id, and
\* is reaped when it has ended.
LEMMA UpdateKeeps ==
  ASSUME IInv, NEW s \in DOMAIN stream_states, NEW st \in Streams,
         st.peer_addr = stream_states[s].peer_addr,
         st.quic_id = stream_states[s].quic_id,
         Update(s, st),
         UNCHANGED <<by_pubkey, strayed, replaced, next_stream, probe_sockets>>
  PROVE  IInv'
<1>1. CASE Ended(st)
  <2>1. /\ stream_states' = Without(stream_states, {s})
        /\ connections' = Unlisted(stream_states[s].peer_addr, stream_states[s].quic_id)
    BY <1>1 DEF Update
  <2>. QED
    BY <2>1, ForgetKeeps
<1>2. CASE ~Ended(st)
  <2>1. stream_states' = Put(stream_states, s, st) /\ connections' = connections
    BY <1>2 DEF Update
  <2>2. /\ TableInv(connections, next_stream) /\ StatesInv(stream_states, next_stream)
        /\ ListedAlive(connections, stream_states)
        /\ AliveListed(connections, stream_states, replaced)
        /\ IndexInv(connections, by_pubkey, replaced)
    BY Before
  <2>3. /\ DOMAIN stream_states' = DOMAIN stream_states
        /\ \A t \in DOMAIN stream_states :
             /\ stream_states'[t].peer_addr = stream_states[t].peer_addr
             /\ stream_states'[t].quic_id = stream_states[t].quic_id
    BY <2>1 DEF Put
  <2>4. StatesInv(stream_states', next_stream')
    <3>1. s \in 0 .. (next_stream - 1)
      BY StreamIs
    <3>2. stream_states' \in Partial(0 .. (next_stream - 1), Streams)
      BY <2>1, <2>2, <3>1, PutPartial DEF StatesInv
    <3>. QED
      BY <2>2, <2>3, <3>2 DEF StatesInv
  <2>5. ListedAlive(connections', stream_states')
    BY <2>1, <2>2, <2>3 DEF ListedAlive
  <2>6. AliveListed(connections', stream_states', replaced')
    BY <2>1, <2>2, <2>3 DEF AliveListed, Listed
  <2>7. /\ TableInv(connections', next_stream')
        /\ IndexInv(connections', by_pubkey', replaced')
    BY <2>1, <2>2
  <2>8. /\ by_pubkey' \in Partial(Ids, Addrs) /\ strayed' \subseteq Payloads
        /\ probe_sockets' \subseteq Helpers /\ DeliveredToIntended'
    BY DEF IInv, DeliveredToIntended
  <2>. QED
    BY <2>4, <2>5, <2>6, <2>7, <2>8, NextIInv
<1>. QED
  BY <1>1, <1>2

\* A stream that a connection lists.
LEMMA ListedIs ==
  ASSUME IInv, NEW a \in DOMAIN connections, NEW q \in DOMAIN connections[a].streams
  PROVE  /\ connections[a].streams[q] \in DOMAIN stream_states
         /\ stream_states[connections[a].streams[q]].peer_addr = a
         /\ stream_states[connections[a].streams[q]].quic_id = q
  BY Before DEF ListedAlive

LEMMA ReadToEndKeeps ==
  ASSUME IInv, NEW a \in DOMAIN connections, NEW q \in DOMAIN connections[a].streams,
         ReadToEnd(a, q)
  PROVE  IInv'
<1>. DEFINE s == connections[a].streams[q]
            st == [stream_states[s] EXCEPT !.recv_done = TRUE]
<1>1. s \in DOMAIN stream_states /\ stream_states[s] \in Streams
  BY ListedIs, StreamIs
<1>2. /\ Update(s, st)
      /\ UNCHANGED <<by_pubkey, strayed, replaced, next_stream, probe_sockets>>
  BY DEF ReadToEnd, unchangedByStreams
<1>. HIDE DEF s
<1>3. /\ st \in Streams /\ st.peer_addr = stream_states[s].peer_addr
      /\ st.quic_id = stream_states[s].quic_id
  BY <1>1 DEF Streams
<1>. HIDE DEF st
<1>. QED
  BY <1>1, <1>2, <1>3, UpdateKeeps

\* flush_stream.
LEMMA FlushStreamKeeps ==
  ASSUME IInv, NEW s \in DOMAIN stream_states, NEW st \in Streams,
         st.peer_addr = stream_states[s].peer_addr,
         st.quic_id = stream_states[s].quic_id, NEW goes \in BOOLEAN,
         FlushStream(s, st, goes),
         UNCHANGED <<by_pubkey, strayed, replaced, next_stream, probe_sockets>>
  PROVE  IInv'
<1>. DEFINE done == st.fin_done \/ (st.fin_pending /\ goes /\ Has(connections, st.peer_addr))
            e == [st EXCEPT !.fin_done = done]
<1>1. done \in BOOLEAN
  OBVIOUS
<1>2. Update(s, e)
  BY DEF FlushStream
<1>. HIDE DEF done
<1>3. e \in Streams /\ e.peer_addr = st.peer_addr /\ e.quic_id = st.quic_id
  BY <1>1 DEF Streams
<1>. HIDE DEF e
<1>. QED
  BY <1>2, <1>3, UpdateKeeps

LEMMA WritableKeeps ==
  ASSUME IInv, NEW a \in DOMAIN connections, NEW q \in DOMAIN connections[a].streams,
         Writable(a, q)
  PROVE  IInv'
<1>. DEFINE s == connections[a].streams[q]
<1>1. s \in DOMAIN stream_states /\ stream_states[s] \in Streams
  BY ListedIs, StreamIs
<1>2. /\ FlushStream(s, stream_states[s], TRUE)
      /\ UNCHANGED <<by_pubkey, strayed, replaced, next_stream, probe_sockets>>
  BY DEF Writable, unchangedByStreams
<1>3. TRUE \in BOOLEAN
  OBVIOUS
<1>. HIDE DEF s
<1>. QED
  BY <1>1, <1>2, <1>3, FlushStreamKeeps

LEMMA FinishStreamKeeps ==
  ASSUME IInv, NEW s \in DOMAIN stream_states, NEW goes \in BOOLEAN,
         FinishStream(s, goes)
  PROVE  IInv'
<1>. DEFINE st == [stream_states[s] EXCEPT !.fin_pending = TRUE]
<1>1. stream_states[s] \in Streams
  BY StreamIs
<1>2. /\ FlushStream(s, st, goes)
      /\ UNCHANGED <<by_pubkey, strayed, replaced, next_stream, probe_sockets>>
  BY DEF FinishStream, unchangedByStreams
<1>3. /\ st \in Streams /\ st.peer_addr = stream_states[s].peer_addr
      /\ st.quic_id = stream_states[s].quic_id
  BY <1>1 DEF Streams
<1>. HIDE DEF st
<1>. QED
  BY <1>2, <1>3, FlushStreamKeeps

LEMMA StoppedKeeps ==
  ASSUME IInv, NEW a \in DOMAIN connections, NEW q \in DOMAIN connections[a].streams,
         Stopped(a, q)
  PROVE  IInv'
<1>. DEFINE s == connections[a].streams[q]
<1>1. /\ s \in DOMAIN stream_states
      /\ stream_states[s].peer_addr = a /\ stream_states[s].quic_id = q
  BY ListedIs
<1>2. /\ stream_states' = Without(stream_states, {s})
      /\ connections' = Unlisted(a, q)
      /\ UNCHANGED <<by_pubkey, strayed, replaced, next_stream, probe_sockets>>
  BY DEF Stopped, unchangedByStreams
<1>. HIDE DEF s
<1>. QED
  BY <1>1, <1>2, ForgetKeeps

LEMMA ResetStreamKeeps ==
  ASSUME IInv, NEW s \in DOMAIN stream_states, ResetStream(s)
  PROVE  IInv'
  BY ForgetKeeps DEF ResetStream, unchangedByStreams

\* A stream is made: neither it nor its id is in use.
LEMMA NewStreamKeeps ==
  ASSUME IInv, NEW a \in DOMAIN connections, NEW dir \in Dirs, NewStream(a, dir)
  PROVE  IInv'
<1>. DEFINE c == connections[a]
            q == [dir |-> dir, n |-> c.opened[dir]]
            w == Put(c.streams, q, next_stream)
            o == [c.opened EXCEPT ![dir] = c.opened[dir] + 1]
            e == [c EXCEPT !.streams = w, !.opened = o]
            st == [peer_addr |-> a, quic_id |-> q,
                   fin_pending |-> FALSE, fin_done |-> FALSE, recv_done |-> FALSE]
            ss == stream_states
<1>1. /\ TableInv(connections, next_stream) /\ StatesInv(ss, next_stream)
      /\ next_stream \in Nat
      /\ ListedAlive(connections, ss)
      /\ AliveListed(connections, ss, replaced)
      /\ IndexInv(connections, by_pubkey, replaced)
      /\ a \in Addrs /\ c \in Conns /\ Sound(c, next_stream)
  BY Before
<1>2. /\ Cardinality(DOMAIN ss) < MaxStreamStates
      /\ next_stream < MaxStreams /\ next_stream' = next_stream + 1
      /\ ss' = Put(ss, next_stream, st)
      /\ by_pubkey' = by_pubkey /\ strayed' = strayed /\ replaced' = replaced
      /\ probe_sockets' = probe_sockets
  BY DEF NewStream
<1>3. /\ c.opened \in [Dirs -> Nat] /\ c.opened[dir] \in Nat
      /\ c.opened[dir] <= next_stream
      /\ c.streams \in Partial(QuicIds, Nat)
  BY <1>1 DEF Conns, Sound, Fit
<1>4. q \in QuicIds /\ q.dir = dir /\ q.n = c.opened[dir]
  BY <1>1, <1>2, <1>3, LimitsAre DEF QuicIds, Dirs
<1>5. q \notin DOMAIN c.streams
  BY <1>1, <1>3, <1>4 DEF Sound, Fit
<1>6. connections' = Put(connections, a, e)
  <2>1. connections = [b \in DOMAIN connections |-> connections[b]]
    BY <1>1, PartialIs DEF TableInv
  <2>2. connections' = [connections EXCEPT ![a] = e]
    BY <1>1, <2>1 DEF NewStream, Conns
  <2>. HIDE DEF e
  <2>. QED
    BY <2>1, <2>2 DEF Put
<1>7. st \in Streams /\ st.peer_addr = a /\ st.quic_id = q
  BY <1>1, <1>4 DEF Streams
<1>. HIDE DEF q, st
<1>8. /\ w \in Partial(QuicIds, Nat) /\ DOMAIN w = DOMAIN c.streams \cup {q}
      /\ w[q] = next_stream
      /\ \A x \in DOMAIN c.streams : w[x] = c.streams[x]
  <2>1. w \in Partial(QuicIds, Nat)
    BY <1>1, <1>3, <1>4, PutPartial
  <2>. QED
    BY <1>5, <2>1 DEF Put
<1>9. /\ o \in [Dirs -> Nat] /\ o[dir] = c.opened[dir] + 1
      /\ \A d \in Dirs : c.opened[d] <= o[d] /\ o[d] <= next_stream + 1
                         /\ o[d] \in Nat /\ c.opened[d] \in Nat
  BY <1>1, <1>3 DEF Sound, Fit
<1>. HIDE DEF w, o
<1>10. /\ e \in Conns /\ e.established = c.established
       /\ e.peer_pubkey = c.peer_pubkey /\ e.expect_pubkey = c.expect_pubkey
       /\ e.pending = c.pending /\ e.opened = o /\ e.streams = w
  BY <1>1, <1>8, <1>9 DEF Conns
<1>. HIDE DEF e
<1>11. Sound(e, next_stream')
  <2>1. Reserved(e)
    BY <1>1, <1>10 DEF Sound, Fit, Reserved
  <2>2. ASSUME NEW x \in DOMAIN w
        PROVE  x.n < o[x.dir]
    <3>1. CASE x = q
      BY <1>3, <1>4, <1>9, <3>1
    <3>2. CASE x \in DOMAIN c.streams
      <4>1. x \in QuicIds /\ x.dir \in Dirs /\ x.n \in Nat
        <5>1. x \in QuicIds
          BY <1>3, <3>2, PartialIs
        <5>. QED
          BY <5>1, LimitsAre DEF QuicIds, Dirs
      <4>2. x.n < c.opened[x.dir]
        BY <1>1, <3>2 DEF Sound, Fit
      <4>. QED
        BY <1>9, <4>1, <4>2
    <3>. QED
      BY <1>8, <3>1, <3>2
  <2>3. Fit(e, next_stream')
    BY <1>1, <1>2, <1>9, <1>10, <2>1, <2>2 DEF Sound, Fit
  <2>. QED
    BY <1>1, <1>10, <2>3 DEF Sound
<1>12. TableInv(connections', next_stream')
  <2>1. TableInv(connections, next_stream')
    <3>1. ASSUME NEW b \in DOMAIN connections
          PROVE  Sound(connections[b], next_stream')
      <4>1. Sound(connections[b], next_stream) /\ connections[b] \in Conns
        BY Before
      <4>2. connections[b].opened \in [Dirs -> Nat]
        BY <4>1 DEF Conns
      <4>3. \A d \in Dirs : connections[b].opened[d] <= next_stream'
        BY <1>1, <1>2, <4>1, <4>2 DEF Sound, Fit
      <4>. QED
        BY <4>1, <4>3 DEF Sound, Fit
    <3>. QED
      BY <1>1, <3>1 DEF TableInv
  <2>. QED
    BY <1>1, <1>6, <1>10, <1>11, <2>1, TablePut
<1>13. next_stream \notin DOMAIN ss
  <2>1. \A s \in DOMAIN ss : s \in 0 .. (next_stream - 1)
    BY StreamIs
  <2>. QED
    BY <1>1, <2>1
<1>14. /\ DOMAIN ss' = DOMAIN ss \cup {next_stream} /\ ss'[next_stream] = st
       /\ \A t \in DOMAIN ss : ss'[t] = ss[t]
  BY <1>2, <1>13 DEF Put
<1>15. /\ DOMAIN connections' = DOMAIN connections /\ connections'[a] = e
       /\ \A b \in DOMAIN connections : b # a => connections'[b] = connections[b]
  BY <1>6 DEF Put
<1>16. StatesInv(ss', next_stream')
  <2>. DEFINE S == 0 .. (next_stream' - 1)
  <2>1. next_stream' \in 0 .. MaxStreams /\ 0 .. (next_stream - 1) \subseteq S
        /\ next_stream \in S
    BY <1>1, <1>2, LimitsAre
  <2>. HIDE DEF S
  <2>2. ss \in Partial(S, Streams)
    BY <1>1, <2>1, PartialWider DEF StatesInv
  <2>3. ss' \in Partial(S, Streams)
    BY <1>2, <1>7, <2>1, <2>2, PutPartial
  <2>4. IsFiniteSet(DOMAIN ss') /\ Cardinality(DOMAIN ss') <= MaxStreamStates
    BY <1>1, <1>2, LimitsAre, PutSize DEF StatesInv
  <2>. QED
    BY <2>1, <2>3, <2>4 DEF StatesInv, S
<1>. HIDE DEF ss
<1>17. ListedAlive(connections', ss')
  <2>. SUFFICES ASSUME NEW b \in DOMAIN connections,
                       NEW x \in DOMAIN connections'[b].streams
                PROVE  /\ connections'[b].streams[x] \in DOMAIN ss'
                       /\ ss'[connections'[b].streams[x]].peer_addr = b
                       /\ ss'[connections'[b].streams[x]].quic_id = x
    BY <1>15 DEF ListedAlive
  <2>1. CASE b = a /\ x = q
    BY <1>7, <1>8, <1>10, <1>14, <1>15, <2>1
  <2>2. CASE ~(b = a /\ x = q)
    <3>1. x \in DOMAIN connections[b].streams
          /\ connections'[b].streams[x] = connections[b].streams[x]
      BY <1>8, <1>10, <1>15, <2>2
    <3>. QED
      BY <1>1, <1>14, <3>1 DEF ListedAlive
  <2>. QED
    BY <2>1, <2>2
<1>18. AliveListed(connections', ss', replaced')
  <2>. SUFFICES ASSUME NEW t \in DOMAIN ss', ss'[t].peer_addr \notin replaced
                PROVE  Listed(connections', ss', t)
    BY <1>2 DEF AliveListed
  <2>1. CASE t = next_stream
    BY <1>7, <1>8, <1>10, <1>14, <1>15, <2>1 DEF Listed
  <2>2. CASE t # next_stream
    <3>1. t \in DOMAIN ss /\ ss'[t] = ss[t]
      BY <1>14, <2>2
    <3>2. Listed(connections, ss, t)
      BY <1>1, <3>1 DEF AliveListed
    <3>. QED
      BY <1>8, <1>10, <1>15, <3>1, <3>2 DEF Listed
  <2>. QED
    BY <2>1, <2>2
<1>19. IndexInv(connections', by_pubkey', replaced')
  BY <1>1, <1>2, <1>6, <1>10, IndexPut
<1>20. /\ by_pubkey' \in Partial(Ids, Addrs) /\ strayed' \subseteq Payloads
       /\ probe_sockets' \subseteq Helpers /\ DeliveredToIntended'
  BY <1>2 DEF IInv, DeliveredToIntended
<1>. QED
  BY <1>12, <1>16, <1>17, <1>18, <1>19, <1>20, NextIInv DEF ss

LEMMA OpenStreamKeeps ==
  ASSUME IInv, NEW k \in Ids, OpenStream(k)
  PROVE  IInv'
<1>1. by_pubkey[k] \in DOMAIN connections /\ NewStream(by_pubkey[k], "out")
  BY DEF OpenStream, Has
<1>2. "out" \in Dirs
  BY DEF Dirs
<1>. QED
  BY <1>1, <1>2, NewStreamKeeps

LEMMA AcceptStreamKeeps ==
  ASSUME IInv, NEW a \in Addrs, AcceptStream(a)
  PROVE  IInv'
<1>1. a \in DOMAIN connections /\ NewStream(a, "in")
  BY DEF AcceptStream, Hears, Has
<1>2. "in" \in Dirs
  BY DEF Dirs
<1>. QED
  BY <1>1, <1>2, NewStreamKeeps

\* Helper sockets come and go.
LEMMA SocketsKeep ==
  ASSUME IInv, probe_sockets' \subseteq Helpers, UNCHANGED <<connVars, streamVars>>
  PROVE  IInv'
<1>1. /\ connections' = connections /\ by_pubkey' = by_pubkey /\ strayed' = strayed
      /\ replaced' = replaced /\ stream_states' = stream_states
      /\ next_stream' = next_stream
  BY DEF connVars, streamVars
<1>2. /\ TableInv(connections', next_stream') /\ StatesInv(stream_states', next_stream')
      /\ ListedAlive(connections', stream_states')
      /\ AliveListed(connections', stream_states', replaced')
      /\ IndexInv(connections', by_pubkey', replaced')
      /\ by_pubkey' \in Partial(Ids, Addrs)
  BY <1>1, Before
<1>3. strayed' \subseteq Payloads /\ DeliveredToIntended'
  BY <1>1 DEF IInv, DeliveredToIntended
<1>. QED
  BY <1>2, <1>3, NextIInv

-----------------------------------------------------------------------------
(* The theorems.                                                           *)

\* The invariant holds initially.
LEMMA InitHolds == Init => IInv
<1>. SUFFICES ASSUME Init
              PROVE  IInv
  OBVIOUS
<1>1. /\ connections = <<>> /\ by_pubkey = <<>> /\ stream_states = <<>>
      /\ next_stream = 0 /\ strayed = {} /\ probe_sockets = {}
  BY DEF Init
<1>2. /\ DOMAIN connections = {} /\ DOMAIN by_pubkey = {} /\ DOMAIN stream_states = {}
      /\ connections \in Partial(Addrs, Conns)
      /\ by_pubkey \in Partial(Ids, Addrs)
      /\ stream_states \in Partial(0 .. (next_stream - 1), Streams)
  BY <1>1, EmptyPartial
<1>3. IsFiniteSet({}) /\ Cardinality({}) = 0
  BY FS_EmptySet
<1>4. TableInv(connections, next_stream)
  BY <1>2, <1>3, LimitsAre DEF TableInv
<1>5. StatesInv(stream_states, next_stream)
  BY <1>1, <1>2, <1>3, LimitsAre DEF StatesInv
<1>6. /\ ListedAlive(connections, stream_states)
      /\ AliveListed(connections, stream_states, replaced)
      /\ IndexInv(connections, by_pubkey, replaced)
  BY <1>2 DEF ListedAlive, AliveListed, IndexInv
<1>. QED
  BY <1>1, <1>2, <1>4, <1>5, <1>6 DEF IInv, DeliveredToIntended

\* Every step keeps the invariant.
LEMMA NextKeeps == IInv /\ [Next]_vars => IInv'
<1>. SUFFICES ASSUME IInv, [Next]_vars
              PROVE  IInv'
  OBVIOUS
<1>1. ASSUME NEW a \in Addrs, QueueDatagram(a) \/ DropConnection(a)
      PROVE  IInv'
  BY <1>1, QueueDatagramKeeps, RemovedKeeps DEF DropConnection
<1>2. ASSUME NEW a \in Addrs, NEW k \in Ids, QueueDatagramExpecting(a, k)
      PROVE  IInv'
  BY <1>2, QueueDatagramExpectingKeeps
<1>3. ASSUME NEW a \in Addrs, NEW k \in Ids, NEW h \in probe_sockets \cup {None},
             DialExpecting(a, k, h)
      PROVE  IInv'
  BY <1>3, DialExpectingKeeps
<1>4. ASSUME NEW k \in Ids, QueueDatagramToPeer(k) \/ OpenStream(k)
      PROVE  IInv'
  BY <1>4, QueueDatagramToPeerKeeps, OpenStreamKeeps
<1>5. ASSUME NEW s \in DOMAIN stream_states, ResetStream(s)
      PROVE  IInv'
  BY <1>5, ResetStreamKeeps
<1>6. ASSUME NEW s \in DOMAIN stream_states, NEW goes \in BOOLEAN, FinishStream(s, goes)
      PROVE  IInv'
  BY <1>6, FinishStreamKeeps
<1>7. ASSUME NEW h \in Helpers, RegisterPunchSocket(h) \/ UnregisterPunchSocket(h)
      PROVE  IInv'
  <2>1. probe_sockets' \subseteq Helpers /\ UNCHANGED <<connVars, streamVars>>
    BY <1>7 DEF RegisterPunchSocket, UnregisterPunchSocket, IInv
  <2>. QED
    BY <2>1, SocketsKeep
<1>8. CASE Core
  BY <1>1, <1>2, <1>3, <1>4, <1>5, <1>6, <1>7, <1>8 DEF Core
<1>9. ASSUME NEW a \in Addrs, NEW h \in Helpers \cup {None}, Accept(a, h)
      PROVE  IInv'
  BY <1>9, AcceptKeeps
<1>10. ASSUME NEW a \in Addrs, NEW k \in Ids, HandshakeDataReady(a, k) \/ Connected(a, k)
       PROVE  IInv'
  BY <1>10, HandshakeDataReadyKeeps, ConnectedKeeps
<1>11. ASSUME NEW a \in Addrs, ConnectionLost(a) \/ AcceptStream(a)
       PROVE  IInv'
  BY <1>11, RemovedKeeps, AcceptStreamKeeps DEF ConnectionLost
<1>12. ASSUME NEW a \in DOMAIN connections, NEW q \in DOMAIN connections[a].streams,
              ReadToEnd(a, q) \/ Stopped(a, q) \/ Writable(a, q)
       PROVE  IInv'
  BY <1>12, ReadToEndKeeps, StoppedKeeps, WritableKeeps
<1>13. CASE Quic
  BY <1>9, <1>10, <1>11, <1>12, <1>13 DEF Quic
<1>14. CASE UNCHANGED vars
  <2>1. probe_sockets' \subseteq Helpers /\ UNCHANGED <<connVars, streamVars>>
    BY <1>14 DEF vars, IInv
  <2>. QED
    BY <2>1, SocketsKeep
<1>. QED
  BY <1>8, <1>13, <1>14 DEF Next

\* The inductive invariant: what is pending waits on a connection that is only
\* ever flushed to its reader, the ids of streams are fresh, and the table, the
\* streams and the index point at each other.
THEOREM IInvHolds == Spec => []IInv
  BY InitHolds, NextKeeps, PTL DEF Spec

\* Every variable has its type; the connections, the datagrams pending on each
\* and the streams stay within MAX_CONNECTIONS, MAX_PENDING_DATAGRAMS and
\* MAX_STREAM_STATES.
THEOREM TypeCorrect == Spec => []TypeOK
<1>1. IInv => TypeOK
  <2>. SUFFICES ASSUME IInv
                PROVE  TypeOK
    OBVIOUS
  <2>1. ASSUME NEW a \in DOMAIN connections
        PROVE  ConnectionType(connections[a])
    <3>. DEFINE c == connections[a]
    <3>1. c \in Conns /\ Sound(c, next_stream)
      BY Before
    <3>. HIDE DEF c
    <3>2. /\ c.pending \in Seq(Payloads) /\ c.streams \in Partial(QuicIds, Nat)
          /\ c.established \in BOOLEAN /\ c.peer_pubkey \in Ids \cup {None}
          /\ c.socket \in Helpers \cup {None} /\ c.expect_pubkey \in Ids \cup {None}
      BY <3>1 DEF Conns
    <3>3. DOMAIN c.streams \subseteq QuicIds
      BY <3>2, PartialIs
    <3>4. \A i \in DOMAIN c.pending : c.pending[i] \in Payloads
      BY <3>2
    <3>5. ConnectionType(c)
      BY <3>1, <3>2, <3>3, <3>4 DEF ConnectionType, Sound, Fit
    <3>. QED
      BY <3>5 DEF c
  <2>2. DOMAIN connections \subseteq Addrs
        /\ Cardinality(DOMAIN connections) <= MaxConnections
    BY Before DEF TableInv
  <2>3. DOMAIN stream_states \subseteq 0 .. (next_stream - 1)
        /\ Cardinality(DOMAIN stream_states) <= MaxStreamStates
    BY Before, StreamIs DEF StatesInv
  <2>. QED
    BY <2>1, <2>2, <2>3 DEF TypeOK, IInv
<1>. QED
  BY <1>1, IInvHolds, PTL

\* queue_datagram_expecting and queue_datagram_to_peer: a datagram meant for an
\* identity is handed to no other one, unless it joined a connection dialled for
\* another identity, or was queued for a peer at an address where an accepted
\* connection has overwritten another.
THEOREM DatagramsReachTheirReader == Spec => []DeliveredToIntended
<1>1. IInv => DeliveredToIntended
  BY DEF IInv
<1>. QED
  BY <1>1, IInvHolds, PTL

\* "Every stream on the connection dies with it": listed streams are alive and
\* point back, and where no connection was replaced live streams are listed.
THEOREM StreamsDieWithConnections == Spec => []StreamsFollowConnections
<1>1. IInv => StreamsFollowConnections
  BY DEF IInv, StreamsFollowConnections, ListedAlive, AliveListed, Listed, Undisturbed, Has
<1>. QED
  BY <1>1, IInvHolds, PTL

\* by_pubkey names established connections of the identities it lists, where no
\* connection was replaced.
THEOREM IndexIsTrue == Spec => []IndexNamesItsIdentity
<1>1. IInv => IndexNamesItsIdentity
  BY DEF IInv, IndexNamesItsIdentity, IndexInv, Names, Undisturbed, Has
<1>. QED
  BY <1>1, IInvHolds, PTL
=============================================================================
