-------------------------- MODULE OverlayNetProofs --------------------------
(***************************************************************************)
(* Proofs about the overlay's repair streams, and about the mesh they run  *)
(* over, for any nodes, streams and limits.                                *)
(***************************************************************************)
EXTENDS OverlayNet, Integers, FiniteSetTheorems, SequenceTheorems, NaturalsInduction,
        WellFoundedInduction, TLAPS

-----------------------------------------------------------------------------
(* The invariants of the mesh, of a node's state c where that is enough.   *)

Messages ==
  [kind : {"shred"}, from : Nodes, to : Nodes, shred : Shreds]
    \cup [kind : {"dial"}, from : Nodes, to : Nodes]
    \cup [kind : {"advert"}, from : Nodes, to : Others, advert : Adverts]
    \cup [kind : {"roster"}, from : Others, to : {Mover}]

\* A node is never connected to itself, has nothing waiting at an address it is
\* connected to, and holds an advert of Mover, unless it is Mover.
CoreOK(n, c) ==
  /\ c \in Cores
  /\ n \notin c.conn
  /\ \A a \in c.conn : c.pending[a] = None
  /\ n # Mover /\ c.gossip # None => c.gossip.advert \in Adverts

\* The shreds that wait in a node are among S.
WaitingIn(c, S) ==
  \A a \in Nodes : c.pending[a] # None => c.pending[a].shreds \subseteq S

Flooded(f) == {s \in Shreds : f[s] # None}

CountsInv ==
  /\ up \in BOOLEAN /\ claim \in Claims /\ missed \in BOOLEAN /\ excused \subseteq Nodes
  /\ boot \in Nat /\ losses \in Nat /\ Faults <= MaxFaults
  /\ ticks \in 0 .. MaxTicks /\ seq \in 0 .. ticks /\ since \in 0 .. ticks

WireOK(w, S) ==
  /\ w \subseteq Messages
  /\ \A d \in w : /\ d.kind # "dial" => d.from # d.to
                  /\ d.kind = "shred" => d.shred \in S

MeshTypes ==
  /\ CountsInv
  /\ core \in [Nodes -> Cores]
  /\ \A n \in Nodes : CoreOK(n, core[n]) /\ WaitingIn(core[n], Flooded(flood))
  /\ flood \in [Shreds -> Floods \cup {None}]
  /\ WireOK(wire, Flooded(flood))

\* What a node has given up was excused, and so is an address from which it
\* expects an identity, unless that is the one at home there, which is dialled.
Blameless(n, c, w, x) ==
  /\ c.quarantined \subseteq x
  /\ \A a \in Nodes : c.confirming[a] # None =>
       \/ a \in x
       \/ c.confirming[a] = a /\ a # n /\ a \notin c.conn /\ Dial(n, a) \in w

\* An address somebody may advertise without anyone being to blame.
Fair(addr, x) == addr \in {None, Mover} \cup x

FairCore(n, c, x) == n # Mover /\ c.gossip # None => Fair(c.gossip.advert.addr, x)

CulpritsInv ==
  /\ \A n \in Nodes : Blameless(n, core[n], wire, excused) /\ FairCore(n, core[n], excused)
  /\ Fair(claim, excused)
  /\ \A d \in wire : d.kind = "advert" => Fair(d.advert.addr, excused)
  /\ ~up => Mover \in excused /\ \A a \in Nodes : core[Mover].confirming[a] = None

\* Adverts on the wire are those of this interval, or of a former life.
Recent(a) == IF since = 0 THEN a.boot < boot ELSE a = Advert

\* What a node knows of Mover is not from the future, and old if it is from a
\* former life.
AgeInv ==
  \A n \in Others : core[n].gossip # None =>
    LET g == core[n].gossip
    IN /\ g.advert.boot <= boot /\ (g.advert.boot = boot => g.advert.seq <= seq)
       /\ g.advert.boot < boot => g.age >= since \/ g.age > Ttl

\* A node holds the latest advert.
Current(n) ==
  LET g == core[n].gossip
  IN Live(g) /\ g.advert.boot = boot /\ g.advert.seq = seq

AdvertFor(n) == \E d \in wire : d.kind = "advert" /\ d.to = n

\* Once the time to live is over and while nothing is lost, the latest advert
\* has reached Static, and all that a node that holds it is linked with, or is
\* on its way there.
SpreadInv ==
  since > Ttl /\ ~missed /\ up =>
    /\ Current(Static) \/ AdvertFor(Static)
    /\ \A n, m \in Others :
         {n, m} \in Links /\ n # m /\ Current(n) => Current(m) \/ AdvertFor(m)
    /\ \A d \in wire : d.kind = "advert" /\ d.from # Mover => Current(d.from)

HealInv ==
  /\ \A d \in wire : d.kind = "advert" => Recent(d.advert)
  /\ AgeInv
  /\ \A n, m \in Others : {n, m} \in Links /\ n # m => m \in core[n].conn
  /\ SpreadInv

-----------------------------------------------------------------------------
(* What changes a node's state.                                            *)

\* What the constants are, and that None is none of it.
LEMMA EmptyHanded ==
  /\ None \notin Nodes /\ None \notin [expected : Nodes, shreds : SUBSET Shreds]
  /\ None \notin Floods /\ None \notin [advert : Adverts \cup {None}, age : 0 .. Ttl + 1]
  /\ Mover \in Nodes /\ Static \in Nodes /\ Static # Mover /\ Claims \subseteq Nodes \cup {None}
  /\ Ttl \in Nat /\ MaxTicks \in Nat /\ MaxFaults \in Nat
BY NodesAssumption, NoneAssumption, BoundsAssumption

\* The fields of a node's state.
LEMMA CoreFields ==
  ASSUME NEW c \in Cores
  PROVE  /\ c.conn \subseteq Nodes /\ c.quarantined \subseteq Nodes /\ c.seen \subseteq Shreds
         /\ c.pending \in [Nodes -> [expected : Nodes, shreds : SUBSET Shreds] \cup {None}]
         /\ c.confirming \in [Nodes -> Nodes \cup {None}]
         /\ c.gossip \in [advert : Adverts \cup {None}, age : 0 .. Ttl + 1] \cup {None}
BY DEF Cores

\* What a node expected of a peer is not what it found.
Lies(c, m) == c.confirming[m] \notin {None, m}

\* Establish, field by field, when there was no connection.
EstablishedAs(c, m, e) ==
  /\ e \in Cores
  /\ e.conn = IF Lies(c, m) THEN c.conn ELSE c.conn \cup {m}
  /\ e.pending = [c.pending EXCEPT ![m] = None]
  /\ e.confirming = [c.confirming EXCEPT ![m] = None]
  /\ e.quarantined = IF Lies(c, m) THEN c.quarantined \cup {m} ELSE c.quarantined
  /\ e.gossip = c.gossip /\ e.seen = c.seen

\* What a connection that stands leaves in a node (MemTransport::establish,
\* resolve_confirm).
LEMMA EstablishFields ==
  ASSUME NEW c \in Cores, NEW m \in Nodes, m \notin c.conn,
         NEW e, e = Establish(c, m)
  PROVE  EstablishedAs(c, m, e)
<1>. DEFINE P == [c.pending EXCEPT ![m] = None]
            C == [c.confirming EXCEPT ![m] = None]
            p == [c EXCEPT !.pending[m] = None]
            a == [c EXCEPT !.pending[m] = None, !.conn = @ \cup {m}]
            b == [a EXCEPT !.confirming[m] = None]
<1>1. p = [conn |-> c.conn, pending |-> P, gossip |-> c.gossip, confirming |-> c.confirming,
           quarantined |-> c.quarantined, seen |-> c.seen]
  BY DEF Cores
<1>2. a = [p EXCEPT !.conn = @ \cup {m}]
  BY Zenon
<1>3. a = [conn |-> c.conn \cup {m}, pending |-> P, gossip |-> c.gossip,
           confirming |-> c.confirming, quarantined |-> c.quarantined, seen |-> c.seen]
  <2>. HIDE DEF p, a, P
  <2>. QED
    BY <1>1, <1>2
<1>4. b = [conn |-> c.conn \cup {m}, pending |-> P, gossip |-> c.gossip,
           confirming |-> C, quarantined |-> c.quarantined, seen |-> c.seen]
  <2>. HIDE DEF a, P
  <2>. QED
    BY <1>3
<1>5. e = IF Lies(c, m) THEN Quarantined([b EXCEPT !.conn = @ \ {m}], m) ELSE b
  <2>1. e = Resolved(a, m)
    BY DEF Establish
  <2>. HIDE DEF a, P
  <2>2. a.confirming = c.confirming
    BY <1>3
  <2>. QED
    BY <2>1, <2>2 DEF Resolved, Lies
<1>6. e = [conn |-> IF Lies(c, m) THEN c.conn ELSE c.conn \cup {m}, pending |-> P,
           gossip |-> c.gossip, confirming |-> C,
           quarantined |-> IF Lies(c, m) THEN c.quarantined \cup {m} ELSE c.quarantined,
           seen |-> c.seen]
  <2>1. (c.conn \cup {m}) \ {m} = c.conn
    OBVIOUS
  <2>. HIDE DEF b, P, C
  <2>. QED
    BY <1>4, <1>5, <2>1 DEF Quarantined
<1>7. /\ P \in [Nodes -> [expected : Nodes, shreds : SUBSET Shreds] \cup {None}]
      /\ C \in [Nodes -> Nodes \cup {None}]
  BY CoreFields
<1>8. c.conn \cup {m} \subseteq Nodes /\ c.quarantined \cup {m} \subseteq Nodes
  BY CoreFields
<1>9. e \in Cores
  <2>. HIDE DEF P, C
  <2>. QED
    BY <1>6, <1>7, <1>8, CoreFields DEF Cores
<1>. HIDE DEF P, C
<1>10. /\ e.conn = IF Lies(c, m) THEN c.conn ELSE c.conn \cup {m}
       /\ e.pending = P /\ e.confirming = C
       /\ e.quarantined = IF Lies(c, m) THEN c.quarantined \cup {m} ELSE c.quarantined
       /\ e.gossip = c.gossip /\ e.seen = c.seen
  BY <1>6
<1>. QED
  BY <1>9, <1>10 DEF P, C, EstablishedAs

\* The dials of n in w are in v, but the one to m may not be.
DialsBut(n, m, w, v) == \A a \in Nodes \ {m} : Dial(n, a) \in w => Dial(n, a) \in v

\* A connection that stands settles what was expected of the peer.
LEMMA EstablishKeepsOK ==
  ASSUME NEW n \in Nodes, NEW m \in Nodes, n # m, NEW c, CoreOK(n, c),
         NEW w, NEW x, Blameless(n, c, w, x), NEW S, WaitingIn(c, S),
         NEW e, e = Establish(c, m),
         NEW v, DialsBut(n, m, w, v)
  PROVE  /\ CoreOK(n, e) /\ WaitingIn(e, S) /\ Blameless(n, e, v, x)
         /\ e.gossip = c.gossip /\ e.seen = c.seen /\ c.conn \subseteq e.conn
         /\ \A a \in Nodes : c.confirming[a] = None => e.confirming[a] = None
<1>1. c \in Cores
  BY DEF CoreOK
<1>2. CASE m \in c.conn
  <2>1. e = c
    BY <1>2 DEF Establish
  <2>2. Blameless(n, c, v, x)
    BY <1>2 DEF Blameless, DialsBut
  <2>. QED
    BY <2>1, <2>2
<1>3. CASE m \notin c.conn
  <2>1. EstablishedAs(c, m, e)
    BY <1>1, <1>3, EstablishFields
  <2>2. /\ c.pending \in [Nodes -> [expected : Nodes, shreds : SUBSET Shreds] \cup {None}]
        /\ c.confirming \in [Nodes -> Nodes \cup {None}] /\ c.conn \subseteq Nodes
    BY <1>1, CoreFields
  <2>3. CoreOK(n, e)
    BY <2>1, <2>2 DEF CoreOK, EstablishedAs
  <2>4. WaitingIn(e, S)
    BY <2>1, <2>2 DEF WaitingIn, EstablishedAs
  <2>5. Lies(c, m) => m \in x
    BY DEF Blameless, Lies
  <2>6. Blameless(n, e, v, x)
    BY <2>1, <2>2, <2>5 DEF Blameless, DialsBut, EstablishedAs
  <2>. QED
    BY <2>1, <2>2, <2>3, <2>4, <2>6 DEF EstablishedAs
<1>. QED
  BY <1>2, <1>3

-----------------------------------------------------------------------------
(* Sending.                                                                *)

\* Of some numbers one is the least.
LEMMA LeastNumber ==
  ASSUME NEW T \in SUBSET Nat, T # {}
  PROVE  \E x \in T : \A y \in T : x <= y
<1>. DEFINE R == OpToRel(<, Nat)
<1>1. IsWellFoundedOn(R, Nat)
  BY NatLessThanWellFounded
<1>2. PICK x \in T : \A y \in T : ~(<<y, x>> \in R)
  <2>. HIDE DEF R
  <2>. QED
    BY <1>1, WFMin
<1>3. \A y \in T : ~(y < x)
  BY <1>2 DEF OpToRel
<1>. QED
  BY <1>3

\* Of some nodes one comes first in the shuffle.
LEMMA LeastExists ==
  ASSUME NEW rank \in Ranks, NEW S \in SUBSET Nodes, S # {}
  PROVE  \E p \in S : \A q \in S : rank[p] <= rank[q]
<1>. DEFINE T == {rank[q] : q \in S}
<1>1. rank \in [Nodes -> Nat]
  <2>1. Cardinality(Nodes) \in Nat
    BY NodesAssumption, FS_CardinalityType
  <2>. QED
    BY <2>1 DEF Ranks
<1>2. T \in SUBSET Nat /\ T # {}
  BY <1>1
<1>3. PICK x \in T : \A y \in T : x <= y
  <2>. HIDE DEF T
  <2>. QED
    BY <1>2, LeastNumber
<1>. QED
  BY <1>3

\* What sending leaves in a node.
LEMMA SentFields ==
  ASSUME NEW n \in Nodes, NEW c \in Cores, NEW rank \in Ranks, NEW s \in Shreds,
         NEW targets \in SUBSET Nodes, NEW e, e = Sent(n, c, rank, s, targets)
  PROVE  /\ e \in Cores /\ e.conn = c.conn /\ e.gossip = c.gossip
         /\ e.quarantined = c.quarantined /\ e.seen = c.seen
         /\ \A a \in Nodes :
              \/ e.pending[a] = c.pending[a]
              \/ /\ a \notin c.conn
                 /\ e.pending[a].shreds \subseteq
                      {s} \cup (IF c.pending[a] = None THEN {} ELSE c.pending[a].shreds)
         /\ \A a \in Nodes :
              \/ e.confirming[a] = c.confirming[a]
              \/ e.confirming[a] \in Dialled(n, c, targets, a)
<1>. DEFINE D(a) == Dialled(n, c, targets, a)
            First(a) == CHOOSE p \in D(a) : \A q \in D(a) : rank[p] <= rank[q]
            Waits(a) == IF D(a) = {} \/ a \in c.conn THEN c.pending[a]
                        ELSE IF c.pending[a] = None THEN [expected |-> First(a), shreds |-> {s}]
                        ELSE [c.pending[a] EXCEPT !.shreds = @ \cup {s}]
            Confirms(a) == IF D(a) = {} \/ c.confirming[a] # None
                           THEN c.confirming[a] ELSE First(a)
            P == [a \in Nodes |-> Waits(a)]
            C == [a \in Nodes |-> Confirms(a)]
<1>1. e = [c EXCEPT !.pending = P, !.confirming = C]
  BY Zenon DEF Sent
<1>2. \A a \in Nodes : D(a) \subseteq Nodes
  BY DEF Dialled
<1>3. ASSUME NEW a \in Nodes, D(a) # {}
      PROVE  First(a) \in D(a)
  <2>. HIDE DEF D
  <2>1. \E p \in D(a) : \A q \in D(a) : rank[p] <= rank[q]
    BY <1>2, <1>3, LeastExists
  <2>. QED
    BY <2>1
<1>. HIDE DEF D, First
<1>4. P \in [Nodes -> [expected : Nodes, shreds : SUBSET Shreds] \cup {None}]
  <2>. SUFFICES ASSUME NEW a \in Nodes
                PROVE  Waits(a) \in [expected : Nodes, shreds : SUBSET Shreds] \cup {None}
    OBVIOUS
  <2>1. c.pending[a] \in [expected : Nodes, shreds : SUBSET Shreds] \cup {None}
    BY CoreFields
  <2>. QED
    BY <1>2, <1>3, <2>1
<1>5. C \in [Nodes -> Nodes \cup {None}]
  BY <1>2, <1>3, CoreFields
<1>6. \A a \in Nodes :
        \/ P[a] = c.pending[a]
        \/ /\ a \notin c.conn
           /\ P[a].shreds \subseteq
                {s} \cup (IF c.pending[a] = None THEN {} ELSE c.pending[a].shreds)
  <2>. SUFFICES ASSUME NEW a \in Nodes, P[a] # c.pending[a]
                PROVE  /\ a \notin c.conn
                       /\ P[a].shreds \subseteq
                            {s} \cup (IF c.pending[a] = None THEN {} ELSE c.pending[a].shreds)
    OBVIOUS
  <2>1. c.pending[a] \in [expected : Nodes, shreds : SUBSET Shreds] \cup {None}
    BY CoreFields
  <2>2. P[a] = Waits(a)
    OBVIOUS
  <2>. HIDE DEF P
  <2>. QED
    BY <2>1, <2>2
<1>7. \A a \in Nodes : C[a] = c.confirming[a] \/ C[a] \in D(a)
  BY <1>3
<1>. HIDE DEF P, C
<1>8. e = [conn |-> c.conn, pending |-> P, gossip |-> c.gossip, confirming |-> C,
           quarantined |-> c.quarantined, seen |-> c.seen]
  <2>1. c = [conn |-> c.conn, pending |-> c.pending, gossip |-> c.gossip,
             confirming |-> c.confirming, quarantined |-> c.quarantined, seen |-> c.seen]
    BY DEF Cores
  <2>. DEFINE f == [c EXCEPT !.pending = P]
  <2>2. f = [conn |-> c.conn, pending |-> P, gossip |-> c.gossip,
             confirming |-> c.confirming, quarantined |-> c.quarantined, seen |-> c.seen]
    BY DEF Cores
  <2>3. e = [f EXCEPT !.confirming = C]
    BY <1>1, Zenon
  <2>. HIDE DEF f
  <2>. QED
    BY <2>2, <2>3
<1>9. e \in Cores
  BY <1>4, <1>5, <1>8, CoreFields DEF Cores
<1>10. /\ e.conn = c.conn /\ e.gossip = c.gossip /\ e.quarantined = c.quarantined
       /\ e.seen = c.seen /\ e.pending = P /\ e.confirming = C
  BY <1>8
<1>. QED
  BY <1>6, <1>7, <1>9, <1>10 DEF D

\* A target that is dialled at another address than its own is Mover, and the
\* address one it advertised.
LEMMA DialledFacts ==
  ASSUME NEW n \in Nodes, NEW c, CoreOK(n, c), NEW x, FairCore(n, c, x),
         NEW targets \in SUBSET (Nodes \ {n}), NEW a \in Nodes,
         NEW p \in Dialled(n, c, targets, a)
  PROVE  /\ p \in Nodes \ {n} /\ p \notin c.conn
         /\ a \in x \/ a = p
<1>1. /\ p \in Nodes /\ p # n /\ p \notin c.conn /\ DirectAddr(n, c, p) = a
  BY DEF Dialled
<1>2. CASE a # p
  <2>1. /\ p = Mover /\ n # Mover /\ Live(c.gossip) /\ a = c.gossip.advert.addr
    BY <1>1, <1>2, EmptyHanded DEF DirectAddr
  <2>2. Fair(a, x)
    BY <2>1 DEF FairCore, Live
  <2>. QED
    BY <1>1, <1>2, <2>1, <2>2, EmptyHanded DEF Fair
<1>. QED
  BY <1>1, <1>2

\* Nobody is blamed for what is sent.
LEMMA SentKeeps ==
  ASSUME NEW n \in Nodes, NEW c, CoreOK(n, c), NEW rank \in Ranks, NEW s \in Shreds,
         NEW targets \in SUBSET (Nodes \ {n}), NEW e, e = Sent(n, c, rank, s, targets),
         NEW w, NEW x, Blameless(n, c, w, x), FairCore(n, c, x),
         NEW S, WaitingIn(c, S), s \in S
  PROVE  /\ CoreOK(n, e) /\ WaitingIn(e, S) /\ FairCore(n, e, x)
         /\ Blameless(n, e, w \cup Sending(n, c, s, targets), x)
         /\ e.conn = c.conn /\ e.gossip = c.gossip /\ e.seen = c.seen
<1>1. c \in Cores /\ targets \in SUBSET Nodes
  BY DEF CoreOK
<1>2. /\ e \in Cores /\ e.conn = c.conn /\ e.gossip = c.gossip
      /\ e.quarantined = c.quarantined /\ e.seen = c.seen
      /\ \A a \in Nodes :
           \/ e.pending[a] = c.pending[a]
           \/ /\ a \notin c.conn
              /\ e.pending[a].shreds \subseteq
                   {s} \cup (IF c.pending[a] = None THEN {} ELSE c.pending[a].shreds)
      /\ \A a \in Nodes :
           \/ e.confirming[a] = c.confirming[a]
           \/ e.confirming[a] \in Dialled(n, c, targets, a)
  BY <1>1, SentFields
<1>3. c.conn \subseteq Nodes
  BY <1>1, CoreFields
<1>4. CoreOK(n, e)
  BY <1>2, <1>3 DEF CoreOK
<1>5. WaitingIn(e, S)
  BY <1>2 DEF WaitingIn
<1>6. FairCore(n, e, x)
  BY <1>2 DEF FairCore
<1>7. ASSUME NEW a \in Nodes, e.confirming[a] # None
      PROVE  \/ a \in x
             \/ /\ e.confirming[a] = a /\ a # n /\ a \notin e.conn
                /\ Dial(n, a) \in w \cup Sending(n, c, s, targets)
  <2>1. CASE e.confirming[a] = c.confirming[a]
    BY <1>2, <1>7, <2>1 DEF Blameless
  <2>2. CASE e.confirming[a] \in Dialled(n, c, targets, a)
    <3>1. /\ e.confirming[a] # n /\ e.confirming[a] \notin c.conn
          /\ a \in x \/ a = e.confirming[a]
      BY <2>2, DialledFacts
    <3>2. a \notin c.conn => Dial(n, a) \in Sending(n, c, s, targets)
      BY <2>2 DEF Sending
    <3>. QED
      BY <1>2, <3>1, <3>2
  <2>. QED
    BY <1>2, <2>1, <2>2
<1>8. Blameless(n, e, w \cup Sending(n, c, s, targets), x)
  BY <1>2, <1>7 DEF Blameless
<1>. QED
  BY <1>2, <1>4, <1>5, <1>6, <1>8

\* What is sent are shreds to others, and dials.
LEMMA SendingFits ==
  ASSUME NEW n \in Nodes, NEW c, CoreOK(n, c), NEW s \in Shreds, NEW S, s \in S,
         NEW targets \in SUBSET (Nodes \ {n})
  PROVE  /\ WireOK(Sending(n, c, s, targets), S)
         /\ \A d \in Sending(n, c, s, targets) : d.kind # "advert"
<1>1. c.conn \subseteq Nodes
  BY CoreFields DEF CoreOK
<1>2. ASSUME NEW d \in Sending(n, c, s, targets)
      PROVE  /\ d \in Messages /\ d.kind # "advert"
             /\ d.kind # "dial" => d.from # d.to
             /\ d.kind = "shred" => d.shred \in S
  <2>1. CASE \E p \in (targets \cap c.conn) \ c.quarantined : d = ShredTo(n, p, s)
    BY <1>1, <2>1 DEF ShredTo, Messages
  <2>2. CASE \E a \in Nodes : d = Dial(n, a)
    BY <2>2 DEF Dial, Messages
  <2>. QED
    BY <2>1, <2>2 DEF Sending
<1>. QED
  BY <1>2 DEF WireOK

-----------------------------------------------------------------------------
(* The tree has no node below itself.                                      *)

\* retransmit_indices: a node retransmits to larger indices only.
LEMMA IndicesLarger ==
  ASSUME NEW i \in Nat, NEW len \in Nat, NEW j \in RetransmitIndices(i, len)
  PROVE  j \in Nat /\ i < j /\ j < len
<1>. DEFINE offset == (IF i = 0 THEN 0 ELSE i - 1) % Fanout
            step == IF i = 0 THEN 1 ELSE Fanout
<1>1. Fanout \in Nat /\ Fanout >= 1
  BY FanoutAssumption
<1>2. offset \in Nat /\ offset <= i /\ step \in Nat
  <2>1. CASE i = 0
    <3>1. offset = 0
      BY <1>1, <2>1
    <3>. QED
      BY <1>1, <2>1, <3>1
  <2>2. CASE i # 0
    <3>1. i - 1 \in Nat
      BY <2>2
    <3>2. (i - 1) % Fanout \in Nat /\ (i - 1) % Fanout <= i - 1
      BY <1>1, <3>1
    <3>. QED
      BY <1>1, <2>2, <3>2
  <2>. QED
    BY <2>1, <2>2
<1>. HIDE DEF offset, step
<1>3. (i - offset) * Fanout >= i - offset
  <2>1. \A a, b \in Nat : b >= 1 => a * b >= a
    OBVIOUS
  <2>2. i - offset \in Nat
    BY <1>2
  <2>. QED
    BY <1>1, <2>1, <2>2
<1>4. PICK k \in 0 .. Fanout - 1 : j = (i - offset) * Fanout + offset + 1 + step * k
  BY DEF RetransmitIndices, offset, step
<1>5. step * k \in Nat
  BY <1>1, <1>2
<1>6. (i - offset) * Fanout \in Int
  BY <1>1, <1>2
<1>. DEFINE u == step * k
            v == (i - offset) * Fanout
<1>7. u \in Nat /\ v \in Int /\ v >= i - offset /\ j = v + offset + 1 + u
  BY <1>3, <1>4, <1>5, <1>6
<1>. HIDE DEF u, v
<1>8. j \in 0 .. len - 1
  BY DEF RetransmitIndices
<1>. QED
  BY <1>2, <1>7, <1>8

\* A node's index in the tree is a number.
LEMMA IndexType ==
  ASSUME NEW members \in SUBSET Nodes, NEW rank, NEW n
  PROVE  Index(rank, members, n) \in Nat /\ Cardinality(members) \in Nat
<1>1. IsFiniteSet(members)
  BY NodesAssumption, FS_Subset
<1>. DEFINE B == {m \in members : rank[m] < rank[n]}
<1>2. B \in SUBSET members
  OBVIOUS
<1>3. Cardinality(B) \in Nat
  <2>. HIDE DEF B
  <2>. QED
    BY <1>1, <1>2, FS_Subset, FS_CardinalityType
<1>. QED
  BY <1>1, <1>3, FS_CardinalityType DEF Index

\* Nobody sends a shred to itself (origin_peers, retransmit_peers).
LEMMA NotToItself ==
  ASSUME NEW rank \in Ranks, NEW n \in Nodes, NEW peers \in SUBSET Nodes
  PROVE  /\ RetransmitPeers(rank, n, peers) \subseteq Nodes \ {n}
         /\ OriginPeers(rank, n, peers) \subseteq Nodes \ {n}
<1>. DEFINE members == peers \cup {n}
            i == Index(rank, members, n)
<1>1. members \in SUBSET Nodes
  OBVIOUS
<1>2. i \in Nat /\ Cardinality(members) \in Nat
  BY <1>1, IndexType
<1>3. RetransmitPeers(rank, n, peers) \subseteq Nodes \ {n}
  <2>1. i \notin RetransmitIndices(i, Cardinality(members))
    BY <1>2, IndicesLarger
  <2>. QED
    BY <1>1, <2>1 DEF RetransmitPeers, At
<1>4. i # 0 => At(rank, members, {0}) \subseteq Nodes \ {n}
  BY <1>1 DEF At
<1>. QED
  BY <1>3, <1>4 DEF OriginPeers

-----------------------------------------------------------------------------
(* Connections and arrivals.                                               *)

\* What is on the wire besides, and what is excused besides, blames nobody.
LEMMA BlamelessMore ==
  ASSUME NEW n, NEW c, NEW w, NEW x, Blameless(n, c, w, x),
         NEW v, w \subseteq v, NEW y, x \subseteq y
  PROVE  Blameless(n, c, v, y)
BY DEF Blameless

\* Nor does a message that is gone, if it is no dial.
LEMMA BlamelessLess ==
  ASSUME NEW n, NEW c, NEW w, NEW x, Blameless(n, c, w, x),
         NEW d, d.kind # "dial"
  PROVE  Blameless(n, c, w \ {d}, x)
<1>1. \A a : d # Dial(n, a)
  BY DEF Dial
<1>. QED
  BY <1>1 DEF Blameless

\* The nodes, when connections were made and w is on the wire.
Followed(cc, w) ==
  /\ cc \in [Nodes -> Cores]
  /\ \A k \in Nodes :
       /\ CoreOK(k, cc[k]) /\ WaitingIn(cc[k], Flooded(flood))
       /\ Blameless(k, cc[k], w, excused) /\ FairCore(k, cc[k], excused)
       /\ cc[k].gossip = core[k].gossip /\ cc[k].seen = core[k].seen
       /\ core[k].conn \subseteq cc[k].conn
       /\ \A a \in Nodes : core[k].confirming[a] = None => cc[k].confirming[a] = None

\* Both ends of a new connection are as they should be (HighSeamNet::connect).
LEMMA ConnectedKeeps ==
  ASSUME MeshTypes, CulpritsInv, NEW n \in Nodes, NEW m \in Nodes, n # m,
         NEW cc, cc = Connected(n, m)
  PROVE  Followed(cc, wire \ {Dial(n, m), Dial(m, n)})
<1>. DEFINE v == wire \ {Dial(n, m), Dial(m, n)}
            e == Establish(core[n], m)
            f == Establish(core[m], n)
            F == Flooded(flood)
<1>1. core \in [Nodes -> Cores]
  BY DEF MeshTypes
<1>2. \A k \in Nodes : /\ CoreOK(k, core[k]) /\ WaitingIn(core[k], F)
                       /\ Blameless(k, core[k], wire, excused) /\ FairCore(k, core[k], excused)
  BY DEF MeshTypes, CulpritsInv
<1>3. cc = [[core EXCEPT ![n] = e] EXCEPT ![m] = f]
  <2>1. cc = [[core EXCEPT ![n] = e] EXCEPT ![m] = Establish(@, n)]
    BY Zenon DEF Connected
  <2>. HIDE DEF e, f
  <2>2. [core EXCEPT ![n] = e][m] = core[m]
    BY <1>1
  <2>. QED
    BY <2>1, <2>2 DEF f
<1>4. /\ CoreOK(n, e) /\ WaitingIn(e, F) /\ Blameless(n, e, v, excused)
      /\ e.gossip = core[n].gossip /\ e.seen = core[n].seen /\ core[n].conn \subseteq e.conn
      /\ \A a \in Nodes : core[n].confirming[a] = None => e.confirming[a] = None
  <2>1. DialsBut(n, m, wire, v)
    BY DEF Dial, DialsBut
  <2>. HIDE DEF F, v
  <2>. QED
    BY <1>2, <2>1, EstablishKeepsOK
<1>5. /\ CoreOK(m, f) /\ WaitingIn(f, F) /\ Blameless(m, f, v, excused)
      /\ f.gossip = core[m].gossip /\ f.seen = core[m].seen /\ core[m].conn \subseteq f.conn
      /\ \A a \in Nodes : core[m].confirming[a] = None => f.confirming[a] = None
  <2>1. DialsBut(m, n, wire, v)
    BY DEF Dial, DialsBut
  <2>. HIDE DEF F, v
  <2>. QED
    BY <1>2, <2>1, EstablishKeepsOK
<1>. HIDE DEF e, f, F
<1>6. /\ cc \in [Nodes -> Cores] /\ cc[n] = e /\ cc[m] = f
      /\ \A k \in Nodes \ {n, m} : cc[k] = core[k]
  BY <1>1, <1>3, <1>4, <1>5 DEF CoreOK
<1>7. ASSUME NEW k \in Nodes \ {n, m}
      PROVE  Blameless(k, core[k], v, excused)
  <2>1. \A a : Dial(k, a) # Dial(n, m) /\ Dial(k, a) # Dial(m, n)
    BY DEF Dial
  <2>. QED
    BY <1>2, <2>1 DEF Blameless
<1>8. FairCore(n, e, excused) /\ FairCore(m, f, excused)
  BY <1>2, <1>4, <1>5 DEF FairCore
<1>9. ASSUME NEW k \in Nodes
      PROVE  /\ CoreOK(k, cc[k]) /\ WaitingIn(cc[k], F)
             /\ Blameless(k, cc[k], v, excused) /\ FairCore(k, cc[k], excused)
             /\ cc[k].gossip = core[k].gossip /\ cc[k].seen = core[k].seen
             /\ core[k].conn \subseteq cc[k].conn
             /\ \A a \in Nodes : core[k].confirming[a] = None => cc[k].confirming[a] = None
  <2>. HIDE DEF v
  <2>1. CASE k = n
    BY <1>4, <1>6, <1>8, <2>1
  <2>2. CASE k = m
    BY <1>5, <1>6, <1>8, <2>2
  <2>3. CASE k \notin {n, m}
    <3>1. cc[k] = core[k]
      BY <1>6, <2>3
    <3>2. Blameless(k, core[k], v, excused)
      BY <1>7, <2>3
    <3>. QED
      BY <1>2, <3>1, <3>2
  <2>. QED
    BY <2>1, <2>2, <2>3
<1>. QED
  BY <1>6, <1>9 DEF Followed, F

\* What waited goes out as shreds.
LEMMA DeferredFits ==
  ASSUME MeshTypes, NEW n \in Nodes, NEW m \in Nodes, n # m
  PROVE  /\ WireOK(Deferred(n, m), Flooded(flood))
         /\ \A d \in Deferred(n, m) : d.kind = "shred"
<1>. DEFINE F == Flooded(flood)
<1>1. ASSUME NEW k \in Nodes, NEW l \in Nodes
      PROVE  Released(core[k], l) \subseteq F \cap Shreds
  <2>1. core[k] \in Cores /\ WaitingIn(core[k], F)
    BY DEF MeshTypes
  <2>2. core[k].pending[l] \in [expected : Nodes, shreds : SUBSET Shreds] \cup {None}
    BY <2>1, CoreFields
  <2>. HIDE DEF F
  <2>3. core[k].pending[l] # None => core[k].pending[l].shreds \subseteq F
    BY <2>1 DEF WaitingIn
  <2>. QED
    BY <2>2, <2>3 DEF Released
<1>2. ASSUME NEW d \in Deferred(n, m)
      PROVE  d \in Messages /\ d.kind = "shred" /\ d.from # d.to /\ d.shred \in F
  <2>. HIDE DEF F
  <2>1. \/ \E s \in F \cap Shreds : d = ShredTo(n, m, s)
        \/ \E s \in F \cap Shreds : d = ShredTo(m, n, s)
    BY <1>1 DEF Deferred
  <2>. QED
    BY <2>1 DEF ShredTo, Messages
<1>. QED
  BY <1>2 DEF WireOK

\* A datagram on arrival.
LEMMA MetKeeps ==
  ASSUME MeshTypes, CulpritsInv, NEW d \in wire, d.kind # "dial"
  PROVE  /\ d.from \in Nodes /\ d.to \in Nodes /\ d.from # d.to
         /\ Followed(Met(d), wire \ {d})
         /\ WireOK(Arrival(d), Flooded(flood))
         /\ wire \ {d} \subseteq Arrival(d)
         /\ \A b \in Arrival(d) : b.kind = "advert" => b \in wire \ {d}
<1>. DEFINE n == d.from
            m == d.to
            F == Flooded(flood)
<1>1. n \in Nodes /\ m \in Nodes /\ n # m /\ WireOK(wire \ {d}, F)
  <2>1. WireOK(wire, F)
    BY DEF MeshTypes
  <2>2. Others \subseteq Nodes /\ Mover \in Nodes
    BY EmptyHanded DEF Others
  <2>3. d \in Messages /\ d.from # d.to
    BY <2>1 DEF WireOK
  <2>4. n \in Nodes /\ m \in Nodes
    BY <2>2, <2>3 DEF Messages
  <2>. QED
    BY <2>1, <2>3, <2>4 DEF WireOK
<1>2. CASE n \in core[m].conn
  <2>1. Met(d) = core /\ Arrival(d) = wire \ {d}
    BY <1>2 DEF Met, Arrival
  <2>2. Followed(core, wire \ {d})
    BY BlamelessLess DEF MeshTypes, CulpritsInv, Followed
  <2>. QED
    BY <1>1, <2>1, <2>2
<1>3. CASE n \notin core[m].conn
  <2>1. Met(d) = Connected(n, m) /\ Arrival(d) = (wire \ {d}) \cup Deferred(n, m)
    BY <1>3 DEF Met, Arrival
  <2>. DEFINE cc == Connected(n, m)
              v == wire \ {Dial(n, m), Dial(m, n)}
  <2>2. Followed(cc, v)
    BY <1>1, ConnectedKeeps
  <2>3. Followed(cc, wire \ {d})
    <3>1. v \ {d} \subseteq wire \ {d}
      OBVIOUS
    <3>. HIDE DEF cc, v
    <3>2. ASSUME NEW k \in Nodes PROVE Blameless(k, cc[k], wire \ {d}, excused)
      <4>1. Blameless(k, cc[k], v, excused)
        BY <2>2 DEF Followed
      <4>2. Blameless(k, cc[k], v \ {d}, excused)
        BY <4>1, BlamelessLess
      <4>. QED
        BY <3>1, <4>2, BlamelessMore
    <3>. QED
      BY <2>2, <3>2 DEF Followed
  <2>4. /\ WireOK(Deferred(n, m), F) /\ \A b \in Deferred(n, m) : b.kind = "shred"
    BY <1>1, DeferredFits
  <2>5. WireOK(Arrival(d), F)
    BY <1>1, <2>1, <2>4 DEF WireOK
  <2>. QED
    BY <1>1, <2>1, <2>3, <2>4, <2>5
<1>. QED
  BY <1>2, <1>3

-----------------------------------------------------------------------------
(* What nodes and network do.                                              *)

\* The state after a step that leaves Mover's life and the counts alone.
LEMMA NetworkStep ==
  ASSUME MeshTypes, CulpritsInv, UNCHANGED <<moverVars, ticks, losses, missed, excused>>,
         core' \in [Nodes -> Cores],
         \A k \in Nodes : /\ CoreOK(k, core'[k]) /\ WaitingIn(core'[k], Flooded(flood'))
                          /\ Blameless(k, core'[k], wire', excused)
                          /\ FairCore(k, core'[k], excused),
         flood' \in [Shreds -> Floods \cup {None}],
         WireOK(wire', Flooded(flood')),
         \A d \in wire' : d.kind = "advert" => Fair(d.advert.addr, excused),
         ~up => \A a \in Nodes : core'[Mover].confirming[a] = None
  PROVE  MeshTypes' /\ CulpritsInv'
<1>1. CountsInv'
  BY DEF MeshTypes, CountsInv, Faults, moverVars
<1>2. MeshTypes'
  BY <1>1 DEF MeshTypes
<1>3. CulpritsInv'
  BY DEF CulpritsInv, moverVars
<1>. QED
  BY <1>2, <1>3

\* What is known of everything before a step.
LEMMA Before ==
  ASSUME MeshTypes, CulpritsInv
  PROVE  /\ core \in [Nodes -> Cores]
         /\ \A k \in Nodes : /\ core[k] \in Cores /\ CoreOK(k, core[k])
                             /\ WaitingIn(core[k], Flooded(flood))
                             /\ Blameless(k, core[k], wire, excused)
                             /\ FairCore(k, core[k], excused)
         /\ flood \in [Shreds -> Floods \cup {None}]
         /\ WireOK(wire, Flooded(flood))
         /\ \A d \in wire : d.kind = "advert" => Fair(d.advert.addr, excused)
         /\ ~up => Mover \in excused /\ \A a \in Nodes : core[Mover].confirming[a] = None
BY DEF MeshTypes, CulpritsInv

\* A flood that is disturbed is still one.
LEMMA FloodKept ==
  ASSUME NEW f \in [Shreds -> Floods \cup {None}]
  PROVE  /\ Disturbed(f) \in [Shreds -> Floods \cup {None}]
         /\ Flooded(Disturbed(f)) = Flooded(f)
<1>1. ASSUME NEW s \in Shreds
      PROVE  /\ Disturbed(f)[s] \in Floods \cup {None}
             /\ Disturbed(f)[s] = None <=> f[s] = None
  <2>1. Disturbed(f)[s] = IF f[s] = None THEN None ELSE [f[s] EXCEPT !.clean = FALSE]
    BY DEF Disturbed
  <2>2. \A g \in Floods : [g EXCEPT !.clean = FALSE] \in Floods
    BY DEF Floods
  <2>3. f[s] \in Floods \cup {None} /\ None \notin Floods
    BY EmptyHanded
  <2>. QED
    BY <2>1, <2>2, <2>3
<1>2. DOMAIN Disturbed(f) = Shreds /\ Disturbed(f) = [s \in Shreds |-> Disturbed(f)[s]]
  BY DEF Disturbed
<1>. QED
  BY <1>1, <1>2 DEF Flooded

\* So is one a node has joined in.
LEMMA FloodJoined ==
  ASSUME NEW f \in [Shreds -> Floods \cup {None}], NEW s \in Shreds, f[s] # None,
         NEW h \in Floods, NEW g, g = [f EXCEPT ![s] = h]
  PROVE  g \in [Shreds -> Floods \cup {None}] /\ Flooded(g) = Flooded(f)
<1>1. None \notin Floods
  BY EmptyHanded
<1>2. \A t \in Shreds : g[t] = IF t = s THEN h ELSE f[t]
  OBVIOUS
<1>. QED
  BY <1>1, <1>2 DEF Flooded

\* A node that has seen a shred, field by field.
LEMMA SeenFields ==
  ASSUME NEW c \in Cores, NEW s \in Shreds, NEW e, e = [c EXCEPT !.seen = @ \cup {s}]
  PROVE  /\ e \in Cores /\ e.seen = c.seen \cup {s} /\ e.pending = c.pending
         /\ e.conn = c.conn /\ e.gossip = c.gossip /\ e.confirming = c.confirming
         /\ e.quarantined = c.quarantined
BY DEF Cores

\* A node that has seen a shred is otherwise what it was.
LEMMA SeenKeeps ==
  ASSUME NEW n, NEW c, CoreOK(n, c), NEW w, NEW x, Blameless(n, c, w, x),
         FairCore(n, c, x), NEW S, WaitingIn(c, S), NEW s \in Shreds,
         NEW e, e = [c EXCEPT !.seen = @ \cup {s}]
  PROVE  /\ CoreOK(n, e) /\ Blameless(n, e, w, x) /\ FairCore(n, e, x) /\ WaitingIn(e, S)
         /\ e.conn = c.conn /\ e.gossip = c.gossip /\ e.confirming = c.confirming
<1>1. c \in Cores
  BY DEF CoreOK
<1>2. /\ e \in Cores /\ e.conn = c.conn /\ e.gossip = c.gossip /\ e.confirming = c.confirming
      /\ e.pending = c.pending /\ e.quarantined = c.quarantined
  BY <1>1, SeenFields
<1>. QED
  BY <1>2 DEF CoreOK, Blameless, FairCore, WaitingIn

\* A step that leaves the adverts where they are: those that nodes other than
\* Mover hold, those on the wire, and the connections they go over.
Calm ==
  /\ \A k \in Others : core'[k].gossip = core[k].gossip /\ core[k].conn \subseteq core'[k].conn
  /\ \A d : d.kind = "advert" => (d \in wire' <=> d \in wire)

\* Usable peers are nodes.
LEMMA UsableNodes ==
  ASSUME NEW n \in Nodes, NEW c \in Cores
  PROVE  UsablePeers(n, c) \subseteq Nodes \ {n}
BY CoreFields DEF UsablePeers

\* A shred originates (on_source_packet).
LEMMA SourcePacketKeeps ==
  ASSUME MeshTypes, CulpritsInv, NEW n \in Nodes, NEW s \in Shreds, NEW rank \in Ranks,
         SourcePacket(n, s, rank)
  PROVE  MeshTypes' /\ CulpritsInv' /\ Calm
<1>. DEFINE c == [core[n] EXCEPT !.seen = @ \cup {s}]
            members == UsablePeers(n, c) \cup {n}
            targets == OriginPeers(rank, n, members \ {n})
            e == Sent(n, c, rank, s, targets)
            clean == Agrees(n, c, members) /\ (Mover \in members => up)
            h == [origin |-> n, rank |-> rank, members |-> members, clean |-> clean]
            S == Flooded(flood) \cup {s}
<1>1. /\ (n = Mover => up) /\ wire = {} /\ core' = [core EXCEPT ![n] = e]
      /\ wire' = Sending(n, c, s, targets) /\ flood' = [flood EXCEPT ![s] = h]
      /\ UNCHANGED <<moverVars, ticks, losses, missed, excused>>
  BY DEF SourcePacket
<1>2. /\ CoreOK(n, c) /\ Blameless(n, c, wire, excused) /\ FairCore(n, c, excused)
      /\ WaitingIn(c, Flooded(flood)) /\ c.conn = core[n].conn /\ c.gossip = core[n].gossip
  <2>. DEFINE F == Flooded(flood)
  <2>1. /\ CoreOK(n, core[n]) /\ Blameless(n, core[n], wire, excused)
        /\ FairCore(n, core[n], excused) /\ WaitingIn(core[n], F)
    BY Before
  <2>. HIDE DEF F
  <2>2. /\ CoreOK(n, c) /\ Blameless(n, c, wire, excused) /\ FairCore(n, c, excused)
        /\ WaitingIn(c, F) /\ c.conn = core[n].conn /\ c.gossip = core[n].gossip
    BY <2>1, SeenKeeps
  <2>. QED
    BY <2>2 DEF F
<1>. HIDE DEF c
<1>3. members \in SUBSET Nodes /\ members \ {n} \in SUBSET Nodes
  BY <1>2, UsableNodes DEF CoreOK
<1>4. targets \in SUBSET (Nodes \ {n})
  <2>. HIDE DEF members
  <2>. QED
    BY <1>3, NotToItself
<1>. HIDE DEF targets
<1>5. WaitingIn(c, S) /\ s \in S
  BY <1>2 DEF WaitingIn
<1>6. /\ CoreOK(n, e) /\ WaitingIn(e, S) /\ FairCore(n, e, excused)
      /\ Blameless(n, e, wire \cup Sending(n, c, s, targets), excused)
      /\ e.conn = c.conn /\ e.gossip = c.gossip
  <2>. HIDE DEF S
  <2>. QED
    BY <1>2, <1>4, <1>5, SentKeeps
<1>7. /\ WireOK(Sending(n, c, s, targets), S)
      /\ \A d \in Sending(n, c, s, targets) : d.kind # "advert"
  <2>. HIDE DEF S
  <2>. QED
    BY <1>2, <1>4, <1>5, SendingFits
<1>. HIDE DEF e
<1>8. flood' \in [Shreds -> Floods \cup {None}] /\ Flooded(flood') = S
  <2>1. clean \in BOOLEAN
    BY DEF Agrees
  <2>2. h \in Floods
    <3>. HIDE DEF clean, members
    <3>. QED
      BY <1>3, <2>1 DEF Floods
  <2>3. None \notin Floods /\ flood \in [Shreds -> Floods \cup {None}]
    BY EmptyHanded, Before
  <2>. HIDE DEF h
  <2>4. flood' = [flood EXCEPT ![s] = h]
    BY <1>1
  <2>. QED
    BY <2>2, <2>3, <2>4 DEF Flooded
<1>. HIDE DEF S, h
<1>9. core \in [Nodes -> Cores] /\ core' \in [Nodes -> Cores] /\ core'[n] = e
      /\ \A k \in Nodes \ {n} : core'[k] = core[k]
  BY <1>1, <1>6, Before DEF CoreOK
<1>10. ASSUME NEW k \in Nodes
       PROVE  /\ CoreOK(k, core'[k]) /\ WaitingIn(core'[k], S)
              /\ Blameless(k, core'[k], wire', excused)
              /\ FairCore(k, core'[k], excused)
  <2>1. CASE k = n
    <3>1. wire \cup Sending(n, c, s, targets) = wire'
      BY <1>1
    <3>. QED
      BY <1>6, <1>9, <2>1, <3>1
  <2>2. CASE k # n
    <3>1. core'[k] = core[k]
      BY <1>9, <2>2
    <3>2. WaitingIn(core[k], S)
      BY Before DEF WaitingIn, S
    <3>3. Blameless(k, core[k], wire', excused)
      <4>1. wire \subseteq wire'
        BY <1>1
      <4>. QED
        BY <4>1, Before, BlamelessMore
    <3>. QED
      BY <3>1, <3>2, <3>3, Before
  <2>. QED
    BY <2>1, <2>2
<1>11. ~up => \A a \in Nodes : core'[Mover].confirming[a] = None
  BY <1>1, <1>9, Before, EmptyHanded
<1>12. WireOK(wire', S) /\ \A d \in wire' : d.kind # "advert"
  BY <1>1, <1>7
<1>13. MeshTypes' /\ CulpritsInv'
  BY <1>1, <1>8, <1>9, <1>10, <1>11, <1>12, NetworkStep
<1>14. Calm
  BY <1>1, <1>2, <1>6, <1>9, <1>12 DEF Calm, Others
<1>. QED
  BY <1>13, <1>14

\* A shred arrives (handle_frame).
LEMMA HandleShredKeeps ==
  ASSUME MeshTypes, CulpritsInv, NEW d \in wire, HandleShred(d)
  PROVE  MeshTypes' /\ CulpritsInv' /\ Calm
<1>. DEFINE n == d.to
            s == d.shred
            cc == Met(d)
            c == cc[n]
            rank == flood[s].rank
            after == [c EXCEPT !.seen = @ \cup {s}]
            targets == RetransmitPeers(rank, n, UsablePeers(n, c) \ ({d.from} \cap c.conn))
            e == Sent(n, after, rank, s, targets)
            b == Agrees(n, c, flood[s].members)
            F == Flooded(flood)
            more == Sending(n, after, s, targets)
<1>1. /\ d.kind = "shred" /\ Runs(n)
      /\ UNCHANGED <<moverVars, ticks, losses, missed, excused>>
  BY DEF HandleShred, Arrives
<1>2. /\ n \in Nodes
      /\ Followed(cc, wire \ {d}) /\ WireOK(Arrival(d), F)
      /\ wire \ {d} \subseteq Arrival(d)
      /\ \A a \in Arrival(d) : a.kind = "advert" => a \in wire \ {d}
  BY <1>1, MetKeeps
<1>3. s \in Shreds /\ s \in F /\ flood[s] # None
  <2>1. WireOK(wire, F)
    BY Before
  <2>. QED
    BY <1>1, <2>1 DEF WireOK, Flooded
<1>4. \A k \in Nodes : Blameless(k, cc[k], Arrival(d), excused)
  <2>. HIDE DEF cc
  <2>. QED
    BY <1>2, BlamelessMore DEF Followed
<1>5. \A a \in Arrival(d) : a.kind = "advert" => Fair(a.advert.addr, excused)
  BY <1>2, Before
<1>6. \A a : a.kind = "advert" => (a \in Arrival(d) <=> a \in wire)
  BY <1>1, <1>2
<1>7. CASE s \in c.seen
  <2>1. core' = cc /\ wire' = Arrival(d) /\ flood' = flood
    BY <1>7 DEF HandleShred
  <2>. HIDE DEF cc, F
  <2>2. ~up => \A a \in Nodes : core'[Mover].confirming[a] = None
    BY <1>2, <2>1, Before, EmptyHanded DEF Followed
  <2>3. flood \in [Shreds -> Floods \cup {None}]
    BY Before
  <2>4. F = Flooded(flood')
    BY <2>1 DEF F
  <2>5. \A k \in Nodes : /\ CoreOK(k, core'[k]) /\ WaitingIn(core'[k], F)
                         /\ Blameless(k, core'[k], wire', excused)
                         /\ FairCore(k, core'[k], excused)
    BY <1>2, <1>4, <2>1 DEF Followed, F
  <2>6. core' \in [Nodes -> Cores]
    BY <1>2, <2>1 DEF Followed
  <2>7. WireOK(wire', F)
    BY <1>2, <2>1
  <2>8. MeshTypes' /\ CulpritsInv'
    BY <1>1, <1>5, <2>1, <2>2, <2>3, <2>4, <2>5, <2>6, <2>7, NetworkStep
  <2>9. Calm
    BY <1>2, <1>6, <2>1 DEF Calm, Followed, Others
  <2>. QED
    BY <2>8, <2>9
<1>8. CASE s \notin c.seen
  <2>1. /\ core' = [cc EXCEPT ![n] = e] /\ wire' = Arrival(d) \cup more
        /\ flood' = [flood EXCEPT ![s].clean = @ /\ b]
    BY <1>8 DEF HandleShred
  <2>2. rank \in Ranks
    BY <1>3, Before DEF Floods
  <2>. HIDE DEF rank
  <2>3. /\ CoreOK(n, c) /\ WaitingIn(c, F) /\ Blameless(n, c, Arrival(d), excused)
        /\ FairCore(n, c, excused)
    <3>. HIDE DEF cc
    <3>. QED
      BY <1>2, <1>4 DEF Followed
  <2>4. /\ CoreOK(n, after) /\ WaitingIn(after, F)
        /\ Blameless(n, after, Arrival(d), excused) /\ FairCore(n, after, excused)
        /\ after.conn = c.conn /\ after.gossip = c.gossip
    <3>. HIDE DEF c, F, s
    <3>. QED
      BY <1>3, <2>3, SeenKeeps
  <2>5. targets \in SUBSET (Nodes \ {n})
    <3>. DEFINE peers == UsablePeers(n, c) \ ({d.from} \cap c.conn)
    <3>1. peers \in SUBSET Nodes
      <4>. HIDE DEF c, n
      <4>. QED
        BY <1>2, <2>3, UsableNodes DEF CoreOK
    <3>. HIDE DEF peers
    <3>2. RetransmitPeers(rank, n, peers) \subseteq Nodes \ {n}
      BY <1>2, <2>2, <3>1, NotToItself
    <3>. QED
      BY <3>2 DEF peers
  <2>. HIDE DEF after, targets
  <2>6. /\ CoreOK(n, e) /\ WaitingIn(e, F) /\ FairCore(n, e, excused)
        /\ Blameless(n, e, Arrival(d) \cup more, excused)
        /\ e.conn = after.conn /\ e.gossip = after.gossip
    <3>. HIDE DEF F, s, n, more
    <3>1. /\ CoreOK(n, e) /\ WaitingIn(e, F) /\ FairCore(n, e, excused)
          /\ Blameless(n, e, Arrival(d) \cup Sending(n, after, s, targets), excused)
      BY <1>2, <1>3, <2>2, <2>4, <2>5, SentKeeps
    <3>2. e.conn = after.conn /\ e.gossip = after.gossip
      BY <1>2, <1>3, <2>2, <2>4, <2>5, SentFields DEF CoreOK
    <3>. QED
      BY <3>1, <3>2 DEF more
  <2>7. WireOK(more, F) /\ \A a \in more : a.kind # "advert"
    <3>. HIDE DEF F, s, n
    <3>. QED
      BY <1>2, <1>3, <2>4, <2>5, SendingFits
  <2>8. flood' \in [Shreds -> Floods \cup {None}] /\ Flooded(flood') = F
    <3>1. b \in BOOLEAN
      BY DEF Agrees
    <3>2. flood \in [Shreds -> Floods \cup {None}]
      BY Before
    <3>. DEFINE g == flood'
                h == [flood[s] EXCEPT !.clean = flood[s].clean /\ b]
    <3>3. g = [flood EXCEPT ![s] = h]
      BY <2>1
    <3>. HIDE DEF b, s, g
    <3>4. h \in Floods
      BY <1>3, <3>1, <3>2 DEF Floods
    <3>. HIDE DEF h
    <3>5. g \in [Shreds -> Floods \cup {None}] /\ Flooded(g) = Flooded(flood)
      BY <1>3, <3>2, <3>3, <3>4, FloodJoined
    <3>. QED
      BY <3>5 DEF F, g
  <2>. HIDE DEF e, more, b
  <2>9. core' \in [Nodes -> Cores] /\ core'[n] = e /\ \A k \in Nodes \ {n} : core'[k] = cc[k]
    <3>. HIDE DEF cc
    <3>. QED
      BY <1>2, <2>1, <2>6 DEF Followed, CoreOK
  <2>. HIDE DEF cc
  <2>10. ASSUME NEW k \in Nodes
         PROVE  /\ CoreOK(k, core'[k]) /\ WaitingIn(core'[k], F)
                /\ Blameless(k, core'[k], wire', excused)
                /\ FairCore(k, core'[k], excused)
    <3>1. CASE k = n
      BY <2>1, <2>6, <2>9, <3>1
    <3>2. CASE k # n
      <4>1. core'[k] = cc[k]
        BY <2>9, <3>2
      <4>2. Blameless(k, cc[k], Arrival(d) \cup more, excused)
        <5>1. Arrival(d) \subseteq Arrival(d) \cup more
          OBVIOUS
        <5>. QED
          BY <1>4, <5>1, BlamelessMore
      <4>. QED
        BY <1>2, <2>1, <4>1, <4>2 DEF Followed, F
    <3>. QED
      BY <3>1, <3>2
  <2>11. ~up => \A a \in Nodes : core'[Mover].confirming[a] = None
    BY <1>1, <1>2, <2>9, Before, EmptyHanded DEF Followed, Runs
  <2>12. WireOK(wire', F)
    BY <1>2, <2>1, <2>7 DEF WireOK
  <2>13. \A a \in wire' : a.kind = "advert" => Fair(a.advert.addr, excused)
    BY <1>5, <2>1, <2>7
  <2>. HIDE DEF F
  <2>14. MeshTypes' /\ CulpritsInv'
    BY <1>1, <2>8, <2>9, <2>10, <2>11, <2>12, <2>13, NetworkStep
  <2>15. Calm
    <3>1. \A k \in Nodes : /\ core'[k].gossip = core[k].gossip
                           /\ core[k].conn \subseteq core'[k].conn
      BY <1>2, <2>4, <2>6, <2>9 DEF Followed
    <3>. QED
      BY <1>6, <2>1, <2>7, <3>1 DEF Calm, Others
  <2>. QED
    BY <2>14, <2>15
<1>. QED
  BY <1>7, <1>8

\* A node with another entry about Mover is otherwise what it was.
LEMMA GossipKeeps ==
  ASSUME NEW n, NEW c, CoreOK(n, c), NEW w, NEW x, Blameless(n, c, w, x),
         NEW S, WaitingIn(c, S),
         NEW g \in [advert : Adverts \cup {None}, age : 0 .. Ttl + 1] \cup {None},
         n # Mover /\ g # None => g.advert \in Adverts /\ Fair(g.advert.addr, x),
         NEW e, e = [c EXCEPT !.gossip = g]
  PROVE  /\ CoreOK(n, e) /\ Blameless(n, e, w, x) /\ FairCore(n, e, x) /\ WaitingIn(e, S)
         /\ e.gossip = g /\ e.conn = c.conn /\ e.confirming = c.confirming
<1>1. c \in Cores
  BY DEF CoreOK
<1>2. /\ e \in Cores /\ e.gossip = g /\ e.conn = c.conn /\ e.confirming = c.confirming
      /\ e.pending = c.pending /\ e.quarantined = c.quarantined
  BY <1>1 DEF Cores
<1>. QED
  BY <1>2 DEF CoreOK, Blameless, FairCore, WaitingIn

\* A datagram about Mover leaves an entry with the node it is for.
LEMMA GossipArrives ==
  ASSUME MeshTypes, CulpritsInv, NEW d \in wire, d.kind # "dial", Arrives(d),
         NEW g \in [advert : Adverts \cup {None}, age : 0 .. Ttl + 1] \cup {None},
         d.to # Mover /\ g # None => g.advert \in Adverts /\ Fair(g.advert.addr, excused),
         core' = [Met(d) EXCEPT ![d.to].gossip = g], UNCHANGED flood,
         Arrival(d) \subseteq wire', WireOK(wire', Flooded(flood)),
         \A a \in wire' : a.kind = "advert" => Fair(a.advert.addr, excused)
  PROVE  /\ MeshTypes' /\ CulpritsInv'
         /\ core'[d.to].gossip = g
         /\ \A k \in Nodes : /\ k # d.to => core'[k].gossip = core[k].gossip
                            /\ core[k].conn \subseteq core'[k].conn
<1>. DEFINE n == d.to
            cc == Met(d)
            e == [cc[n] EXCEPT !.gossip = g]
            F == Flooded(flood)
<1>1. Runs(n) /\ UNCHANGED <<moverVars, ticks, losses, missed, excused>>
  BY DEF Arrives
<1>2. n \in Nodes /\ Followed(cc, wire \ {d}) /\ wire \ {d} \subseteq Arrival(d)
  BY MetKeeps
<1>3. core' = [cc EXCEPT ![n] = e]
  OBVIOUS
<1>. HIDE DEF cc
<1>4. \A k \in Nodes : /\ CoreOK(k, cc[k]) /\ WaitingIn(cc[k], F)
                       /\ Blameless(k, cc[k], wire', excused) /\ FairCore(k, cc[k], excused)
  <2>. DEFINE w == wire'
  <2>1. wire \ {d} \subseteq w
    BY <1>2
  <2>. HIDE DEF w
  <2>2. \A k \in Nodes : Blameless(k, cc[k], w, excused)
    BY <1>2, <2>1, BlamelessMore DEF Followed
  <2>. QED
    BY <1>2, <2>2 DEF Followed, w
<1>5. /\ CoreOK(n, e) /\ WaitingIn(e, F) /\ Blameless(n, e, wire', excused)
      /\ FairCore(n, e, excused) /\ e.confirming = cc[n].confirming
      /\ e.gossip = g /\ e.conn = cc[n].conn
  <2>. DEFINE w == wire'
              c == cc[n]
  <2>1. /\ CoreOK(n, c) /\ WaitingIn(c, F) /\ Blameless(n, c, w, excused)
    BY <1>2, <1>4
  <2>. HIDE DEF w, F, c, n
  <2>2. /\ CoreOK(n, e) /\ WaitingIn(e, F) /\ Blameless(n, e, w, excused)
        /\ FairCore(n, e, excused) /\ e.confirming = c.confirming
        /\ e.gossip = g /\ e.conn = c.conn
    BY <2>1, GossipKeeps DEF c, n
  <2>. QED
    BY <2>2 DEF w, c
<1>. HIDE DEF e
<1>6. core' \in [Nodes -> Cores] /\ core'[n] = e /\ \A k \in Nodes \ {n} : core'[k] = cc[k]
  <2>1. cc \in [Nodes -> Cores] /\ e \in Cores
    BY <1>2, <1>5 DEF Followed, CoreOK
  <2>. HIDE DEF n
  <2>. QED
    BY <1>2, <1>3, <2>1
<1>7. \A k \in Nodes : /\ CoreOK(k, core'[k]) /\ WaitingIn(core'[k], F)
                       /\ Blameless(k, core'[k], wire', excused)
                       /\ FairCore(k, core'[k], excused)
  <2>. HIDE DEF n
  <2>. QED
    BY <1>4, <1>5, <1>6
<1>8. ~up => \A a \in Nodes : core'[Mover].confirming[a] = None
  BY <1>1, <1>2, <1>6, Before, EmptyHanded DEF Followed, Runs
<1>9. flood' \in [Shreds -> Floods \cup {None}] /\ F = Flooded(flood')
  BY Before
<1>. HIDE DEF F
<1>10. WireOK(wire', F)
  BY DEF F
<1>11. MeshTypes' /\ CulpritsInv'
  BY <1>1, <1>6, <1>7, <1>8, <1>9, <1>10, NetworkStep
<1>12. /\ core'[n].gossip = g
       /\ \A k \in Nodes : /\ k # n => core'[k].gossip = core[k].gossip
                          /\ core[k].conn \subseteq core'[k].conn
  <2>1. e.gossip = g /\ e.conn = cc[n].conn
    BY <1>5
  <2>2. \A k \in Nodes : cc[k].gossip = core[k].gossip /\ core[k].conn \subseteq cc[k].conn
    BY <1>2 DEF Followed
  <2>. HIDE DEF n
  <2>. QED
    BY <1>2, <1>6, <2>1, <2>2
<1>. QED
  BY <1>11, <1>12

\* What becomes of an advert that arrives: the node it is for takes it or not,
\* and tells its connections when it is news.
Told(d) ==
  LET n == d.to
      outcome == Upsert(core[n].gossip, d.advert)
  IN /\ core'[n].gossip = IF outcome = "Stale" THEN core[n].gossip ELSE Entry(d.advert)
     /\ \A k \in Nodes : k # n => core'[k].gossip = core[k].gossip
     /\ \A k \in Nodes : core[k].conn \subseteq core'[k].conn
     /\ wire \ {d} \subseteq wire'
     /\ \A a \in wire' : a.kind = "advert" =>
          \/ a \in wire \ {d}
          \/ /\ outcome = "Accepted" /\ a.from = n /\ a.advert = d.advert
     /\ outcome = "Accepted" => \A p \in core[n].conn \ {Mover, d.from} :
                                  \E a \in wire' : a.kind = "advert" /\ a.to = p

\* An advert arrives (handle_frame, LightbringerGossip::upsert).
LEMMA HandleAdvertKeeps ==
  ASSUME MeshTypes, CulpritsInv, NEW d \in wire, HandleAdvert(d)
  PROVE  MeshTypes' /\ CulpritsInv' /\ Told(d)
<1>. DEFINE n == d.to
            cc == Met(d)
            c == cc[n]
            outcome == Upsert(c.gossip, d.advert)
            F == Flooded(flood)
            more == IF outcome # "Accepted" THEN {}
                    ELSE {[d EXCEPT !.from = n, !.to = p] : p \in c.conn \ {Mover, d.from}}
<1>1. /\ d.kind = "advert" /\ Arrives(d) /\ flood' = flood
      /\ core' = IF outcome = "Stale" THEN cc ELSE [cc EXCEPT ![n].gossip = Entry(d.advert)]
      /\ wire' = Arrival(d) \cup more
  BY DEF HandleAdvert
<1>2. d \in [kind : {"advert"}, from : Nodes, to : Others, advert : Adverts]
  <2>1. d \in Messages
    BY Before DEF WireOK
  <2>. QED
    BY <1>1, <2>1 DEF Messages
<1>3. n \in Nodes /\ n # Mover /\ d.advert \in Adverts /\ Fair(d.advert.addr, excused)
  BY <1>1, <1>2, Before DEF Others
<1>4. /\ Followed(cc, wire \ {d}) /\ WireOK(Arrival(d), F) /\ wire \ {d} \subseteq Arrival(d)
      /\ \A a \in Arrival(d) : a.kind = "advert" => a \in wire \ {d}
  BY <1>1, MetKeeps
<1>. HIDE DEF cc
<1>5. c \in Cores /\ c.conn \subseteq Nodes /\ n \notin c.conn
  BY <1>3, <1>4, CoreFields DEF Followed, CoreOK
<1>6. c.gossip = core[n].gossip /\ core[n].conn \subseteq c.conn
  BY <1>3, <1>4 DEF Followed
<1>7. ASSUME NEW a \in more
      PROVE  /\ a \in Messages /\ a.kind = "advert" /\ a.from # a.to
             /\ a.advert = d.advert /\ a.from = n /\ outcome = "Accepted"
  <2>1. PICK p \in c.conn \ {Mover, d.from} : a = [d EXCEPT !.from = n, !.to = p]
    BY DEF more
  <2>2. a = [kind |-> "advert", from |-> n, to |-> p, advert |-> d.advert]
    BY <1>2, <2>1
  <2>3. p \in Others /\ p # n
    BY <1>5, <2>1 DEF Others
  <2>. HIDE DEF n
  <2>. QED
    BY <1>3, <2>2, <2>3 DEF Messages, more
<1>8. outcome = "Accepted" => \A p \in core[n].conn \ {Mover, d.from} :
                                \E a \in wire' : a.kind = "advert" /\ a.to = p
  <2>. SUFFICES ASSUME outcome = "Accepted", NEW p \in core[n].conn \ {Mover, d.from}
                PROVE  \E a \in wire' : a.kind = "advert" /\ a.to = p
    OBVIOUS
  <2>1. PICK a \in more : a = [d EXCEPT !.from = n, !.to = p]
    BY <1>6
  <2>2. a = [kind |-> "advert", from |-> n, to |-> p, advert |-> d.advert]
    BY <1>2, <2>1
  <2>3. a.kind = "advert" /\ a.to = p
    BY <2>2
  <2>. HIDE DEF more
  <2>. QED
    BY <1>1, <2>1, <2>3
<1>. HIDE DEF more
<1>9. WireOK(wire', F)
  BY <1>1, <1>4, <1>7 DEF WireOK
<1>10. \A a \in wire' : a.kind = "advert" => Fair(a.advert.addr, excused)
  BY <1>1, <1>3, <1>4, <1>7, Before
<1>11. /\ MeshTypes' /\ CulpritsInv'
       /\ core'[n].gossip = IF outcome = "Stale" THEN core[n].gossip ELSE Entry(d.advert)
       /\ \A k \in Nodes : /\ k # n => core'[k].gossip = core[k].gossip
                          /\ core[k].conn \subseteq core'[k].conn
  <2>1. CASE outcome = "Stale"
    <3>. DEFINE g == c.gossip
    <3>1. core' = [cc EXCEPT ![n].gossip = g]
      <4>1. cc \in [Nodes -> Cores] /\ core' = cc
        BY <1>1, <1>4, <2>1 DEF Followed
      <4>2. [c EXCEPT !.gossip = c.gossip] = c
        BY <1>5 DEF Cores
      <4>. QED
        BY <4>1, <4>2
    <3>2. /\ g \in [advert : Adverts \cup {None}, age : 0 .. Ttl + 1] \cup {None}
          /\ g # None => g.advert \in Adverts /\ Fair(g.advert.addr, excused)
      BY <1>3, <1>4, <1>5, CoreFields DEF Followed, CoreOK, FairCore
    <3>. HIDE DEF g, F
    <3>3. /\ MeshTypes' /\ CulpritsInv' /\ core'[n].gossip = g
          /\ \A k \in Nodes : /\ k # n => core'[k].gossip = core[k].gossip
                             /\ core[k].conn \subseteq core'[k].conn
      BY <1>1, <1>9, <1>10, <3>1, <3>2, GossipArrives DEF cc, F
    <3>. QED
      BY <2>1, <1>6, <3>3 DEF g
  <2>2. CASE outcome # "Stale"
    <3>. DEFINE g == Entry(d.advert)
    <3>1. core' = [cc EXCEPT ![n].gossip = g]
      BY <1>1, <2>2
    <3>2. /\ g \in [advert : Adverts \cup {None}, age : 0 .. Ttl + 1] \cup {None}
          /\ g # None => g.advert \in Adverts /\ Fair(g.advert.addr, excused)
      BY <1>3, EmptyHanded DEF Entry
    <3>. HIDE DEF g, F
    <3>3. /\ MeshTypes' /\ CulpritsInv' /\ core'[n].gossip = g
          /\ \A k \in Nodes : /\ k # n => core'[k].gossip = core[k].gossip
                             /\ core[k].conn \subseteq core'[k].conn
      BY <1>1, <1>9, <1>10, <3>1, <3>2, GossipArrives DEF cc, F
    <3>. QED
      BY <2>2, <3>3 DEF g
  <2>. QED
    BY <2>1, <2>2
<1>12. wire \ {d} \subseteq wire' /\ \A a \in wire' : a.kind = "advert" =>
        \/ a \in wire \ {d}
        \/ /\ outcome = "Accepted" /\ a.from = n /\ a.advert = d.advert
  BY <1>1, <1>4, <1>7
<1>13. outcome = Upsert(core[n].gossip, d.advert)
  BY <1>6
<1>. HIDE DEF outcome
<1>. QED
  BY <1>8, <1>11, <1>12, <1>13 DEF Told

\* The roster arrives.
LEMMA HandleRosterKeeps ==
  ASSUME MeshTypes, CulpritsInv, NEW d \in wire, HandleRoster(d)
  PROVE  MeshTypes' /\ CulpritsInv' /\ Calm
<1>. DEFINE g == Entry(None)
<1>1. /\ d.kind = "roster" /\ Arrives(d) /\ flood' = flood
      /\ core' = [Met(d) EXCEPT ![Mover].gossip = g] /\ wire' = Arrival(d)
  BY DEF HandleRoster
<1>2. d.to = Mover
  <2>1. d \in Messages
    BY Before DEF WireOK
  <2>. QED
    BY <1>1, <2>1 DEF Messages
<1>3. g \in [advert : Adverts \cup {None}, age : 0 .. Ttl + 1]
  BY EmptyHanded DEF Entry
<1>4. /\ WireOK(Arrival(d), Flooded(flood)) /\ wire \ {d} \subseteq Arrival(d)
      /\ \A a \in Arrival(d) : a.kind = "advert" => a \in wire \ {d}
  BY <1>1, MetKeeps
<1>5. \A a \in wire' : a.kind = "advert" => Fair(a.advert.addr, excused)
  BY <1>1, <1>4, Before
<1>. HIDE DEF g
<1>6. /\ MeshTypes' /\ CulpritsInv'
      /\ \A k \in Nodes : /\ k # Mover => core'[k].gossip = core[k].gossip
                         /\ core[k].conn \subseteq core'[k].conn
  BY <1>1, <1>2, <1>3, <1>4, <1>5, GossipArrives
<1>7. Calm
  BY <1>1, <1>4, <1>6 DEF Calm, Others
<1>. QED
  BY <1>6, <1>7

\* A message of the wire.
LEMMA OnWire ==
  ASSUME MeshTypes, NEW d \in wire
  PROVE  /\ d \in Messages /\ d.from \in Nodes /\ d.to \in Nodes
         /\ d.kind = "dial" => d = Dial(d.from, d.to)
         /\ d.kind # "dial" => d.from # d.to
         /\ d.kind = "advert" => d.to # Mover /\ d.advert \in Adverts
<1>1. d \in Messages /\ (d.kind # "dial" => d.from # d.to)
  BY DEF MeshTypes, WireOK
<1>2. Others \subseteq Nodes /\ Mover \in Nodes /\ Mover \notin Others
  BY EmptyHanded DEF Others
<1>3. CASE d \in [kind : {"dial"}, from : Nodes, to : Nodes]
  BY <1>1, <1>3 DEF Dial
<1>4. CASE d \in [kind : {"shred"}, from : Nodes, to : Nodes, shred : Shreds]
  BY <1>1, <1>4
<1>5. CASE d \in [kind : {"advert"}, from : Nodes, to : Others, advert : Adverts]
  BY <1>1, <1>2, <1>5
<1>6. CASE d \in [kind : {"roster"}, from : Others, to : {Mover}]
  BY <1>1, <1>2, <1>6
<1>. QED
  BY <1>1, <1>3, <1>4, <1>5, <1>6 DEF Messages

\* With less on the wire, all there is fits.
LEMMA WireLess ==
  ASSUME NEW w, NEW S, WireOK(w, S), NEW v, v \subseteq w
  PROVE  WireOK(v, S)
BY DEF WireOK

\* A dial is answered.
LEMMA AnswerDialKeeps ==
  ASSUME MeshTypes, CulpritsInv, NEW d \in wire, AnswerDial(d)
  PROVE  MeshTypes' /\ CulpritsInv' /\ Calm
<1>. DEFINE n == d.from
            m == d.to
            F == Flooded(flood)
<1>1. /\ d.kind = "dial" /\ n # m
      /\ core' = IF m \in core[n].conn THEN core ELSE Connected(n, m)
      /\ wire' = (wire \ {d}) \cup IF m \in core[n].conn THEN {} ELSE Deferred(n, m)
      /\ flood' = flood /\ UNCHANGED <<moverVars, ticks, losses, missed, excused>>
  BY DEF AnswerDial
<1>2. n \in Nodes /\ m \in Nodes /\ d = Dial(n, m)
  BY <1>1, OnWire
<1>3. WireOK(wire \ {d}, F)
  <2>1. WireOK(wire, F) /\ wire \ {d} \subseteq wire
    BY Before
  <2>. HIDE DEF F
  <2>. QED
    BY <2>1, WireLess
<1>4. CASE m \in core[n].conn
  <2>1. core' = core /\ wire' = wire \ {d}
    BY <1>1, <1>4
  <2>2. ASSUME NEW k \in Nodes PROVE Blameless(k, core[k], wire \ {d}, excused)
    <3>1. \A a \in Nodes : Dial(k, a) = d => k = n /\ a = m
      BY <1>2 DEF Dial
    <3>2. Blameless(k, core[k], wire, excused)
      BY Before
    <3>. HIDE DEF n, m
    <3>. QED
      BY <1>4, <3>1, <3>2 DEF Blameless
  <2>3. MeshTypes' /\ CulpritsInv'
    BY <1>1, <1>3, <2>1, <2>2, Before, NetworkStep
  <2>4. Calm
    BY <1>1, <2>1 DEF Calm
  <2>. QED
    BY <2>3, <2>4
<1>5. CASE m \notin core[n].conn
  <2>. DEFINE cc == Connected(n, m)
  <2>1. core' = cc /\ wire' = (wire \ {d}) \cup Deferred(n, m)
    BY <1>1, <1>5
  <2>2. Followed(cc, wire \ {Dial(n, m), Dial(m, n)})
    BY <1>1, <1>2, ConnectedKeeps
  <2>3. WireOK(Deferred(n, m), F) /\ \A b \in Deferred(n, m) : b.kind = "shred"
    BY <1>1, <1>2, DeferredFits
  <2>. HIDE DEF cc
  <2>4. \A k \in Nodes : Blameless(k, cc[k], wire', excused)
    <3>. DEFINE w == wire'
                v == wire \ {Dial(n, m), Dial(m, n)}
    <3>1. v \subseteq w
      BY <1>2, <2>1
    <3>2. \A k \in Nodes : Blameless(k, cc[k], v, excused)
      BY <2>2 DEF Followed
    <3>. HIDE DEF v, w
    <3>3. \A k \in Nodes : Blameless(k, cc[k], w, excused)
      BY <3>1, <3>2, BlamelessMore
    <3>. QED
      BY <3>3 DEF w
  <2>5. \A k \in Nodes : /\ CoreOK(k, core'[k]) /\ WaitingIn(core'[k], F)
                         /\ Blameless(k, core'[k], wire', excused)
                         /\ FairCore(k, core'[k], excused)
    BY <2>1, <2>2, <2>4 DEF Followed
  <2>6. core' \in [Nodes -> Cores]
    BY <2>1, <2>2 DEF Followed
  <2>7. WireOK(wire', F)
    BY <1>3, <2>1, <2>3 DEF WireOK
  <2>8. \A b \in wire' : b.kind = "advert" => Fair(b.advert.addr, excused)
    BY <2>1, <2>3, Before
  <2>9. ~up => \A a \in Nodes : core'[Mover].confirming[a] = None
    BY <2>1, <2>2, Before, EmptyHanded DEF Followed
  <2>10. flood' \in [Shreds -> Floods \cup {None}] /\ F = Flooded(flood')
    BY <1>1, Before
  <2>. HIDE DEF F
  <2>11. MeshTypes' /\ CulpritsInv'
    BY <1>1, <2>5, <2>6, <2>7, <2>8, <2>9, <2>10, NetworkStep
  <2>12. Calm
    BY <1>1, <2>1, <2>2, <2>3 DEF Calm, Followed, Others
  <2>. QED
    BY <2>11, <2>12
<1>. QED
  BY <1>4, <1>5

\* A message vanishes because nobody is there.
LEMMA VanishKeeps ==
  ASSUME MeshTypes, CulpritsInv, NEW d \in wire, Vanish(d)
  PROVE  MeshTypes' /\ CulpritsInv'
<1>1. /\ \/ ~Runs(d.to)
         \/ ~Runs(d.from) /\ d.from \notin core[d.to].conn
         \/ d.from = d.to
      /\ wire' = wire \ {d} /\ core' = core /\ flood' = flood
      /\ UNCHANGED <<moverVars, ticks, losses, missed, excused>>
  BY DEF Vanish
<1>2. WireOK(wire \ {d}, Flooded(flood))
  <2>. DEFINE F == Flooded(flood)
  <2>1. WireOK(wire, F) /\ wire \ {d} \subseteq wire
    BY Before
  <2>. HIDE DEF F
  <2>2. WireOK(wire \ {d}, F)
    BY <2>1, WireLess
  <2>. QED
    BY <2>2 DEF F
<1>3. ASSUME NEW k \in Nodes PROVE Blameless(k, core[k], wire \ {d}, excused)
  <2>1. Blameless(k, core[k], wire, excused)
    BY Before
  <2>2. CASE d.kind # "dial"
    BY <2>1, <2>2, BlamelessLess
  <2>3. CASE d.kind = "dial"
    <3>1. d = Dial(d.from, d.to) /\ d.from \in Nodes /\ d.to \in Nodes
      BY <2>3, OnWire
    <3>2. \A a \in Nodes : Dial(k, a) = d => k = d.from /\ a = d.to
      BY <3>1 DEF Dial
    <3>3. CASE ~Runs(d.to)
      <4>1. d.to \in excused
        BY <3>3, Before DEF Runs
      <4>. QED
        BY <2>1, <3>2, <4>1 DEF Blameless
    <3>4. CASE ~Runs(d.from)
      <4>1. \A a \in Nodes : core[d.from].confirming[a] = None
        BY <3>4, Before DEF Runs
      <4>. QED
        BY <2>1, <3>2, <4>1 DEF Blameless
    <3>5. CASE d.from = d.to
      BY <2>1, <3>2, <3>5 DEF Blameless
    <3>. QED
      BY <1>1, <3>3, <3>4, <3>5
  <2>. QED
    BY <2>2, <2>3
<1>. QED
  BY <1>1, <1>2, <1>3, Before, NetworkStep

\* A message is lost.
LEMMA LoseKeeps ==
  ASSUME MeshTypes, CulpritsInv, NEW d \in wire, Lose(d)
  PROVE  MeshTypes' /\ CulpritsInv'
<1>. DEFINE x == excused'
            F == Flooded(flood)
<1>1. /\ Faults < MaxFaults /\ wire' = wire \ {d} /\ losses' = losses + 1 /\ missed' = TRUE
      /\ flood' = Disturbed(flood) /\ core' = core
      /\ x = IF d.kind = "dial" THEN excused \cup {d.to} ELSE excused
      /\ UNCHANGED <<up, claim, boot, seq, since, ticks>>
  BY DEF Lose, moverVars
<1>2. d.from \in Nodes /\ d.to \in Nodes /\ (d.kind = "dial" => d = Dial(d.from, d.to))
  BY OnWire
<1>3. excused \subseteq x /\ x \subseteq Nodes
  BY <1>1, <1>2 DEF MeshTypes, CountsInv
<1>4. CountsInv'
  BY <1>1, <1>3, EmptyHanded DEF MeshTypes, CountsInv, Faults
<1>5. flood' \in [Shreds -> Floods \cup {None}] /\ Flooded(flood') = F
  BY <1>1, Before, FloodKept
<1>. HIDE DEF x, F
<1>6. WireOK(wire \ {d}, F)
  <2>1. WireOK(wire, F) /\ wire \ {d} \subseteq wire
    BY Before DEF F
  <2>. QED
    BY <2>1, WireLess
<1>7. ASSUME NEW k \in Nodes
      PROVE  Blameless(k, core[k], wire \ {d}, x) /\ FairCore(k, core[k], x)
  <2>1. Blameless(k, core[k], wire, excused) /\ FairCore(k, core[k], excused)
    BY Before
  <2>2. FairCore(k, core[k], x)
    BY <1>3, <2>1 DEF FairCore, Fair
  <2>3. CASE d.kind = "dial"
    <3>1. \A a \in Nodes : Dial(k, a) = d => a = d.to
      BY <1>2, <2>3 DEF Dial
    <3>2. Blameless(k, core[k], wire \ {d}, x)
      BY <1>1, <1>3, <2>1, <2>3, <3>1 DEF Blameless
    <3>. QED
      BY <2>2, <3>2
  <2>4. CASE d.kind # "dial"
    <3>1. Blameless(k, core[k], wire \ {d}, excused)
      BY <2>1, <2>4, BlamelessLess
    <3>. QED
      BY <1>1, <2>2, <2>4, <3>1
  <2>. QED
    BY <2>3, <2>4
<1>8. MeshTypes'
  BY <1>1, <1>4, <1>5, <1>6 DEF MeshTypes, F
<1>9. CulpritsInv'
  <2>1. \A b \in wire \ {d} : b.kind = "advert" => Fair(b.advert.addr, x)
    BY <1>3, Before DEF Fair
  <2>2. Fair(claim, x)
    BY <1>3 DEF CulpritsInv, Fair
  <2>3. ~up => Mover \in x /\ \A a \in Nodes : core[Mover].confirming[a] = None
    BY <1>3, Before
  <2>. QED
    BY <1>1, <1>7, <2>1, <2>2, <2>3 DEF CulpritsInv, x
<1>. QED
  BY <1>8, <1>9

\* A connection times out.
LEMMA DisconnectKeeps ==
  ASSUME MeshTypes, CulpritsInv, NEW n \in Nodes, NEW m \in Nodes, Disconnect(n, m)
  PROVE  MeshTypes' /\ CulpritsInv'
<1>. DEFINE c == core[n]
            e == [c EXCEPT !.conn = @ \ {m}]
            F == Flooded(flood)
<1>1. /\ core' = [core EXCEPT ![n] = e] /\ flood' = Disturbed(flood) /\ wire' = wire
      /\ UNCHANGED <<moverVars, ticks, losses, missed, excused>>
  BY DEF Disconnect
<1>2. c \in Cores /\ CoreOK(n, c) /\ WaitingIn(c, F) /\ Blameless(n, c, wire, excused)
      /\ FairCore(n, c, excused)
  BY Before
<1>3. flood' \in [Shreds -> Floods \cup {None}] /\ Flooded(flood') = F
  BY <1>1, Before, FloodKept
<1>4. /\ e \in Cores /\ e.conn = c.conn \ {m} /\ e.pending = c.pending
      /\ e.confirming = c.confirming /\ e.quarantined = c.quarantined /\ e.gossip = c.gossip
  <2>. HIDE DEF c
  <2>. QED
    BY <1>2 DEF Cores
<1>. HIDE DEF e, c, F
<1>5. CoreOK(n, e) /\ WaitingIn(e, F) /\ Blameless(n, e, wire, excused)
      /\ FairCore(n, e, excused)
  BY <1>2, <1>4 DEF CoreOK, WaitingIn, Blameless, FairCore
<1>6. core' \in [Nodes -> Cores] /\ core'[n] = e /\ \A k \in Nodes \ {n} : core'[k] = core[k]
  BY <1>1, <1>4, Before
<1>7. \A k \in Nodes : /\ CoreOK(k, core'[k]) /\ WaitingIn(core'[k], F)
                       /\ Blameless(k, core'[k], wire', excused)
                       /\ FairCore(k, core'[k], excused)
  BY <1>1, <1>5, <1>6, Before DEF F
<1>8. ~up => \A a \in Nodes : core'[Mover].confirming[a] = None
  BY <1>4, <1>6, Before, EmptyHanded DEF c
<1>9. WireOK(wire', F)
  BY <1>1, Before DEF F
<1>. QED
  BY <1>1, <1>3, <1>6, <1>7, <1>8, <1>9, Before, NetworkStep

\* A dial was not answered in time.
LEMMA ExpireConfirmKeeps ==
  ASSUME MeshTypes, CulpritsInv, NEW n \in Nodes, NEW addr \in Nodes,
         ExpireConfirm(n, addr)
  PROVE  MeshTypes' /\ CulpritsInv' /\ Calm
<1>. DEFINE c == core[n]
            C == [c.confirming EXCEPT ![addr] = None]
            b == [c EXCEPT !.confirming[addr] = None]
            e == Quarantined(b, addr)
            F == Flooded(flood)
            x == excused'
            slow == Dial(n, addr) \in wire
<1>1. /\ c.confirming[addr] # None /\ (slow => Faults < MaxFaults)
      /\ core' = [core EXCEPT ![n] = e] /\ flood' = Disturbed(flood) /\ wire' = wire
      /\ losses' = IF slow THEN losses + 1 ELSE losses
      /\ x = IF slow THEN excused \cup {addr} ELSE excused
      /\ UNCHANGED <<up, claim, boot, seq, since, ticks, missed>>
  BY DEF ExpireConfirm, moverVars
<1>2. c \in Cores /\ CoreOK(n, c) /\ WaitingIn(c, F) /\ Blameless(n, c, wire, excused)
      /\ FairCore(n, c, excused)
  BY Before
<1>3. flood' \in [Shreds -> Floods \cup {None}] /\ Flooded(flood') = F
  BY <1>1, Before, FloodKept
<1>. HIDE DEF c
<1>4. b = [conn |-> c.conn, pending |-> c.pending, gossip |-> c.gossip, confirming |-> C,
           quarantined |-> c.quarantined, seen |-> c.seen]
  BY <1>2 DEF Cores
<1>5. C \in [Nodes -> Nodes \cup {None}] /\ C[addr] = None
      /\ \A a \in Nodes : a # addr => C[a] = c.confirming[a]
  BY <1>2, CoreFields
<1>. HIDE DEF b, C
<1>6. e = [conn |-> c.conn, pending |-> c.pending, gossip |-> c.gossip, confirming |-> C,
           quarantined |-> c.quarantined \cup {addr}, seen |-> c.seen]
  BY <1>4 DEF Quarantined
<1>7. e \in Cores
  BY <1>2, <1>5, <1>6, CoreFields DEF Cores
<1>8. /\ e.conn = c.conn /\ e.pending = c.pending /\ e.gossip = c.gossip
      /\ e.confirming = C /\ e.quarantined = c.quarantined \cup {addr}
  BY <1>6
<1>. HIDE DEF e
<1>9. excused \subseteq x /\ x \subseteq Nodes
  BY <1>1 DEF MeshTypes, CountsInv
<1>10. CountsInv'
  BY <1>1, <1>9, EmptyHanded DEF MeshTypes, CountsInv, Faults
\* The expectation is that of a dial under way, or of an address excused before.
<1>11. addr \in x
  BY <1>1, <1>2 DEF Blameless
<1>. HIDE DEF F, x, slow
<1>12. ASSUME NEW k \in Nodes
       PROVE  Blameless(k, core[k], wire, x) /\ FairCore(k, core[k], x)
  <2>1. Blameless(k, core[k], wire, excused) /\ FairCore(k, core[k], excused)
    BY Before
  <2>. QED
    BY <1>9, <2>1 DEF Blameless, FairCore, Fair
<1>13. CoreOK(n, e) /\ WaitingIn(e, F) /\ FairCore(n, e, x)
  <2>1. FairCore(n, c, x)
    BY <1>12 DEF c
  <2>. QED
    BY <1>2, <1>7, <1>8, <2>1 DEF CoreOK, WaitingIn, FairCore
<1>14. Blameless(n, e, wire, x)
  <2>1. Blameless(n, c, wire, x)
    BY <1>12 DEF c
  <2>. QED
    BY <1>5, <1>8, <1>11, <2>1 DEF Blameless
<1>15. core' \in [Nodes -> Cores] /\ core'[n] = e /\ \A k \in Nodes \ {n} : core'[k] = core[k]
  BY <1>1, <1>7, Before
<1>16. \A k \in Nodes : /\ CoreOK(k, core'[k]) /\ WaitingIn(core'[k], F)
                        /\ Blameless(k, core'[k], wire, x)
                        /\ FairCore(k, core'[k], x)
  BY <1>12, <1>13, <1>14, <1>15, Before DEF F
<1>17. WireOK(wire, F)
  BY Before DEF F
<1>18. MeshTypes'
  BY <1>1, <1>3, <1>10, <1>15, <1>16, <1>17 DEF MeshTypes
<1>19. CulpritsInv'
  <2>1. \A d \in wire : d.kind = "advert" => Fair(d.advert.addr, x)
    BY <1>9, Before DEF Fair
  <2>2. Fair(claim, x)
    BY <1>9 DEF CulpritsInv, Fair
  <2>3. ~up => Mover \in x /\ \A a \in Nodes : core'[Mover].confirming[a] = None
    BY <1>5, <1>8, <1>9, <1>15, Before, EmptyHanded DEF c
  <2>. QED
    BY <1>1, <1>16, <2>1, <2>2, <2>3 DEF CulpritsInv, x
<1>20. Calm
  BY <1>1, <1>8, <1>15 DEF Calm, Others, c
<1>. QED
  BY <1>18, <1>19, <1>20

-----------------------------------------------------------------------------
(* Intervals, crashes and restarts.                                        *)

\* The counts are within their bounds.
LEMMA CountsFacts ==
  ASSUME CountsInv
  PROVE  /\ boot \in 0 .. MaxFaults /\ losses \in 0 .. MaxFaults
         /\ seq \in 0 .. MaxTicks /\ since \in 0 .. MaxTicks
         /\ claim \in Nodes \cup {None}
BY EmptyHanded DEF CountsInv, Faults

\* What Mover and the others tell in an interval.
LEMMA AdvertiseFits ==
  ASSUME MeshTypes, CulpritsInv, NEW advert \in Adverts, NEW S
  PROVE  /\ WireOK(Advertise(advert), S)
         /\ \A d \in Advertise(advert) :
              d.kind = "advert" => d.advert = advert /\ d.from = Mover
         /\ \E d \in Advertise(advert) : d.kind = "advert" /\ d.to = Static
<1>1. core[Mover].conn \cup {Static} \subseteq Others
  <2>1. CoreOK(Mover, core[Mover]) /\ core[Mover] \in Cores
    BY Before, EmptyHanded
  <2>. QED
    BY <2>1, CoreFields, EmptyHanded DEF CoreOK, Others
<1>2. Mover \in Nodes /\ Mover \notin Others
  BY EmptyHanded DEF Others
<1>3. ASSUME NEW d \in Advertise(advert)
      PROVE  /\ d \in Messages /\ d.from # d.to /\ d.kind \in {"advert", "roster"}
             /\ d.kind = "advert" => d.advert = advert /\ d.from = Mover
  <2>1. CASE \E p \in Others : d = [kind |-> "advert", from |-> Mover, to |-> p, advert |-> advert]
    BY <1>2, <2>1 DEF Messages
  <2>2. CASE \E p \in Others : d = [kind |-> "roster", from |-> p, to |-> Mover]
    BY <1>2, <2>2 DEF Messages
  <2>. QED
    BY <1>1, <2>1, <2>2 DEF Advertise
<1>4. \E d \in Advertise(advert) : d.kind = "advert" /\ d.to = Static
  <2>. DEFINE d == [kind |-> "advert", from |-> Mover, to |-> Static, advert |-> advert]
  <2>1. d \in Advertise(advert)
    BY DEF Advertise
  <2>2. d.kind = "advert" /\ d.to = Static
    OBVIOUS
  <2>. HIDE DEF d
  <2>. QED
    BY <2>1, <2>2
<1>. QED
  BY <1>3, <1>4 DEF WireOK

\* An entry that ages.
LEMMA AgedFits ==
  ASSUME NEW g \in [advert : Adverts \cup {None}, age : 0 .. Ttl + 1] \cup {None}
  PROVE  /\ Aged(g) \in [advert : Adverts \cup {None}, age : 0 .. Ttl + 1] \cup {None}
         /\ Aged(g) = None <=> g = None
         /\ g # None => /\ Aged(g).advert = g.advert
                        /\ Aged(g).age = IF g.age > Ttl THEN g.age ELSE g.age + 1
<1>1. CASE g = None
  BY <1>1 DEF Aged
<1>2. CASE g # None
  <2>. DEFINE h == [g EXCEPT !.age = @ + 1]
  <2>1. g \in [advert : Adverts \cup {None}, age : 0 .. Ttl + 1] /\ Ttl \in Nat
    BY <1>2, EmptyHanded
  <2>2. h.advert = g.advert /\ h.age = g.age + 1
    BY <2>1
  <2>3. g.age <= Ttl => h \in [advert : Adverts \cup {None}, age : 0 .. Ttl + 1]
    BY <2>1
  <2>4. Aged(g) = IF g.age > Ttl THEN g ELSE h
    BY <1>2 DEF Aged
  <2>5. g.age > Ttl \/ g.age <= Ttl
    BY <2>1
  <2>. HIDE DEF h
  <2>. QED
    BY <1>2, <2>1, <2>2, <2>3, <2>4, <2>5, EmptyHanded
<1>. QED
  BY <1>1, <1>2

\* What an interval leaves in the nodes.
LEMMA TickCores ==
  ASSUME MeshTypes, CulpritsInv, Tick
  PROVE  /\ core' \in [Nodes -> Cores]
         /\ \A k \in Nodes :
              /\ core'[k].gossip = Aged(core[k].gossip)
              /\ core'[k].conn = core[k].conn /\ core'[k].pending = core[k].pending
              /\ core'[k].confirming = core[k].confirming
              /\ core'[k].quarantined = core[k].quarantined
<1>1. core' = [k \in Nodes |-> [core[k] EXCEPT !.gossip = Aged(@)]]
  BY DEF Tick
<1>2. ASSUME NEW k \in Nodes
      PROVE  /\ core'[k] \in Cores
             /\ core'[k].gossip = Aged(core[k].gossip)
             /\ core'[k].conn = core[k].conn /\ core'[k].pending = core[k].pending
             /\ core'[k].confirming = core[k].confirming
             /\ core'[k].quarantined = core[k].quarantined
  <2>. DEFINE c == core[k]
              g == Aged(core[k].gossip)
  <2>1. c \in Cores
    BY Before
  <2>2. core'[k] = [c EXCEPT !.gossip = g]
    BY <1>1
  <2>3. g \in [advert : Adverts \cup {None}, age : 0 .. Ttl + 1] \cup {None}
    BY <2>1, AgedFits, CoreFields
  <2>. HIDE DEF c, g
  <2>4. /\ core'[k] \in Cores /\ core'[k].gossip = g
        /\ core'[k].conn = c.conn /\ core'[k].pending = c.pending
        /\ core'[k].confirming = c.confirming /\ core'[k].quarantined = c.quarantined
    BY <2>1, <2>2, <2>3 DEF Cores
  <2>. QED
    BY <2>4 DEF c, g
<1>. QED
  BY <1>1, <1>2

\* An advert interval passes.
LEMMA TickKeeps ==
  ASSUME MeshTypes, CulpritsInv, Tick
  PROVE  MeshTypes' /\ CulpritsInv'
<1>. DEFINE advert == [Advert EXCEPT !.seq = seq + 1]
            F == Flooded(flood)
<1>1. /\ wire = {} /\ \A n, a \in Nodes : core[n].confirming[a] = None
      /\ ticks < MaxTicks /\ ticks' = ticks + 1
      /\ IF up THEN seq' = seq + 1 /\ since' = since + 1 /\ wire' = Advertise(advert)
         ELSE UNCHANGED <<seq, since, wire>>
      /\ flood' = [s \in Shreds |-> IF Settled(s) THEN None ELSE Disturbed(flood)[s]]
      /\ UNCHANGED <<up, claim, boot, losses, missed, excused>>
  BY DEF Tick, Quiet
<1>2. CountsInv /\ CountsInv'
  <2>1. CountsInv
    BY DEF MeshTypes
  <2>2. CASE up
    BY <1>1, <2>1, <2>2, EmptyHanded DEF CountsInv, Faults
  <2>3. CASE ~up
    BY <1>1, <2>1, <2>3, EmptyHanded DEF CountsInv, Faults
  <2>. QED
    BY <2>1, <2>2, <2>3
<1>3. advert \in Adverts /\ advert.addr = claim
  <2>1. advert = [boot |-> boot, seq |-> seq + 1, addr |-> claim]
    BY DEF Advert
  <2>2. seq + 1 \in 0 .. MaxTicks
    BY <1>1, <1>2, EmptyHanded DEF CountsInv
  <2>. QED
    BY <1>2, <2>1, <2>2, CountsFacts DEF Adverts
<1>. HIDE DEF advert
<1>4. \A S : WireOK(wire', S)
  <2>1. CASE up
    BY <1>1, <1>3, <2>1, AdvertiseFits
  <2>2. CASE ~up
    BY <1>1, <2>2 DEF WireOK
  <2>. QED
    BY <2>1, <2>2
<1>5. \A d \in wire' : d.kind = "advert" => Fair(d.advert.addr, excused)
  <2>1. CASE up
    BY <1>1, <1>3, <2>1, AdvertiseFits DEF CulpritsInv
  <2>2. CASE ~up
    BY <1>1, <2>2
  <2>. QED
    BY <2>1, <2>2
<1>6. /\ flood' \in [Shreds -> Floods \cup {None}]
      /\ \A s \in Shreds : ~Settled(s) /\ s \in F => s \in Flooded(flood')
  <2>. DEFINE f == Disturbed(flood)
  <2>1. f \in [Shreds -> Floods \cup {None}] /\ Flooded(f) = F
    BY Before, FloodKept
  <2>2. flood' = [s \in Shreds |-> IF Settled(s) THEN None ELSE f[s]]
    BY <1>1
  <2>. HIDE DEF f, F
  <2>. QED
    BY <2>1, <2>2 DEF Flooded
<1>7. ASSUME NEW k \in Nodes
      PROVE  /\ CoreOK(k, core'[k]) /\ WaitingIn(core'[k], Flooded(flood'))
             /\ Blameless(k, core'[k], wire', excused)
             /\ FairCore(k, core'[k], excused)
  <2>1. /\ core'[k] \in Cores /\ core'[k].gossip = Aged(core[k].gossip)
        /\ core'[k].conn = core[k].conn /\ core'[k].pending = core[k].pending
        /\ core'[k].confirming = core[k].confirming
        /\ core'[k].quarantined = core[k].quarantined
    BY TickCores
  <2>2. /\ CoreOK(k, core[k]) /\ WaitingIn(core[k], F) /\ Blameless(k, core[k], wire, excused)
        /\ FairCore(k, core[k], excused) /\ core[k] \in Cores
    BY Before
  <2>3. /\ Aged(core[k].gossip) = None <=> core[k].gossip = None
        /\ core[k].gossip # None => Aged(core[k].gossip).advert = core[k].gossip.advert
    BY <2>2, AgedFits, CoreFields
  <2>4. CoreOK(k, core'[k]) /\ FairCore(k, core'[k], excused)
    BY <2>1, <2>2, <2>3 DEF CoreOK, FairCore
  <2>5. Blameless(k, core'[k], wire', excused)
    BY <1>1, <2>1, <2>2 DEF Blameless
  <2>6. ASSUME NEW a \in Nodes, core[k].pending[a] # None, NEW s \in core[k].pending[a].shreds
        PROVE  s \in Flooded(flood')
    <3>1. s \in F
      BY <2>2, <2>6 DEF WaitingIn
    <3>2. ~Settled(s)
      BY <2>6 DEF Settled
    <3>3. s \in Shreds
      BY <3>1 DEF Flooded
    <3>. QED
      BY <1>6, <3>1, <3>2, <3>3
  <2>7. WaitingIn(core'[k], Flooded(flood'))
    BY <2>1, <2>6 DEF WaitingIn
  <2>. QED
    BY <2>4, <2>5, <2>7
<1>8. core' \in [Nodes -> Cores]
  BY TickCores
<1>9. MeshTypes'
  BY <1>2, <1>4, <1>6, <1>7, <1>8 DEF MeshTypes
<1>10. CulpritsInv'
  <2>1. \A a \in Nodes : core'[Mover].confirming[a] = None
    BY <1>1, TickCores, EmptyHanded
  <2>. QED
    BY <1>1, <1>5, <1>7, <2>1, Before DEF CulpritsInv
<1>. QED
  BY <1>9, <1>10

\* A core that has just been made.
LEMMA NewFits ==
  /\ OverlayCoreNew \in Cores
  /\ \A n \in Nodes : /\ CoreOK(n, OverlayCoreNew)
                      /\ \A S : WaitingIn(OverlayCoreNew, S)
                      /\ \A w, x : Blameless(n, OverlayCoreNew, w, x)
                      /\ \A x : FairCore(n, OverlayCoreNew, x)
                      /\ OverlayCoreNew.confirming[n] = None
<1>. DEFINE c == OverlayCoreNew
<1>1. c = [conn |-> {}, pending |-> [a \in Nodes |-> None], gossip |-> None,
           confirming |-> [a \in Nodes |-> None], quarantined |-> {}, seen |-> {}]
  BY DEF OverlayCoreNew
<1>. HIDE DEF c
<1>2. /\ c.conn = {} /\ c.pending = [a \in Nodes |-> None] /\ c.gossip = None
      /\ c.confirming = [a \in Nodes |-> None] /\ c.quarantined = {} /\ c.seen = {}
  BY <1>1
<1>3. c \in Cores
  BY <1>1 DEF Cores
<1>4. \A n \in Nodes : /\ CoreOK(n, c) /\ c.confirming[n] = None
                       /\ \A S : WaitingIn(c, S)
                       /\ \A w, x : Blameless(n, c, w, x)
                       /\ \A x : FairCore(n, c, x)
  BY <1>2, <1>3 DEF CoreOK, WaitingIn, Blameless, FairCore
<1>. QED
  BY <1>3, <1>4 DEF c

\* Mover crashes.
LEMMA CrashKeeps ==
  ASSUME MeshTypes, CulpritsInv, Crash
  PROVE  MeshTypes' /\ CulpritsInv'
<1>. DEFINE F == Flooded(flood)
            x == excused'
<1>1. /\ up /\ Faults < MaxFaults /\ up' = FALSE
      /\ core' = [core EXCEPT ![Mover] = OverlayCoreNew] /\ flood' = Disturbed(flood)
      /\ x = excused \cup {Mover}
      /\ UNCHANGED <<claim, boot, seq, since, wire, ticks, losses, missed>>
  BY DEF Crash
<1>2. CountsInv'
  <2>1. CountsInv
    BY DEF MeshTypes
  <2>2. x \subseteq Nodes
    BY <1>1, <2>1, EmptyHanded DEF CountsInv
  <2>3. Faults = losses + boot /\ Faults' = losses + boot + 1
    BY <1>1, <2>1 DEF CountsInv, Faults
  <2>4. Faults' <= MaxFaults
    BY <1>1, <2>1, <2>3, EmptyHanded DEF CountsInv
  <2>. HIDE DEF x
  <2>. QED
    BY <1>1, <2>1, <2>2, <2>4 DEF CountsInv, x
<1>3. flood' \in [Shreds -> Floods \cup {None}] /\ Flooded(flood') = F
  BY <1>1, Before, FloodKept
<1>4. excused \subseteq x /\ Mover \in x
  BY <1>1
<1>. HIDE DEF x, F
<1>5. /\ core' \in [Nodes -> Cores] /\ core'[Mover] = OverlayCoreNew
      /\ \A k \in Nodes \ {Mover} : core'[k] = core[k]
  BY <1>1, Before, NewFits, EmptyHanded
<1>6. ASSUME NEW k \in Nodes
      PROVE  /\ CoreOK(k, core'[k]) /\ WaitingIn(core'[k], F)
             /\ Blameless(k, core'[k], wire, x) /\ FairCore(k, core'[k], x)
  <2>1. CASE k = Mover
    BY <1>5, <2>1, NewFits
  <2>2. CASE k # Mover
    <3>1. core'[k] = core[k]
      BY <1>5, <2>2
    <3>2. Blameless(k, core[k], wire, x)
      BY <1>4, Before, BlamelessMore
    <3>3. FairCore(k, core[k], x)
      BY <1>4, Before DEF FairCore, Fair
    <3>. QED
      BY <3>1, <3>2, <3>3, Before DEF F
  <2>. QED
    BY <2>1, <2>2
<1>7. WireOK(wire, F)
  BY Before DEF F
<1>8. MeshTypes'
  BY <1>1, <1>2, <1>3, <1>5, <1>6, <1>7 DEF MeshTypes
<1>9. CulpritsInv'
  <2>1. \A b \in wire : b.kind = "advert" => Fair(b.advert.addr, x)
    BY <1>4, Before DEF Fair
  <2>2. Fair(claim, x)
    BY <1>4 DEF CulpritsInv, Fair
  <2>3. Mover \in x /\ \A a \in Nodes : core'[Mover].confirming[a] = None
    BY <1>4, <1>5, NewFits
  <2>. QED
    BY <1>1, <1>6, <2>1, <2>2, <2>3 DEF CulpritsInv, x
<1>. QED
  BY <1>8, <1>9

\* Mover restarts.
LEMMA RestartKeeps ==
  ASSUME MeshTypes, CulpritsInv, NEW addr \in Claims, Restart(addr)
  PROVE  MeshTypes' /\ CulpritsInv'
<1>. DEFINE F == Flooded(flood)
            x == excused'
<1>1. /\ ~up /\ up' = TRUE /\ boot' = boot + 1 /\ seq' = 0 /\ since' = 0 /\ missed' = FALSE
      /\ claim' = addr /\ x = excused \cup ({addr} \ {None, Mover})
      /\ UNCHANGED <<core, wire, flood, ticks, losses>>
  BY DEF Restart
<1>2. CountsInv'
  <2>1. CountsInv
    BY DEF MeshTypes
  <2>2. x \subseteq Nodes
    BY <1>1, <2>1, EmptyHanded DEF CountsInv
  <2>3. Faults = losses + boot + 1 /\ Faults' = losses + (boot + 1)
    BY <1>1, <2>1 DEF CountsInv, Faults
  <2>4. Faults' <= MaxFaults /\ boot + 1 \in Nat /\ 0 \in 0 .. ticks
    BY <2>1, <2>3, EmptyHanded DEF CountsInv
  <2>. HIDE DEF x
  <2>. QED
    BY <1>1, <2>1, <2>2, <2>4 DEF CountsInv, x
<1>3. excused \subseteq x /\ Fair(addr, x)
  BY <1>1 DEF Fair
<1>. HIDE DEF x, F
<1>4. MeshTypes'
  BY <1>1, <1>2 DEF MeshTypes
<1>5. CulpritsInv'
  <2>1. \A k \in Nodes : Blameless(k, core[k], wire, x)
    <3>1. \A k \in Nodes : Blameless(k, core[k], wire, excused)
      BY Before
    <3>. QED
      BY <1>3, <3>1, BlamelessMore
  <2>2. \A k \in Nodes : FairCore(k, core[k], x)
    BY <1>3, Before DEF FairCore, Fair
  <2>3. \A b \in wire : b.kind = "advert" => Fair(b.advert.addr, x)
    BY <1>3, Before DEF Fair
  <2>. QED
    BY <1>1, <1>3, <2>1, <2>2, <2>3 DEF CulpritsInv, x
<1>. QED
  BY <1>4, <1>5

\* The first state.
LEMMA InitMesh == Init => MeshTypes /\ CulpritsInv
<1>. SUFFICES ASSUME Init PROVE MeshTypes /\ CulpritsInv
  OBVIOUS
<1>1. /\ up = TRUE /\ claim \in Claims /\ boot = 0 /\ seq = 0 /\ ticks = 0 /\ since = 0
      /\ losses = 0 /\ missed = FALSE /\ wire = {} /\ flood = [s \in Shreds |-> None]
      /\ excused = {claim} \ {None, Mover}
      /\ core = [n \in Nodes |->
                   [OverlayCoreNew EXCEPT !.conn = {m \in Nodes \ {n} : {n, m} \in Links}]]
  BY DEF Init
<1>2. CountsInv
  <2>1. Faults = 0
    BY <1>1 DEF Faults
  <2>2. excused \subseteq Nodes
    BY <1>1, EmptyHanded
  <2>3. /\ boot \in Nat /\ losses \in Nat /\ Faults <= MaxFaults
        /\ ticks \in 0 .. MaxTicks /\ seq \in 0 .. ticks /\ since \in 0 .. ticks
    BY <1>1, <2>1, EmptyHanded
  <2>4. up \in BOOLEAN /\ missed \in BOOLEAN /\ claim \in Claims
    BY <1>1
  <2>. QED
    BY <2>2, <2>3, <2>4 DEF CountsInv
<1>3. ASSUME NEW n \in Nodes
      PROVE  /\ core[n] \in Cores /\ CoreOK(n, core[n])
             /\ \A S : WaitingIn(core[n], S)
             /\ \A w, x : Blameless(n, core[n], w, x)
             /\ \A x : FairCore(n, core[n], x)
  <2>. DEFINE C == {m \in Nodes \ {n} : {n, m} \in Links}
              c == core[n]
  <2>1. c = [OverlayCoreNew EXCEPT !.conn = C]
    BY <1>1
  <2>2. C \subseteq Nodes /\ n \notin C
    OBVIOUS
  <2>. HIDE DEF C, c
  <2>3. c = [conn |-> C, pending |-> [a \in Nodes |-> None], gossip |-> None,
             confirming |-> [a \in Nodes |-> None], quarantined |-> {}, seen |-> {}]
    BY <2>1 DEF OverlayCoreNew
  <2>4. /\ c.conn = C /\ c.pending = [a \in Nodes |-> None] /\ c.gossip = None
        /\ c.confirming = [a \in Nodes |-> None] /\ c.quarantined = {} /\ c.seen = {}
    BY <2>3
  <2>5. c \in Cores
    BY <2>2, <2>3 DEF Cores
  <2>6. /\ CoreOK(n, c) /\ \A S : WaitingIn(c, S)
        /\ \A w, x : Blameless(n, c, w, x)
        /\ \A x : FairCore(n, c, x)
    BY <2>2, <2>4, <2>5 DEF CoreOK, WaitingIn, Blameless, FairCore
  <2>. QED
    BY <2>5, <2>6 DEF c
<1>4. core \in [Nodes -> Cores]
  BY <1>1, <1>3
<1>5. WireOK(wire, Flooded(flood))
  BY <1>1 DEF WireOK
<1>6. MeshTypes
  BY <1>1, <1>2, <1>3, <1>4, <1>5 DEF MeshTypes
<1>7. CulpritsInv
  <2>1. Fair(claim, excused)
    BY <1>1 DEF Fair
  <2>. QED
    BY <1>1, <1>3, <2>1 DEF CulpritsInv
<1>. QED
  BY <1>6, <1>7

-----------------------------------------------------------------------------
(* A restart heals.                                                        *)

\* The numbers in play.
LEMMA Numbers ==
  ASSUME MeshTypes
  PROVE  /\ boot \in Nat /\ seq \in Nat /\ since \in Nat /\ Ttl \in Nat
         /\ \A k \in Others : core[k].gossip # None =>
              /\ core[k].gossip.advert.boot \in Nat /\ core[k].gossip.advert.seq \in Nat
              /\ core[k].gossip.age \in Nat
<1>1. boot \in Nat /\ seq \in Nat /\ since \in Nat /\ Ttl \in Nat
  BY EmptyHanded DEF MeshTypes, CountsInv
<1>2. ASSUME NEW k \in Others, core[k].gossip # None
      PROVE  /\ core[k].gossip.advert.boot \in Nat /\ core[k].gossip.advert.seq \in Nat
             /\ core[k].gossip.age \in Nat
  <2>. DEFINE g == core[k].gossip
  <2>1. CoreOK(k, core[k]) /\ k # Mover /\ core[k] \in Cores
    BY DEF MeshTypes, Others
  <2>2. g.advert \in Adverts /\ g \in [advert : Adverts \cup {None}, age : 0 .. Ttl + 1]
    BY <1>2, <2>1, CoreFields DEF CoreOK
  <2>. HIDE DEF g
  <2>3. g.advert.boot \in Nat /\ g.advert.seq \in Nat /\ g.age \in Nat
    BY <1>1, <2>2, EmptyHanded DEF Adverts
  <2>. QED
    BY <2>3 DEF g
<1>. QED
  BY <1>1, <1>2

\* What neither changes an advert nor a link heals as before.
LEMMA HealKept ==
  ASSUME MeshTypes, HealInv, UNCHANGED <<boot, seq, since, claim, up, missed>>,
         \A k \in Others : core'[k].gossip = core[k].gossip,
         \A d : d.kind = "advert" => (d \in wire' <=> d \in wire),
         \A n, m \in Others : {n, m} \in Links /\ n # m => m \in core'[n].conn
  PROVE  HealInv'
<1>1. \A d \in wire' : d.kind = "advert" => Recent(d.advert)'
  BY DEF HealInv, Recent, Advert
<1>2. AgeInv'
  BY DEF HealInv, AgeInv
<1>3. \A k \in Others : /\ Current(k)' <=> Current(k)
                        /\ AdvertFor(k)' <=> AdvertFor(k)
  BY DEF Current, Live, AdvertFor
<1>4. Static \in Others
  BY EmptyHanded DEF Others
<1>5. ASSUME (since > Ttl /\ ~missed /\ up)'
      PROVE  /\ (Current(Static) \/ AdvertFor(Static))'
             /\ \A n, m \in Others :
                  {n, m} \in Links /\ n # m /\ Current(n)' => (Current(m) \/ AdvertFor(m))'
             /\ \A d \in wire' : d.kind = "advert" /\ d.from # Mover => Current(d.from)'
  <2>1. /\ Current(Static) \/ AdvertFor(Static)
        /\ \A n, m \in Others :
             {n, m} \in Links /\ n # m /\ Current(n) => Current(m) \/ AdvertFor(m)
        /\ \A d \in wire : d.kind = "advert" /\ d.from # Mover => Current(d.from)
    BY <1>5 DEF HealInv, SpreadInv
  <2>2. \A d \in wire' : d.kind = "advert" /\ d.from # Mover => Current(d.from)'
    BY <1>3, <2>1, OnWire DEF Others
  <2>. QED
    BY <1>3, <1>4, <2>1, <2>2
<1>. QED
  BY <1>1, <1>2, <1>5 DEF HealInv, SpreadInv

\* A step that leaves the adverts where they are.
LEMMA HealCalm ==
  ASSUME MeshTypes, HealInv, Calm, UNCHANGED <<boot, seq, since, claim, up, missed>>
  PROVE  HealInv'
<1>1. \A n, m \in Others : {n, m} \in Links /\ n # m => m \in core'[n].conn
  BY DEF HealInv, Calm
<1>. QED
  BY <1>1, HealKept DEF Calm

\* An advert arrives, and once the time to live is over it is believed: what
\* the node held is expired, or of this life and no later.
LEMMA HealAdvert ==
  ASSUME MeshTypes, HealInv, NEW d \in wire, d.kind = "advert", Told(d),
         UNCHANGED <<boot, seq, since, claim, up, missed>>
  PROVE  HealInv'
<1>. DEFINE n == d.to
            g == core[n].gossip
            outcome == Upsert(g, d.advert)
<1>1. /\ n \in Others /\ d.from \in Nodes /\ d.advert \in Adverts
  BY OnWire DEF Others
<1>2. /\ core'[n].gossip = IF outcome = "Stale" THEN g ELSE Entry(d.advert)
      /\ \A k \in Others : k # n => core'[k].gossip = core[k].gossip
      /\ \A k \in Others : core[k].conn \subseteq core'[k].conn
      /\ wire \ {d} \subseteq wire'
      /\ \A a \in wire' : a.kind = "advert" =>
           \/ a \in wire \ {d}
           \/ /\ outcome = "Accepted" /\ a.from = n /\ a.advert = d.advert
      /\ outcome = "Accepted" => \A p \in core[n].conn \ {Mover, d.from} :
                                   \E a \in wire' : a.kind = "advert" /\ a.to = p
  BY DEF Told, Others
<1>3. Recent(d.advert)
  BY DEF HealInv
<1>4. Entry(d.advert).advert = d.advert /\ Entry(d.advert).age = 0
  BY DEF Entry
<1>5. None \notin [advert : Adverts \cup {None}, age : 0 .. Ttl + 1]
  BY EmptyHanded
<1>6. Entry(d.advert) # None
  BY <1>1, <1>5, EmptyHanded DEF Entry
<1>7. since > 0 => d.advert.boot = boot /\ d.advert.seq = seq
  BY <1>3, Numbers DEF Recent, Advert
<1>8. d.advert.boot \in Nat /\ d.advert.seq \in Nat
  BY <1>1, EmptyHanded DEF Adverts
<1>. HIDE DEF n, g, outcome
<1>9. \A a \in wire' : a.kind = "advert" => Recent(a.advert)'
  BY <1>2, <1>3 DEF HealInv, Recent, Advert
<1>10. AgeInv'
  <2>. SUFFICES ASSUME NEW k \in Others, core'[k].gossip # None
                PROVE  LET h == core'[k].gossip
                       IN /\ h.advert.boot <= boot /\ (h.advert.boot = boot => h.advert.seq <= seq)
                          /\ h.advert.boot < boot => h.age >= since \/ h.age > Ttl
    BY DEF AgeInv
  <2>1. CASE core'[k].gossip = core[k].gossip
    BY <2>1 DEF HealInv, AgeInv
  <2>2. CASE core'[k].gossip = Entry(d.advert)
    BY <2>2, <1>3, <1>4, <1>7, <1>8, Numbers DEF Recent
  <2>. QED
    BY <1>2, <2>1, <2>2 DEF g
<1>11. \A k, m \in Others : {k, m} \in Links /\ k # m => m \in core'[k].conn
  BY <1>2 DEF HealInv
<1>12. SpreadInv'
  <2>. SUFFICES ASSUME since > Ttl, ~missed, up
                PROVE  /\ (Current(Static) \/ AdvertFor(Static))'
                       /\ \A k, m \in Others : {k, m} \in Links /\ k # m /\ Current(k)' =>
                            (Current(m) \/ AdvertFor(m))'
                       /\ \A a \in wire' : a.kind = "advert" /\ a.from # Mover => Current(a.from)'
    BY DEF SpreadInv
  <2>1. /\ Current(Static) \/ AdvertFor(Static)
        /\ \A k, m \in Others :
             {k, m} \in Links /\ k # m /\ Current(k) => Current(m) \/ AdvertFor(m)
        /\ \A a \in wire : a.kind = "advert" /\ a.from # Mover => Current(a.from)
    BY DEF HealInv, SpreadInv
  <2>2. d.advert.boot = boot /\ d.advert.seq = seq
    BY <1>7, Numbers
  <2>3. Live(g) => g.advert.boot = boot /\ g.advert.seq <= seq
    BY <1>1, Numbers DEF HealInv, AgeInv, Live, g
  <2>4. /\ outcome \in {"Accepted", "Refreshed"}
        /\ outcome = "Refreshed" => Current(n)
    <3>1. Live(g) => g.advert.seq \in Nat
      BY <1>1, Numbers DEF Live, g
    <3>. QED
      BY <2>2, <2>3, <3>1, Numbers DEF outcome, Upsert, Current, g
  <2>5. Current(n)'
    <3>1. core'[n].gossip = Entry(d.advert)
      BY <1>2, <2>4
    <3>. QED
      BY <1>4, <1>6, <2>2, <3>1, Numbers DEF Current, Live
  <2>6. \A k \in Others : k # n => (Current(k)' <=> Current(k))
    BY <1>2 DEF Current, Live
  <2>7. ASSUME NEW k \in Others, Current(k) \/ AdvertFor(k)
        PROVE  (Current(k) \/ AdvertFor(k))'
    <3>1. CASE k = n
      BY <2>5, <3>1
    <3>2. CASE k # n /\ Current(k)
      BY <2>6, <3>2
    <3>3. CASE k # n /\ AdvertFor(k)
      BY <1>2, <3>3 DEF AdvertFor, n
    <3>. QED
      BY <2>7, <3>1, <3>2, <3>3
  <2>8. ASSUME NEW k \in Others, NEW m \in Others, {k, m} \in Links, k # m, Current(k)'
        PROVE  (Current(m) \/ AdvertFor(m))'
    <3>1. CASE Current(k)
      BY <2>1, <2>7, <2>8, <3>1
    <3>2. CASE ~Current(k)
      <4>1. k = n /\ outcome = "Accepted"
        BY <2>4, <2>6, <2>8, <3>2
      <4>2. m \in core[n].conn /\ m # Mover
        BY <2>8, <4>1 DEF HealInv, Others
      <4>3. CASE m = d.from
        <5>1. Current(m)
          BY <2>1, <4>2, <4>3
        <5>. QED
          BY <2>7, <5>1
      <4>4. CASE m # d.from
        BY <1>2, <4>1, <4>2, <4>4 DEF AdvertFor
      <4>. QED
        BY <4>3, <4>4
    <3>. QED
      BY <3>1, <3>2
  <2>9. ASSUME NEW a \in wire', a.kind = "advert", a.from # Mover
        PROVE  Current(a.from)'
    <3>1. CASE a \in wire \ {d}
      <4>1. a.from \in Others /\ Current(a.from)
        BY <2>1, <2>9, <3>1, OnWire DEF Others
      <4>. QED
        BY <2>5, <2>6, <4>1
    <3>2. CASE a.from = n
      BY <2>5, <3>2
    <3>. QED
      BY <1>2, <2>9, <3>1, <3>2
  <2>10. Static \in Others
    BY EmptyHanded DEF Others
  <2>. QED
    BY <2>1, <2>7, <2>8, <2>9, <2>10
<1>. QED
  BY <1>9, <1>10, <1>11, <1>12 DEF HealInv

\* An interval passes: what a node holds of a former life is an interval older,
\* and nobody holds the advert that goes out.
LEMMA HealTick ==
  ASSUME MeshTypes, CulpritsInv, HealInv, Tick
  PROVE  HealInv'
<1>. DEFINE advert == [Advert EXCEPT !.seq = seq + 1]
<1>1. /\ wire = {} /\ UNCHANGED <<up, claim, boot, missed>>
      /\ IF up THEN seq' = seq + 1 /\ since' = since + 1 /\ wire' = Advertise(advert)
         ELSE UNCHANGED <<seq, since, wire>>
      /\ ticks < MaxTicks
  BY DEF Tick, Quiet
<1>2. /\ \A k \in Others : core'[k].gossip = Aged(core[k].gossip) /\ core'[k].conn = core[k].conn
  BY TickCores DEF Others
<1>3. ASSUME NEW k \in Others, core'[k].gossip # None
      PROVE  /\ core[k].gossip # None
             /\ core'[k].gossip.advert = core[k].gossip.advert
             /\ core'[k].gossip.age = IF core[k].gossip.age > Ttl THEN core[k].gossip.age
                                      ELSE core[k].gossip.age + 1
  <2>1. core[k].gossip \in [advert : Adverts \cup {None}, age : 0 .. Ttl + 1] \cup {None}
    BY Before, CoreFields DEF Others
  <2>. QED
    BY <1>2, <1>3, <2>1, AgedFits
<1>4. AgeInv'
  <2>. SUFFICES ASSUME NEW k \in Others, core'[k].gossip # None
                PROVE  LET h == core'[k].gossip
                       IN /\ h.advert.boot <= boot' /\ (h.advert.boot = boot' => h.advert.seq <= seq')
                          /\ h.advert.boot < boot' => h.age >= since' \/ h.age > Ttl
    BY DEF AgeInv
  <2>1. LET h == core[k].gossip
        IN /\ h.advert.boot <= boot /\ (h.advert.boot = boot => h.advert.seq <= seq)
           /\ h.advert.boot < boot => h.age >= since \/ h.age > Ttl
    BY <1>3 DEF HealInv, AgeInv
  <2>2. /\ core[k].gossip.advert.boot \in Nat /\ core[k].gossip.advert.seq \in Nat
        /\ core[k].gossip.age \in Nat
    BY <1>3, Numbers
  <2>3. boot' = boot /\ seq' \in {seq, seq + 1} /\ since' \in {since, since + 1}
    BY <1>1
  <2>. QED
    BY <1>3, <2>1, <2>2, <2>3, Numbers
<1>5. \A k, m \in Others : {k, m} \in Links /\ k # m => m \in core'[k].conn
  BY <1>2 DEF HealInv
<1>6. CASE ~up
  <2>1. wire' = {} /\ ~up'
    BY <1>1, <1>6
  <2>. QED
    BY <1>4, <1>5, <2>1 DEF HealInv, SpreadInv
<1>7. CASE up
  <2>1. /\ seq' = seq + 1 /\ since' = since + 1 /\ wire' = Advertise(advert) /\ since' # 0
    BY <1>1, <1>7, Numbers
  <2>2. advert = Advert'
    BY <1>1, <2>1 DEF Advert
  <2>3. advert \in Adverts
    <3>1. advert = [boot |-> boot, seq |-> seq + 1, addr |-> claim]
      BY DEF Advert
    <3>2. CountsInv
      BY DEF MeshTypes
    <3>3. seq + 1 \in 0 .. MaxTicks
      BY <1>1, <3>2, EmptyHanded DEF CountsInv
    <3>. QED
      BY <3>1, <3>2, <3>3, CountsFacts DEF Adverts
  <2>. HIDE DEF advert
  <2>4. /\ \A d \in wire' : d.kind = "advert" => d.advert = advert /\ d.from = Mover
        /\ \E d \in wire' : d.kind = "advert" /\ d.to = Static
    BY <2>1, <2>3, AdvertiseFits
  <2>5. \A d \in wire' : d.kind = "advert" => Recent(d.advert)'
    BY <2>1, <2>2, <2>4 DEF Recent
  <2>6. ASSUME NEW k \in Others PROVE ~Current(k)'
    <3>1. CASE core'[k].gossip = None
      BY <3>1 DEF Current, Live
    <3>2. CASE core'[k].gossip # None
      <4>1. /\ core[k].gossip # None /\ core'[k].gossip.advert = core[k].gossip.advert
        BY <1>3, <3>2
      <4>2. core[k].gossip.advert.boot = boot => core[k].gossip.advert.seq <= seq
        BY <4>1 DEF HealInv, AgeInv
      <4>3. core[k].gossip.advert.seq \in Nat
        BY <4>1, Numbers
      <4>. QED
        BY <1>1, <2>1, <4>1, <4>2, <4>3, Numbers DEF Current
    <3>. QED
      BY <3>1, <3>2
  <2>7. SpreadInv'
    BY <2>4, <2>6 DEF SpreadInv, AdvertFor
  <2>. QED
    BY <1>4, <1>5, <2>5, <2>7 DEF HealInv
<1>. QED
  BY <1>6, <1>7

\* Mover crashes.
LEMMA HealCrash ==
  ASSUME MeshTypes, HealInv, Crash
  PROVE  HealInv'
<1>1. /\ ~up' /\ core' = [core EXCEPT ![Mover] = OverlayCoreNew]
      /\ UNCHANGED <<claim, boot, seq, since, wire, missed>>
  BY DEF Crash
<1>2. \A k \in Others : core'[k] = core[k]
  BY <1>1 DEF Others, MeshTypes
<1>3. \A d \in wire' : d.kind = "advert" => Recent(d.advert)'
  BY <1>1 DEF HealInv, Recent, Advert
<1>4. AgeInv'
  BY <1>1, <1>2 DEF HealInv, AgeInv
<1>. QED
  BY <1>1, <1>2, <1>3, <1>4 DEF HealInv, SpreadInv

\* Mover restarts: every advert there is becomes one of a former life.
LEMMA HealRestart ==
  ASSUME MeshTypes, CulpritsInv, HealInv, NEW addr \in Claims, Restart(addr)
  PROVE  HealInv'
<1>1. boot' = boot + 1 /\ seq' = 0 /\ since' = 0 /\ UNCHANGED <<core, wire>>
  BY DEF Restart
<1>2. ASSUME NEW d \in wire', d.kind = "advert" PROVE Recent(d.advert)'
  <2>1. Recent(d.advert) /\ d.advert \in Adverts
    BY <1>1, <1>2, OnWire DEF HealInv
  <2>2. d.advert.boot \in Nat
    BY <2>1, EmptyHanded DEF Adverts
  <2>3. d.advert.boot <= boot
    BY <2>1, <2>2, Numbers DEF Recent, Advert
  <2>4. d.advert.boot < boot'
    BY <1>1, <2>2, <2>3, Numbers
  <2>. QED
    BY <1>1, <2>4 DEF Recent
<1>3. AgeInv'
  <2>. SUFFICES ASSUME NEW k \in Others, core[k].gossip # None
                PROVE  /\ core[k].gossip.advert.boot < boot'
                       /\ core[k].gossip.age >= since'
    BY <1>1, Numbers DEF AgeInv
  <2>. QED
    BY <1>1, Numbers DEF HealInv, AgeInv
<1>4. ~(since' > Ttl)
  BY <1>1, EmptyHanded
<1>. QED
  BY <1>1, <1>2, <1>3, <1>4 DEF HealInv, SpreadInv

\* A message is lost.
LEMMA HealLose ==
  ASSUME HealInv, NEW d \in wire, Lose(d)
  PROVE  HealInv'
<1>1. /\ wire' = wire \ {d} /\ missed' = TRUE /\ core' = core
      /\ UNCHANGED <<up, claim, boot, seq, since>>
  BY DEF Lose, moverVars
<1>2. \A a \in wire' : a.kind = "advert" => Recent(a.advert)'
  BY <1>1 DEF HealInv, Recent, Advert
<1>3. AgeInv'
  BY <1>1 DEF HealInv, AgeInv
<1>. QED
  BY <1>1, <1>2, <1>3 DEF HealInv, SpreadInv

\* A message vanishes: an advert only if Mover is down.
LEMMA HealVanish ==
  ASSUME MeshTypes, HealInv, NEW d \in wire, Vanish(d)
  PROVE  HealInv'
<1>1. /\ wire' = wire \ {d} /\ core' = core
      /\ UNCHANGED <<up, claim, boot, seq, since, missed>>
      /\ ~Runs(d.to) \/ ~Runs(d.from) \/ d.from = d.to
  BY DEF Vanish, moverVars
<1>2. CASE d.kind = "advert"
  <2>1. ~up'
    BY <1>1, <1>2, OnWire DEF Runs
  <2>2. \A a \in wire' : a.kind = "advert" => Recent(a.advert)'
    BY <1>1 DEF HealInv, Recent, Advert
  <2>3. AgeInv'
    BY <1>1 DEF HealInv, AgeInv
  <2>. QED
    BY <1>1, <2>1, <2>2, <2>3 DEF HealInv, SpreadInv
<1>3. CASE d.kind # "advert"
  <2>1. Calm
    BY <1>1, <1>3 DEF Calm
  <2>. QED
    BY <1>1, <2>1, HealCalm
<1>. QED
  BY <1>2, <1>3

\* A connection times out, which a link never does: both ends have it.
LEMMA HealDisconnect ==
  ASSUME MeshTypes, HealInv, NEW n \in Nodes, NEW m \in Nodes, Disconnect(n, m)
  PROVE  HealInv'
<1>. DEFINE c == core[n]
            e == [c EXCEPT !.conn = @ \ {m}]
<1>1. /\ n \notin core[m].conn /\ core' = [core EXCEPT ![n] = e] /\ wire' = wire
      /\ UNCHANGED <<up, claim, boot, seq, since, missed>>
  BY DEF Disconnect, moverVars
<1>2. core \in [Nodes -> Cores] /\ c \in Cores
  BY DEF MeshTypes
<1>. HIDE DEF c
<1>3. e.gossip = c.gossip /\ e.conn = c.conn \ {m}
  BY <1>2 DEF Cores
<1>. HIDE DEF e
<1>4. core'[n] = e /\ \A k \in Nodes \ {n} : core'[k] = core[k]
  BY <1>1, <1>2
<1>5. \A k \in Others : core'[k].gossip = core[k].gossip
  BY <1>3, <1>4 DEF Others, c
<1>6. ASSUME NEW k \in Others, NEW j \in Others, {k, j} \in Links, k # j
      PROVE  j \in core'[k].conn
  <2>1. j \in core[k].conn /\ k \in core[j].conn
    <3>1. {j, k} = {k, j}
      OBVIOUS
    <3>. QED
      BY <1>6, <3>1 DEF HealInv
  <2>2. CASE k = n
    BY <1>1, <1>3, <1>4, <2>1, <2>2 DEF c
  <2>3. CASE k # n
    BY <1>4, <2>1, <2>3 DEF Others
  <2>. QED
    BY <2>2, <2>3
<1>. QED
  BY <1>1, <1>5, <1>6, HealKept

\* The first state.
LEMMA InitHeal == Init => HealInv
<1>. SUFFICES ASSUME Init PROVE HealInv
  OBVIOUS
<1>1. /\ wire = {} /\ since = 0
      /\ core = [n \in Nodes |->
                   [OverlayCoreNew EXCEPT !.conn = {m \in Nodes \ {n} : {n, m} \in Links}]]
  BY DEF Init
<1>2. ~(since > Ttl)
  BY <1>1, EmptyHanded
<1>3. ASSUME NEW n \in Others
      PROVE  core[n].gossip = None /\ core[n].conn = {m \in Nodes \ {n} : {n, m} \in Links}
  BY <1>1 DEF Others, OverlayCoreNew
<1>4. AgeInv
  BY <1>3 DEF AgeInv
<1>5. \A n, m \in Others : {n, m} \in Links /\ n # m => m \in core[n].conn
  BY <1>3 DEF Others
<1>. QED
  BY <1>1, <1>2, <1>4, <1>5 DEF HealInv, SpreadInv

-----------------------------------------------------------------------------
(* The theorems about the mesh.                                            *)

MeshInv == MeshTypes /\ CulpritsInv /\ HealInv

\* What happens to one message.
LEMMA DeliveryKeeps ==
  ASSUME MeshInv, NEW d \in wire,
         \/ HandleShred(d) \/ HandleAdvert(d) \/ HandleRoster(d)
         \/ AnswerDial(d) \/ Vanish(d) \/ Lose(d)
  PROVE  MeshInv'
<1>. USE DEF MeshInv
<1>1. CASE HandleShred(d)
  <2>1. UNCHANGED <<boot, seq, since, claim, up, missed>>
    BY <1>1 DEF HandleShred, Arrives, moverVars
  <2>. QED
    BY <1>1, <2>1, HandleShredKeeps, HealCalm
<1>2. CASE HandleAdvert(d)
  <2>1. d.kind = "advert" /\ UNCHANGED <<boot, seq, since, claim, up, missed>>
    BY <1>2 DEF HandleAdvert, Arrives, moverVars
  <2>. QED
    BY <1>2, <2>1, HandleAdvertKeeps, HealAdvert
<1>3. CASE HandleRoster(d)
  <2>1. UNCHANGED <<boot, seq, since, claim, up, missed>>
    BY <1>3 DEF HandleRoster, Arrives, moverVars
  <2>. QED
    BY <1>3, <2>1, HandleRosterKeeps, HealCalm
<1>4. CASE AnswerDial(d)
  <2>1. UNCHANGED <<boot, seq, since, claim, up, missed>>
    BY <1>4 DEF AnswerDial, moverVars
  <2>. QED
    BY <1>4, <2>1, AnswerDialKeeps, HealCalm
<1>5. CASE Vanish(d)
  BY <1>5, VanishKeeps, HealVanish
<1>6. CASE Lose(d)
  BY <1>6, LoseKeeps, HealLose
<1>. QED
  BY <1>1, <1>2, <1>3, <1>4, <1>5, <1>6

\* Every step of the mesh, and one that changes nothing.
LEMMA MeshInvKeeps == MeshInv /\ [Next]_vars => MeshInv'
<1>. SUFFICES ASSUME MeshInv, [Next]_vars PROVE MeshInv'
  OBVIOUS
<1>1. ASSUME NEW n \in Nodes, NEW s \in Shreds, NEW rank \in Ranks, SourcePacket(n, s, rank)
      PROVE  MeshInv'
  <2>1. UNCHANGED <<boot, seq, since, claim, up, missed>>
    BY <1>1 DEF SourcePacket, moverVars
  <2>. QED
    BY <1>1, <2>1, SourcePacketKeeps, HealCalm DEF MeshInv
<1>2. ASSUME NEW n \in Nodes, NEW m \in Nodes, Disconnect(n, m) PROVE MeshInv'
  BY <1>2, DisconnectKeeps, HealDisconnect DEF MeshInv
<1>3. ASSUME NEW n \in Nodes, NEW addr \in Nodes, ExpireConfirm(n, addr) PROVE MeshInv'
  <2>1. UNCHANGED <<boot, seq, since, claim, up, missed>>
    BY <1>3 DEF ExpireConfirm, moverVars
  <2>. QED
    BY <1>3, <2>1, ExpireConfirmKeeps, HealCalm DEF MeshInv
<1>4. CASE Tick
  BY <1>4, TickKeeps, HealTick DEF MeshInv
<1>5. CASE Crash
  BY <1>5, CrashKeeps, HealCrash DEF MeshInv
<1>6. ASSUME NEW addr \in Claims, Restart(addr) PROVE MeshInv'
  BY <1>6, RestartKeeps, HealRestart DEF MeshInv
<1>7. CASE UNCHANGED vars
  <2>1. /\ MeshTypes' = MeshTypes /\ CulpritsInv' = CulpritsInv
    BY <1>7 DEF vars, MeshTypes, CountsInv, Faults, CulpritsInv
  <2>2. HealInv' = HealInv
    BY <1>7 DEF vars, HealInv, Recent, Advert, AgeInv, SpreadInv, Current, AdvertFor
  <2>. QED
    BY <2>1, <2>2 DEF MeshInv
<1>. QED
  BY <1>1, <1>2, <1>3, <1>4, <1>5, <1>6, <1>7, DeliveryKeeps DEF Next

\* The inductive invariant of gossip and dissemination.
THEOREM MeshHolds == Spec => []MeshInv
<1>1. Init => MeshInv
  BY InitMesh, InitHeal DEF MeshInv
<1>. QED
  BY <1>1, MeshInvKeeps, PTL DEF Spec

\* It gives the types: no node is connected to itself, and nothing waits at an
\* address that is connected.
LEMMA MeshGivesTypes == MeshInv => TypeOK
<1>. SUFFICES ASSUME MeshInv PROVE TypeOK
  OBVIOUS
<1>1. MeshTypes /\ CountsInv
  BY DEF MeshInv, MeshTypes
<1>2. \A d \in wire : d.from \in Nodes /\ d.to \in Nodes
  BY <1>1, OnWire
<1>3. \A s \in Shreds : flood[s] # None => flood[s].rank \in Ranks
  BY <1>1 DEF MeshTypes, Floods
<1>. QED
  BY <1>1, <1>2, <1>3, CountsFacts DEF TypeOK, MeshTypes, CoreOK, CountsInv

\* It gives the healing: the nodes that hold the latest advert are closed under
\* the links when nothing is on its way, and Static is one of them.
LEMMA MeshHeals == MeshInv => RestartHeals
<1>. SUFFICES ASSUME MeshInv PROVE RestartHeals
  OBVIOUS
<1>1. MeshTypes /\ HealInv
  BY DEF MeshInv
<1>2. ASSUME NEW n \in Others, since > Ttl, Live(core[n].gossip),
             core[n].gossip.advert.boot < boot
      PROVE  FALSE
  <2>1. core[n].gossip # None /\ core[n].gossip.age <= Ttl
    BY <1>2 DEF Live
  <2>2. core[n].gossip.age >= since \/ core[n].gossip.age > Ttl
    BY <1>1, <1>2, <2>1 DEF HealInv, AgeInv
  <2>. QED
    BY <1>1, <1>2, <2>1, <2>2, Numbers
<1>3. ASSUME since > Ttl, ~missed, wire = {}, up, NEW n \in Others
      PROVE  Current(n)
  <2>. DEFINE S == {k \in Others : Current(k)}
  <2>1. /\ Current(Static)
        /\ \A k, m \in Others : {k, m} \in Links /\ k # m /\ Current(k) => Current(m)
    BY <1>1, <1>3 DEF HealInv, SpreadInv, AdvertFor
  <2>2. Static \in S
    BY <2>1, EmptyHanded DEF Others
  <2>3. ASSUME NEW l \in Links, l \cap S # {} PROVE l \subseteq S
    <3>1. PICK k \in Others, m \in Others : l = {k, m}
      BY LinksAssumption DEF Others
    <3>2. {m, k} = {k, m}
      OBVIOUS
    <3>. QED
      BY <2>1, <2>3, <3>1, <3>2
  <2>4. S \in SUBSET (Nodes \ {Mover})
    BY DEF Others
  <2>. HIDE DEF S
  <2>5. S = Nodes \ {Mover}
    BY <2>2, <2>3, <2>4, LinksAssumption
  <2>. QED
    BY <2>5 DEF S, Others
<1>. QED
  BY <1>2, <1>3 DEF RestartHeals, Current

\* The types, for any nodes, links, shreds and bounds (TypeOK).
THEOREM MeshTypeCorrect == Spec => []TypeOK
BY MeshHolds, MeshGivesTypes, PTL

\* No order of crossing dials, datagrams and expiries makes a node give up an
\* address nobody is to blame for (send_to_peer, resolve_confirm,
\* expire_confirms).
THEOREM CulpritsOnly == Spec => []OnlyCulpritsQuarantined
<1>1. MeshInv => OnlyCulpritsQuarantined
  BY DEF MeshInv, CulpritsInv, Blameless, OnlyCulpritsQuarantined
<1>. QED
  BY <1>1, MeshHolds, PTL

\* Once the time to live is over, a restarted node is believed by everybody
\* again (LightbringerGossip::upsert), in any connected mesh.
THEOREM RestartsHeal == Spec => []RestartHeals
BY MeshHolds, MeshHeals, PTL

-----------------------------------------------------------------------------
(* The dissemination tree: every index has a parent and a node.            *)

\* What is left of a product and a smaller rest.
LEMMA Remainder ==
  ASSUME NEW F \in Nat, F >= 1, NEW a \in Nat, NEW b \in 0 .. F - 1
  PROVE  (a * F + b) % F = b
<1>. DEFINE x == a * F + b
            q == x \div F
            r == x % F
<1>0. a * F \in Nat
  OBVIOUS
<1>1. x \in Nat
  BY <1>0
<1>. HIDE DEF x
<1>2. q \in Int /\ r \in 0 .. F - 1 /\ x = F * q + r
  BY <1>1
<1>. HIDE DEF q, r
<1>3. F * (a - q) = r - b
  BY <1>2 DEF x
<1>. DEFINE y == a - q
<1>4. y \in Int
  BY <1>2
<1>. HIDE DEF y
<1>5. F * y < F /\ F * y > 0 - F
  BY <1>2, <1>3 DEF y
<1>6. y >= 1 => F * y >= F
  BY <1>4
<1>7. y <= -1 => F * y <= -F
  BY <1>4
<1>8. y = 0
  BY <1>4, <1>5, <1>6, <1>7
<1>. QED
  BY <1>2, <1>3, <1>8 DEF x, y, r

\* Every index but that of the root is one some smaller index retransmits to.
LEMMA ParentExists ==
  ASSUME NEW len \in Nat, NEW j \in 1 .. len - 1
  PROVE  \E k \in 0 .. j - 1 : j \in RetransmitIndices(k, len)
<1>. DEFINE F == Fanout
<1>1. F \in Nat /\ F >= 1
  BY FanoutAssumption
<1>2. CASE j <= F
  <2>1. 0 % F = 0
    BY <1>1
  <2>2. j - 1 \in 0 .. Fanout - 1 /\ (0 - 0) * Fanout + 0 + 1 + 1 * (j - 1) = j /\ j \in 0 .. len - 1
    BY <1>1, <1>2
  <2>3. j \in RetransmitIndices(0, len)
    BY <1>1, <2>1, <2>2 DEF RetransmitIndices
  <2>4. 0 \in 0 .. j - 1
    OBVIOUS
  <2>. QED
    BY <2>3, <2>4
<1>3. CASE j > F
  <2>. DEFINE t == (j - 1) \div F
              off == (j - 1) % F
  <2>1. t \in Nat /\ off \in 0 .. F - 1 /\ j - 1 = F * t + off
    BY <1>1, <1>3
  <2>. HIDE DEF t, off
  <2>2. t >= 1
    <3>1. t = 0 => F * t = 0
      BY <1>1
    <3>. QED
      BY <1>1, <1>3, <2>1, <3>1
  <2>. DEFINE q == (t - 1) \div F
              m == (t - 1) % F
  <2>3. t - 1 \in Nat
    BY <2>1, <2>2
  <2>4. q \in Nat /\ m \in 0 .. F - 1 /\ t - 1 = F * q + m
    BY <1>1, <2>3
  <2>. HIDE DEF q, m
  <2>. DEFINE qF == q * F
              k == qF + off + 1
  <2>5. qF \in Nat /\ qF = F * q /\ qF <= t - 1 /\ (qF + off) % F = off
    <3>1. qF \in Nat /\ qF = F * q
      BY <1>1, <2>4
    <3>2. (q * F + off) % F = off
      BY <1>1, <2>1, <2>4, Remainder
    <3>. QED
      BY <2>4, <3>1, <3>2
  <2>. HIDE DEF qF
  <2>6. F * t >= t
    BY <1>1, <2>1
  <2>7. k \in 1 .. j - 1
    <3>. DEFINE x == F * t
    <3>1. x \in Int /\ x >= t /\ j - 1 = x + off
      BY <1>1, <2>1, <2>6
    <3>. HIDE DEF x
    <3>. QED
      BY <1>1, <2>1, <2>5, <3>1
  <2>8. (k - off) * F + off + 1 + F * m = j
    <3>1. k - off = F * q + 1
      BY <1>1, <2>1, <2>5
    <3>2. k - off + m = t
      BY <1>1, <2>1, <2>4, <3>1
    <3>. DEFINE z == k - off
    <3>3. z \in Int /\ z + m = t
      BY <1>1, <2>1, <2>4, <2>5, <3>2
    <3>. HIDE DEF z
    <3>4. z * F + F * m = F * t
      BY <1>1, <2>1, <2>4, <3>3
    <3>. DEFINE u == z * F
                v == F * m
                w == F * t
    <3>5. u \in Int /\ v \in Int /\ w \in Int /\ u + v = w /\ j - 1 = w + off
      BY <1>1, <2>1, <2>4, <3>3, <3>4
    <3>. HIDE DEF u, v, w
    <3>6. u + off + 1 + v = j
      BY <2>1, <3>5
    <3>. QED
      BY <3>6 DEF u, v, z
  <2>9. k # 0 /\ k - 1 = qF + off /\ k \in Nat
    BY <2>1, <2>5, <2>7
  <2>. HIDE DEF k
  <2>10. (k - 1) % F = off
    BY <2>5, <2>9
  <2>11. j \in RetransmitIndices(k, len)
    <3>1. j \in 0 .. len - 1 /\ m \in 0 .. Fanout - 1
      BY <2>4
    <3>. QED
      BY <2>8, <2>9, <2>10, <3>1 DEF RetransmitIndices
  <2>. QED
    BY <2>7, <2>11
<1>. QED
  BY <1>1, <1>2, <1>3

\* Ranks are different numbers.
LEMMA RankFacts ==
  ASSUME NEW rank \in Ranks
  PROVE  /\ \A p \in Nodes : rank[p] \in Nat
         /\ \A p, q \in Nodes : rank[p] = rank[q] => p = q
<1>1. Cardinality(Nodes) \in Nat
  BY NodesAssumption, FS_CardinalityType
<1>. QED
  BY <1>1 DEF Ranks

\* Indices are in the order of the ranks.
LEMMA IndexOrder ==
  ASSUME NEW rank \in Ranks, NEW M \in SUBSET Nodes, NEW p \in M, NEW q \in M
  PROVE  /\ rank[p] < rank[q] <=> Index(rank, M, p) < Index(rank, M, q)
         /\ Index(rank, M, p) = Index(rank, M, q) => p = q
         /\ Index(rank, M, p) \in 0 .. Cardinality(M) - 1
<1>. DEFINE B(n) == {m \in M : rank[m] < rank[n]}
<1>1. IsFiniteSet(M)
  BY NodesAssumption, FS_Subset
<1>2. \A n \in M : rank[n] \in Nat
  BY RankFacts
<1>3. rank[p] = rank[q] => p = q
  BY RankFacts
<1>4. ASSUME NEW x \in M, NEW T \in SUBSET M, x \in T, B(x) \subseteq T
      PROVE  Cardinality(B(x)) < Cardinality(T)
  <2>1. x \notin B(x) /\ B(x) \in SUBSET M
    BY <1>2
  <2>. HIDE DEF B
  <2>2. IsFiniteSet(B(x)) /\ IsFiniteSet(T)
    BY <1>1, <2>1, FS_Subset
  <2>3. B(x) \cup {x} \in SUBSET T
    BY <1>4
  <2>4. /\ Cardinality(B(x) \cup {x}) = Cardinality(B(x)) + 1
        /\ Cardinality(B(x) \cup {x}) <= Cardinality(T)
    BY <2>1, <2>2, <2>3, FS_AddElement, FS_Subset
  <2>5. Cardinality(B(x)) \in Nat /\ Cardinality(T) \in Nat
    BY <2>2, FS_CardinalityType
  <2>. QED
    BY <2>4, <2>5
<1>5. ASSUME NEW x \in M, NEW y \in M, rank[x] < rank[y]
      PROVE  Index(rank, M, x) < Index(rank, M, y)
  <2>1. x \in B(y) /\ B(x) \subseteq B(y) /\ B(y) \in SUBSET M
    BY <1>2, <1>5
  <2>2. Cardinality(B(x)) < Cardinality(B(y))
    <3>. HIDE DEF B
    <3>. QED
      BY <1>4, <2>1
  <2>. QED
    BY <2>2 DEF Index
<1>6. Index(rank, M, p) \in Nat /\ Index(rank, M, q) \in Nat /\ Cardinality(M) \in Nat
  BY IndexType
<1>7. Index(rank, M, p) < Cardinality(M)
  <2>1. B(p) \subseteq M
    OBVIOUS
  <2>2. Cardinality(B(p)) < Cardinality(M)
    <3>. HIDE DEF B
    <3>. QED
      BY <1>4, <2>1
  <2>. QED
    BY <2>2 DEF Index
<1>. QED
  BY <1>2, <1>3, <1>5, <1>6, <1>7

\* Every index is somebody's.
LEMMA IndexOnto ==
  ASSUME NEW rank \in Ranks, NEW M \in SUBSET Nodes, NEW k \in 0 .. Cardinality(M) - 1
  PROVE  \E p \in M : Index(rank, M, p) = k
<1>. DEFINE len == Cardinality(M)
            T == 0 .. len - 1
            f == [p \in M |-> Index(rank, M, p)]
<1>1. IsFiniteSet(M) /\ len \in Nat
  BY NodesAssumption, FS_Subset, FS_CardinalityType
<1>2. \A p, q \in M : f[p] \in T /\ (f[p] = f[q] => p = q)
  BY IndexOrder
<1>. HIDE DEF len
<1>3. f \in [M -> T]
  BY <1>2
<1>. HIDE DEF f
<1>4. f \in Injection(M, T)
  BY <1>2, <1>3 DEF Injection, IsInjective
<1>5. IsFiniteSet(T) /\ Cardinality(T) = len
  <2>1. 0 \in Int /\ len - 1 \in Int
    BY <1>1
  <2>2. IsFiniteSet(T) /\ Cardinality(T) = IF 0 > len - 1 THEN 0 ELSE len - 1 - 0 + 1
    BY <2>1, FS_Interval
  <2>. QED
    BY <1>1, <2>2
<1>. HIDE DEF T
<1>6. f \in Surjection(M, T)
  BY <1>4, <1>5, FS_Injection DEF len
<1>7. PICK p \in M : f[p] = k
  BY <1>6 DEF Surjection, T, len
<1>. QED
  BY <1>7 DEF f

\* An index in the tree without one of its nodes.
LEMMA IndexWithout ==
  ASSUME NEW rank \in Ranks, NEW M \in SUBSET Nodes, NEW f \in M, NEW p \in M \ {f}
  PROVE  /\ Index(rank, M \ {f}, p) =
              IF Index(rank, M, f) < Index(rank, M, p)
              THEN Index(rank, M, p) - 1 ELSE Index(rank, M, p)
         /\ Cardinality(M \ {f}) = Cardinality(M) - 1
<1>. DEFINE B == {m \in M : rank[m] < rank[p]}
            C == {m \in M \ {f} : rank[m] < rank[p]}
<1>1. IsFiniteSet(M) /\ B \in SUBSET M /\ C = B \ {f} /\ (f \in B <=> rank[f] < rank[p])
  BY NodesAssumption, FS_Subset
<1>. HIDE DEF B, C
<1>2. Cardinality(C) = IF f \in B THEN Cardinality(B) - 1 ELSE Cardinality(B)
  BY <1>1, FS_Subset, FS_RemoveElement
<1>3. Cardinality(M \ {f}) = Cardinality(M) - 1
  BY <1>1, FS_RemoveElement
<1>4. rank[f] < rank[p] <=> Index(rank, M, f) < Index(rank, M, p)
  BY IndexOrder
<1>5. Index(rank, M \ {f}, p) = Cardinality(C) /\ Index(rank, M, p) = Cardinality(B)
  BY DEF Index, B, C
<1>. QED
  BY <1>1, <1>2, <1>3, <1>4, <1>5

-----------------------------------------------------------------------------
(* Floods: what holds of one that nothing disturbed.                       *)

\* A node's index in the tree of all members of a flood.
Idx(f, p) == Index(f.rank, f.members, p)

\* The tree hands shreds down, but for an origin that is not the root.
Down(f, a, b) ==
  /\ a \in f.members /\ b \in f.members
  /\ \/ Idx(f, a) < Idx(f, b)
     \/ a = f.origin /\ Idx(f, b) = 0 /\ Idx(f, a) # 0

\* The indices a node that has the shred has passed it on to: the origin to the
\* root or, if that is the origin, to the next; the root to the next or, if that
\* is the origin, in its place; and everybody else as Relay says.
Tasks(f, n) ==
  LET len == Cardinality(f.members)
      i == Idx(f, n)
  IN IF n = f.origin THEN (IF i = 0 THEN {1} ELSE {0})
     ELSE IF i # 0 THEN Relay(i, len)
     ELSE IF Idx(f, f.origin) = 1 THEN Relay(1, len) ELSE {1}

\* A shred is under way, or waits for the dial that is under way, with the nodes
\* in state cc and w on the wire.
Coming(cc, w, n, p, s) ==
  \/ ShredTo(n, p, s) \in w
  \/ /\ cc[n].pending[p] # None /\ cc[n].pending[p].expected = p
     /\ s \in cc[n].pending[p].shreds /\ Dial(n, p) \in w

\* What is sent of a flood goes down the tree, and a node that has seen the shred
\* has seen to it that those it is to pass it on to have it or will.
FloodOK(f, s, cc, w) ==
  /\ f.origin \in f.members /\ s \in cc[f.origin].seen
  /\ \A d \in w : d.kind = "shred" /\ d.shred = s => Down(f, d.from, d.to)
  /\ \A n, a \in Nodes :
       cc[n].pending[a] # None /\ s \in cc[n].pending[a].shreds => Down(f, n, a)
  /\ \A n, p \in f.members :
       s \in cc[n].seen /\ Idx(f, p) \in Tasks(f, n) =>
         s \in cc[p].seen \/ Coming(cc, w, n, p, s)

FloodInv ==
  \A s \in Flooded(flood) : flood[s].clean =>
    FloodOK(flood[s], s, core, wire) /\ (Mover \in flood[s].members => up)

\* An index below the origin's passes the shred on to none that is not.
LEMMA BelowClosed ==
  ASSUME NEW f \in Floods, f.origin \in f.members, Idx(f, f.origin) >= 2,
         NEW p \in f.members, NEW q \in f.members,
         Idx(f, q) \in Relay(Idx(f, p), Cardinality(f.members)),
         p = f.origin \/ p \in Below(f)
  PROVE  q \in Below(f)
<1>. DEFINE len == Cardinality(f.members)
            at == Idx(f, f.origin)
            Closed(S) == Relay(at, len) \subseteq S /\ \A i \in S : Relay(i, len) \subseteq S
            D == {j \in 0 .. len - 1 : \A S \in SUBSET (0 .. len - 1) : Closed(S) => j \in S}
<1>1. f.rank \in Ranks /\ f.members \in SUBSET Nodes
  BY DEF Floods
<1>2. \A m \in f.members : Idx(f, m) \in 0 .. len - 1
  BY <1>1, IndexOrder DEF Idx
<1>3. Below(f) = At(f.rank, f.members, D)
  <2>1. ~(at <= 1)
    BY <1>1, IndexType DEF Idx
  <2>. QED
    BY <2>1 DEF Below, Idx
<1>. HIDE DEF Closed
<1>4. Below(f) = {m \in f.members : Idx(f, m) \in D}
  <2>. HIDE DEF D
  <2>. QED
    BY <1>3 DEF At, Idx
<1>5. ASSUME NEW S \in SUBSET (0 .. len - 1), Closed(S) PROVE Idx(f, q) \in S
  <2>1. Relay(at, len) \subseteq S /\ \A i \in S : Relay(i, len) \subseteq S
    BY <1>5 DEF Closed
  <2>2. p # f.origin => Idx(f, p) \in S
    BY <1>4, <1>5
  <2>. QED
    BY <2>1, <2>2
<1>6. Idx(f, q) \in D
  BY <1>2, <1>5
<1>. QED
  BY <1>4, <1>6

\* A flood that nothing is on its way of any more has reached everybody but the
\* nodes below the origin: the first that it missed would have been sent it.
LEMMA FloodReaches ==
  ASSUME NEW f \in Floods, NEW s, NEW cc, FloodOK(f, s, cc, {}),
         NEW n \in f.members \ Below(f)
  PROVE  s \in cc[n].seen
<1>. DEFINE len == Cardinality(f.members)
            at == Idx(f, f.origin)
            Seen(p) == s \in cc[p].seen
<1>1. f.rank \in Ranks /\ f.members \in SUBSET Nodes
  BY DEF Floods
<1>2. /\ \A p \in f.members : Idx(f, p) \in 0 .. len - 1 /\ len \in Nat
      /\ \A p, q \in f.members : Idx(f, p) = Idx(f, q) => p = q
  BY <1>1, IndexOrder, IndexType DEF Idx
<1>3. f.origin \in f.members /\ Seen(f.origin)
  BY DEF FloodOK
<1>4. \A m, p \in f.members : Seen(m) /\ Idx(f, p) \in Tasks(f, m) => Seen(p)
  <2>1. \A m, p : ~Coming(cc, {}, m, p, s)
    BY DEF Coming
  <2>. QED
    BY <2>1 DEF FloodOK
<1>5. PICK root \in f.members : Idx(f, root) = 0
  <2>1. 0 \in 0 .. len - 1
    BY <1>2, <1>3
  <2>. QED
    BY <1>1, <2>1, IndexOnto DEF Idx
<1>6. Seen(root)
  <2>1. CASE root = f.origin
    BY <1>3, <2>1
  <2>2. CASE root # f.origin
    <3>1. Idx(f, f.origin) # 0
      BY <1>2, <1>3, <1>5, <2>2
    <3>2. 0 \in Tasks(f, f.origin)
      BY <3>1 DEF Tasks
    <3>. QED
      BY <1>3, <1>4, <1>5, <3>2
  <2>. QED
    BY <2>1, <2>2
<1>. HIDE DEF Seen
<1>7. ASSUME NEW p \in f.members, Idx(f, p) = 1 PROVE Seen(p)
  <2>1. CASE p = f.origin
    BY <1>3, <2>1
  <2>2. CASE p # f.origin
    <3>1. Idx(f, f.origin) # 1
      BY <1>2, <1>3, <1>7, <2>2
    <3>2. 1 \in Tasks(f, root)
      BY <1>5, <3>1 DEF Tasks
    <3>. QED
      BY <1>4, <1>6, <1>7, <3>2
  <2>. QED
    BY <2>1, <2>2
<1>8. ASSUME NEW p \in f.members, p \notin Below(f), Idx(f, p) >= 2,
             \A q \in f.members \ Below(f) : Idx(f, q) < Idx(f, p) => Seen(q)
      PROVE  Seen(p)
  <2>. DEFINE j == Idx(f, p)
  <2>1. j \in Nat /\ j >= 2 /\ j <= len - 1 /\ len - 1 \in Nat
    BY <1>2, <1>8
  <2>. HIDE DEF j
  <2>2. j - 1 \in 1 .. (len - 1) - 1
    BY <1>2, <2>1
  <2>3. PICK k0 \in 0 .. (j - 1) - 1 : j - 1 \in RetransmitIndices(k0, len - 1)
    BY <2>1, <2>2, ParentExists
  <2>. DEFINE k == k0 + 1
  <2>4. k \in 1 .. j - 1 /\ k - 1 = k0 /\ k \in 0 .. len - 1 /\ k # 0
    BY <1>2, <2>1, <2>3
  <2>. HIDE DEF k
  <2>5. j \in Relay(k, len)
    <3>1. j = (j - 1) + 1
      BY <2>1
    <3>. QED
      BY <2>3, <2>4, <3>1 DEF Relay
  <2>6. PICK q \in f.members : Idx(f, q) = k
    BY <1>1, <2>4, IndexOnto DEF Idx
  <2>7. CASE q = f.origin /\ k = 1
    <3>1. root # f.origin /\ Idx(f, f.origin) = 1
      BY <1>5, <2>4, <2>6, <2>7
    <3>2. j \in Tasks(f, root)
      BY <1>5, <2>5, <2>7, <3>1 DEF Tasks
    <3>. QED
      BY <1>4, <1>6, <3>2 DEF j
  <2>8. CASE q = f.origin /\ k # 1
    <3>1. Idx(f, f.origin) >= 2
      BY <2>4, <2>6, <2>8
    <3>2. p \in Below(f)
      BY <1>3, <2>5, <2>6, <2>8, <3>1, BelowClosed DEF j
    <3>. QED
      BY <1>8, <3>2
  <2>9. CASE q # f.origin
    <3>1. q \notin Below(f)
      <4>1. CASE at >= 2
        BY <1>3, <1>8, <2>5, <2>6, <4>1, BelowClosed DEF j
      <4>2. CASE ~(at >= 2)
        <5>1. Index(f.rank, f.members, f.origin) <= 1
          BY <1>2, <1>3, <4>2 DEF Idx
        <5>. QED
          BY <5>1 DEF Below
      <4>. QED
        BY <4>1, <4>2
    <3>2. Seen(q)
      BY <1>8, <2>1, <2>4, <2>6, <3>1 DEF j
    <3>3. j \in Tasks(f, q)
      BY <2>4, <2>5, <2>6, <2>9 DEF Tasks
    <3>. QED
      BY <1>4, <3>2, <3>3 DEF j
  <2>. QED
    BY <2>7, <2>8, <2>9
<1>9. ASSUME ~Seen(n) PROVE FALSE
  <2>. DEFINE U == {p \in f.members \ Below(f) : ~Seen(p)}
              T == {Idx(f, p) : p \in U}
  <2>1. T \in SUBSET Nat /\ T # {}
    BY <1>2, <1>9
  <2>2. PICK x \in T : \A y \in T : x <= y
    <3>. HIDE DEF T
    <3>. QED
      BY <2>1, LeastNumber
  <2>3. PICK p \in U : Idx(f, p) = x
    OBVIOUS
  <2>4. \A q \in f.members \ Below(f) : Idx(f, q) < Idx(f, p) => Seen(q)
    <3>. SUFFICES ASSUME NEW q \in f.members \ Below(f), Idx(f, q) < Idx(f, p), ~Seen(q)
                  PROVE  FALSE
      OBVIOUS
    <3>1. Idx(f, q) \in T
      OBVIOUS
    <3>2. Idx(f, p) <= Idx(f, q)
      BY <2>2, <2>3, <3>1
    <3>. QED
      BY <1>2, <2>3, <3>2
  <2>5. p \in f.members /\ p \notin Below(f) /\ ~Seen(p)
    BY <2>3
  <2>6. Idx(f, p) # 0
    BY <1>2, <1>5, <1>6, <2>5
  <2>7. Idx(f, p) # 1
    BY <1>7, <2>5
  <2>8. Idx(f, p) >= 2
    BY <1>2, <2>5, <2>6, <2>7
  <2>. QED
    BY <1>8, <2>4, <2>5, <2>8
<1>. QED
  BY <1>9 DEF Seen

-----------------------------------------------------------------------------
(* Floods: what a node sends.                                              *)

\* What the tree asks of node n, when those are its targets.
TreeTargets(f, n, targets) ==
  /\ targets \subseteq f.members
  /\ \A p \in targets : Down(f, n, p)
  /\ \A p \in f.members : Idx(f, p) \in Tasks(f, n) => p \in targets

\* What the tree makes of the origin's peers (origin_peers).
LEMMA OriginTargets ==
  ASSUME NEW f \in Floods, NEW n \in f.members, n = f.origin,
         NEW targets, targets = OriginPeers(f.rank, n, f.members \ {n})
  PROVE  TreeTargets(f, n, targets)
<1>. DEFINE M == f.members
            len == Cardinality(M)
            rank == f.rank
<1>1. rank \in Ranks /\ M \in SUBSET Nodes /\ len \in Nat /\ Idx(f, n) \in Nat
  BY IndexType DEF Floods, Idx
<1>2. \A p \in M : Idx(f, p) \in 0 .. len - 1
  BY <1>1, IndexOrder DEF Idx
<1>3. (M \ {n}) \cup {n} = M
  OBVIOUS
<1>4. CASE Idx(f, n) = 0
  <2>1. targets = At(rank, M, RetransmitIndices(0, len))
    BY <1>3, <1>4 DEF OriginPeers, RetransmitPeers, Idx
  <2>2. targets = {p \in M : Idx(f, p) \in RetransmitIndices(0, len)}
    BY <2>1 DEF At, Idx
  <2>3. \A p \in targets : Idx(f, n) < Idx(f, p)
    <3>1. \A j \in RetransmitIndices(0, len) : 0 < j
      BY <1>1, IndicesLarger
    <3>. QED
      BY <1>4, <2>2, <3>1
  <2>4. Tasks(f, n) = {1}
    BY <1>4 DEF Tasks
  <2>5. 1 <= len - 1 => 1 \in RetransmitIndices(0, len)
    <3>1. 0 % Fanout = 0 /\ 0 \in 0 .. Fanout - 1 /\ (0 - 0) * Fanout + 0 + 1 + 1 * 0 = 1
      BY FanoutAssumption
    <3>. QED
      BY <1>1, <3>1 DEF RetransmitIndices
  <2>6. ASSUME NEW p \in M, Idx(f, p) = 1 PROVE p \in targets
    <3>1. 1 <= len - 1
      BY <1>1, <1>2, <2>6
    <3>. QED
      BY <2>2, <2>5, <2>6, <3>1
  <2>. QED
    BY <2>2, <2>3, <2>4, <2>6 DEF Down, TreeTargets
<1>5. CASE Idx(f, n) # 0
  <2>1. targets = At(rank, M, {0})
    BY <1>3, <1>5 DEF OriginPeers, Idx
  <2>2. targets = {p \in M : Idx(f, p) = 0}
    BY <2>1 DEF At, Idx
  <2>3. Tasks(f, n) = {0}
    BY <1>5 DEF Tasks
  <2>. QED
    BY <1>5, <2>2, <2>3 DEF Down, TreeTargets
<1>. QED
  BY <1>4, <1>5

\* What it makes of the peers of a node that heard of the shred from another
\* (handle_frame, retransmit_peers).
LEMMA RelayTargets ==
  ASSUME NEW f \in Floods, NEW n \in f.members, n # f.origin, f.origin \in f.members,
         NEW from \in f.members, Down(f, from, n),
         NEW targets, targets = RetransmitPeers(f.rank, n, (f.members \ {n}) \ {from})
  PROVE  TreeTargets(f, n, targets)
<1>. DEFINE M == f.members
            W == M \ {from}
            len == Cardinality(M)
            rank == f.rank
            i == Idx(f, n)
            h == Idx(f, from)
            R == RetransmitIndices(Index(rank, W, n), len - 1)
<1>1. rank \in Ranks /\ M \in SUBSET Nodes /\ W \in SUBSET Nodes /\ len \in Nat
  BY IndexType DEF Floods
<1>2. \A p \in M : Idx(f, p) \in 0 .. len - 1
  BY <1>1, IndexOrder DEF Idx
<1>3. /\ n \in M /\ from \in M /\ n # from
      /\ h < i \/ (from = f.origin /\ i = 0 /\ h # 0)
  <2>1. h \in Nat /\ i \in Nat
    BY <1>2
  <2>. QED
    BY <2>1 DEF Down
<1>4. ((M \ {n}) \ {from}) \cup {n} = W
  BY <1>3
<1>5. \A p \in W : Index(rank, W, p) = IF h < Idx(f, p) THEN Idx(f, p) - 1 ELSE Idx(f, p)
  BY <1>1, <1>3, IndexWithout DEF Idx
<1>6. Cardinality(W) = len - 1
  BY <1>1, <1>3, IndexWithout
<1>7. targets = {p \in W : Index(rank, W, p) \in R}
  BY <1>4, <1>6 DEF RetransmitPeers, At
<1>8. Index(rank, W, n) \in Nat /\ len - 1 \in Nat
  BY <1>1, <1>6, IndexType
<1>9. \A j \in R : Index(rank, W, n) < j
  BY <1>8, IndicesLarger
<1>. HIDE DEF R
<1>10. ASSUME NEW p \in targets PROVE p \in M /\ Down(f, n, p)
  <2>1. p \in W /\ n \in W /\ Index(rank, W, n) < Index(rank, W, p)
    BY <1>3, <1>7, <1>9
  <2>2. rank[n] < rank[p]
    BY <1>1, <2>1, IndexOrder
  <2>3. Index(rank, M, n) < Index(rank, M, p)
    BY <1>1, <1>3, <2>1, <2>2, IndexOrder
  <2>. QED
    BY <1>3, <2>1, <2>3 DEF Down, Idx
<1>11. ASSUME NEW p \in M, Idx(f, p) \in Tasks(f, n) PROVE p \in targets
  <2>. DEFINE x == Idx(f, p)
  <2>0. x \in Nat /\ i \in Nat /\ h \in Nat /\ x <= len - 1 /\ h <= len - 1
    BY <1>2, <1>3
  <2>1. CASE h < i
    <3>1. x \in Relay(i, len)
      BY <1>11, <2>0, <2>1 DEF Tasks
    <3>2. PICK j \in RetransmitIndices(i - 1, len - 1) : x = j + 1
      BY <2>0, <2>1, <3>1 DEF Relay
    <3>3. Index(rank, W, n) = i - 1
      BY <1>3, <1>5, <2>1
    <3>4. j \in R /\ i - 1 < j /\ j \in Nat
      BY <1>8, <3>2, <3>3, IndicesLarger DEF R
    <3>5. h < x
      BY <2>0, <2>1, <3>2, <3>4
    <3>6. p \in W
      BY <2>0, <3>5
    <3>7. Index(rank, W, p) = j
      BY <1>5, <2>0, <3>2, <3>4, <3>5, <3>6
    <3>. QED
      BY <1>7, <3>4, <3>6, <3>7
  <2>2. CASE from = f.origin /\ i = 0 /\ h # 0
    <3>1. Index(rank, W, n) = 0
      BY <1>3, <1>5, <2>0, <2>2
    <3>2. R = RetransmitIndices(0, len - 1)
      BY <3>1 DEF R
    <3>3. CASE h = 1
      <4>1. x \in Relay(1, len)
        BY <1>11, <2>2, <3>3 DEF Tasks
      <4>2. PICK j \in RetransmitIndices(0, len - 1) : x = j + 1
        BY <4>1 DEF Relay
      <4>3. j \in R /\ 0 < j /\ j \in Nat
        BY <1>8, <3>2, <4>2, IndicesLarger
      <4>4. h < x
        BY <3>3, <4>2, <4>3
      <4>5. p \in W
        BY <2>0, <4>4
      <4>6. Index(rank, W, p) = j
        BY <1>5, <4>2, <4>3, <4>4, <4>5
      <4>. QED
        BY <1>7, <4>3, <4>5, <4>6
    <3>4. CASE h # 1
      <4>1. x = 1
        BY <1>11, <2>2, <3>4 DEF Tasks
      <4>2. p \in W
        BY <3>4, <4>1
      <4>3. Index(rank, W, p) = 1
        BY <1>5, <2>0, <2>2, <4>1, <4>2
      <4>4. 1 \in RetransmitIndices(0, len - 1)
        <5>1. 0 % Fanout = 0 /\ 0 \in 0 .. Fanout - 1 /\ (0 - 0) * Fanout + 0 + 1 + 1 * 0 = 1
          BY FanoutAssumption
        <5>2. 1 \in 0 .. (len - 1) - 1
          BY <1>1, <2>0, <2>2, <3>4
        <5>. QED
          BY <5>1, <5>2 DEF RetransmitIndices
      <4>. QED
        BY <1>7, <3>2, <4>2, <4>3, <4>4
    <3>. QED
      BY <3>3, <3>4
  <2>. QED
    BY <1>3, <2>1, <2>2
<1>. QED
  BY <1>10, <1>11 DEF TreeTargets

\* What waits at address a after a shred was sent to the targets.
WaitsAfter(n, c, s, targets, e, a) ==
  IF Dialled(n, c, targets, a) = {} \/ a \in c.conn THEN e.pending[a] = c.pending[a]
  ELSE /\ e.pending[a] # None
       /\ e.pending[a].shreds =
            {s} \cup (IF c.pending[a] = None THEN {} ELSE c.pending[a].shreds)
       /\ IF c.pending[a] = None THEN e.pending[a].expected \in Dialled(n, c, targets, a)
          ELSE e.pending[a].expected = c.pending[a].expected

\* What sending leaves waiting (send_to_peer).
LEMMA SentWaits ==
  ASSUME NEW n \in Nodes, NEW c \in Cores, NEW rank \in Ranks, NEW s \in Shreds,
         NEW targets \in SUBSET Nodes, NEW e, e = Sent(n, c, rank, s, targets),
         NEW a \in Nodes
  PROVE  WaitsAfter(n, c, s, targets, e, a)
<1>. DEFINE D(b) == Dialled(n, c, targets, b)
            First(b) == CHOOSE p \in D(b) : \A q \in D(b) : rank[p] <= rank[q]
            Waits(b) == IF D(b) = {} \/ b \in c.conn THEN c.pending[b]
                        ELSE IF c.pending[b] = None THEN [expected |-> First(b), shreds |-> {s}]
                        ELSE [c.pending[b] EXCEPT !.shreds = @ \cup {s}]
            Confirms(b) == IF D(b) = {} \/ c.confirming[b] # None
                           THEN c.confirming[b] ELSE First(b)
            P == [b \in Nodes |-> Waits(b)]
            C == [b \in Nodes |-> Confirms(b)]
<1>1. e = [c EXCEPT !.pending = P, !.confirming = C]
  BY Zenon DEF Sent
<1>2. D(a) \subseteq Nodes
  BY DEF Dialled
<1>3. D(a) # {} => First(a) \in D(a)
  <2>. HIDE DEF D
  <2>. QED
    BY <1>2, LeastExists
<1>4. P[a] = Waits(a)
  OBVIOUS
<1>. HIDE DEF D, First, P, C
<1>5. e.pending = P
  <2>. DEFINE f == [c EXCEPT !.pending = P]
  <2>1. f = [conn |-> c.conn, pending |-> P, gossip |-> c.gossip,
             confirming |-> c.confirming, quarantined |-> c.quarantined, seen |-> c.seen]
    BY DEF Cores
  <2>2. e = [f EXCEPT !.confirming = C]
    BY <1>1, Zenon
  <2>. HIDE DEF f
  <2>. QED
    BY <2>1, <2>2
<1>6. c.pending[a] \in [expected : Nodes, shreds : SUBSET Shreds] \cup {None}
  BY CoreFields
<1>7. None \notin [expected : Nodes, shreds : SUBSET Shreds]
  BY EmptyHanded
<1>8. e.pending[a] = Waits(a)
  BY <1>4, <1>5
<1>9. CASE D(a) = {} \/ a \in c.conn
  BY <1>8, <1>9 DEF WaitsAfter, D
<1>10. CASE D(a) # {} /\ a \notin c.conn /\ c.pending[a] = None
  <2>1. e.pending[a] = [expected |-> First(a), shreds |-> {s}]
    BY <1>8, <1>10
  <2>2. e.pending[a] \in [expected : Nodes, shreds : SUBSET Shreds]
    BY <1>2, <1>3, <1>10, <2>1
  <2>3. e.pending[a].expected = First(a) /\ e.pending[a].shreds = {s}
    BY <2>1
  <2>4. e.pending[a].shreds = {s} \cup {}
    BY <2>3
  <2>. QED
    BY <1>3, <1>7, <1>10, <2>2, <2>3, <2>4 DEF WaitsAfter, D
<1>11. CASE D(a) # {} /\ a \notin c.conn /\ c.pending[a] # None
  <2>. DEFINE old == c.pending[a]
  <2>1. e.pending[a] = [old EXCEPT !.shreds = @ \cup {s}]
    BY <1>8, <1>11
  <2>2. old \in [expected : Nodes, shreds : SUBSET Shreds]
    BY <1>6, <1>11
  <2>. HIDE DEF old
  <2>3. /\ e.pending[a] \in [expected : Nodes, shreds : SUBSET Shreds]
        /\ e.pending[a].expected = old.expected /\ e.pending[a].shreds = {s} \cup old.shreds
    BY <2>1, <2>2
  <2>. QED
    BY <1>7, <1>11, <2>3 DEF WaitsAfter, D, old
<1>. QED
  BY <1>9, <1>10, <1>11

\* A node that agrees with the origin sends the shred to all its targets, and has
\* it wait nowhere else.
LEMMA SentCovers ==
  ASSUME NEW n \in Nodes, NEW c \in Cores, NEW rank \in Ranks, NEW s \in Shreds,
         NEW M \in SUBSET Nodes, Agrees(n, c, M),
         NEW targets \in SUBSET (M \ {n}), NEW e, e = Sent(n, c, rank, s, targets)
  PROVE  /\ \A a \in Nodes :
              e.pending[a] # None /\ s \in e.pending[a].shreds =>
                \/ c.pending[a] # None /\ s \in c.pending[a].shreds
                \/ a \in targets
         /\ \A p \in targets :
              \/ ShredTo(n, p, s) \in Sending(n, c, s, targets)
              \/ /\ e.pending[p] # None /\ e.pending[p].expected = p
                 /\ s \in e.pending[p].shreds /\ Dial(n, p) \in Sending(n, c, s, targets)
<1>1. targets \in SUBSET Nodes
  OBVIOUS
<1>2. \A a \in Nodes : WaitsAfter(n, c, s, targets, e, a)
  BY <1>1, SentWaits
<1>3. ASSUME NEW p \in targets
      PROVE  \/ p \in c.conn \ c.quarantined
             \/ /\ DirectAddr(n, c, p) = p /\ p \notin c.conn
                /\ p \notin c.quarantined
                /\ c.pending[p] = None \/ c.pending[p].expected = p
  <2>1. p \in Reached(n, c) /\ p # n
    BY DEF Agrees
  <2>2. /\ p \in UsablePeers(n, c)
        /\ \/ p \in c.conn \ c.quarantined
           \/ /\ DirectAddr(n, c, p) = p
              /\ c.pending[p] = None \/ c.pending[p].expected = p
    BY <2>1 DEF Reached
  <2>. QED
    BY <2>2 DEF UsablePeers
<1>4. ASSUME NEW a \in Nodes, Dialled(n, c, targets, a) # {}
      PROVE  Dialled(n, c, targets, a) = {a} /\ a \in targets /\ a \notin c.conn
             /\ (c.pending[a] = None \/ c.pending[a].expected = a)
  BY <1>3, <1>4 DEF Dialled
<1>5. ASSUME NEW a \in Nodes, e.pending[a] # None, s \in e.pending[a].shreds, a \notin targets
      PROVE  c.pending[a] # None /\ s \in c.pending[a].shreds
  BY <1>2, <1>4, <1>5 DEF WaitsAfter
<1>6. ASSUME NEW p \in targets, p \notin c.conn \ c.quarantined
      PROVE  /\ e.pending[p] # None /\ e.pending[p].expected = p
             /\ s \in e.pending[p].shreds /\ Dial(n, p) \in Sending(n, c, s, targets)
  <2>1. p \in Dialled(n, c, targets, p) /\ p \in Nodes /\ p \notin c.conn
    BY <1>3, <1>6 DEF Dialled
  <2>2. Dialled(n, c, targets, p) = {p} /\ (c.pending[p] = None \/ c.pending[p].expected = p)
    BY <1>4, <2>1
  <2>3. WaitsAfter(n, c, s, targets, e, p)
    BY <1>2, <2>1
  <2>4. Dial(n, p) \in Sending(n, c, s, targets)
    BY <2>1 DEF Sending
  <2>. QED
    BY <2>1, <2>2, <2>3, <2>4 DEF WaitsAfter
<1>7. ASSUME NEW p \in targets, p \in c.conn \ c.quarantined
      PROVE  ShredTo(n, p, s) \in Sending(n, c, s, targets)
  BY <1>7 DEF Sending
<1>. QED
  BY <1>5, <1>6, <1>7

-----------------------------------------------------------------------------
(* Floods: connections and other shreds.                                   *)

\* The nodes, when connections were made, with v on the wire that was w: what
\* waited where it was meant for has gone out, and nothing else.
Handed(cc, w, v) ==
  /\ \A k \in Nodes : cc[k].seen = core[k].seen
  /\ \A k, a \in Nodes :
       \/ cc[k].pending[a] = core[k].pending[a]
       \/ /\ cc[k].pending[a] = None
          /\ core[k].pending[a] # None /\ core[k].pending[a].expected = a =>
               \A s \in core[k].pending[a].shreds : ShredTo(k, a, s) \in v
  /\ w \subseteq v
  /\ \A b \in v \ w : \E k, a \in Nodes :
       /\ core[k].pending[a] # None
       /\ \E s \in core[k].pending[a].shreds : b = ShredTo(k, a, s)

\* Both ends of a new connection send what waited for it (HighSeamNet::connect).
LEMMA ConnectedHands ==
  ASSUME MeshTypes, NEW n \in Nodes, NEW m \in Nodes, n # m, NEW w,
         NEW cc, cc = Connected(n, m)
  PROVE  /\ Handed(cc, w, w \cup Deferred(n, m))
         /\ m \notin core[n].conn => cc[n].pending[m] = None
         /\ n \notin core[m].conn => n \in cc[m].conn \/ n \in cc[m].quarantined
<1>. DEFINE e == Establish(core[n], m)
            f == Establish(core[m], n)
            v == w \cup Deferred(n, m)
<1>1. core \in [Nodes -> Cores] /\ \A k \in Nodes : CoreOK(k, core[k])
  BY DEF MeshTypes
<1>2. cc = [[core EXCEPT ![n] = e] EXCEPT ![m] = f]
  <2>1. cc = [[core EXCEPT ![n] = e] EXCEPT ![m] = Establish(@, n)]
    BY Zenon DEF Connected
  <2>. HIDE DEF e, f
  <2>2. [core EXCEPT ![n] = e][m] = core[m]
    BY <1>1
  <2>. QED
    BY <2>1, <2>2 DEF f
<1>3. ASSUME NEW c \in Cores, NEW p \in Nodes, NEW x, x = Establish(c, p)
      PROVE  /\ x.seen = c.seen
             /\ \A a \in Nodes :
                  \/ x.pending[a] = c.pending[a]
                  \/ a = p /\ p \notin c.conn /\ x.pending[a] = None
             /\ p \notin c.conn => /\ x.pending[p] = None
                                   /\ p \in x.conn \/ p \in x.quarantined
  <2>1. CASE p \in c.conn
    <3>1. x = c
      BY <1>3, <2>1 DEF Establish
    <3>. QED
      BY <2>1, <3>1
  <2>2. CASE p \notin c.conn
    <3>1. EstablishedAs(c, p, x)
      BY <1>3, <2>2, EstablishFields
    <3>2. c.pending \in [Nodes -> [expected : Nodes, shreds : SUBSET Shreds] \cup {None}]
      BY CoreFields
    <3>. QED
      BY <2>2, <3>1, <3>2 DEF EstablishedAs
  <2>. QED
    BY <2>1, <2>2
<1>4. /\ e.seen = core[n].seen
      /\ \A a \in Nodes :
           \/ e.pending[a] = core[n].pending[a]
           \/ a = m /\ m \notin core[n].conn /\ e.pending[a] = None
      /\ m \notin core[n].conn => e.pending[m] = None
  BY <1>1, <1>3
<1>5. /\ f.seen = core[m].seen
      /\ \A a \in Nodes :
           \/ f.pending[a] = core[m].pending[a]
           \/ a = n /\ n \notin core[m].conn /\ f.pending[a] = None
      /\ n \notin core[m].conn => n \in f.conn \/ n \in f.quarantined
  BY <1>1, <1>3
<1>. HIDE DEF e, f
<1>6. cc[n] = e /\ cc[m] = f /\ \A k \in Nodes \ {n, m} : cc[k] = core[k]
  BY <1>1, <1>2
<1>7. ASSUME NEW k \in Nodes, NEW a \in Nodes, cc[k].pending[a] # core[k].pending[a]
      PROVE  /\ cc[k].pending[a] = None
             /\ core[k].pending[a] # None /\ core[k].pending[a].expected = a =>
                  \A s \in core[k].pending[a].shreds : ShredTo(k, a, s) \in v
  <2>1. \/ k = n /\ a = m /\ m \notin core[n].conn /\ cc[k].pending[a] = None
        \/ k = m /\ a = n /\ n \notin core[m].conn /\ cc[k].pending[a] = None
    BY <1>4, <1>5, <1>6, <1>7
  <2>2. core[k].pending[a] # None /\ core[k].pending[a].expected = a =>
          Released(core[k], a) = core[k].pending[a].shreds
    BY <2>1 DEF Released
  <2>. QED
    BY <2>1, <2>2 DEF Deferred
<1>8. ASSUME NEW b \in v \ w
      PROVE  \E k, a \in Nodes :
               /\ core[k].pending[a] # None
               /\ \E s \in core[k].pending[a].shreds : b = ShredTo(k, a, s)
  <2>1. \/ \E s \in Released(core[n], m) : b = ShredTo(n, m, s)
        \/ \E s \in Released(core[m], n) : b = ShredTo(m, n, s)
    BY <1>8 DEF Deferred
  <2>2. \A c, p : Released(c, p) # {} =>
          c.pending[p] # None /\ Released(c, p) = c.pending[p].shreds
    BY DEF Released
  <2>. QED
    BY <2>1, <2>2
<1>9. \A k \in Nodes : cc[k].seen = core[k].seen
  BY <1>4, <1>5, <1>6
<1>10. Handed(cc, w, v)
  BY <1>7, <1>8, <1>9 DEF Handed
<1>. QED
  BY <1>4, <1>5, <1>6, <1>10

\* So does the end a datagram arrives at without a connection.
LEMMA MetHands ==
  ASSUME MeshTypes, NEW d \in wire, d.kind # "dial"
  PROVE  /\ Handed(Met(d), wire \ {d}, Arrival(d))
         /\ d.from \in Met(d)[d.to].conn \/ d.from \in Met(d)[d.to].quarantined
<1>1. d.from \in Nodes /\ d.to \in Nodes /\ d.from # d.to
  BY OnWire
<1>2. CASE d.from \in core[d.to].conn
  <2>1. Met(d) = core /\ Arrival(d) = wire \ {d}
    BY <1>2 DEF Met, Arrival
  <2>. QED
    BY <1>2, <2>1 DEF Handed
<1>3. CASE d.from \notin core[d.to].conn
  <2>1. Met(d) = Connected(d.from, d.to) /\ Arrival(d) = (wire \ {d}) \cup Deferred(d.from, d.to)
    BY <1>3 DEF Met, Arrival
  <2>. DEFINE cc == Connected(d.from, d.to)
              w == wire \ {d}
              v == w \cup Deferred(d.from, d.to)
  <2>2. /\ Handed(cc, w, v)
        /\ d.from \notin core[d.to].conn =>
             d.from \in cc[d.to].conn \/ d.from \in cc[d.to].quarantined
    <3>. DEFINE n == d.from
                m == d.to
    <3>1. n \in Nodes /\ m \in Nodes /\ n # m
      BY <1>1
    <3>. HIDE DEF n, m, w
    <3>2. /\ Handed(Connected(n, m), w, w \cup Deferred(n, m))
          /\ n \notin core[m].conn =>
               n \in Connected(n, m)[m].conn \/ n \in Connected(n, m)[m].quarantined
      BY <3>1, ConnectedHands
    <3>. QED
      BY <3>2 DEF n, m
  <2>3. Met(d) = cc /\ Arrival(d) = v
    BY <2>1
  <2>. HIDE DEF cc, w, v
  <2>4. w = wire \ {d}
    BY DEF w
  <2>. QED
    BY <1>3, <2>2, <2>3, <2>4
<1>. QED
  BY <1>2, <1>3

\* FloodOK, but for the origin and the node the shred d has arrived at.
FloodBut(f, s, cc, w, d) ==
  /\ \A b \in w : b.kind = "shred" /\ b.shred = s => Down(f, b.from, b.to)
  /\ \A n, a \in Nodes :
       cc[n].pending[a] # None /\ s \in cc[n].pending[a].shreds => Down(f, n, a)
  /\ \A n, p \in f.members :
       s \in cc[n].seen /\ Idx(f, p) \in Tasks(f, n) =>
         s \in cc[p].seen \/ Coming(cc, w, n, p, s) \/ d = ShredTo(n, p, s)

\* A flood goes on when connections are made.
LEMMA FloodHanded ==
  ASSUME NEW f \in Floods, NEW s, FloodOK(f, s, core, wire), NEW d,
         NEW cc, NEW v, Handed(cc, wire \ {d}, v),
         \A n, p \in Nodes : d = Dial(n, p) => cc[n].pending[p] = None
  PROVE  /\ FloodBut(f, s, cc, v, d)
         /\ f.origin \in f.members /\ s \in cc[f.origin].seen
<1>1. f.members \subseteq Nodes
  BY DEF Floods
<1>2. \A k \in Nodes : cc[k].seen = core[k].seen
  BY DEF Handed
<1>3. \A b \in wire : b.kind = "shred" /\ b.shred = s => Down(f, b.from, b.to)
  BY DEF FloodOK
<1>4. \A n, a \in Nodes :
        core[n].pending[a] # None /\ s \in core[n].pending[a].shreds => Down(f, n, a)
  BY DEF FloodOK
<1>5. ASSUME NEW b \in v, b.kind = "shred", b.shred = s PROVE Down(f, b.from, b.to)
  <2>1. CASE b \in wire
    BY <1>3, <1>5, <2>1
  <2>2. CASE b \notin wire
    <3>1. PICK k \in Nodes, a \in Nodes :
            /\ core[k].pending[a] # None
            /\ \E t \in core[k].pending[a].shreds : b = ShredTo(k, a, t)
      BY <2>2 DEF Handed
    <3>2. b = ShredTo(k, a, s) /\ s \in core[k].pending[a].shreds
      BY <1>5, <3>1 DEF ShredTo
    <3>3. b.from = k /\ b.to = a
      BY <3>2 DEF ShredTo
    <3>. QED
      BY <1>4, <3>1, <3>2, <3>3
  <2>. QED
    BY <2>1, <2>2
<1>6. ASSUME NEW n \in Nodes, NEW a \in Nodes, cc[n].pending[a] # None,
             s \in cc[n].pending[a].shreds
      PROVE  Down(f, n, a)
  <2>1. cc[n].pending[a] = core[n].pending[a]
    BY <1>6 DEF Handed
  <2>. QED
    BY <1>4, <1>6, <2>1
<1>7. ASSUME NEW n \in f.members, NEW p \in f.members,
             s \in cc[n].seen, Idx(f, p) \in Tasks(f, n), s \notin cc[p].seen,
             d # ShredTo(n, p, s)
      PROVE  Coming(cc, v, n, p, s)
  <2>1. n \in Nodes /\ p \in Nodes
    BY <1>1
  <2>2. Coming(core, wire, n, p, s)
    BY <1>2, <1>7, <2>1 DEF FloodOK
  <2>3. CASE ShredTo(n, p, s) \in wire
    BY <1>7, <2>3 DEF Coming, Handed
  <2>4. CASE /\ core[n].pending[p] # None /\ core[n].pending[p].expected = p
             /\ s \in core[n].pending[p].shreds /\ Dial(n, p) \in wire
    <3>1. CASE cc[n].pending[p] = core[n].pending[p]
      <4>1. d # Dial(n, p)
        BY <2>1, <2>4, <3>1
      <4>2. Dial(n, p) \in v
        BY <2>4, <4>1 DEF Handed
      <4>. QED
        BY <2>4, <3>1, <4>2 DEF Coming
    <3>2. CASE cc[n].pending[p] # core[n].pending[p]
      <4>1. ShredTo(n, p, s) \in v
        BY <2>1, <2>4, <3>2 DEF Handed
      <4>. QED
        BY <4>1 DEF Coming
    <3>. QED
      BY <3>1, <3>2
  <2>. QED
    BY <2>2, <2>3, <2>4 DEF Coming
<1>8. f.origin \in f.members /\ s \in cc[f.origin].seen
  BY <1>1, <1>2 DEF FloodOK
<1>. QED
  BY <1>5, <1>6, <1>7, <1>8 DEF FloodBut

\* A shred that has arrived where it is known, or that is of another flood,
\* leaves nothing to do.
LEMMA FloodButDone ==
  ASSUME NEW f, NEW s, NEW cc, NEW v, NEW d, FloodBut(f, s, cc, v, d),
         f.origin \in f.members, s \in cc[f.origin].seen,
         d.kind = "shred" /\ d.shred = s => s \in cc[d.to].seen
  PROVE  FloodOK(f, s, cc, v)
<1>1. \A n, p : d = ShredTo(n, p, s) => d.kind = "shred" /\ d.shred = s /\ d.to = p
  BY DEF ShredTo
<1>. QED
  BY <1>1 DEF FloodBut, FloodOK

\* Nor does a node that learns of Mover, and tells others.
LEMMA FloodSame ==
  ASSUME NEW f \in Floods, NEW s, NEW cc, NEW v, FloodOK(f, s, cc, v), NEW xx, NEW w,
         \A k \in Nodes : xx[k].seen = cc[k].seen /\ xx[k].pending = cc[k].pending,
         v \subseteq w, \A b \in w \ v : b.kind # "shred"
  PROVE  FloodOK(f, s, xx, w)
<1>1. f.members \subseteq Nodes
  BY DEF Floods
<1>2. \A n, p \in Nodes : Coming(cc, v, n, p, s) => Coming(xx, w, n, p, s)
  BY DEF Coming
<1>. QED
  BY <1>1, <1>2 DEF FloodOK

\* Sending changes nothing about what a node has seen.
LEMMA SentSeen ==
  ASSUME NEW n \in Nodes, NEW c \in Cores, NEW rank \in Ranks, NEW s \in Shreds,
         NEW targets \in SUBSET Nodes
  PROVE  Sent(n, c, rank, s, targets).seen = c.seen
BY SentFields

\* A node that sends another shred goes on with this one.
LEMMA SentOther ==
  ASSUME NEW f \in Floods, NEW t, NEW cc \in [Nodes -> Cores], NEW v, FloodOK(f, t, cc, v),
         NEW n \in Nodes, NEW s \in Shreds, s # t, NEW rank \in Ranks,
         NEW targets \in SUBSET Nodes,
         NEW c, c = [cc[n] EXCEPT !.seen = @ \cup {s}],
         NEW e, e = Sent(n, c, rank, s, targets),
         NEW xx, xx = [cc EXCEPT ![n] = e]
  PROVE  FloodOK(f, t, xx, v \cup Sending(n, c, s, targets))
<1>. DEFINE w == v \cup Sending(n, c, s, targets)
<1>1. c \in Cores /\ c.pending = cc[n].pending /\ c.seen = cc[n].seen \cup {s}
  BY SeenFields
<1>2. e.seen = c.seen
  <2>1. \A b \in Cores : Sent(n, b, rank, s, targets).seen = b.seen
    BY SentSeen
  <2>. QED
    BY <1>1, <2>1, Zenon
<1>3. \A a \in Nodes : WaitsAfter(n, c, s, targets, e, a)
  BY <1>1, SentWaits
<1>4. xx[n] = e /\ \A k \in Nodes \ {n} : xx[k] = cc[k]
  OBVIOUS
<1>5. \A k \in Nodes : t \in xx[k].seen <=> t \in cc[k].seen
  BY <1>1, <1>2, <1>4
<1>6. \A a \in Nodes : e.pending[a] # None /\ t \in e.pending[a].shreds =>
                         c.pending[a] # None /\ t \in c.pending[a].shreds
  BY <1>3 DEF WaitsAfter
<1>7. \A a \in Nodes : c.pending[a] # None /\ t \in c.pending[a].shreds =>
        /\ e.pending[a] # None /\ t \in e.pending[a].shreds
        /\ e.pending[a].expected = c.pending[a].expected
  BY <1>3 DEF WaitsAfter
<1>8. \A k, a \in Nodes : xx[k].pending[a] # None /\ t \in xx[k].pending[a].shreds =>
                            cc[k].pending[a] # None /\ t \in cc[k].pending[a].shreds
  BY <1>1, <1>4, <1>6
<1>9. \A k, a \in Nodes : cc[k].pending[a] # None /\ t \in cc[k].pending[a].shreds =>
        /\ xx[k].pending[a] # None /\ t \in xx[k].pending[a].shreds
        /\ xx[k].pending[a].expected = cc[k].pending[a].expected
  <2>. SUFFICES ASSUME NEW k \in Nodes, NEW a \in Nodes, cc[k].pending[a] # None,
                       t \in cc[k].pending[a].shreds
                PROVE  /\ xx[k].pending[a] # None /\ t \in xx[k].pending[a].shreds
                       /\ xx[k].pending[a].expected = cc[k].pending[a].expected
    OBVIOUS
  <2>1. CASE k = n
    <3>1. xx[k] = e /\ cc[k].pending = c.pending
      BY <1>1, <1>4, <2>1
    <3>2. c.pending[a] # None /\ t \in c.pending[a].shreds
      BY <3>1, Zenon
    <3>3. /\ e.pending[a] # None /\ t \in e.pending[a].shreds
          /\ e.pending[a].expected = c.pending[a].expected
      BY <1>7, <3>2, Zenon
    <3>. QED
      BY <3>1, <3>3, Zenon
  <2>2. CASE k # n
    <3>1. xx[k] = cc[k]
      BY <1>4, <2>2
    <3>. QED
      BY <3>1, Zenon
  <2>. QED
    BY <2>1, <2>2
<1>10. \A k, a \in Nodes : Coming(cc, v, k, a, t) => Coming(xx, w, k, a, t)
  BY <1>9 DEF Coming
<1>11. \A b \in Sending(n, c, s, targets) : b.kind = "shred" => b.shred = s
  BY DEF Sending, ShredTo, Dial
<1>12. f.members \subseteq Nodes
  BY DEF Floods
<1>. HIDE DEF w
<1>13. \A b \in w : b.kind = "shred" /\ b.shred = t => b \in v
  BY <1>11 DEF w
<1>14. FloodOK(f, t, xx, w)
  BY <1>5, <1>8, <1>10, <1>12, <1>13 DEF FloodOK
<1>. QED
  BY <1>14 DEF w

-----------------------------------------------------------------------------
(* Floods: each step.                                                      *)

\* What a node has seen does not matter for whom it knows.
LEMMA SeenAgrees ==
  ASSUME NEW n, NEW c \in Cores, NEW s \in Shreds, NEW e, e = [c EXCEPT !.seen = @ \cup {s}],
         NEW M
  PROVE  UsablePeers(n, e) = UsablePeers(n, c) /\ (Agrees(n, e, M) <=> Agrees(n, c, M))
<1>1. /\ e.pending = c.pending /\ e.conn = c.conn /\ e.gossip = c.gossip
      /\ e.quarantined = c.quarantined
  BY SeenFields
<1>2. \A p : DirectAddr(n, e, p) = DirectAddr(n, c, p)
  BY <1>1 DEF DirectAddr
<1>3. UsablePeers(n, e) = UsablePeers(n, c)
  BY <1>1, <1>2 DEF UsablePeers
<1>4. Reached(n, e) = Reached(n, c)
  BY <1>1, <1>2, <1>3 DEF Reached
<1>. QED
  BY <1>3, <1>4 DEF Agrees

\* Node n, which was in state c, has seen shred s and sent it to all targets, with
\* w as what it put on the wire.
SentAs(n, c, s, targets, e, w) ==
  /\ e.seen = c.seen \cup {s}
  /\ \A a \in Nodes :
       e.pending[a] # None /\ s \in e.pending[a].shreds =>
         \/ c.pending[a] # None /\ s \in c.pending[a].shreds
         \/ a \in targets
  /\ \A p \in targets :
       \/ ShredTo(n, p, s) \in w
       \/ /\ e.pending[p] # None /\ e.pending[p].expected = p
          /\ s \in e.pending[p].shreds /\ Dial(n, p) \in w
  /\ \A b \in w : b.kind = "shred" => \E p \in targets : b.from = n /\ b.to = p

\* That is what a node does that agrees with the origin.
LEMMA AgreeingSends ==
  ASSUME NEW n \in Nodes, NEW c \in Cores, NEW rank \in Ranks, NEW s \in Shreds,
         NEW M \in SUBSET Nodes, Agrees(n, c, M), NEW targets \in SUBSET (M \ {n}),
         NEW after, after = [c EXCEPT !.seen = @ \cup {s}]
  PROVE  SentAs(n, c, s, targets, Sent(n, after, rank, s, targets),
                Sending(n, after, s, targets))
<1>1. /\ after \in Cores /\ after.pending = c.pending /\ after.seen = c.seen \cup {s}
      /\ Agrees(n, after, M)
  BY SeenFields, SeenAgrees
<1>2. SUFFICES ASSUME NEW b \in Cores, b.pending = c.pending, b.seen = c.seen \cup {s},
                      Agrees(n, b, M)
               PROVE  SentAs(n, c, s, targets, Sent(n, b, rank, s, targets),
                             Sending(n, b, s, targets))
  BY <1>1
<1>. DEFINE e == Sent(n, b, rank, s, targets)
            w == Sending(n, b, s, targets)
<1>3. /\ \A a \in Nodes :
           e.pending[a] # None /\ s \in e.pending[a].shreds =>
             \/ b.pending[a] # None /\ s \in b.pending[a].shreds
             \/ a \in targets
      /\ \A p \in targets :
           \/ ShredTo(n, p, s) \in w
           \/ /\ e.pending[p] # None /\ e.pending[p].expected = p
              /\ s \in e.pending[p].shreds /\ Dial(n, p) \in w
  <2>1. e = Sent(n, b, rank, s, targets)
    OBVIOUS
  <2>. HIDE DEF e
  <2>. QED
    BY <1>2, <2>1, SentCovers
<1>4. e.seen = b.seen
  BY SentSeen
<1>5. \A x \in w : x.kind = "shred" => \E p \in targets : x.from = n /\ x.to = p
  BY DEF Sending, ShredTo, Dial
<1>. HIDE DEF e, w
<1>6. SentAs(n, c, s, targets, e, w)
  BY <1>2, <1>3, <1>4, <1>5 DEF SentAs
<1>. QED
  BY <1>6 DEF e, w

\* A flood goes on at a node that sends the shred to those.
LEMMA FloodGoesOn ==
  ASSUME NEW f \in Floods, NEW cc, NEW n \in f.members, NEW s, NEW v, NEW d,
         FloodBut(f, s, cc, v, d), \A k, p : d = ShredTo(k, p, s) => p = n,
         NEW targets, TreeTargets(f, n, targets),
         NEW e, NEW more, SentAs(n, cc[n], s, targets, e, more),
         NEW xx, xx[n] = e, \A k \in Nodes \ {n} : xx[k] = cc[k],
         f.origin \in f.members, s \in xx[f.origin].seen
  PROVE  FloodOK(f, s, xx, v \cup more)
<1>. DEFINE M == f.members
            w == v \cup more
<1>1. M \subseteq Nodes
  BY DEF Floods
<1>2. \A b \in w : b.kind = "shred" /\ b.shred = s => Down(f, b.from, b.to)
  BY DEF FloodBut, SentAs, TreeTargets
<1>3. \A k, a \in Nodes :
         xx[k].pending[a] # None /\ s \in xx[k].pending[a].shreds => Down(f, k, a)
  <2>. SUFFICES ASSUME NEW k \in Nodes, NEW a \in Nodes, xx[k].pending[a] # None,
                       s \in xx[k].pending[a].shreds
                PROVE  Down(f, k, a)
    OBVIOUS
  <2>1. CASE k # n
    BY <2>1 DEF FloodBut
  <2>2. CASE k = n /\ a \in targets
    BY <2>2 DEF TreeTargets
  <2>3. CASE k = n /\ a \notin targets
    <3>1. cc[n].pending[a] # None /\ s \in cc[n].pending[a].shreds
      BY <2>3 DEF SentAs
    <3>. QED
      BY <2>3, <3>1 DEF FloodBut
  <2>. QED
    BY <2>1, <2>2, <2>3
<1>4. ASSUME NEW k \in M, NEW p \in M, s \in xx[k].seen, Idx(f, p) \in Tasks(f, k),
             s \notin xx[p].seen
      PROVE  Coming(xx, w, k, p, s)
  <2>1. p # n /\ s \notin cc[p].seen /\ k \in Nodes
    BY <1>1, <1>4 DEF SentAs
  <2>2. CASE k = n
    <3>1. p \in targets
      BY <1>4, <2>2 DEF TreeTargets
    <3>. QED
      BY <2>2, <3>1 DEF Coming, SentAs
  <2>3. CASE k # n
    <3>1. xx[k] = cc[k] /\ d # ShredTo(k, p, s)
      BY <2>1, <2>3
    <3>2. Coming(cc, v, k, p, s)
      BY <1>4, <2>1, <3>1 DEF FloodBut
    <3>. QED
      BY <3>1, <3>2 DEF Coming
  <2>. QED
    BY <2>2, <2>3
<1>. HIDE DEF w
<1>5. FloodOK(f, s, xx, w)
  BY <1>2, <1>3, <1>4 DEF FloodOK
<1>. QED
  BY <1>5 DEF w

\* A flood whose course nothing changed, and what else holds of it.
LEMMA FloodHeld ==
  ASSUME FloodInv, flood' = flood, up' = up,
         ASSUME NEW s \in Flooded(flood), flood[s].clean, FloodOK(flood[s], s, core, wire)
         PROVE  FloodOK(flood[s], s, core', wire')
  PROVE  FloodInv'
<1>1. Flooded(flood') = Flooded(flood)
  BY DEF Flooded
<1>. QED
  BY <1>1 DEF FloodInv

\* Nothing is asked of a flood that was disturbed.
LEMMA FloodDisturbed ==
  ASSUME flood \in [Shreds -> Floods \cup {None}],
         \A s \in Shreds : flood'[s] = None \/ flood'[s] = Disturbed(flood)[s]
  PROVE  FloodInv'
<1>. SUFFICES ASSUME NEW s \in Flooded(flood') PROVE ~flood'[s].clean
  BY DEF FloodInv
<1>1. s \in Shreds /\ flood'[s] # None
  BY DEF Flooded
<1>2. Disturbed(flood)[s] = IF flood[s] = None THEN None ELSE [flood[s] EXCEPT !.clean = FALSE]
  BY <1>1 DEF Disturbed
<1>3. flood[s] # None /\ flood[s] \in Floods /\ flood'[s] = [flood[s] EXCEPT !.clean = FALSE]
  BY <1>1, <1>2
<1>. QED
  BY <1>3 DEF Floods

\* A flood is one of Floods.
LEMMA FloodType ==
  ASSUME MeshTypes, NEW s \in Flooded(flood)
  PROVE  flood[s] \in Floods /\ s \in Shreds
BY DEF MeshTypes, Flooded

\* The way of every shred begins as it should (on_source_packet).
LEMMA FloodSource ==
  ASSUME MeshTypes, FloodInv, NEW n \in Nodes, NEW s \in Shreds, NEW rank \in Ranks,
         SourcePacket(n, s, rank)
  PROVE  FloodInv'
<1>. DEFINE c == [core[n] EXCEPT !.seen = @ \cup {s}]
            M == UsablePeers(n, c) \cup {n}
            targets == OriginPeers(rank, n, M \ {n})
            e == Sent(n, c, rank, s, targets)
            clean == Agrees(n, c, M) /\ (Mover \in M => up)
            h == [origin |-> n, rank |-> rank, members |-> M, clean |-> clean]
            more == Sending(n, c, s, targets)
<1>1. /\ wire = {} /\ core' = [core EXCEPT ![n] = e]
      /\ wire' = more /\ flood' = [flood EXCEPT ![s] = h]
      /\ flood[s] = None /\ (\A m \in Nodes : s \notin core[m].seen) /\ up' = up
  BY DEF SourcePacket, moverVars
<1>2. core \in [Nodes -> Cores] /\ flood \in [Shreds -> Floods \cup {None}]
  BY DEF MeshTypes
<1>3. c \in Cores /\ c.pending = core[n].pending
  BY <1>2, SeenFields
<1>4. M \in SUBSET Nodes /\ n \in M /\ M \ {n} \in SUBSET Nodes
  <2>. HIDE DEF c
  <2>. QED
    BY <1>3, UsableNodes
<1>5. targets \in SUBSET (Nodes \ {n}) /\ targets \in SUBSET Nodes
  <2>. HIDE DEF M
  <2>. QED
    BY <1>4, NotToItself
<1>6. h \in Floods
  <2>1. clean \in BOOLEAN
    BY DEF Agrees
  <2>. HIDE DEF clean, M
  <2>. QED
    BY <1>4, <2>1 DEF Floods
<1>7. h.origin = n /\ h.rank = rank /\ h.members = M /\ h.clean = clean
  OBVIOUS
<1>8. /\ core'[n] = e /\ \A k \in Nodes \ {n} : core'[k] = core[k]
  <2>. HIDE DEF e
  <2>. QED
    BY <1>1, <1>2
<1>9. ASSUME clean PROVE FloodOK(h, s, core', wire')
  <2>1. UsablePeers(n, core[n]) = UsablePeers(n, c) /\ Agrees(n, core[n], M)
    <3>1. Agrees(n, c, M)
      BY <1>9
    <3>2. core[n] \in Cores /\ c = [core[n] EXCEPT !.seen = @ \cup {s}]
      BY <1>2
    <3>. HIDE DEF c, M
    <3>3. UsablePeers(n, c) = UsablePeers(n, core[n]) /\ (Agrees(n, c, M) <=> Agrees(n, core[n], M))
      BY <3>2, SeenAgrees
    <3>. QED
      BY <3>1, <3>3
  <2>2. TreeTargets(h, n, targets)
    <3>1. n \in h.members /\ n = h.origin /\ targets = OriginPeers(h.rank, n, h.members \ {n})
      BY <1>4, <1>7
    <3>. HIDE DEF h, targets
    <3>. QED
      BY <1>6, <3>1, OriginTargets
  <2>3. targets \in SUBSET (M \ {n})
    <3>. HIDE DEF targets, M
    <3>. QED
      BY <1>5, <1>7, <2>2 DEF TreeTargets
  <2>4. SentAs(n, core[n], s, targets, e, more)
    <3>. DEFINE b == core[n]
    <3>1. b \in Cores /\ c = [b EXCEPT !.seen = @ \cup {s}] /\ Agrees(n, b, M)
      BY <1>2, <2>1
    <3>2. e = Sent(n, c, rank, s, targets) /\ more = Sending(n, c, s, targets)
      OBVIOUS
    <3>. HIDE DEF b, targets, M, c, e, more
    <3>3. SentAs(n, b, s, targets, Sent(n, c, rank, s, targets), Sending(n, c, s, targets))
      BY <1>4, <2>3, <3>1, AgreeingSends
    <3>. QED
      BY <3>2, <3>3 DEF b
  <2>5. FloodBut(h, s, core, {}, Dial(n, n))
    <3>1. ASSUME NEW k \in Nodes, NEW a \in Nodes, core[k].pending[a] # None
          PROVE  s \notin core[k].pending[a].shreds
      <4>1. core[k].pending[a].shreds \subseteq Flooded(flood)
        BY <3>1 DEF MeshTypes, WaitingIn
      <4>. QED
        BY <1>1, <4>1 DEF Flooded
    <3>2. \A k \in h.members : s \notin core[k].seen
      BY <1>1, <1>6 DEF Floods
    <3>. HIDE DEF h
    <3>. QED
      BY <3>1, <3>2 DEF FloodBut
  <2>6. \A k, p : Dial(n, n) = ShredTo(k, p, s) => p = n
    BY DEF Dial, ShredTo
  <2>7. e.seen = core[n].seen \cup {s}
    <3>. HIDE DEF e, more, targets
    <3>. QED
      BY <2>4 DEF SentAs
  <2>. DEFINE xx == core'
  <2>8. xx[n] = e /\ (\A k \in Nodes \ {n} : xx[k] = core[k]) /\ s \in xx[n].seen
    BY <1>8, <2>7
  <2>9. n \in h.members /\ h.origin \in h.members /\ s \in xx[h.origin].seen
    BY <1>4, <1>7, <2>8
  <2>. DEFINE v == {}
              d == Dial(n, n)
  <2>. HIDE DEF xx, h, e, more, targets, v, d
  <2>10. FloodOK(h, s, xx, v \cup more)
    <3>1. FloodBut(h, s, core, v, d) /\ \A k, p : d = ShredTo(k, p, s) => p = n
      BY <2>5, <2>6 DEF v, d
    <3>. QED
      BY <1>6, <2>2, <2>4, <2>8, <2>9, <3>1, FloodGoesOn
  <2>11. v \cup more = wire'
    BY <1>1 DEF v
  <2>. QED
    BY <2>10, <2>11 DEF xx
<1>10. ASSUME NEW t \in Flooded(flood), flood[t].clean PROVE FloodOK(flood[t], t, core', wire')
  <2>1. t # s /\ FloodOK(flood[t], t, core, {}) /\ flood[t] \in Floods
    BY <1>1, <1>10, FloodType DEF FloodInv, Flooded
  <2>. DEFINE f == flood[t]
              xx == core'
  <2>2. c = [core[n] EXCEPT !.seen = @ \cup {s}] /\ e = Sent(n, c, rank, s, targets)
        /\ xx = [core EXCEPT ![n] = e] /\ more = Sending(n, c, s, targets)
    BY <1>1
  <2>. HIDE DEF f, xx, c, e, more, targets
  <2>3. FloodOK(f, t, xx, {} \cup Sending(n, c, s, targets))
    BY <1>2, <1>5, <2>1, <2>2, SentOther DEF f
  <2>4. {} \cup Sending(n, c, s, targets) = wire'
    BY <1>1, <2>2
  <2>. QED
    BY <2>3, <2>4 DEF f, xx
<1>11. \A t \in Flooded(flood') : t = s \/ (t \in Flooded(flood) /\ flood'[t] = flood[t])
  <2>. HIDE DEF h
  <2>. QED
    BY <1>1, <1>2 DEF Flooded
<1>12. flood'[s] = h
  <2>. HIDE DEF h
  <2>. QED
    BY <1>1, <1>2
<1>13. ASSUME NEW t \in Flooded(flood'), flood'[t].clean
       PROVE  FloodOK(flood'[t], t, core', wire') /\ (Mover \in flood'[t].members => up')
  <2>1. CASE t = s
    <3>1. clean /\ h.members = M
      BY <1>7, <1>12, <1>13, <2>1
    <3>2. Mover \in M => up
      BY <3>1
    <3>. QED
      BY <1>1, <1>9, <1>12, <2>1, <3>1, <3>2
  <2>2. CASE t # s
    <3>1. t \in Flooded(flood) /\ flood'[t] = flood[t]
      BY <1>11, <2>2
    <3>. QED
      BY <1>1, <1>10, <1>13, <3>1 DEF FloodInv
  <2>. QED
    BY <2>1, <2>2
<1>. QED
  BY <1>13 DEF FloodInv

\* A message that is no dial and nothing new leaves every flood on its way.
LEMMA FloodMet ==
  ASSUME MeshTypes, NEW d \in wire, d.kind # "dial",
         NEW f \in Floods, NEW s, FloodOK(f, s, core, wire)
  PROVE  /\ FloodBut(f, s, Met(d), Arrival(d), d)
         /\ f.origin \in f.members /\ s \in Met(d)[f.origin].seen
<1>1. Handed(Met(d), wire \ {d}, Arrival(d))
  BY MetHands
<1>2. \A n, p : d # Dial(n, p)
  BY DEF Dial
<1>. DEFINE cc == Met(d)
            v == Arrival(d)
<1>. HIDE DEF cc, v
<1>3. Handed(cc, wire \ {d}, v)
  BY <1>1 DEF cc, v
<1>4. FloodBut(f, s, cc, v, d) /\ f.origin \in f.members /\ s \in cc[f.origin].seen
  BY <1>2, <1>3, FloodHanded
<1>. QED
  BY <1>4 DEF cc, v

\* A shred is passed on, or known already (handle_frame).
LEMMA FloodShred ==
  ASSUME MeshTypes, CulpritsInv, FloodInv, NEW d \in wire, HandleShred(d)
  PROVE  FloodInv'
<1>. DEFINE n == d.to
            from == d.from
            s == d.shred
            cc == Met(d)
            v == Arrival(d)
            c == cc[n]
            f == flood[s]
            after == [c EXCEPT !.seen = @ \cup {s}]
            targets == RetransmitPeers(f.rank, n, UsablePeers(n, c) \ ({from} \cap c.conn))
            e == Sent(n, after, f.rank, s, targets)
            more == Sending(n, after, s, targets)
<1>1. d.kind = "shred" /\ up' = up
  BY DEF HandleShred, Arrives, moverVars
<1>2. /\ n \in Nodes /\ from \in Nodes /\ n # from /\ cc \in [Nodes -> Cores]
      /\ \A k \in Nodes : cc[k].seen = core[k].seen
  BY <1>1, MetKeeps DEF Followed
<1>3. s \in Flooded(flood) /\ s \in Shreds /\ d = ShredTo(from, n, s)
  <2>1. WireOK(wire, Flooded(flood)) /\ d \in Messages
    BY <1>1, OnWire DEF MeshTypes
  <2>2. d \in [kind : {"shred"}, from : Nodes, to : Nodes, shred : Shreds]
    BY <1>1, <2>1 DEF Messages
  <2>. QED
    BY <1>1, <2>1, <2>2 DEF WireOK, ShredTo
<1>4. ASSUME NEW t \in Flooded(flood), flood[t].clean
      PROVE  /\ FloodBut(flood[t], t, cc, v, d) /\ flood[t] \in Floods
             /\ flood[t].origin \in flood[t].members /\ t \in cc[flood[t].origin].seen
             /\ FloodOK(flood[t], t, core, wire)
  BY <1>1, <1>4, FloodMet, FloodType DEF FloodInv
<1>. HIDE DEF cc, v
<1>5. ASSUME NEW t \in Flooded(flood), flood[t].clean, t # s \/ s \in c.seen
      PROVE  FloodOK(flood[t], t, cc, v)
  BY <1>4, <1>5, FloodButDone
<1>6. CASE s \in c.seen
  <2>1. core' = cc /\ wire' = v /\ flood' = flood
    BY <1>6 DEF HandleShred, cc, v
  <2>. QED
    BY <1>1, <1>5, <1>6, <2>1, FloodHeld
<1>7. CASE s \notin c.seen
  <2>. DEFINE b == Agrees(n, c, f.members)
  <2>1. /\ core' = [cc EXCEPT ![n] = e] /\ wire' = v \cup more
        /\ flood' = [flood EXCEPT ![s].clean = @ /\ b]
    BY <1>7 DEF HandleShred, cc, v
  <2>2. f \in Floods /\ f.rank \in Ranks /\ flood \in [Shreds -> Floods \cup {None}]
    BY <1>3, FloodType DEF Floods, MeshTypes
  <2>3. c \in Cores
    BY <1>2
  <2>4. targets \in SUBSET (Nodes \ {n}) /\ targets \in SUBSET Nodes
    <3>. DEFINE peers == UsablePeers(n, c) \ ({from} \cap c.conn)
                rank == f.rank
    <3>1. peers \in SUBSET Nodes /\ rank \in Ranks
      <4>. HIDE DEF c, n
      <4>. QED
        BY <1>2, <2>2, <2>3, UsableNodes
    <3>2. targets = RetransmitPeers(rank, n, peers)
      OBVIOUS
    <3>. HIDE DEF peers, rank, targets
    <3>. QED
      BY <1>2, <3>1, <3>2, NotToItself
  <2>. HIDE DEF f
  <2>5. /\ core'[n] = e /\ \A k \in Nodes \ {n} : core'[k] = cc[k]
    <3>. HIDE DEF e, n
    <3>. QED
      BY <1>2, <2>1
  <2>6. ASSUME NEW t \in Flooded(flood'), flood'[t].clean
        PROVE  /\ t \in Flooded(flood) /\ flood'[t] = flood[t] /\ flood[t].clean
               /\ t = s => b
    <3>1. b \in BOOLEAN
      BY DEF Agrees
    <3>. HIDE DEF b, s
    <3>2. t \in Shreds /\ flood'[t] # None
      BY <2>6 DEF Flooded
    <3>3. CASE t # s
      <4>1. flood'[t] = flood[t]
        BY <2>1, <2>2, <3>2, <3>3
      <4>. QED
        BY <2>6, <3>2, <3>3, <4>1 DEF Flooded
    <3>4. CASE t = s
      <4>. DEFINE g == flood[s]
      <4>1. g \in Floods
        BY <1>3, FloodType
      <4>2. flood'[s] = [g EXCEPT !.clean = g.clean /\ b]
        BY <1>3, <2>1, <2>2
      <4>. HIDE DEF g
      <4>3. g.clean /\ b
        BY <2>6, <3>1, <3>4, <4>1, <4>2 DEF Floods
      <4>4. flood'[s] = g
        <5>1. g = [origin |-> g.origin, rank |-> g.rank, members |-> g.members,
                   clean |-> TRUE]
          BY <4>1, <4>3 DEF Floods
        <5>2. g.clean /\ b <=> TRUE
          BY <4>3
        <5>3. [g EXCEPT !.clean = g.clean /\ b] =
                [origin |-> g.origin, rank |-> g.rank, members |-> g.members,
                 clean |-> g.clean /\ b]
          BY <4>1 DEF Floods
        <5>4. g.clean = TRUE /\ (g.clean /\ b) = TRUE
          BY <3>1, <4>1, <4>3 DEF Floods
        <5>. QED
          BY <4>2, <5>1, <5>3, <5>4
      <4>. QED
        BY <1>3, <3>4, <4>3, <4>4 DEF g
    <3>. QED
      BY <3>3, <3>4
  <2>7. ASSUME f.clean, b PROVE FloodOK(f, s, core', wire')
    <3>1. /\ FloodBut(f, s, cc, v, d) /\ f.origin \in f.members /\ s \in cc[f.origin].seen
          /\ FloodOK(f, s, core, wire)
      BY <1>3, <1>4, <2>7 DEF f
    <3>2. Down(f, from, n)
      BY <1>1, <3>1 DEF FloodOK
    <3>3. n \in f.members /\ from \in f.members /\ n # f.origin
      BY <1>7, <3>1, <3>2 DEF Down
    <3>4. UsablePeers(n, c) = f.members \ {n}
      <4>1. UsablePeers(n, c) \cup {n} = f.members /\ n \notin UsablePeers(n, c)
        BY <2>7 DEF Agrees, UsablePeers
      <4>. QED
        BY <4>1
    <3>5. from \in c.conn
      <4>1. from \in c.conn \/ from \in c.quarantined
        BY <1>1, MetHands DEF cc
      <4>2. from \in Reached(n, c)
        BY <2>7, <3>3 DEF Agrees
      <4>. QED
        BY <1>2, <4>1, <4>2 DEF Reached, UsablePeers
    <3>6. targets = RetransmitPeers(f.rank, n, (f.members \ {n}) \ {from})
      <4>1. {from} \cap c.conn = {from}
        BY <3>5
      <4>. QED
        BY <3>4, <4>1
    <3>7. TreeTargets(f, n, targets)
      <4>. HIDE DEF targets, n, from
      <4>. QED
        BY <2>2, <3>1, <3>2, <3>3, <3>6, RelayTargets
    <3>8. SentAs(n, c, s, targets, e, more)
      <4>. DEFINE M == f.members
                  rank == f.rank
      <4>1. targets \in SUBSET (M \ {n}) /\ M \in SUBSET Nodes /\ rank \in Ranks
        <5>. HIDE DEF targets
        <5>. QED
          BY <2>2, <2>4, <3>7 DEF TreeTargets, Floods
      <4>2. /\ after = [c EXCEPT !.seen = @ \cup {s}] /\ Agrees(n, c, M)
            /\ e = Sent(n, after, rank, s, targets) /\ more = Sending(n, after, s, targets)
        BY <2>7
      <4>. HIDE DEF M, rank, targets, after, e, more, c, n, s
      <4>3. SentAs(n, c, s, targets, Sent(n, after, rank, s, targets),
                   Sending(n, after, s, targets))
        BY <1>2, <1>3, <2>3, <4>1, <4>2, AgreeingSends
      <4>. QED
        BY <4>2, <4>3
    <3>. DEFINE xx == core'
    <3>9. /\ xx[n] = e /\ (\A k \in Nodes \ {n} : xx[k] = cc[k])
          /\ s \in xx[f.origin].seen
      <4>1. f.members \subseteq Nodes
        BY <2>2 DEF Floods
      <4>. HIDE DEF n, e
      <4>. QED
        BY <2>5, <3>1, <3>3, <4>1
    <3>10. \A k, p : d = ShredTo(k, p, s) => p = n
      BY DEF ShredTo
    <3>. HIDE DEF xx, e, more, targets, after, n, s
    <3>11. FloodOK(f, s, xx, v \cup more)
      BY <2>2, <3>1, <3>3, <3>7, <3>8, <3>9, <3>10, FloodGoesOn DEF c
    <3>. QED
      BY <2>1, <3>11 DEF xx
  <2>8. ASSUME NEW t \in Flooded(flood), flood[t].clean, t # s
        PROVE  FloodOK(flood[t], t, core', wire')
    <3>1. FloodOK(flood[t], t, cc, v) /\ flood[t] \in Floods
      BY <1>4, <1>5, <2>8
    <3>. DEFINE g == flood[t]
                xx == core'
                rank == f.rank
    <3>2. /\ after = [cc[n] EXCEPT !.seen = @ \cup {s}] /\ rank \in Ranks
          /\ e = Sent(n, after, rank, s, targets) /\ xx = [cc EXCEPT ![n] = e]
          /\ more = Sending(n, after, s, targets)
      BY <2>1, <2>2
    <3>. HIDE DEF g, xx, rank, after, e, more, targets, n, s
    <3>3. FloodOK(g, t, xx, v \cup Sending(n, after, s, targets))
      BY <1>2, <1>3, <2>4, <2>8, <3>1, <3>2, SentOther DEF g
    <3>. QED
      BY <2>1, <3>2, <3>3 DEF g, xx
  <2>. QED
    BY <1>1, <2>6, <2>7, <2>8 DEF FloodInv, f
<1>. QED
  BY <1>6, <1>7

\* Gossip takes nothing from the floods.
LEMMA FloodGossip ==
  ASSUME MeshTypes, CulpritsInv, FloodInv, NEW d \in wire, d.kind \in {"advert", "roster"},
         flood' = flood, up' = up,
         \A k \in Nodes : /\ core'[k].seen = Met(d)[k].seen
                          /\ core'[k].pending = Met(d)[k].pending,
         Arrival(d) \subseteq wire', \A b \in wire' \ Arrival(d) : b.kind # "shred"
  PROVE  FloodInv'
<1>. DEFINE cc == Met(d)
            v == Arrival(d)
            xx == core'
            w == wire'
<1>1. ASSUME NEW s \in Flooded(flood), flood[s].clean, FloodOK(flood[s], s, core, wire)
      PROVE  FloodOK(flood[s], s, xx, w)
  <2>. DEFINE f == flood[s]
  <2>1. f \in Floods
    BY FloodType
  <2>2. FloodBut(f, s, cc, v, d) /\ f.origin \in f.members /\ s \in cc[f.origin].seen
    <3>. HIDE DEF f
    <3>. QED
      BY <1>1, <2>1, FloodMet DEF f
  <2>3. FloodOK(f, s, cc, v)
    <3>. HIDE DEF f, cc, v
    <3>. QED
      BY <2>2, FloodButDone
  <2>4. /\ \A k \in Nodes : xx[k].seen = cc[k].seen /\ xx[k].pending = cc[k].pending
        /\ v \subseteq w /\ \A b \in w \ v : b.kind # "shred"
    OBVIOUS
  <2>. HIDE DEF f, cc, v, xx, w
  <2>5. FloodOK(f, s, xx, w)
    BY <2>1, <2>3, <2>4, FloodSame
  <2>. QED
    BY <2>5 DEF f
<1>. QED
  BY <1>1, FloodHeld

\* A node that learns of Mover has and waits for what it did.
LEMMA GossipOnly ==
  ASSUME NEW cc \in [Nodes -> Cores], NEW n \in Nodes, NEW g,
         NEW xx, xx = [cc EXCEPT ![n].gossip = g]
  PROVE  \A k \in Nodes : xx[k].seen = cc[k].seen /\ xx[k].pending = cc[k].pending
<1>. DEFINE c == cc[n]
            e == [c EXCEPT !.gossip = g]
<1>1. xx = [cc EXCEPT ![n] = e] /\ c \in Cores
  OBVIOUS
<1>. HIDE DEF c
<1>2. e.seen = c.seen /\ e.pending = c.pending
  BY <1>1 DEF Cores
<1>. HIDE DEF e
<1>. QED
  BY <1>1, <1>2 DEF c

\* An advert of Mover, or one of the others, is such gossip.
LEMMA FloodAdvert ==
  ASSUME MeshTypes, CulpritsInv, FloodInv, NEW d \in wire, HandleAdvert(d) \/ HandleRoster(d)
  PROVE  FloodInv'
<1>. DEFINE cc == Met(d)
<1>1. d.kind \in {"advert", "roster"} /\ flood' = flood /\ up' = up
  BY DEF HandleAdvert, HandleRoster, Arrives, moverVars
<1>2. cc \in [Nodes -> Cores] /\ d.to \in Nodes
  BY <1>1, MetKeeps DEF Followed
<1>3. /\ Arrival(d) \subseteq wire' /\ \A b \in wire' \ Arrival(d) : b.kind # "shred"
      /\ \/ core' = cc
         \/ \E g : core' = [cc EXCEPT ![d.to].gossip = g]
  <2>1. CASE HandleRoster(d)
    <3>1. d.to = Mover
      <4>1. d \in Messages /\ d.kind = "roster"
        BY <2>1, OnWire DEF HandleRoster
      <4>. QED
        BY <4>1 DEF Messages
    <3>. HIDE DEF cc
    <3>. QED
      BY <2>1, <3>1 DEF HandleRoster, cc
  <2>2. CASE HandleAdvert(d)
    <3>1. d \in [kind : {"advert"}, from : Nodes, to : Others, advert : Adverts]
      <4>1. d \in Messages /\ d.kind = "advert"
        BY <2>2, OnWire DEF HandleAdvert
      <4>. QED
        BY <4>1 DEF Messages
    <3>2. \A p : [d EXCEPT !.from = d.to, !.to = p].kind = "advert"
      <4>. SUFFICES ASSUME NEW p PROVE [d EXCEPT !.from = d.to, !.to = p].kind = "advert"
        OBVIOUS
      <4>. DEFINE x == [d EXCEPT !.from = d.to]
                  y == [d EXCEPT !.from = d.to, !.to = p]
      <4>1. y = [x EXCEPT !.to = p]
        BY Zenon
      <4>2. x \in [kind : {"advert"}, from : Nodes, to : Others, advert : Adverts]
        BY <1>2, <3>1
      <4>. HIDE DEF x, y
      <4>3. y.kind = "advert"
        BY <4>1, <4>2
      <4>. QED
        BY <4>3 DEF y
    <3>. DEFINE outcome == Upsert(cc[d.to].gossip, d.advert)
                more == IF outcome # "Accepted" THEN {}
                        ELSE {[d EXCEPT !.from = d.to, !.to = p] :
                                p \in cc[d.to].conn \ {Mover, d.from}}
    <3>3. wire' = Arrival(d) \cup more
      BY <2>2 DEF HandleAdvert
    <3>. HIDE DEF outcome
    <3>4. \A b \in more : b.kind = "advert"
      <4>1. CASE outcome # "Accepted"
        BY <4>1
      <4>2. CASE outcome = "Accepted"
        BY <3>2, <4>2, Zenon
      <4>. QED
        BY <4>1, <4>2
    <3>5. core' = cc \/ core' = [cc EXCEPT ![d.to].gossip = Entry(d.advert)]
      BY <2>2 DEF HandleAdvert
    <3>. HIDE DEF cc, more
    <3>. QED
      BY <3>3, <3>4, <3>5
  <2>. QED
    BY <2>1, <2>2
<1>4. \A k \in Nodes : core'[k].seen = cc[k].seen /\ core'[k].pending = cc[k].pending
  <2>1. CASE core' = cc
    BY <2>1
  <2>2. ASSUME NEW g, core' = [cc EXCEPT ![d.to].gossip = g]
        PROVE  \A k \in Nodes : core'[k].seen = cc[k].seen /\ core'[k].pending = cc[k].pending
    <3>. HIDE DEF cc
    <3>. QED
      BY <1>2, <2>2, GossipOnly
  <2>. QED
    BY <1>3, <2>1, <2>2
<1>. QED
  BY <1>1, <1>3, <1>4, FloodGossip

\* A dial that is answered sends what waited for it.
LEMMA FloodDial ==
  ASSUME MeshTypes, FloodInv, NEW d \in wire, AnswerDial(d)
  PROVE  FloodInv'
<1>. DEFINE n == d.from
            m == d.to
            xx == core'
            w == wire'
<1>1. /\ d.kind = "dial" /\ n # m /\ flood' = flood /\ up' = up
      /\ core' = IF m \in core[n].conn THEN core ELSE Connected(n, m)
      /\ wire' = (wire \ {d}) \cup IF m \in core[n].conn THEN {} ELSE Deferred(n, m)
  BY DEF AnswerDial, moverVars
<1>2. n \in Nodes /\ m \in Nodes /\ d = Dial(n, m)
  BY <1>1, OnWire
<1>3. Handed(xx, wire \ {d}, w) /\ xx[n].pending[m] = None
  <2>1. CASE m \in core[n].conn
    <3>1. xx = core /\ w = wire \ {d}
      BY <1>1, <2>1
    <3>2. core[n].pending[m] = None
      BY <1>2, <2>1 DEF MeshTypes, CoreOK
    <3>. HIDE DEF xx, w
    <3>. QED
      BY <3>1, <3>2 DEF Handed
  <2>2. CASE m \notin core[n].conn
    <3>1. xx = Connected(n, m) /\ w = (wire \ {d}) \cup Deferred(n, m)
      BY <1>1, <2>2
    <3>. HIDE DEF xx, w
    <3>. QED
      BY <1>1, <1>2, <2>2, <3>1, ConnectedHands
  <2>. QED
    BY <2>1, <2>2
<1>4. \A k, p : d = Dial(k, p) => k = n /\ p = m
  BY <1>2 DEF Dial
<1>5. ASSUME NEW s \in Flooded(flood), flood[s].clean, FloodOK(flood[s], s, core, wire)
      PROVE  FloodOK(flood[s], s, xx, w)
  <2>. DEFINE f == flood[s]
  <2>1. f \in Floods /\ FloodOK(f, s, core, wire)
    BY <1>5, FloodType
  <2>. HIDE DEF f, xx, w, n, m
  <2>2. FloodBut(f, s, xx, w, d) /\ f.origin \in f.members /\ s \in xx[f.origin].seen
    BY <1>3, <1>4, <2>1, FloodHanded
  <2>3. FloodOK(f, s, xx, w)
    BY <1>1, <2>2, FloodButDone
  <2>. QED
    BY <2>3 DEF f
<1>. QED
  BY <1>1, <1>5, FloodHeld

\* What vanishes is nothing of a flood: its members run, and nobody sends to
\* itself.
LEMMA FloodVanish ==
  ASSUME MeshTypes, FloodInv, NEW d \in wire, Vanish(d)
  PROVE  FloodInv'
<1>1. /\ core' = core /\ wire' = wire \ {d} /\ flood' = flood /\ up' = up
      /\ ~Runs(d.to) \/ ~Runs(d.from) \/ d.from = d.to
  BY DEF Vanish, moverVars
<1>2. ASSUME NEW s \in Flooded(flood), flood[s].clean, FloodOK(flood[s], s, core, wire)
      PROVE  FloodOK(flood[s], s, core, wire \ {d})
  <2>. DEFINE f == flood[s]
  <2>1. f \in Floods /\ f.members \subseteq Nodes /\ f.rank \in Ranks
    BY FloodType DEF Floods
  <2>2. Mover \in f.members => up
    BY <1>2 DEF FloodInv
  <2>. HIDE DEF f
  <2>3. FloodOK(f, s, core, wire)
    BY <1>2 DEF f
  <2>4. ASSUME NEW n \in Nodes, NEW p \in Nodes, Down(f, n, p)
        PROVE  Runs(n) /\ Runs(p) /\ n # p
    <3>1. n \in f.members /\ p \in f.members
      BY <2>4 DEF Down
    <3>2. Idx(f, n) \in Nat
      BY <2>1, IndexType DEF Idx
    <3>3. n # p
      BY <2>4, <3>2 DEF Down
    <3>. QED
      BY <2>2, <3>1, <3>3 DEF Runs
  <2>5. ASSUME NEW n \in f.members, NEW p \in f.members, Coming(core, wire, n, p, s)
        PROVE  Coming(core, wire \ {d}, n, p, s)
    <3>1. CASE ShredTo(n, p, s) \in wire
      <4>1. Down(f, n, p)
        BY <2>3, <3>1 DEF FloodOK, ShredTo
      <4>2. Runs(n) /\ Runs(p) /\ n # p
        BY <2>1, <2>4, <4>1
      <4>3. d # ShredTo(n, p, s)
        BY <1>1, <4>2 DEF ShredTo
      <4>. QED
        BY <3>1, <4>3 DEF Coming
    <3>2. CASE /\ core[n].pending[p] # None /\ core[n].pending[p].expected = p
               /\ s \in core[n].pending[p].shreds /\ Dial(n, p) \in wire
      <4>1. Down(f, n, p)
        BY <2>1, <2>3, <3>2 DEF FloodOK
      <4>2. Runs(n) /\ Runs(p) /\ n # p
        BY <2>1, <2>4, <4>1
      <4>3. d # Dial(n, p)
        BY <1>1, <4>2 DEF Dial
      <4>. QED
        BY <3>2, <4>3 DEF Coming
    <3>. QED
      BY <2>5, <3>1, <3>2 DEF Coming
  <2>6. FloodOK(f, s, core, wire \ {d})
    BY <2>3, <2>5 DEF FloodOK
  <2>. QED
    BY <2>6 DEF f
<1>. QED
  BY <1>1, <1>2, FloodHeld

\* Every step keeps the floods as they should be, or disturbs them.
LEMMA FloodInvKeeps == MeshInv /\ FloodInv /\ [Next]_vars => FloodInv'
<1>. SUFFICES ASSUME MeshInv, FloodInv, [Next]_vars PROVE FloodInv'
  OBVIOUS
<1>1. MeshTypes /\ CulpritsInv /\ flood \in [Shreds -> Floods \cup {None}]
  BY DEF MeshInv, MeshTypes
<1>2. ASSUME NEW n \in Nodes, NEW s \in Shreds, NEW rank \in Ranks, SourcePacket(n, s, rank)
      PROVE  FloodInv'
  BY <1>1, <1>2, FloodSource
<1>3. ASSUME NEW d \in wire,
             \/ HandleShred(d) \/ HandleAdvert(d) \/ HandleRoster(d)
             \/ AnswerDial(d) \/ Vanish(d)
      PROVE  FloodInv'
  BY <1>1, <1>3, FloodShred, FloodAdvert, FloodDial, FloodVanish
<1>4. ASSUME \A s \in Shreds : flood'[s] = None \/ flood'[s] = Disturbed(flood)[s]
      PROVE  FloodInv'
  BY <1>1, <1>4, FloodDisturbed
<1>5. ASSUME NEW d \in wire, Lose(d) PROVE FloodInv'
  BY <1>4, <1>5 DEF Lose
<1>6. ASSUME NEW n \in Nodes, NEW m \in Nodes, Disconnect(n, m) \/ ExpireConfirm(n, m)
      PROVE  FloodInv'
  BY <1>4, <1>6 DEF Disconnect, ExpireConfirm
<1>7. CASE Tick
  BY <1>4, <1>7 DEF Tick
<1>8. CASE Crash
  BY <1>4, <1>8 DEF Crash
<1>9. ASSUME NEW addr \in Claims, Restart(addr) PROVE FloodInv'
  <2>1. core' = core /\ wire' = wire /\ flood' = flood /\ up'
    BY <1>9 DEF Restart
  <2>. QED
    BY <2>1 DEF FloodInv, Flooded
<1>10. CASE UNCHANGED vars
  <2>1. core' = core /\ wire' = wire /\ flood' = flood /\ up' = up
    BY <1>10 DEF vars
  <2>. QED
    BY <2>1 DEF FloodInv, Flooded
<1>. QED
  BY <1>2, <1>3, <1>5, <1>6, <1>7, <1>8, <1>9, <1>10 DEF Next

\* In every state each node that has a shred has seen to those it is to pass it
\* on to, in every flood that nothing disturbed.
THEOREM FloodHolds == Spec => []FloodInv
<1>1. Init => FloodInv
  BY DEF Init, FloodInv, Flooded
<1>. QED
  BY <1>1, MeshHolds, FloodInvKeeps, PTL DEF Spec

\* An undisturbed flood that has come to rest has reached every member but the
\* nodes below an origin that is not the root (FloodCovers), for any nodes,
\* shuffle and fanout.
THEOREM FloodsCover == Spec => []FloodCovers
<1>1. MeshInv /\ FloodInv => FloodCovers
  <2>. SUFFICES ASSUME MeshInv, FloodInv, NEW s \in Shreds, flood[s] # None, flood[s].clean,
                       wire = {}, NEW n \in flood[s].members \ Below(flood[s])
                PROVE  s \in core[n].seen
    BY DEF FloodCovers
  <2>1. s \in Flooded(flood)
    BY DEF Flooded
  <2>2. flood[s] \in Floods /\ FloodOK(flood[s], s, core, {})
    BY <2>1, FloodType DEF MeshInv, FloodInv
  <2>. QED
    BY <2>2, FloodReaches
<1>. QED
  BY <1>1, MeshHolds, FloodHolds, PTL

-----------------------------------------------------------------------------
(* The mesh with repair.                                                   *)

\* All of this holds of the mesh with repair, which takes no step of its own
\* in it.
THEOREM NetImplementsMesh == NetSpec => Spec
<1>1. NetInit => Init
  BY DEF NetInit
<1>2. [MeshStep \/ RepairStep]_netVars => [Next]_vars
  BY DEF MeshStep, RepairStep, netVars, Next
<1>. QED
  BY <1>1, <1>2, PTL DEF NetSpec, Spec

\* So the mesh has its types, its quarantines, its healing and its floods when
\* repair streams come and go over its connections.
THEOREM NetMesh ==
  NetSpec => [](TypeOK /\ OnlyCulpritsQuarantined /\ RestartHeals /\ FloodCovers)
BY NetImplementsMesh, MeshTypeCorrect, CulpritsOnly, RestartsHeal, FloodsCover, PTL

-----------------------------------------------------------------------------
(* Repair: what the queues and buffers may hold of a stream.               *)

Streams == 1 .. MaxStreams

Halves == [fin_sent : BOOLEAN, fin_recvd : BOOLEAN]

\* The requests a stream with nonce q may be about: any, once q is forgotten.
Whose(q) == IF q = None THEN Nonces ELSE {q}

\* What may be written on it: a request, and an answer to that request.
Requests(q) == {Repair!Garbage} \cup {Repair!Requested(p) : p \in Whose(q)}
Answers(q) ==
  {Repair!Garbage, Repair!NotFound} \cup {Repair!Shred(p) : p \in Whose(q)}

\* Messages and events, when n streams were opened and have the nonces ns.
ServerOps(n, ns) ==
  {o \in [stream : 1 .. n, kind : {"open", "data", "fin", "reset"}, bytes : Bytes \cup {None}] :
     o.kind = "data" => o.bytes \in Requests(ns[o.stream]) \cup {Repair!Huge}}

RequesterOps(n, ns) ==
  {o \in [stream : 1 .. n, kind : {"data", "fin", "reset"}, bytes : Bytes \cup {None}] :
     o.kind = "data" => o.bytes \in Answers(ns[o.stream]) \cup {Repair!Huge}}

ServerEvents(n, ns) ==
  {e \in [kind : {"request"}, stream : 1 .. n, request : Nonces] :
     e.request \in Whose(ns[e.stream])}

RequesterEvents(n, ns) ==
  [kind : {"shred"}] \cup
  {e \in [kind : {"concluded"}, stream : 1 .. n, answer : Bytes \cup {None}] :
     e.answer # None => e.answer \in Answers(ns[e.stream]) \ {Repair!Garbage}}

\* Some event of the queue reports the end of stream s.
Reported(q, s) == \E i \in 1 .. Len(q) : q[i].kind = "concluded" /\ q[i].stream = s

TypesInv ==
  /\ opened \in 0 .. MaxStreams
  /\ streams \in [{"requester", "server"} -> [Streams -> Halves \cup {None}]]
  /\ outbound \in [Streams -> Seq(Bytes) \cup {None}]
  /\ inbound \in [Streams -> [buf : Seq(Bytes), awaiting : BOOLEAN] \cup {None}]
  /\ nonces \in [Streams -> Nonces \cup {None}]
  /\ concluded \in [Streams -> {0, 1}]
  /\ DOMAIN ops = {"requester", "server"} /\ DOMAIN events = {"requester", "server"}

\* Queues and buffers hold what belongs to the nonces of their streams.
QueuesInv ==
  /\ ops["server"] \in Seq(ServerOps(opened, nonces))
  /\ ops["requester"] \in Seq(RequesterOps(opened, nonces))
  /\ events["server"] \in Seq(ServerEvents(opened, nonces))
  /\ events["requester"] \in Seq(RequesterEvents(opened, nonces))
  /\ \A s \in Streams :
       /\ outbound[s] # None => outbound[s] \in Seq(Answers(nonces[s]))
       /\ inbound[s] # None => inbound[s].buf \in Seq(Requests(nonces[s]))

\* A stream that was not opened has left no trace, one that waits for its
\* answer has a nonce and has not been reported, one that the server serves is
\* alive there and has not been answered.
StreamsInv ==
  \A s \in Streams :
    /\ s > opened => outbound[s] = None /\ inbound[s] = None /\ nonces[s] = None
                       /\ concluded[s] = 0
    /\ outbound[s] # None =>
         /\ nonces[s] # None /\ concluded[s] = 0
         /\ streams["requester"][s] # None
         /\ ~Reported(events["requester"], s)
    /\ inbound[s] # None =>
         streams["server"][s] # None /\ ~streams["server"][s].fin_sent
    /\ nonces[s] # None =>
         outbound[s] # None \/ s \in dropped \/ Reported(events["requester"], s)

ToldInv == \A t \in told : t[2] = Repair!Shred(t[1])

\* The inductive invariant of repair.
RepairInv == TypesInv /\ QueuesInv /\ StreamsInv /\ ToldInv

-----------------------------------------------------------------------------
(* Nonces and queues.                                                      *)

\* Bytes written on streams are bytes.
LEMMA BytesFacts ==
  /\ Repair!Garbage \in Bytes /\ Repair!Huge \in Bytes /\ Repair!NotFound \in Bytes
  /\ \A q \in Nonces : Repair!Requested(q) \in Bytes /\ Repair!Shred(q) \in Bytes
  /\ \A q \in Nonces \cup {None} :
       /\ Whose(q) \subseteq Nonces
       /\ Requests(q) \subseteq Bytes /\ Answers(q) \subseteq Bytes
<1>. DEFINE B == {"garbage", "huge", "notfound", "request", "shred"} \cup Nonces
<1>a. \A x \in B : <<x>> \in Seq(B)
  <2>. HIDE DEF B
  <2>. QED
    OBVIOUS
<1>b. \A x, y \in B : <<x, y>> \in Seq(B)
  <2>. HIDE DEF B
  <2>. QED
    OBVIOUS
<1>c. /\ "garbage" \in B /\ "huge" \in B /\ "notfound" \in B /\ "request" \in B /\ "shred" \in B
      /\ Nonces \subseteq B
  OBVIOUS
<1>1. /\ Repair!Garbage \in Bytes /\ Repair!Huge \in Bytes /\ Repair!NotFound \in Bytes
  <2>. HIDE DEF B
  <2>1. Bytes = Seq(B)
    BY DEF Bytes, B
  <2>. QED
    BY <1>a, <1>c, <2>1 DEF Repair!Garbage, Repair!Huge, Repair!NotFound
<1>2. \A q \in Nonces : Repair!Requested(q) \in Bytes /\ Repair!Shred(q) \in Bytes
  <2>. HIDE DEF B
  <2>1. Bytes = Seq(B)
    BY DEF Bytes, B
  <2>. QED
    BY <1>b, <1>c, <2>1 DEF Repair!Requested, Repair!Shred
<1>3. \A q \in Nonces \cup {None} : Whose(q) \subseteq Nonces
  BY DEF Whose
<1>. QED
  BY <1>1, <1>2, <1>3 DEF Requests, Answers

\* The number of streams is a number.
LEMMA StreamsNat == MaxStreams \in Nat
BY RepairAssumption

\* What None is not.
LEMMA NoneFacts ==
  /\ None \notin Nonces /\ None \notin Halves /\ None \notin Seq(Bytes)
  /\ None \notin [buf : Seq(Bytes), awaiting : BOOLEAN]
BY UnsetAssumption DEF Bytes, Halves

\* When streams are opened and nonces forgotten, what the queues hold still
\* belongs there.
LEMMA Monotone ==
  ASSUME NEW n \in 0 .. MaxStreams, NEW m \in 0 .. MaxStreams, n <= m,
         NEW ns \in [Streams -> Nonces \cup {None}],
         NEW ms \in [Streams -> Nonces \cup {None}],
         \A s \in 1 .. n : ms[s] \in {ns[s], None}
  PROVE  /\ Seq(ServerOps(n, ns)) \subseteq Seq(ServerOps(m, ms))
         /\ Seq(RequesterOps(n, ns)) \subseteq Seq(RequesterOps(m, ms))
         /\ Seq(ServerEvents(n, ns)) \subseteq Seq(ServerEvents(m, ms))
         /\ Seq(RequesterEvents(n, ns)) \subseteq Seq(RequesterEvents(m, ms))
         /\ \A s \in 1 .. n : Seq(Requests(ns[s])) \subseteq Seq(Requests(ms[s]))
<1>1. \A s \in 1 .. n : s \in Streams /\ s \in 1 .. m
  BY StreamsNat DEF Streams
<1>2. \A s \in 1 .. n : Whose(ns[s]) \subseteq Whose(ms[s])
  BY <1>1 DEF Whose
<1>3. \A s \in 1 .. n : Requests(ns[s]) \subseteq Requests(ms[s])
  BY <1>2 DEF Requests
<1>4. \A s \in 1 .. n : Answers(ns[s]) \subseteq Answers(ms[s])
  BY <1>2 DEF Answers
<1>5. ServerOps(n, ns) \subseteq ServerOps(m, ms)
  BY <1>1, <1>3 DEF ServerOps
<1>6. RequesterOps(n, ns) \subseteq RequesterOps(m, ms)
  BY <1>1, <1>4 DEF RequesterOps
<1>7. ServerEvents(n, ns) \subseteq ServerEvents(m, ms)
  BY <1>1, <1>2 DEF ServerEvents
<1>8. RequesterEvents(n, ns) \subseteq RequesterEvents(m, ms)
  BY <1>1, <1>4 DEF RequesterEvents
<1>9. ASSUME NEW S, NEW T, S \subseteq T PROVE Seq(S) \subseteq Seq(T)
  BY <1>9
<1>. HIDE DEF ServerOps, RequesterOps, ServerEvents, RequesterEvents, Requests
<1>. QED
  BY <1>3, <1>5, <1>6, <1>7, <1>8, <1>9

\* What an event that enters or leaves a queue does to what is reported.
LEMMA ReportedAppend ==
  ASSUME NEW S, NEW q \in Seq(S), NEW e \in S, NEW s
  PROVE  Reported(Append(q, e), s) <=> Reported(q, s) \/ (e.kind = "concluded" /\ e.stream = s)
<1>1. /\ Len(Append(q, e)) = Len(q) + 1 /\ Len(q) \in Nat
      /\ \A i \in 1 .. Len(q) : Append(q, e)[i] = q[i]
      /\ Append(q, e)[Len(q) + 1] = e
  OBVIOUS
<1>2. \A i \in 1 .. Len(q) + 1 : i \in 1 .. Len(q) \/ i = Len(q) + 1
  BY <1>1
<1>3. Len(q) + 1 \in 1 .. Len(q) + 1 /\ \A i \in 1 .. Len(q) : i \in 1 .. Len(q) + 1
  BY <1>1
<1>. QED
  BY <1>1, <1>2, <1>3 DEF Reported

\* The rest of a queue reports what it reported, but for the first.
LEMMA ReportedTail ==
  ASSUME NEW S, NEW q \in Seq(S), q # <<>>, NEW s
  PROVE  Reported(q, s) <=>
           Reported(Tail(q), s) \/ (Head(q).kind = "concluded" /\ Head(q).stream = s)
<1>1. /\ Len(Tail(q)) = Len(q) - 1 /\ Len(q) \in Nat \ {0}
      /\ \A i \in 1 .. Len(q) - 1 : Tail(q)[i] = q[i + 1]
      /\ Head(q) = q[1]
  OBVIOUS
<1>2. \A i \in 1 .. Len(q) : i = 1 \/ (i - 1 \in 1 .. Len(q) - 1 /\ i = (i - 1) + 1)
  BY <1>1
<1>3. 1 \in 1 .. Len(q) /\ \A i \in 1 .. Len(q) - 1 : i + 1 \in 1 .. Len(q)
  BY <1>1
<1>4. ASSUME Reported(q, s)
      PROVE  Reported(Tail(q), s) \/ (Head(q).kind = "concluded" /\ Head(q).stream = s)
  <2>1. PICK i \in 1 .. Len(q) : q[i].kind = "concluded" /\ q[i].stream = s
    BY <1>4 DEF Reported
  <2>2. CASE i = 1
    BY <2>1, <2>2, <1>1
  <2>3. CASE i # 1
    <3>1. i - 1 \in 1 .. Len(Tail(q)) /\ Tail(q)[i - 1] = q[i]
      BY <1>1, <1>2, <2>3
    <3>. QED
      BY <2>1, <3>1 DEF Reported
  <2>. QED
    BY <2>2, <2>3
<1>5. ASSUME Reported(Tail(q), s)
      PROVE  Reported(q, s)
  BY <1>1, <1>3, <1>5 DEF Reported
<1>6. ASSUME Head(q).kind = "concluded" /\ Head(q).stream = s
      PROVE  Reported(q, s)
  BY <1>1, <1>3, <1>6 DEF Reported
<1>. QED
  BY <1>4, <1>5, <1>6

\* An event pushed to the requester's queue: it is reported, and whatever it
\* displaces is noted.
LEMMA PushKeeps ==
  ASSUME RepairInv, NEW e \in RequesterEvents(opened, nonces),
         events' = Repair!Pushed("requester", e),
         dropped' = dropped \cup Repair!Lost("requester")
  PROVE  /\ DOMAIN events' = {"requester", "server"}
         /\ events'["server"] = events["server"]
         /\ events'["requester"] \in Seq(RequesterEvents(opened, nonces))
         /\ \A s : Reported(events'["requester"], s) =>
              Reported(events["requester"], s) \/ (e.kind = "concluded" /\ e.stream = s)
         /\ \A s : Reported(events["requester"], s) =>
              Reported(events'["requester"], s) \/ s \in dropped'
         /\ \A s : e.kind = "concluded" /\ e.stream = s => Reported(events'["requester"], s)
<1>. DEFINE R == RequesterEvents(opened, nonces)
            q == events["requester"]
            full == Repair!Full("requester")
            r == IF full THEN Tail(q) ELSE q
<1>1. q \in Seq(R) /\ DOMAIN events = {"requester", "server"}
  BY DEF RepairInv, QueuesInv, TypesInv
<1>2. full => q # <<>>
  BY <1>1, RepairAssumption DEF Repair!Full
<1>3. events'["requester"] = Append(r, e) /\ events'["server"] = events["server"]
      /\ DOMAIN events' = {"requester", "server"}
  BY <1>1 DEF Repair!Pushed
<1>4. r \in Seq(R)
  BY <1>1, <1>2
<1>5. \A s : Reported(r, s) => Reported(q, s)
  BY <1>1, <1>2, ReportedTail
<1>6. ASSUME NEW s, Reported(q, s)
      PROVE  Reported(r, s) \/ s \in dropped'
  <2>1. CASE ~full
    BY <2>1, <1>6
  <2>2. CASE full
    <3>1. Reported(Tail(q), s) \/ (Head(q).kind = "concluded" /\ Head(q).stream = s)
      BY <1>1, <1>2, <1>6, <2>2, ReportedTail
    <3>2. CASE Head(q).kind = "concluded" /\ Head(q).stream = s
      BY <2>2, <3>2 DEF Repair!Lost
    <3>. QED
      BY <2>2, <3>1, <3>2
  <2>. QED
    BY <2>1, <2>2
<1>. HIDE DEF R, r, full
<1>7. \A s : Reported(Append(r, e), s) <=>
               Reported(r, s) \/ (e.kind = "concluded" /\ e.stream = s)
  <2>1. e \in R
    BY DEF R
  <2>. QED
    BY <1>4, <2>1, ReportedAppend
<1>8. Append(r, e) \in Seq(R)
  <2>1. e \in R
    BY DEF R
  <2>. QED
    BY <1>4, <2>1
<1>. QED
  BY <1>3, <1>5, <1>6, <1>7, <1>8 DEF R

-----------------------------------------------------------------------------
(* The kinds of steps repair takes.                                        *)

\* The types of messages and events, unfolded.
LEMMA Known ==
  ASSUME RepairInv
  PROVE  /\ opened \in 0 .. MaxStreams /\ MaxStreams \in Nat
         /\ \A s \in 1 .. opened : s \in Streams
BY StreamsNat DEF RepairInv, TypesInv, Streams

\* Messages under way, after a step that leaves nonces alone.
OpsTyped(o) ==
  /\ DOMAIN o = {"requester", "server"}
  /\ o["server"] \in Seq(ServerOps(opened, nonces))
  /\ o["requester"] \in Seq(RequesterOps(opened, nonces))

StreamsTyped(h) == h \in [{"requester", "server"} -> [Streams -> Halves \cup {None}]]

\* The requester's core reports the end of stream s.
LEMMA ConcludeStep ==
  ASSUME RepairInv, NEW s \in 1 .. opened, outbound[s] # None,
         NEW a, a # None => a \in Answers(nonces[s]) \ {Repair!Garbage},
         Repair!Conclude(s, a), UNCHANGED <<opened, nonces, told, inbound>>,
         StreamsTyped(streams'), streams'["server"] = streams["server"],
         \A t \in Streams \ {s} : streams'["requester"][t] = streams["requester"][t],
         OpsTyped(ops')
  PROVE  RepairInv'
<1>. DEFINE e == [kind |-> "concluded", stream |-> s, answer |-> a]
<1>1. s \in Streams /\ nonces[s] \in Nonces \cup {None} /\ concluded[s] = 0
  BY Known DEF RepairInv, TypesInv, StreamsInv
<1>2. e \in RequesterEvents(opened, nonces)
  BY <1>1, BytesFacts DEF RequesterEvents
<1>3. e.kind = "concluded" /\ e.stream = s
  OBVIOUS
<1>4. events' = Repair!Pushed("requester", e) /\ dropped' = dropped \cup Repair!Lost("requester")
  BY DEF Repair!Conclude
<1>. HIDE DEF e
<1>5. /\ DOMAIN events' = {"requester", "server"}
      /\ events'["server"] = events["server"]
      /\ events'["requester"] \in Seq(RequesterEvents(opened, nonces))
      /\ \A t : Reported(events'["requester"], t) => Reported(events["requester"], t) \/ t = s
      /\ \A t : Reported(events["requester"], t) =>
                  Reported(events'["requester"], t) \/ t \in dropped'
      /\ Reported(events'["requester"], s)
  <2>1. /\ DOMAIN events' = {"requester", "server"}
        /\ events'["server"] = events["server"]
        /\ events'["requester"] \in Seq(RequesterEvents(opened, nonces))
        /\ \A t : Reported(events'["requester"], t) =>
             Reported(events["requester"], t) \/ (e.kind = "concluded" /\ e.stream = t)
        /\ \A t : Reported(events["requester"], t) =>
             Reported(events'["requester"], t) \/ t \in dropped'
        /\ \A t : e.kind = "concluded" /\ e.stream = t => Reported(events'["requester"], t)
    BY <1>2, <1>4, PushKeeps
  <2>. QED
    BY <1>3, <2>1
<1>6. /\ outbound' = [outbound EXCEPT ![s] = None]
      /\ concluded' = [concluded EXCEPT ![s] = @ + 1]
      /\ dropped \subseteq dropped'
  BY <1>4 DEF Repair!Conclude
<1>7. TypesInv'
  BY <1>1, <1>5, <1>6 DEF RepairInv, TypesInv, StreamsTyped, OpsTyped
<1>8. /\ \A t \in Streams : outbound'[t] = IF t = s THEN None ELSE outbound[t]
      /\ \A t \in Streams \ {s} : concluded'[t] = concluded[t]
  BY <1>1, <1>6 DEF RepairInv, TypesInv
<1>9. QueuesInv'
  BY <1>5, <1>8 DEF RepairInv, QueuesInv, OpsTyped
<1>10. StreamsInv'
  <2>. SUFFICES ASSUME NEW t \in Streams
                PROVE  /\ t > opened => outbound'[t] = None /\ inbound[t] = None /\ nonces[t] = None
                                          /\ concluded'[t] = 0
                       /\ outbound'[t] # None =>
                            /\ nonces[t] # None /\ concluded'[t] = 0
                            /\ streams'["requester"][t] # None
                            /\ ~Reported(events'["requester"], t)
                       /\ inbound[t] # None =>
                            streams'["server"][t] # None /\ ~streams'["server"][t].fin_sent
                       /\ nonces[t] # None =>
                            outbound'[t] # None \/ t \in dropped' \/ Reported(events'["requester"], t)
    BY DEF StreamsInv
  <2>1. /\ t > opened => outbound[t] = None /\ inbound[t] = None /\ nonces[t] = None
                                          /\ concluded[t] = 0
        /\ outbound[t] # None =>
             /\ nonces[t] # None /\ concluded[t] = 0
             /\ streams["requester"][t] # None
             /\ ~Reported(events["requester"], t)
        /\ inbound[t] # None =>
             streams["server"][t] # None /\ ~streams["server"][t].fin_sent
        /\ nonces[t] # None =>
             outbound[t] # None \/ t \in dropped \/ Reported(events["requester"], t)
    BY DEF RepairInv, StreamsInv
  <2>2. CASE t = s
    <3>1. ~(t > opened)
      BY <2>2, Known
    <3>. QED
      BY <2>1, <2>2, <3>1, <1>5, <1>8
  <2>3. CASE t # s
    BY <2>1, <2>3, <1>5, <1>6, <1>8
  <2>. QED
    BY <2>2, <2>3
<1>11. ToldInv'
  BY DEF RepairInv, ToldInv
<1>. QED
  BY <1>7, <1>9, <1>10, <1>11 DEF RepairInv

\* The requester's transport ends what is left of stream s.
LEMMA QuietStep ==
  ASSUME RepairInv, NEW s \in 1 .. opened, outbound[s] = None,
         UNCHANGED <<opened, nonces, told, inbound, outbound, events, concluded, dropped>>,
         StreamsTyped(streams'), streams'["server"] = streams["server"],
         \A t \in Streams \ {s} : streams'["requester"][t] = streams["requester"][t],
         OpsTyped(ops')
  PROVE  RepairInv'
<1>1. TypesInv'
  BY DEF RepairInv, TypesInv, StreamsTyped, OpsTyped
<1>2. QueuesInv'
  BY DEF RepairInv, QueuesInv, OpsTyped
<1>3. StreamsInv'
  BY DEF RepairInv, StreamsInv
<1>4. ToldInv'
  BY DEF RepairInv, ToldInv
<1>. QED
  BY <1>1, <1>2, <1>3, <1>4 DEF RepairInv

\* The server takes, buffers, answers or gives up the request of stream s.
LEMMA ServerStep ==
  ASSUME RepairInv, NEW s \in 1 .. opened,
         UNCHANGED <<opened, nonces, told, outbound, concluded, dropped>>,
         DOMAIN events' = {"requester", "server"},
         events'["requester"] = events["requester"],
         events'["server"] \in Seq(ServerEvents(opened, nonces)),
         StreamsTyped(streams'), streams'["requester"] = streams["requester"],
         inbound' \in [Streams -> [buf : Seq(Bytes), awaiting : BOOLEAN] \cup {None}],
         \A t \in Streams \ {s} :
           inbound'[t] = inbound[t] /\ streams'["server"][t] = streams["server"][t],
         inbound'[s] # None =>
           /\ inbound'[s].buf \in Seq(Requests(nonces[s]))
           /\ streams'["server"][s] # None /\ ~streams'["server"][s].fin_sent,
         OpsTyped(ops')
  PROVE  RepairInv'
<1>1. TypesInv'
  BY DEF RepairInv, TypesInv, StreamsTyped, OpsTyped
<1>2. QueuesInv'
  BY DEF RepairInv, QueuesInv, OpsTyped
<1>3. StreamsInv'
  <2>1. ~(s > opened)
    BY Known
  <2>. QED
    BY <2>1 DEF RepairInv, StreamsInv
<1>4. ToldInv'
  BY DEF RepairInv, ToldInv
<1>. QED
  BY <1>1, <1>2, <1>3, <1>4 DEF RepairInv

-----------------------------------------------------------------------------
(* Streams and messages.                                                   *)

\* Messages that carry no bytes fit either queue.
LEMMA SignalFits ==
  ASSUME RepairInv, NEW s \in 1 .. opened, NEW kind \in {"fin", "reset"}
  PROVE  /\ Repair!Op(s, kind, None) \in ServerOps(opened, nonces)
         /\ Repair!Op(s, kind, None) \in RequesterOps(opened, nonces)
BY DEF ServerOps, RequesterOps, Repair!Op

\* The messages under way are typed, and so is what is left of them when one
\* has arrived.
LEMMA RestFacts ==
  ASSUME RepairInv
  PROVE  /\ OpsTyped(ops)
         /\ \A end \in {"requester", "server"} :
              ops[end] # <<>> => OpsTyped(Repair!Rest(end))
         /\ ops["server"] # <<>> => Head(ops["server"]) \in ServerOps(opened, nonces)
         /\ ops["requester"] # <<>> => Head(ops["requester"]) \in RequesterOps(opened, nonces)
<1>1. OpsTyped(ops)
  BY DEF RepairInv, TypesInv, QueuesInv, OpsTyped
<1>. DEFINE S == ServerOps(opened, nonces)
            R == RequesterOps(opened, nonces)
<1>2. ops["server"] \in Seq(S) /\ ops["requester"] \in Seq(R)
      /\ DOMAIN ops = {"requester", "server"}
  BY <1>1 DEF OpsTyped
<1>. HIDE DEF S, R
<1>3. /\ ops["server"] # <<>> => Head(ops["server"]) \in S /\ Tail(ops["server"]) \in Seq(S)
      /\ ops["requester"] # <<>> => Head(ops["requester"]) \in R /\ Tail(ops["requester"]) \in Seq(R)
  BY <1>2
<1>4. ASSUME NEW end \in {"requester", "server"}, ops[end] # <<>>
      PROVE  OpsTyped(Repair!Rest(end))
  <2>1. /\ DOMAIN Repair!Rest(end) = {"requester", "server"}
        /\ Repair!Rest(end)["server"] \in Seq(S) /\ Repair!Rest(end)["requester"] \in Seq(R)
    BY <1>2, <1>3, <1>4 DEF Repair!Rest
  <2>. QED
    BY <2>1 DEF OpsTyped, S, R
<1>. QED
  BY <1>1, <1>3, <1>4 DEF S, R

\* reset_stream
LEMMA ResetFacts ==
  ASSUME RepairInv, NEW end \in {"requester", "server"}, NEW s \in 1 .. opened,
         NEW p, OpsTyped(p), Repair!Reset(end, s, p)
  PROVE  /\ StreamsTyped(streams') /\ OpsTyped(ops')
         /\ streams'[Repair!Other(end)] = streams[Repair!Other(end)]
         /\ \A t \in Streams \ {s} : streams'[end][t] = streams[end][t]
<1>. DEFINE S == ServerOps(opened, nonces)
            R == RequesterOps(opened, nonces)
            o == Repair!Op(s, "reset", None)
<1>1. s \in Streams
  BY Known
<1>2. StreamsTyped(streams)
  BY DEF RepairInv, TypesInv, StreamsTyped
<1>3. streams' = [streams EXCEPT ![end][s] = None]
  BY DEF Repair!Reset
<1>4. /\ StreamsTyped(streams')
      /\ streams'[Repair!Other(end)] = streams[Repair!Other(end)]
      /\ \A t \in Streams \ {s} : streams'[end][t] = streams[end][t]
  BY <1>1, <1>2, <1>3 DEF StreamsTyped, Repair!Other
<1>5. o \in S /\ o \in R
  BY SignalFits
<1>6. p["server"] \in Seq(S) /\ p["requester"] \in Seq(R)
      /\ DOMAIN p = {"requester", "server"}
  BY DEF OpsTyped
<1>7. ops' = p \/ ops' = [p EXCEPT ![Repair!Other(end)] = Append(@, o)]
  BY DEF Repair!Reset
<1>. HIDE DEF S, R, o
<1>8. /\ ops'["server"] \in Seq(S) /\ ops'["requester"] \in Seq(R)
      /\ DOMAIN ops' = {"requester", "server"}
  <2>1. Append(p["server"], o) \in Seq(S) /\ Append(p["requester"], o) \in Seq(R)
    BY <1>5, <1>6
  <2>2. CASE ops' = p
    BY <1>6, <2>2
  <2>3. CASE ops' = [p EXCEPT ![Repair!Other(end)] = Append(@, o)]
    BY <1>6, <2>1, <2>3 DEF Repair!Other
  <2>. QED
    BY <1>7, <2>2, <2>3
<1>9. OpsTyped(ops')
  BY <1>8 DEF OpsTyped, S, R
<1>. QED
  BY <1>4, <1>9

\* The other end of a stream has finished it.
LEMMA FinishedFacts ==
  ASSUME RepairInv, NEW end \in {"requester", "server"}, NEW s \in 1 .. opened,
         streams' = Repair!Finished(end, s)
  PROVE  /\ StreamsTyped(streams')
         /\ streams'[Repair!Other(end)] = streams[Repair!Other(end)]
         /\ \A t \in Streams \ {s} : streams'[end][t] = streams[end][t]
         /\ streams[end][s] # None /\ ~streams[end][s].fin_sent =>
              streams'[end][s] # None /\ ~streams'[end][s].fin_sent
<1>. DEFINE h == streams[end][s]
            g == IF h = None THEN None ELSE Repair!Reaped([h EXCEPT !.fin_recvd = TRUE])
<1>1. s \in Streams
  BY Known
<1>2. StreamsTyped(streams)
  BY DEF RepairInv, TypesInv, StreamsTyped
<1>3. h \in Halves \cup {None}
  BY <1>1, <1>2 DEF StreamsTyped
<1>4. streams' = [streams EXCEPT ![end][s] = g]
  BY DEF Repair!Finished
<1>5. h # None => /\ [h EXCEPT !.fin_recvd = TRUE] \in Halves
                  /\ [h EXCEPT !.fin_recvd = TRUE].fin_sent = h.fin_sent
  BY <1>3 DEF Halves
<1>6. /\ g \in Halves \cup {None}
      /\ h # None /\ ~h.fin_sent => g # None /\ ~g.fin_sent
  BY <1>3, <1>5, NoneFacts DEF Repair!Reaped
<1>. HIDE DEF g
<1>7. /\ StreamsTyped(streams')
      /\ streams'[Repair!Other(end)] = streams[Repair!Other(end)]
      /\ \A t \in Streams \ {s} : streams'[end][t] = streams[end][t]
      /\ streams'[end][s] = g
  BY <1>1, <1>2, <1>4, <1>6 DEF StreamsTyped, Repair!Other
<1>. QED
  BY <1>6, <1>7

\* write_stream and finish_stream of the server's answer.
LEMMA WroteFacts ==
  ASSUME RepairInv, NEW s \in 1 .. opened,
         NEW bytes \in Answers(nonces[s]) \cup {Repair!Huge},
         Repair!Wrote("server", s, bytes)
  PROVE  /\ StreamsTyped(streams') /\ OpsTyped(ops')
         /\ streams'["requester"] = streams["requester"]
         /\ \A t \in Streams \ {s} : streams'["server"][t] = streams["server"][t]
<1>. DEFINE h == streams["server"][s]
            g == IF h = None THEN None ELSE Repair!Reaped([h EXCEPT !.fin_sent = TRUE])
            S == ServerOps(opened, nonces)
            R == RequesterOps(opened, nonces)
            o == Repair!Op(s, "data", bytes)
            f == Repair!Op(s, "fin", None)
<1>1. s \in Streams /\ nonces[s] \in Nonces \cup {None}
  BY Known DEF RepairInv, TypesInv
<1>2. StreamsTyped(streams)
  BY DEF RepairInv, TypesInv, StreamsTyped
<1>3. h \in Halves \cup {None}
  BY <1>1, <1>2 DEF StreamsTyped
<1>4. streams' = [streams EXCEPT !["server"][s] = g]
  BY DEF Repair!Wrote
<1>5. g \in Halves \cup {None}
  <2>1. h # None => [h EXCEPT !.fin_sent = TRUE] \in Halves
    BY <1>3 DEF Halves
  <2>. QED
    BY <2>1 DEF Repair!Reaped
<1>. HIDE DEF g
<1>6. /\ StreamsTyped(streams')
      /\ streams'["requester"] = streams["requester"]
      /\ \A t \in Streams \ {s} : streams'["server"][t] = streams["server"][t]
  BY <1>1, <1>2, <1>4, <1>5 DEF StreamsTyped
<1>7. o \in R /\ f \in R
  <2>1. bytes \in Bytes
    BY <1>1, BytesFacts
  <2>. QED
    BY <2>1, SignalFits DEF RequesterOps, Repair!Op
<1>8. ops["server"] \in Seq(S) /\ ops["requester"] \in Seq(R)
      /\ DOMAIN ops = {"requester", "server"}
  BY RestFacts DEF OpsTyped
<1>9. ops' = ops \/ ops' = [ops EXCEPT !["requester"] = @ \o <<o, f>>]
  BY DEF Repair!Wrote, Repair!Other
<1>. HIDE DEF S, R, o, f
<1>10. /\ ops'["server"] \in Seq(S) /\ ops'["requester"] \in Seq(R)
       /\ DOMAIN ops' = {"requester", "server"}
  <2>1. ops["requester"] \o <<o, f>> \in Seq(R)
    BY <1>7, <1>8
  <2>2. CASE ops' = ops
    BY <1>8, <2>2
  <2>3. CASE ops' = [ops EXCEPT !["requester"] = @ \o <<o, f>>]
    BY <1>8, <2>1, <2>3
  <2>. QED
    BY <1>9, <2>2, <2>3
<1>11. OpsTyped(ops')
  BY <1>10 DEF OpsTyped, S, R
<1>. QED
  BY <1>6, <1>11

-----------------------------------------------------------------------------
(* The server's handlers.                                                  *)

\* What the invariant says of the server's side.
LEMMA ServerHeld ==
  ASSUME RepairInv
  PROVE  /\ DOMAIN events = {"requester", "server"}
         /\ events["server"] \in Seq(ServerEvents(opened, nonces))
         /\ StreamsTyped(streams)
         /\ inbound \in [Streams -> [buf : Seq(Bytes), awaiting : BOOLEAN] \cup {None}]
         /\ nonces \in [Streams -> Nonces \cup {None}]
         /\ \A s \in Streams : inbound[s] # None =>
              /\ inbound[s].buf \in Seq(Requests(nonces[s]))
              /\ streams["server"][s] # None /\ ~streams["server"][s].fin_sent
BY DEF RepairInv, TypesInv, QueuesInv, StreamsInv, StreamsTyped

\* The server gives up the request of stream s.
LEMMA ServerForgets ==
  ASSUME RepairInv, NEW s \in 1 .. opened,
         inbound' = [inbound EXCEPT ![s] = None],
         UNCHANGED <<opened, nonces, told, outbound, concluded, dropped>>,
         DOMAIN events' = {"requester", "server"},
         events'["requester"] = events["requester"],
         events'["server"] \in Seq(ServerEvents(opened, nonces)),
         StreamsTyped(streams'), streams'["requester"] = streams["requester"],
         \A t \in Streams \ {s} : streams'["server"][t] = streams["server"][t],
         OpsTyped(ops')
  PROVE  RepairInv'
<1>1. s \in Streams
  BY Known
<1>2. /\ inbound' \in [Streams -> [buf : Seq(Bytes), awaiting : BOOLEAN] \cup {None}]
      /\ \A t \in Streams \ {s} : inbound'[t] = inbound[t]
      /\ inbound'[s] = None
  BY <1>1, ServerHeld
<1>. QED
  BY <1>2, ServerStep

\* The server learns of a new stream.
LEMMA ServerOpenedKeeps ==
  ASSUME RepairInv, NEW s \in 1 .. opened, ops["server"] # <<>>,
         Repair!ServerOpened(s), UNCHANGED <<opened, nonces, told>>
  PROVE  RepairInv'
<1>1. s \in Streams
  BY Known
<1>2. OpsTyped(Repair!Rest("server"))
  BY RestFacts
<1>3. UNCHANGED <<outbound, events, concluded, dropped>>
  BY DEF Repair!ServerOpened, Repair!Silent
<1>4. CASE ops' = Repair!Rest("server") /\ UNCHANGED <<streams, inbound>>
  BY <1>1, <1>2, <1>3, <1>4, ServerHeld, ServerStep
<1>5. CASE /\ streams' = streams /\ UNCHANGED inbound
           /\ ops' = [Repair!Rest("server") EXCEPT !["requester"] =
                        Append(@, Repair!Op(s, "reset", None))]
  <2>. DEFINE R == RequesterOps(opened, nonces)
              p == Repair!Rest("server")
              o == Repair!Op(s, "reset", None)
  <2>1. o \in R
    BY SignalFits
  <2>2. p["requester"] \in Seq(R) /\ DOMAIN p = {"requester", "server"}
    BY <1>2 DEF OpsTyped
  <2>. HIDE DEF R, p, o
  <2>3. Append(p["requester"], o) \in Seq(R)
    BY <2>1, <2>2
  <2>4. /\ ops'["requester"] \in Seq(R) /\ ops'["server"] = p["server"]
        /\ DOMAIN ops' = {"requester", "server"}
    BY <1>5, <2>2, <2>3 DEF p, o
  <2>5. OpsTyped(ops')
    BY <1>2, <2>4 DEF OpsTyped, R, p
  <2>. QED
    BY <1>1, <1>3, <1>5, <2>5, ServerHeld, ServerStep
<1>6. CASE /\ streams' = [streams EXCEPT !["server"][s] = Repair!Half]
           /\ inbound' = [inbound EXCEPT ![s] = [buf |-> <<>>, awaiting |-> FALSE]]
           /\ ops' = Repair!Rest("server")
  <2>1. Repair!Half \in Halves /\ ~Repair!Half.fin_sent /\ Repair!Half # None
    <3>1. Repair!Half = [fin_sent |-> FALSE, fin_recvd |-> FALSE]
      BY DEF Repair!Half
    <3>2. Repair!Half \in Halves /\ ~Repair!Half.fin_sent
      BY <3>1 DEF Halves
    <3>. QED
      BY <3>2, NoneFacts
  <2>2. /\ StreamsTyped(streams') /\ streams'["requester"] = streams["requester"]
        /\ streams'["server"][s] = Repair!Half
        /\ \A t \in Streams \ {s} : streams'["server"][t] = streams["server"][t]
    BY <1>1, <1>6, <2>1, ServerHeld DEF StreamsTyped
  <2>3. <<>> \in Seq(Bytes) /\ <<>> \in Seq(Requests(nonces[s]))
    OBVIOUS
  <2>4. /\ inbound' \in [Streams -> [buf : Seq(Bytes), awaiting : BOOLEAN] \cup {None}]
        /\ inbound'[s].buf = <<>>
        /\ \A t \in Streams \ {s} : inbound'[t] = inbound[t]
    BY <1>1, <1>6, <2>3, ServerHeld
  <2>. QED
    BY <1>2, <1>3, <1>6, <2>1, <2>2, <2>3, <2>4, ServerHeld, ServerStep
<1>. QED
  BY <1>4, <1>5, <1>6 DEF Repair!ServerOpened

\* The server reads from a stream.
LEMMA ServerDataKeeps ==
  ASSUME RepairInv, NEW s \in 1 .. opened, ops["server"] # <<>>,
         NEW bytes \in Requests(nonces[s]) \cup {Repair!Huge},
         Repair!ServerData(s, bytes), UNCHANGED <<opened, nonces, told>>
  PROVE  RepairInv'
<1>1. s \in Streams /\ nonces[s] \in Nonces \cup {None}
  BY Known, ServerHeld
<1>2. OpsTyped(Repair!Rest("server"))
  BY RestFacts
<1>3. UNCHANGED <<outbound, events, concluded, dropped>>
  BY DEF Repair!ServerData, Repair!Silent
<1>4. CASE ops' = Repair!Rest("server") /\ UNCHANGED <<streams, inbound>>
  BY <1>1, <1>2, <1>3, <1>4, ServerHeld, ServerStep
<1>5. CASE Repair!Reset("server", s, Repair!Rest("server")) /\ inbound' = [inbound EXCEPT ![s] = None]
  <2>1. /\ StreamsTyped(streams') /\ OpsTyped(ops')
        /\ streams'["requester"] = streams["requester"]
        /\ \A t \in Streams \ {s} : streams'["server"][t] = streams["server"][t]
    BY <1>2, <1>5, ResetFacts DEF Repair!Other
  <2>. QED
    BY <1>3, <1>5, <2>1, ServerHeld, ServerForgets
<1>6. CASE /\ bytes # Repair!Huge /\ inbound[s] # None
           /\ ops' = Repair!Rest("server") /\ UNCHANGED streams
           /\ inbound' = [inbound EXCEPT ![s].buf = Append(@, bytes)]
  <2>. DEFINE T == Requests(nonces[s])
              b == inbound[s].buf
  <2>1. bytes \in T /\ bytes \in Bytes
    BY <1>1, <1>6, BytesFacts
  <2>2. /\ b \in Seq(T) /\ b \in Seq(Bytes)
        /\ streams["server"][s] # None /\ ~streams["server"][s].fin_sent
    BY <1>1, <1>6, ServerHeld
  <2>3. Append(b, bytes) \in Seq(T) /\ Append(b, bytes) \in Seq(Bytes)
    <3>. HIDE DEF T
    <3>. QED
      BY <2>1, <2>2
  <2>4. inbound' = [inbound EXCEPT ![s] = [inbound[s] EXCEPT !.buf = Append(b, bytes)]]
    BY <1>6
  <2>5. /\ [inbound[s] EXCEPT !.buf = Append(b, bytes)] \in [buf : Seq(Bytes), awaiting : BOOLEAN]
        /\ [inbound[s] EXCEPT !.buf = Append(b, bytes)].buf = Append(b, bytes)
    BY <1>1, <1>6, <2>3, ServerHeld
  <2>6. /\ inbound' \in [Streams -> [buf : Seq(Bytes), awaiting : BOOLEAN] \cup {None}]
        /\ inbound'[s].buf = Append(b, bytes)
        /\ \A t \in Streams \ {s} : inbound'[t] = inbound[t]
    BY <1>1, <2>4, <2>5, ServerHeld
  <2>. QED
    BY <1>2, <1>3, <1>6, <2>2, <2>3, <2>6, ServerHeld, ServerStep
<1>. QED
  BY <1>4, <1>5, <1>6 DEF Repair!ServerData

\* The server has read a whole request.
LEMMA ServerFinishedKeeps ==
  ASSUME RepairInv, NEW s \in 1 .. opened, ops["server"] # <<>>,
         Repair!ServerFinished(s), UNCHANGED <<opened, nonces, told>>
  PROVE  RepairInv'
<1>1. s \in Streams /\ nonces[s] \in Nonces \cup {None}
  BY Known, ServerHeld
<1>2. OpsTyped(Repair!Rest("server"))
  BY RestFacts
<1>. DEFINE b == inbound[s].buf
            e == [kind |-> "request", stream |-> s, request |-> b[1][2]]
<1>3. CASE /\ ops' = Repair!Rest("server") /\ streams' = Repair!Finished("server", s)
           /\ Repair!Silent /\ UNCHANGED <<inbound, rate>>
  <2>1. /\ StreamsTyped(streams') /\ streams'["requester"] = streams["requester"]
        /\ \A t \in Streams \ {s} : streams'["server"][t] = streams["server"][t]
        /\ streams["server"][s] # None /\ ~streams["server"][s].fin_sent =>
              streams'["server"][s] # None /\ ~streams'["server"][s].fin_sent
    BY <1>3, FinishedFacts DEF Repair!Other
  <2>2. UNCHANGED <<outbound, events, concluded, dropped>>
    BY <1>3 DEF Repair!Silent
  <2>. QED
    BY <1>1, <1>2, <1>3, <2>1, <2>2, ServerHeld, ServerStep
<1>4. CASE /\ inbound[s] # None /\ Len(b) = 1 /\ b[1] # Repair!Garbage
           /\ ops' = Repair!Rest("server") /\ streams' = Repair!Finished("server", s)
           /\ inbound' = [inbound EXCEPT ![s] = [buf |-> <<>>, awaiting |-> TRUE]]
           /\ events' = Repair!Pushed("server", e)
           /\ UNCHANGED <<outbound, concluded, dropped>>
  <2>1. /\ StreamsTyped(streams') /\ streams'["requester"] = streams["requester"]
        /\ \A t \in Streams \ {s} : streams'["server"][t] = streams["server"][t]
        /\ streams["server"][s] # None /\ ~streams["server"][s].fin_sent =>
              streams'["server"][s] # None /\ ~streams'["server"][s].fin_sent
    BY <1>4, FinishedFacts DEF Repair!Other
  <2>2. streams["server"][s] # None /\ ~streams["server"][s].fin_sent
    BY <1>1, <1>4, ServerHeld
  <2>3. b[1] \in Requests(nonces[s])
    BY <1>1, <1>4, ServerHeld
  <2>4. PICK q \in Whose(nonces[s]) : b[1] = Repair!Requested(q)
    BY <1>4, <2>3 DEF Requests
  <2>5. b[1][2] = q /\ q \in Nonces
    BY <1>1, <2>4, BytesFacts DEF Repair!Requested
  <2>6. e \in ServerEvents(opened, nonces)
    BY <2>4, <2>5 DEF ServerEvents
  <2>. HIDE DEF e
  <2>7. events' = [events EXCEPT !["server"] = Append(@, e)]
    BY <1>4 DEF Repair!Pushed, Repair!Full
  <2>8. /\ DOMAIN events' = {"requester", "server"}
        /\ events'["requester"] = events["requester"]
        /\ events'["server"] \in Seq(ServerEvents(opened, nonces))
    <3>. DEFINE E == ServerEvents(opened, nonces)
    <3>1. events["server"] \in Seq(E) /\ e \in E
      BY <2>6, ServerHeld
    <3>. HIDE DEF E
    <3>2. Append(events["server"], e) \in Seq(E)
      BY <3>1
    <3>. QED
      BY <2>7, <3>2, ServerHeld DEF E
  <2>9. <<>> \in Seq(Bytes) /\ <<>> \in Seq(Requests(nonces[s]))
    OBVIOUS
  <2>10. /\ inbound' \in [Streams -> [buf : Seq(Bytes), awaiting : BOOLEAN] \cup {None}]
         /\ inbound'[s].buf = <<>>
         /\ \A t \in Streams \ {s} : inbound'[t] = inbound[t]
    BY <1>1, <1>4, <2>9, ServerHeld
  <2>. QED
    BY <1>2, <1>4, <2>1, <2>2, <2>8, <2>9, <2>10, ServerStep
<1>5. CASE /\ Repair!Reset("server", s, Repair!Rest("server"))
           /\ inbound' = [inbound EXCEPT ![s] = None]
           /\ Repair!Silent
  <2>1. /\ StreamsTyped(streams') /\ OpsTyped(ops')
        /\ streams'["requester"] = streams["requester"]
        /\ \A t \in Streams \ {s} : streams'["server"][t] = streams["server"][t]
    BY <1>2, <1>5, ResetFacts DEF Repair!Other
  <2>2. UNCHANGED <<outbound, events, concluded, dropped>>
    BY <1>5 DEF Repair!Silent
  <2>. QED
    BY <1>5, <2>1, <2>2, ServerHeld, ServerForgets
<1>. HIDE DEF b, e
<1>. QED
  BY <1>3, <1>4, <1>5 DEF Repair!ServerFinished, b, e

\* The driver hands an answer over, or finds its request given up.
LEMMA DriveServerKeeps ==
  ASSUME RepairInv, NEW outcome \in Repair!Outcomes, Repair!DriveServer(outcome)
  PROVE  RepairInv'
<1>. DEFINE E == ServerEvents(opened, nonces)
            e == Head(events["server"])
            s == e.stream
            bytes == IF outcome = "shred" THEN Repair!Shred(e.request) ELSE <<outcome>>
<1>1. events["server"] \in Seq(E) /\ events["server"] # <<>>
      /\ events' = [events EXCEPT !["server"] = Tail(@)]
  BY ServerHeld DEF Repair!DriveServer
<1>2. e \in E /\ Tail(events["server"]) \in Seq(E)
  <2>. HIDE DEF E
  <2>. QED
    BY <1>1
<1>3. s \in 1 .. opened /\ e.request \in Whose(nonces[s]) /\ e.request \in Nonces
  BY <1>2 DEF ServerEvents
<1>4. /\ DOMAIN events' = {"requester", "server"}
      /\ events'["requester"] = events["requester"]
      /\ events'["server"] \in Seq(E)
  <2>. HIDE DEF E
  <2>. QED
    BY <1>1, <1>2, ServerHeld
<1>5. /\ inbound' = [inbound EXCEPT ![s] = None]
      /\ UNCHANGED <<opened, nonces, told, outbound, concluded, dropped>>
  BY DEF Repair!DriveServer
<1>6. \/ UNCHANGED <<streams, ops>>
      \/ Repair!Reset("server", s, ops)
      \/ outcome # "oversize" /\ Repair!Wrote("server", s, bytes)
  BY DEF Repair!DriveServer
<1>7. outcome # "oversize" => bytes \in Answers(nonces[s]) \cup {Repair!Huge}
  BY <1>3 DEF Answers, Repair!Outcomes, Repair!Garbage, Repair!Huge, Repair!NotFound
<1>. HIDE DEF bytes, e, E
<1>8. /\ StreamsTyped(streams') /\ OpsTyped(ops')
      /\ streams'["requester"] = streams["requester"]
      /\ \A t \in Streams \ {s} : streams'["server"][t] = streams["server"][t]
  <2>1. CASE UNCHANGED <<streams, ops>>
    BY <2>1, ServerHeld, RestFacts
  <2>2. CASE Repair!Reset("server", s, ops)
    BY <1>3, <2>2, RestFacts, ResetFacts DEF Repair!Other
  <2>3. CASE outcome # "oversize" /\ Repair!Wrote("server", s, bytes)
    BY <1>3, <1>7, <2>3, WroteFacts
  <2>. QED
    BY <1>6, <2>1, <2>2, <2>3
<1>. QED
  BY <1>3, <1>4, <1>5, <1>8, ServerForgets DEF E

\* The server gives up a stream that took too long.
LEMMA ExpireInboundKeeps ==
  ASSUME RepairInv, NEW s \in Streams, Repair!ExpireInbound(s)
  PROVE  RepairInv'
<1>1. s \in 1 .. opened
  <2>1. inbound[s] # None
    BY DEF Repair!ExpireInbound
  <2>2. ~(s > opened)
    BY <2>1 DEF RepairInv, StreamsInv
  <2>. QED
    BY <2>2, Known DEF Streams
<1>2. /\ Repair!Reset("server", s, ops) /\ inbound' = [inbound EXCEPT ![s] = None]
      /\ UNCHANGED <<opened, nonces, told, outbound, events, concluded, dropped>>
  BY DEF Repair!ExpireInbound
<1>3. /\ StreamsTyped(streams') /\ OpsTyped(ops')
      /\ streams'["requester"] = streams["requester"]
      /\ \A t \in Streams \ {s} : streams'["server"][t] = streams["server"][t]
  BY <1>1, <1>2, RestFacts, ResetFacts DEF Repair!Other
<1>. QED
  BY <1>1, <1>2, <1>3, ServerHeld, ServerForgets

-----------------------------------------------------------------------------
(* The requester's handlers.                                               *)

\* What the invariant says of a stream that waits for its answer, and of one
\* that does not.
LEMMA RequesterHeld ==
  ASSUME RepairInv, NEW s \in Streams
  PROVE  /\ outbound[s] # None =>
              /\ s \in 1 .. opened
              /\ outbound[s] \in Seq(Answers(nonces[s])) /\ outbound[s] \in Seq(Bytes)
              /\ nonces[s] \in Nonces
              /\ streams["requester"][s] # None
         /\ ~Repair!Alive("requester", s) => outbound[s] = None
<1>1. outbound[s] # None =>
        /\ ~(s > opened) /\ nonces[s] # None /\ streams["requester"][s] # None
  BY DEF RepairInv, StreamsInv
<1>2. ~(s > opened) => s \in 1 .. opened
  BY Known DEF Streams
<1>3. outbound[s] # None =>
        /\ outbound[s] \in Seq(Answers(nonces[s])) /\ outbound[s] \in Seq(Bytes)
        /\ nonces[s] \in Nonces \cup {None}
  BY DEF RepairInv, QueuesInv, TypesInv
<1>. QED
  BY <1>1, <1>2, <1>3 DEF Repair!Alive

\* The requester reads from a stream.
LEMMA RequesterDataKeeps ==
  ASSUME RepairInv, NEW s \in 1 .. opened, ops["requester"] # <<>>,
         NEW bytes \in Answers(nonces[s]) \cup {Repair!Huge},
         Repair!RequesterData(s, bytes), UNCHANGED <<opened, nonces, told>>
  PROVE  RepairInv'
<1>1. s \in Streams /\ nonces[s] \in Nonces \cup {None}
  BY Known, ServerHeld
<1>2. OpsTyped(Repair!Rest("requester"))
  BY RestFacts
<1>3. UNCHANGED inbound
  BY DEF Repair!RequesterData
<1>4. CASE /\ outbound[s] = None /\ ops' = Repair!Rest("requester")
           /\ Repair!Silent /\ UNCHANGED streams
  <2>1. UNCHANGED <<outbound, events, concluded, dropped>>
    BY <1>4 DEF Repair!Silent
  <2>. QED
    BY <1>2, <1>3, <1>4, <2>1, ServerHeld, QuietStep
<1>5. CASE /\ outbound[s] # None
           /\ Repair!Reset("requester", s, Repair!Rest("requester"))
           /\ Repair!Conclude(s, None)
  <2>1. /\ StreamsTyped(streams') /\ OpsTyped(ops')
        /\ streams'["server"] = streams["server"]
        /\ \A t \in Streams \ {s} : streams'["requester"][t] = streams["requester"][t]
    BY <1>2, <1>5, ResetFacts DEF Repair!Other
  <2>. QED
    BY <1>3, <1>5, <2>1, ConcludeStep
<1>6. CASE /\ outbound[s] # None /\ bytes # Repair!Huge
           /\ ops' = Repair!Rest("requester")
           /\ UNCHANGED <<streams, events, concluded, dropped>>
           /\ outbound' = [outbound EXCEPT ![s] = Append(@, bytes)]
  <2>. DEFINE T == Answers(nonces[s])
              b == outbound[s]
  <2>1. bytes \in T /\ bytes \in Bytes /\ b \in Seq(T) /\ b \in Seq(Bytes)
    BY <1>1, <1>6, BytesFacts, RequesterHeld
  <2>2. Append(b, bytes) \in Seq(T) /\ Append(b, bytes) \in Seq(Bytes)
    <3>. HIDE DEF T
    <3>. QED
      BY <2>1
  <2>3. Append(b, bytes) # None
    BY <2>2, NoneFacts
  <2>4. \A t \in Streams : outbound'[t] = IF t = s THEN Append(b, bytes) ELSE outbound[t]
    BY <1>6 DEF RepairInv, TypesInv
  <2>5. TypesInv'
    BY <1>2, <1>3, <1>6, <2>2 DEF RepairInv, TypesInv, OpsTyped
  <2>6. QueuesInv'
    BY <1>2, <1>3, <1>6, <2>2, <2>4 DEF RepairInv, QueuesInv, OpsTyped
  <2>7. StreamsInv'
    <3>1. ~(s > opened)
      BY Known
    <3>. QED
      BY <1>3, <1>6, <2>3, <2>4, <3>1 DEF RepairInv, StreamsInv
  <2>8. ToldInv'
    BY DEF RepairInv, ToldInv
  <2>. QED
    BY <2>5, <2>6, <2>7, <2>8 DEF RepairInv
<1>7. ~Repair!Alive("requester", s) => outbound[s] = None
  BY <1>1, RequesterHeld
<1>. QED
  BY <1>4, <1>5, <1>6, <1>7 DEF Repair!RequesterData

\* The requester has read a whole answer.
LEMMA RequesterFinishedKeeps ==
  ASSUME RepairInv, NEW s \in 1 .. opened, ops["requester"] # <<>>,
         Repair!RequesterFinished(s), UNCHANGED <<opened, nonces, told>>
  PROVE  RepairInv'
<1>1. s \in Streams
  BY Known
<1>. DEFINE b == outbound[s]
            a == IF Len(b) = 1 /\ b[1] # Repair!Garbage THEN b[1] ELSE None
<1>2. /\ OpsTyped(ops') /\ UNCHANGED inbound
      /\ streams' = Repair!Finished("requester", s)
  BY RestFacts DEF Repair!RequesterFinished
<1>3. /\ StreamsTyped(streams') /\ streams'["server"] = streams["server"]
      /\ \A t \in Streams \ {s} : streams'["requester"][t] = streams["requester"][t]
  BY <1>2, FinishedFacts DEF Repair!Other
<1>4. \/ outbound[s] = None /\ Repair!Silent
      \/ outbound[s] # None /\ Repair!Conclude(s, a)
  BY <1>1, RequesterHeld DEF Repair!RequesterFinished
<1>5. outbound[s] # None /\ a # None => a \in Answers(nonces[s]) \ {Repair!Garbage}
  BY <1>1, RequesterHeld
<1>. HIDE DEF a
<1>6. CASE outbound[s] = None /\ Repair!Silent
  <2>1. UNCHANGED <<outbound, events, concluded, dropped>>
    BY <1>6 DEF Repair!Silent
  <2>. QED
    BY <1>2, <1>3, <1>6, <2>1, QuietStep
<1>7. CASE outbound[s] # None /\ Repair!Conclude(s, a)
  BY <1>2, <1>3, <1>5, <1>7, ConcludeStep
<1>. QED
  BY <1>4, <1>6, <1>7

\* A reset arrives at either end.
LEMMA FailedKeeps ==
  ASSUME RepairInv, NEW end \in {"requester", "server"}, NEW s \in 1 .. opened,
         ops[end] # <<>>, Repair!Failed(end, s), UNCHANGED <<opened, nonces, told>>
  PROVE  RepairInv'
<1>1. s \in Streams
  BY Known
<1>2. /\ OpsTyped(ops')
      /\ streams' = [streams EXCEPT ![end][s] = None]
  BY RestFacts DEF Repair!Failed
<1>3. /\ StreamsTyped(streams')
      /\ end = "server" => streams'["requester"] = streams["requester"]
      /\ end = "requester" => streams'["server"] = streams["server"]
      /\ \A t \in Streams \ {s} : streams'[end][t] = streams[end][t]
  BY <1>1, <1>2, ServerHeld DEF StreamsTyped
<1>4. CASE end = "server"
  <2>1. /\ inbound' = [inbound EXCEPT ![s] = None]
        /\ UNCHANGED <<outbound, events, concluded, dropped>>
    BY <1>4 DEF Repair!Failed, Repair!Silent
  <2>. QED
    BY <1>2, <1>3, <1>4, <2>1, ServerHeld, ServerForgets
<1>5. CASE end = "requester" /\ outbound[s] # None
  <2>1. Repair!Conclude(s, None) /\ UNCHANGED inbound
    BY <1>1, <1>5, RequesterHeld DEF Repair!Failed
  <2>. QED
    BY <1>2, <1>3, <1>5, <2>1, ConcludeStep
<1>6. CASE end = "requester" /\ outbound[s] = None
  <2>1. UNCHANGED <<inbound, outbound, events, concluded, dropped>>
    BY <1>6 DEF Repair!Failed, Repair!Silent
  <2>. QED
    BY <1>2, <1>3, <1>6, <2>1, QuietStep
<1>. QED
  BY <1>4, <1>5, <1>6

\* The requester gives up a stream that took too long.
LEMMA ExpireOutboundKeeps ==
  ASSUME RepairInv, NEW s \in Streams, Repair!ExpireOutbound(s)
  PROVE  RepairInv'
<1>1. /\ outbound[s] # None
      /\ Repair!Reset("requester", s, ops) /\ Repair!Conclude(s, None)
      /\ UNCHANGED <<opened, nonces, told, inbound>>
  BY DEF Repair!ExpireOutbound
<1>2. s \in 1 .. opened
  BY <1>1, RequesterHeld
<1>3. /\ StreamsTyped(streams') /\ OpsTyped(ops')
      /\ streams'["server"] = streams["server"]
      /\ \A t \in Streams \ {s} : streams'["requester"][t] = streams["requester"][t]
  BY <1>1, <1>2, RestFacts, ResetFacts DEF Repair!Other
<1>. QED
  BY <1>1, <1>2, <1>3, ConcludeStep

\* Any message that arrives.
LEMMA ReceiveKeeps ==
  ASSUME RepairInv, NEW end \in {"requester", "server"}, Repair!Receive(end)
  PROVE  RepairInv'
<1>. DEFINE o == Head(ops[end])
<1>1. ops[end] # <<>> /\ UNCHANGED <<opened, nonces, told>>
  BY DEF Repair!Receive
<1>2. /\ end = "server" => o \in ServerOps(opened, nonces)
      /\ end = "requester" => o \in RequesterOps(opened, nonces)
  BY <1>1, RestFacts
<1>3. o.stream \in 1 .. opened
  BY <1>2 DEF ServerOps, RequesterOps
<1>4. /\ end = "requester" => o.kind # "open"
      /\ end = "server" /\ o.kind = "data" =>
           o.bytes \in Requests(nonces[o.stream]) \cup {Repair!Huge}
      /\ end = "requester" /\ o.kind = "data" =>
           o.bytes \in Answers(nonces[o.stream]) \cup {Repair!Huge}
  BY <1>2 DEF ServerOps, RequesterOps
<1>5. \/ o.kind = "open" /\ Repair!ServerOpened(o.stream)
      \/ o.kind = "data" /\ end = "server" /\ Repair!ServerData(o.stream, o.bytes)
      \/ o.kind = "data" /\ end = "requester" /\ Repair!RequesterData(o.stream, o.bytes)
      \/ o.kind = "fin" /\ end = "server" /\ Repair!ServerFinished(o.stream)
      \/ o.kind = "fin" /\ end = "requester" /\ Repair!RequesterFinished(o.stream)
      \/ o.kind = "reset" /\ Repair!Failed(end, o.stream)
  BY DEF Repair!Receive, Repair!Arrived
<1>. HIDE DEF o
<1>6. CASE o.kind = "open" /\ Repair!ServerOpened(o.stream)
  <2>1. end = "server"
    BY <1>4, <1>6
  <2>. QED
    BY <1>1, <1>3, <1>6, <2>1, ServerOpenedKeeps
<1>7. CASE o.kind = "data" /\ end = "server" /\ Repair!ServerData(o.stream, o.bytes)
  BY <1>1, <1>3, <1>4, <1>7, ServerDataKeeps
<1>8. CASE o.kind = "data" /\ end = "requester" /\ Repair!RequesterData(o.stream, o.bytes)
  BY <1>1, <1>3, <1>4, <1>8, RequesterDataKeeps
<1>9. CASE o.kind = "fin" /\ end = "server" /\ Repair!ServerFinished(o.stream)
  BY <1>1, <1>3, <1>9, ServerFinishedKeeps
<1>10. CASE o.kind = "fin" /\ end = "requester" /\ Repair!RequesterFinished(o.stream)
  BY <1>1, <1>3, <1>10, RequesterFinishedKeeps
<1>11. CASE o.kind = "reset" /\ Repair!Failed(end, o.stream)
  BY <1>1, <1>3, <1>11, FailedKeeps
<1>. QED
  BY <1>5, <1>6, <1>7, <1>8, <1>9, <1>10, <1>11

-----------------------------------------------------------------------------
(* The requester's driver.                                                 *)

\* A stream is opened, for nonce q or for no request at all.
LEMMA OpenKeeps ==
  ASSUME RepairInv, opened + 1 <= MaxStreams,
         NEW q \in Nonces \cup {None},
         NEW bytes \in Requests(q) \cup {Repair!Huge},
         opened' = opened + 1,
         streams' = [streams EXCEPT !["requester"][opened + 1] =
                       [Repair!Half EXCEPT !.fin_sent = TRUE]],
         ops' = [ops EXCEPT !["server"] =
                   @ \o <<Repair!Op(opened + 1, "open", None),
                          Repair!Op(opened + 1, "data", bytes),
                          Repair!Op(opened + 1, "fin", None)>>],
         outbound' = IF q = None THEN outbound ELSE [outbound EXCEPT ![opened + 1] = <<>>],
         nonces' = [nonces EXCEPT ![opened + 1] = q],
         UNCHANGED <<inbound, events, told, concluded, dropped>>
  PROVE  RepairInv'
<1>. DEFINE s == opened + 1
            h == [Repair!Half EXCEPT !.fin_sent = TRUE]
            S == ServerOps(opened', nonces')
            R == RequesterOps(opened', nonces')
<1>1. /\ opened \in Nat /\ MaxStreams \in Nat /\ s \in Streams /\ s > opened
      /\ opened' \in 0 .. MaxStreams /\ s \in 1 .. opened'
      /\ opened \in 0 .. MaxStreams /\ opened <= opened' /\ s \notin 1 .. opened
  BY Known DEF Streams
<1>2. /\ nonces \in [Streams -> Nonces \cup {None}]
      /\ nonces' \in [Streams -> Nonces \cup {None}]
      /\ nonces'[s] = q /\ \A t \in Streams \ {s} : nonces'[t] = nonces[t]
      /\ nonces[s] = None
  BY <1>1 DEF RepairInv, TypesInv, StreamsInv
<1>3. \A t \in 1 .. opened : t \in Streams /\ nonces'[t] \in {nonces[t], None}
  BY <1>1, <1>2, Known
<1>4. /\ Seq(ServerOps(opened, nonces)) \subseteq Seq(S)
      /\ Seq(RequesterOps(opened, nonces)) \subseteq Seq(R)
      /\ Seq(ServerEvents(opened, nonces)) \subseteq Seq(ServerEvents(opened', nonces'))
      /\ Seq(RequesterEvents(opened, nonces)) \subseteq Seq(RequesterEvents(opened', nonces'))
  <2>1. \A t \in 1 .. opened : nonces'[t] \in {nonces[t], None}
    BY <1>3
  <2>. DEFINE m == opened'
              ms == nonces'
  <2>2. /\ opened \in 0 .. MaxStreams /\ m \in 0 .. MaxStreams /\ opened <= m
        /\ nonces \in [Streams -> Nonces \cup {None}]
        /\ ms \in [Streams -> Nonces \cup {None}]
        /\ \A t \in 1 .. opened : ms[t] \in {nonces[t], None}
    BY <1>1, <1>2, <2>1
  <2>. HIDE DEF m, ms
  <2>3. /\ Seq(ServerOps(opened, nonces)) \subseteq Seq(ServerOps(m, ms))
        /\ Seq(RequesterOps(opened, nonces)) \subseteq Seq(RequesterOps(m, ms))
        /\ Seq(ServerEvents(opened, nonces)) \subseteq Seq(ServerEvents(m, ms))
        /\ Seq(RequesterEvents(opened, nonces)) \subseteq Seq(RequesterEvents(m, ms))
    BY <2>2, Monotone
  <2>. QED
    BY <2>3 DEF m, ms
<1>5. h \in Halves /\ h # None
  <2>1. Repair!Half \in Halves
    BY DEF Repair!Half, Halves
  <2>2. h \in Halves
    BY <2>1 DEF Halves
  <2>. QED
    BY <2>2, NoneFacts
<1>. HIDE DEF h
<1>6. /\ StreamsTyped(streams') /\ streams'["server"] = streams["server"]
      /\ streams'["requester"][s] = h
      /\ \A t \in Streams \ {s} : streams'["requester"][t] = streams["requester"][t]
  BY <1>1, <1>5, ServerHeld DEF StreamsTyped, h
<1>7. /\ Repair!Op(s, "open", None) \in S /\ Repair!Op(s, "data", bytes) \in S
      /\ Repair!Op(s, "fin", None) \in S
  <2>1. bytes \in Bytes
    BY BytesFacts
  <2>. QED
    BY <1>1, <1>2, <2>1 DEF ServerOps, Repair!Op
<1>8. /\ DOMAIN ops' = {"requester", "server"}
      /\ ops'["server"] \in Seq(S) /\ ops'["requester"] \in Seq(R)
  <2>. DEFINE x == Repair!Op(s, "open", None)
              y == Repair!Op(s, "data", bytes)
              z == Repair!Op(s, "fin", None)
  <2>1. /\ ops["server"] \in Seq(S) /\ ops["requester"] \in Seq(R)
        /\ DOMAIN ops = {"requester", "server"}
    BY <1>4, RestFacts DEF OpsTyped
  <2>2. x \in S /\ y \in S /\ z \in S
    BY <1>7
  <2>3. ops' = [ops EXCEPT !["server"] = @ \o <<x, y, z>>]
    OBVIOUS
  <2>. HIDE DEF S, R, x, y, z
  <2>4. ops["server"] \o <<x, y, z>> \in Seq(S)
    BY <2>1, <2>2
  <2>. QED
    BY <2>1, <2>3, <2>4
<1>9. /\ outbound' \in [Streams -> Seq(Bytes) \cup {None}]
      /\ \A t \in Streams \ {s} : outbound'[t] = outbound[t]
      /\ outbound'[s] = IF q = None THEN None ELSE <<>>
      /\ <<>> # None /\ <<>> \in Seq(Bytes)
  <2>1. <<>> \in Seq(Bytes)
    OBVIOUS
  <2>2. outbound[s] = None /\ outbound \in [Streams -> Seq(Bytes) \cup {None}]
    BY <1>1 DEF RepairInv, TypesInv, StreamsInv
  <2>. QED
    BY <1>1, <2>1, <2>2, NoneFacts
<1>10. TypesInv'
  BY <1>1, <1>2, <1>6, <1>8, <1>9 DEF RepairInv, TypesInv, StreamsTyped
<1>11. QueuesInv'
  <2>1. /\ events["server"] \in Seq(ServerEvents(opened', nonces'))
        /\ events["requester"] \in Seq(RequesterEvents(opened', nonces'))
    BY <1>4 DEF RepairInv, QueuesInv
  <2>2. \A t \in Streams :
          /\ outbound'[t] # None => outbound'[t] \in Seq(Answers(nonces'[t]))
          /\ inbound[t] # None => inbound[t].buf \in Seq(Requests(nonces'[t]))
    <3>1. inbound[s] = None
      BY <1>1 DEF RepairInv, StreamsInv
    <3>2. \A t \in Streams :
            /\ outbound[t] # None => outbound[t] \in Seq(Answers(nonces[t]))
            /\ inbound[t] # None => inbound[t].buf \in Seq(Requests(nonces[t]))
      BY DEF RepairInv, QueuesInv
    <3>3. <<>> \in Seq(Answers(nonces'[s]))
      OBVIOUS
    <3>. QED
      BY <1>1, <1>2, <1>9, <3>1, <3>2, <3>3
  <2>. QED
    BY <1>8, <2>1, <2>2 DEF QueuesInv
<1>12. StreamsInv'
  <2>1. ~Reported(events["requester"], s)
    <3>1. events["requester"] \in Seq(RequesterEvents(opened, nonces))
      BY DEF RepairInv, QueuesInv
    <3>2. \A i \in 1 .. Len(events["requester"]) :
            events["requester"][i] \in RequesterEvents(opened, nonces)
      BY <3>1
    <3>3. \A e \in RequesterEvents(opened, nonces) : e.kind = "concluded" => e.stream \in 1 .. opened
      BY DEF RequesterEvents
    <3>. QED
      BY <1>1, <3>2, <3>3 DEF Reported
  <2>2. \A t \in Streams : t > opened' => t > opened /\ t # s
    BY <1>1 DEF Streams
  <2>. SUFFICES ASSUME NEW t \in Streams
                PROVE  /\ t > opened' => outbound'[t] = None /\ inbound[t] = None /\ nonces'[t] = None
                                          /\ concluded[t] = 0
                       /\ outbound'[t] # None =>
                            /\ nonces'[t] # None /\ concluded[t] = 0
                            /\ streams'["requester"][t] # None
                            /\ ~Reported(events["requester"], t)
                       /\ inbound[t] # None =>
                            streams'["server"][t] # None /\ ~streams'["server"][t].fin_sent
                       /\ nonces'[t] # None =>
                            outbound'[t] # None \/ t \in dropped \/ Reported(events["requester"], t)
    BY DEF StreamsInv
  <2>3. /\ t > opened => outbound[t] = None /\ inbound[t] = None /\ nonces[t] = None
                                          /\ concluded[t] = 0
        /\ outbound[t] # None =>
             /\ nonces[t] # None /\ concluded[t] = 0
             /\ streams["requester"][t] # None
             /\ ~Reported(events["requester"], t)
        /\ inbound[t] # None =>
             streams["server"][t] # None /\ ~streams["server"][t].fin_sent
        /\ nonces[t] # None =>
             outbound[t] # None \/ t \in dropped \/ Reported(events["requester"], t)
    BY DEF RepairInv, StreamsInv
  <2>4. CASE t = s
    BY <1>1, <1>2, <1>5, <1>6, <1>9, <2>1, <2>2, <2>3, <2>4
  <2>5. CASE t # s
    BY <1>2, <1>6, <1>9, <2>2, <2>3, <2>5
  <2>. QED
    BY <2>4, <2>5
<1>13. ToldInv'
  BY DEF RepairInv, ToldInv
<1>. QED
  BY <1>10, <1>11, <1>12, <1>13 DEF RepairInv

\* A repair is requested.
LEMMA RequestKeeps ==
  ASSUME RepairInv, NEW q \in Nonces, Repair!RequestRepair(q)
  PROVE  RepairInv'
<1>1. q # None /\ Repair!Requested(q) \in Requests(q)
  BY NoneFacts DEF Requests, Whose
<1>. QED
  BY <1>1, OpenKeeps DEF Repair!RequestRepair

\* A stream is opened with something that is no request.
LEMMA GarbageKeeps ==
  ASSUME RepairInv, NEW bytes \in {Repair!Garbage, Repair!Huge}, Repair!RequestGarbage(bytes)
  PROVE  RepairInv'
<1>1. bytes \in Requests(None) \cup {Repair!Huge}
  BY DEF Requests
<1>2. opened + 1 \in Streams /\ opened + 1 > opened
  BY Known DEF Streams, Repair!RequestGarbage
<1>3. nonces[opened + 1] = None /\ nonces \in [Streams -> Nonces \cup {None}]
  BY <1>2 DEF RepairInv, StreamsInv, TypesInv
<1>4. nonces' = [nonces EXCEPT ![opened + 1] = None]
  BY <1>2, <1>3 DEF Repair!RequestGarbage
<1>. QED
  BY <1>1, <1>4, OpenKeeps DEF Repair!RequestGarbage

\* A shred of the flood enters the event queue.
LEMMA OtherEventKeeps ==
  ASSUME RepairInv, Repair!OtherEvent
  PROVE  RepairInv'
<1>. DEFINE e == [kind |-> "shred"]
<1>1. e \in RequesterEvents(opened, nonces) /\ e.kind # "concluded"
  BY DEF RequesterEvents
<1>2. /\ events' = Repair!Pushed("requester", e)
      /\ dropped' = dropped \cup Repair!Lost("requester")
      /\ UNCHANGED <<streams, opened, outbound, inbound, ops, concluded, nonces, told>>
  BY DEF Repair!OtherEvent
<1>. HIDE DEF e
<1>3. /\ DOMAIN events' = {"requester", "server"}
      /\ events'["server"] = events["server"]
      /\ events'["requester"] \in Seq(RequesterEvents(opened, nonces))
      /\ \A t : Reported(events'["requester"], t) =>
           Reported(events["requester"], t) \/ (e.kind = "concluded" /\ e.stream = t)
      /\ \A t : Reported(events["requester"], t) =>
           Reported(events'["requester"], t) \/ t \in dropped'
  BY <1>1, <1>2, PushKeeps
<1>4. TypesInv'
  BY <1>2, <1>3 DEF RepairInv, TypesInv
<1>5. QueuesInv'
  BY <1>2, <1>3 DEF RepairInv, QueuesInv
<1>6. StreamsInv'
  BY <1>1, <1>2, <1>3 DEF RepairInv, StreamsInv
<1>7. ToldInv'
  BY <1>2 DEF RepairInv, ToldInv
<1>. QED
  BY <1>4, <1>5, <1>6, <1>7 DEF RepairInv

\* The driver takes an event.
LEMMA DriveRequesterKeeps ==
  ASSUME RepairInv, Repair!DriveRequester
  PROVE  RepairInv'
<1>. DEFINE R == RequesterEvents(opened, nonces)
            q == events["requester"]
            e == Head(q)
            s == e.stream
<1>1. /\ q # <<>> /\ events' = [events EXCEPT !["requester"] = Tail(@)]
      /\ UNCHANGED <<streams, opened, outbound, inbound, ops, concluded, dropped>>
  BY DEF Repair!DriveRequester
<1>2. q \in Seq(R) /\ DOMAIN events = {"requester", "server"}
  BY DEF RepairInv, QueuesInv, TypesInv
<1>3. e \in R /\ Tail(q) \in Seq(R)
  <2>. HIDE DEF R
  <2>. QED
    BY <1>1, <1>2
<1>4. \A t : Reported(q, t) <=> Reported(Tail(q), t) \/ (e.kind = "concluded" /\ e.stream = t)
  <2>. HIDE DEF R
  <2>. QED
    BY <1>1, <1>2, ReportedTail
<1>5. /\ events'["requester"] = Tail(q) /\ events'["server"] = events["server"]
      /\ DOMAIN events' = {"requester", "server"}
  BY <1>1, <1>2
<1>6. CASE e.kind = "shred"
  <2>1. UNCHANGED <<nonces, told>>
    BY <1>6 DEF Repair!DriveRequester
  <2>2. TypesInv'
    BY <1>1, <1>5, <2>1 DEF RepairInv, TypesInv
  <2>3. QueuesInv'
    BY <1>1, <1>3, <1>5, <2>1 DEF RepairInv, QueuesInv
  <2>4. StreamsInv'
    BY <1>1, <1>4, <1>5, <1>6, <2>1 DEF RepairInv, StreamsInv
  <2>5. ToldInv'
    BY <2>1 DEF RepairInv, ToldInv
  <2>. QED
    BY <2>2, <2>3, <2>4, <2>5 DEF RepairInv
<1>7. CASE e.kind # "shred"
  <2>1. /\ e.kind = "concluded" /\ s \in 1 .. opened
        /\ e.answer # None => e.answer \in Answers(nonces[s]) \ {Repair!Garbage}
    BY <1>3, <1>7 DEF RequesterEvents
  <2>2. s \in Streams /\ opened \in 0 .. MaxStreams
    BY <2>1, Known
  <2>3. /\ nonces' = [nonces EXCEPT ![s] = None]
        /\ told' = IF nonces[s] = None \/ e.answer \in {Repair!NotFound, None}
                   THEN told ELSE told \cup {<<nonces[s], e.answer>>}
    BY <1>7 DEF Repair!DriveRequester, Repair!Tagged
  <2>. HIDE DEF e
  <2>4. /\ nonces \in [Streams -> Nonces \cup {None}]
        /\ nonces' \in [Streams -> Nonces \cup {None}]
        /\ nonces'[s] = None
        /\ \A t \in Streams \ {s} : nonces'[t] = nonces[t]
    BY <2>2, <2>3 DEF RepairInv, TypesInv
  <2>5. \A t \in 1 .. opened : t \in Streams /\ nonces'[t] \in {nonces[t], None}
    BY <2>4, Known
  <2>6. /\ Seq(ServerOps(opened, nonces)) \subseteq Seq(ServerOps(opened, nonces'))
        /\ Seq(RequesterOps(opened, nonces)) \subseteq Seq(RequesterOps(opened, nonces'))
        /\ Seq(ServerEvents(opened, nonces)) \subseteq Seq(ServerEvents(opened, nonces'))
        /\ Seq(RequesterEvents(opened, nonces)) \subseteq Seq(RequesterEvents(opened, nonces'))
        /\ \A t \in 1 .. opened : Seq(Requests(nonces[t])) \subseteq Seq(Requests(nonces'[t]))
    <3>1. opened <= opened
      BY <2>2
    <3>. QED
      BY <2>2, <2>4, <2>5, <3>1, Monotone
  <2>7. Reported(q, s) /\ outbound[s] = None
    BY <1>4, <2>1, <2>2 DEF RepairInv, StreamsInv
  <2>8. TypesInv'
    BY <1>1, <1>5, <2>4 DEF RepairInv, TypesInv
  <2>9. QueuesInv'
    <3>1. /\ ops["server"] \in Seq(ServerOps(opened, nonces'))
          /\ ops["requester"] \in Seq(RequesterOps(opened, nonces'))
          /\ events'["server"] \in Seq(ServerEvents(opened, nonces'))
          /\ events'["requester"] \in Seq(RequesterEvents(opened, nonces'))
      BY <1>3, <1>5, <2>6 DEF RepairInv, QueuesInv
    <3>2. ASSUME NEW t \in Streams
          PROVE  /\ outbound[t] # None => outbound[t] \in Seq(Answers(nonces'[t]))
                 /\ inbound[t] # None => inbound[t].buf \in Seq(Requests(nonces'[t]))
      <4>1. /\ outbound[t] # None => outbound[t] \in Seq(Answers(nonces[t]))
            /\ inbound[t] # None => inbound[t].buf \in Seq(Requests(nonces[t]))
        BY DEF RepairInv, QueuesInv
      <4>2. CASE t # s
        BY <2>4, <4>1, <4>2
      <4>3. CASE t = s
        BY <2>1, <2>6, <2>7, <4>1, <4>3
      <4>. QED
        BY <4>2, <4>3
    <3>. QED
      BY <1>1, <3>1, <3>2 DEF QueuesInv
  <2>10. StreamsInv'
    <3>. SUFFICES ASSUME NEW t \in Streams
                  PROVE  /\ t > opened => outbound[t] = None /\ inbound[t] = None /\ nonces'[t] = None
                                            /\ concluded[t] = 0
                         /\ outbound[t] # None =>
                              /\ nonces'[t] # None /\ concluded[t] = 0
                              /\ streams["requester"][t] # None
                              /\ ~Reported(Tail(q), t)
                         /\ inbound[t] # None =>
                              streams["server"][t] # None /\ ~streams["server"][t].fin_sent
                         /\ nonces'[t] # None =>
                              outbound[t] # None \/ t \in dropped \/ Reported(Tail(q), t)
      BY <1>1, <1>5 DEF StreamsInv
    <3>1. /\ t > opened => outbound[t] = None /\ inbound[t] = None /\ nonces[t] = None
                                            /\ concluded[t] = 0
          /\ outbound[t] # None =>
               /\ nonces[t] # None /\ concluded[t] = 0
               /\ streams["requester"][t] # None
               /\ ~Reported(q, t)
          /\ inbound[t] # None =>
               streams["server"][t] # None /\ ~streams["server"][t].fin_sent
          /\ nonces[t] # None =>
               outbound[t] # None \/ t \in dropped \/ Reported(q, t)
      BY DEF RepairInv, StreamsInv
    <3>2. CASE t = s
      BY <2>4, <2>7, <3>1, <3>2
    <3>3. CASE t # s
      BY <1>4, <2>4, <3>1, <3>3
    <3>. QED
      BY <3>2, <3>3
  <2>11. ToldInv'
    <3>1. CASE told' = told
      BY <3>1 DEF RepairInv, ToldInv
    <3>2. CASE told' # told
      <4>1. /\ nonces[s] # None /\ e.answer \notin {Repair!NotFound, None}
            /\ told' = told \cup {<<nonces[s], e.answer>>}
        BY <2>3, <3>2
      <4>2. e.answer = Repair!Shred(nonces[s])
        BY <2>1, <4>1 DEF Answers, Whose
      <4>. QED
        BY <4>1, <4>2 DEF RepairInv, ToldInv
    <3>. QED
      BY <3>1, <3>2
  <2>. QED
    BY <2>8, <2>9, <2>10, <2>11 DEF RepairInv
<1>. QED
  BY <1>6, <1>7

-----------------------------------------------------------------------------
(* Lost connections.                                                       *)

\* Cardinality is the same for the instance.
LEMMA SameCardinality ==
  ASSUME NEW S
  PROVE  Repair!Cardinality(S) = Cardinality(S)
BY DEF Cardinality, Repair!Cardinality

\* InOrder(S) lists all of S.
LEMMA InOrderLists ==
  ASSUME NEW S \in SUBSET Streams
  PROVE  /\ Cardinality(S) \in Nat
         /\ DOMAIN Repair!InOrder(S) = 1 .. Cardinality(S)
         /\ \A i \in 1 .. Cardinality(S) : Repair!InOrder(S)[i] \in S
         /\ \A s \in S : \E i \in 1 .. Cardinality(S) : Repair!InOrder(S)[i] = s
<1>. DEFINE n == Cardinality(S)
            Upto(s) == {t \in S : t <= s}
            f == [s \in S |-> Cardinality(Upto(s))]
<1>1. S \subseteq Nat /\ IsFiniteSet(S) /\ n \in Nat
  <2>1. IsFiniteSet(Streams) /\ Streams \subseteq Nat
    BY StreamsNat, FS_Interval DEF Streams
  <2>. QED
    BY <2>1, FS_Subset, FS_CardinalityType
<1>2. ASSUME NEW s \in S
      PROVE  IsFiniteSet(Upto(s)) /\ Cardinality(Upto(s)) \in 1 .. n /\ s \in Upto(s)
  <2>1. s \in Upto(s)
    BY <1>1
  <2>2. IsFiniteSet(Upto(s)) /\ Cardinality(Upto(s)) \in Nat /\ Cardinality(Upto(s)) <= n
    <3>1. Upto(s) \in SUBSET S
      OBVIOUS
    <3>. HIDE DEF Upto
    <3>. QED
      BY <1>1, <3>1, FS_Subset, FS_CardinalityType
  <2>3. Cardinality(Upto(s)) # 0
    <3>. HIDE DEF Upto
    <3>. QED
      BY <2>1, <2>2, FS_EmptySet
  <2>. HIDE DEF Upto
  <2>. QED
    BY <1>1, <2>1, <2>2, <2>3
<1>3. ASSUME NEW s \in S, NEW t \in S, s < t
      PROVE  Cardinality(Upto(s)) # Cardinality(Upto(t))
  <2>1. Upto(s) \in SUBSET Upto(t) /\ t \notin Upto(s)
    <3>1. \A x \in S : x <= s => x <= t
      BY <1>1, <1>3
    <3>2. ~(t <= s)
      BY <1>1, <1>3
    <3>. QED
      BY <3>1, <3>2
  <2>2. Upto(s) # Upto(t)
    BY <1>2, <2>1
  <2>. HIDE DEF Upto
  <2>. QED
    BY <1>2, <2>1, <2>2, FS_Subset
<1>4. f \in Injection(S, 1 .. n)
  <2>1. f \in [S -> 1 .. n]
    BY <1>2
  <2>2. \A s, t \in S : f[s] = f[t] => s = t
    <3>1. \A s, t \in S : s # t => s < t \/ t < s
      BY <1>1
    <3>2. \A s \in S : f[s] = Cardinality(Upto(s))
      OBVIOUS
    <3>. HIDE DEF f, Upto
    <3>. QED
      BY <1>3, <3>1, <3>2
  <2>. QED
    <3>. HIDE DEF f
    <3>. QED
      BY <2>1, <2>2 DEF Injection, IsInjective
<1>5. f \in Surjection(S, 1 .. n)
  <2>1. IsFiniteSet(1 .. n) /\ Cardinality(1 .. n) = n
    BY <1>1, FS_Interval
  <2>. HIDE DEF f
  <2>. QED
    BY <1>4, <2>1, FS_Injection
<1>6. \A i \in 1 .. n : \E s \in S : Cardinality(Upto(s)) = i
  BY <1>5 DEF Surjection
<1>. DEFINE g == Repair!InOrder(S)
<1>7. /\ DOMAIN g = 1 .. n
      /\ \A i \in 1 .. n : g[i] \in S /\ Cardinality(Upto(g[i])) = i
  <2>1. \A s \in S : Repair!Rank(S, s) = Cardinality(Upto(s))
    BY SameCardinality DEF Repair!Rank
  <2>. HIDE DEF Upto, f
  <2>2. g = [i \in 1 .. n |-> CHOOSE s \in S : Repair!Rank(S, s) = i]
    BY SameCardinality, Zenon DEF Repair!InOrder
  <2>3. \A i \in 1 .. n : \E s \in S : Repair!Rank(S, s) = i
    BY <1>6, <2>1
  <2>. HIDE DEF g, n
  <2>4. DOMAIN g = 1 .. n
    BY <2>2
  <2>5. \A i \in 1 .. n : g[i] \in S /\ Repair!Rank(S, g[i]) = i
    BY <2>2, <2>3
  <2>. QED
    BY <2>1, <2>4, <2>5
<1>. HIDE DEF g
<1>8. ASSUME NEW s \in S
      PROVE  \E i \in 1 .. n : g[i] = s
  <2>. DEFINE i == Cardinality(Upto(s))
  <2>1. i \in 1 .. n
    BY <1>2
  <2>2. g[i] \in S /\ Cardinality(Upto(g[i])) = i
    BY <1>7, <2>1
  <2>3. g[i] = s
    <3>1. g[i] # s => g[i] < s \/ s < g[i]
      <4>1. g[i] \in Nat /\ s \in Nat
        BY <1>1, <2>2
      <4>. QED
        BY <4>1
    <3>. HIDE DEF g, Upto
    <3>. QED
      BY <1>3, <2>2, <3>1
  <2>. QED
    BY <2>1, <2>3
<1>. QED
  BY <1>1, <1>7, <1>8 DEF g

\* All streams that wait for an answer are reported, or noted as lost from the
\* full queue.
LEMMA FailAllFacts ==
  ASSUME RepairInv, Repair!FailAll
  PROVE  /\ DOMAIN events' = {"requester", "server"}
         /\ events'["server"] = events["server"]
         /\ events'["requester"] \in Seq(RequesterEvents(opened, nonces))
         /\ \A t \in Streams : outbound[t] # None \/ Reported(events["requester"], t) =>
              t \in dropped' \/ Reported(events'["requester"], t)
         /\ outbound' = [s \in Streams |-> None]
         /\ concluded' = [s \in Streams |->
                            concluded[s] + (IF outbound[s] # None THEN 1 ELSE 0)]
         /\ dropped \subseteq dropped'
<1>. DEFINE R == RequesterEvents(opened, nonces)
            F == {s \in Streams : outbound[s] # None}
            n == Cardinality(F)
            failed == Repair!InOrder(F)
            Ended(s) == [kind |-> "concluded", stream |-> s, answer |-> None]
            q == events["requester"]
            r == [i \in DOMAIN failed |-> Ended(failed[i])]
            all == q \o r
            excess == IF Len(all) > MaxEvents THEN Len(all) - MaxEvents ELSE 0
            left == SubSeq(all, excess + 1, Len(all))
<1>1. /\ outbound' = [s \in Streams |-> None]
      /\ events' = [events EXCEPT !["requester"] = left]
      /\ concluded' = [s \in Streams |->
                         concluded[s] + (IF outbound[s] # None THEN 1 ELSE 0)]
      /\ dropped' = dropped \cup
                      {all[i].stream : i \in {j \in 1 .. excess : all[j].kind # "shred"}}
  BY DEF Repair!FailAll, Repair!Streams, Streams
<1>2. /\ n \in Nat /\ DOMAIN failed = 1 .. n
      /\ \A i \in 1 .. n : failed[i] \in F
      /\ \A s \in F : \E i \in 1 .. n : failed[i] = s
  <2>1. F \in SUBSET Streams
    OBVIOUS
  <2>. HIDE DEF F
  <2>. QED
    BY <2>1, InOrderLists
<1>3. \A s \in F : Ended(s) \in R
  <2>1. \A s \in F : s \in 1 .. opened
    BY RequesterHeld
  <2>. QED
    BY <2>1 DEF RequesterEvents
<1>4. q \in Seq(R) /\ DOMAIN events = {"requester", "server"}
  BY DEF RepairInv, QueuesInv, TypesInv
<1>. HIDE DEF R, F, failed, n
<1>5. r \in Seq(R) /\ Len(r) = n /\ \A i \in 1 .. n : r[i] = Ended(failed[i])
  <2>1. r = [i \in 1 .. n |-> Ended(failed[i])] /\ \A i \in 1 .. n : Ended(failed[i]) \in R
    BY <1>2, <1>3
  <2>. QED
    BY <1>2, <2>1
<1>. HIDE DEF r
<1>6. /\ all \in Seq(R) /\ Len(all) = Len(q) + n /\ Len(q) \in Nat
      /\ \A i \in 1 .. Len(q) : all[i] = q[i]
      /\ \A i \in 1 .. n : all[Len(q) + i] = r[i]
  <2>. HIDE DEF q
  <2>1. all \in Seq(R) /\ Len(all) = Len(q) + n /\ Len(q) \in Nat
    <3>1. q \in Seq(R) /\ r \in Seq(R)
      BY <1>4, <1>5
    <3>2. q \o r \in Seq(R)
      BY <3>1
    <3>3. Len(q \o r) = Len(q) + Len(r) /\ Len(q) \in Nat
      BY <3>1
    <3>. QED
      BY <1>5, <3>2, <3>3
  <2>2. ASSUME NEW i \in 1 .. Len(q)
        PROVE  all[i] = q[i]
    BY <1>2, <1>4, <1>5, <2>1
  <2>3. ASSUME NEW i \in 1 .. n
        PROVE  all[Len(q) + i] = r[i]
    <3>1. Len(q) + i \in 1 .. Len(q) + Len(r) /\ Len(q) + i > Len(q) /\ (Len(q) + i) - Len(q) = i
      BY <1>2, <1>5, <2>1
    <3>. QED
      BY <1>4, <1>5, <2>1, <3>1
  <2>. QED
    BY <2>1, <2>2, <2>3
<1>7. excess \in 0 .. Len(all) /\ Len(all) \in Nat
  BY <1>2, <1>6, RepairAssumption
<1>. HIDE DEF all, excess
<1>8. /\ left \in Seq(R) /\ Len(left) = Len(all) - excess
      /\ \A i \in 1 .. Len(all) - excess : left[i] = all[excess + i]
  BY <1>6, <1>7
<1>. HIDE DEF left
<1>9. ASSUME NEW t, Reported(all, t)
      PROVE  t \in dropped' \/ Reported(left, t)
  <2>1. PICK i \in 1 .. Len(all) : all[i].kind = "concluded" /\ all[i].stream = t
    BY <1>9 DEF Reported
  <2>2. CASE i <= excess
    <3>1. i \in {j \in 1 .. excess : all[j].kind # "shred"}
      BY <1>7, <2>1, <2>2
    <3>. QED
      BY <1>1, <2>1, <3>1
  <2>3. CASE ~(i <= excess)
    <3>1. i - excess \in 1 .. Len(left) /\ left[i - excess] = all[i]
      BY <1>7, <1>8, <2>3
    <3>. QED
      BY <2>1, <3>1 DEF Reported
  <2>. QED
    BY <2>2, <2>3
<1>10. ASSUME NEW t, Reported(q, t)
       PROVE  Reported(all, t)
  <2>1. \A i \in 1 .. Len(q) : i \in 1 .. Len(all)
    BY <1>2, <1>6
  <2>. QED
    BY <1>6, <1>10, <2>1 DEF Reported
<1>11. ASSUME NEW t \in F
       PROVE  Reported(all, t)
  <2>1. PICK i \in 1 .. n : failed[i] = t
    BY <1>2
  <2>2. Len(q) + i \in 1 .. Len(all) /\ all[Len(q) + i] = Ended(t)
    <3>1. Len(q) + i \in 1 .. Len(all)
      BY <1>2, <1>6
    <3>2. all[Len(q) + i] = r[i] /\ r[i] = Ended(failed[i])
      BY <1>5, <1>6
    <3>. QED
      BY <2>1, <3>1, <3>2
  <2>. QED
    BY <2>2 DEF Reported
<1>12. /\ DOMAIN events' = {"requester", "server"}
       /\ events'["server"] = events["server"] /\ events'["requester"] = left
  BY <1>1, <1>4
<1>13. \A t \in Streams : outbound[t] # None => t \in F
  BY DEF F
<1>. QED
  BY <1>1, <1>8, <1>9, <1>10, <1>11, <1>12, <1>13 DEF R

\* What becomes of the streams when connections end.
LEMMA FollowKeeps ==
  ASSUME RepairInv, NEW crashed, Repair!Follow(crashed)
  PROVE  RepairInv'
<1>. DEFINE u == Repair!Unlinked("requester")
            v == Repair!Unlinked("server")
<1>1. UNCHANGED <<opened, nonces, told>>
  BY DEF Repair!Follow
<1>2. /\ streams'["requester"] = IF u THEN [s \in Streams |-> None] ELSE streams["requester"]
      /\ streams'["server"] = IF v THEN [s \in Streams |-> None] ELSE streams["server"]
      /\ StreamsTyped(streams')
  <2>1. streams' = [end \in {"requester", "server"} |->
                      IF Repair!Unlinked(end) THEN [s \in Streams |-> None] ELSE streams[end]]
    BY DEF Repair!Follow, Repair!Ends, Repair!Streams, Streams
  <2>. QED
    BY <2>1, ServerHeld DEF StreamsTyped
<1>3. inbound' = IF v THEN [s \in Streams |-> None] ELSE inbound
  BY DEF Repair!Follow, Repair!Streams, Streams
<1>4. OpsTyped(ops')
  <2>1. ops' = ops \/ ops' = [ops EXCEPT !["server"] = <<>>]
    BY DEF Repair!Follow
  <2>2. <<>> \in Seq(ServerOps(opened, nonces))
    OBVIOUS
  <2>. QED
    BY <2>1, <2>2, RestFacts DEF OpsTyped
<1>5. \/ u /\ Repair!FailAll
      \/ /\ ~u /\ UNCHANGED <<outbound, concluded, dropped>>
         /\ events' = events \/ events' = [events EXCEPT !["server"] = <<>>]
  BY DEF Repair!Follow
<1>. HIDE DEF u, v
<1>6. CASE u /\ Repair!FailAll
  <2>1. /\ DOMAIN events' = {"requester", "server"}
        /\ events'["server"] = events["server"]
        /\ events'["requester"] \in Seq(RequesterEvents(opened, nonces))
        /\ \A t \in Streams : outbound[t] # None \/ Reported(events["requester"], t) =>
             t \in dropped' \/ Reported(events'["requester"], t)
        /\ outbound' = [s \in Streams |-> None]
        /\ concluded' = [s \in Streams |->
                           concluded[s] + (IF outbound[s] # None THEN 1 ELSE 0)]
        /\ dropped \subseteq dropped'
    BY <1>6, FailAllFacts
  <2>2. \A s \in Streams : concluded[s] \in {0, 1} /\ (outbound[s] # None => concluded[s] = 0)
    BY DEF RepairInv, TypesInv, StreamsInv
  <2>3. TypesInv'
    BY <1>1, <1>2, <1>3, <1>4, <2>1, <2>2 DEF RepairInv, TypesInv, StreamsTyped, OpsTyped
  <2>4. QueuesInv'
    BY <1>1, <1>3, <1>4, <2>1 DEF RepairInv, QueuesInv, OpsTyped
  <2>5. StreamsInv'
    <3>. SUFFICES ASSUME NEW t \in Streams
                  PROVE  /\ t > opened => outbound'[t] = None /\ inbound'[t] = None /\ nonces[t] = None
                                            /\ concluded'[t] = 0
                         /\ outbound'[t] = None
                         /\ inbound'[t] # None =>
                              streams'["server"][t] # None /\ ~streams'["server"][t].fin_sent
                         /\ nonces[t] # None =>
                              t \in dropped' \/ Reported(events'["requester"], t)
      BY <1>1 DEF StreamsInv
    <3>1. /\ t > opened => outbound[t] = None /\ inbound[t] = None /\ nonces[t] = None
                                            /\ concluded[t] = 0
          /\ inbound[t] # None =>
               streams["server"][t] # None /\ ~streams["server"][t].fin_sent
          /\ nonces[t] # None =>
               outbound[t] # None \/ t \in dropped \/ Reported(events["requester"], t)
      BY DEF RepairInv, StreamsInv
    <3>. QED
      BY <1>2, <1>3, <2>1, <3>1
  <2>6. ToldInv'
    BY <1>1 DEF RepairInv, ToldInv
  <2>. QED
    BY <2>3, <2>4, <2>5, <2>6 DEF RepairInv
<1>7. CASE /\ ~u /\ UNCHANGED <<outbound, concluded, dropped>>
           /\ events' = events \/ events' = [events EXCEPT !["server"] = <<>>]
  <2>1. /\ DOMAIN events' = {"requester", "server"}
        /\ events'["requester"] = events["requester"]
        /\ events'["server"] \in Seq(ServerEvents(opened, nonces))
    <3>1. <<>> \in Seq(ServerEvents(opened, nonces))
      OBVIOUS
    <3>. QED
      BY <1>7, <3>1, ServerHeld
  <2>2. TypesInv'
    BY <1>1, <1>2, <1>3, <1>4, <1>7, <2>1 DEF RepairInv, TypesInv, StreamsTyped, OpsTyped
  <2>3. QueuesInv'
    BY <1>1, <1>3, <1>4, <1>7, <2>1 DEF RepairInv, QueuesInv, OpsTyped
  <2>4. StreamsInv'
    BY <1>1, <1>2, <1>3, <1>7, <2>1 DEF RepairInv, StreamsInv
  <2>5. ToldInv'
    BY <1>1 DEF RepairInv, ToldInv
  <2>. QED
    BY <2>2, <2>3, <2>4, <2>5 DEF RepairInv
<1>. QED
  BY <1>5, <1>6, <1>7

-----------------------------------------------------------------------------
(* All steps.                                                              *)

\* Before anything is asked there are no streams.
LEMMA InitKeeps == NetInit => RepairInv
<1>. SUFFICES ASSUME NetInit PROVE RepairInv
  OBVIOUS
<1>1. /\ streams = [end \in {"requester", "server"} |-> [s \in Streams |-> None]]
      /\ opened = 0 /\ told = {}
      /\ outbound = [s \in Streams |-> None] /\ inbound = [s \in Streams |-> None]
      /\ nonces = [s \in Streams |-> None] /\ concluded = [s \in Streams |-> 0]
      /\ ops = [end \in {"requester", "server"} |-> <<>>]
      /\ events = [end \in {"requester", "server"} |-> <<>>]
  BY DEF NetInit, Repair!InitRepair, Repair!Ends, Repair!Streams, Streams
<1>2. TypesInv
  BY <1>1, StreamsNat DEF TypesInv
<1>3. QueuesInv
  <2>1. \A S : <<>> \in Seq(S)
    OBVIOUS
  <2>. QED
    BY <1>1, <2>1 DEF QueuesInv
<1>4. StreamsInv
  BY <1>1 DEF StreamsInv
<1>5. ToldInv
  BY <1>1 DEF ToldInv
<1>. QED
  BY <1>2, <1>3, <1>4, <1>5 DEF RepairInv

\* A step that leaves streams, queues, nonces and what was told alone.
LEMMA OtherwiseKeeps ==
  ASSUME RepairInv,
         UNCHANGED <<streams, opened, outbound, inbound, ops, events, nonces, told,
                     concluded, dropped>>
  PROVE  RepairInv'
BY DEF RepairInv, TypesInv, QueuesInv, StreamsInv, ToldInv

\* Each step of repair keeps the invariant.
LEMMA RepairStepKeeps ==
  ASSUME RepairInv, RepairStep
  PROVE  RepairInv'
<1>1. CASE Repair!Ask
  <2>1. CASE Repair!PublishView
    BY <2>1, OtherwiseKeeps DEF Repair!PublishView, Repair!coreVars
  <2>2. CASE \E q \in Nonces : Repair!RequestRepair(q)
    BY <2>2, RequestKeeps
  <2>3. CASE \E bytes \in {Repair!Garbage, Repair!Huge} : Repair!RequestGarbage(bytes)
    BY <2>3, GarbageKeeps
  <2>. QED
    BY <1>1, <2>1, <2>2, <2>3 DEF Repair!Ask
<1>2. CASE Repair!Progress
  <2>1. CASE Repair!OtherEvent
    BY <2>1, OtherEventKeeps
  <2>2. CASE Repair!DriveRequester
    BY <2>2, DriveRequesterKeeps
  <2>3. CASE \E outcome \in Repair!Outcomes : Repair!DriveServer(outcome)
    BY <2>3, DriveServerKeeps
  <2>4. CASE Repair!NextSecond
    BY <2>4, OtherwiseKeeps DEF Repair!NextSecond
  <2>5. CASE \E end \in Repair!Ends : Repair!Receive(end)
    BY <2>5, ReceiveKeeps DEF Repair!Ends
  <2>6. CASE \E s \in Repair!Streams : Repair!ExpireOutbound(s) \/ Repair!ExpireInbound(s)
    BY <2>6, ExpireOutboundKeeps, ExpireInboundKeeps DEF Repair!Streams, Streams
  <2>. QED
    BY <1>2, <2>1, <2>2, <2>3, <2>4, <2>5, <2>6 DEF Repair!Progress
<1>. QED
  BY <1>1, <1>2 DEF RepairStep

\* The queues and buffers at both ends hold only what belongs to the nonces of
\* their streams, and a nonce is kept until the end of its stream is reported
\* (request_repair, handle_stream_event, expire_repairs, drop_connection).
THEOREM RepairHolds == NetSpec => []RepairInv
<1>1. RepairInv /\ [MeshStep \/ RepairStep]_netVars => RepairInv'
  <2>. SUFFICES ASSUME RepairInv, [MeshStep \/ RepairStep]_netVars
                PROVE  RepairInv'
    OBVIOUS
  <2>1. CASE MeshStep
    <3>1. CASE UNCHANGED repairVars
      BY <3>1, OtherwiseKeeps DEF repairVars
    <3>2. CASE Repair!Follow(up /\ ~up')
      BY <3>2, FollowKeeps
    <3>. QED
      BY <2>1, <3>1, <3>2 DEF MeshStep
  <2>2. CASE RepairStep
    BY <2>2, RepairStepKeeps
  <2>3. CASE UNCHANGED netVars
    BY <2>3, OtherwiseKeeps DEF netVars, repairVars
  <2>. QED
    BY <2>1, <2>2, <2>3
<1>. QED
  BY InitKeeps, <1>1, PTL DEF NetSpec

\* The core reports the end of each stream at most once, a nonce is kept just
\* as long as the end of its stream is to be reported, what is handed on under
\* a nonce answers its request, and the server holds no request of a dead
\* stream (outbound_repairs, inbound_repairs, outstanding_nonces).
THEOREM RepairsConclude == NetSpec => []RepairConcludes
<1>1. RepairInv => RepairConcludes
  <2>. SUFFICES ASSUME RepairInv PROVE RepairConcludes
    OBVIOUS
  <2>. DEFINE q == events["requester"]
              reported == {e \in {q[i] : i \in DOMAIN q} : e.kind = "concluded"}
  <2>1. q \in Seq(RequesterEvents(opened, nonces))
    BY DEF RepairInv, QueuesInv
  <2>2. ASSUME NEW s, Reported(q, s)
        PROVE  \E e \in reported : e.stream = s
    <3>1. PICK i \in 1 .. Len(q) : q[i].kind = "concluded" /\ q[i].stream = s
      BY <2>2 DEF Reported
    <3>2. i \in DOMAIN q
      BY <2>1, <3>1
    <3>. QED
      BY <3>1, <3>2
  <2>3. ASSUME NEW s \in Streams
        PROVE  /\ concluded[s] <= 1
               /\ outbound[s] # None => nonces[s] # None /\ streams["requester"][s] # None
               /\ nonces[s] # None =>
                    outbound[s] # None \/ s \in dropped \/ \E e \in reported : e.stream = s
               /\ inbound[s] # None => streams["server"][s] # None
    <3>. HIDE DEF reported
    <3>1. concluded[s] \in {0, 1}
      BY DEF RepairInv, TypesInv
    <3>. QED
      BY <2>2, <3>1 DEF RepairInv, StreamsInv
  <2>4. \A t \in told : t[2] = Repair!Shred(t[1])
    BY DEF RepairInv, ToldInv
  <2>. QED
    BY <2>3, <2>4 DEF RepairConcludes, Repair!RepairConcludes, Repair!Alive, Repair!Streams, Streams
<1>. QED
  BY RepairHolds, <1>1, PTL
=============================================================================
