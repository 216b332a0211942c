---------------------------- MODULE OverlayMesh ----------------------------
(***************************************************************************)
(* Gossip and shred dissemination among the nodes of the overlay           *)
(* (overlay/service.rs, overlay/gossip.rs, overlay/turbine.rs) over the    *)
(* authenticated transport of the high-seam simulator                      *)
(* (overlay/sim/highseam.rs): connections are pairs of identity and        *)
(* address, datagrams may be lost and arrive in any order, and a dial to   *)
(* an address yields a connection with whoever owns it.                    *)
(*                                                                         *)
(* A node is named by its identity, which also names the address it is     *)
(* bound to.  One node, Mover, advertises, crashes, restarts, and may be   *)
(* configured to advertise an address that is not its own.  The adverts    *)
(* the other nodes exchange keep them known to one another; to Mover they  *)
(* come as one bundle per connection and advert interval.  Time is counted *)
(* in advert intervals: what an interval sets off (datagrams, confirm      *)
(* deadlines of three seconds) is over before the next begins.             *)
(***************************************************************************)
EXTENDS Naturals, FiniteSets

CONSTANTS
  Nodes,
  Mover,        \* the node that comes and goes
  Static,       \* Mover's static peer
  Links,        \* pairs of nodes that are connected at first
  Claims,       \* addresses Mover may be configured to advertise, or None
  Sources,      \* nodes in mode Source
  Shreds,
  SourceAt,     \* bound: the intervals in which shreds originate
  Fanout,
  Ttl,          \* peer_ttl in advert intervals
  MaxTicks,     \* bound: advert intervals
  MaxFaults,    \* bound: crashes of Mover, datagrams and dials lost, slow handshakes
  None

ASSUME NodesAssumption ==
  /\ {Mover, Static} \subseteq Nodes /\ Mover # Static /\ Sources \subseteq Nodes
  /\ Claims \subseteq Nodes \cup {None} /\ None \notin Nodes /\ SourceAt \subseteq Nat
  /\ IsFiniteSet(Nodes)
\* At first every node but Mover can be reached from Static.
ASSUME LinksAssumption ==
  /\ Links \subseteq {{n, m} : n, m \in Nodes \ {Mover}}
  /\ \A S \in SUBSET (Nodes \ {Mover}) :
       Static \in S /\ (\A l \in Links : l \cap S # {} => l \subseteq S) => S = Nodes \ {Mover}
ASSUME FanoutAssumption == Fanout \in Nat \ {0}
ASSUME BoundsAssumption == {Ttl, MaxTicks, MaxFaults} \subseteq Nat

VARIABLES
  core,     \* [node -> its OverlayCore and transport]
  up,       \* whether Mover runs
  claim,    \* the address Mover is configured to advertise
  boot,     \* how often Mover has restarted
  seq,      \* Mover's advert_seq
  wire,     \* datagrams and dials in flight
  flood,    \* [shred -> None or how its dissemination started and stands]
  ticks,    \* advert intervals so far
  since,    \* advert intervals since Mover last started
  losses,   \* datagrams and dials lost, and handshakes too slow
  missed,   \* history: something was lost since Mover last started
  excused   \* history: addresses that lied, were silent or slow, or lost a dial

moverVars == <<up, claim, boot, seq, since>>
vars == <<core, up, claim, boot, seq, wire, flood, ticks, since, losses, missed,
          excused>>

Others == Nodes \ {Mover}

-----------------------------------------------------------------------------
(* Gossip.                                                                 *)

\* What Mover says of itself: its sequence number starts again when it does.
Advert == [boot |-> boot, seq |-> seq, addr |-> claim]
Entry(advert) == [advert |-> advert, age |-> 0]

\* LightbringerGossip::expired: a live entry orders sequence numbers.
Live(entry) == entry # None /\ entry.age <= Ttl

\* LightbringerGossip::upsert
Upsert(entry, advert) ==
  IF ~Live(entry) \/ advert.seq > entry.advert.seq THEN "Accepted"
  ELSE IF advert.seq = entry.advert.seq THEN "Refreshed"
  ELSE "Stale"

\* An entry one interval later; all that is told of an expired one is that.
Aged(entry) == IF entry = None \/ entry.age > Ttl THEN entry
               ELSE [entry EXCEPT !.age = @ + 1]

-----------------------------------------------------------------------------
(* The state of a node: the connections and unreleased payloads of its     *)
(* transport; its gossip entry of Mover (of the others, for Mover itself); *)
(* the dials it expects an identity from; the addresses it has given up;   *)
(* the shreds it has seen.                                                 *)

OverlayCoreNew ==
  [conn |-> {}, pending |-> [a \in Nodes |-> None], gossip |-> None,
   confirming |-> [a \in Nodes |-> None], quarantined |-> {}, seen |-> {}]

\* direct_addrs of the advert node n holds of peer p, or None.
DirectAddr(n, c, p) ==
  IF n # Mover /\ p # Mover THEN p
  ELSE IF ~Live(c.gossip) THEN None
  ELSE IF n = Mover THEN p
  ELSE c.gossip.advert.addr

UsablePeers(n, c) ==
  LET DirectPeer(p) == /\ DirectAddr(n, c, p) # None
                       /\ DirectAddr(n, c, p) \notin c.quarantined
  IN ((c.conn \ c.quarantined) \cup {p \in Nodes : DirectPeer(p)}) \ {n}

\* Payloads that wait at an address for the identity they are meant for.
Released(c, peer) ==
  IF peer \in c.conn \/ c.pending[peer] = None \/ c.pending[peer].expected # peer
  THEN {}
  ELSE c.pending[peer].shreds

\* Mutant: a dial that succeeds is still waited for.
EstablishForgetful(c, peer) ==
  IF peer \in c.conn THEN c
  ELSE [c EXCEPT !.pending[peer] = None, !.conn = @ \cup {peer}]

\* Mutant: what waits for a connection is kept when it stands.
EstablishKeeps(c, peer) ==
  IF peer \in c.conn THEN c
  ELSE IF c.confirming[peer] \in {None, peer}
  THEN [c EXCEPT !.confirming[peer] = None, !.conn = @ \cup {peer}]
  ELSE [c EXCEPT !.confirming[peer] = None, !.quarantined = @ \cup {peer}]

\* quarantine: nothing lifts it.
Quarantined(c, addr) == [c EXCEPT !.quarantined = @ \cup {addr}]

\* resolve_confirm: a dial that found another identity than it expected
\* loses the connection, and the address is given up.
Resolved(c, peer) ==
  LET done == [c EXCEPT !.confirming[peer] = None]
  IN IF c.confirming[peer] \in {None, peer} THEN done
     ELSE Quarantined([done EXCEPT !.conn = @ \ {peer}], peer)

\* A connection with this peer stands (MemTransport::establish, pump).
Establish(c, peer) ==
  IF peer \in c.conn THEN c
  ELSE Resolved([c EXCEPT !.pending[peer] = None, !.conn = @ \cup {peer}], peer)

-----------------------------------------------------------------------------
(* The dissemination tree.  A shuffle is a rank of every node, the same    *)
(* everywhere; each node applies it to the peers it knows.                 *)

Index(rank, members, n) == Cardinality({m \in members : rank[m] < rank[n]})

\* Mutant: the anchor of a layer is off by one.
RetransmitIndicesShifted(i, len) ==
  LET offset == (IF i = 0 THEN 0 ELSE i - 1) % Fanout
  IN {(i - offset) * Fanout + offset + 2 + (IF i = 0 THEN 1 ELSE Fanout) * k :
        k \in 0 .. Fanout - 1} \cap 0 .. len - 1

RetransmitIndices(i, len) ==
  LET offset == (IF i = 0 THEN 0 ELSE i - 1) % Fanout
      step == IF i = 0 THEN 1 ELSE Fanout
  IN {(i - offset) * Fanout + offset + 1 + step * k : k \in 0 .. Fanout - 1}
       \cap 0 .. len - 1

At(rank, members, indices) == {m \in members : Index(rank, members, m) \in indices}

RetransmitPeers(rank, n, peers) ==
  LET members == peers \cup {n}
  IN At(rank, members,
        RetransmitIndices(Index(rank, members, n), Cardinality(members)))

\* The root of the tree fans out; another origin hands its shred to the root.
OriginPeers(rank, n, peers) ==
  IF Index(rank, peers \cup {n}, n) = 0 THEN RetransmitPeers(rank, n, peers)
  ELSE At(rank, peers \cup {n}, {0})

-----------------------------------------------------------------------------
(* Sending.                                                                *)

ShredTo(n, peer, s) == [kind |-> "shred", from |-> n, to |-> peer, shred |-> s]
Dial(n, addr) == [kind |-> "dial", from |-> n, to |-> addr]

\* The targets without a connection whose usable address this is.
Dialled(n, c, targets, addr) ==
  {p \in targets \ c.conn : DirectAddr(n, c, p) = addr /\ addr \notin c.quarantined}

\* send_to_peer for each target in the order of the tree: what it leaves in
\* the node.  Of several targets at one address the first is expected there.
Sent(n, c, rank, s, targets) ==
  LET First(addr) == CHOOSE p \in Dialled(n, c, targets, addr) :
                       \A q \in Dialled(n, c, targets, addr) : rank[p] <= rank[q]
      Waits(addr) ==
        IF Dialled(n, c, targets, addr) = {} \/ addr \in c.conn THEN c.pending[addr]
        ELSE IF c.pending[addr] = None
        THEN [expected |-> First(addr), shreds |-> {s}]
        ELSE [c.pending[addr] EXCEPT !.shreds = @ \cup {s}]
      Confirms(addr) ==
        IF Dialled(n, c, targets, addr) = {} \/ c.confirming[addr] # None
        THEN c.confirming[addr] ELSE First(addr)
  IN [c EXCEPT !.pending = [a \in Nodes |-> Waits(a)],
               !.confirming = [a \in Nodes |-> Confirms(a)]]

\* ... and what it puts on the wire.
Sending(n, c, s, targets) ==
  {ShredTo(n, p, s) : p \in (targets \cap c.conn) \ c.quarantined} \cup
  {Dial(n, a) : a \in {b \in Nodes \ c.conn : Dialled(n, c, targets, b) # {}}}

-----------------------------------------------------------------------------
(* Dissemination of one shred, and whether anything disturbed it: a loss,  *)
(* a crash, or a node that knows other peers than the origin knew, or one  *)
(* by an address that is not its own or where it waits for somebody else.  *)

Reached(n, c) ==
  LET Awaited(p) == c.pending[p] = None \/ c.pending[p].expected = p
  IN {n} \cup {p \in UsablePeers(n, c) :
                 p \in c.conn \ c.quarantined \/ (DirectAddr(n, c, p) = p /\ Awaited(p))}

Agrees(n, c, members) == UsablePeers(n, c) \cup {n} = members /\ Reached(n, c) = members

Disturbed(f) ==
  [s \in Shreds |-> IF f[s] = None THEN None ELSE [f[s] EXCEPT !.clean = FALSE]]

Ranks == {r \in [Nodes -> 0 .. Cardinality(Nodes) - 1] :
            \A m, n \in Nodes : r[m] = r[n] => m = n}

\* on_source_packet: the origin has seen its own shred before it sends it.
SourcePacket(n, s, rank) ==
  LET c == [core[n] EXCEPT !.seen = @ \cup {s}]
      members == UsablePeers(n, c) \cup {n}
      targets == OriginPeers(rank, n, members \ {n})
  IN /\ n \in Sources /\ (n = Mover => up) /\ wire = {}
     /\ ticks \in SourceAt
     /\ flood[s] = None /\ \A m \in Nodes : s \notin core[m].seen
     /\ core' = [core EXCEPT ![n] = Sent(n, c, rank, s, targets)]
     /\ wire' = Sending(n, c, s, targets)
     /\ flood' = [flood EXCEPT ![s] =
                    [origin |-> n, rank |-> rank, members |-> members,
                     clean |-> Agrees(n, c, members) /\ (Mover \in members => up)]]
     /\ UNCHANGED <<moverVars, ticks, losses, missed, excused>>

-----------------------------------------------------------------------------
(* The network: connections, datagrams and dials.                          *)

\* HighSeamNet::connect: both ends have a connection, unless one of them finds
\* another identity than it dialled; what waited for it goes out.
Connected(n, m) ==
  [core EXCEPT ![n] = Establish(@, m), ![m] = Establish(@, n)]
Deferred(n, m) ==
  {ShredTo(n, m, s) : s \in Released(core[n], m)} \cup
  {ShredTo(m, n, s) : s \in Released(core[m], n)}

Runs(n) == n = Mover => up

\* What a datagram finds on arrival: a sender without a connection is connected.
Met(d) == IF d.from \in core[d.to].conn THEN core ELSE Connected(d.from, d.to)
Arrival(d) ==
  (wire \ {d}) \cup
  (IF d.from \in core[d.to].conn THEN {} ELSE Deferred(d.from, d.to))

Arrives(d) ==
  /\ Runs(d.to)
  /\ d.from \in core[d.to].conn \/ Runs(d.from)
  /\ UNCHANGED <<moverVars, ticks, losses, missed, excused>>

\* handle_frame of a shred: one not seen before is passed on, without its
\* sender in the tree.
HandleShred(d) ==
  LET c == Met(d)[d.to]
      s == d.shred
      rank == flood[s].rank
      after == [c EXCEPT !.seen = @ \cup {s}]
      targets == RetransmitPeers(rank, d.to, UsablePeers(d.to, c) \ ({d.from} \cap c.conn))
  IN /\ d.kind = "shred" /\ Arrives(d)
     /\ IF s \in c.seen
        THEN core' = Met(d) /\ wire' = Arrival(d) /\ UNCHANGED flood
        ELSE /\ core' = [Met(d) EXCEPT ![d.to] = Sent(d.to, after, rank, s, targets)]
             /\ wire' = Arrival(d) \cup Sending(d.to, after, s, targets)
             /\ flood' = [flood EXCEPT ![s].clean =
                            @ /\ Agrees(d.to, c, flood[s].members)]

\* Mutant: an advert out of order counts as a sign of life of the one held.
HandleAdvertTouches(d) ==
  LET c == Met(d)[d.to]
      outcome == Upsert(c.gossip, d.advert)
  IN /\ d.kind = "advert" /\ Arrives(d)
     /\ core' = IF outcome = "Stale" THEN [Met(d) EXCEPT ![d.to].gossip.age = 0]
                ELSE [Met(d) EXCEPT ![d.to].gossip = Entry(d.advert)]
     /\ wire' = Arrival(d) \cup
                IF outcome # "Accepted" THEN {}
                ELSE {[d EXCEPT !.from = d.to, !.to = p] :
                        p \in c.conn \ {Mover, d.from}}
     /\ UNCHANGED flood

\* handle_frame of an advert of Mover: what is accepted is passed on to every
\* connection but Mover's and the one it came from.
HandleAdvert(d) ==
  LET c == Met(d)[d.to]
      outcome == Upsert(c.gossip, d.advert)
  IN /\ d.kind = "advert" /\ Arrives(d)
     /\ core' = IF outcome = "Stale" THEN Met(d)
                ELSE [Met(d) EXCEPT ![d.to].gossip = Entry(d.advert)]
     /\ wire' = Arrival(d) \cup
                IF outcome # "Accepted" THEN {}
                ELSE {[d EXCEPT !.from = d.to, !.to = p] :
                        p \in c.conn \ {Mover, d.from}}
     /\ UNCHANGED flood

\* The adverts of the other nodes, told Mover by one of its connections.
HandleRoster(d) ==
  /\ d.kind = "roster" /\ Arrives(d)
  /\ core' = [Met(d) EXCEPT ![Mover].gossip = Entry(None)]
  /\ wire' = Arrival(d)
  /\ UNCHANGED flood

\* A dial is answered by whoever owns the address.
AnswerDial(d) ==
  /\ d.kind = "dial" /\ d.from # d.to /\ Runs(d.from) /\ Runs(d.to)
  /\ core' = IF d.to \in core[d.from].conn THEN core ELSE Connected(d.from, d.to)
  /\ wire' = (wire \ {d}) \cup
             IF d.to \in core[d.from].conn THEN {} ELSE Deferred(d.from, d.to)
  /\ UNCHANGED <<moverVars, flood, ticks, losses, missed, excused>>

\* Nobody runs at the other end, or a node has dialled its own address.
Vanish(d) ==
  /\ \/ ~Runs(d.to)
     \/ ~Runs(d.from) /\ d.from \notin core[d.to].conn
     \/ d.from = d.to
  /\ wire' = wire \ {d}
  /\ UNCHANGED <<core, moverVars, flood, ticks, losses, missed, excused>>

Faults == losses + boot + (IF up THEN 0 ELSE 1)

Lose(d) ==
  /\ Faults < MaxFaults
  /\ wire' = wire \ {d}
  /\ losses' = losses + 1 /\ missed' = TRUE
  /\ excused' = IF d.kind = "dial" THEN excused \cup {d.to} ELSE excused
  /\ flood' = Disturbed(flood)
  /\ UNCHANGED <<core, moverVars, ticks>>

\* MemTransport::disconnect: a connection the other end no longer has times out.
Disconnect(n, m) ==
  /\ Runs(n) /\ m \in core[n].conn /\ n \notin core[m].conn
  /\ core' = [core EXCEPT ![n].conn = @ \ {m}]
  /\ flood' = Disturbed(flood)
  /\ UNCHANGED <<moverVars, wire, ticks, losses, missed, excused>>

-----------------------------------------------------------------------------
(* Timers.                                                                 *)

\* expire_confirms, CONFIRM_TIMEOUT after the dial, answered or not.  That a
\* handshake takes longer than this is a fault.
ExpireConfirm(n, addr) ==
  LET slow == Dial(n, addr) \in wire
  IN /\ Runs(n) /\ core[n].confirming[addr] # None
     /\ slow => Faults < MaxFaults
     /\ core' = [core EXCEPT ![n] = Quarantined([@ EXCEPT !.confirming[addr] = None], addr)]
     /\ losses' = IF slow THEN losses + 1 ELSE losses
     /\ excused' = IF slow THEN excused \cup {addr} ELSE excused
     /\ flood' = Disturbed(flood)
     /\ UNCHANGED <<moverVars, wire, ticks, missed>>

Quiet == wire = {} /\ \A n \in Nodes, a \in Nodes : core[n].confirming[a] = None

\* advertise: Mover's connections and, until it knows who is there, its static
\* peer; the others tell Mover what they know.
Advertise(advert) ==
  {[kind |-> "advert", from |-> Mover, to |-> p, advert |-> advert] :
     p \in core[Mover].conn \cup {Static}} \cup
  {[kind |-> "roster", from |-> p, to |-> Mover] :
     p \in {q \in Others : Mover \in core[q].conn}}

\* A shred that waits nowhere any more will not be sent again.
Settled(s) ==
  \A n, a \in Nodes : core[n].pending[a] # None => s \notin core[n].pending[a].shreds

\* An advert interval passes.
Tick ==
  /\ Quiet /\ ticks < MaxTicks
  /\ ticks' = ticks + 1
  /\ core' = [n \in Nodes |-> [core[n] EXCEPT !.gossip = Aged(@)]]
  /\ IF up
     THEN /\ seq' = seq + 1 /\ since' = since + 1
          /\ wire' = Advertise([Advert EXCEPT !.seq = seq + 1])
     ELSE UNCHANGED <<seq, since, wire>>
  /\ flood' = [s \in Shreds |-> IF Settled(s) THEN None ELSE Disturbed(flood)[s]]
  /\ UNCHANGED <<up, claim, boot, losses, missed, excused>>

Crash ==
  /\ up /\ Faults < MaxFaults
  /\ up' = FALSE
  /\ core' = [core EXCEPT ![Mover] = OverlayCoreNew]
  /\ flood' = Disturbed(flood)
  /\ excused' = excused \cup {Mover}
  /\ UNCHANGED <<claim, boot, seq, since, wire, ticks, losses, missed>>

\* OverlayCore::new: nothing is remembered, and the sequence starts again.
Restart(addr) ==
  /\ ~up
  /\ up' = TRUE /\ boot' = boot + 1 /\ seq' = 0 /\ since' = 0 /\ missed' = FALSE
  /\ claim' = addr
  /\ excused' = excused \cup ({addr} \ {None, Mover})
  /\ UNCHANGED <<core, wire, flood, ticks, losses>>

-----------------------------------------------------------------------------
Init ==
  /\ core = [n \in Nodes |->
               [OverlayCoreNew EXCEPT !.conn = {m \in Nodes \ {n} : {n, m} \in Links}]]
  /\ up = TRUE /\ claim \in Claims
  /\ boot = 0 /\ seq = 0 /\ ticks = 0 /\ since = 0 /\ losses = 0
  /\ missed = FALSE
  /\ wire = {}
  /\ flood = [s \in Shreds |-> None]
  /\ excused = {claim} \ {None, Mover}

Next ==
  \/ \E n \in Nodes, s \in Shreds, rank \in Ranks : SourcePacket(n, s, rank)
  \/ \E d \in wire : HandleShred(d) \/ HandleAdvert(d) \/ HandleRoster(d)
                     \/ AnswerDial(d) \/ Vanish(d) \/ Lose(d)
  \/ \E n, m \in Nodes : Disconnect(n, m)
  \/ \E n, addr \in Nodes : ExpireConfirm(n, addr)
  \/ Tick
  \/ Crash
  \/ \E addr \in Claims : Restart(addr)

Spec == Init /\ [][Next]_vars

-----------------------------------------------------------------------------
(* Properties.                                                             *)

Adverts == [boot : 0 .. MaxFaults, seq : 0 .. MaxTicks, addr : Nodes \cup {None}]
Cores ==
  [conn : SUBSET Nodes,
   pending : [Nodes -> [expected : Nodes, shreds : SUBSET Shreds] \cup {None}],
   gossip : [advert : Adverts \cup {None}, age : 0 .. Ttl + 1] \cup {None},
   confirming : [Nodes -> Nodes \cup {None}],
   quarantined : SUBSET Nodes, seen : SUBSET Shreds]

Floods == [origin : Nodes, rank : Ranks, members : SUBSET Nodes, clean : BOOLEAN]

\* None is not what it stands in for.
ASSUME NoneAssumption ==
  None \notin [expected : Nodes, shreds : SUBSET Shreds] \cup Floods
              \cup [advert : Adverts \cup {None}, age : 0 .. Ttl + 1]

\* The types of the variables; and outside a handshake nobody is connected to
\* itself, nor to an address that it also waits for: every dial that succeeds
\* settles what was expected of it (MemTransport::establish, resolve_confirm).
TypeOK ==
  /\ up \in BOOLEAN /\ claim \in Claims /\ boot \in 0 .. MaxFaults
  /\ seq \in 0 .. MaxTicks /\ ticks \in 0 .. MaxTicks /\ since \in 0 .. MaxTicks
  /\ losses \in 0 .. MaxFaults /\ missed \in BOOLEAN /\ excused \subseteq Nodes
  /\ \A n \in Nodes :
       /\ core[n] \in Cores
       /\ n \notin core[n].conn
       /\ \A a \in core[n].conn : core[n].pending[a] = None
  /\ \A d \in wire : d.from \in Nodes /\ d.to \in Nodes
  /\ \A s \in Shreds : flood[s] # None => flood[s].rank \in Ranks

\* A restarted node counts its adverts from one again (OverlayCore::new), and
\* its neighbours throw them away as stale while they hold an advert of its
\* former life (LightbringerGossip::upsert).  That ends with the time to live:
\* from then on nobody believes the old advert, and everybody holds the new one
\* once the adverts of the interval have arrived, unless something was lost.
RestartHeals ==
  \A n \in Others :
    /\ since > Ttl => ~(Live(core[n].gossip) /\ core[n].gossip.advert.boot < boot)
    /\ (since > Ttl /\ ~missed /\ wire = {} /\ up) =>
         Live(core[n].gossip) /\ core[n].gossip.advert.boot = boot

\* Whom the node at index i passes a shred on to, as indices among all members:
\* it leaves out the one it heard from, who comes before it in the tree.
Relay(i, len) ==
  IF i = 0 THEN {} ELSE {j + 1 : j \in RetransmitIndices(i - 1, len - 1)}

\* The nodes that only the origin would pass its shred on to, or only nodes below
\* these.  The origin is not the root but sends its shred there, and drops it
\* when the tree brings it back (seen_shreds); the root stands in for the next
\* after it.
Below(f) ==
  LET len == Cardinality(f.members)
      at == Index(f.rank, f.members, f.origin)
      Closed(S) == Relay(at, len) \subseteq S /\ \A i \in S : Relay(i, len) \subseteq S
  IN IF at <= 1 THEN {}
     ELSE At(f.rank, f.members,
             {j \in 0 .. len - 1 : \A S \in SUBSET (0 .. len - 1) : Closed(S) => j \in S})

\* The flood of a shred reaches every node its origin knew, although each node
\* builds the tree without the one it heard from (handle_frame, origin_peers,
\* retransmit_peers); unless nodes disagreed or something was lost.  The nodes
\* below an origin that is not the root are excepted: see Below.
FloodCovers ==
  \A s \in Shreds :
    (flood[s] # None /\ flood[s].clean /\ wire = {}) =>
      \A n \in flood[s].members \ Below(flood[s]) : s \in core[n].seen

\* An address is given up (quarantined, for good) only if it was advertised by
\* another node, or did not answer in time: its node was down, the dial was lost,
\* or the handshake was still under way after CONFIRM_TIMEOUT.  No order of
\* crossing dials and datagrams condemns an honest node whose handshakes end in
\* time (send_to_peer, resolve_confirm, expire_confirms).
OnlyCulpritsQuarantined == \A n \in Nodes : core[n].quarantined \subseteq excused

=============================================================================
