-------------------------- MODULE OverlayTransport --------------------------
(***************************************************************************)
(* The QUIC transport of the overlay (overlay/transport.rs).               *)
(*                                                                         *)
(* The transport keeps one connection per remote address, an index from    *)
(* verified identities to addresses, and the state of every bidirectional  *)
(* stream.  (Dial-back probes live beside the table.)  The core            *)
(* calls the operations; QUIC itself (handshakes, losses, what a remote    *)
(* peer does) is external and decides when a connection makes progress.    *)
(* A connection that an accepted one has replaced at its address makes     *)
(* none: its packets reach the newcomer, which cannot decrypt them.        *)
(* What is reported to the core is drained after every call and left out.  *)
(***************************************************************************)
EXTENDS Naturals, Sequences, FiniteSets, Functions

CONSTANTS
  Addrs,            \* remote addresses
  Ids,              \* identities of remote nodes
  Helpers,          \* helper sockets the core may bind
  MaxConnections,   \* MAX_CONNECTIONS
  MaxPending,       \* MAX_PENDING_DATAGRAMS
  MaxStreamStates,  \* MAX_STREAM_STATES
  MaxHandles,       \* bound: connections made in a behaviour
  MaxStreams,       \* bound: streams made in a behaviour
  None              \* Option::None

ASSUME LimitsAssumption ==
  {MaxConnections, MaxPending, MaxStreamStates}
    \subseteq Nat \ {0}
ASSUME BoundsAssumption == {MaxHandles, MaxStreams} \subseteq Nat
ASSUME NoneAssumption ==
  None \notin Addrs \cup Ids \cup Helpers \cup Nat \cup BOOLEAN

VARIABLES
  connections,    \* [address -> connection], for some addresses
  by_pubkey,      \* [identity -> address], for some identities
  next_handle,    \* how many connections were made
  stream_states,  \* [stream -> state], for the streams that are alive
  next_stream,
  probe_sockets,  \* sockets beside the primary ones that are listened to
  strayed,        \* history: datagrams handed to another identity than meant
  replaced        \* history: addresses where a connection was overwritten

connVars == <<connections, by_pubkey, next_handle, strayed, replaced>>
streamVars == <<stream_states, next_stream>>
vars == <<connVars, streamVars, probe_sockets>>

Has(f, x) == x \in DOMAIN f
Put(f, x, v) == [y \in DOMAIN f \cup {x} |-> IF y = x THEN v ELSE f[y]]
Without(f, S) == Restrict(f, DOMAIN f \ S)

\* push_bounded: a full queue loses its oldest entry.
PushBounded(q, v, cap) == Append(IF Len(q) >= cap THEN Tail(q) ELSE q, v)

-----------------------------------------------------------------------------
(* Connections.                                                            *)

Connection(socket) ==
  [established |-> FALSE, peer_pubkey |-> None,
   socket |-> socket, pending |-> <<>>, expect_pubkey |-> None,
   streams |-> <<>>, opened |-> [dir \in {"out", "in"} |-> 0]]

\* ensure_connection_from: the table with a connection to this address, dialled
\* unless there is one, or None if the table is full.
Ensured(to, socket) ==
  IF Has(connections, to) THEN connections
  ELSE IF Cardinality(DOMAIN connections) >= MaxConnections THEN None
  ELSE Put(connections, to, Connection(socket))

Dialled(to) ==
  /\ next_handle' = IF Has(connections, to) THEN next_handle ELSE next_handle + 1
  /\ next_handle' <= MaxHandles

\* Mutant: the gate is not looked at.
GateOpenAlways(c) == TRUE

\* flush_pending: whether what is pending goes out or is thrown away.
GateOpen(c) == c.expect_pubkey \in {None, c.peer_pubkey}

\* What flush_pending hands to another identity than the one it is meant for.
\* QUIC makes room by itself: nothing stays pending on an established connection.
Astray(c) ==
  IF c.established /\ GateOpen(c)
  THEN {p \in Range(c.pending) : p.for \notin {None, c.peer_pubkey}}
  ELSE {}

\* Mutant: what was flushed stays pending.
DrainedNot(c) == c

Drained(c) == IF c.established THEN [c EXCEPT !.pending = <<>>] ELSE c

Undisturbed(a) == a \notin replaced

\* A datagram, the identity it is meant for, and whether neither of the two gaps
\* was open when it was queued: the connection is gated on another identity, or
\* it is at an address where a connection was overwritten.
Payload(for, sound) == [for |-> for, sound |-> sound]

\* The connection at an address is c, with everything flushed that can be.
Settle(table, a, c) ==
  /\ connections' = Put(table, a, Drained(c))
  /\ strayed' = strayed \cup Astray(c)

Queued(c, p) == [c EXCEPT !.pending = PushBounded(@, p, MaxPending)]

\* queue_datagram: to an address, whoever is there.
QueueDatagram(to) ==
  LET table == Ensured(to, None) IN
  /\ table # None
  /\ Dialled(to)
  /\ Settle(table, to, Queued(table[to], Payload(None, TRUE)))
  /\ UNCHANGED <<by_pubkey, replaced, streamVars, probe_sockets>>

\* The first expectation wins.
Expecting(c, k) ==
  [c EXCEPT !.expect_pubkey = IF @ = None THEN k ELSE @]

\* queue_datagram_expecting.
QueueDatagramExpecting(to, k) ==
  LET table == Ensured(to, None) IN
  /\ table # None
  /\ Dialled(to)
  /\ LET c == Expecting(table[to], k)
     IN Settle(table, to, Queued(c, Payload(k, c.expect_pubkey = k)))
  /\ UNCHANGED <<by_pubkey, replaced, streamVars, probe_sockets>>

\* dial_expecting and dial_expecting_from.
DialExpecting(to, k, socket) ==
  LET table == Ensured(to, socket) IN
  /\ table # None
  /\ Dialled(to)
  /\ Settle(table, to, Expecting(table[to], k))
  /\ UNCHANGED <<by_pubkey, replaced, streamVars, probe_sockets>>

\* queue_datagram_to_peer, when it returns true.  It looks neither at the identity
\* of the connection nor at whether it is established.
QueueDatagramToPeer(k) ==
  /\ Has(by_pubkey, k)
  /\ Has(connections, by_pubkey[k])
  /\ LET c == connections[by_pubkey[k]]
     IN Settle(connections, by_pubkey[k], Queued(c, Payload(k, Undisturbed(by_pubkey[k]))))
  /\ UNCHANGED <<by_pubkey, next_handle, replaced, streamVars, probe_sockets>>

\* An incoming connection is accepted and takes its place in the table, whatever
\* was there.  One that comes in on a helper socket stays on it.
Accept(a, socket) ==
  /\ Cardinality(DOMAIN connections) < MaxConnections
  /\ socket # None => socket \in probe_sockets
  /\ next_handle < MaxHandles
  /\ next_handle' = next_handle + 1
  /\ connections' = Put(connections, a, Connection(socket))
  /\ replaced' = IF Has(connections, a) THEN replaced \cup {a} ELSE replaced
  /\ UNCHANGED <<by_pubkey, strayed, streamVars, probe_sockets>>

\* on_datagram: packets on a socket nobody listens to are dropped.
Hears(a) ==
  /\ Has(connections, a)
  /\ connections[a].socket \in probe_sockets \cup {None}

\* Event::HandshakeDataReady.
HandshakeDataReady(a, k) ==
  /\ Hears(a)
  /\ ~connections[a].established
  /\ connections[a].peer_pubkey = None
  /\ connections' = [connections EXCEPT ![a].peer_pubkey = k]
  /\ UNCHANGED <<by_pubkey, next_handle, strayed, replaced, streamVars, probe_sockets>>

\* The first live connection of an identity stays in the index.
Indexed(a, k) == IF Has(by_pubkey, k) THEN by_pubkey ELSE Put(by_pubkey, k, a)

\* Event::Connected.
Connected(a, k) ==
  /\ Hears(a)
  /\ ~connections[a].established
  /\ connections[a].peer_pubkey \in {None, k}
  /\ by_pubkey' = Indexed(a, k)
  /\ Settle(connections, a,
            [connections[a] EXCEPT !.established = TRUE, !.peer_pubkey = k])
  /\ UNCHANGED <<next_handle, replaced, streamVars, probe_sockets>>

\* Mutant: the index keeps naming a connection that was removed.
UnindexedNot(a) == by_pubkey

\* The index without a connection that is removed.
Unindexed(a) ==
  Without(by_pubkey, {k \in DOMAIN by_pubkey :
                        by_pubkey[k] = a /\ connections[a].peer_pubkey = k})

\* Mutant: only the streams the peer opened die.
CasualtiesIn(a) ==
  {connections[a].streams[q] : q \in {x \in DOMAIN connections[a].streams : x.dir = "in"}}

\* The streams of a connection die with it.
Casualties(a) == Range(connections[a].streams) \cap DOMAIN stream_states

Removed(a) ==
  /\ Has(connections, a)
  /\ connections' = Without(connections, {a})
  /\ by_pubkey' = Unindexed(a)
  /\ stream_states' = Without(stream_states, Casualties(a))
  /\ UNCHANGED <<next_handle, strayed, replaced, next_stream, probe_sockets>>

\* Event::ConnectionLost: closed by the peer, timed out, or never made.
ConnectionLost(a) == Removed(a)

\* drop_connection: the core gives an established connection up.
DropConnection(a) == Has(connections, a) /\ connections[a].established /\ Removed(a)

-----------------------------------------------------------------------------
(* Streams.  QUIC numbers the streams of a connection per direction, so    *)
(* that two connections at one address use the same ids in turn.           *)

\* A stream is made on the connection at address a.
NewStream(a, dir) ==
  LET c == connections[a]
      q == [dir |-> dir, n |-> c.opened[dir]]
  IN /\ Cardinality(DOMAIN stream_states) < MaxStreamStates
     /\ next_stream < MaxStreams
     /\ next_stream' = next_stream + 1
     /\ connections' = [connections EXCEPT ![a].streams = Put(@, q, next_stream),
                                           ![a].opened[dir] = @ + 1]
     /\ stream_states' =
          Put(stream_states, next_stream,
              [peer_addr |-> a, quic_id |-> q,
               fin_pending |-> FALSE, fin_done |-> FALSE, recv_done |-> FALSE])
     /\ UNCHANGED <<by_pubkey, next_handle, strayed, replaced, probe_sockets>>

\* open_stream, when it returns a stream.
OpenStream(k) ==
  /\ Has(by_pubkey, k)
  /\ Has(connections, by_pubkey[k])
  /\ connections[by_pubkey[k]].established
  /\ NewStream(by_pubkey[k], "out")

\* accept_streams; beyond the limit streams are refused.
AcceptStream(a) ==
  /\ Hears(a)
  /\ connections[a].established
  /\ connections[a].peer_pubkey # None
  /\ NewStream(a, "in")

\* The connections, when the one at an address forgets a stream.
Unlisted(a, q) ==
  IF Has(connections, a)
  THEN [connections EXCEPT ![a].streams = Without(@, {q})]
  ELSE connections

Ended(st) == st.recv_done /\ st.fin_done

\* A stream has the state st, and is reaped when both directions are done.
Update(s, st) ==
  /\ stream_states' =
       IF Ended(st) THEN Without(stream_states, {s}) ELSE Put(stream_states, s, st)
  /\ connections' =
       IF Ended(st) THEN Unlisted(st.peer_addr, st.quic_id) ELSE connections

unchangedByStreams ==
  <<by_pubkey, next_handle, strayed, replaced, next_stream, probe_sockets>>

\* read_stream comes to the end of what the peer sends.
ReadToEnd(a, q) ==
  /\ Hears(a)
  /\ q \in DOMAIN connections[a].streams
  /\ LET s == connections[a].streams[q]
     IN /\ ~stream_states[s].recv_done
        /\ Update(s, [stream_states[s] EXCEPT !.recv_done = TRUE])
  /\ UNCHANGED unchangedByStreams

\* fail_stream: the peer refuses what we send.
Stopped(a, q) ==
  /\ Hears(a)
  /\ q \in DOMAIN connections[a].streams
  /\ LET s == connections[a].streams[q]
     IN stream_states' = Without(stream_states, {s})
  /\ connections' = Unlisted(a, q)
  /\ UNCHANGED unchangedByStreams

\* flush_stream: what was written goes out and then the end of the stream, unless
\* flow control or QUIC holds some of it back.  Without a connection nothing
\* happens.  The bytes themselves, and so write_stream, leave no trace here.
FlushStream(s, st, goes) ==
  Update(s, [st EXCEPT !.fin_done =
               @ \/ (st.fin_pending /\ goes /\ Has(connections, st.peer_addr))])

\* StreamEvent::Writable.
Writable(a, q) ==
  /\ Hears(a)
  /\ q \in DOMAIN connections[a].streams
  /\ LET s == connections[a].streams[q]
     IN /\ stream_states[s].fin_pending
        /\ FlushStream(s, stream_states[s], TRUE)
  /\ UNCHANGED unchangedByStreams

\* finish_stream.
FinishStream(s, goes) ==
  /\ Has(stream_states, s)
  /\ FlushStream(s, [stream_states[s] EXCEPT !.fin_pending = TRUE], goes)
  /\ UNCHANGED unchangedByStreams

\* reset_stream.
ResetStream(s) ==
  /\ Has(stream_states, s)
  /\ stream_states' = Without(stream_states, {s})
  /\ connections' = Unlisted(stream_states[s].peer_addr, stream_states[s].quic_id)
  /\ UNCHANGED unchangedByStreams

-----------------------------------------------------------------------------
(* Helper sockets.                                                         *)

\* register_punch_socket, for a socket the core has just bound, and
\* unregister_punch_socket.
RegisterPunchSocket(h) ==
  /\ h \notin probe_sockets
  /\ \A a \in DOMAIN connections : connections[a].socket # h
  /\ probe_sockets' = probe_sockets \cup {h}
  /\ UNCHANGED <<connVars, streamVars>>

UnregisterPunchSocket(h) ==
  /\ h \in probe_sockets
  /\ probe_sockets' = probe_sockets \ {h}
  /\ UNCHANGED <<connVars, streamVars>>

-----------------------------------------------------------------------------
Init ==
  /\ connections = <<>>
  /\ by_pubkey = <<>>
  /\ next_handle = 0
  /\ stream_states = <<>>
  /\ next_stream = 0
  /\ probe_sockets = {}
  /\ strayed = {}
  /\ replaced = {}

Core ==
  \/ \E a \in Addrs : QueueDatagram(a) \/ DropConnection(a)
  \/ \E a \in Addrs, k \in Ids : QueueDatagramExpecting(a, k)
  \/ \E a \in Addrs, k \in Ids, h \in probe_sockets \cup {None} : DialExpecting(a, k, h)
  \/ \E k \in Ids : QueueDatagramToPeer(k) \/ OpenStream(k)
  \/ \E s \in DOMAIN stream_states :
       ResetStream(s) \/ \E goes \in BOOLEAN : FinishStream(s, goes)
  \/ \E h \in Helpers : RegisterPunchSocket(h) \/ UnregisterPunchSocket(h)

Quic ==
  \/ \E a \in Addrs, h \in Helpers \cup {None} : Accept(a, h)
  \/ \E a \in Addrs, k \in Ids : HandshakeDataReady(a, k) \/ Connected(a, k)
  \/ \E a \in Addrs : ConnectionLost(a) \/ AcceptStream(a)
  \/ \E a \in DOMAIN connections : \E q \in DOMAIN connections[a].streams :
       \/ ReadToEnd(a, q)
       \/ Stopped(a, q)
       \/ Writable(a, q)

Next == Core \/ Quic

Spec == Init /\ [][Next]_vars

-----------------------------------------------------------------------------
(* Properties.                                                             *)

Partial(S, T) == UNION {[D -> T] : D \in SUBSET S}
QuicIds == [dir : {"out", "in"}, n : 0 .. MaxStreams]
Payloads == [for : Ids \cup {None}, sound : BOOLEAN]

ConnectionType(c) ==
  /\ c.established \in BOOLEAN
  /\ c.peer_pubkey \in Ids \cup {None}
  /\ c.socket \in Helpers \cup {None}
  /\ c.expect_pubkey \in Ids \cup {None}
  /\ \A i \in DOMAIN c.pending : c.pending[i] \in Payloads
  /\ Len(c.pending) <= MaxPending
  /\ DOMAIN c.streams \subseteq QuicIds
  /\ c.established => c.peer_pubkey # None /\ c.pending = <<>>

\* Every variable has its type; an established connection has an identity and
\* nothing pending; the table and the stream states respect their limits.
TypeOK ==
  /\ DOMAIN connections \subseteq Addrs
  /\ Cardinality(DOMAIN connections) <= MaxConnections
  /\ \A a \in DOMAIN connections : ConnectionType(connections[a])
  /\ by_pubkey \in Partial(Ids, Addrs)
  /\ DOMAIN stream_states \subseteq 0 .. (next_stream - 1)
  /\ Cardinality(DOMAIN stream_states) <= MaxStreamStates
  /\ strayed \subseteq Payloads
  /\ probe_sockets \subseteq Helpers

\* "release it only once the connection authenticates as `expected`", "Queue a
\* datagram on the established connection with `pubkey`": a datagram meant for an
\* identity is handed to no other one, whatever is dialled, accepted or lost
\* meanwhile, with two exceptions.  One that queue_datagram_expecting adds to a
\* connection first dialled for another identity goes to that one ("First
\* expectation wins"), and one that queue_datagram_to_peer queues at an address
\* where an accepted connection has overwritten another goes to whoever the
\* newcomer turns out to be.
DeliveredToIntended ==
  \A d \in strayed : ~d.sound

\* "Every stream on the connection dies with it": the streams a connection lists
\* are alive and point back to it; and where no connection was ever
\* replaced, a live stream belongs to the connection at its address and is listed
\* there, so that it hears of its end.
StreamsFollowConnections ==
  /\ \A a \in DOMAIN connections : \A q \in DOMAIN connections[a].streams :
       LET s == connections[a].streams[q]
       IN /\ Has(stream_states, s)
          /\ stream_states[s].peer_addr = a
          /\ stream_states[s].quic_id = q
  /\ \A s \in DOMAIN stream_states :
       LET st == stream_states[s]
       IN Undisturbed(st.peer_addr) =>
            /\ Has(connections, st.peer_addr)
            /\ Has(connections[st.peer_addr].streams, st.quic_id)
            /\ connections[st.peer_addr].streams[st.quic_id] = s

\* by_pubkey holds "Established connections indexed by TLS-verified identity":
\* where no connection was ever replaced, an entry names an established
\* connection of that identity.
IndexNamesItsIdentity ==
  \A k \in DOMAIN by_pubkey : Undisturbed(by_pubkey[k]) =>
    /\ Has(connections, by_pubkey[k])
    /\ connections[by_pubkey[k]].established
    /\ connections[by_pubkey[k]].peer_pubkey = k
=============================================================================
