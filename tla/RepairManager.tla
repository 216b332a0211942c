--------------------------- MODULE RepairManager ---------------------------
(***************************************************************************)
(* Repair requests (repair/request.rs, repair/outstanding_timers.rs,       *)
(* repair/peer_manager.rs, repair/socket.rs).                              *)
(*                                                                         *)
(* Three tasks share one Glommio thread.  The request processor turns what *)
(* the slot metadata reports missing into repair requests; the outstanding *)
(* loop keeps a 200 ms timer per request and sends it again, under a new   *)
(* nonce and perhaps to another peer, when the timer expires; the receiver *)
(* matches responses with outstanding requests, follows up on              *)
(* HighestWindowIndex responses and passes the shreds to the packet        *)
(* filter.  The first two exchange messages over an unbounded local        *)
(* channel while the store of outstanding requests is shared directly.     *)
(* All three write to one bounded channel into the socket task, and a task *)
(* that finds it full is suspended in the middle of its step.              *)
(*                                                                         *)
(* The network loses packets, and delivers the rest in any order.          *)
(***************************************************************************)
EXTENDS Naturals, Sequences, FiniteSets

CONSTANTS
  Slots,      \* slot numbers
  NumShreds,  \* [Slots -> Nat \ {0}]: data shreds in the leader's block
  Peers,      \* repair peers
  SocketCap,  \* capacity of the socket channel (20 in the code)
  Lonely,     \* whether a mapper may find no peer to ask
  Faulty,     \* whether peers may answer with packets that do not parse
  WireCap,    \* bound: responses under way at once
  Asks,       \* the messages the slot metadata may send
  None        \* Option::None, and an idle task

ASSUME NumShredsAssumption == NumShreds \in [Slots -> Nat \ {0}]
ASSUME SocketCapAssumption == SocketCap \in Nat \ {0}
ASSUME WireCapAssumption == WireCap \in Nat
ASSUME FaultsAssumption == {Lonely, Faulty} \subseteq BOOLEAN

VARIABLES
  repair_tx,    \* the channel from the slot metadata
  processor,    \* None, or the batch the request processor waits to send
  out_q,        \* the local channel into the outstanding loop
  outstanding,  \* OutstandingTimerStore: the requests awaiting a response
  ticking,      \* those of them whose timer has still to fire
  resend,       \* None, or the request the outstanding loop waits to send
  socket_tx,    \* the channel into the socket task
  responses,    \* response packets under way to or waiting for the receiver
  receiver,     \* None, or the response the receiver is following up on
  filter_tx,    \* shreds handed to the packet filter
  peer_has      \* [Slots -> Nat]: length of the prefix of the block peers hold

vars == <<repair_tx, processor, out_q, outstanding, ticking, resend, socket_tx,
          responses, receiver, filter_tx, peer_has>>

netVars == <<responses, filter_tx, peer_has>>

-----------------------------------------------------------------------------
(* Requests.                                                               *)

Seqs(q) == {q[i] : i \in 1 .. Len(q)}

\* The packet sent for it; index is the shred index on the wire.
Packet(r, index) ==
  [kind |-> r.kind, slot |-> r.slot, index |-> index, nonce |-> r.nonce,
   peer |-> r.peer]

New(r)     == [type |-> "new", req |-> r]
Timeout(r) == [type |-> "timeout", req |-> r]

\* Nonces are random 32-bit numbers, and two requests that are under way
\* together have different ones.  A nonce is represented by the request it was
\* drawn for and an attempt number that tells it from the earlier attempts at
\* that request which something in the system still refers to.
InUse ==
  {r.nonce : r \in outstanding \cup responses}
    \cup {m.req.nonce : m \in Seqs(out_q)}
    \cup {p.nonce : p \in UNION Seqs(socket_tx)}
    \cup {p.nonce : p \in IF processor = None THEN {} ELSE processor}
    \cup {p.nonce : p \in IF receiver = None THEN {} ELSE receiver.batch}
    \cup (IF resend = None THEN {} ELSE {resend.nonce})

FreshNonce(kind, s, i) ==
  <<kind, s, i, CHOOSE k \in 0 .. Cardinality(InUse) :
                  /\ <<kind, s, i, k>> \notin InUse
                  /\ \A j \in 0 .. (k - 1) : <<kind, s, i, j>> \in InUse>>

\* A new request to peer p, as the outstanding store records it.
Request(kind, s, i, p) ==
  [kind |-> kind, slot |-> s, shred |-> i, nonce |-> FreshNonce(kind, s, i),
   peer |-> p]

\* process_missing_shreds: one WindowIndex request per shred, each to a peer
\* of its own choice, in the order of the indexes.
Rank(is, i) == Cardinality({j \in is : j <= i})

WindowRequests(s, is, peer) ==
  LET nth(k) == CHOOSE i \in is : Rank(is, i) = k
  IN [k \in 1 .. Cardinality(is) |->
        Request("window", s, nth(k), peer[nth(k)])]

News(reqs) == [k \in 1 .. Len(reqs) |-> New(reqs[k])]

Packets(reqs) == {Packet(r, r.shred) : r \in Seqs(reqs)}

\* sample_peer: whether the mapper's peer list for the slot is not empty.  The
\* list is cached per slot and mapper, an empty one too, so a mapper may be
\* without peers while another has some.
HasPeers == IF Lonely THEN BOOLEAN ELSE {TRUE}

\* OutstandingTimerStore::contains and remove_slot.
Contains(s) == \E r \in outstanding : r.slot = s

\* Mutant: the timer of a removed request is not destroyed.
RemoveKeepsTimer(rs) ==
  /\ outstanding' = outstanding \ rs
  /\ UNCHANGED ticking

\* OutstandingTimerStore::remove destroys the request's timer.
Remove(rs) ==
  /\ outstanding' = outstanding \ rs
  /\ ticking' = ticking \ rs

Insert(r) ==
  /\ outstanding' = outstanding \cup {r}
  /\ ticking' = ticking \cup {r}

SocketHasRoom == Len(socket_tx) < SocketCap

Init ==
  /\ repair_tx = <<>>
  /\ processor = None
  /\ out_q = <<>>
  /\ outstanding = {}
  /\ ticking = {}
  /\ resend = None
  /\ socket_tx = <<>>
  /\ responses = {}
  /\ receiver = None
  /\ filter_tx = {}
  /\ peer_has \in [Slots -> UNION {0 .. NumShreds[s] : s \in Slots}]
  /\ \A s \in Slots : peer_has[s] <= NumShreds[s]

-----------------------------------------------------------------------------
(* The request processor.                                                  *)

ProcessorReady(type) ==
  /\ processor = None
  /\ repair_tx # <<>>
  /\ Head(repair_tx).type = type
  /\ repair_tx' = Tail(repair_tx)

\* send_socket.send: immediate while there is room, otherwise the task waits.
ProcessorSends(batch) ==
  IF SocketHasRoom
  THEN socket_tx' = Append(socket_tx, batch) /\ UNCHANGED processor
  ELSE processor' = batch /\ UNCHANGED socket_tx

\* With no peer every shred is skipped, and an empty batch goes out.
ProcessBounded ==
  LET msg == Head(repair_tx)
      s   == msg.slot
  IN /\ ProcessorReady("bounded")
     /\ IF Contains(s) \/ msg.shreds = {}
        THEN UNCHANGED <<out_q, socket_tx, processor>>
        ELSE \E found \in HasPeers, peer \in [msg.shreds -> Peers] :
               LET is   == IF found THEN msg.shreds ELSE {}
                   reqs == WindowRequests(s, is, peer)
               IN /\ out_q' = out_q \o News(reqs)
                  /\ ProcessorSends(Packets(reqs))
     /\ UNCHANGED <<outstanding, ticking, resend, receiver, netVars>>

ProcessUnbounded ==
  LET msg == Head(repair_tx)
      s   == msg.slot
  IN /\ ProcessorReady("unbounded")
     /\ \/ /\ Contains(s) \/ FALSE \in HasPeers
           /\ UNCHANGED <<out_q, socket_tx, processor>>
        \/ /\ ~Contains(s)
           /\ \E peer \in [msg.shreds -> Peers], p \in Peers :
                LET reqs == WindowRequests(s, msg.shreds, peer)
                    all  == Append(reqs,
                              Request("highest", s, msg.max_inclusive, p))
                IN /\ out_q' = out_q \o News(all)
                   /\ ProcessorSends(Packets(all))
     /\ UNCHANGED <<outstanding, ticking, resend, receiver, netVars>>

\* CancelRepair acts on the store at once; it does not see requests that are
\* still on their way there.
ProcessCancel ==
  LET s == Head(repair_tx).slot
  IN /\ ProcessorReady("cancel")
     /\ Remove({r \in outstanding : r.slot = s})
     /\ UNCHANGED <<processor, out_q, resend, socket_tx, receiver, netVars>>

ProcessorResumes ==
  /\ processor # None
  /\ SocketHasRoom
  /\ socket_tx' = Append(socket_tx, processor)
  /\ processor' = None
  /\ UNCHANGED <<repair_tx, out_q, outstanding, ticking, resend, receiver, netVars>>

-----------------------------------------------------------------------------
(* The outstanding loop.                                                   *)

LoopReady(type) ==
  /\ resend = None
  /\ out_q # <<>>
  /\ Head(out_q).type = type
  /\ out_q' = Tail(out_q)

TrackNew ==
  /\ LoopReady("new")
  /\ Insert(Head(out_q).req)
  /\ UNCHANGED <<repair_tx, processor, resend, socket_tx, receiver, netVars>>

\* A request that was answered or cancelled meanwhile is left alone; one that
\* was not is mapped to a peer again, and given up if there is none.
RetryDropped ==
  LET r == Head(out_q).req
  IN /\ LoopReady("timeout")
     /\ r \notin outstanding \/ FALSE \in HasPeers
     /\ Remove({r})
     /\ UNCHANGED <<repair_tx, processor, resend, socket_tx, receiver,
                    netVars>>

\* Mutant: the request sent again is not put back into the store.
RetryForgets ==
  LET r == Head(out_q).req
  IN /\ LoopReady("timeout")
     /\ r \in outstanding
     /\ SocketHasRoom
     /\ Remove({r})
     /\ socket_tx' = Append(socket_tx, {Packet(r, r.shred)})
     /\ UNCHANGED <<repair_tx, processor, resend, receiver,
                    netVars>>

\* The request leaves the store, is sent under a fresh nonce, and returns to
\* the store only once the socket channel has taken it.
Retry ==
  LET r == Head(out_q).req
  IN /\ LoopReady("timeout")
     /\ r \in outstanding
     /\ \E p \in Peers :
          LET again == Request(r.kind, r.slot, r.shred, p)
          IN IF SocketHasRoom
             THEN /\ socket_tx' = Append(socket_tx, {Packet(again, again.shred)})
                  /\ outstanding' = (outstanding \ {r}) \cup {again}
                  /\ ticking' = (ticking \ {r}) \cup {again}
                  /\ UNCHANGED resend
             ELSE /\ resend' = again
                  /\ Remove({r})
                  /\ UNCHANGED socket_tx
     /\ UNCHANGED <<repair_tx, processor, receiver, netVars>>

RetryResumes ==
  /\ resend # None
  /\ SocketHasRoom
  /\ socket_tx' = Append(socket_tx, {Packet(resend, resend.shred)})
  /\ Insert(resend)
  /\ resend' = None
  /\ UNCHANGED <<repair_tx, processor, out_q, receiver, netVars>>

\* Mutant: the expiry is not reported.
TimerSilent(r) ==
  /\ r \in ticking
  /\ ticking' = ticking \ {r}
  /\ UNCHANGED <<repair_tx, processor, out_q, outstanding, resend, socket_tx,
                 receiver, netVars>>

\* REPAIR_REQUEST_TIMEOUT has passed since the request was put in the store.
TimerFires(r) ==
  /\ r \in ticking
  /\ ticking' = ticking \ {r}
  /\ out_q' = Append(out_q, Timeout(r))
  /\ UNCHANGED <<repair_tx, processor, outstanding, resend, socket_tx,
                 receiver, netVars>>

-----------------------------------------------------------------------------
(* The receiver.                                                           *)

\* Whether shred i is without the LAST_SHRED_IN_SLOT flag.
MoreToCome(s, i) == i < NumShreds[s] - 1

\* The request a response answers: the one recorded under the response's
\* slot, nonce and route.
Matching(pkt) ==
  {r \in outstanding :
     r.slot = pkt.slot /\ r.nonce = pkt.nonce /\ r.peer = pkt.peer}

Receives(pkt) ==
  /\ receiver = None
  /\ responses' = responses \ {pkt}
  /\ Remove(Matching(pkt))

Shred(pkt) == [slot |-> pkt.slot, index |-> pkt.index, valid |-> pkt.valid]

\* No request is outstanding under this key (it was answered, cancelled or
\* sent again), or a HighestWindowIndex answer does not parse: the packet goes
\* no further, and in the second case the request is gone with it.
ReceiveDropped(pkt) ==
  /\ Receives(pkt)
  /\ \A r \in Matching(pkt) : r.kind = "highest" /\ ~pkt.valid
  /\ UNCHANGED <<repair_tx, processor, out_q, resend, socket_tx, receiver,
                 filter_tx, peer_has>>

\* Mutant: the store is asked for the request but keeps it.
ReceiveWindowKeeps(pkt) ==
  /\ receiver = None
  /\ responses' = responses \ {pkt}
  /\ \E r \in Matching(pkt) : r.kind = "window"
  /\ filter_tx' = filter_tx \cup {Shred(pkt)}
  /\ UNCHANGED <<repair_tx, processor, out_q, outstanding, ticking, resend,
                 socket_tx, receiver, peer_has>>

ReceiveWindow(pkt) ==
  /\ Receives(pkt)
  /\ \E r \in Matching(pkt) : r.kind = "window"
  /\ filter_tx' = filter_tx \cup {Shred(pkt)}
  /\ UNCHANGED <<repair_tx, processor, out_q, resend, socket_tx, receiver,
                 peer_has>>

\* The shreds between the index asked for and the one answered.
FollowUpRange(from, to) == {i \in from .. to : i < to}

\* The requests go out before the shred goes on.
FollowUp(batch, shred) ==
  IF SocketHasRoom
  THEN /\ socket_tx' = Append(socket_tx, batch)
       /\ filter_tx' = filter_tx \cup {shred}
       /\ UNCHANGED receiver
  ELSE /\ receiver' = [batch |-> batch, shred |-> shred]
       /\ UNCHANGED <<socket_tx, filter_tx>>

\* handle_unbounded_packet_response: ask for the shreds between the one asked
\* for and the one that came, and, unless it was the last of the slot, for the
\* highest one from its successor on.  That request is recorded under the
\* index that came, which is what a retry asks for.
ReceiveHighest(pkt) ==
  LET s == pkt.slot
      r == CHOOSE x \in Matching(pkt) : TRUE
  IN /\ Receives(pkt)
     /\ pkt.valid
     /\ Matching(pkt) # {}
     /\ r.kind = "highest"
     /\ \E found \in HasPeers :
          LET is   == IF found THEN FollowUpRange(r.shred, pkt.index) ELSE {}
              more == found /\ MoreToCome(s, pkt.index)
          IN \E peer \in [is -> Peers], p \in Peers :
               LET reqs  == WindowRequests(s, is, peer)
                   high  == Request("highest", s, pkt.index, p)
                   batch == Packets(reqs) \cup
                     (IF more THEN {Packet(high, pkt.index + 1)} ELSE {})
               IN /\ out_q' = out_q \o
                       News(IF more THEN Append(reqs, high) ELSE reqs)
                  /\ FollowUp(batch, Shred(pkt))
     /\ UNCHANGED <<repair_tx, processor, resend, peer_has>>

ReceiverResumes ==
  /\ receiver # None
  /\ SocketHasRoom
  /\ socket_tx' = Append(socket_tx, receiver.batch)
  /\ filter_tx' = filter_tx \cup {receiver.shred}
  /\ receiver' = None
  /\ UNCHANGED <<repair_tx, processor, out_q, outstanding, ticking, resend,
                 responses, peer_has>>

-----------------------------------------------------------------------------
(* The socket task, the wire and the peers.                                *)

managerVars == <<repair_tx, processor, out_q, outstanding, ticking, resend,
                 receiver>>

\* What a peer answers: WindowIndex with that shred, HighestWindowIndex with
\* the highest shred it holds if it is not below the index asked for.  A peer
\* that does not hold what is asked for stays silent.
Answer(pkt) ==
  LET n == peer_has[pkt.slot]
  IN IF pkt.kind = "window"
     THEN {i \in {pkt.index} : i < n}
     ELSE {i \in {n - 1} : n > 0 /\ pkt.index <= i}

Responses(pkt) ==
  [slot : {pkt.slot}, index : Answer(pkt), nonce : {pkt.nonce},
   peer : {pkt.peer}, valid : IF Faulty THEN BOOLEAN ELSE {TRUE}]

\* The socket task sends a batch, and peers answer the packets that reach them.
\* A lost request, a lost response and a silent peer look the same; a slow
\* response is one the receiver takes late.
SocketSends ==
  /\ socket_tx # <<>>
  /\ socket_tx' = Tail(socket_tx)
  /\ \E answers \in SUBSET UNION {Responses(pkt) : pkt \in Head(socket_tx)} :
       /\ \A a, b \in answers : a.nonce = b.nonce => a = b
       /\ Cardinality(responses \cup answers) <= WireCap
       /\ responses' = responses \cup answers
  /\ UNCHANGED <<managerVars, filter_tx, peer_has>>

PeersAdvance(s) ==
  /\ peer_has[s] < NumShreds[s]
  /\ peer_has' = [peer_has EXCEPT ![s] = @ + 1]
  /\ UNCHANGED <<managerVars, socket_tx, responses, filter_tx>>

\* Everything but the two ends of the pipeline: the tasks of the manager,
\* and the network beneath them.
Manager ==
  \/ ProcessBounded \/ ProcessUnbounded \/ ProcessCancel \/ ProcessorResumes
  \/ TrackNew \/ RetryDropped \/ Retry \/ RetryResumes
  \/ \E r \in ticking : TimerFires(r)
  \/ \E pkt \in responses :
       ReceiveDropped(pkt) \/ ReceiveWindow(pkt) \/ ReceiveHighest(pkt)
  \/ ReceiverResumes

Network ==
  \/ SocketSends
  \/ \E s \in Slots : PeersAdvance(s)

-----------------------------------------------------------------------------
(* The two ends: the slot metadata asks, the packet filter takes.          *)

Indexes(s) == 0 .. (NumShreds[s] - 1)

RepairReqs ==
  UNION {[type : {"bounded"}, slot : {s}, shreds : SUBSET Indexes(s)]
           \cup [type : {"unbounded"}, slot : {s}, shreds : SUBSET Indexes(s),
                 max_inclusive : Indexes(s)]
           \cup [type : {"cancel"}, slot : {s}] : s \in Slots}

ASSUME AsksAssumption == Asks \subseteq RepairReqs

\* Only the processor reads the channel, so a message may as well be sent when
\* it is about to be taken.
Ask(req) ==
  /\ repair_tx = <<>>
  /\ processor = None
  /\ repair_tx' = Append(repair_tx, req)
  /\ UNCHANGED <<processor, out_q, outstanding, ticking, resend, socket_tx,
                 receiver, netVars>>

FilterTakes(shred) ==
  /\ shred \in filter_tx
  /\ filter_tx' = filter_tx \ {shred}
  /\ UNCHANGED <<managerVars, socket_tx, responses, peer_has>>

Next ==
  \/ \E req \in Asks : Ask(req)
  \/ Manager
  \/ Network
  \/ \E shred \in filter_tx : FilterTakes(shred)

Spec == Init /\ [][Next]_vars

-----------------------------------------------------------------------------
(* Properties.                                                             *)

Kinds == {"window", "highest"}

Nonces == Kinds \X Slots \X Nat \X Nat

Requests ==
  [kind : Kinds, slot : Slots, shred : Nat, nonce : Nonces, peer : Peers]

ASSUME IdleAssumption == None \notin Requests

PacketType ==
  [kind : Kinds, slot : Slots, index : Nat, nonce : Nonces, peer : Peers]

ShredType == [slot : Slots, index : Nat, valid : BOOLEAN]

\* Every variable has its type, and no timer outlives its request's entry.
TypeOK ==
  /\ repair_tx \in Seq(RepairReqs)
  /\ processor \in (SUBSET PacketType) \cup {None}
  /\ out_q \in Seq([type : {"new", "timeout"}, req : Requests])
  /\ outstanding \in SUBSET Requests
  /\ ticking \subseteq outstanding
  /\ resend \in Requests \cup {None}
  /\ socket_tx \in Seq(SUBSET PacketType)
  /\ responses \in
       SUBSET [slot : Slots, index : Nat, nonce : Nonces, peer : Peers,
               valid : BOOLEAN]
  /\ receiver \in [batch : SUBSET PacketType, shred : ShredType] \cup {None}
  /\ filter_tx \in SUBSET ShredType
  /\ peer_has \in [Slots -> Nat]

\* A request in the store can always be sent again: its timer is running, or
\* its expiry is queued to the outstanding loop.  An entry for which neither
\* held would block every later request for its slot (contains) for good.
NoStrandedEntry ==
  \A r \in outstanding : r \in ticking \/ Timeout(r) \in Seqs(out_q)

\* What the manager has undertaken to obtain: requests in the store, queued
\* to enter it, or being sent again.
Undertaken ==
  {<<r.kind, r.slot, r.shred>> :
     r \in outstanding
            \cup {m.req : m \in {x \in Seqs(out_q) : x.type = "new"}}
            \cup ({resend} \ {None})}

\* A request is never lost on the way between the three tasks, their channel
\* and the store (start_outstanding_requests_loop): it ends with a response
\* the receiver takes, with a cancellation of its slot, or with a retry that
\* finds no peer.
RequestsPersist ==
  [][\A x \in Undertaken \ Undertaken' :
       \/ \E pkt \in responses \ responses' : SubSeq(pkt.nonce, 1, 3) = x
       \/ /\ repair_tx # <<>>
          /\ Head(repair_tx) = [type |-> "cancel", slot |-> x[2]]
          /\ repair_tx' = Tail(repair_tx)
       \/ /\ Lonely
          /\ out_q # <<>>
          /\ Head(out_q).type = "timeout"
          /\ out_q' = Tail(out_q)
          /\ UNCHANGED <<socket_tx, resend>>]_vars

\* The requests for one slot that the tasks or the wire still know of.
Traffic(s) ==
  \/ Contains(s)
  \/ \E m \in Seqs(out_q) : m.type = "new" /\ m.req.slot = s
  \/ resend # None /\ resend.slot = s
=============================================================================
