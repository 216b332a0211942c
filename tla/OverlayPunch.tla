---------------------------- MODULE OverlayPunch ----------------------------
(***************************************************************************)
(* Hole punching (overlay/service.rs, overlay/punch.rs): two nodes behind  *)
(* NAT boxes exchange signed requests through a public peer both are       *)
(* connected to, the via, aim raw probes at each other until one gets      *)
(* through, and the node with the smaller identity dials the address that  *)
(* probe came from.  The via may help with sockets of its own that observe *)
(* one side's mapping.  Both ends are connected to their observers and     *)
(* know what those report; neither is Direct.  Signalling rides the        *)
(* connections to the via, in order; raw probes are datagrams in the air.  *)
(* A deadline passes when nothing is under way any more or, as a mishap,   *)
(* earlier.                                                                *)
(***************************************************************************)
EXTENDS AddressDiscovery

CONSTANTS
  Via,              \* the shared public peer, the first of the observers
  ObserverAddrs,    \* the addresses of the observers, in the order of connecting
  Ends, BindPort,   \* the two nodes, and the port they bind
  Pairs,            \* [nat |-> [Ends -> NatConfig], who |-> who may begin,
                    \*  birthday |-> opted in, mishaps |-> bound]
  Drawn,            \* bound: the ports a random box gave the observers
  MaxPunchForwards, MaxPunchHelpers, MaxPunchProbeRounds, MaxPunchCandidates,
  MaxBracketWidth, BirthdaySocketCap, BirthdaySprayCap

VARIABLES
  pair,
  nat,       \* the boxes of the ends
  seen,      \* what the observers report of each end
  session,   \* punch_sessions
  forward,   \* punch_forwards of the via
  assisting, \* punch_helpers of the via
  chan,      \* frames from one node to another
  air,       \* raw probes under way
  dial,      \* dials under way
  socks,     \* the short-lived sockets of each node
  kept,      \* those a connection lives on
  failed,    \* punch_outcomes: the ends it is pointless for to try again
  begun,     \* the ends that have begun an exchange
  joined,    \* whether the ends are connected
  arrived,   \* history: how often the payload of each end arrived
  mishaps

punchVars == <<pair, nat, seen, session, forward, assisting, chan, air, dial,
               socks, kept, failed, begun, joined, arrived, mishaps>>

ASSUME PunchAssumption ==
  /\ Ends \subseteq Nat /\ \E x, y \in Ends : x # y /\ Ends = {x, y}
  /\ Via \notin Ends /\ ObserverAddrs \in Seq(Addrs)
  /\ {MaxPunchForwards, MaxPunchHelpers, MaxPunchProbeRounds, MaxPunchCandidates,
      BirthdaySocketCap} \subseteq Nat

Peer(e) == CHOOSE p \in Ends : p # e
Primary(e) == Local(nat[e], e, BindPort)
ViaAddr == ObserverAddrs[1]
Nodes == Ends \cup {Via}
Hops == {<<e, Via>> : e \in Ends} \cup {<<Via, e>> : e \in Ends}

-----------------------------------------------------------------------------
(* Profiles and candidates.                                                *)

\* local_nat_profile.  Observations do not change, so it is also what the
\* other end is told.
Profile(e) ==
  [class |-> Classify(Primary(e), seen[e]),
   allocator |-> Calibrate(Primary(e), seen[e]),
   birthday |-> pair.birthday]

DefaultProfile == [class |-> Unknown, allocator |-> Uncalibrated, birthday |-> FALSE]
IsSequential(profile) == profile.allocator.walk = "Sequential"
IsRandom(profile) == profile.allocator.walk = "Random"

\* Until the response arrives nothing is known of the peer.
Remote(s) == IF s.awaiting THEN DefaultProfile ELSE Profile(s.peer)

\* add_punch_candidate: a list without repetition, no longer than the cap.
Add(addrs, addr) ==
  IF addr \in ToSet(addrs) \/ Len(addrs) >= MaxPunchCandidates THEN addrs ELSE Append(addrs, addr)

\* local_punch_candidates: the hints, one after the other.
LocalPunchCandidates(e) ==
  LET hints == ObservedHints(seen[e])
      added[i \in 0 .. Len(hints)] == IF i = 0 THEN <<>> ELSE Add(added[i - 1], hints[i])
  IN added[Len(hints)]

-----------------------------------------------------------------------------
NewSession(e, nonce, awaiting) ==
  [peer |-> Peer(e), nonce |-> nonce, candidates |-> <<>>, freshest |-> NoAddr,
   awaiting |-> awaiting, dialStarted |-> FALSE, payload |-> FALSE,
   sockets |-> {}, birthdayStarted |-> FALSE, sprayed |-> FALSE,
   due |-> "later", rounds |-> 0, followup |-> FALSE, prediction |-> NoAddr, bracket |-> <<>>]

Of(e, nonce) == {s \in session[e] : s.nonce = nonce}
With(e, s, t) == (session[e] \ {s}) \cup {t}

\* Connecting to the observers one after the other.
Connected(config, e) ==
  LET Step(outs, o) ==
        UNION {{[box |-> n.box, ports |-> Append(out.ports, n.src)] :
                  n \in Outbound(out.box, Local(out.box, e, BindPort), o)} : out \in outs}
      outcomes == FoldLeft(Step, {[box |-> NewBox(config), ports |-> <<>>]}, ObserverAddrs)
  IN {out \in outcomes : config.allocator = Random => [i \in DOMAIN out.ports |-> Port(out.ports[i])] = Drawn}

InitPunch(chosen) ==
  /\ pair = chosen
  /\ \E up \in [Ends -> UNION {Connected(pair.nat[e], e) : e \in Ends}] :
       /\ \A e \in Ends : up[e] \in Connected(pair.nat[e], e)
       /\ nat = [e \in Ends |-> up[e].box]
       /\ seen = [e \in Ends |-> [o \in ToSet(ObserverAddrs) |->
                    up[e].ports[CHOOSE i \in DOMAIN ObserverAddrs : ObserverAddrs[i] = o]]]
  /\ session = [e \in Ends |-> {}]
  /\ forward = {} /\ assisting = {} /\ air = {} /\ dial = {}
  /\ chan = [h \in Hops |-> <<>>]
  /\ socks = [n \in Nodes |-> {}]
  /\ kept = [e \in Ends |-> {}]
  /\ failed = {} /\ begun = {} /\ joined = FALSE
  /\ arrived = [e \in Ends |-> 0]
  /\ mishaps = 0

-----------------------------------------------------------------------------
(* Sending.                                                                *)

Send(from, to, frame) == [chan EXCEPT ![<<from, to>>] = Append(@, frame)]
Received(from, to) == [chan EXCEPT ![<<from, to>>] = Tail(@)]

\* Raw probes leave through the box, one after the other; what it has no port
\* for is dropped.
Transmitted(e, sends) ==
  LET Step(outs, send) ==
        UNION {LET passed == Outbound(out.box, send.socket, send.to)
               IN IF passed = {} THEN {out}
                  ELSE {[box |-> p.box,
                         air |-> out.air \cup {[src |-> p.src, dst |-> send.to, origin |-> e, nonce |-> send.nonce]}]
                          : p \in passed} : out \in outs}
  IN FoldLeft(Step, {[box |-> nat[e], air |-> air]}, sends)

Transmit(e, sends) ==
  \E out \in Transmitted(e, sends) : nat' = [nat EXCEPT ![e] = out.box] /\ air' = out.air

\* advance_punches, of one session: whether it probes at all, and where.
Hopeless(s) ==
  LET profiles == {Profile(Peer(s.peer)), Remote(s)}
  IN /\ \E p \in profiles : IsRandom(p)
     /\ \A p \in profiles : p.class # "Public"
     /\ \E p \in profiles : ~p.birthday

IsDue(s, dues) == ~s.awaiting /\ s.due \in dues

\* Mutant: one round fewer than allowed.
ProbingOnce(s, dues) == IsDue(s, dues) /\ s.rounds + 1 < MaxPunchProbeRounds /\ ~Hopeless(s)

Probing(s, dues) == IsDue(s, dues) /\ s.rounds < MaxPunchProbeRounds /\ ~Hopeless(s)

Advanced(s, dues) ==
  IF ~IsDue(s, dues) THEN s
  ELSE IF ~Probing(s, dues) THEN [s EXCEPT !.due = "never"]
  ELSE [s EXCEPT !.rounds = @ + 1, !.due = IF s.prediction # NoAddr THEN "never" ELSE "later"]

Aims(s) ==
  IF s.prediction # NoAddr THEN <<s.prediction>>
  ELSE LET fresh == IF s.freshest = NoAddr THEN <<>> ELSE <<s.freshest>>
           Other(addr) == addr # s.freshest
           Opener(addr) == Other(addr) /\ addr \notin ToSet(s.candidates)
       IN fresh \o SelectSeq(s.candidates, Other) \o SelectSeq(s.bracket, Opener)

Volley(e, sessions, dues) ==
  LET probing == SetToSortSeq({s \in sessions : Probing(s, dues)}, LAMBDA s, t : s.nonce < t.nonce)
      Sends(s) == [i \in DOMAIN Aims(s) |-> [socket |-> Primary(e), to |-> Aims(s)[i], nonce |-> s.nonce]]
  IN FlattenSeq([i \in DOMAIN probing |-> Sends(probing[i])])

AdvancedAll(sessions, dues) == {Advanced(s, dues) : s \in sessions}

\* What a handler that ends in advance_punches leaves behind.
Advance(e, sessions, dues) ==
  /\ session' = [session EXCEPT ![e] = AdvancedAll(sessions, dues)]
  /\ Transmit(e, Volley(e, sessions, dues))

-----------------------------------------------------------------------------
(* Birthday sockets.                                                       *)

BirthdaySockets(e, nonce) == {100 + BirthdaySocketCap * nonce + i : i \in 1 .. BirthdaySocketCap}
SocketAddr(e, port) == Local(nat[e], e, port)

MayStartBirthday(e, s) ==
  /\ ~s.birthdayStarted /\ pair.birthday
  /\ IsRandom(Profile(e)) /\ s.candidates # <<>>

\* start_birthday, after the volley of the same handler.
AdvanceWithBirthday(e, sessions, s, frames) ==
  LET ports == BirthdaySockets(e, s.nonce)
      sorted == SetToSortSeq(ports, <)
      t == [Advanced(s, {"now"}) EXCEPT !.birthdayStarted = TRUE, !.sockets = ports]
      sends == Volley(e, sessions, {"now"}) \o
                 [i \in DOMAIN sorted |-> [socket |-> SocketAddr(e, sorted[i]),
                                           to |-> Head(s.candidates), nonce |-> s.nonce]]
  IN /\ session' = [session EXCEPT ![e] = AdvancedAll(sessions \ {s}, {"now"}) \cup {t}]
     /\ socks' = [socks EXCEPT ![e] = @ \cup ports]
     /\ Transmit(e, sends)
     /\ chan' = [frames EXCEPT ![<<e, Via>>] =
                   Append(@, [type |-> "PunchBirthday", nonce |-> s.nonce, origin |-> e, target |-> s.peer])]

\* The session s is new or has just got its answer.
Engage(e, sessions, s, frames) ==
  IF MayStartBirthday(e, s) THEN AdvanceWithBirthday(e, sessions, s, frames)
  ELSE Advance(e, sessions, {"now"}) /\ chan' = frames /\ UNCHANGED socks

-----------------------------------------------------------------------------
(* The exchange of requests.                                               *)

\* begin_punch: a payload for a peer that a session is already under way with
\* is left to that session.
BeginPunch(e) ==
  /\ e \in pair.who \ begun /\ ~joined
  /\ begun' = begun \cup {e}
  /\ IF session[e] # {}
     THEN /\ \E s \in session[e] : session' = [session EXCEPT ![e] = With(e, s, [s EXCEPT !.payload = TRUE])]
          /\ UNCHANGED chan
     ELSE /\ e \notin failed
          /\ session' = [session EXCEPT ![e] = {[NewSession(e, e, TRUE) EXCEPT !.payload = TRUE]}]
          /\ chan' = Send(e, Via, [type |-> "ConnectRequest", nonce |-> e, origin |-> e, target |-> Peer(e)])
  /\ UNCHANGED <<pair, nat, seen, forward, assisting, air, dial, socks, kept, failed, joined, arrived, mishaps>>

\* handle_connect_request at the via.
ForwardRequest(e) ==
  /\ chan[<<e, Via>>] # <<>>
  /\ LET frame == Head(chan[<<e, Via>>])
         known == \E f \in forward : f.origin = frame.origin /\ f.nonce = frame.nonce
     IN /\ frame.type = "ConnectRequest"
        /\ IF Cardinality(forward) >= MaxPunchForwards \/ known
           THEN chan' = Received(e, Via) /\ UNCHANGED forward
           ELSE /\ chan' = [Received(e, Via) EXCEPT ![<<Via, Peer(e)>>] = Append(@, frame)]
                /\ forward' = forward \cup {[origin |-> e, nonce |-> frame.nonce, target |-> frame.target]}
  /\ UNCHANGED <<pair, nat, seen, session, assisting, air, dial, socks, kept, failed, begun,
                 joined, arrived, mishaps>>

\* handle_connect_request at its target.
HandleConnectRequest(e) ==
  /\ chan[<<Via, e>>] # <<>>
  /\ LET frame == Head(chan[<<Via, e>>])
         fresh == [NewSession(e, frame.nonce, FALSE) EXCEPT
                     !.candidates = LocalPunchCandidates(Peer(e)), !.due = "now"]
         own == IF Of(e, frame.nonce) = {} THEN {fresh} ELSE Of(e, frame.nonce)
         response == [type |-> "ConnectResponse", nonce |-> frame.nonce, origin |-> e, target |-> frame.origin]
         answered == [Received(Via, e) EXCEPT ![<<e, Via>>] = Append(@, response)]
     IN /\ frame.type = "ConnectRequest"
        /\ \E s \in own : Engage(e, session[e] \cup own, s, answered)
  /\ UNCHANGED <<pair, seen, forward, assisting, dial, kept, failed, begun, joined, arrived, mishaps>>

-----------------------------------------------------------------------------
(* The via's help.                                                         *)

\* start_assist: a socket on the port of the other side's candidate for a
\* mapping that goes by port, one on a random port to bracket a sequential pool;
\* the latter too when the port is taken.  No two random ports are the same.
BracketPort(observer, nonce) == 200 + 2 * nonce + (IF observer < Peer(observer) THEN 0 ELSE 1)

AssistKind(observer, nonce, taken) ==
  LET exact == Port(Head(LocalPunchCandidates(Peer(observer))))
      profile == Profile(observer)
  IN IF profile.class = "PortDependent" /\ exact \notin taken
     THEN {[kind |-> "SamePortObservation", port |-> exact]}
     ELSE IF IsSequential(profile) THEN {[kind |-> "SequentialBracket", port |-> BracketPort(observer, nonce)]}
     ELSE {}

StartAssist(observer, nonce, helpers) ==
  LET taken == {h.port : h \in helpers} \cup {Port(ViaAddr)}
  IN IF Cardinality(helpers) >= MaxPunchHelpers THEN {}
     ELSE {[origin |-> observer, target |-> Peer(observer), nonce |-> nonce,
            kind |-> k.kind, port |-> k.port] : k \in {l \in AssistKind(observer, nonce, taken) : l.port \notin taken}}

PunchAssist(h) == [type |-> "PunchAssist", nonce |-> h.nonce, origin |-> h.origin, port |-> h.port]

\* handle_connect_response at the via, and maybe_start_assist for both sides.
RelayResponse(e) ==
  /\ chan[<<e, Via>>] # <<>>
  /\ LET frame == Head(chan[<<e, Via>>])
         matching == {f \in forward : f.origin = frame.target /\ f.nonce = frame.nonce}
         first == StartAssist(frame.target, frame.nonce, assisting)
         second == StartAssist(e, frame.nonce, assisting \cup first)
         Plans(helpers) == SetToSeq({PunchAssist(h) : h \in helpers})
         relayed == [Received(e, Via) EXCEPT
                       ![<<Via, frame.target>>] = (@ \o <<frame>>) \o Plans(first)]
     IN /\ frame.type = "ConnectResponse"
        /\ forward' = forward \ matching
        /\ IF matching = {} \/ \E f \in matching : f.target # e
           THEN chan' = Received(e, Via) /\ UNCHANGED <<assisting, socks>>
           ELSE /\ chan' = [relayed EXCEPT ![<<Via, e>>] = @ \o Plans(second)]
                /\ assisting' = assisting \cup first \cup second
                /\ socks' = [socks EXCEPT ![Via] = @ \cup {h.port : h \in first \cup second}]
  /\ UNCHANGED <<pair, nat, seen, session, air, dial, kept, failed, begun, joined, arrived, mishaps>>

\* handle_connect_response at the initiator.
HandleConnectResponse(e) ==
  /\ chan[<<Via, e>>] # <<>>
  /\ LET frame == Head(chan[<<Via, e>>])
         open == {s \in Of(e, frame.nonce) : s.awaiting}
     IN /\ frame.type = "ConnectResponse"
        /\ IF open = {}
           THEN chan' = Received(Via, e) /\ UNCHANGED <<session, nat, air, socks>>
           ELSE \E s \in open :
                  LET t == [s EXCEPT !.candidates = LocalPunchCandidates(Peer(e)),
                                     !.awaiting = FALSE, !.due = "now"]
                  IN Engage(e, With(e, s, t), t, Received(Via, e))
  /\ UNCHANGED <<pair, seen, forward, assisting, dial, kept, failed, begun, joined, arrived, mishaps>>

\* handle_punch_assist: probe the helper's socket, before all else when only
\* this side is sequential.
HandlePunchAssist(e) ==
  /\ chan[<<Via, e>>] # <<>>
  /\ LET frame == Head(chan[<<Via, e>>])
         helper == WithPort(ViaAddr, frame.port)
         Ahead(s) == LET added == Add(s.candidates, helper)
                     IN IF IsSequential(Profile(e)) /\ ~IsSequential(Remote(s)) /\ helper \in ToSet(added)
                        THEN <<helper>> \o RemoveFirst(added, helper)
                        ELSE added
     IN /\ frame.type = "PunchAssist"
        /\ chan' = Received(Via, e)
        /\ IF Of(e, frame.nonce) = {} THEN UNCHANGED <<session, nat, air>>
           ELSE \E s \in Of(e, frame.nonce) :
                  Advance(e, With(e, s, [s EXCEPT !.candidates = Ahead(s), !.rounds = 0, !.due = "now"]), {"now"})
  /\ UNCHANGED <<pair, seen, forward, assisting, dial, socks, kept, failed, begun, joined, arrived, mishaps>>

\* handle_punch_helper_probe: what a helper socket saw goes to the other side.
ObservedFrame(h, from) ==
  [type |-> "PunchObservation", nonce |-> h.nonce, origin |-> h.origin, observed |-> from]

BracketFrame(h, from) ==
  LET first == Port(seen[h.origin][ViaAddr])
      last == Port(from)
  IN [type |-> "PunchBracket", nonce |-> h.nonce, origin |-> h.origin, ip |-> from,
      start |-> Min({first, last}), end |-> Max({first, last})]

HandlePunchHelperProbe(probe) ==
  LET Expects(h) == /\ WithPort(ViaAddr, h.port) = probe.dst
                    /\ h.origin = probe.origin /\ h.nonce = probe.nonce
      Noisy(h) == LET bracket == BracketFrame(h, probe.src)
                  IN \/ bracket.end - bracket.start + 1 > MaxBracketWidth
                     \/ Ip(seen[h.origin][ViaAddr]) # Ip(probe.src)
      Report(h) == IF h.kind = "SamePortObservation" THEN <<ObservedFrame(h, probe.src)>>
                   ELSE IF Noisy(h) THEN <<>> ELSE <<BracketFrame(h, probe.src)>>
      expecting == {h \in assisting : Expects(h)}
  IN /\ probe \in air /\ Host(probe.dst) = Via
     /\ air' = air \ {probe}
     /\ IF expecting = {} THEN UNCHANGED chan
        ELSE \E h \in expecting : chan' = [chan EXCEPT ![<<Via, h.target>>] = @ \o Report(h)]
     /\ UNCHANGED <<pair, nat, seen, session, forward, assisting, dial, socks, kept, failed,
                    begun, joined, arrived, mishaps>>

\* schedule_assisted_followup: one more volley for the first result.
FollowUp(s) == [s EXCEPT !.rounds = IF s.followup THEN @ ELSE 0, !.followup = TRUE, !.due = "now"]

HandlePunchObservation(e) ==
  /\ chan[<<Via, e>>] # <<>>
  /\ LET frame == Head(chan[<<Via, e>>])
     IN /\ frame.type = "PunchObservation"
        /\ chan' = Received(Via, e)
        /\ IF Of(e, frame.nonce) = {} THEN UNCHANGED <<session, nat, air>>
           ELSE \E s \in Of(e, frame.nonce) :
                  LET t == FollowUp([s EXCEPT !.candidates = Add(@, frame.observed)])
                  IN Advance(e, With(e, s, t), {"now"})
  /\ UNCHANGED <<pair, seen, forward, assisting, dial, socks, kept, failed, begun, joined, arrived, mishaps>>

\* handle_punch_bracket: the port after the last one of a pool known to be
\* sequential, or else all of the bracket.
HandlePunchBracket(e) ==
  /\ chan[<<Via, e>>] # <<>>
  /\ LET frame == Head(chan[<<Via, e>>])
         At(port) == WithPort(frame.ip, port)
         ports == [i \in 1 .. frame.end - frame.start + 1 |-> At(frame.start + i - 1)]
         Aimed(s) == IF IsSequential(Remote(s))
                     THEN [s EXCEPT !.prediction = At(frame.end + Remote(s).allocator.stride), !.bracket = <<>>]
                     ELSE [s EXCEPT !.bracket = @ \o SelectSeq(ports, LAMBDA a : a \notin ToSet(s.bracket))]
     IN /\ frame.type = "PunchBracket"
        /\ chan' = Received(Via, e)
        /\ IF Of(e, frame.nonce) = {} THEN UNCHANGED <<session, nat, air>>
           ELSE \E s \in Of(e, frame.nonce) : Advance(e, With(e, s, FollowUp(Aimed(s))), {"now"})
  /\ UNCHANGED <<pair, seen, forward, assisting, dial, socks, kept, failed, begun, joined, arrived, mishaps>>

\* handle_punch_birthday at the via, and at the other side: a spray of probes
\* at arbitrary ports of the random box.
RelayBirthday(e) ==
  /\ chan[<<e, Via>>] # <<>>
  /\ LET frame == Head(chan[<<e, Via>>])
     IN /\ frame.type = "PunchBirthday"
        /\ chan' = [Received(e, Via) EXCEPT ![<<Via, frame.target>>] = Append(@, frame)]
  /\ UNCHANGED <<pair, nat, seen, session, forward, assisting, air, dial, socks, kept, failed,
                 begun, joined, arrived, mishaps>>

Sprays(e, s) ==
  LET ip == Head(s.candidates)
      Spray(port) == [socket |-> Primary(e), to |-> WithPort(ip, port), nonce |-> s.nonce]
  IN {[i \in 1 .. BirthdaySprayCap |-> Spray(SetToSortSeq(ports, <)[i])] :
        ports \in kSubset(BirthdaySprayCap, Lo .. Hi)}

HandlePunchBirthday(e) ==
  /\ chan[<<Via, e>>] # <<>>
  /\ LET frame == Head(chan[<<Via, e>>])
         open == {s \in Of(e, frame.nonce) : ~s.sprayed /\ Remote(s).birthday
                                             /\ IsRandom(Remote(s)) /\ s.candidates # <<>>}
     IN /\ frame.type = "PunchBirthday"
        /\ chan' = Received(Via, e)
        /\ IF open = {} THEN UNCHANGED <<session, nat, air>>
           ELSE \E s \in open :
                  /\ session' = [session EXCEPT ![e] = With(e, s, [s EXCEPT !.sprayed = TRUE])]
                  /\ \E sends \in Sprays(e, s) : Transmit(e, sends)
  /\ UNCHANGED <<pair, seen, forward, assisting, dial, socks, kept, failed, begun, joined, arrived, mishaps>>

-----------------------------------------------------------------------------
(* Probes, dials and deadlines.                                            *)

\* The network is idle.  The deadlines of the exchange assume it fast: that it
\* is not when a timer fires is a mishap.
Silent == air = {} /\ \A h \in Hops : chan[h] = <<>>
InTime(idle) == IF idle THEN UNCHANGED mishaps ELSE mishaps < pair.mishaps /\ mishaps' = mishaps + 1

\* The timer's call of advance_punches, with the rounds that wait for it.
AdvancePunches(e, dues) ==
  /\ \E s \in session[e] : IsDue(s, dues)
  /\ InTime("later" \in dues => Silent)
  /\ Advance(e, session[e], dues)
  /\ UNCHANGED <<pair, seen, forward, assisting, chan, dial, socks, kept, failed, begun, joined, arrived>>

\* The socket of an end that a datagram reaches, if it is open.
Reaches(e, src, dst) ==
  LET socket == Inbound(nat[e], src, dst)
  IN IF socket # NoAddr /\ Port(socket) \in {BindPort} \cup socks[e] THEN socket ELSE NoAddr

\* One connection for an address: a second dial joins the first.
Dialled(d) ==
  LET same == {c \in dial : c.from = d.from /\ c.dst = d.dst}
  IN IF same = {} THEN dial \cup {d}
     ELSE (dial \ same) \cup {[c EXCEPT !.payload = @ \/ d.payload] : c \in same}

\* handle_punch_probe: the source is where the peer is now.  Answer from the
\* socket the probe came in on and, once per session and on the smaller side,
\* dial; a dial from the primary socket takes the payload along.
HandlePunchProbe(probe) ==
  LET e == Host(probe.dst)
      socket == Reaches(e, probe.src, probe.dst)
      open == {s \in Of(e, probe.nonce) : ~s.awaiting /\ s.peer = probe.origin}
  IN /\ probe \in air /\ e \in Ends
     /\ IF socket = NoAddr \/ open = {}
        THEN air' = air \ {probe} /\ UNCHANGED <<nat, session, dial>>
        ELSE \E s \in open :
               LET birthday == Port(socket) \in s.sockets
                   source == IF birthday THEN socket ELSE Primary(e)
                   shouldDial == e < s.peer /\ ~s.dialStarted
                   carries == shouldDial /\ ~birthday /\ s.payload
                   t == [s EXCEPT !.freshest = probe.src, !.due = "now",
                                  !.dialStarted = @ \/ shouldDial, !.payload = @ /\ ~carries]
               IN /\ session' = [session EXCEPT ![e] = With(e, s, t)]
                  /\ IF Outbound(nat[e], source, probe.src) = {}
                     THEN air' = air \ {probe} /\ UNCHANGED <<nat, dial>>
                     ELSE \E out \in Outbound(nat[e], source, probe.src) :
                            /\ nat' = [nat EXCEPT ![e] = out.box]
                            /\ air' = (air \ {probe}) \cup
                                        {[src |-> out.src, dst |-> probe.src, origin |-> e, nonce |-> s.nonce]}
                            /\ dial' = IF ~shouldDial THEN dial
                                       ELSE Dialled([from |-> e, socket |-> source, src |-> out.src,
                                                     dst |-> probe.src, nonce |-> s.nonce, payload |-> carries])
     /\ UNCHANGED <<pair, seen, forward, assisting, chan, socks, kept, failed, begun, joined, arrived, mishaps>>

\* A handshake needs a way through both boxes, and answers from where it knocked.
Passable(d) ==
  LET e == d.from
      p == Peer(e)
      there == Reaches(p, d.src, d.dst)
  IN /\ there # NoAddr
     /\ \E out \in Outbound(nat[p], there, d.src) : out.src = d.dst
     /\ Reaches(e, d.dst, d.src) = d.socket

\* complete_punch: what payloads the sessions hold is sent, and every birthday
\* socket but the connection's own is closed.
CompletePunch(keep) ==
  /\ session' = [e \in Ends |-> {}]
  /\ kept' = [e \in Ends |-> kept[e] \cup ((UNION {s.sockets : s \in session[e]}) \cap keep[e])]
  /\ socks' = [n \in Nodes |-> IF n = Via THEN socks[Via]
                               ELSE socks[n] \ ((UNION {s.sockets : s \in session[n]}) \ keep[n])]

Establish(d) ==
  LET Held(e) == Cardinality({s \in session[e] : s.payload})
      Carried(e) == IF d.payload /\ e = d.from THEN 1 ELSE 0
      there == Reaches(Peer(d.from), d.src, d.dst)
  IN /\ d \in dial /\ Passable(d)
     /\ joined' = TRUE
     /\ arrived' = [e \in Ends |-> arrived[e] + Held(e) + Carried(e)]
     /\ dial' = dial \ {d}
     /\ CompletePunch([e \in Ends |-> {Port(IF e = d.from THEN d.socket ELSE there)}])
     /\ UNCHANGED <<pair, nat, seen, forward, assisting, chan, air, failed, begun, mishaps>>

\* Nothing under way, and no timer before the deadlines.
Quiet ==
  /\ Silent
  /\ \A d \in dial : ~Passable(d)
  /\ \A e \in Ends : \A s \in session[e] : ~IsDue(s, {"now", "later"})

\* advance_punches, of an expired session: a failure is remembered unless the
\* peer never answered.
ExpirePunch(e) ==
  /\ \E s \in session[e] :
       /\ session' = [session EXCEPT ![e] = @ \ {s}]
       /\ failed' = IF s.awaiting THEN failed ELSE failed \cup {e}
       /\ socks' = [socks EXCEPT ![e] = @ \ s.sockets]
       /\ dial' = {d \in dial : ~(d.from = e /\ d.nonce = s.nonce)}
  /\ InTime(Quiet)
  /\ UNCHANGED <<pair, nat, seen, forward, assisting, chan, air, kept, begun, joined, arrived>>

ExpirePunchForward ==
  /\ \E f \in forward : forward' = forward \ {f}
  /\ InTime(Quiet)
  /\ UNCHANGED <<pair, nat, seen, session, assisting, chan, air, dial, socks, kept, failed,
                 begun, joined, arrived>>

ExpirePunchHelper ==
  /\ \E h \in assisting :
       /\ assisting' = assisting \ {h}
       /\ socks' = [socks EXCEPT ![Via] = @ \ {h.port}]
  /\ InTime(Quiet)
  /\ UNCHANGED <<pair, nat, seen, session, forward, chan, air, dial, kept, failed, begun, joined, arrived>>

\* The network loses a probe or a frame.
Lose ==
  /\ mishaps < pair.mishaps /\ mishaps' = mishaps + 1
  /\ \/ \E probe \in air : air' = air \ {probe} /\ UNCHANGED chan
     \/ \E h \in Hops : chan[h] # <<>> /\ chan' = [chan EXCEPT ![h] = Tail(@)] /\ UNCHANGED air
  /\ UNCHANGED <<pair, nat, seen, session, forward, assisting, dial, socks, kept, failed,
                 begun, joined, arrived>>

NextPunch ==
  \/ \E e \in Ends :
       \/ BeginPunch(e) \/ ForwardRequest(e) \/ HandleConnectRequest(e)
       \/ RelayResponse(e) \/ HandleConnectResponse(e)
       \/ HandlePunchAssist(e) \/ HandlePunchObservation(e) \/ HandlePunchBracket(e)
       \/ RelayBirthday(e) \/ HandlePunchBirthday(e)
       \/ ExpirePunch(e)
       \/ \E dues \in {{"now"}, {"now", "later"}} : AdvancePunches(e, dues)
  \/ \E probe \in air : HandlePunchProbe(probe) \/ HandlePunchHelperProbe(probe)
  \/ \E d \in dial : Establish(d)
  \/ ExpirePunchForward \/ ExpirePunchHelper \/ Lose

-----------------------------------------------------------------------------
(* What hole punching promises.                                            *)

\* Every short-lived socket belongs to a session or to a helper that will close
\* it, or to a connection.
PunchSocketsOwned ==
  /\ socks[Via] = {h.port : h \in assisting}
  /\ \A e \in Ends : socks[e] = kept[e] \cup UNION {s.sockets : s \in session[e]}

\* The types of hole punching, its limits included.
PunchTypes ==
  /\ Cardinality(forward) <= MaxPunchForwards
  /\ Cardinality(assisting) <= MaxPunchHelpers
  /\ \A e \in Ends : \A s \in session[e] :
       /\ s.rounds <= MaxPunchProbeRounds
       /\ Len(s.candidates) <= MaxPunchCandidates
       /\ s.due \in {"now", "later", "never"}
  /\ begun \subseteq Ends /\ failed \subseteq Ends /\ joined \in BOOLEAN
  /\ PunchSocketsOwned

\* punch_prediction, the simulator's table of the pairs that must connect.  A
\* random box connects by chance only, so none of its pairs is in it.
StrictFilterEim(config) == config \in {PortRestrictedCone, SymmetricPreserving, Firewall}
DestinationDependent(config) == config \in {FieldNoteFiber, SymmetricSequential, SymmetricRandom}

PunchPrediction(x, y) ==
  /\ SymmetricRandom \notin {x, y}
  /\ ~(x = SymmetricSequential /\ StrictFilterEim(y))
  /\ ~(y = SymmetricSequential /\ StrictFilterEim(x))
  /\ DestinationDependent(x) /\ DestinationDependent(y) => x = SymmetricSequential /\ y = x

\* Both exchanges of a crossing pair have had a sequential box probe a helper:
\* the second helper got the port predicted from the first.
Outrun ==
  \A e \in Ends :
    /\ pair.nat[e] = SymmetricSequential
    /\ Cardinality({addr \in UNION {m.allowed : m \in nat[e].maps} : Host(addr) = Via /\ addr # ViaAddr}) > 1

\* When nothing is under way any more and nothing went wrong, the ends of a
\* pair in the table are connected and every payload arrived once, whoever began
\* and whatever overtook what, unless both boxes are sequential and both
\* exchanges were helped.
PunchConnects ==
  (/\ Quiet /\ mishaps = 0
   /\ begun # {} /\ ~Outrun
   /\ \E e \in Ends : PunchPrediction(pair.nat[e], pair.nat[Peer(e)]))
  => joined /\ \A e \in begun : arrived[e] = 1

=============================================================================
