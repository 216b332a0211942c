-------------------------- MODULE OverlayDialBack --------------------------
(***************************************************************************)
(* How a node learns that it may advertise itself as Direct                *)
(* (overlay/service.rs): its peers report the addresses they see it at, it *)
(* derives candidates from the reports and from its gateway lease, and has *)
(* a helper dial each one from a fresh socket (the probe connections of    *)
(* overlay/transport.rs).  One requester behind a NAT box for IPv4 and,    *)
(* when it has IPv6, a firewall; its helpers are public.  Frames ride      *)
(* unreliable datagrams: one that is never handled is lost.  Deadlines may *)
(* pass at any moment.                                                     *)
(***************************************************************************)
EXTENDS AddressDiscovery

CONSTANTS
  Helpers,         \* public peers, in the order of their identities
  HelperPort,      \* the port each listens on
  Settings,        \* [v4 |-> its NAT, v6 |-> whether it has IPv6, gateway |-> what that grants]
  Me, MyPort,      \* the requester and the port it binds
  Stranger,        \* an address the requester never talks to
  MaxHelperProbes,
  MaxRequests,     \* bound: cycles of requests
  MaxFaults        \* bound: losses of connections and renumberings

VARIABLES
  setting,
  box,        \* the boxes by family
  link,       \* the address each helper's connection is keyed by, by family
  index,      \* by_pubkey: the family of the connection to a helper, or 0
  obs,        \* discovery and discovery_v6
  lease,      \* mapped_external: the port the gateway granted, or 0
  pending,    \* dialback_pending
  confirmed,  \* confirmed_direct, confirmed_portmap, confirmed_v6
  probed,     \* history: the address the confirming helper dialled
  wire,       \* frames under way
  probes,     \* helper_probes
  ephemeral,  \* the short-lived sockets of each helper
  asked, faults

dialBackVars == <<setting, box, link, index, obs, lease, pending, confirmed,
                  probed, wire, probes, ephemeral, asked, faults>>

V4 == 4
V6 == 6
Families == {V4, V6}
Kinds == {"Observed", "PortMapped", "V6"}
NoGateway == "none"

\* What a gateway may grant.
Real == "real"
Hollow == "hollow"    \* a grant on an inner hop that opens nothing outside

\* Peers listen below the ports that the system gives out.
ASSUME HelpersAssumption ==
  /\ Helpers \subseteq Nat /\ IsFiniteSet(Helpers)
  /\ HelperPort \in [Helpers -> 1 .. 100]
ASSUME SettingsAssumption ==
  /\ Settings # {}
  /\ Settings \subseteq [v4 : NatConfigs, v6 : BOOLEAN, gateway : {NoGateway, Real, Hollow}]
ASSUME DialBackAssumption ==
  Me \in Nat /\ MyPort \in Nat \ {0} /\ {MaxHelperProbes, MaxRequests, MaxFaults} \subseteq Nat

HelperAddr(m, f) == <<m, f, HelperPort[m]>>
Mine(f) == Local(box[f], Me, MyPort)
Linked(f) == {m \in Helpers : link[f][m] # NoAddr}
Indexed == {m \in Helpers : index[m] # 0}

-----------------------------------------------------------------------------
(* Candidates.                                                             *)

\* An observation is tagged with the address its frame came from.
Tagged(f) ==
  LET From(o) == CHOOSE m \in Helpers : HelperAddr(m, f) = o
  IN [o \in {HelperAddr(m, f) : m \in Helpers} |-> obs[f][From(o)]]

\* The leased port at the address the world sees, or at the gateway's claim.
MappedExternal ==
  LET ip == ExternalIp(Tagged(V4))
  IN IF lease = 0 THEN NoAddr
     ELSE IF ip # NoAddr THEN <<ip[1], ip[2], lease>>
     ELSE <<Me, IF setting.gateway = Real THEN box[V4].net ELSE 0, lease>>

ObservedCandidate(f) == ConsistentMapping(Mine(f), Tagged(f))

Candidate(kind) ==
  CASE kind = "Observed" -> ObservedCandidate(V4)
    [] kind = "PortMapped" -> IF MappedExternal = ObservedCandidate(V4) THEN NoAddr ELSE MappedExternal
    [] kind = "V6" -> IF setting.v6 THEN ObservedCandidate(V6) ELSE NoAddr

\* compute_reachability: the Direct addresses, the v6 one first.
DirectAddrs ==
  LET Some(addr) == IF addr = NoAddr THEN <<>> ELSE <<addr>>
  IN Some(confirmed["V6"])
       \o Some(IF confirmed["Observed"] # NoAddr THEN confirmed["Observed"] ELSE confirmed["PortMapped"])

-----------------------------------------------------------------------------
InitDialBack(chosen) ==
  /\ setting = chosen
  /\ box = [f \in Families |->
              IF f = V4 THEN NewBox(setting.v4) ELSE [NewBox(Firewall) EXCEPT !.net = 2]]
  /\ link = [f \in Families |-> [m \in Helpers |-> NoAddr]]
  /\ index = [m \in Helpers |-> 0]
  /\ obs = [f \in Families |-> [m \in Helpers |-> NoAddr]]
  /\ lease = 0
  /\ pending = {}
  /\ confirmed = [k \in Kinds |-> NoAddr]
  /\ probed = [k \in Kinds |-> NoAddr]
  /\ wire = {}
  /\ probes = [m \in Helpers |-> {}]
  /\ ephemeral = [m \in Helpers |-> {}]
  /\ asked = 0
  /\ faults = 0

-----------------------------------------------------------------------------
(* Connections and what peers report over them.                            *)

\* maybe_probe_v6 stops once the v6 path is confirmed.
MayDial(f) == f = V4 \/ (setting.v6 /\ confirmed["V6"] = NoAddr)

\* send_address_observation goes by identity, whichever connection that is.
Observation(m, addr, f) == [type |-> "AddressObservation", helper |-> m, family |-> f, addr |-> addr]

\* A dial completes: the helper keys the connection by the source it sees and
\* reports it.  Only the first connection to a peer is indexed by identity.
Connect(f, m) ==
  /\ MayDial(f) /\ m \notin Linked(f)
  /\ \E out \in Outbound(box[f], Mine(f), HelperAddr(m, f)) :
       /\ box' = [box EXCEPT ![f] = out.box]
       /\ link' = [link EXCEPT ![f][m] = out.src]
       /\ wire' = wire \cup {Observation(m, out.src, f)}
  /\ index' = [index EXCEPT ![m] = IF @ = 0 THEN f ELSE @]
  /\ UNCHANGED <<setting, obs, lease, pending, confirmed, probed, probes, ephemeral, asked, faults>>

\* broadcast_observations: the indexed connection's address, again; telling the
\* requester what it knows changes nothing and is left out.
BroadcastObservations(m) ==
  /\ m \in Indexed
  /\ obs[index[m]][m] # link[index[m]][m]
  /\ wire' = wire \cup {Observation(m, link[index[m]][m], index[m])}
  /\ UNCHANGED <<setting, box, link, index, obs, lease, pending, confirmed, probed,
                 probes, ephemeral, asked, faults>>

\* AddressObservation, in the store of the family it speaks of.
HandleAddressObservation(frame) ==
  /\ frame.type = "AddressObservation"
  /\ frame.helper \in Indexed
  /\ obs' = [obs EXCEPT ![frame.family][frame.helper] = frame.addr]
  /\ wire' = wire \ {frame}
  /\ UNCHANGED <<setting, box, link, index, lease, pending, confirmed, probed,
                 probes, ephemeral, asked, faults>>

-----------------------------------------------------------------------------
(* The requester.                                                          *)

\* Of a v6 candidate a helper with a v6 connection, asked over that; of the
\* others the first helper there is, by identity.
HelpersFor(kind) == IF kind = "V6" THEN Linked(V6) ELSE Indexed
Rides(kind, m) == IF kind = "V6" THEN V6 ELSE index[m]

\* Confirmations that outlived their candidate are dropped.
StillConfirmed(kind) == IF confirmed[kind] = Candidate(kind) THEN confirmed[kind] ELSE NoAddr

\* request_dialback, maybe_request_dialback_v6: one request per kind at a time.
Wanted == {k \in Kinds : /\ StillConfirmed(k) = NoAddr
                         /\ Candidate(k) # NoAddr
                         /\ \A p \in pending : p.kind # k
                         /\ HelpersFor(k) # {}}

Nonce(kind) == <<asked + 1, kind>>

DialBackRequest(kind) ==
  LET helper == Min(HelpersFor(kind))
  IN [type |-> "DialBackRequest", helper |-> helper, nonce |-> Nonce(kind),
      from |-> link[Rides(kind, helper)][helper], family |-> Rides(kind, helper),
      port |-> IF kind = "PortMapped" THEN Port(Candidate(kind)) ELSE 0]

\* maybe_request_dialback, in the advert cycle.
MaybeRequestDialback ==
  /\ asked < MaxRequests
  /\ Wanted # {} \/ \E k \in Kinds : StillConfirmed(k) # confirmed[k]
  /\ confirmed' = [k \in Kinds |-> StillConfirmed(k)]
  /\ pending' = pending \cup {[kind |-> k, nonce |-> Nonce(k), candidate |-> Candidate(k)] : k \in Wanted}
  /\ wire' = wire \cup {DialBackRequest(k) : k \in Wanted}
  /\ asked' = asked + 1
  /\ UNCHANGED <<setting, box, link, index, obs, lease, probed, probes, ephemeral, faults>>

\* A verdict for a nonce still pending confirms the candidate it was asked of.
HandleDialbackResult(frame) ==
  /\ frame.type = "DialBackResult"
  /\ wire' = wire \ {frame}
  /\ LET answered == {p \in pending : p.nonce = frame.nonce}
         Of(k) == {p \in answered : frame.ok /\ p.kind = k}
     IN /\ pending' = pending \ answered
        /\ confirmed' = [k \in Kinds |-> IF Of(k) = {} THEN confirmed[k]
                                         ELSE (CHOOSE p \in Of(k) : TRUE).candidate]
        /\ probed' = [k \in Kinds |-> IF Of(k) = {} THEN probed[k] ELSE frame.target]
  /\ UNCHANGED <<setting, box, link, index, obs, lease, probes, ephemeral, asked, faults>>

ExpireDialback(p) ==
  /\ pending' = pending \ {p}
  /\ UNCHANGED <<setting, box, link, index, obs, lease, confirmed, probed, wire,
                 probes, ephemeral, asked, faults>>

-----------------------------------------------------------------------------
(* The helper.                                                             *)

\* By identity as well: no result without an indexed connection.
Result(m, nonce, target, ok) ==
  IF m \in Indexed
  THEN {[type |-> "DialBackResult", nonce |-> nonce, target |-> target, ok |-> ok]}
  ELSE {}

\* Mutant: probes leave from the socket the helper talks to the requester on.
FreshSocketShared(m, nonce) == HelperPort[m]

\* env.bind: an ephemeral port of its own for every probe.
FreshSocket(m, nonce) ==
  100 + 4 * nonce[1] + (CASE nonce[2] = "Observed" -> 0 [] nonce[2] = "PortMapped" -> 1 [] OTHER -> 2)

\* handle_dialback_request: refused by the limits (or when no socket can be
\* had), else the requester's own source is dialled, at the port it names.
HandleDialbackRequest(frame, refused) ==
  LET m == frame.helper
      target == IF frame.port = 0 THEN frame.from ELSE WithPort(frame.from, frame.port)
      socket == FreshSocket(m, frame.nonce)
  IN /\ frame.type = "DialBackRequest"
     /\ link[frame.family][m] = frame.from
     /\ Cardinality(probes[m]) >= MaxHelperProbes => refused
     /\ IF refused
        THEN /\ wire' = (wire \ {frame}) \cup Result(m, frame.nonce, target, FALSE)
             /\ UNCHANGED <<probes, ephemeral>>
        ELSE /\ wire' = wire \ {frame}
             /\ ephemeral' = [ephemeral EXCEPT ![m] = @ \cup {socket}]
             /\ probes' = [probes EXCEPT ![m] = @ \cup
                  {[nonce |-> frame.nonce, family |-> frame.family, target |-> target, socket |-> socket]}]
     /\ UNCHANGED <<setting, box, link, index, obs, lease, pending, confirmed, probed, asked, faults>>

\* Mutant: the socket of a probe is not given back.
ConcludeLeaks(m, probe, ok) ==
  /\ wire' = wire \cup Result(m, probe.nonce, probe.target, ok)
  /\ probes' = [probes EXCEPT ![m] = @ \ {probe}]
  /\ ephemeral' = ephemeral

\* on_probe_event and expire_dialbacks: report, and give the socket back.
Conclude(m, probe, ok) ==
  /\ wire' = wire \cup Result(m, probe.nonce, probe.target, ok)
  /\ probes' = [probes EXCEPT ![m] = @ \ {probe}]
  /\ ephemeral' = [ephemeral EXCEPT ![m] = @ \ {probe.socket}]

\* The handshake of a probe completes when the box lets it in to the
\* requester's socket and the answer leaves from the address that was dialled.
OnProbeEvent(m, probe) ==
  LET f == probe.family
      source == <<m, f, probe.socket>>
  IN /\ Inbound(box[f], source, probe.target) = Mine(f)
     /\ \E out \in Outbound(box[f], Mine(f), source) :
          /\ out.src = probe.target
          /\ box' = [box EXCEPT ![f] = out.box]
     /\ Conclude(m, probe, TRUE)
     /\ UNCHANGED <<setting, link, index, obs, lease, pending, confirmed, probed, asked, faults>>

\* expire_dialbacks, of the helper.
ExpireHelperProbe(m, probe) ==
  /\ Conclude(m, probe, FALSE)
  /\ UNCHANGED <<setting, box, link, index, obs, lease, pending, confirmed, probed, asked, faults>>

-----------------------------------------------------------------------------
(* The gateway and the network.                                            *)

\* The gateway grants a lease, and a pinhole in the firewall.
Grant ==
  /\ setting.gateway # NoGateway /\ lease = 0 /\ faults = 0
  /\ LET granted == InstallStatic(box[V4], Mine(V4), MyPort)
         fresh == granted.static \ box[V4].static
     IN IF setting.gateway = Hollow
        THEN lease' = MyPort /\ UNCHANGED box
        ELSE /\ fresh # {}
             /\ lease' = Min({m.port : m \in fresh})
             /\ box' = [box EXCEPT ![V4] = granted,
                                   ![V6] = [@ EXCEPT !.static = {[port |-> MyPort, internal |-> Mine(V6)]}]]
  /\ UNCHANGED <<setting, link, index, obs, pending, confirmed, probed, wire,
                 probes, ephemeral, asked, faults>>

LeaseEnds ==
  /\ lease # 0 /\ faults < MaxFaults
  /\ faults' = faults + 1
  /\ lease' = 0
  /\ box' = [f \in Families |-> RemoveStatic(box[f], Mine(f))]
  /\ UNCHANGED <<setting, link, index, obs, pending, confirmed, probed, wire, probes, ephemeral, asked>>

\* A connection is lost; the index forgets it and does not look for another.
Disconnect(f, m) ==
  /\ m \in Linked(f) /\ faults < MaxFaults
  /\ faults' = faults + 1
  /\ link' = [link EXCEPT ![f][m] = NoAddr]
  /\ index' = [index EXCEPT ![m] = IF @ = f THEN 0 ELSE @]
  /\ wire' = {w \in wire : ~(w.type = "DialBackRequest" /\ w.helper = m /\ w.family = f)}
  /\ UNCHANGED <<setting, box, obs, lease, pending, confirmed, probed, probes, ephemeral, asked>>

\* The box gets another address: connections migrate, and keep their keys.
Renumber(f) ==
  /\ faults < MaxFaults /\ Linked(f) # {}
  /\ faults' = faults + 1
  /\ box' = [box EXCEPT ![f] = Renumbered(@)]
  /\ lease' = IF f = V4 THEN 0 ELSE lease
  /\ UNCHANGED <<setting, link, index, obs, pending, confirmed, probed, wire, probes, ephemeral, asked>>

NextDialBack ==
  \/ \E f \in Families, m \in Helpers : Connect(f, m) \/ Disconnect(f, m)
  \/ \E m \in Helpers : BroadcastObservations(m)
  \/ \E frame \in wire : \/ HandleAddressObservation(frame)
                         \/ HandleDialbackResult(frame)
  \/ \E frame \in wire, refused \in BOOLEAN : HandleDialbackRequest(frame, refused)
  \/ MaybeRequestDialback
  \/ \E p \in pending : ExpireDialback(p)
  \/ \E m \in Helpers : \E probe \in probes[m] : OnProbeEvent(m, probe) \/ ExpireHelperProbe(m, probe)
  \/ Grant \/ LeaseEnds
  \/ \E f \in Families : Renumber(f)

-----------------------------------------------------------------------------
(* What dial-back promises.                                                *)

\* Every short-lived socket of a helper belongs to a probe that will close it.
SocketsOwned ==
  \A m \in Helpers : ephemeral[m] = {p.socket : p \in probes[m]}

\* The types of dial-back: an address is one, one request of a kind is pending at
\* a time, and a helper stays within its limit and leaks no socket.
DialBackTypes ==
  /\ index \in [Helpers -> {0} \cup Families]
  /\ \A f \in Families, m \in Helpers : IsAddr(link[f][m]) /\ IsAddr(obs[f][m])
  /\ \A k \in Kinds : IsAddr(confirmed[k])
  /\ \A p, q \in pending : p.kind = q.kind => p = q
  /\ \A m \in Helpers : Cardinality(probes[m]) <= MaxHelperProbes
  /\ asked \in 0 .. MaxRequests /\ faults \in 0 .. MaxFaults
  /\ SocketsOwned

\* An address that is advertised because a helper dialled it, at the box's
\* present address and with the lease it may rest on still held, lets anybody
\* in, whatever the observations say by then.  An address-restricted NAT is the
\* exception: the fresh socket of a helper has the helper's address, which such a
\* filter admits, so the probe passes where a stranger would not.
DirectReachable ==
  \A k \in Kinds :
    LET f == IF k = "V6" THEN V6 ELSE V4
    IN (/\ confirmed[k] \in ToSet(DirectAddrs)
        /\ confirmed[k] = probed[k]
        /\ confirmed[k][2] = box[f].net
        /\ setting.gateway = Real => lease # 0
        /\ box[f].config.filtering # "AddressRestricted")
       => Inbound(box[f], Stranger, confirmed[k]) = Mine(f)

=============================================================================
