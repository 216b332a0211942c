------------------------------- MODULE NatBox -------------------------------
(***************************************************************************)
(* The NAT box and the stateful IPv6 firewall in front of a host           *)
(* (overlay/sim/nat.rs), one level deep, as functions of their state.  An  *)
(* address is <<host, network, port>>: network 0 is the host's own, a      *)
(* number above it the public one, which changes with every generation of  *)
(* the box (odd for IPv4, even for IPv6).  Idle timeouts do not run: the   *)
(* keep-alives of the overlay's connections refresh what it uses.          *)
(***************************************************************************)
EXTENDS Naturals, FiniteSetsExt

CONSTANTS Lo, Hi   \* NatConfig::port_range

ASSUME RangeAssumption == Lo \in Nat /\ Hi \in Nat /\ 0 < Lo /\ Lo <= Hi

NoAddr == <<>>
Addrs == Nat \X Nat \X Nat
IsAddr(addr) == addr = NoAddr \/ addr \in Addrs
Host(addr) == addr[1]
Ip(addr) == <<addr[1], addr[2]>>
Port(addr) == addr[3]
WithPort(addr, port) == <<addr[1], addr[2], port>>

-----------------------------------------------------------------------------
\* MappingKey ("None" without a NAT), Allocator and Filtering.
NatConfigs ==
  [mapping : {"None", "EndpointIndependent", "DstAddr", "DstPort", "DstAddrPort"},
   allocator : [walk : {"Sequential", "Preserving", "Random"}, stride : Nat \ {0}],
   filtering : {"EndpointIndependent", "AddressRestricted", "PortRestricted"}]

NatConfig(mapping, allocator, filtering) ==
  [mapping |-> mapping, allocator |-> allocator, filtering |-> filtering]

Sequential(stride) == [walk |-> "Sequential", stride |-> stride]
Preserving == [walk |-> "Preserving", stride |-> 1]
Random == [walk |-> "Random", stride |-> 1]

FullCone == NatConfig("EndpointIndependent", Preserving, "EndpointIndependent")
RestrictedCone == NatConfig("EndpointIndependent", Preserving, "AddressRestricted")
PortRestrictedCone == NatConfig("EndpointIndependent", Preserving, "PortRestricted")
FieldNoteFiber == NatConfig("DstPort", Sequential(1), "PortRestricted")
SymmetricSequential == NatConfig("DstAddrPort", Sequential(1), "PortRestricted")
SymmetricRandom == NatConfig("DstAddrPort", Random, "PortRestricted")
SymmetricPreserving == NatConfig("DstAddrPort", Preserving, "PortRestricted")

\* No rewriting: a firewall with its flows and pinholes, and a host without.
Firewall == NatConfig("None", Preserving, "PortRestricted")
Public == NatConfig("None", Preserving, "EndpointIndependent")

\* A mapping remembers the endpoints it has been used toward.
NewBox(config) ==
  [config |-> config, net |-> 1, maps |-> {}, next |-> Lo, static |-> {}]

\* The socket of a host with the primary port, behind this box.
Local(box, host, port) ==
  <<host, IF box.config.mapping = "None" THEN box.net ELSE 0, port>>

MapKey(config, dst) ==
  <<IF config.mapping \in {"DstAddr", "DstAddrPort"} THEN Ip(dst) ELSE NoAddr,
    IF config.mapping \in {"DstPort", "DstAddrPort"} THEN Port(dst) ELSE 0>>

-----------------------------------------------------------------------------
(* Allocation of external ports.                                           *)

\* port_available: mappings of one socket may share a port it preserves.
PortAvailable(box, port, share) ==
  \A m \in box.static \cup box.maps : m.port = port => m.internal = share

\* The cursor of a sequential pool after k steps.
Walked(box, k) ==
  Lo + (((box.next - Lo) + k * box.config.allocator.stride) % (Hi - Lo + 1))

\* allocate_port: the ports it may choose, and where the cursor is then.
AllocatePort(box, src) ==
  LET walk == box.config.allocator.walk
      free == {p \in Lo .. Hi : PortAvailable(box, p, NoAddr)}
      steps == {k \in 0 .. Hi - Lo : Walked(box, k) \in free}
  IN IF box.config.mapping = "None" THEN {[port |-> Port(src), next |-> box.next]}
     ELSE IF walk = "Preserving" /\ Port(src) \in Lo .. Hi /\ PortAvailable(box, Port(src), src)
     THEN {[port |-> Port(src), next |-> box.next]}
     ELSE IF walk = "Random" THEN {[port |-> p, next |-> box.next] : p \in free}
     ELSE IF steps = {} THEN {}
     ELSE {[port |-> Walked(box, Min(steps)), next |-> Walked(box, Min(steps) + 1)]}

-----------------------------------------------------------------------------
(* Datagrams.                                                              *)

External(box, src, port) == <<Host(src), box.net, port>>

\* NatBox::outbound, FirewallBox::outbound: what the box may become and the
\* source the world sees; nothing when the pool is exhausted.  A lease pins its
\* socket to the leased port, and a mapping in use is used again.
Outbound(box, src, dst) ==
  LET key == MapKey(box.config, dst)
      lease == {m.port : m \in {l \in box.static : l.internal = src}}
      live == {m \in box.maps : m.internal = src /\ m.key = key}
      Used(m) == [m EXCEPT !.allowed = @ \cup {dst}]
      New(port) == [internal |-> src, key |-> key, port |-> port, allowed |-> {dst}]
  IN IF lease # {} /\ box.config.mapping # "None"
     THEN {[box |-> box, src |-> External(box, src, Min(lease))]}
     ELSE IF live # {}
     THEN {[box |-> [box EXCEPT !.maps = (@ \ {m}) \cup {Used(m)}],
            src |-> External(box, src, m.port)] : m \in live}
     ELSE {[box |-> [box EXCEPT !.maps = @ \cup {New(p.port)}, !.next = p.next],
            src |-> External(box, src, p.port)] : p \in AllocatePort(box, src)}

Passes(config, mapping, src) ==
  \/ config.filtering = "EndpointIndependent"
  \/ config.filtering = "AddressRestricted" /\ \E a \in mapping.allowed : Ip(a) = Ip(src)
  \/ config.filtering = "PortRestricted" /\ src \in mapping.allowed

\* NatBox::inbound, FirewallBox::inbound: the socket a datagram reaches, if any.
Inbound(box, src, dst) ==
  LET leased == {m.internal : m \in {l \in box.static : l.port = Port(dst)}}
      passed == {m.internal : m \in {l \in box.maps : l.port = Port(dst) /\ Passes(box.config, l, src)}}
      found == IF leased # {} THEN leased ELSE passed
  IN IF dst[2] # box.net THEN NoAddr
     ELSE IF box.config = Public THEN dst
     ELSE IF found = {} THEN NoAddr ELSE CHOOSE a \in found : TRUE

-----------------------------------------------------------------------------
\* install_static and install_pinhole: the requested port, or the next that is
\* free; the box as it is when none is.
InstallStatic(box, internal, requested) ==
  LET Candidate(k) == Lo + (((requested - Lo) + k) % (Hi - Lo + 1))
      Free(k) == /\ \A m \in box.static : m.port # Candidate(k)
                 /\ PortAvailable(box, Candidate(k), internal)
      steps == {k \in 0 .. Hi - Lo : Free(k)}
  IN IF steps = {} THEN box
     ELSE [box EXCEPT !.static = @ \cup {[port |-> Candidate(Min(steps)), internal |-> internal]}]

RemoveStatic(box, internal) ==
  [box EXCEPT !.static = {m \in @ : m.internal # internal}]

\* The box starts anew under another address.
Renumbered(box) == [NewBox(box.config) EXCEPT !.net = box.net + 2]

=============================================================================
