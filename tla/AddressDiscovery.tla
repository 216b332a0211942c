-------------------------- MODULE AddressDiscovery --------------------------
(***************************************************************************)
(* What a node infers from the addresses its peers see it at               *)
(* (overlay/discovery.rs, overlay/nat.rs).  The observations of a node are *)
(* a function from the addresses of its observers to what they reported,   *)
(* or NoAddr.                                                              *)
(***************************************************************************)
EXTENDS NatBox, SequencesExt

Unknown == "Unknown"
Observers(obs) == {o \in DOMAIN obs : obs[o] # NoAddr}
Mappings(obs) == {obs[o] : o \in Observers(obs)}

\* classify_observations: by the port of the observer, within and across.
Classify(local, obs) ==
  LET observers == Observers(obs)
      Group(port) == {obs[o] : o \in {p \in observers : Port(p) = port}}
  IN IF Cardinality({Ip(o) : o \in observers}) < 2 THEN Unknown
     ELSE IF \E o \in observers : Cardinality(Group(Port(o))) > 1 THEN "Symmetric"
     ELSE IF Cardinality(Mappings(obs)) > 1 THEN "PortDependent"
     ELSE IF Mappings(obs) = {local} THEN "Public"
     ELSE "EndpointIndependent"

IsEndpointIndependent(class) == class \in {"Public", "EndpointIndependent"}

\* generation_ip: the address most observers report.
ExternalIp(obs) ==
  LET observers == Observers(obs)
      Count(ip) == Cardinality({o \in observers : Ip(obs[o]) = ip})
      ips == {Ip(m) : m \in Mappings(obs)}
  IN IF ips = {} THEN NoAddr
     ELSE CHOOSE ip \in ips : \A q \in ips : Count(q) < Count(ip) \/ (q[2] >= ip[2] /\ Count(q) = Count(ip))

MinCalibrationSamples == 3
Uncalibrated == [walk |-> Unknown, stride |-> 0]

\* calibrate_allocator, of the observations at the external address; ports
\* with one stride between them are taken for a sequential pool.  The
\* first verdict for an external address is kept in the code, one reached with
\* too few samples too; observations that are complete before they are asked
\* about, the only ones this is applied to, give the same verdict every time.
Calibrate(local, obs) ==
  LET generation == ExternalIp(obs)
      ports == {Port(m) : m \in {n \in Mappings(obs) : Ip(n) = generation}}
      first == Min(ports)
      stride == Min(ports \ {first}) - first
  IN IF ports = {} THEN Uncalibrated
     ELSE IF ports = {Port(local)} THEN Preserving
     ELSE IF Cardinality(ports) < MinCalibrationSamples THEN Uncalibrated
     ELSE IF ports = {first + i * stride : i \in 0 .. Cardinality(ports) - 1}
     THEN Sequential(stride)
     ELSE Random

\* consistent_mapping: the candidate for a Direct advert.
ConsistentMapping(local, obs) ==
  IF IsEndpointIndependent(Classify(local, obs)) THEN CHOOSE m \in Mappings(obs) : TRUE
  ELSE NoAddr

\* observed_hints: one mapping for each port observers listen on, in order.
ObservedHints(obs) ==
  LET ports == {Port(o) : o \in Observers(obs)}
      Nth(i) == CHOOSE p \in ports : Cardinality({q \in ports : q < p}) = i - 1
      Some(port) == CHOOSE m \in Mappings(obs) :
                      \E o \in Observers(obs) : Port(o) = port /\ obs[o] = m
  IN [i \in 1 .. Cardinality(ports) |-> Some(Nth(i))]

=============================================================================
