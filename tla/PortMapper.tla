----------------------------- MODULE PortMapper -----------------------------
(***************************************************************************)
(* The port-mapping ladder of the overlay (overlay/portmap.rs).            *)
(*                                                                         *)
(* The node asks its LAN gateway for a mapping of the overlay port, over   *)
(* PCP, then NAT-PMP, then UPnP, and for an IPv6 pinhole over PCP.  What   *)
(* is granted is a lease: it is renewed at half its life through the       *)
(* protocol that granted it, and withdrawn when it runs out.  A rung of    *)
(* the ladder is tried StepAttempts times; when every rung has failed the  *)
(* ladder is started over LadderRetry later.                               *)
(*                                                                         *)
(* Instants are represented by the time that is left until they come.  The *)
(* host is dual-stack: without an IPv6 socket there is no pinhole to drive.*)
(* Addresses are left out: what matters of a mapping is who granted it and *)
(* for how long.                                                           *)
(*                                                                         *)
(* The gateway answers requests in the protocols it speaks.  Datagrams are *)
(* lost and late, but as long as nothing out of the ordinary happens at    *)
(* least one of the StepAttempts requests of a rung is answered in time.   *)
(* What is out of the ordinary (a refusal, a restart that loses all        *)
(* leases, a rung that goes unanswered, a socket that cannot be opened) is *)
(* called a shock.                                                         *)
(***************************************************************************)
EXTENDS Naturals, FiniteSets

CONSTANTS
  StepTimeout,      \* STEP_TIMEOUT
  StepAttempts,     \* STEP_ATTEMPTS
  TcpTimeout,       \* TCP_TIMEOUT
  LadderRetry,      \* LADDER_RETRY
  MinLease,         \* MIN_LEASE
  Lease,            \* [protocol -> lifetime the gateway grants], "upnp" being
                    \* granted REQUEST_LIFETIME_SECS
  Gateways,         \* sets of protocols a gateway may speak
  MaxDelay,         \* bound: how late an answer may be
  MaxShocks,        \* bound: how many shocks there are
  None              \* Option::None

Protocols == {"pcp", "natpmp", "upnp"}

ASSUME TimesAssumption ==
  {StepTimeout, StepAttempts, TcpTimeout, LadderRetry, MinLease}
    \subseteq Nat \ {0}
ASSUME BoundsAssumption == {MaxDelay, MaxShocks} \subseteq Nat
ASSUME GatewaysAssumption == Gateways \subseteq (SUBSET Protocols) \ {{}}
ASSUME LeaseAssumption ==
  /\ Lease \in [Protocols -> Nat]
  /\ \A p \in Protocols : MinLease <= Lease[p]
\* All attempts of a rung fit into half a lease (2 * 2 s < 15 s / 2), and a TCP
\* exchange into half a UPnP lease (4 s < 3600 s / 2).
ASSUME RenewalAssumption ==
  /\ 2 * StepAttempts * StepTimeout < MinLease
  /\ 2 * TcpTimeout < Lease["upnp"]

VARIABLES
  phase,      \* the ladder: what it waits for, which attempt, for how long
  mapped,     \* None, or the protocol and what is left of the IPv4 lease
  pin_phase,  \* the same for the IPv6 pinhole, which only PCP can grant
  pinhole,
  bound,      \* the gateway socket is open
  net,        \* answers under way, each with the time until it arrives
  speaks,     \* the protocols the gateway speaks
  leases,     \* what is left of the leases the gateway remembers granting
  shocks      \* how many shocks there have been

vars == <<phase, mapped, pin_phase, pinhole, bound, net, speaks, leases, shocks>>

-----------------------------------------------------------------------------
(* The ladder.                                                             *)

Udp == {"pcp", "natpmp_external", "natpmp_map", "ssdp"}
Tcp == {"upnp_describe", "upnp_external", "upnp_map"}

Idle(t) == [at |-> "idle", attempt |-> 0, left |-> t]

ProtocolOf(k) ==
  CASE k \in {"pcp", "pin"}                      -> "pcp"
    [] k \in {"natpmp_external", "natpmp_map"}   -> "natpmp"
    [] OTHER                                     -> "upnp"

\* The requests by which a lease is granted.
Grants == {"pcp", "natpmp_map", "upnp_map", "pin"}

\* start_ladder_or_renew: a lease is renewed by the protocol that granted it.
\* A UPnP lease implies that the control URL is known.
FirstRung(m) ==
  CASE m = None                           -> "pcp"
    [] m # None /\ m.protocol = "pcp"     -> "pcp"
    [] m # None /\ m.protocol = "natpmp"  -> "natpmp_map"
    [] m # None /\ m.protocol = "upnp"    -> "upnp_map"

\* What follows a rung that was refused or went unanswered.
RungAfter(k) ==
  CASE k = "pcp"                               -> "natpmp_external"
    [] k \in {"natpmp_external", "natpmp_map"} -> "ssdp"
    [] OTHER                                   -> "failed"

\* What follows a step that was answered, unless it was the grant.
StepAfter(k) ==
  CASE k = "natpmp_external" -> "natpmp_map"
    [] k = "ssdp"            -> "upnp_describe"
    [] k = "upnp_describe"   -> "upnp_external"
    [] k = "upnp_external"   -> "upnp_map"

-----------------------------------------------------------------------------
(* Requests and the gateway (external).                                    *)

\* What becomes of attempt n at request k: the answers that will arrive, and
\* whether this is a shock.  A refusal is an error result or a lease below
\* MIN_LEASE; a protocol that is not spoken is refused or ignored.  Nobody
\* refuses a search, and an answer that does not parse is like none.
Answer(k, ok, due) == [kind |-> k, ok |-> ok, due |-> due]

Fates(k, n) ==
  LET spoken == ProtocolOf(k) \in speaks
      timely == IF k \in Tcp THEN 0 .. (TcpTimeout - 1) ELSE 0 .. (StepTimeout - 1)
      unanswered == IF spoken /\ (k \in Tcp \/ n + 1 = StepAttempts) THEN 1 ELSE 0
      fate(ms, x) == [answers |-> ms, shock |-> x]
  IN {fate({}, unanswered)}
     \cup (IF k # "ssdp"
           THEN {fate({Answer(k, FALSE, 0)}, IF spoken THEN 1 ELSE 0)}
           ELSE {})
     \cup (IF spoken
           THEN {fate({Answer(k, TRUE, d)}, IF d \in timely THEN 0 ELSE unanswered) :
                   d \in 0 .. MaxDelay}
           ELSE {})

\* The leases after these answers were sent.
Renewed(answers) ==
  [l \in DOMAIN leases |->
     IF \E m \in answers : m.ok /\ m.kind \in Grants /\ l =
          (IF m.kind = "pin" THEN "pin" ELSE ProtocolOf(m.kind))
     THEN Lease[IF l = "pin" THEN "pcp" ELSE l]
     ELSE leases[l]]

\* The outcomes of going to rung k: the new phase, answers, shocks.  Without a
\* socket, or a TCP connection, the ladder has failed.
Failed(ph, x) == [phase |-> ph, answers |-> {}, shock |-> x, bound |-> bound]

Sent(k, n, timeout) ==
  {[phase |-> [at |-> k, attempt |-> n, left |-> timeout],
    answers |-> f.answers, shock |-> f.shock, bound |-> bound \/ k \notin Tcp] :
     f \in Fates(k, n)}

Try(k, n) ==
  CASE k = "failed" -> {Failed(Idle(LadderRetry), 0)}
    [] k \in Udp \cup {"pin"} ->
         Sent(k, n, StepTimeout)
           \cup (IF bound THEN {} ELSE {Failed(Idle(LadderRetry), 1)})
    [] k \in Tcp ->
         Sent(k, n, TcpTimeout)
           \cup {Failed(Idle(LadderRetry), IF "upnp" \in speaks THEN 1 ELSE 0)}

\* A connection that is closed delivers nothing more.
Open(ph, ms) == {m \in ms : m.kind \in Tcp => m.kind = ph.at}

\* A step of the ladder (a) and one of the pinhole (b) take effect.
Stay(ph) == [phase |-> ph, answers |-> {}, shock |-> 0, bound |-> bound]

Effect(a, b, ms) ==
  /\ phase' = a.phase
  /\ pin_phase' = b.phase
  /\ bound' = (a.bound \/ b.bound)
  /\ net' = Open(a.phase, ms) \cup a.answers \cup b.answers
  /\ leases' = Renewed(a.answers \cup b.answers)
  /\ shocks' = shocks + a.shock + b.shock
  /\ shocks' <= MaxShocks

-----------------------------------------------------------------------------
(* on_timer.                                                               *)

\* Mutant: a lease that has run out is kept.
UnexpiredKept(m) == m

\* A lease that has run out is withdrawn.
Unexpired(m) == IF m # None /\ m.left = 0 THEN None ELSE m

Again(ph) == ph.attempt + 1 < StepAttempts

\* Mutant: the last attempt is waited for again and again.
DrivePhaseStuck(m) ==
  IF phase.left > 0 THEN {Stay(phase)}
  ELSE IF phase.at = "idle" THEN Try(FirstRung(m), 0)
  ELSE IF phase.at \in Udp /\ Again(phase) THEN Try(phase.at, phase.attempt + 1)
  ELSE IF phase.at \in Udp THEN {Stay(phase)}
  ELSE Try("failed", 0)

\* drive_phase, with the lease m.
DrivePhase(m) ==
  IF phase.left > 0 THEN {Stay(phase)}
  ELSE IF phase.at = "idle" THEN Try(FirstRung(m), 0)
  ELSE IF phase.at \in Udp /\ Again(phase) THEN Try(phase.at, phase.attempt + 1)
  ELSE Try(RungAfter(phase.at), 0)

\* Mutant: the pinhole is asked for under the nonce of the IPv4 mapping.
DrivePinholeNonce ==
  IF pin_phase.left > 0 THEN {Stay(pin_phase)} ELSE Try("pcp", 0)

\* drive_pinhole and send_pinhole.
DrivePinhole ==
  IF pin_phase.left > 0 THEN {Stay(pin_phase)}
  ELSE IF pin_phase.at = "idle" THEN Try("pin", 0)
  ELSE IF Again(pin_phase) THEN Try("pin", pin_phase.attempt + 1)
  ELSE Try("failed", 0)

\* The socket could not be opened.  One that drive_phase has opened serves
\* drive_pinhole too.
Unbound(r) == r.phase.at = "idle" /\ r.shock = 1

\* The core calls on_timer at poll_timeout, and whenever it has another timer.
OnTimer ==
  /\ mapped' = Unexpired(mapped)
  /\ pinhole' = Unexpired(pinhole)
  /\ \E a \in DrivePhase(mapped'), b \in DrivePinhole :
       /\ a.bound => ~Unbound(b)
       /\ Effect(a, b, net)
  /\ UNCHANGED speaks

\* The time until poll_timeout.
PollTimeout == IF phase.left < pin_phase.left THEN phase.left ELSE pin_phase.left

-----------------------------------------------------------------------------
(* on_datagram and on_tcp_event.                                           *)

\* Mutant: the lifetime asked for is taken to be granted.
LifeAsked(p) == Lease["upnp"]

\* The lifetime an answer grants.
Life(p) == Lease[p]

\* Mutant: a lease is renewed only when it has run out.
RenewAtEnd(p) == Idle(Lease[p])

\* Half the lease.
RenewAt(p) == Idle(Lease[p] \div 2)

\* grant.
Granted(p) == [protocol |-> p, left |-> Life(p)]

\* An answer to the ladder's current request.
LadderAnswered(m) ==
  /\ m \in net
  /\ m.due = 0
  /\ m.kind = phase.at
  /\ IF m.ok /\ m.kind \in Grants
     THEN /\ mapped' = Granted(ProtocolOf(m.kind))
          /\ Effect(Stay(RenewAt(ProtocolOf(m.kind))), Stay(pin_phase), net \ {m})
     ELSE /\ UNCHANGED mapped
          /\ \E a \in Try(IF m.ok THEN StepAfter(m.kind) ELSE RungAfter(m.kind), 0) :
               Effect(a, Stay(pin_phase), net \ {m})
  /\ UNCHANGED <<pinhole, speaks>>

\* An answer about the pinhole is taken whatever the phase.
PinholeAnswered(m) ==
  /\ m \in net
  /\ m.due = 0
  /\ m.kind = "pin"
  /\ pinhole' = IF m.ok THEN Granted("pcp") ELSE pinhole
  /\ Effect(Stay(phase),
            Stay(IF m.ok THEN RenewAt("pcp") ELSE Idle(LadderRetry)), net \ {m})
  /\ UNCHANGED <<mapped, speaks>>

\* Any other answer comes too late and is dropped.
Inert(m) ==
  /\ m \in net
  /\ m.due = 0
  /\ m.kind \notin {phase.at, "pin"}
  /\ net' = net \ {m}
  /\ UNCHANGED <<phase, mapped, pin_phase, pinhole, bound, speaks, leases, shocks>>

-----------------------------------------------------------------------------
(* Time and the gateway (external).                                        *)

Less(n) == IF n = 0 THEN 0 ELSE n - 1

Passed(r) == IF r = None THEN None ELSE [r EXCEPT !.left = Less(@)]

\* Time passes when nothing is due: timers and answers are served on time.
Tick ==
  /\ PollTimeout > 0
  /\ \A m \in net : m.due > 0
  /\ phase' = Passed(phase)
  /\ pin_phase' = Passed(pin_phase)
  /\ mapped' = Passed(mapped)
  /\ pinhole' = Passed(pinhole)
  /\ net' = {[m EXCEPT !.due = @ - 1] : m \in net}
  /\ leases' =
       [l \in DOMAIN leases |-> IF leases[l] = None THEN None ELSE Less(leases[l])]
  /\ UNCHANGED <<bound, speaks, shocks>>

\* The gateway is restarted or replaced, and remembers nothing.
GatewayRestarts ==
  /\ shocks < MaxShocks
  /\ shocks' = shocks + 1
  /\ speaks' \in Gateways
  /\ leases' = [l \in DOMAIN leases |-> None]
  /\ UNCHANGED <<phase, mapped, pin_phase, pinhole, bound, net>>

Init ==
  /\ phase = Idle(0)
  /\ mapped = None
  /\ pin_phase = Idle(0)
  /\ pinhole = None
  /\ bound = FALSE
  /\ net = {}
  /\ speaks \in Gateways
  /\ leases = [l \in Protocols \cup {"pin"} |-> None]
  /\ shocks = 0

Delivery ==
  \E m \in net : LadderAnswered(m) \/ PinholeAnswered(m) \/ Inert(m)

Next == OnTimer \/ Delivery \/ Tick \/ GatewayRestarts

\* The driver serves timers and sockets, and time passes.
Fairness ==
  /\ WF_vars(OnTimer)
  /\ WF_vars(Delivery)
  /\ WF_vars(Tick)

Spec == Init /\ [][Next]_vars /\ Fairness

-----------------------------------------------------------------------------
(* Properties.                                                             *)

Phases(kinds) == [at : kinds, attempt : Nat, left : Nat]

Leases == [protocol : Protocols, left : Nat] \cup {None}

ASSUME NoneAssumption ==
  None \notin [protocol : Protocols, left : Nat]
                \cup Phases({"idle", "pin"} \cup Udp \cup Tcp)

\* Every variable has its type.
TypeOK ==
  /\ phase \in Phases({"idle"} \cup Udp \cup Tcp)
  /\ mapped \in Leases
  /\ pin_phase \in Phases({"idle", "pin"})
  /\ pinhole \in Leases
  /\ bound \in BOOLEAN
  /\ net \subseteq
       [kind : Udp \cup Tcp \cup {"pin"}, ok : BOOLEAN, due : Nat]
  /\ speaks \in Gateways
  /\ leases \in [Protocols \cup {"pin"} -> Nat \cup {None}]
  /\ shocks \in 0 .. MaxShocks

Covers(l, m) == leases[l] # None => m.left <= leases[l] + MaxDelay

\* mapped_external and pinhole_active offer nothing that the gateway has
\* dropped, however answers are delayed and whichever rung granted it: what the
\* node takes to be left of a lease is at most an answer's delay more than what
\* is left of it at a gateway that has not been restarted.
OfferedIsLeased ==
  /\ mapped # None => Covers(mapped.protocol, mapped)
  /\ pinhole # None => Covers("pin", pinhole)

\* "Leases are renewed at half-life": unless there is a shock, neither lease
\* ever runs out, although requests and answers are lost and late.
NeverLapses ==
  shocks = 0 =>
    /\ mapped # None => mapped.left > 0
    /\ pinhole # None => pinhole.left > 0

\* "a past deadline here would spin the driver" (poll_timeout): once on_timer
\* has been called, the next deadline lies ahead.
NoSpin == [][OnTimer => PollTimeout' > 0]_vars

Offered(m) == m # None /\ m.left > 0

\* Whatever befalls the gateway, in the end a mapping is offered for good, and
\* a pinhole too if the gateway speaks PCP: the ladder never stops, nor does
\* it keep renewing a lease through a protocol that is no longer spoken.
LadderRecovers ==
  <>[](Offered(mapped) /\ ("pcp" \in speaks => Offered(pinhole)))
=============================================================================
