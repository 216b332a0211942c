------------------------- MODULE NatTraversalProofs -------------------------
(***************************************************************************)
(* Proofs about NAT traversal: the port-mapping ladder (PortMapper), for   *)
(* any timeouts, lease lifetimes and gateways, and dial-back and hole      *)
(* punching (OverlayDialBack and OverlayPunch as parts of OverlayPaths),   *)
(* for any helpers, observers, boxes and limits.                           *)
(***************************************************************************)
EXTENDS PortMapper, OverlayPaths, Integers, FiniteSetTheorems, SequenceTheorems,
        NaturalsInduction, WellFoundedInduction, TLAPS

-----------------------------------------------------------------------------
(* The port-mapping ladder.                                                *)

NetKinds == Udp \cup Tcp \cup {"pin"}

NetType == [kind : NetKinds, ok : BOOLEAN, due : Nat]

LeaseNames == Protocols \cup {"pin"}

\* The gateway's lease that request k is about.
LeaseOf(k) == IF k = "pin" THEN "pin" ELSE ProtocolOf(k)

\* An answer that is under way was sent no longer ago than it may be delayed:
\* the gateway's lease has lost no more than that since.
Promises(ls, m) ==
  m.ok /\ m.kind \in Grants /\ ls[LeaseOf(m.kind)] # None =>
    Lease[ProtocolOf(m.kind)] + m.due <= ls[LeaseOf(m.kind)] + MaxDelay

\* What the node and the gateway take to be left of a lease.
LeaseInv ==
  /\ \A m \in net : m.due <= MaxDelay /\ Promises(leases, m)
  /\ mapped # None => mapped.left <= Lease[mapped.protocol]
  /\ pinhole # None => pinhole.left <= Lease["pcp"]

\* The time all attempts at request k take, and those after attempt n.
Whole(k) == IF k \in Tcp THEN TcpTimeout ELSE StepAttempts * StepTimeout

After(n) == (StepAttempts - n - 1) * StepTimeout

\* A grant of k will arrive in less than t.
Coming(ms, k, t) == \E m \in ms : m.kind = k /\ m.ok /\ m.due < t

\* The lease m outlasts its renewal by request k: what is left of it is more
\* than what is left of the wait or of the attempts, and an attempt that
\* nothing follows is answered.
Outlasts(ms, ph, m, k) ==
  \/ /\ ph.at = "idle"
     /\ m.left > ph.left + Whole(k)
  \/ /\ ph.at = k /\ k \in Tcp
     /\ m.left > ph.left
     /\ Coming(ms, k, ph.left)
  \/ /\ ph.at = k /\ k \notin Tcp
     /\ ph.attempt < StepAttempts
     /\ m.left > ph.left + After(ph.attempt)
     /\ ph.attempt + 1 = StepAttempts => Coming(ms, k, ph.left)

\* As long as there was no shock, the gateway grants what it speaks and refuses
\* the rest, and leases are renewed in time.
LapseInv ==
  shocks = 0 =>
    /\ \A m \in net : m.ok <=> ProtocolOf(m.kind) \in speaks
    /\ mapped # None =>
         mapped.protocol \in speaks /\ Outlasts(net, phase, mapped, FirstRung(mapped))
    /\ pinhole # None => "pcp" \in speaks /\ Outlasts(net, pin_phase, pinhole, "pin")

\* The inductive invariant.
IInv ==
  /\ TypeOK
  /\ LeaseInv
  /\ OfferedIsLeased
  /\ LapseInv

-----------------------------------------------------------------------------
(* Requests and rungs.                                                     *)

\* The kinds of requests, one by one.
LEMMA KindsAre ==
  /\ NetKinds = {"pcp", "natpmp_external", "natpmp_map", "ssdp", "upnp_describe",
              "upnp_external", "upnp_map", "pin"}
  /\ \A k \in NetKinds : ProtocolOf(k) \in Protocols
  /\ \A k \in Tcp : ProtocolOf(k) = "upnp"
  BY DEF NetKinds, Udp, Tcp, ProtocolOf, Protocols

\* The times are positive, and every lease lasts.
LEMMA TimesAre ==
  /\ StepTimeout \in Nat /\ StepTimeout > 0
  /\ StepAttempts \in Nat /\ StepAttempts > 0
  /\ TcpTimeout \in Nat /\ TcpTimeout > 0
  /\ LadderRetry \in Nat /\ LadderRetry > 0
  /\ MaxDelay \in Nat /\ MaxShocks \in Nat
  /\ \A p \in Protocols : Lease[p] \in Nat
  BY TimesAssumption, BoundsAssumption, LeaseAssumption

\* What becomes of a request: its answers are about it and not too late, and
\* without a shock a request in a protocol that is spoken is granted, if not
\* this time then by the last attempt.
LEMMA FateIs ==
  ASSUME NEW k \in NetKinds, NEW n \in Nat, NEW f \in Fates(k, n)
  PROVE  /\ f.answers \subseteq NetType
         /\ f.shock \in {0, 1}
         /\ \A m \in f.answers : m.kind = k /\ m.due <= MaxDelay
         /\ f.shock = 0 =>
              \A m \in f.answers : m.ok <=> ProtocolOf(k) \in speaks
         /\ f.shock = 0 /\ ProtocolOf(k) \in speaks /\ k \in Tcp =>
              Coming(f.answers, k, TcpTimeout)
         /\ f.shock = 0 /\ ProtocolOf(k) \in speaks /\ n + 1 = StepAttempts
              /\ k \notin Tcp => Coming(f.answers, k, StepTimeout)
<1>. DEFINE spoken == ProtocolOf(k) \in speaks
            timely == IF k \in Tcp THEN 0 .. (TcpTimeout - 1)
                                   ELSE 0 .. (StepTimeout - 1)
            unanswered == IF spoken /\ (k \in Tcp \/ n + 1 = StepAttempts) THEN 1 ELSE 0
<1>1. \/ f = [answers |-> {}, shock |-> unanswered]
      \/ f = [answers |-> {Answer(k, FALSE, 0)}, shock |-> IF spoken THEN 1 ELSE 0]
      \/ /\ spoken
         /\ \E d \in 0 .. MaxDelay :
              f = [answers |-> {Answer(k, TRUE, d)},
                   shock |-> IF d \in timely THEN 0 ELSE unanswered]
  BY DEF Fates
<1>2. \A ok, d : /\ Answer(k, ok, d).kind = k /\ Answer(k, ok, d).ok = ok
                 /\ Answer(k, ok, d).due = d
                 /\ ok \in BOOLEAN /\ d \in Nat => Answer(k, ok, d) \in NetType
  BY DEF Answer, NetType
<1>3. CASE f = [answers |-> {}, shock |-> unanswered]
  BY <1>3
<1>4. CASE f = [answers |-> {Answer(k, FALSE, 0)}, shock |-> IF spoken THEN 1 ELSE 0]
  <2>1. /\ f.answers = {Answer(k, FALSE, 0)}
        /\ f.shock = IF spoken THEN 1 ELSE 0
    BY <1>4
  <2>2. /\ Answer(k, FALSE, 0) \in NetType
        /\ Answer(k, FALSE, 0).kind = k /\ Answer(k, FALSE, 0).ok = FALSE
        /\ Answer(k, FALSE, 0).due = 0 /\ 0 <= MaxDelay
    <3>1. FALSE \in BOOLEAN /\ 0 \in Nat /\ 0 <= MaxDelay
      BY TimesAre
    <3>. QED
      BY <1>2, <3>1
  <2>3. f.shock \in {0, 1} /\ (f.shock = 0 => ~spoken)
    BY <2>1
  <2>. QED
    BY <2>1, <2>2, <2>3
<1>5. ASSUME spoken, NEW d \in 0 .. MaxDelay,
             f = [answers |-> {Answer(k, TRUE, d)},
                  shock |-> IF d \in timely THEN 0 ELSE unanswered]
      PROVE  /\ f.answers \subseteq NetType
             /\ f.shock \in {0, 1}
             /\ \A m \in f.answers : m.kind = k /\ m.due <= MaxDelay /\ m.ok
             /\ f.shock = 0 /\ k \in Tcp => Coming(f.answers, k, TcpTimeout)
             /\ f.shock = 0 /\ n + 1 = StepAttempts /\ k \notin Tcp
                  => Coming(f.answers, k, StepTimeout)
  <2>1. d \in Nat /\ d <= MaxDelay
    BY <1>5, TimesAre
  <2>2. f.answers = {Answer(k, TRUE, d)}
        /\ f.shock = IF d \in timely THEN 0 ELSE unanswered
    BY <1>5
  <2>3. Answer(k, TRUE, d) \in NetType
    BY <1>2, <2>1
  <2>4. f.shock = 0 /\ (k \in Tcp \/ n + 1 = StepAttempts) => d \in timely
    BY <1>5, <2>2
  <2>5. \A t : d < t => Coming(f.answers, k, t)
    <3>1. /\ Answer(k, TRUE, d) \in f.answers
          /\ Answer(k, TRUE, d).kind = k /\ Answer(k, TRUE, d).ok
          /\ Answer(k, TRUE, d).due = d
      BY <1>2, <2>2
    <3>. QED
      BY <3>1 DEF Coming
  <2>6. f.shock = 0 /\ k \in Tcp => Coming(f.answers, k, TcpTimeout)
    BY <2>1, <2>4, <2>5, TimesAre
  <2>7. f.shock = 0 /\ n + 1 = StepAttempts /\ k \notin Tcp
          => Coming(f.answers, k, StepTimeout)
    BY <2>1, <2>4, <2>5, TimesAre
  <2>8. f.shock \in {0, 1}
    BY <2>2
  <2>9. \A m \in f.answers : m.kind = k /\ m.due <= MaxDelay /\ m.ok
    <3>1. /\ Answer(k, TRUE, d).kind = k /\ Answer(k, TRUE, d).ok
          /\ Answer(k, TRUE, d).due = d
      BY <1>2
    <3>. QED
      BY <2>1, <2>2, <3>1
  <2>. QED
    BY <2>2, <2>3, <2>6, <2>7, <2>8, <2>9
<1>. QED
  BY <1>1, <1>3, <1>4, <1>5

\* The outcome of a step of the ladder or of the pinhole.
Outcomes(kinds) ==
  [phase : Phases(kinds), answers : SUBSET NetType, shock : {0, 1}, bound : BOOLEAN]

\* Going to a rung: the next deadline lies ahead, and without a shock a rung in
\* a protocol that is spoken is gone to.
LEMMA TryIs ==
  ASSUME TypeOK, NEW k \in NetKinds \cup {"failed"}, NEW n \in Nat, NEW r \in Try(k, n)
  PROVE  /\ r \in Outcomes({"idle"} \cup ({k} \ {"failed"}))
         /\ r.phase.left > 0
         /\ \A m \in r.answers : m.kind = r.phase.at /\ m.due <= MaxDelay
         /\ r.shock = 0 =>
              \A m \in r.answers : m.ok <=> ProtocolOf(m.kind) \in speaks
         /\ r.shock = 0 /\ k \in NetKinds /\ ProtocolOf(k) \in speaks =>
              /\ r.phase = [at |-> k, attempt |-> n,
                            left |-> IF k \in Tcp THEN TcpTimeout ELSE StepTimeout]
              /\ k \in Tcp => Coming(r.answers, k, TcpTimeout)
              /\ k \notin Tcp /\ n + 1 = StepAttempts
                   => Coming(r.answers, k, StepTimeout)
<1>. DEFINE T == IF k \in Tcp THEN TcpTimeout ELSE StepTimeout
            ph == [at |-> k, attempt |-> n, left |-> T]
<1>1. bound \in BOOLEAN
  BY DEF TypeOK
<1>2. \/ \E x \in {0, 1} :
           /\ r = Failed(Idle(LadderRetry), x)
           /\ k \in NetKinds /\ ProtocolOf(k) \in speaks => x = 1
      \/ k \in NetKinds /\ r \in Sent(k, n, T)
  <2>1. CASE k = "failed"
    <3>1. Try(k, n) = {Failed(Idle(LadderRetry), 0)}
      BY <2>1 DEF Try, Udp, Tcp
    <3>2. k \notin NetKinds
      BY <2>1, KindsAre
    <3>3. r = Failed(Idle(LadderRetry), 0)
      BY <3>1
    <3>. QED
      BY <3>2, <3>3
  <2>2. CASE k \in Udp \cup {"pin"}
    <3>1. k # "failed" /\ k \notin Tcp /\ k \in NetKinds
      BY <2>2 DEF Udp, Tcp, NetKinds
    <3>2. Try(k, n) = Sent(k, n, StepTimeout)
            \cup (IF bound THEN {} ELSE {Failed(Idle(LadderRetry), 1)})
      BY <2>2, <3>1 DEF Try
    <3>. QED
      BY <3>1, <3>2
  <2>3. CASE k \in Tcp
    <3>1. k # "failed" /\ k \notin Udp \cup {"pin"} /\ k \in NetKinds
      BY <2>3 DEF Udp, Tcp, NetKinds
    <3>2. Try(k, n) = Sent(k, n, TcpTimeout)
            \cup {Failed(Idle(LadderRetry), IF "upnp" \in speaks THEN 1 ELSE 0)}
      BY <2>3, <3>1 DEF Try
    <3>3. ProtocolOf(k) = "upnp"
      BY <2>3, KindsAre
    <3>. QED
      BY <2>3, <3>1, <3>2, <3>3
  <2>. QED
    BY <2>1, <2>2, <2>3 DEF NetKinds
<1>3. ASSUME NEW x \in {0, 1}, r = Failed(Idle(LadderRetry), x),
             k \in NetKinds /\ ProtocolOf(k) \in speaks => x = 1
      PROVE  /\ r \in Outcomes({"idle"} \cup ({k} \ {"failed"}))
             /\ r.phase.left > 0
             /\ r.answers = {} /\ r.shock = x
  <2>1. Idle(LadderRetry) \in Phases({"idle"} \cup ({k} \ {"failed"}))
        /\ Idle(LadderRetry).left = LadderRetry
    BY TimesAre DEF Idle, Phases
  <2>2. /\ r.phase = Idle(LadderRetry) /\ r.answers = {} /\ r.shock = x
        /\ r = [phase |-> Idle(LadderRetry), answers |-> {}, shock |-> x,
                bound |-> bound]
    BY <1>3 DEF Failed
  <2>3. {} \in SUBSET NetType
    OBVIOUS
  <2>4. r \in Outcomes({"idle"} \cup ({k} \ {"failed"}))
    BY <1>1, <2>1, <2>2, <2>3 DEF Outcomes
  <2>. QED
    BY <2>1, <2>2, <2>4, TimesAre
<1>4. ASSUME k \in NetKinds, r \in Sent(k, n, T)
      PROVE  /\ r \in Outcomes({"idle"} \cup ({k} \ {"failed"}))
             /\ r.phase = ph
             /\ r.phase.left > 0
             /\ \A m \in r.answers : m.kind = r.phase.at /\ m.due <= MaxDelay
             /\ r.shock = 0 =>
                  \A m \in r.answers : m.ok <=> ProtocolOf(m.kind) \in speaks
             /\ r.shock = 0 /\ ProtocolOf(k) \in speaks =>
                  /\ k \in Tcp => Coming(r.answers, k, TcpTimeout)
                  /\ k \notin Tcp /\ n + 1 = StepAttempts
                       => Coming(r.answers, k, StepTimeout)
  <2>1. PICK f \in Fates(k, n) :
          r = [phase |-> ph, answers |-> f.answers, shock |-> f.shock,
               bound |-> bound \/ k \notin Tcp]
    BY <1>4 DEF Sent
  <2>2. /\ f.answers \subseteq NetType
        /\ f.shock \in {0, 1}
        /\ \A m \in f.answers : m.kind = k /\ m.due <= MaxDelay
        /\ f.shock = 0 =>
             \A m \in f.answers : m.ok <=> ProtocolOf(k) \in speaks
        /\ f.shock = 0 /\ ProtocolOf(k) \in speaks /\ k \in Tcp =>
             Coming(f.answers, k, TcpTimeout)
        /\ f.shock = 0 /\ ProtocolOf(k) \in speaks /\ n + 1 = StepAttempts
             /\ k \notin Tcp => Coming(f.answers, k, StepTimeout)
    BY <1>4, <2>1, FateIs
  <2>3. T \in Nat /\ T > 0
    BY TimesAre
  <2>4. k # "failed"
    BY <1>4, KindsAre
  <2>. HIDE DEF T
  <2>5. ph \in Phases({"idle"} \cup ({k} \ {"failed"})) /\ ph.left = T /\ ph.at = k
    BY <1>4, <2>3, <2>4 DEF Phases
  <2>. HIDE DEF ph
  <2>6. r.phase = ph /\ r.answers = f.answers /\ r.shock = f.shock
    BY <2>1
  <2>7. r \in Outcomes({"idle"} \cup ({k} \ {"failed"}))
    <3>1. f.answers \in SUBSET NetType /\ (bound \/ k \notin Tcp) \in BOOLEAN
      BY <1>1, <2>2
    <3>. QED
      BY <2>1, <2>2, <2>5, <3>1 DEF Outcomes
  <2>8. \A m \in r.answers : m.kind = r.phase.at /\ m.due <= MaxDelay
    BY <2>2, <2>5, <2>6
  <2>9. r.shock = 0 => \A m \in r.answers : m.ok <=> ProtocolOf(m.kind) \in speaks
    BY <2>2, <2>6
  <2>. QED
    BY <2>2, <2>3, <2>5, <2>6, <2>7, <2>8, <2>9
<1>5. CASE \E x \in {0, 1} :
             /\ r = Failed(Idle(LadderRetry), x)
             /\ k \in NetKinds /\ ProtocolOf(k) \in speaks => x = 1
  BY <1>3, <1>5
<1>6. CASE k \in NetKinds /\ r \in Sent(k, n, T)
  BY <1>4, <1>6
<1>. QED
  BY <1>2, <1>5, <1>6

\* Where the ladder starts and goes on.
LEMMA RungsAre ==
  /\ \A m \in Leases : FirstRung(m) \in {"pcp", "natpmp_map", "upnp_map"}
  /\ \A m \in Leases : m # None => ProtocolOf(FirstRung(m)) = m.protocol
  /\ \A k \in Udp \cup Tcp : RungAfter(k) \in Udp \cup {"failed"}
  /\ \A k \in (Udp \cup Tcp) \ Grants : StepAfter(k) \in Udp \cup Tcp
<1>1. ASSUME NEW m \in Leases
      PROVE  /\ FirstRung(m) \in {"pcp", "natpmp_map", "upnp_map"}
             /\ m # None => ProtocolOf(FirstRung(m)) = m.protocol
  <2>1. CASE m = None
    BY <2>1 DEF FirstRung
  <2>2. CASE m # None
    <3>1. m.protocol \in {"pcp", "natpmp", "upnp"}
      BY <2>2 DEF Leases, Protocols
    <3>. QED
      BY <2>2, <3>1 DEF FirstRung, ProtocolOf
  <2>. QED
    BY <2>1, <2>2
<1>2. \A k \in Udp \cup Tcp : RungAfter(k) \in Udp \cup {"failed"}
  BY DEF Udp, Tcp, RungAfter
<1>3. \A k \in (Udp \cup Tcp) \ Grants : StepAfter(k) \in Udp \cup Tcp
  BY DEF Udp, Tcp, Grants, StepAfter
<1>. QED
  BY <1>1, <1>2, <1>3

\* An outcome that a step of the ladder or of the pinhole may have.
Proper(r, kinds) ==
  /\ r \in Outcomes(kinds)
  /\ \A m \in r.answers : m.kind = r.phase.at /\ m.due <= MaxDelay
  /\ r.shock = 0 => \A m \in r.answers : m.ok <=> ProtocolOf(m.kind) \in speaks

\* The kinds of the ladder's phase and of the pinhole's.
LadderKinds == {"idle"} \cup Udp \cup Tcp
PinKinds == {"idle", "pin"}

\* A wider set of kinds.
LEMMA Wider ==
  ASSUME NEW S, NEW W, S \subseteq W, NEW r, Proper(r, S)
  PROVE  Proper(r, W)
<1>1. Phases(S) \subseteq Phases(W)
  BY DEF Phases
<1>2. Outcomes(S) \subseteq Outcomes(W)
  BY <1>1 DEF Outcomes
<1>. QED
  BY <1>2 DEF Proper

\* Staying in a phase.
LEMMA StayIs ==
  ASSUME TypeOK, NEW kinds, NEW ph \in Phases(kinds)
  PROVE  /\ Proper(Stay(ph), kinds)
         /\ Stay(ph).phase = ph /\ Stay(ph).answers = {} /\ Stay(ph).shock = 0
<1>1. bound \in BOOLEAN /\ {} \in SUBSET NetType
  BY DEF TypeOK
<1>2. Stay(ph).phase = ph /\ Stay(ph).answers = {} /\ Stay(ph).shock = 0
  BY DEF Stay
<1>3. Stay(ph) \in Outcomes(kinds)
  BY <1>1 DEF Stay, Outcomes
<1>. QED
  BY <1>2, <1>3 DEF Proper

\* Going to a rung of the ladder, or asking for the pinhole.
LEMMA TryProper ==
  ASSUME TypeOK, NEW k, NEW n \in Nat, NEW r \in Try(k, n)
  PROVE  /\ k \in Udp \cup Tcp \cup {"failed"} => Proper(r, LadderKinds)
         /\ k \in {"pin", "failed"} => Proper(r, PinKinds)
         /\ k \in NetKinds \cup {"failed"} => r.phase.left > 0
<1>1. ASSUME k \in NetKinds \cup {"failed"}
      PROVE  Proper(r, {"idle"} \cup ({k} \ {"failed"})) /\ r.phase.left > 0
  BY <1>1, TryIs DEF Proper
<1>2. ASSUME k \in Udp \cup Tcp \cup {"failed"}
      PROVE  Proper(r, LadderKinds)
  <2>1. {"idle"} \cup ({k} \ {"failed"}) \subseteq LadderKinds
    BY <1>2 DEF LadderKinds
  <2>2. Proper(r, {"idle"} \cup ({k} \ {"failed"}))
    BY <1>1, <1>2 DEF NetKinds
  <2>. QED
    BY <2>1, <2>2, Wider
<1>3. ASSUME k \in {"pin", "failed"}
      PROVE  Proper(r, PinKinds)
  <2>1. {"idle"} \cup ({k} \ {"failed"}) \subseteq PinKinds
    BY <1>3 DEF PinKinds
  <2>2. Proper(r, {"idle"} \cup ({k} \ {"failed"}))
    BY <1>1, <1>3 DEF NetKinds
  <2>. QED
    BY <2>1, <2>2, Wider
<1>. QED
  BY <1>1, <1>2, <1>3

\* drive_phase and drive_pinhole: the next deadline lies ahead.
LEMMA DriveIs ==
  ASSUME TypeOK
  PROVE  /\ \A m \in Leases : \A a \in DrivePhase(m) :
              Proper(a, LadderKinds) /\ a.phase.left > 0
         /\ \A b \in DrivePinhole : Proper(b, PinKinds) /\ b.phase.left > 0
<1>1. ASSUME NEW m \in Leases, NEW a \in DrivePhase(m)
      PROVE  Proper(a, LadderKinds) /\ a.phase.left > 0
  <2>0. /\ phase \in Phases(LadderKinds) /\ phase.at \in LadderKinds
        /\ phase.attempt \in Nat /\ phase.left \in Nat
    BY DEF TypeOK, Phases, LadderKinds
  <2>1. CASE phase.left > 0
    <3>1. a = Stay(phase)
      BY <2>1 DEF DrivePhase
    <3>. QED
      BY <2>0, <2>1, <3>1, StayIs
  <2>2. CASE phase.left = 0
    <3>1. \/ a \in Try(FirstRung(m), 0)
          \/ phase.at \in Udp /\ a \in Try(phase.at, phase.attempt + 1)
          \/ phase.at \in Udp \cup Tcp /\ a \in Try(RungAfter(phase.at), 0)
      BY <2>0, <2>2 DEF DrivePhase, LadderKinds
    <3>2. CASE a \in Try(FirstRung(m), 0)
      <4>1. FirstRung(m) \in Udp \cup Tcp
        BY RungsAre DEF Udp, Tcp
      <4>. QED
        BY <3>2, <4>1, TryProper DEF NetKinds
    <3>3. CASE phase.at \in Udp /\ a \in Try(phase.at, phase.attempt + 1)
      <4>1. phase.attempt + 1 \in Nat
        BY <2>0
      <4>. QED
        BY <3>3, <4>1, TryProper DEF NetKinds
    <3>4. CASE phase.at \in Udp \cup Tcp /\ a \in Try(RungAfter(phase.at), 0)
      <4>1. RungAfter(phase.at) \in Udp \cup {"failed"}
        BY <3>4, RungsAre
      <4>. QED
        BY <3>4, <4>1, TryProper DEF NetKinds
    <3>. QED
      BY <3>1, <3>2, <3>3, <3>4
  <2>. QED
    BY <2>0, <2>1, <2>2
<1>2. ASSUME NEW b \in DrivePinhole
      PROVE  Proper(b, PinKinds) /\ b.phase.left > 0
  <2>0. /\ pin_phase \in Phases(PinKinds)
        /\ pin_phase.attempt \in Nat /\ pin_phase.left \in Nat
    BY DEF TypeOK, Phases, PinKinds
  <2>1. CASE pin_phase.left > 0
    <3>1. b = Stay(pin_phase)
      BY <2>1 DEF DrivePinhole
    <3>. QED
      BY <2>0, <2>1, <3>1, StayIs
  <2>2. CASE pin_phase.left = 0
    <3>1. /\ 0 \in Nat /\ pin_phase.attempt + 1 \in Nat
          /\ "pin" \in NetKinds
      BY <2>0 DEF NetKinds
    <3>2. \/ b \in Try("pin", 0)
          \/ b \in Try("pin", pin_phase.attempt + 1)
          \/ b \in Try("failed", 0)
      BY <2>0, <2>2 DEF DrivePinhole
    <3>. QED
      BY <3>1, <3>2, TryProper
  <2>. QED
    BY <2>0, <2>1, <2>2
<1>. QED
  BY <1>1, <1>2

-----------------------------------------------------------------------------
(* The effect of a step on the network and on the gateway.                 *)

\* The protocol that a lease is granted by.
Granting(l) == IF l = "pin" THEN "pcp" ELSE l

\* A lease is left alone or is renewed for its whole life, and it is renewed
\* when a grant of it is sent.
LEMMA RenewedIs ==
  ASSUME TypeOK, NEW ms, ms \subseteq NetType
  PROVE  /\ Renewed(ms) \in [LeaseNames -> Nat \cup {None}]
         /\ \A l \in LeaseNames :
              Renewed(ms)[l] = leases[l] \/ Renewed(ms)[l] = Lease[Granting(l)]
         /\ \A m \in ms : m.ok /\ m.kind \in Grants =>
              Renewed(ms)[LeaseOf(m.kind)] = Lease[ProtocolOf(m.kind)]
<1>1. leases \in [LeaseNames -> Nat \cup {None}] /\ DOMAIN leases = LeaseNames
  BY DEF TypeOK, LeaseNames
<1>2. \A l \in LeaseNames : Lease[Granting(l)] \in Nat
  BY TimesAre DEF LeaseNames, Granting, Protocols
<1>3. \A l \in LeaseNames :
        Renewed(ms)[l] = IF \E m \in ms : /\ m.ok /\ m.kind \in Grants
                                          /\ l = LeaseOf(m.kind)
                         THEN Lease[Granting(l)] ELSE leases[l]
  BY <1>1 DEF Renewed, LeaseOf, Granting
<1>4. \A l \in LeaseNames :
        /\ Renewed(ms)[l] = leases[l] \/ Renewed(ms)[l] = Lease[Granting(l)]
        /\ Renewed(ms)[l] \in Nat \cup {None}
  BY <1>1, <1>2, <1>3
<1>5. Renewed(ms) \in [LeaseNames -> Nat \cup {None}]
  <2>1. Renewed(ms) = [l \in LeaseNames |-> Renewed(ms)[l]]
    BY <1>1 DEF Renewed
  <2>. QED
    BY <1>4, <2>1
<1>6. ASSUME NEW m \in ms, m.ok, m.kind \in Grants
      PROVE  Renewed(ms)[LeaseOf(m.kind)] = Lease[ProtocolOf(m.kind)]
  <2>1. LeaseOf(m.kind) \in LeaseNames
        /\ Granting(LeaseOf(m.kind)) = ProtocolOf(m.kind)
    BY <1>6 DEF Grants, LeaseOf, Granting, ProtocolOf, LeaseNames, Protocols
  <2>. QED
    BY <1>3, <1>6, <2>1
<1>. QED
  BY <1>4, <1>5, <1>6

\* What an effect leaves behind.
LEMMA EffectIs ==
  ASSUME TypeOK,
         \A m \in net : m.due <= MaxDelay /\ Promises(leases, m),
         NEW a, Proper(a, LadderKinds), NEW b, Proper(b, PinKinds),
         NEW ms, ms \subseteq net, Effect(a, b, ms)
  PROVE  /\ phase' = a.phase /\ phase' \in Phases(LadderKinds)
         /\ pin_phase' = b.phase /\ pin_phase' \in Phases(PinKinds)
         /\ bound' \in BOOLEAN
         /\ net' = Open(a.phase, ms) \cup a.answers \cup b.answers
         /\ net' \subseteq NetType
         /\ leases' \in [LeaseNames -> Nat \cup {None}]
         /\ shocks' \in 0 .. MaxShocks
         /\ shocks' = 0 => shocks = 0 /\ a.shock = 0 /\ b.shock = 0
         /\ \A l \in LeaseNames :
              leases'[l] = leases[l] \/ leases'[l] = Lease[Granting(l)]
         /\ \A m \in net' : m.due <= MaxDelay /\ Promises(leases', m)
<1>. DEFINE as == a.answers \cup b.answers
<1>1. /\ a.phase \in Phases(LadderKinds) /\ a.answers \subseteq NetType
      /\ a.shock \in {0, 1} /\ a.bound \in BOOLEAN
      /\ \A m \in a.answers : m.due <= MaxDelay
  BY DEF Proper, Outcomes
<1>2. /\ b.phase \in Phases(PinKinds) /\ b.answers \subseteq NetType
      /\ b.shock \in {0, 1} /\ b.bound \in BOOLEAN
      /\ \A m \in b.answers : m.due <= MaxDelay
  BY DEF Proper, Outcomes
<1>3. phase' = a.phase /\ pin_phase' = b.phase /\ bound' \in BOOLEAN
  BY <1>1, <1>2 DEF Effect
<1>4. /\ shocks' \in 0 .. MaxShocks
      /\ shocks' = 0 => shocks = 0 /\ a.shock = 0 /\ b.shock = 0
  BY <1>1, <1>2, TimesAre DEF Effect, TypeOK
<1>5. net \subseteq NetType
  BY DEF TypeOK, NetType, NetKinds
<1>6. net' = Open(a.phase, ms) \cup as /\ leases' = Renewed(as)
  BY DEF Effect
<1>7. Open(a.phase, ms) \subseteq net /\ as \subseteq NetType
      /\ \A m \in as : m.due <= MaxDelay
  BY <1>1, <1>2 DEF Open
<1>. HIDE DEF as
<1>8. /\ leases' \in [LeaseNames -> Nat \cup {None}]
      /\ \A l \in LeaseNames :
           leases'[l] = leases[l] \/ leases'[l] = Lease[Granting(l)]
      /\ \A m \in as : m.ok /\ m.kind \in Grants =>
           leases'[LeaseOf(m.kind)] = Lease[ProtocolOf(m.kind)]
  BY <1>6, <1>7, RenewedIs
<1>9. ASSUME NEW m \in net'
      PROVE  m.due <= MaxDelay /\ Promises(leases', m)
  <2>0. m \in NetType /\ m.due \in Nat /\ m.due <= MaxDelay
    BY <1>5, <1>6, <1>7 DEF NetType
  <2>. SUFFICES ASSUME m.ok, m.kind \in Grants, leases'[LeaseOf(m.kind)] # None
                PROVE  Lease[ProtocolOf(m.kind)] + m.due
                         <= leases'[LeaseOf(m.kind)] + MaxDelay
    BY <2>0 DEF Promises
  <2>1. /\ LeaseOf(m.kind) \in LeaseNames
        /\ Granting(LeaseOf(m.kind)) = ProtocolOf(m.kind)
        /\ Lease[ProtocolOf(m.kind)] \in Nat
    BY TimesAre DEF Grants, LeaseOf, Granting, ProtocolOf, LeaseNames, Protocols
  <2>2. CASE leases'[LeaseOf(m.kind)] = Lease[ProtocolOf(m.kind)]
    BY <2>0, <2>1, <2>2, TimesAre
  <2>3. CASE leases'[LeaseOf(m.kind)] = leases[LeaseOf(m.kind)] /\ m \notin as
    <3>1. m \in net
      BY <1>6, <1>7, <2>3
    <3>. QED
      BY <2>3, <3>1 DEF Promises
  <2>. QED
    BY <1>8, <2>1, <2>2, <2>3
<1>. QED
  BY <1>1, <1>2, <1>3, <1>4, <1>5, <1>6, <1>7, <1>8, <1>9 DEF as

\* What covered a lease of the node covers it after leases were renewed.
LEMMA CoversKept ==
  ASSUME TypeOK, NEW l \in LeaseNames, NEW m, m.left \in Nat,
         m.left <= Lease[Granting(l)],
         leases[l] # None => m.left <= leases[l] + MaxDelay,
         leases'[l] = leases[l] \/ leases'[l] = Lease[Granting(l)]
  PROVE  leases'[l] # None => m.left <= leases'[l] + MaxDelay
<1>1. Lease[Granting(l)] \in Nat /\ MaxDelay \in Nat
  BY TimesAre DEF LeaseNames, Granting, Protocols
<1>. QED
  BY <1>1

\* A grant that arrives is covered by the lease it tells of.
LEMMA GrantCovered ==
  ASSUME TypeOK, LeaseInv, NEW m \in net, m.ok, m.due = 0, m.kind \in Grants
  PROVE  /\ LeaseOf(m.kind) \in LeaseNames
         /\ Granting(LeaseOf(m.kind)) = ProtocolOf(m.kind)
         /\ Granted(ProtocolOf(m.kind)) \in [protocol : Protocols, left : Nat]
         /\ Granted(ProtocolOf(m.kind)).protocol = ProtocolOf(m.kind)
         /\ Granted(ProtocolOf(m.kind)).left = Lease[ProtocolOf(m.kind)]
         /\ Granted(ProtocolOf(m.kind)) # None
         /\ leases[LeaseOf(m.kind)] # None =>
              Lease[ProtocolOf(m.kind)] <= leases[LeaseOf(m.kind)] + MaxDelay
<1>1. /\ LeaseOf(m.kind) \in LeaseNames
      /\ Granting(LeaseOf(m.kind)) = ProtocolOf(m.kind)
      /\ ProtocolOf(m.kind) \in Protocols
      /\ Lease[ProtocolOf(m.kind)] \in Nat
  BY TimesAre DEF Grants, LeaseOf, Granting, ProtocolOf, LeaseNames, Protocols
<1>2. leases[LeaseOf(m.kind)] # None =>
        Lease[ProtocolOf(m.kind)] + m.due <= leases[LeaseOf(m.kind)] + MaxDelay
  BY DEF LeaseInv, Promises
<1>3. /\ Granted(ProtocolOf(m.kind)) \in [protocol : Protocols, left : Nat]
      /\ Granted(ProtocolOf(m.kind)).protocol = ProtocolOf(m.kind)
      /\ Granted(ProtocolOf(m.kind)).left = Lease[ProtocolOf(m.kind)]
  BY <1>1 DEF Granted, Life
<1>4. Granted(ProtocolOf(m.kind)) # None
  BY <1>3, NoneAssumption
<1>. QED
  BY <1>1, <1>2, <1>3, <1>4

\* What the node offers after a step: what it had, nothing, or what it was
\* granted just now.
LEMMA OffersKept ==
  ASSUME TypeOK, LeaseInv, OfferedIsLeased,
         \A l \in LeaseNames :
           leases'[l] = leases[l] \/ leases'[l] = Lease[Granting(l)],
         \/ mapped' \in {None, mapped}
         \/ \E m \in net : /\ m.ok /\ m.due = 0 /\ m.kind \in Grants \ {"pin"}
                           /\ mapped' = Granted(ProtocolOf(m.kind)),
         \/ pinhole' \in {None, pinhole}
         \/ \E m \in net : /\ m.ok /\ m.due = 0 /\ m.kind = "pin"
                           /\ pinhole' = Granted("pcp")
  PROVE  /\ mapped' \in Leases /\ pinhole' \in Leases
         /\ mapped' # None => mapped'.left <= Lease[mapped'.protocol]
         /\ pinhole' # None => pinhole'.left <= Lease["pcp"]
         /\ OfferedIsLeased'
<1>0. \A o \in Leases : o # None => /\ o \in [protocol : Protocols, left : Nat]
                                    /\ o.protocol \in Protocols /\ o.left \in Nat
  BY DEF Leases
<1>1. /\ mapped' \in Leases
      /\ mapped' # None =>
           /\ mapped'.left <= Lease[mapped'.protocol]
           /\ leases'[mapped'.protocol] # None =>
                mapped'.left <= leases'[mapped'.protocol] + MaxDelay
  <2>1. CASE mapped' = None
    BY <2>1 DEF Leases
  <2>2. CASE mapped' = mapped /\ mapped # None
    <3>1. mapped \in Leases
      BY DEF TypeOK
    <3>2. mapped.protocol \in Protocols /\ mapped.left \in Nat
      BY <1>0, <2>2, <3>1
    <3>3. mapped.protocol \in LeaseNames /\ Granting(mapped.protocol) = mapped.protocol
      BY <3>2 DEF LeaseNames, Granting, Protocols
    <3>4. mapped.left <= Lease[mapped.protocol]
      BY <2>2 DEF LeaseInv
    <3>5. leases[mapped.protocol] # None =>
            mapped.left <= leases[mapped.protocol] + MaxDelay
      BY <2>2 DEF OfferedIsLeased, Covers
    <3>6. leases'[mapped.protocol] # None =>
            mapped.left <= leases'[mapped.protocol] + MaxDelay
      BY <3>2, <3>3, <3>4, <3>5, CoversKept
    <3>. QED
      BY <2>2, <3>1, <3>4, <3>6
  <2>3. ASSUME NEW m \in net, m.ok, m.due = 0, m.kind \in Grants \ {"pin"},
               mapped' = Granted(ProtocolOf(m.kind))
        PROVE  /\ mapped' \in Leases
               /\ mapped'.left <= Lease[mapped'.protocol]
               /\ leases'[mapped'.protocol] # None =>
                    mapped'.left <= leases'[mapped'.protocol] + MaxDelay
    <3>. DEFINE o == Granted(ProtocolOf(m.kind))
    <3>1. LeaseOf(m.kind) = ProtocolOf(m.kind)
      BY <2>3 DEF LeaseOf
    <3>2. /\ o.protocol \in LeaseNames /\ Granting(o.protocol) = o.protocol
          /\ o \in [protocol : Protocols, left : Nat]
          /\ o.left = Lease[o.protocol] /\ o.left \in Nat
          /\ leases[o.protocol] # None => o.left <= leases[o.protocol] + MaxDelay
      BY <2>3, <3>1, GrantCovered
    <3>. HIDE DEF o
    <3>3. o.left <= Lease[Granting(o.protocol)]
      BY <3>2
    <3>4. leases'[o.protocol] # None => o.left <= leases'[o.protocol] + MaxDelay
      BY <3>2, <3>3, CoversKept
    <3>5. mapped' = o
      BY <2>3 DEF o
    <3>. QED
      BY <3>2, <3>3, <3>4, <3>5 DEF Leases
  <2>. QED
    BY <2>1, <2>2, <2>3
<1>2. /\ pinhole' \in Leases
      /\ pinhole' # None =>
           /\ pinhole'.left <= Lease["pcp"]
           /\ leases'["pin"] # None => pinhole'.left <= leases'["pin"] + MaxDelay
  <2>0. "pin" \in LeaseNames /\ Granting("pin") = "pcp"
    BY DEF LeaseNames, Granting
  <2>1. CASE pinhole' = None
    BY <2>1 DEF Leases
  <2>2. CASE pinhole' = pinhole /\ pinhole # None
    <3>1. pinhole \in Leases
      BY DEF TypeOK
    <3>2. pinhole.left \in Nat
      BY <1>0, <2>2, <3>1
    <3>3. pinhole.left <= Lease[Granting("pin")]
      BY <2>0, <2>2 DEF LeaseInv
    <3>4. leases["pin"] # None => pinhole.left <= leases["pin"] + MaxDelay
      BY <2>2 DEF OfferedIsLeased, Covers
    <3>5. leases'["pin"] # None => pinhole.left <= leases'["pin"] + MaxDelay
      BY <2>0, <3>2, <3>3, <3>4, CoversKept
    <3>. QED
      BY <2>0, <2>2, <3>1, <3>3, <3>5
  <2>3. ASSUME NEW m \in net, m.ok, m.due = 0, m.kind = "pin",
               pinhole' = Granted("pcp")
        PROVE  /\ pinhole' \in Leases
               /\ pinhole'.left <= Lease["pcp"]
               /\ leases'["pin"] # None =>
                    pinhole'.left <= leases'["pin"] + MaxDelay
    <3>. DEFINE o == Granted("pcp")
    <3>1. LeaseOf(m.kind) = "pin" /\ ProtocolOf(m.kind) = "pcp" /\ m.kind \in Grants
      BY <2>3 DEF LeaseOf, ProtocolOf, Grants
    <3>2. /\ o \in [protocol : Protocols, left : Nat]
          /\ o.left = Lease["pcp"] /\ o.left \in Nat
          /\ leases["pin"] # None => o.left <= leases["pin"] + MaxDelay
      BY <2>3, <3>1, GrantCovered
    <3>. HIDE DEF o
    <3>3. o.left <= Lease[Granting("pin")]
      BY <2>0, <3>2
    <3>4. leases'["pin"] # None => o.left <= leases'["pin"] + MaxDelay
      BY <2>0, <3>2, <3>3, CoversKept
    <3>5. pinhole' = o
      BY <2>3 DEF o
    <3>. QED
      BY <2>0, <3>2, <3>3, <3>4, <3>5 DEF Leases
  <2>. QED
    BY <2>1, <2>2, <2>3
<1>. QED
  BY <1>1, <1>2 DEF OfferedIsLeased, Covers

-----------------------------------------------------------------------------
(* Renewal.                                                                *)

\* The requests that leases are renewed by.
Renewals == {"pcp", "natpmp_map", "upnp_map", "pin"}

\* The time the attempts take, attempt by attempt.
LEMMA Attempts ==
  /\ \A n \in Nat : n < StepAttempts => After(n) \in Nat
  /\ \A n \in Nat : n + 1 < StepAttempts => After(n) = StepTimeout + After(n + 1)
  /\ StepAttempts * StepTimeout = StepTimeout + After(0)
  /\ \A k : Whole(k) \in Nat
<1>1. \A x, y \in Nat : x * y \in Nat
  OBVIOUS
<1>2. \A x, y \in Int : (x + 1) * y = y + x * y
  OBVIOUS
<1>3. StepTimeout \in Nat /\ StepAttempts \in Nat /\ TcpTimeout \in Nat
      /\ StepAttempts > 0
  BY TimesAre
<1>4. ASSUME NEW n \in Nat, n < StepAttempts
      PROVE  After(n) \in Nat
  <2>1. StepAttempts - n - 1 \in Nat
    BY <1>3, <1>4
  <2>. QED
    BY <1>1, <1>3, <2>1 DEF After
<1>5. ASSUME NEW n \in Nat, n + 1 < StepAttempts
      PROVE  After(n) = StepTimeout + After(n + 1)
  <2>. DEFINE x == StepAttempts - (n + 1) - 1
  <2>1. x \in Int /\ StepAttempts - n - 1 = x + 1
    BY <1>3
  <2>2. After(n + 1) = x * StepTimeout /\ After(n) = (x + 1) * StepTimeout
    BY <2>1 DEF After
  <2>. HIDE DEF x
  <2>. QED
    BY <1>2, <1>3, <2>1, <2>2
<1>6. StepAttempts * StepTimeout = StepTimeout + After(0)
  <2>. DEFINE x == StepAttempts - 0 - 1
  <2>1. x \in Int /\ StepAttempts = x + 1
    BY <1>3
  <2>2. After(0) = x * StepTimeout
    BY DEF After
  <2>. HIDE DEF x
  <2>3. (x + 1) * StepTimeout = StepTimeout + x * StepTimeout
    BY <1>2, <1>3, <2>1
  <2>. QED
    BY <2>1, <2>2, <2>3
<1>7. \A k : Whole(k) \in Nat
  BY <1>1, <1>3 DEF Whole
<1>. QED
  BY <1>4, <1>5, <1>6, <1>7

\* All attempts at a renewal fit into half the lease.
LEMMA HalfIsEnough ==
  ASSUME NEW k \in Renewals
  PROVE  /\ Lease[ProtocolOf(k)] \div 2 \in Nat
         /\ Lease[ProtocolOf(k)] > (Lease[ProtocolOf(k)] \div 2) + Whole(k)
<1>1. ProtocolOf(k) \in Protocols /\ (k \in Tcp => ProtocolOf(k) = "upnp")
  BY DEF Renewals, ProtocolOf, Protocols, Tcp
<1>2. /\ Lease[ProtocolOf(k)] \in Nat /\ MinLease <= Lease[ProtocolOf(k)]
      /\ MinLease \in Nat
  BY <1>1, LeaseAssumption, TimesAssumption
<1>3. Whole(k) \in Nat
  BY Attempts
<1>4. 2 * Whole(k) < Lease[ProtocolOf(k)]
  <2>1. CASE k \in Tcp
    BY <1>1, <2>1, RenewalAssumption DEF Whole
  <2>2. CASE k \notin Tcp
    <3>1. Whole(k) = StepAttempts * StepTimeout
      BY <2>2 DEF Whole
    <3>2. \A x, y \in Nat : 2 * x * y = 2 * (x * y)
      OBVIOUS
    <3>3. 2 * StepAttempts * StepTimeout = 2 * Whole(k)
      BY <3>1, <3>2, TimesAre
    <3>. QED
      BY <1>2, <1>3, <3>3, RenewalAssumption
  <2>. QED
    BY <2>1, <2>2
<1>5. \A l, w \in Nat : 2 * w < l => l \div 2 \in Nat /\ l > (l \div 2) + w
  OBVIOUS
<1>. QED
  BY <1>2, <1>3, <1>4, <1>5

\* A lease that outlasts its renewal has not run out.
LEMMA InTimeLasts ==
  ASSUME NEW ms, NEW ph \in Phases(LadderKinds \cup PinKinds),
         NEW m, m.left \in Nat, NEW k \in Renewals, Outlasts(ms, ph, m, k)
  PROVE  m.left > ph.left
<1>1. ph.left \in Nat /\ ph.attempt \in Nat
  BY DEF Phases
<1>2. Whole(k) \in Nat /\ (ph.attempt < StepAttempts => After(ph.attempt) \in Nat)
  BY <1>1, Attempts
<1>. QED
  BY <1>1, <1>2 DEF Outlasts

\* Answers to the request in hand are all that matters.
LEMMA InTimeKept ==
  ASSUME NEW ms, NEW ns, NEW ph, NEW m, NEW k, Outlasts(ms, ph, m, k),
         \A x \in ms : x.kind = k /\ ph.at = k => x \in ns
  PROVE  Outlasts(ns, ph, m, k)
<1>1. \A t : Coming(ms, k, t) /\ ph.at = k => Coming(ns, k, t)
  BY DEF Coming
<1>. QED
  BY <1>1 DEF Outlasts

\* A request for renewal that has timed out is not the last one.
LEMMA RetryLeft ==
  ASSUME NEW ms, ms \subseteq NetType, NEW ph \in Phases(LadderKinds \cup PinKinds),
         NEW m, NEW k, Outlasts(ms, ph, m, k), ph.left = 0, ph.at # "idle"
  PROVE  /\ ph.at = k /\ k \notin Tcp /\ Again(ph)
         /\ m.left > After(ph.attempt)
<1>1. ~Coming(ms, k, 0)
  BY DEF Coming, NetType
<1>2. ph.attempt \in Nat
  BY DEF Phases
<1>3. /\ ph.at = k /\ k \notin Tcp /\ ph.attempt < StepAttempts
      /\ ph.attempt + 1 # StepAttempts
      /\ m.left > 0 + After(ph.attempt)
  BY <1>1 DEF Outlasts
<1>. QED
  BY <1>2, <1>3, TimesAre, Attempts DEF Again

\* A renewal is started, or goes on, in time.
LEMMA RenewStep ==
  ASSUME TypeOK, NEW ph \in Phases(LadderKinds \cup PinKinds), NEW m, m.left \in Nat,
         NEW k \in Renewals, Outlasts(net, ph, m, k), ph.left = 0,
         ProtocolOf(k) \in speaks,
         NEW r \in Try(k, IF ph.at = "idle" THEN 0 ELSE ph.attempt + 1),
         r.shock = 0
  PROVE  Outlasts(r.answers, r.phase, m, k)
<1>. DEFINE n == IF ph.at = "idle" THEN 0 ELSE ph.attempt + 1
<1>1. net \subseteq NetType
  BY DEF TypeOK, NetType, NetKinds
<1>2. ph.attempt \in Nat /\ n \in Nat /\ k \in NetKinds /\ k # "idle"
  BY KindsAre DEF Phases, Renewals
<1>3. r \in Try(k, n)
  OBVIOUS
<1>4. /\ n < StepAttempts
      /\ k \notin Tcp => m.left > StepTimeout + After(n)
      /\ k \in Tcp => m.left > TcpTimeout
  <2>1. CASE ph.at = "idle"
    <3>1. m.left > 0 + Whole(k)
      BY <1>2, <2>1 DEF Outlasts
    <3>2. Whole(k) = IF k \in Tcp THEN TcpTimeout ELSE StepTimeout + After(0)
      BY Attempts DEF Whole
    <3>3. n = 0 /\ 0 < StepAttempts
      BY <2>1, TimesAre
    <3>4. Whole(k) \in Nat
      BY Attempts
    <3>. QED
      BY <3>1, <3>2, <3>3, <3>4
  <2>2. CASE ph.at # "idle"
    <3>1. /\ ph.at = k /\ k \notin Tcp /\ Again(ph)
          /\ m.left > After(ph.attempt)
      BY <1>1, <2>2, RetryLeft
    <3>2. n = ph.attempt + 1 /\ n < StepAttempts
      BY <2>2, <3>1 DEF Again
    <3>3. After(ph.attempt) = StepTimeout + After(n)
      BY <1>2, <3>2, Attempts
    <3>. QED
      BY <3>1, <3>2, <3>3
  <2>. QED
    BY <2>1, <2>2
<1>. HIDE DEF n
<1>5. /\ r.phase = [at |-> k, attempt |-> n,
                    left |-> IF k \in Tcp THEN TcpTimeout ELSE StepTimeout]
      /\ k \in Tcp => Coming(r.answers, k, TcpTimeout)
      /\ k \notin Tcp /\ n + 1 = StepAttempts => Coming(r.answers, k, StepTimeout)
  BY <1>2, <1>3, TryIs
<1>6. /\ r.phase.at = k /\ r.phase.attempt = n
      /\ k \in Tcp => r.phase.left = TcpTimeout
      /\ k \notin Tcp => r.phase.left = StepTimeout
  BY <1>5
<1>. QED
  BY <1>4, <1>5, <1>6 DEF Outlasts

-----------------------------------------------------------------------------
(* The steps.                                                              *)

\* What every step of the ladder and the pinhole keeps.
LEMMA EffectKeeps ==
  ASSUME IInv, NEW a, Proper(a, LadderKinds), NEW b, Proper(b, PinKinds),
         NEW ms, ms \subseteq net, Effect(a, b, ms), UNCHANGED speaks,
         \/ mapped' \in {None, mapped}
         \/ \E m \in net : /\ m.ok /\ m.due = 0 /\ m.kind \in Grants \ {"pin"}
                           /\ mapped' = Granted(ProtocolOf(m.kind)),
         \/ pinhole' \in {None, pinhole}
         \/ \E m \in net : /\ m.ok /\ m.due = 0 /\ m.kind = "pin"
                           /\ pinhole' = Granted("pcp")
  PROVE  /\ TypeOK' /\ LeaseInv' /\ OfferedIsLeased'
         /\ phase' = a.phase /\ pin_phase' = b.phase
         /\ net' = Open(a.phase, ms) \cup a.answers \cup b.answers
         /\ shocks' = 0 =>
              /\ shocks = 0 /\ a.shock = 0 /\ b.shock = 0
              /\ \A m \in net' : m.ok <=> ProtocolOf(m.kind) \in speaks
<1>1. TypeOK /\ LeaseInv /\ OfferedIsLeased /\ LapseInv
  BY DEF IInv
<1>2. \A m \in net : m.due <= MaxDelay /\ Promises(leases, m)
  BY <1>1 DEF LeaseInv
<1>3. /\ phase' = a.phase /\ phase' \in Phases(LadderKinds)
      /\ pin_phase' = b.phase /\ pin_phase' \in Phases(PinKinds)
      /\ bound' \in BOOLEAN
      /\ net' = Open(a.phase, ms) \cup a.answers \cup b.answers
      /\ net' \subseteq NetType
      /\ leases' \in [LeaseNames -> Nat \cup {None}]
      /\ shocks' \in 0 .. MaxShocks
      /\ shocks' = 0 => shocks = 0 /\ a.shock = 0 /\ b.shock = 0
      /\ \A l \in LeaseNames :
           leases'[l] = leases[l] \/ leases'[l] = Lease[Granting(l)]
      /\ \A m \in net' : m.due <= MaxDelay /\ Promises(leases', m)
  BY <1>1, <1>2, EffectIs
<1>4. /\ mapped' \in Leases /\ pinhole' \in Leases
      /\ mapped' # None => mapped'.left <= Lease[mapped'.protocol]
      /\ pinhole' # None => pinhole'.left <= Lease["pcp"]
      /\ OfferedIsLeased'
  BY <1>1, <1>3, OffersKept
<1>5. TypeOK'
  <2>1. speaks' \in Gateways
    BY <1>1 DEF TypeOK
  <2>. QED
    BY <1>3, <1>4, <2>1 DEF TypeOK, LadderKinds, PinKinds, NetType, NetKinds, LeaseNames
<1>6. LeaseInv'
  BY <1>3, <1>4 DEF LeaseInv, Promises
<1>7. ASSUME shocks' = 0, NEW m \in net'
      PROVE  m.ok <=> ProtocolOf(m.kind) \in speaks
  <2>1. shocks = 0 /\ a.shock = 0 /\ b.shock = 0
    BY <1>3, <1>7
  <2>2. CASE m \in net
    BY <1>1, <2>1, <2>2 DEF LapseInv
  <2>3. CASE m \in a.answers \/ m \in b.answers
    BY <2>1, <2>3 DEF Proper
  <2>. QED
    BY <1>3, <2>2, <2>3 DEF Open
<1>. QED
  BY <1>3, <1>4, <1>5, <1>6, <1>7

\* The lease to be renewed and the request that renews it.
LEMMA RenewalOf ==
  ASSUME TypeOK
  PROVE  /\ mapped # None => /\ FirstRung(mapped) \in Renewals \ {"pin"}
                             /\ FirstRung(mapped) \in Udp \cup Tcp
                             /\ FirstRung(mapped) \in Grants
                             /\ ProtocolOf(FirstRung(mapped)) = mapped.protocol
                             /\ mapped.left \in Nat
         /\ pinhole # None => pinhole.left \in Nat
         /\ "pin" \in Renewals /\ ProtocolOf("pin") = "pcp"
         /\ phase \in Phases(LadderKinds \cup PinKinds)
         /\ phase \in Phases(LadderKinds)
         /\ pin_phase \in Phases(LadderKinds \cup PinKinds)
         /\ pin_phase \in Phases(PinKinds)
         /\ net \subseteq NetType
<1>1. mapped \in Leases /\ pinhole \in Leases
  BY DEF TypeOK
<1>2. mapped # None => mapped.left \in Nat
  BY <1>1 DEF Leases
<1>3. pinhole # None => pinhole.left \in Nat
  BY <1>1 DEF Leases
<1>4. FirstRung(mapped) \in {"pcp", "natpmp_map", "upnp_map"}
      /\ (mapped # None => ProtocolOf(FirstRung(mapped)) = mapped.protocol)
  BY <1>1, RungsAre
<1>5. /\ FirstRung(mapped) \in Renewals \ {"pin"}
      /\ FirstRung(mapped) \in Udp \cup Tcp
      /\ FirstRung(mapped) \in Grants
  BY <1>4 DEF Renewals, Udp, Tcp, Grants
<1>6. phase \in Phases(LadderKinds) /\ pin_phase \in Phases(PinKinds)
  BY DEF TypeOK, LadderKinds, PinKinds
<1>7. phase \in Phases(LadderKinds \cup PinKinds)
      /\ pin_phase \in Phases(LadderKinds \cup PinKinds)
  BY <1>6 DEF Phases
<1>8. net \subseteq NetType
  BY DEF TypeOK, NetType, NetKinds
<1>9. "pin" \in Renewals /\ ProtocolOf("pin") = "pcp"
  BY DEF Renewals, ProtocolOf
<1>. QED
  BY <1>2, <1>3, <1>4, <1>5, <1>6, <1>7, <1>8, <1>9

\* on_timer.
LEMMA OnTimerKeeps ==
  ASSUME IInv, OnTimer
  PROVE  IInv' /\ phase'.left > 0 /\ pin_phase'.left > 0
<1>1. TypeOK /\ LapseInv
  BY DEF IInv
<1>2. /\ mapped' \in {None, mapped} /\ pinhole' \in {None, pinhole}
      /\ mapped' = Unexpired(mapped) /\ mapped' \in Leases
      /\ UNCHANGED speaks
  BY <1>1 DEF OnTimer, Unexpired, TypeOK, Leases
<1>3. PICK a \in DrivePhase(mapped'), b \in DrivePinhole : Effect(a, b, net)
  BY DEF OnTimer
<1>4. /\ Proper(a, LadderKinds) /\ a.phase.left > 0
      /\ Proper(b, PinKinds) /\ b.phase.left > 0
  BY <1>1, <1>2, <1>3, DriveIs
<1>5. /\ TypeOK' /\ LeaseInv' /\ OfferedIsLeased'
      /\ phase' = a.phase /\ pin_phase' = b.phase
      /\ net' = Open(a.phase, net) \cup a.answers \cup b.answers
      /\ shocks' = 0 =>
           /\ shocks = 0 /\ a.shock = 0 /\ b.shock = 0
           /\ \A m \in net' : m.ok <=> ProtocolOf(m.kind) \in speaks
  BY <1>2, <1>3, <1>4, EffectKeeps
<1>6. ASSUME shocks' = 0, mapped' # None
      PROVE  mapped'.protocol \in speaks'
             /\ Outlasts(net', phase', mapped', FirstRung(mapped'))
  <2>. DEFINE k == FirstRung(mapped)
  <2>1. mapped' = mapped /\ mapped # None /\ shocks = 0 /\ a.shock = 0
    BY <1>2, <1>5, <1>6
  <2>2. mapped.protocol \in speaks /\ Outlasts(net, phase, mapped, k)
    BY <1>1, <2>1 DEF LapseInv
  <2>3. /\ k \in Renewals /\ k \in Udp \cup Tcp /\ ProtocolOf(k) \in speaks
        /\ mapped.left \in Nat /\ net \subseteq NetType
        /\ phase \in Phases(LadderKinds \cup PinKinds)
        /\ phase \in Phases(LadderKinds) /\ phase.left \in Nat
    BY <1>1, <2>1, <2>2, RenewalOf DEF Phases
  <2>. HIDE DEF k
  <2>4. CASE phase.left > 0
    <3>1. a = Stay(phase)
      BY <1>3, <2>4 DEF DrivePhase
    <3>2. a.phase = phase
      BY <1>1, <2>3, <3>1, StayIs
    <3>3. \A x \in net : x.kind = k /\ phase.at = k => x \in net'
      BY <1>5, <3>2 DEF Open
    <3>4. Outlasts(net', phase, mapped, k)
      BY <2>2, <3>3, InTimeKept
    <3>. QED
      BY <1>2, <1>5, <2>1, <2>2, <3>2, <3>4 DEF k
  <2>5. CASE phase.left = 0
    <3>1. phase.at # "idle" => phase.at = k /\ k \notin Tcp /\ Again(phase)
      BY <2>2, <2>3, <2>5, RetryLeft
    <3>2. a \in Try(k, IF phase.at = "idle" THEN 0 ELSE phase.attempt + 1)
      BY <1>3, <2>1, <2>3, <2>5, <3>1 DEF DrivePhase, k
    <3>3. Outlasts(a.answers, a.phase, mapped, k)
      BY <1>1, <2>1, <2>2, <2>3, <2>5, <3>2, RenewStep
    <3>4. Outlasts(net', a.phase, mapped, k)
      BY <1>5, <3>3, InTimeKept
    <3>. QED
      BY <1>2, <1>5, <2>1, <2>2, <3>4 DEF k
  <2>. QED
    BY <2>3, <2>4, <2>5
<1>7. ASSUME shocks' = 0, pinhole' # None
      PROVE  "pcp" \in speaks' /\ Outlasts(net', pin_phase', pinhole', "pin")
  <2>1. pinhole' = pinhole /\ pinhole # None /\ shocks = 0 /\ b.shock = 0
    BY <1>2, <1>5, <1>7
  <2>2. "pcp" \in speaks /\ Outlasts(net, pin_phase, pinhole, "pin")
    BY <1>1, <2>1 DEF LapseInv
  <2>3. /\ "pin" \in Renewals /\ "pin" \notin Tcp /\ ProtocolOf("pin") \in speaks
        /\ pinhole.left \in Nat /\ net \subseteq NetType
        /\ pin_phase \in Phases(LadderKinds \cup PinKinds)
        /\ pin_phase \in Phases(PinKinds) /\ pin_phase.left \in Nat
    BY <1>1, <2>1, <2>2, RenewalOf DEF Phases, Tcp
  <2>4. CASE pin_phase.left > 0
    <3>1. b = Stay(pin_phase)
      BY <1>3, <2>4 DEF DrivePinhole
    <3>2. b.phase = pin_phase
      BY <1>1, <2>3, <3>1, StayIs
    <3>3. \A x \in net : x.kind = "pin" /\ pin_phase.at = "pin" => x \in net'
      BY <1>5, <2>3 DEF Open
    <3>4. Outlasts(net', pin_phase, pinhole, "pin")
      BY <2>2, <3>3, InTimeKept
    <3>. QED
      BY <1>2, <1>5, <2>1, <2>2, <3>2, <3>4
  <2>5. CASE pin_phase.left = 0
    <3>1. pin_phase.at # "idle" => pin_phase.at = "pin" /\ Again(pin_phase)
      BY <2>2, <2>3, <2>5, RetryLeft
    <3>2. b \in Try("pin", IF pin_phase.at = "idle" THEN 0 ELSE pin_phase.attempt + 1)
      BY <1>3, <2>5, <3>1 DEF DrivePinhole
    <3>3. Outlasts(b.answers, b.phase, pinhole, "pin")
      BY <1>1, <2>1, <2>2, <2>3, <2>5, <3>2, RenewStep
    <3>4. Outlasts(net', b.phase, pinhole, "pin")
      BY <1>5, <3>3, InTimeKept
    <3>. QED
      BY <1>2, <1>5, <2>1, <2>2, <3>4
  <2>. QED
    BY <2>3, <2>4, <2>5
<1>8. LapseInv'
  BY <1>2, <1>5, <1>6, <1>7 DEF LapseInv, Outlasts, Coming
<1>. QED
  BY <1>4, <1>5, <1>8 DEF IInv

\* The wait for a renewal.
LEMMA RenewalPhase ==
  ASSUME NEW k \in Renewals
  PROVE  RenewAt(ProtocolOf(k)) \in Phases({"idle"})
<1>1. Lease[ProtocolOf(k)] \div 2 \in Nat
  BY HalfIsEnough
<1>. QED
  BY <1>1 DEF RenewAt, Idle, Phases

\* A renewal falls due at half the lease.
LEMMA GrantInTime ==
  ASSUME NEW ms, NEW k \in Renewals, NEW m, m.left = Lease[ProtocolOf(k)]
  PROVE  Outlasts(ms, RenewAt(ProtocolOf(k)), m, k)
<1>1. /\ Lease[ProtocolOf(k)] \div 2 \in Nat
      /\ Lease[ProtocolOf(k)] > (Lease[ProtocolOf(k)] \div 2) + Whole(k)
  BY HalfIsEnough
<1>2. /\ RenewAt(ProtocolOf(k)).at = "idle"
      /\ RenewAt(ProtocolOf(k)).left = Lease[ProtocolOf(k)] \div 2
  BY DEF RenewAt, Idle
<1>. QED
  BY <1>1, <1>2 DEF Outlasts

\* The pinhole is not concerned by a step of the ladder alone.
LEMMA PinholeUndisturbed ==
  ASSUME TypeOK, LapseInv, shocks = 0, pinhole # None,
         UNCHANGED <<pinhole, pin_phase, speaks>>,
         NEW ms, \A x \in net : x.kind = "pin" => x \in ms
  PROVE  "pcp" \in speaks' /\ Outlasts(ms, pin_phase', pinhole', "pin")
<1>1. "pcp" \in speaks /\ Outlasts(net, pin_phase, pinhole, "pin")
  BY DEF LapseInv
<1>2. Outlasts(ms, pin_phase, pinhole, "pin")
  BY <1>1, InTimeKept
<1>. QED
  BY <1>1, <1>2

\* The mapping is not concerned by a step of the pinhole alone.
LEMMA MappingUndisturbed ==
  ASSUME TypeOK, LapseInv, shocks = 0, mapped # None,
         UNCHANGED <<mapped, phase, speaks>>,
         NEW ms, \A x \in net : x.kind = phase.at => x \in ms
  PROVE  mapped'.protocol \in speaks'
         /\ Outlasts(ms, phase', mapped', FirstRung(mapped'))
<1>1. mapped.protocol \in speaks /\ Outlasts(net, phase, mapped, FirstRung(mapped))
  BY DEF LapseInv
<1>2. Outlasts(ms, phase, mapped, FirstRung(mapped))
  BY <1>1, InTimeKept
<1>. QED
  BY <1>1, <1>2

\* An answer to the ladder.
LEMMA LadderAnsweredKeeps ==
  ASSUME IInv, NEW m \in net, LadderAnswered(m)
  PROVE  IInv'
<1>1. TypeOK /\ LeaseInv /\ LapseInv
  BY DEF IInv
<1>2. /\ m.due = 0 /\ m.kind = phase.at /\ m \in NetType
      /\ UNCHANGED <<pinhole, speaks>> /\ pinhole' \in {None, pinhole}
      /\ pin_phase \in Phases(PinKinds) /\ net \ {m} \subseteq net
  BY <1>1, RenewalOf DEF LadderAnswered
<1>3. m.kind \in Udp \cup Tcp /\ m.kind # "pin"
  <2>1. m.kind \in NetKinds /\ phase.at \in LadderKinds
    BY <1>1, <1>2, RenewalOf DEF NetType, Phases
  <2>. QED
    BY <1>2, <2>1, KindsAre DEF LadderKinds, Udp, Tcp
<1>4. /\ Proper(Stay(pin_phase), PinKinds) /\ Stay(pin_phase).phase = pin_phase
      /\ Stay(pin_phase).answers = {}
  BY <1>1, <1>2, StayIs
<1>5. CASE m.ok /\ m.kind \in Grants
  <2>. DEFINE p == ProtocolOf(m.kind)
              a == Stay(RenewAt(p))
  <2>1. m.kind \in Renewals
    BY <1>5 DEF Grants, Renewals
  <2>2. RenewAt(p) \in Phases({"idle"})
    BY <2>1, RenewalPhase
  <2>3. RenewAt(p) \in Phases(LadderKinds)
    BY <2>2 DEF Phases, LadderKinds
  <2>4. Proper(a, LadderKinds) /\ a.phase = RenewAt(p) /\ a.answers = {}
    BY <1>1, <2>3, StayIs
  <2>5. mapped' = Granted(p) /\ Effect(a, Stay(pin_phase), net \ {m})
    BY <1>5 DEF LadderAnswered
  <2>6. /\ Granted(p).protocol = p /\ Granted(p).left = Lease[p] /\ Granted(p) # None
        /\ Granted(p) \in Leases
    BY <1>1, <1>2, <1>5, GrantCovered DEF Leases
  <2>. HIDE DEF a
  <2>7. /\ TypeOK' /\ LeaseInv' /\ OfferedIsLeased'
        /\ phase' = a.phase /\ pin_phase' = Stay(pin_phase).phase
        /\ net' = Open(a.phase, net \ {m}) \cup a.answers \cup Stay(pin_phase).answers
        /\ shocks' = 0 =>
             /\ shocks = 0
             /\ \A x \in net' : x.ok <=> ProtocolOf(x.kind) \in speaks
    BY <1>2, <1>3, <1>4, <1>5, <2>4, <2>5, EffectKeeps
  <2>8. ASSUME shocks' = 0
        PROVE  mapped'.protocol \in speaks'
               /\ Outlasts(net', phase', mapped', FirstRung(mapped'))
    <3>1. p \in speaks
      BY <1>1, <1>5, <2>7, <2>8 DEF LapseInv
    <3>2. /\ FirstRung(Granted(p)) \in Renewals
          /\ ProtocolOf(FirstRung(Granted(p))) = p
      BY <2>6, RungsAre DEF Renewals
    <3>3. Outlasts(net', RenewAt(p), Granted(p), FirstRung(Granted(p)))
      BY <2>6, <3>2, GrantInTime
    <3>. QED
      BY <1>2, <2>4, <2>5, <2>6, <2>7, <3>1, <3>3
  <2>9. ASSUME shocks' = 0, pinhole' # None
        PROVE  "pcp" \in speaks' /\ Outlasts(net', pin_phase', pinhole', "pin")
    <3>1. \A x \in net : x.kind = "pin" => x \in net'
      BY <1>3, <2>7, KindsAre DEF Open, Tcp
    <3>2. pin_phase' = pin_phase
      BY <1>4, <2>7
    <3>. QED
      BY <1>1, <1>2, <2>7, <2>9, <3>1, <3>2, PinholeUndisturbed
  <2>10. LapseInv'
    BY <1>2, <2>7, <2>8, <2>9 DEF LapseInv, Outlasts, Coming
  <2>. QED
    BY <2>7, <2>10 DEF IInv
<1>6. CASE ~(m.ok /\ m.kind \in Grants)
  <2>. DEFINE k == IF m.ok THEN StepAfter(m.kind) ELSE RungAfter(m.kind)
  <2>1. UNCHANGED mapped /\ mapped' \in {None, mapped}
    BY <1>6 DEF LadderAnswered
  <2>2. PICK a \in Try(k, 0) : Effect(a, Stay(pin_phase), net \ {m})
    BY <1>6 DEF LadderAnswered
  <2>3. k \in Udp \cup Tcp \cup {"failed"}
    BY <1>3, <1>6, RungsAre
  <2>4. Proper(a, LadderKinds)
    BY <1>1, <2>2, <2>3, TryProper
  <2>5. /\ TypeOK' /\ LeaseInv' /\ OfferedIsLeased'
        /\ phase' = a.phase /\ pin_phase' = Stay(pin_phase).phase
        /\ net' = Open(a.phase, net \ {m}) \cup a.answers \cup Stay(pin_phase).answers
        /\ shocks' = 0 =>
             /\ shocks = 0
             /\ \A x \in net' : x.ok <=> ProtocolOf(x.kind) \in speaks
    BY <1>2, <1>4, <2>1, <2>2, <2>4, EffectKeeps
  <2>6. shocks' = 0 => mapped' = None
    <3>. SUFFICES ASSUME shocks' = 0, mapped # None
                  PROVE  FALSE
      BY <2>1
    <3>1. /\ mapped.protocol \in speaks
          /\ Outlasts(net, phase, mapped, FirstRung(mapped))
          /\ m.ok <=> ProtocolOf(m.kind) \in speaks
      BY <1>1, <2>5 DEF LapseInv
    <3>2. phase.at = FirstRung(mapped)
      BY <1>2, <1>3, <3>1, KindsAre DEF Outlasts, NetKinds, Udp, Tcp
    <3>. QED
      BY <1>1, <1>2, <1>6, <3>1, <3>2, RenewalOf
  <2>7. ASSUME shocks' = 0, pinhole' # None
        PROVE  "pcp" \in speaks' /\ Outlasts(net', pin_phase', pinhole', "pin")
    <3>1. \A x \in net : x.kind = "pin" => x \in net'
      BY <1>3, <2>5, KindsAre DEF Open, Tcp
    <3>2. pin_phase' = pin_phase
      BY <1>4, <2>5
    <3>. QED
      BY <1>1, <1>2, <2>5, <2>7, <3>1, <3>2, PinholeUndisturbed
  <2>8. LapseInv'
    BY <1>2, <2>5, <2>6, <2>7 DEF LapseInv, Outlasts, Coming
  <2>. QED
    BY <2>5, <2>8 DEF IInv
<1>. QED
  BY <1>5, <1>6

\* An answer about the pinhole.
LEMMA PinholeAnsweredKeeps ==
  ASSUME IInv, NEW m \in net, PinholeAnswered(m)
  PROVE  IInv'
<1>. DEFINE ph == IF m.ok THEN RenewAt("pcp") ELSE Idle(LadderRetry)
<1>1. TypeOK /\ LeaseInv /\ LapseInv
  BY DEF IInv
<1>2. /\ m.due = 0 /\ m.kind = "pin" /\ m.kind \in Grants /\ "pin" \in Renewals
      /\ ProtocolOf("pin") = "pcp"
      /\ UNCHANGED <<mapped, speaks>> /\ mapped' \in {None, mapped}
      /\ phase \in Phases(LadderKinds) /\ net \ {m} \subseteq net
  BY <1>1, RenewalOf DEF PinholeAnswered, Grants
<1>3. /\ pinhole' = IF m.ok THEN Granted("pcp") ELSE pinhole
      /\ Effect(Stay(phase), Stay(ph), net \ {m})
  BY DEF PinholeAnswered
<1>4. ph \in Phases(PinKinds)
  <2>1. RenewAt("pcp") \in Phases({"idle"})
    BY <1>2, RenewalPhase
  <2>2. Idle(LadderRetry) \in Phases({"idle"})
    BY TimesAre DEF Idle, Phases
  <2>3. Phases({"idle"}) \subseteq Phases(PinKinds)
    BY DEF Phases, PinKinds
  <2>. QED
    BY <2>1, <2>2, <2>3
<1>. HIDE DEF ph
<1>5. /\ Proper(Stay(phase), LadderKinds) /\ Stay(phase).phase = phase
      /\ Stay(phase).answers = {}
      /\ Proper(Stay(ph), PinKinds) /\ Stay(ph).phase = ph /\ Stay(ph).answers = {}
  BY <1>1, <1>2, <1>4, StayIs
<1>6. /\ TypeOK' /\ LeaseInv' /\ OfferedIsLeased'
      /\ phase' = Stay(phase).phase /\ pin_phase' = Stay(ph).phase
      /\ net' = Open(Stay(phase).phase, net \ {m})
                  \cup Stay(phase).answers \cup Stay(ph).answers
      /\ shocks' = 0 =>
           /\ shocks = 0
           /\ \A x \in net' : x.ok <=> ProtocolOf(x.kind) \in speaks
  BY <1>2, <1>3, <1>5, EffectKeeps
<1>7. ASSUME shocks' = 0, mapped' # None
      PROVE  mapped'.protocol \in speaks'
             /\ Outlasts(net', phase', mapped', FirstRung(mapped'))
  <2>1. phase' = phase
    BY <1>5, <1>6
  <2>2. phase.at # "pin"
    BY <1>2 DEF Phases, LadderKinds, Udp, Tcp
  <2>3. \A x \in net : x.kind = phase.at => x \in net'
    BY <1>2, <1>5, <1>6, <2>2 DEF Open
  <2>. QED
    BY <1>1, <1>2, <1>6, <1>7, <2>1, <2>3, MappingUndisturbed
<1>8. ASSUME shocks' = 0, pinhole' # None
      PROVE  "pcp" \in speaks' /\ Outlasts(net', pin_phase', pinhole', "pin")
  <2>1. m.ok <=> "pcp" \in speaks
    BY <1>1, <1>2, <1>6, <1>8 DEF LapseInv
  <2>2. pinhole # None => "pcp" \in speaks
    BY <1>1, <1>6, <1>8 DEF LapseInv
  <2>3. m.ok /\ "pcp" \in speaks
    BY <1>3, <1>8, <2>1, <2>2
  <2>4. pinhole' = Granted("pcp") /\ pinhole'.left = Lease["pcp"]
    BY <1>3, <2>3 DEF Granted, Life
  <2>5. pin_phase' = RenewAt("pcp")
    BY <1>5, <1>6, <2>3 DEF ph
  <2>6. Outlasts(net', RenewAt("pcp"), pinhole', "pin")
    BY <1>2, <2>4, GrantInTime
  <2>. QED
    BY <1>2, <2>3, <2>5, <2>6
<1>9. LapseInv'
  BY <1>2, <1>6, <1>7, <1>8 DEF LapseInv, Outlasts, Coming
<1>. QED
  BY <1>6, <1>9 DEF IInv

\* An answer that comes too late.
LEMMA InertKeeps ==
  ASSUME IInv, NEW m \in net, Inert(m)
  PROVE  IInv'
<1>1. TypeOK /\ LeaseInv /\ OfferedIsLeased /\ LapseInv
  BY DEF IInv
<1>2. /\ m.kind # phase.at /\ m.kind # "pin" /\ net' = net \ {m}
      /\ phase' = phase /\ mapped' = mapped /\ pin_phase' = pin_phase
      /\ pinhole' = pinhole /\ bound' = bound /\ speaks' = speaks
      /\ leases' = leases /\ shocks' = shocks
  BY DEF Inert
<1>3. TypeOK'
  BY <1>1, <1>2 DEF TypeOK
<1>4. LeaseInv'
  BY <1>1, <1>2 DEF LeaseInv, Promises
<1>5. OfferedIsLeased'
  BY <1>1, <1>2 DEF OfferedIsLeased, Covers
<1>6. ASSUME shocks' = 0
      PROVE  \A x \in net' : x.ok <=> ProtocolOf(x.kind) \in speaks'
  BY <1>1, <1>2, <1>6 DEF LapseInv
<1>7. ASSUME shocks' = 0, mapped' # None
      PROVE  mapped'.protocol \in speaks'
             /\ Outlasts(net', phase', mapped', FirstRung(mapped'))
  <2>1. \A x \in net : x.kind = phase.at => x \in net'
    BY <1>2
  <2>. QED
    BY <1>1, <1>2, <1>7, <2>1, MappingUndisturbed
<1>8. ASSUME shocks' = 0, pinhole' # None
      PROVE  "pcp" \in speaks' /\ Outlasts(net', pin_phase', pinhole', "pin")
  <2>1. \A x \in net : x.kind = "pin" => x \in net'
    BY <1>2
  <2>. QED
    BY <1>1, <1>2, <1>8, <2>1, PinholeUndisturbed
<1>9. LapseInv'
  BY <1>6, <1>7, <1>8 DEF LapseInv, Outlasts, Coming
<1>. QED
  BY <1>3, <1>4, <1>5, <1>9 DEF IInv

\* The gateway is restarted: this is a shock, and it remembers nothing.
LEMMA GatewayRestartsKeeps ==
  ASSUME IInv, GatewayRestarts
  PROVE  IInv'
<1>1. TypeOK /\ LeaseInv
  BY DEF IInv
<1>2. /\ phase' = phase /\ mapped' = mapped /\ pin_phase' = pin_phase
      /\ pinhole' = pinhole /\ bound' = bound /\ net' = net /\ speaks' \in Gateways
      /\ leases' = [l \in LeaseNames |-> None]
      /\ shocks' \in 0 .. MaxShocks /\ shocks' # 0
  BY <1>1, TimesAre DEF GatewayRestarts, TypeOK, LeaseNames
<1>3. TypeOK'
  <2>1. leases' \in [LeaseNames -> Nat \cup {None}]
    BY <1>2
  <2>. QED
    BY <1>1, <1>2, <2>1 DEF TypeOK, LeaseNames
<1>4. \A l \in LeaseNames : leases'[l] = None
  BY <1>2
<1>5. LeaseInv'
  <2>1. \A m : m.kind \in Grants => LeaseOf(m.kind) \in LeaseNames
    BY DEF Grants, LeaseOf, ProtocolOf, LeaseNames, Protocols
  <2>2. \A m : Promises(leases', m)
    BY <1>4, <2>1 DEF Promises
  <2>. QED
    BY <1>1, <1>2, <2>2 DEF LeaseInv, Promises
<1>6. OfferedIsLeased'
  <2>1. mapped # None => mapped.protocol \in LeaseNames
    BY <1>1 DEF TypeOK, Leases, LeaseNames
  <2>2. "pin" \in LeaseNames
    BY DEF LeaseNames
  <2>. QED
    BY <1>2, <1>4, <2>1, <2>2 DEF OfferedIsLeased, Covers
<1>7. LapseInv'
  BY <1>2 DEF LapseInv
<1>. QED
  BY <1>3, <1>5, <1>6, <1>7 DEF IInv

\* Time passes for a lease and its renewal alike.
LEMMA PassedInTime ==
  ASSUME NEW ms, ms \subseteq NetType, \A x \in ms : x.due > 0,
         NEW ph \in Phases(LadderKinds \cup PinKinds), ph.left > 0,
         NEW m \in [protocol : Protocols, left : Nat], NEW k \in Renewals,
         Outlasts(ms, ph, m, k)
  PROVE  Outlasts({[x EXCEPT !.due = @ - 1] : x \in ms}, Passed(ph), Passed(m), k)
<1>. DEFINE ns == {[x EXCEPT !.due = @ - 1] : x \in ms}
<1>1. ph.left \in Nat /\ ph.attempt \in Nat /\ m.left \in Nat /\ m.left > ph.left
  BY InTimeLasts DEF Phases
<1>2. ph # None /\ m # None
  BY NoneAssumption DEF LadderKinds, PinKinds, Phases
<1>3. /\ Passed(ph).at = ph.at /\ Passed(ph).attempt = ph.attempt
      /\ Passed(ph).left = ph.left - 1
  BY <1>1, <1>2 DEF Passed, Less, Phases
<1>4. Passed(m).left = m.left - 1
  BY <1>1, <1>2 DEF Passed, Less
<1>5. Coming(ms, k, ph.left) => Coming(ns, k, ph.left - 1)
  <2>. SUFFICES ASSUME NEW x \in ms, x.kind = k, x.ok, x.due < ph.left
                PROVE  Coming(ns, k, ph.left - 1)
    BY DEF Coming
  <2>. DEFINE y == [x EXCEPT !.due = @ - 1]
  <2>1. x \in NetType /\ x.due \in Nat
    BY DEF NetType
  <2>2. y \in ns /\ y.kind = x.kind /\ y.ok = x.ok /\ y.due = x.due - 1
    BY <2>1 DEF NetType
  <2>. HIDE DEF y, ns
  <2>3. y.due < ph.left - 1
    BY <1>1, <2>1, <2>2
  <2>. QED
    BY <2>2, <2>3, Zenon DEF Coming
<1>. HIDE DEF ns
<1>6. Whole(k) \in Nat /\ (ph.attempt < StepAttempts => After(ph.attempt) \in Nat)
  BY <1>1, Attempts
<1>7. Outlasts(ns, Passed(ph), Passed(m), k)
  BY <1>1, <1>3, <1>4, <1>5, <1>6 DEF Outlasts
<1>. QED
  BY <1>7 DEF ns

\* Time passes.
LEMMA TickKeeps ==
  ASSUME IInv, Tick
  PROVE  IInv'
<1>1. TypeOK /\ LeaseInv /\ OfferedIsLeased /\ LapseInv
  BY DEF IInv
<1>2. /\ \A m \in net : m.due > 0
      /\ phase' = Passed(phase) /\ pin_phase' = Passed(pin_phase)
      /\ mapped' = Passed(mapped) /\ pinhole' = Passed(pinhole)
      /\ net' = {[m EXCEPT !.due = @ - 1] : m \in net}
      /\ bound' = bound /\ speaks' = speaks /\ shocks' = shocks
  BY DEF Tick
<1>3. /\ phase \in Phases(LadderKinds) /\ pin_phase \in Phases(PinKinds)
      /\ phase \in Phases(LadderKinds \cup PinKinds)
      /\ pin_phase \in Phases(LadderKinds \cup PinKinds)
      /\ net \subseteq NetType
      /\ phase # None /\ pin_phase # None
      /\ phase.left > 0 /\ pin_phase.left > 0
  <2>1. /\ phase \in Phases(LadderKinds) /\ pin_phase \in Phases(PinKinds)
        /\ phase \in Phases(LadderKinds \cup PinKinds)
        /\ pin_phase \in Phases(LadderKinds \cup PinKinds)
        /\ net \subseteq NetType
    BY <1>1, RenewalOf
  <2>2. phase.left \in Nat /\ pin_phase.left \in Nat
    BY <2>1 DEF Phases
  <2>3. phase # None /\ pin_phase # None
    BY <2>1, NoneAssumption DEF LadderKinds, PinKinds, Phases
  <2>4. PollTimeout > 0
    BY DEF Tick
  <2>. QED
    BY <2>1, <2>2, <2>3, <2>4 DEF PollTimeout
<1>4. \A n \in Nat : Less(n) \in Nat /\ Less(n) <= n /\ (n > 0 => Less(n) = n - 1)
                     /\ n <= Less(n) + 1
  BY DEF Less
<1>5. ASSUME NEW o \in Leases
      PROVE  /\ Passed(o) \in Leases
             /\ Passed(o) = None <=> o = None
             /\ o # None => /\ o \in [protocol : Protocols, left : Nat]
                            /\ o.left \in Nat
                            /\ Passed(o).protocol = o.protocol
                            /\ Passed(o).left = Less(o.left)
  <2>1. CASE o = None
    BY <2>1 DEF Passed, Leases
  <2>2. CASE o # None
    <3>1. o \in [protocol : Protocols, left : Nat]
      BY <2>2 DEF Leases
    <3>2. Passed(o) = [o EXCEPT !.left = Less(o.left)]
      BY <2>2 DEF Passed
    <3>3. /\ Passed(o) \in [protocol : Protocols, left : Nat]
          /\ Passed(o).protocol = o.protocol /\ Passed(o).left = Less(o.left)
      BY <1>4, <3>1, <3>2
    <3>4. Passed(o) # None
      BY <3>3, NoneAssumption
    <3>. QED
      BY <2>2, <3>1, <3>3, <3>4 DEF Leases
  <2>. QED
    BY <2>1, <2>2
<1>6. /\ mapped' \in Leases /\ pinhole' \in Leases
      /\ mapped' = None <=> mapped = None
      /\ pinhole' = None <=> pinhole = None
      /\ mapped # None => /\ mapped \in [protocol : Protocols, left : Nat]
                          /\ mapped'.protocol = mapped.protocol
                          /\ mapped'.left = Less(mapped.left)
                          /\ mapped.left \in Nat
      /\ pinhole # None => /\ pinhole \in [protocol : Protocols, left : Nat]
                           /\ pinhole'.left = Less(pinhole.left)
                           /\ pinhole.left \in Nat
  BY <1>1, <1>2, <1>5 DEF TypeOK
<1>7. \A l \in LeaseNames :
        /\ leases[l] \in Nat \cup {None}
        /\ leases'[l] = IF leases[l] = None THEN None ELSE Less(leases[l])
  BY <1>1 DEF TypeOK, LeaseNames, Tick
<1>8. ASSUME NEW y \in net'
      PROVE  \E x \in net : /\ x \in NetType /\ y \in NetType
                            /\ y.kind = x.kind /\ y.ok = x.ok /\ y.due = x.due - 1
  <2>1. PICK x \in net : y = [x EXCEPT !.due = @ - 1]
    BY <1>2
  <2>2. x \in NetType /\ x.due \in Nat /\ x.due > 0
    BY <1>2, <1>3 DEF NetType
  <2>3. x.due - 1 \in Nat
    BY <2>2
  <2>4. y.kind = x.kind /\ y.ok = x.ok /\ y.due = x.due - 1 /\ y \in NetType
    BY <2>1, <2>2, <2>3 DEF NetType
  <2>. QED
    BY <2>2, <2>4
<1>9. TypeOK'
  <2>1. phase' \in Phases(LadderKinds) /\ pin_phase' \in Phases(PinKinds)
    BY <1>2, <1>3, <1>4 DEF Passed, Phases
  <2>2. net' \subseteq NetType
    BY <1>8
  <2>3. leases' \in [LeaseNames -> Nat \cup {None}]
    <3>1. leases' = [l \in LeaseNames |-> leases'[l]]
      BY <1>1 DEF TypeOK, LeaseNames, Tick
    <3>2. \A l \in LeaseNames : leases'[l] \in Nat \cup {None}
      BY <1>4, <1>7
    <3>. QED
      BY <3>1, <3>2
  <2>. QED
    BY <1>1, <1>2, <1>6, <2>1, <2>2, <2>3
       DEF TypeOK, LadderKinds, PinKinds, NetType, NetKinds, LeaseNames
<1>10. LeaseInv'
  <2>1. ASSUME NEW y \in net'
        PROVE  y.due <= MaxDelay /\ Promises(leases', y)
    <3>1. PICK x \in net : /\ x \in NetType /\ y \in NetType
                           /\ y.kind = x.kind /\ y.ok = x.ok /\ y.due = x.due - 1
      BY <1>8
    <3>2. x.due <= MaxDelay /\ Promises(leases, x) /\ x.due \in Nat
      BY <1>1, <3>1 DEF LeaseInv, NetType
    <3>3. y.due <= MaxDelay
      BY <3>1, <3>2, TimesAre
    <3>4. ASSUME y.ok, y.kind \in Grants, leases'[LeaseOf(y.kind)] # None
          PROVE  Lease[ProtocolOf(y.kind)] + y.due <= leases'[LeaseOf(y.kind)] + MaxDelay
      <4>1. /\ LeaseOf(x.kind) \in LeaseNames /\ Lease[ProtocolOf(x.kind)] \in Nat
        BY <3>1, <3>4, TimesAre
           DEF Grants, LeaseOf, ProtocolOf, LeaseNames, Protocols
      <4>2. /\ leases[LeaseOf(x.kind)] \in Nat
            /\ leases'[LeaseOf(x.kind)] = Less(leases[LeaseOf(x.kind)])
            /\ leases[LeaseOf(x.kind)] # None
        BY <1>7, <3>1, <3>4, <4>1
      <4>3. Lease[ProtocolOf(x.kind)] + x.due <= leases[LeaseOf(x.kind)] + MaxDelay
        BY <3>1, <3>2, <3>4, <4>2 DEF Promises
      <4>4. /\ Less(leases[LeaseOf(x.kind)]) \in Nat
            /\ leases[LeaseOf(x.kind)] <= Less(leases[LeaseOf(x.kind)]) + 1
        BY <1>4, <4>2
      <4>. QED
        BY <3>1, <3>2, <4>1, <4>2, <4>3, <4>4, TimesAre
    <3>. QED
      BY <3>3, <3>4 DEF Promises
  <2>2. mapped' # None => mapped'.left <= Lease[mapped'.protocol]
    <3>. SUFFICES ASSUME mapped # None
                  PROVE  Less(mapped.left) <= Lease[mapped.protocol]
      BY <1>6
    <3>1. mapped.left <= Lease[mapped.protocol] /\ mapped.protocol \in Protocols
      BY <1>1, <1>6 DEF LeaseInv
    <3>2. /\ Less(mapped.left) \in Nat /\ Less(mapped.left) <= mapped.left
          /\ Lease[mapped.protocol] \in Nat /\ mapped.left \in Nat
      BY <1>4, <1>6, <3>1, TimesAre
    <3>. QED
      BY <3>1, <3>2
  <2>3. pinhole' # None => pinhole'.left <= Lease["pcp"]
    <3>. SUFFICES ASSUME pinhole # None
                  PROVE  Less(pinhole.left) <= Lease["pcp"]
      BY <1>6
    <3>1. pinhole.left <= Lease["pcp"] /\ Lease["pcp"] \in Nat
      BY <1>1, TimesAre DEF LeaseInv, Protocols
    <3>2. /\ Less(pinhole.left) \in Nat /\ Less(pinhole.left) <= pinhole.left
          /\ pinhole.left \in Nat
      BY <1>4, <1>6
    <3>. QED
      BY <3>1, <3>2
  <2>. QED
    BY <2>1, <2>2, <2>3 DEF LeaseInv, Promises
<1>11. ASSUME NEW l \in LeaseNames, NEW n \in Nat,
              leases[l] # None => n <= leases[l] + MaxDelay
       PROVE  leases'[l] # None => Less(n) <= leases'[l] + MaxDelay
  BY <1>7, <1>11, TimesAre DEF Less
<1>12. OfferedIsLeased'
  <2>1. ASSUME mapped # None
        PROVE  leases'[mapped'.protocol] # None =>
                 mapped'.left <= leases'[mapped'.protocol] + MaxDelay
    <3>1. /\ mapped.protocol \in LeaseNames /\ mapped.left \in Nat
          /\ leases[mapped.protocol] # None =>
               mapped.left <= leases[mapped.protocol] + MaxDelay
      BY <1>1, <1>6, <2>1 DEF OfferedIsLeased, Covers, LeaseNames
    <3>. QED
      BY <1>6, <1>11, <2>1, <3>1
  <2>2. ASSUME pinhole # None
        PROVE  leases'["pin"] # None => pinhole'.left <= leases'["pin"] + MaxDelay
    <3>1. /\ "pin" \in LeaseNames /\ pinhole.left \in Nat
          /\ leases["pin"] # None => pinhole.left <= leases["pin"] + MaxDelay
      BY <1>1, <1>6, <2>2 DEF OfferedIsLeased, Covers, LeaseNames
    <3>. QED
      BY <1>6, <1>11, <2>2, <3>1
  <2>. QED
    BY <1>6, <2>1, <2>2 DEF OfferedIsLeased, Covers
<1>13. ASSUME shocks' = 0
       PROVE  \A x \in net' : x.ok <=> ProtocolOf(x.kind) \in speaks'
  BY <1>1, <1>2, <1>8, <1>13 DEF LapseInv
<1>14. ASSUME shocks' = 0, mapped' # None
       PROVE  mapped'.protocol \in speaks'
              /\ Outlasts(net', phase', mapped', FirstRung(mapped'))
  <2>1. mapped.protocol \in speaks /\ Outlasts(net, phase, mapped, FirstRung(mapped))
    BY <1>1, <1>2, <1>6, <1>14 DEF LapseInv
  <2>2. FirstRung(mapped) \in Renewals /\ mapped \in [protocol : Protocols, left : Nat]
    BY <1>1, <1>6, <1>14, RenewalOf
  <2>3. Outlasts(net', Passed(phase), Passed(mapped), FirstRung(mapped))
    BY <1>2, <1>3, <2>1, <2>2, PassedInTime
  <2>4. FirstRung(mapped') = FirstRung(mapped)
    BY <1>6, <1>14 DEF FirstRung
  <2>. QED
    BY <1>2, <1>6, <1>14, <2>1, <2>3, <2>4
<1>15. ASSUME shocks' = 0, pinhole' # None
       PROVE  "pcp" \in speaks' /\ Outlasts(net', pin_phase', pinhole', "pin")
  <2>1. "pcp" \in speaks /\ Outlasts(net, pin_phase, pinhole, "pin")
    BY <1>1, <1>2, <1>6, <1>15 DEF LapseInv
  <2>2. "pin" \in Renewals /\ pinhole \in [protocol : Protocols, left : Nat]
    BY <1>6, <1>15 DEF Renewals
  <2>3. Outlasts(net', Passed(pin_phase), Passed(pinhole), "pin")
    BY <1>2, <1>3, <2>1, <2>2, PassedInTime
  <2>. QED
    BY <1>2, <2>1, <2>3
<1>16. LapseInv'
  BY <1>13, <1>14, <1>15 DEF LapseInv, Outlasts, Coming
<1>. QED
  BY <1>9, <1>10, <1>12, <1>16 DEF IInv

-----------------------------------------------------------------------------
(* The theorems.                                                           *)

\* The invariant holds initially.
LEMMA InitHolds == Init => IInv
<1>. SUFFICES ASSUME Init
              PROVE  IInv
  OBVIOUS
<1>1. TypeOK
  <2>1. phase = Idle(0) /\ pin_phase = Idle(0) /\ Idle(0) \in Phases({"idle"})
    BY DEF Init, Idle, Phases
  <2>2. phase \in Phases({"idle"} \cup Udp \cup Tcp)
        /\ pin_phase \in Phases({"idle", "pin"})
    BY <2>1 DEF Phases
  <2>3. leases \in [Protocols \cup {"pin"} -> Nat \cup {None}]
    BY DEF Init
  <2>4. shocks \in 0 .. MaxShocks
    BY TimesAre DEF Init
  <2>. QED
    BY <2>2, <2>3, <2>4 DEF Init, TypeOK, Leases
<1>2. LeaseInv /\ OfferedIsLeased /\ LapseInv
  BY DEF Init, LeaseInv, OfferedIsLeased, LapseInv
<1>. QED
  BY <1>1, <1>2 DEF IInv

\* Every step keeps the invariant.
LEMMA NextKeeps == IInv /\ [Next]_vars => IInv'
<1>. SUFFICES ASSUME IInv, [Next]_vars
              PROVE  IInv'
  OBVIOUS
<1>1. CASE OnTimer
  BY <1>1, OnTimerKeeps
<1>2. CASE Delivery
  BY <1>2, LadderAnsweredKeeps, PinholeAnsweredKeeps, InertKeeps DEF Delivery
<1>3. CASE Tick
  BY <1>3, TickKeeps
<1>4. CASE GatewayRestarts
  BY <1>4, GatewayRestartsKeeps
<1>5. CASE UNCHANGED vars
  BY <1>5 DEF vars, IInv, TypeOK, LeaseInv, Promises, OfferedIsLeased, Covers,
              LapseInv, Outlasts, Coming
<1>. QED
  BY <1>1, <1>2, <1>3, <1>4, <1>5 DEF Next

\* The inductive invariant: answers under way tell of leases no older than
\* they may be late, and what remains of a lease covers what remains of its
\* renewal.
THEOREM IInvHolds == Spec => []IInv
  BY InitHolds, NextKeeps, PTL DEF Spec

\* Every variable has its type.
THEOREM TypeCorrect == Spec => []TypeOK
<1>1. IInv => TypeOK
  BY DEF IInv
<1>. QED
  BY <1>1, IInvHolds, PTL

\* mapped_external and pinhole_active offer nothing that the gateway has
\* dropped: the node's view of a lease is at most an answer's delay too long.
THEOREM OfferedMappingsLeased == Spec => []OfferedIsLeased
<1>1. IInv => OfferedIsLeased
  BY DEF IInv
<1>. QED
  BY <1>1, IInvHolds, PTL

\* A lease that outlasts its renewal has not lapsed.
LEMMA RenewedInTime == IInv => NeverLapses
<1>. SUFFICES ASSUME IInv, shocks = 0
              PROVE  /\ mapped # None => mapped.left > 0
                     /\ pinhole # None => pinhole.left > 0
  BY DEF NeverLapses
<1>1. TypeOK /\ LapseInv
  BY DEF IInv
<1>2. ASSUME mapped # None
      PROVE  mapped.left > 0
  <2>1. Outlasts(net, phase, mapped, FirstRung(mapped))
    BY <1>1, <1>2 DEF LapseInv
  <2>2. /\ FirstRung(mapped) \in Renewals /\ mapped.left \in Nat
        /\ phase \in Phases(LadderKinds \cup PinKinds)
    BY <1>1, <1>2, RenewalOf
  <2>3. mapped.left > phase.left /\ phase.left \in Nat
    BY <2>1, <2>2, InTimeLasts DEF Phases
  <2>. QED
    BY <2>2, <2>3
<1>3. ASSUME pinhole # None
      PROVE  pinhole.left > 0
  <2>1. Outlasts(net, pin_phase, pinhole, "pin")
    BY <1>1, <1>3 DEF LapseInv
  <2>2. /\ "pin" \in Renewals /\ pinhole.left \in Nat
        /\ pin_phase \in Phases(LadderKinds \cup PinKinds)
    BY <1>1, <1>3, RenewalOf
  <2>3. pinhole.left > pin_phase.left /\ pin_phase.left \in Nat
    BY <2>1, <2>2, InTimeLasts DEF Phases
  <2>. QED
    BY <2>2, <2>3
<1>. QED
  BY <1>2, <1>3

\* "Leases are renewed at half-life": unless there is a shock, neither lease
\* runs out before it is renewed, whatever the gateway speaks and however many
\* requests and answers are lost or late.
THEOREM LeasesNeverLapse == Spec => []NeverLapses
  BY IInvHolds, RenewedInTime, PTL

\* Once on_timer has been called, poll_timeout lies ahead: the driver does not
\* spin.
THEOREM DeadlinesAhead == Spec => NoSpin
<1>1. IInv /\ [Next]_vars => [OnTimer => PollTimeout' > 0]_vars
  <2>. SUFFICES ASSUME IInv, OnTimer
                PROVE  PollTimeout' > 0
    OBVIOUS
  <2>1. IInv' /\ phase'.left > 0 /\ pin_phase'.left > 0
    BY OnTimerKeeps
  <2>. QED
    BY <2>1 DEF PollTimeout
<1>. QED
  BY <1>1, IInvHolds, PTL DEF Spec, NoSpin

-----------------------------------------------------------------------------
(* Dial-back: what holds of the boxes.                                     *)

MapKeys == ({NoAddr} \cup (Nat \X Nat)) \X Nat
Maps == [internal : Addrs, key : MapKeys, port : Nat, allowed : SUBSET Addrs]
Statics == [port : Nat, internal : Addrs]
Boxes == [config : NatConfigs, net : Nat, maps : SUBSET Maps, next : Lo .. Hi,
          static : SUBSET Statics]

\* The requester's socket behind box b.
Own(b) == Local(b, Me, MyPort)

\* Nobody but the requester sits behind its box.
OwnBox(b) ==
  /\ b \in Boxes
  /\ \A m \in b.maps \cup b.static : m.internal = Own(b)

\* Whoever sends to t gets through.
LetsAllIn(b, t) ==
  IF b.config = Public THEN t = Own(b)
  ELSE \/ \E m \in b.static : m.port = Port(t)
       \/ b.config.filtering = "EndpointIndependent" /\ \E m \in b.maps : m.port = Port(t)

\* The box has been used toward this port.
Toward(b, port) == \E m \in b.maps : \E a \in m.allowed : Port(a) = port

\* The networks of the families are told apart.
OddFor(f) == IF f = V4 THEN 1 ELSE 0

BoxesInv ==
  /\ setting \in Settings
  /\ box \in [Families -> Boxes]
  /\ box[V4].config = setting.v4 /\ box[V6].config = Firewall
  /\ \A f \in Families : OwnBox(box[f]) /\ box[f].net > 0 /\ box[f].net % 2 = OddFor(f)

\* A lease that was granted and never lost is there.
GrantInv ==
  /\ lease \in Nat
  /\ \A f \in Families : box[f].static # {} =>
       setting.gateway = Real /\ (faults = 0 => lease # 0)

-----------------------------------------------------------------------------
(* Frames and probes.                                                      *)

Nonces == Nat \X Kinds
Observations ==
  [type : {"AddressObservation"}, helper : Helpers, family : Families, addr : Addrs]
Requests ==
  [type : {"DialBackRequest"}, helper : Helpers, nonce : Nonces, from : Addrs,
   family : Families, port : Nat]
Results == [type : {"DialBackResult"}, nonce : Nonces, target : Addrs, ok : BOOLEAN]
HelperProbes == [nonce : Nonces, family : Families, target : Addrs, socket : Nat]

FramesInv ==
  /\ wire \subseteq Observations \cup Requests \cup Results
  /\ probes \in [Helpers -> SUBSET HelperProbes]
  /\ pending \subseteq [kind : Kinds, nonce : Nonces, candidate : Addrs]
  /\ probed \in [Kinds -> {NoAddr} \cup Addrs]
  /\ confirmed \in [Kinds -> {NoAddr} \cup Addrs]

\* The index leads to a connection.
LinksInv ==
  /\ link \in [Families -> [Helpers -> {NoAddr} \cup Addrs]]
  /\ obs \in [Families -> [Helpers -> {NoAddr} \cup Addrs]]
  /\ index \in [Helpers -> {0} \cup Families]
  /\ \A m \in Helpers : index[m] # 0 => link[index[m]][m] # NoAddr

\* The nonces that are asked about, each by one request or one probe.
Asking == {w.nonce : w \in wire \cap Requests} \cup UNION {{p.nonce : p \in probes[m]} : m \in Helpers}

\* Every nonce is asked about once, from a socket nothing was ever sent to.
NoncesInv ==
  /\ asked \in 0 .. MaxRequests
  /\ \A n \in Asking : n[1] \in 1 .. asked
  /\ \A v, w \in wire \cap Requests : v.nonce = w.nonce => v = w
  /\ \A w \in wire \cap Requests, m \in Helpers : \A p \in probes[m] : w.nonce # p.nonce
  /\ \A m, n \in Helpers : \A p \in probes[m], q \in probes[n] : p.nonce = q.nonce => m = n /\ p = q
  /\ \A m \in Helpers : \A p \in probes[m] : p.socket = FreshSocket(m, p.nonce)
  /\ \A f \in Families, port \in Nat : Toward(box[f], port) =>
       /\ port < 104 + 4 * asked
       /\ \A n \in Asking, m \in Helpers : port # FreshSocket(m, n)

\* A helper within its limit.
HelpersInv ==
  /\ \A m \in Helpers : IsFiniteSet(probes[m]) /\ Cardinality(probes[m]) <= MaxHelperProbes
  /\ \A p, q \in pending : p.kind = q.kind => p = q
  /\ faults \in 0 .. MaxFaults
  /\ ephemeral \in [Helpers -> SUBSET Nat]
  /\ SocketsOwned

-----------------------------------------------------------------------------
(* Verdicts.                                                               *)

\* What was dialled with success is not of a network to come, and while its
\* network is the box's and no lease was lost, everybody gets through to it.
Stands(f, b, t, held) ==
  /\ t[2] % 2 = OddFor(f) => t[2] <= b.net
  /\ t[2] = b.net /\ b.config.filtering # "AddressRestricted" /\ held => LetsAllIn(b, t)

Held == setting.gateway = Real /\ faults > 0 => lease # 0

Verified(t) == \A f \in Families : Stands(f, box[f], t, Held)

VerdictsInv ==
  /\ \A w \in wire \cap Results : w.ok => Verified(w.target)
  /\ \A k \in Kinds : probed[k] # NoAddr => Verified(probed[k])

DialBackInv ==
  BoxesInv /\ GrantInv /\ FramesInv /\ LinksInv /\ NoncesInv /\ HelpersInv /\ VerdictsInv

-----------------------------------------------------------------------------
(* Boxes.                                                                  *)

\* Of some numbers one is the least, and Min is that one.
LEMMA LeastIsMin ==
  ASSUME NEW T \in SUBSET Nat, T # {}
  PROVE  Min(T) \in T /\ \A y \in T : Min(T) <= y
<1>. DEFINE R == OpToRel(<, Nat)
<1>1. IsWellFoundedOn(R, Nat)
  BY NatLessThanWellFounded
<1>2. PICK x \in T : \A y \in T : ~(<<y, x>> \in R)
  <2>. HIDE DEF R
  <2>. QED
    BY <1>1, WFMin
<1>3. \A y \in T : ~(y < x)
  BY <1>2 DEF OpToRel
<1>4. \A y \in T : x <= y
  BY <1>3
<1>. QED
  BY <1>4 DEF Min

\* The configurations there are no boxes of.
LEMMA ConfigFacts ==
  /\ Firewall \in NatConfigs /\ Public \in NatConfigs
  /\ Firewall.mapping = "None" /\ Firewall.filtering = "PortRestricted" /\ Firewall # Public
  /\ Public.filtering = "EndpointIndependent"
<1>1. Firewall.filtering = "PortRestricted" /\ Public.filtering = "EndpointIndependent"
  BY DEF Firewall, Public, NatConfig
<1>2. Firewall \in NatConfigs /\ Public \in NatConfigs /\ Firewall.mapping = "None"
  BY DEF Firewall, Public, NatConfig, NatConfigs, Preserving
<1>. QED
  BY <1>1, <1>2

\* The parts of an address.
LEMMA AddrFacts ==
  ASSUME NEW a \in Addrs
  PROVE  /\ a = <<a[1], a[2], a[3]>> /\ a[1] \in Nat /\ a[2] \in Nat /\ a[3] \in Nat
         /\ Host(a) \in Nat /\ Port(a) \in Nat /\ Ip(a) \in Nat \X Nat
         /\ a # NoAddr
         /\ \A p \in Nat : WithPort(a, p) \in Addrs
<1>1. a = <<a[1], a[2], a[3]>> /\ a[1] \in Nat /\ a[2] \in Nat /\ a[3] \in Nat
  BY DEF Addrs
<1>2. Host(a) \in Nat /\ Port(a) \in Nat /\ Ip(a) \in Nat \X Nat
  BY <1>1 DEF Host, Port, Ip
<1>3. a # NoAddr
  BY <1>1 DEF NoAddr
<1>4. \A p \in Nat : WithPort(a, p) \in Addrs
  BY <1>1 DEF WithPort, Addrs
<1>. QED
  BY <1>1, <1>2, <1>3, <1>4

\* The requester's socket is an address of its box.
LEMMA OwnFacts ==
  ASSUME NEW b \in Boxes
  PROVE  Own(b) \in Addrs /\ Host(Own(b)) = Me /\ Port(Own(b)) = MyPort
BY DialBackAssumption DEF Own, Local, Addrs, Boxes, Host, Port

\* The cursor of a sequential pool stays in it.
LEMMA WalkedInRange ==
  ASSUME NEW b \in Boxes, NEW k \in Nat
  PROVE  Walked(b, k) \in Lo .. Hi
<1>. DEFINE s == b.config.allocator.stride
            n == Hi - Lo + 1
            x == (b.next - Lo) + k * s
<1>1. s \in Nat /\ b.next \in Lo .. Hi /\ Lo \in Nat /\ Hi \in Nat /\ Lo <= Hi
  BY RangeAssumption DEF Boxes, NatConfigs
<1>2. k * s \in Nat
  BY <1>1
<1>3. n \in Nat /\ n > 0
  BY <1>1
<1>4. x \in Nat
  BY <1>1, <1>2
<1>5. \A y, z \in Nat : z > 0 => y % z \in 0 .. z - 1
  OBVIOUS
<1>6. x % n \in 0 .. n - 1
  <2>. HIDE DEF x, n
  <2>. QED
    BY <1>3, <1>4, <1>5
<1>7. Walked(b, k) = Lo + (x % n)
  BY DEF Walked
<1>. HIDE DEF x
<1>. QED
  BY <1>1, <1>6, <1>7

\* What allocate_port may choose is a port, and the cursor stays in the pool.
LEMMA AllocatedPort ==
  ASSUME NEW b \in Boxes, NEW src \in Addrs, NEW p \in AllocatePort(b, src)
  PROVE  p.port \in Nat /\ p.next \in Lo .. Hi
<1>. DEFINE free == {q \in Lo .. Hi : PortAvailable(b, q, NoAddr)}
            steps == {k \in 0 .. Hi - Lo : Walked(b, k) \in free}
<1>1. /\ Port(src) \in Nat /\ b.next \in Lo .. Hi
      /\ Lo .. Hi \subseteq Nat
  BY AddrFacts, RangeAssumption DEF Boxes
<1>2. CASE p = [port |-> Port(src), next |-> b.next]
  BY <1>1, <1>2
<1>3. CASE \E q \in free : p = [port |-> q, next |-> b.next]
  BY <1>1, <1>3
<1>4. CASE steps # {} /\ p = [port |-> Walked(b, Min(steps)), next |-> Walked(b, Min(steps) + 1)]
  <2>1. steps \in SUBSET Nat
    BY RangeAssumption
  <2>2. Min(steps) \in Nat
    <3>. HIDE DEF steps
    <3>. QED
      BY <1>4, <2>1, LeastIsMin
  <2>. HIDE DEF steps
  <2>3. Walked(b, Min(steps)) \in Lo .. Hi /\ Walked(b, Min(steps) + 1) \in Lo .. Hi
    BY <2>2, WalkedInRange
  <2>. QED
    BY <1>1, <1>4, <2>3
<1>. QED
  BY <1>2, <1>3, <1>4 DEF AllocatePort

\* What a datagram that leaves does to the box: it keeps its leases and the ports
\* of its mappings, and is used toward one destination more.
LEMMA OutboundKeeps ==
  ASSUME NEW b, OwnBox(b), NEW dst \in Addrs, NEW out \in Outbound(b, Own(b), dst)
  PROVE  /\ OwnBox(out.box) /\ Own(out.box) = Own(b)
         /\ out.box.config = b.config /\ out.box.net = b.net /\ out.box.static = b.static
         /\ \A m \in b.maps : \E l \in out.box.maps : l.port = m.port
         /\ \A port \in Nat : Toward(out.box, port) => port = Port(dst) \/ Toward(b, port)
         /\ out.src \in Addrs /\ out.src[2] = b.net
<1>. DEFINE src == Own(b)
            key == MapKey(b.config, dst)
            held == {m.port : m \in {l \in b.static : l.internal = src}}
            live == {m \in b.maps : m.internal = src /\ m.key = key}
            Used(m) == [m EXCEPT !.allowed = @ \cup {dst}]
            New(port) == [internal |-> src, key |-> key, port |-> port, allowed |-> {dst}]
<1>1. b \in Boxes /\ \A m \in b.maps \cup b.static : m.internal = src
  BY DEF OwnBox
<1>2. src \in Addrs /\ Host(src) \in Nat /\ b.net \in Nat
  BY <1>1, OwnFacts, AddrFacts DEF Boxes
<1>3. key \in MapKeys
  BY AddrFacts DEF MapKey, MapKeys
<1>4. \A port \in Nat : External(b, src, port) \in Addrs /\ External(b, src, port)[2] = b.net
  BY <1>2 DEF External, Addrs
<1>5. b.maps \subseteq Maps /\ b.static \subseteq Statics
  BY <1>1 DEF Boxes
<1>6. \A c \in Boxes : c.config = b.config /\ c.net = b.net => Own(c) = Own(b)
  BY DEF Own, Local
<1>7. CASE held # {} /\ out = [box |-> b, src |-> External(b, src, Min(held))]
  <2>1. held \in SUBSET Nat
    BY <1>5 DEF Statics
  <2>2. Min(held) \in Nat
    <3>. HIDE DEF held
    <3>. QED
      BY <1>7, <2>1, LeastIsMin
  <2>. HIDE DEF held, src
  <2>3. out.box = b /\ out.src \in Addrs /\ out.src[2] = b.net
    BY <1>4, <1>7, <2>2
  <2>. QED
    BY <2>3
<1>8. CASE \E m \in live : out = [box |-> [b EXCEPT !.maps = (@ \ {m}) \cup {Used(m)}],
                                  src |-> External(b, src, m.port)]
  <2>1. PICK m \in live : out = [box |-> [b EXCEPT !.maps = (@ \ {m}) \cup {Used(m)}],
                                  src |-> External(b, src, m.port)]
    BY <1>8
  <2>. DEFINE u == Used(m)
              c == [b EXCEPT !.maps = (@ \ {m}) \cup {u}]
  <2>2. m \in b.maps /\ m \in Maps
    BY <1>5
  <2>3. /\ u \in Maps /\ u.internal = m.internal /\ u.port = m.port
        /\ u.allowed = m.allowed \cup {dst}
    BY <2>2 DEF Maps
  <2>. HIDE DEF u, live, src
  <2>4. /\ c \in Boxes /\ c.config = b.config /\ c.net = b.net /\ c.static = b.static
        /\ c.maps = (b.maps \ {m}) \cup {u}
    BY <1>1, <1>5, <2>3 DEF Boxes
  <2>. HIDE DEF c
  <2>5. Own(c) = src
    BY <1>6, <2>4 DEF src
  <2>6. OwnBox(c)
    BY <1>1, <2>2, <2>3, <2>4, <2>5 DEF OwnBox
  <2>7. \A l \in b.maps : \E n \in c.maps : n.port = l.port
    BY <2>2, <2>3, <2>4
  <2>8. \A port \in Nat : Toward(c, port) => port = Port(dst) \/ Toward(b, port)
    BY <2>2, <2>3, <2>4 DEF Toward
  <2>9. m.port \in Nat
    BY <2>2 DEF Maps
  <2>10. out.box = c /\ out.src = External(b, src, m.port)
    BY <2>1 DEF c, u
  <2>. QED
    BY <1>4, <2>4, <2>5, <2>6, <2>7, <2>8, <2>9, <2>10 DEF src
<1>9. CASE \E p \in AllocatePort(b, src) :
             out = [box |-> [b EXCEPT !.maps = @ \cup {New(p.port)}, !.next = p.next],
                    src |-> External(b, src, p.port)]
  <2>1. PICK p \in AllocatePort(b, src) :
               out = [box |-> [b EXCEPT !.maps = @ \cup {New(p.port)}, !.next = p.next],
                      src |-> External(b, src, p.port)]
    BY <1>9
  <2>. DEFINE u == New(p.port)
              c == [b EXCEPT !.maps = @ \cup {u}, !.next = p.next]
  <2>2. p.port \in Nat /\ p.next \in Lo .. Hi
    BY <1>1, <1>2, AllocatedPort
  <2>3. /\ u \in Maps /\ u.internal = src /\ u.allowed = {dst}
    BY <1>2, <1>3, <2>2 DEF Maps
  <2>. HIDE DEF u, src
  <2>4. /\ c \in Boxes /\ c.config = b.config /\ c.net = b.net /\ c.static = b.static
        /\ c.maps = b.maps \cup {u}
    BY <1>1, <1>5, <2>2, <2>3 DEF Boxes
  <2>. HIDE DEF c
  <2>5. Own(c) = src
    BY <1>6, <2>4 DEF src
  <2>6. OwnBox(c)
    BY <1>1, <2>3, <2>4, <2>5 DEF OwnBox
  <2>7. \A l \in b.maps : \E n \in c.maps : n.port = l.port
    BY <2>4
  <2>8. \A port \in Nat : Toward(c, port) => port = Port(dst) \/ Toward(b, port)
    BY <2>3, <2>4 DEF Toward
  <2>10. out.box = c /\ out.src = External(b, src, p.port)
    BY <2>1 DEF c, u
  <2>. QED
    BY <1>4, <2>2, <2>4, <2>5, <2>6, <2>7, <2>8, <2>10 DEF src
<1>. QED
  BY <1>7, <1>8, <1>9 DEF Outbound

\* A datagram from where nothing was sent to comes in only where everybody's does.
LEMMA InboundOpens ==
  ASSUME NEW b, OwnBox(b), NEW t \in Addrs, NEW s \in Addrs,
         b.config.filtering # "AddressRestricted",
         ~Toward(b, Port(s)), Inbound(b, s, t) = Own(b)
  PROVE  LetsAllIn(b, t)
<1>. DEFINE leased == {m.internal : m \in {l \in b.static : l.port = Port(t)}}
            passed == {m.internal : m \in {l \in b.maps : l.port = Port(t) /\ Passes(b.config, l, s)}}
<1>1. Own(b) # NoAddr /\ b \in Boxes
  BY OwnFacts, AddrFacts DEF OwnBox
<1>2. CASE b.config = Public
  BY <1>1, <1>2 DEF Inbound, LetsAllIn
<1>3. CASE b.config # Public
  <2>1. leased # {} \/ passed # {}
    BY <1>1, <1>3 DEF Inbound
  <2>2. CASE leased # {}
    BY <1>3, <2>2 DEF LetsAllIn
  <2>3. CASE passed # {}
    <3>1. PICK l \in b.maps : l.port = Port(t) /\ Passes(b.config, l, s)
      BY <2>3
    <3>2. s \notin l.allowed
      BY DEF Toward
    <3>3. b.config.filtering = "EndpointIndependent"
      BY <3>1, <3>2 DEF Passes
    <3>. QED
      BY <1>3, <3>1, <3>3 DEF LetsAllIn
  <2>. QED
    BY <2>1, <2>2, <2>3
<1>. QED
  BY <1>2, <1>3

\* What is open lets everybody in to the requester's socket.
LEMMA OpenReaches ==
  ASSUME NEW b, OwnBox(b), NEW t \in Addrs, t[2] = b.net, LetsAllIn(b, t), NEW s
  PROVE  Inbound(b, s, t) = Own(b)
<1>. DEFINE leased == {m.internal : m \in {l \in b.static : l.port = Port(t)}}
            passed == {m.internal : m \in {l \in b.maps : l.port = Port(t) /\ Passes(b.config, l, s)}}
            found == IF leased # {} THEN leased ELSE passed
<1>1. CASE b.config = Public
  BY <1>1 DEF Inbound, LetsAllIn
<1>2. CASE b.config # Public
  <2>1. \A x \in found : x = Own(b)
    BY DEF OwnBox
  <2>2. found # {}
    <3>1. CASE \E m \in b.static : m.port = Port(t)
      BY <3>1
    <3>2. CASE b.config.filtering = "EndpointIndependent" /\ \E m \in b.maps : m.port = Port(t)
      <4>1. passed # {}
        BY <3>2 DEF Passes
      <4>. QED
        BY <4>1
    <3>. QED
      BY <1>2, <3>1, <3>2 DEF LetsAllIn
  <2>3. found = {Own(b)}
    BY <2>1, <2>2
  <2>4. Inbound(b, s, t) = IF found = {} THEN NoAddr ELSE CHOOSE a \in found : TRUE
    BY <1>2 DEF Inbound
  <2>. HIDE DEF found
  <2>. QED
    BY <2>3, <2>4
<1>. QED
  BY <1>1, <1>2

\* A box with the same address, all its leases and all its ports is as open.
LEMMA OpenGrows ==
  ASSUME NEW b, NEW c, NEW t, LetsAllIn(b, t), Own(c) = Own(b), c.config = b.config,
         b.static \subseteq c.static,
         \A m \in b.maps : \E l \in c.maps : l.port = m.port
  PROVE  LetsAllIn(c, t)
BY DEF LetsAllIn

-----------------------------------------------------------------------------
(* What observations say.                                                  *)

\* A candidate is one of the observations.
LEMMA ConsistentIsAddr ==
  ASSUME NEW D, NEW ob \in [D -> {NoAddr} \cup Addrs], NEW l
  PROVE  IsAddr(ConsistentMapping(l, ob))
<1>1. CASE Observers(ob) = {}
  <2>1. {Ip(o) : o \in Observers(ob)} = {}
    BY <1>1
  <2>2. Cardinality({Ip(o) : o \in Observers(ob)}) < 2
    BY <2>1, FS_EmptySet
  <2>3. Classify(l, ob) = Unknown
    BY <2>2 DEF Classify
  <2>4. ~IsEndpointIndependent(Classify(l, ob))
    BY <2>3 DEF IsEndpointIndependent, Unknown
  <2>. QED
    BY <2>4 DEF ConsistentMapping, IsAddr
<1>2. CASE Observers(ob) # {}
  <2>1. Mappings(ob) # {} /\ Mappings(ob) \subseteq Addrs
    BY <1>2 DEF Mappings, Observers
  <2>2. (CHOOSE m \in Mappings(ob) : TRUE) \in Addrs
    BY <2>1
  <2>. QED
    BY <2>2 DEF ConsistentMapping, IsAddr
<1>. QED
  BY <1>1, <1>2

\* The address most observers report is one they report, ties included.
LEMMA ExternalIsIp ==
  ASSUME NEW D, IsFiniteSet(D), NEW ob \in [D -> {NoAddr} \cup Addrs]
  PROVE  ExternalIp(ob) = NoAddr \/ ExternalIp(ob) \in Nat \X Nat
<1>. DEFINE Reporting(ip) == {o \in Observers(ob) : Ip(ob[o]) = ip}
            Count(ip) == Cardinality(Reporting(ip))
            ips == {Ip(m) : m \in Mappings(ob)}
            Better(ip, q) == Count(q) < Count(ip) \/ (q[2] >= ip[2] /\ Count(q) = Count(ip))
            N == Cardinality(D)
<1>1. ips \subseteq Nat \X Nat
  <2>1. Mappings(ob) \subseteq Addrs
    BY DEF Mappings, Observers
  <2>. QED
    BY <2>1, AddrFacts
<1>2. N \in Nat /\ \A ip \in ips : Count(ip) \in Nat /\ Count(ip) <= N
  <2>1. N \in Nat
    BY FS_CardinalityType
  <2>2. ASSUME NEW ip \in ips
        PROVE  Count(ip) \in Nat /\ Count(ip) <= N
    <3>1. Reporting(ip) \subseteq D
      BY DEF Observers
    <3>. HIDE DEF Reporting
    <3>. QED
      BY <3>1, FS_Subset, FS_CardinalityType
  <2>. QED
    BY <2>1, <2>2
<1>3. ExternalIp(ob) = IF ips = {} THEN NoAddr ELSE CHOOSE ip \in ips : \A q \in ips : Better(ip, q)
  BY DEF ExternalIp
<1>. HIDE DEF Count, ips
<1>4. CASE ips # {}
  <2>. DEFINE T == {N - Count(ip) : ip \in ips}
  <2>1. T \in SUBSET Nat /\ T # {}
    BY <1>2, <1>4
  <2>2. Min(T) \in T /\ \A y \in T : Min(T) <= y
    <3>. HIDE DEF T
    <3>. QED
      BY <2>1, LeastIsMin
  <2>3. PICK i \in ips : Min(T) = N - Count(i)
    BY <2>2
  <2>4. \A q \in ips : N - Count(i) <= N - Count(q)
    BY <2>2, <2>3
  <2>5. \A q \in ips : Count(q) <= Count(i)
    BY <1>2, <2>4
  <2>. DEFINE M == {q \in ips : Count(q) = Count(i)}
              S == {q[2] : q \in M}
  <2>6. S \in SUBSET Nat /\ S # {}
    BY <1>1
  <2>7. Min(S) \in S /\ \A y \in S : Min(S) <= y
    <3>. HIDE DEF S
    <3>. QED
      BY <2>6, LeastIsMin
  <2>8. PICK j \in ips : Count(j) = Count(i) /\ Min(S) = j[2]
    BY <2>7
  <2>9. \A q \in ips : Count(q) = Count(i) => j[2] <= q[2]
    BY <2>7, <2>8
  <2>10. \A q \in ips : q[2] \in Nat
    BY <1>1
  <2>11. \A q \in ips : Better(j, q)
    BY <1>2, <2>5, <2>8, <2>9, <2>10
  <2>. HIDE DEF Better
  <2>12. (CHOOSE ip \in ips : \A q \in ips : Better(ip, q)) \in ips
    BY <2>11
  <2>. QED
    BY <1>1, <1>3, <1>4, <2>12
<1>. QED
  BY <1>3, <1>4

\* Observations as the stores hold them.
LEMMA TaggedIsStore ==
  ASSUME LinksInv, NEW f \in Families
  PROVE  LET D == {HelperAddr(m, f) : m \in Helpers}
         IN IsFiniteSet(D) /\ Tagged(f) \in [D -> {NoAddr} \cup Addrs]
<1>. DEFINE D == {HelperAddr(m, f) : m \in Helpers}
            From(o) == CHOOSE m \in Helpers : HelperAddr(m, f) = o
<1>1. IsFiniteSet(D)
  <2>. DEFINE at == [m \in Helpers |-> HelperAddr(m, f)]
  <2>1. at \in Surjection(Helpers, D)
    BY DEF Surjection
  <2>. HIDE DEF at, D
  <2>. QED
    BY <2>1, HelpersAssumption, FS_Surjection
<1>2. \A o \in D : From(o) \in Helpers
  OBVIOUS
<1>3. \A o \in D : obs[f][From(o)] \in {NoAddr} \cup Addrs
  <2>. HIDE DEF From, D
  <2>. QED
    BY <1>2 DEF LinksInv
<1>4. Tagged(f) = [o \in D |-> obs[f][From(o)]]
  BY DEF Tagged
<1>. HIDE DEF From, D
<1>5. Tagged(f) \in [D -> {NoAddr} \cup Addrs]
  BY <1>3, <1>4
<1>. QED
  BY <1>1, <1>5 DEF D

\* Candidates are addresses.
LEMMA CandidateIsAddr ==
  ASSUME LinksInv, BoxesInv, GrantInv, NEW k \in Kinds
  PROVE  IsAddr(Candidate(k))
<1>1. \A f \in Families : IsAddr(ObservedCandidate(f))
  BY TaggedIsStore, ConsistentIsAddr DEF ObservedCandidate
<1>2. IsAddr(MappedExternal)
  <2>. DEFINE ip == ExternalIp(Tagged(V4))
  <2>1. ip = NoAddr \/ ip \in Nat \X Nat
    BY TaggedIsStore, ExternalIsIp DEF Families
  <2>2. lease \in Nat /\ box[V4].net \in Nat /\ Me \in Nat
    BY DialBackAssumption DEF GrantInv, BoxesInv, Families, Boxes
  <2>3. MappedExternal = IF lease = 0 THEN NoAddr
                         ELSE IF ip # NoAddr THEN <<ip[1], ip[2], lease>>
                         ELSE <<Me, IF setting.gateway = Real THEN box[V4].net ELSE 0, lease>>
    BY DEF MappedExternal
  <2>. HIDE DEF ip
  <2>. QED
    BY <2>1, <2>2, <2>3 DEF IsAddr, Addrs
<1>3. V4 \in Families /\ V6 \in Families /\ IsAddr(NoAddr)
  BY DEF Families, IsAddr
<1>. QED
  BY <1>1, <1>2, <1>3 DEF Candidate, Kinds

-----------------------------------------------------------------------------
(* Verdicts stand as long as the boxes keep what they rest on.             *)

\* The boxes after a datagram has left through one of them, or a grant: as open
\* as before.
Grown(bx, cx) ==
  /\ cx \in [Families -> Boxes]
  /\ \A f \in Families :
       /\ OwnBox(cx[f]) /\ Own(cx[f]) = Own(bx[f])
       /\ cx[f].config = bx[f].config /\ cx[f].net = bx[f].net
       /\ bx[f].static \subseteq cx[f].static
       /\ \A m \in bx[f].maps : \E l \in cx[f].maps : l.port = m.port

\* Then verdicts stand.
LEMMA VerifiedGrows ==
  ASSUME BoxesInv, Grown(box, box'), setting' = setting, Held' => Held
  PROVE  BoxesInv' /\ \A t : Verified(t) => Verified(t)'
<1>1. BoxesInv'
  BY DEF BoxesInv, Grown, Families
<1>2. ASSUME NEW t, Verified(t), NEW f \in Families
      PROVE  Stands(f, box[f], t, Held)'
  <2>1. Stands(f, box[f], t, Held)
    BY <1>2 DEF Verified
  <2>2. LetsAllIn(box[f], t) => LetsAllIn(box'[f], t)
    BY OpenGrows DEF Grown
  <2>3. box'[f].net = box[f].net /\ box'[f].config = box[f].config
    BY DEF Grown
  <2>. QED
    BY <2>1, <2>2, <2>3 DEF Stands
<1>. QED
  BY <1>1, <1>2 DEF Verified

\* Nor do steps of others matter.
LEMMA VerifiedSame ==
  ASSUME BoxesInv, GrantInv, UNCHANGED <<setting, box, lease, faults>>
  PROVE  BoxesInv' /\ GrantInv' /\ \A t : Verified(t) => Verified(t)'
BY DEF BoxesInv, GrantInv, Verified, Held

\* The verdicts after a step: of those under way and those taken, and a new one.
LEMMA VerdictsKept ==
  ASSUME VerdictsInv, FramesInv, \A t \in Addrs : Verified(t) => Verified(t)',
         \A w \in (wire \cap Results)' : w.ok => w \in wire \/ Verified(w.target)',
         \A k \in Kinds : probed'[k] = probed[k] \/
                          \E w \in wire \cap Results : w.ok /\ probed'[k] = w.target
  PROVE  VerdictsInv'
<1>1. ASSUME NEW w \in (wire \cap Results)', w.ok
      PROVE  Verified(w.target)'
  BY <1>1 DEF VerdictsInv, Results
<1>2. ASSUME NEW k \in Kinds, probed'[k] # NoAddr
      PROVE  Verified(probed[k])'
  <2>1. PICK t : t = probed'[k]
    OBVIOUS
  <2>2. Verified(t) /\ t \in Addrs
    BY <1>2, <2>1 DEF VerdictsInv, FramesInv, Results
  <2>3. Verified(t)'
    BY <2>2
  <2>. QED
    BY <2>1, <2>3 DEF Verified
<1>. QED
  BY <1>1, <1>2 DEF VerdictsInv

\* The sockets of probes: no two nonces share one, and no helper listens there.
LEMMA SocketFacts ==
  ASSUME NEW m \in Helpers, NEW n \in Nonces, n[1] >= 1
  PROVE  /\ FreshSocket(m, n) \in Nat
         /\ FreshSocket(m, n) >= 100 + 4 * n[1] /\ FreshSocket(m, n) < 104 + 4 * n[1]
         /\ \A h \in Helpers, o \in Nonces : o[1] >= 1 /\ FreshSocket(h, o) = FreshSocket(m, n) => o = n
<1>. DEFINE C(x) == CASE x = "Observed" -> 0 [] x = "PortMapped" -> 1 [] OTHER -> 2
<1>1. \A x, y \in Kinds : C(x) \in 0 .. 2 /\ (C(x) = C(y) => x = y)
  BY DEF Kinds
<1>2. \A h, o : FreshSocket(h, o) = 100 + 4 * o[1] + C(o[2])
  BY DEF FreshSocket
<1>. HIDE DEF C
<1>3. \A o \in Nonces : o[1] \in Nat /\ o[2] \in Kinds /\ o = <<o[1], o[2]>>
  BY DEF Nonces
<1>4. ASSUME NEW h \in Helpers, NEW o \in Nonces, o[1] >= 1, FreshSocket(h, o) = FreshSocket(m, n)
      PROVE  o = n
  <2>1. 4 * o[1] + C(o[2]) = 4 * n[1] + C(n[2])
    BY <1>1, <1>2, <1>3, <1>4
  <2>2. o[1] = n[1] /\ C(o[2]) = C(n[2])
    BY <1>1, <1>3, <2>1
  <2>3. o[2] = n[2]
    BY <1>1, <1>3, <2>2
  <2>. QED
    BY <1>3, <2>2, <2>3
<1>5. FreshSocket(m, n) = 100 + 4 * n[1] + C(n[2]) /\ C(n[2]) \in 0 .. 2 /\ n[1] \in Nat
  BY <1>1, <1>2, <1>3
<1>. QED
  BY <1>4, <1>5

\* With no new request, no new probe and nothing sent but to a helper's port,
\* each nonce is still asked about once, from a socket nothing was sent to.
LEMMA NoncesKept ==
  ASSUME NoncesInv, FramesInv, asked' = asked,
         (wire \cap Requests)' \subseteq wire \cap Requests,
         \A m \in Helpers : probes'[m] \subseteq probes[m],
         \A f \in Families, port \in Nat : Toward(box'[f], port) => Toward(box[f], port) \/ port <= 100
  PROVE  NoncesInv'
<1>1. Asking' \subseteq Asking
  BY DEF Asking
<1>2. Asking \subseteq Nonces
  BY DEF Asking, FramesInv, Requests, HelperProbes
<1>3. ASSUME NEW f \in Families, NEW port \in Nat, Toward(box'[f], port)
      PROVE  /\ port < 104 + 4 * asked
             /\ \A n \in Asking', m \in Helpers : port # FreshSocket(m, n)
  <2>1. CASE Toward(box[f], port)
    BY <1>1, <2>1 DEF NoncesInv
  <2>2. CASE port <= 100
    <3>1. asked \in Nat
      BY DialBackAssumption DEF NoncesInv
    <3>2. \A n \in Asking' : n \in Nonces /\ n[1] \in Nat /\ n[1] >= 1
      BY <1>1, <1>2 DEF NoncesInv, Nonces
    <3>3. \A n \in Asking', m \in Helpers : FreshSocket(m, n) >= 100 + 4 * n[1] /\ FreshSocket(m, n) \in Nat
      BY <3>2, SocketFacts
    <3>. QED
      BY <2>2, <3>1, <3>2, <3>3
  <2>. QED
    BY <1>3, <2>1, <2>2
<1>4. asked' \in 0 .. MaxRequests /\ \A n \in Asking' : n[1] \in 1 .. asked'
  BY <1>1 DEF NoncesInv
<1>5. /\ \A v, w \in (wire \cap Requests)' : v.nonce = w.nonce => v = w
      /\ \A w \in (wire \cap Requests)', m \in Helpers : \A p \in probes'[m] : w.nonce # p.nonce
      /\ \A m, n \in Helpers : \A p \in probes'[m], q \in probes'[n] : p.nonce = q.nonce => m = n /\ p = q
      /\ \A m \in Helpers : \A p \in probes'[m] : p.socket = FreshSocket(m, p.nonce)
  BY DEF NoncesInv
<1>. QED
  BY <1>3, <1>4, <1>5 DEF NoncesInv

\* The three kinds of frames.
LEMMA FrameKinds ==
  /\ \A w \in Observations : w.type = "AddressObservation" /\ w \notin Requests /\ w \notin Results
  /\ \A w \in Requests : w.type = "DialBackRequest" /\ w \notin Results
  /\ \A w \in Results : w.type = "DialBackResult" /\ w \notin Requests
BY DEF Observations, Requests, Results

-----------------------------------------------------------------------------
(* One lemma per action.                                                   *)

\* A helper is dialled over either family, and reports what it sees.
LEMMA ConnectKeeps ==
  ASSUME DialBackInv, NEW f \in Families, NEW m \in Helpers, Connect(f, m)
  PROVE  DialBackInv'
<1>1. PICK out \in Outbound(box[f], Mine(f), HelperAddr(m, f)) :
        /\ box' = [box EXCEPT ![f] = out.box]
        /\ link' = [link EXCEPT ![f][m] = out.src]
        /\ wire' = wire \cup {Observation(m, out.src, f)}
  BY DEF Connect
<1>2. /\ index' = [index EXCEPT ![m] = IF @ = 0 THEN f ELSE @]
      /\ UNCHANGED <<setting, obs, lease, pending, confirmed, probed, probes, ephemeral, asked, faults>>
  BY DEF Connect
<1>3. HelperAddr(m, f) \in Addrs /\ Port(HelperAddr(m, f)) <= 100
  BY HelpersAssumption DEF HelperAddr, Addrs, Port, Families, V4, V6
<1>4. OwnBox(box[f]) /\ Mine(f) = Own(box[f]) /\ box \in [Families -> Boxes]
  BY DEF DialBackInv, BoxesInv, Mine, Own
<1>5. /\ OwnBox(out.box) /\ Own(out.box) = Own(box[f])
      /\ out.box.config = box[f].config /\ out.box.net = box[f].net /\ out.box.static = box[f].static
      /\ \A n \in box[f].maps : \E l \in out.box.maps : l.port = n.port
      /\ \A port \in Nat : Toward(out.box, port) => port <= 100 \/ Toward(box[f], port)
      /\ out.src \in Addrs
  BY <1>3, <1>4, OutboundKeeps
<1>6. box' \in [Families -> Boxes] /\ \A g \in Families : box'[g] = IF g = f THEN out.box ELSE box[g]
  BY <1>1, <1>4, <1>5 DEF OwnBox
<1>7. Grown(box, box')
  BY <1>5, <1>6 DEF Grown, DialBackInv, BoxesInv
<1>8. BoxesInv' /\ \A t : Verified(t) => Verified(t)'
  BY <1>2, <1>7, VerifiedGrows DEF DialBackInv, Held
<1>9. GrantInv'
  BY <1>2, <1>5, <1>6 DEF DialBackInv, GrantInv
<1>10. Observation(m, out.src, f) \in Observations
  BY <1>5 DEF Observation, Observations
<1>11. FramesInv'
  BY <1>1, <1>2, <1>10 DEF DialBackInv, FramesInv
<1>12. LinksInv'
  <2>1. /\ link' \in [Families -> [Helpers -> {NoAddr} \cup Addrs]]
        /\ link'[f][m] # NoAddr
        /\ \A g \in Families, n \in Helpers : link[g][n] # NoAddr => link'[g][n] # NoAddr
    BY <1>1, <1>5, AddrFacts DEF DialBackInv, LinksInv
  <2>2. /\ index' \in [Helpers -> {0} \cup Families]
        /\ \A n \in Helpers : index'[n] = index[n] \/ (n = m /\ index'[n] = f)
    BY <1>2 DEF DialBackInv, LinksInv
  <2>. QED
    BY <1>2, <2>1, <2>2 DEF DialBackInv, LinksInv
<1>13. (wire \cap Requests)' = wire \cap Requests /\ (wire \cap Results)' = wire \cap Results
  BY <1>1, <1>10, FrameKinds
<1>14. NoncesInv'
  <2>1. \A g \in Families, port \in Nat : Toward(box'[g], port) => Toward(box[g], port) \/ port <= 100
    BY <1>5, <1>6
  <2>. QED
    BY <1>2, <1>13, <2>1, NoncesKept DEF DialBackInv
<1>15. HelpersInv'
  BY <1>2 DEF DialBackInv, HelpersInv, SocketsOwned
<1>16. VerdictsInv'
  BY <1>2, <1>8, <1>13, VerdictsKept DEF DialBackInv
<1>. QED
  BY <1>8, <1>9, <1>11, <1>12, <1>14, <1>15, <1>16 DEF DialBackInv

\* Steps that leave boxes, lease, connections and verdicts alone and add no request:
\* only what is said over the wire and who has a probe matters.
LEMMA TalkKeeps ==
  ASSUME DialBackInv, UNCHANGED <<setting, box, lease, faults, asked>>,
         FramesInv', LinksInv', HelpersInv',
         (wire \cap Requests)' \subseteq wire \cap Requests,
         \A m \in Helpers : probes'[m] \subseteq probes[m],
         \A w \in (wire \cap Results)' : w.ok => w \in wire,
         \A k \in Kinds : probed'[k] = probed[k] \/
                          \E w \in wire \cap Results : w.ok /\ probed'[k] = w.target
  PROVE  DialBackInv'
<1>1. BoxesInv' /\ GrantInv' /\ \A t : Verified(t) => Verified(t)'
  BY VerifiedSame DEF DialBackInv
<1>2. NoncesInv'
  BY NoncesKept DEF DialBackInv
<1>3. VerdictsInv'
  BY <1>1, VerdictsKept DEF DialBackInv
<1>. QED
  BY <1>1, <1>2, <1>3 DEF DialBackInv

\* A helper repeats what it sees.
LEMMA BroadcastKeeps ==
  ASSUME DialBackInv, NEW m \in Helpers, BroadcastObservations(m)
  PROVE  DialBackInv'
<1>. DEFINE w == Observation(m, link[index[m]][m], index[m])
<1>1. /\ wire' = wire \cup {w} /\ m \in Indexed
      /\ UNCHANGED <<setting, box, link, index, obs, lease, pending, confirmed, probed,
                     probes, ephemeral, asked, faults>>
  BY DEF BroadcastObservations
<1>2. index[m] \in Families /\ link[index[m]][m] \in Addrs
  BY <1>1 DEF Indexed, DialBackInv, LinksInv
<1>3. w \in Observations
  BY <1>2 DEF Observation, Observations
<1>. HIDE DEF w
<1>4. FramesInv'
  BY <1>1, <1>3 DEF DialBackInv, FramesInv
<1>5. LinksInv' /\ HelpersInv'
  BY <1>1 DEF DialBackInv, LinksInv, HelpersInv, SocketsOwned
<1>6. (wire \cap Requests)' = wire \cap Requests /\ (wire \cap Results)' = wire \cap Results
  BY <1>1, <1>3, FrameKinds
<1>. QED
  BY <1>1, <1>4, <1>5, <1>6, TalkKeeps

\* An observation is filed.
LEMMA ObservationKeeps ==
  ASSUME DialBackInv, NEW frame \in wire, HandleAddressObservation(frame)
  PROVE  DialBackInv'
<1>1. /\ obs' = [obs EXCEPT ![frame.family][frame.helper] = frame.addr]
      /\ wire' = wire \ {frame} /\ frame.type = "AddressObservation"
      /\ UNCHANGED <<setting, box, link, index, lease, pending, confirmed, probed,
                     probes, ephemeral, asked, faults>>
  BY DEF HandleAddressObservation
<1>2. frame \in Observations
  BY <1>1, FrameKinds DEF DialBackInv, FramesInv
<1>3. FramesInv'
  BY <1>1 DEF DialBackInv, FramesInv
<1>4. LinksInv'
  BY <1>1, <1>2 DEF DialBackInv, LinksInv, Observations
<1>5. HelpersInv'
  BY <1>1 DEF DialBackInv, HelpersInv, SocketsOwned
<1>. QED
  BY <1>1, <1>3, <1>4, <1>5, TalkKeeps

\* A verdict is taken, and confirms the candidate it was asked of.
LEMMA ResultKeeps ==
  ASSUME DialBackInv, NEW frame \in wire, HandleDialbackResult(frame)
  PROVE  DialBackInv'
<1>. DEFINE answered == {p \in pending : p.nonce = frame.nonce}
            For(k) == {p \in answered : frame.ok /\ p.kind = k}
<1>1. /\ frame.type = "DialBackResult" /\ wire' = wire \ {frame}
      /\ pending' = pending \ answered
      /\ confirmed' = [k \in Kinds |-> IF For(k) = {} THEN confirmed[k]
                                       ELSE (CHOOSE p \in For(k) : TRUE).candidate]
      /\ probed' = [k \in Kinds |-> IF For(k) = {} THEN probed[k] ELSE frame.target]
      /\ UNCHANGED <<setting, box, link, index, obs, lease, probes, ephemeral, asked, faults>>
  BY DEF HandleDialbackResult
<1>2. frame \in Results
  BY <1>1, FrameKinds DEF DialBackInv, FramesInv
<1>3. \A k \in Kinds : For(k) # {} => frame.ok /\ (CHOOSE p \in For(k) : TRUE) \in pending
  OBVIOUS
<1>. HIDE DEF For
<1>4. \A k \in Kinds : For(k) # {} => (CHOOSE p \in For(k) : TRUE).candidate \in Addrs
  BY <1>3 DEF DialBackInv, FramesInv
<1>5. confirmed' \in [Kinds -> {NoAddr} \cup Addrs]
  BY <1>1, <1>4 DEF DialBackInv, FramesInv
<1>6. probed' \in [Kinds -> {NoAddr} \cup Addrs]
  BY <1>1, <1>2 DEF DialBackInv, FramesInv, Results
<1>7. FramesInv'
  BY <1>1, <1>5, <1>6 DEF DialBackInv, FramesInv
<1>8. LinksInv' /\ HelpersInv'
  BY <1>1 DEF DialBackInv, LinksInv, HelpersInv, SocketsOwned
<1>9. \A k \in Kinds : probed'[k] = probed[k] \/
                       \E w \in wire \cap Results : w.ok /\ probed'[k] = w.target
  BY <1>1, <1>2, <1>3
<1>. QED
  BY <1>1, <1>7, <1>8, <1>9, TalkKeeps

\* A request is given up.
LEMMA ExpireKeeps ==
  ASSUME DialBackInv, NEW p \in pending, ExpireDialback(p)
  PROVE  DialBackInv'
<1>1. /\ pending' = pending \ {p}
      /\ UNCHANGED <<setting, box, link, index, obs, lease, confirmed, probed, wire,
                     probes, ephemeral, asked, faults>>
  BY DEF ExpireDialback
<1>2. FramesInv' /\ LinksInv' /\ HelpersInv'
  BY <1>1 DEF DialBackInv, FramesInv, LinksInv, HelpersInv, SocketsOwned
<1>. QED
  BY <1>1, <1>2, TalkKeeps

\* A request is sent under a nonce of its own, about an address.
LEMMA RequestIsFrame ==
  ASSUME DialBackInv, NEW k \in Wanted
  PROVE  /\ DialBackRequest(k) \in Requests /\ DialBackRequest(k).nonce = <<asked + 1, k>>
         /\ k \in Kinds /\ Candidate(k) \in Addrs
<1>1. k \in Kinds /\ Candidate(k) # NoAddr /\ HelpersFor(k) # {}
  BY DEF Wanted
<1>2. Candidate(k) \in Addrs
  BY <1>1, CandidateIsAddr DEF DialBackInv, IsAddr
<1>. DEFINE m == Min(HelpersFor(k))
<1>3. m \in HelpersFor(k)
  <2>1. HelpersFor(k) \in SUBSET Nat
    BY HelpersAssumption DEF HelpersFor, Linked, Indexed
  <2>. QED
    BY <1>1, <2>1, LeastIsMin
<1>. HIDE DEF m
<1>4. m \in Helpers /\ Rides(k, m) \in Families /\ link[Rides(k, m)][m] \in Addrs
  <2>1. CASE k = "V6"
    BY <1>3, <2>1 DEF HelpersFor, Linked, Rides, DialBackInv, LinksInv, Families
  <2>2. CASE k # "V6"
    BY <1>3, <2>2 DEF HelpersFor, Indexed, Rides, DialBackInv, LinksInv
  <2>. QED
    BY <2>1, <2>2
<1>5. asked \in Nat
  BY DialBackAssumption DEF DialBackInv, NoncesInv
<1>6. Nonce(k) \in Nonces /\ Nonce(k) = <<asked + 1, k>>
  BY <1>1, <1>5 DEF Nonce, Nonces
<1>7. (IF k = "PortMapped" THEN Port(Candidate(k)) ELSE 0) \in Nat
  BY <1>2, AddrFacts
<1>8. DialBackRequest(k) =
        [type |-> "DialBackRequest", helper |-> m, nonce |-> Nonce(k),
         from |-> link[Rides(k, m)][m], family |-> Rides(k, m),
         port |-> IF k = "PortMapped" THEN Port(Candidate(k)) ELSE 0]
  BY DEF DialBackRequest, m
<1>. QED
  BY <1>1, <1>2, <1>4, <1>6, <1>7, <1>8 DEF Requests

\* The requester asks helpers to dial its candidates.
LEMMA RequestKeeps ==
  ASSUME DialBackInv, MaybeRequestDialback
  PROVE  DialBackInv'
<1>. DEFINE new == {DialBackRequest(k) : k \in Wanted}
            ask == {[kind |-> k, nonce |-> Nonce(k), candidate |-> Candidate(k)] : k \in Wanted}
<1>1. /\ asked < MaxRequests /\ asked' = asked + 1
      /\ confirmed' = [k \in Kinds |-> StillConfirmed(k)]
      /\ pending' = pending \cup ask /\ wire' = wire \cup new
      /\ UNCHANGED <<setting, box, link, index, obs, lease, probed, probes, ephemeral, faults>>
  BY DEF MaybeRequestDialback
<1>2. BoxesInv' /\ GrantInv' /\ \A t : Verified(t) => Verified(t)'
  BY <1>1, VerifiedSame DEF DialBackInv
<1>3. asked \in Nat
  BY DialBackAssumption DEF DialBackInv, NoncesInv
<1>4. /\ new \subseteq Requests
      /\ \A v \in new : v.nonce[1] = asked + 1
      /\ \A v, w \in new : v.nonce = w.nonce => v = w
  BY RequestIsFrame
<1>5. \A k \in Kinds : StillConfirmed(k) \in {NoAddr} \cup Addrs
  BY DEF StillConfirmed, DialBackInv, FramesInv
<1>6. /\ \A k \in Wanted : [kind |-> k, nonce |-> Nonce(k), candidate |-> Candidate(k)]
                            \in [kind : Kinds, nonce : Nonces, candidate : Addrs]
  BY <1>3, RequestIsFrame DEF Nonce, Nonces
<1>7. /\ ask \subseteq [kind : Kinds, nonce : Nonces, candidate : Addrs]
      /\ \A p, q \in ask : p.kind = q.kind => p = q
      /\ \A p \in ask, q \in pending : p.kind # q.kind
  BY <1>6 DEF Wanted
<1>. HIDE DEF new, ask
<1>8. FramesInv'
  BY <1>1, <1>4, <1>5, <1>7 DEF DialBackInv, FramesInv
<1>9. LinksInv'
  BY <1>1 DEF DialBackInv, LinksInv
<1>10. HelpersInv'
  BY <1>1, <1>7 DEF DialBackInv, HelpersInv, SocketsOwned
<1>11. (wire \cap Requests)' = (wire \cap Requests) \cup new /\ (wire \cap Results)' = wire \cap Results
  BY <1>1, <1>4, FrameKinds
<1>12. VerdictsInv'
  BY <1>1, <1>2, <1>11, VerdictsKept DEF DialBackInv
<1>13. /\ \A w \in wire \cap Requests : w.nonce \in Asking
       /\ \A m \in Helpers : \A p \in probes[m] : p.nonce \in Asking
       /\ Asking' = Asking \cup {w.nonce : w \in new}
  BY <1>1, <1>11 DEF Asking
<1>14. Asking \subseteq Nonces /\ \A n \in Asking : n[1] \in 1 .. asked
  BY DEF Asking, DialBackInv, FramesInv, NoncesInv, Requests, HelperProbes
<1>15. \A w \in new : w.nonce \in Nonces /\ w.nonce \notin Asking
  BY <1>3, <1>4, <1>14 DEF Requests
<1>16. /\ asked' \in 0 .. MaxRequests
       /\ \A n \in Asking' : n[1] \in 1 .. asked'
  BY <1>1, <1>3, <1>4, <1>13, <1>14, DialBackAssumption DEF DialBackInv, NoncesInv
<1>17. /\ \A v, w \in (wire \cap Requests)' : v.nonce = w.nonce => v = w
       /\ \A w \in (wire \cap Requests)', m \in Helpers : \A p \in probes'[m] : w.nonce # p.nonce
       /\ \A m, n \in Helpers : \A p \in probes'[m], q \in probes'[n] : p.nonce = q.nonce => m = n /\ p = q
       /\ \A m \in Helpers : \A p \in probes'[m] : p.socket = FreshSocket(m, p.nonce)
  <2>1. \A v, w \in (wire \cap Requests)' : v.nonce = w.nonce => v = w
    BY <1>4, <1>11, <1>13, <1>15 DEF DialBackInv, NoncesInv
  <2>2. \A w \in (wire \cap Requests)', m \in Helpers : \A p \in probes[m] : w.nonce # p.nonce
    BY <1>11, <1>13, <1>15 DEF DialBackInv, NoncesInv
  <2>. QED
    BY <1>1, <2>1, <2>2 DEF DialBackInv, NoncesInv
<1>18. ASSUME NEW f \in Families, NEW port \in Nat, Toward(box'[f], port)
       PROVE  /\ port < 104 + 4 * asked'
              /\ \A n \in Asking', m \in Helpers : port # FreshSocket(m, n)
  <2>1. /\ port < 104 + 4 * asked
        /\ \A n \in Asking, m \in Helpers : port # FreshSocket(m, n)
    BY <1>1, <1>18 DEF DialBackInv, NoncesInv
  <2>2. ASSUME NEW w \in new, NEW m \in Helpers
        PROVE  port # FreshSocket(m, w.nonce)
    <3>1. /\ FreshSocket(m, w.nonce) \in Nat
          /\ FreshSocket(m, w.nonce) >= 100 + 4 * w.nonce[1] /\ w.nonce[1] = asked + 1
      BY <1>3, <1>4, <1>15, SocketFacts
    <3>. QED
      BY <1>3, <2>1, <3>1
  <2>. QED
    BY <1>1, <1>3, <1>13, <2>1, <2>2
<1>19. NoncesInv'
  BY <1>16, <1>17, <1>18 DEF NoncesInv
<1>. QED
  BY <1>2, <1>8, <1>9, <1>10, <1>12, <1>19 DEF DialBackInv

\* The result of a probe, if it can be sent.
LEMMA ResultIsFrame ==
  ASSUME NEW m, NEW nonce \in Nonces, NEW target \in Addrs, NEW ok \in BOOLEAN,
         NEW w \in Result(m, nonce, target, ok)
  PROVE  w \in Results /\ w.ok = ok /\ w.target = target
BY DEF Result, Results

\* A helper refuses a request, or takes it up with a socket of its own.
LEMMA AcceptKeeps ==
  ASSUME DialBackInv, NEW frame \in wire, NEW refused \in BOOLEAN,
         HandleDialbackRequest(frame, refused)
  PROVE  DialBackInv'
<1>. DEFINE m == frame.helper
            target == IF frame.port = 0 THEN frame.from ELSE WithPort(frame.from, frame.port)
            socket == FreshSocket(m, frame.nonce)
            probe == [nonce |-> frame.nonce, family |-> frame.family, target |-> target,
                      socket |-> socket]
<1>1. /\ frame.type = "DialBackRequest"
      /\ Cardinality(probes[m]) >= MaxHelperProbes => refused
      /\ UNCHANGED <<setting, box, link, index, obs, lease, pending, confirmed, probed, asked, faults>>
  BY DEF HandleDialbackRequest
<1>0. frame \in Requests
  BY <1>1, FrameKinds DEF DialBackInv, FramesInv
<1>2. frame \in Requests /\ m \in Helpers
  BY <1>0 DEF Requests
<1>3. target \in Addrs /\ frame.nonce \in Nonces /\ frame.family \in Families
  BY <1>2, AddrFacts DEF Requests
<1>4. frame.nonce[1] \in 1 .. asked /\ asked \in Nat
  BY <1>2, DialBackAssumption DEF DialBackInv, NoncesInv, Asking
<1>5. socket \in Nat
  BY <1>2, <1>3, <1>4, SocketFacts
<1>6. LinksInv'
  BY <1>1 DEF DialBackInv, LinksInv
<1>7. CASE refused
  <2>. DEFINE results == Result(m, frame.nonce, target, FALSE)
  <2>1. wire' = (wire \ {frame}) \cup results /\ UNCHANGED <<probes, ephemeral>>
    BY <1>7 DEF HandleDialbackRequest
  <2>2. results \subseteq Results /\ \A w \in results : ~w.ok
    <3>. HIDE DEF target, m
    <3>. QED
      BY <1>3, ResultIsFrame
  <2>. HIDE DEF results
  <2>3. FramesInv' /\ HelpersInv'
    BY <1>1, <2>1, <2>2 DEF DialBackInv, FramesInv, HelpersInv, SocketsOwned
  <2>4. (wire \cap Requests)' \subseteq wire \cap Requests
    BY <2>1, <2>2, FrameKinds
  <2>5. \A w \in (wire \cap Results)' : w.ok => w \in wire
    BY <2>1, <2>2
  <2>. QED
    BY <1>1, <1>6, <2>1, <2>3, <2>4, <2>5, TalkKeeps
<1>8. CASE ~refused
  <2>1. /\ wire' = wire \ {frame}
        /\ ephemeral' = [ephemeral EXCEPT ![m] = @ \cup {socket}]
        /\ probes' = [probes EXCEPT ![m] = @ \cup {probe}]
    BY <1>8 DEF HandleDialbackRequest
  <2>2. probe \in HelperProbes /\ probe.nonce = frame.nonce /\ probe.socket = socket
    BY <1>3, <1>5 DEF HelperProbes
  <2>. HIDE DEF probe, socket, target, m
  <2>3. probes \in [Helpers -> SUBSET HelperProbes]
    BY DEF DialBackInv, FramesInv
  <2>4. /\ probes' \in [Helpers -> SUBSET HelperProbes]
        /\ \A n \in Helpers : probes'[n] = IF n = m THEN probes[m] \cup {probe} ELSE probes[n]
    BY <1>2, <2>1, <2>2, <2>3
  <2>5. FramesInv'
    BY <1>1, <2>1, <2>4 DEF DialBackInv, FramesInv
  <2>6. HelpersInv'
    <3>1. IsFiniteSet(probes[m]) /\ Cardinality(probes[m]) < MaxHelperProbes
          /\ Cardinality(probes[m]) \in Nat /\ MaxHelperProbes \in Nat
      BY <1>1, <1>2, <1>8, FS_CardinalityType, DialBackAssumption DEF DialBackInv, HelpersInv, m
    <3>2. IsFiniteSet(probes[m] \cup {probe}) /\ Cardinality(probes[m] \cup {probe}) <= MaxHelperProbes
      <4>. DEFINE S == probes[m]
      <4>1. IsFiniteSet(S) /\ Cardinality(S) \in Nat /\ Cardinality(S) < MaxHelperProbes
            /\ MaxHelperProbes \in Nat
        BY <3>1
      <4>. HIDE DEF S
      <4>2. IsFiniteSet(S \cup {probe}) /\ Cardinality(S \cup {probe}) <= Cardinality(S) + 1
        BY <4>1, FS_AddElement
      <4>3. Cardinality(S \cup {probe}) \in Nat
        BY <4>2, FS_CardinalityType
      <4>4. Cardinality(S \cup {probe}) <= MaxHelperProbes
        BY <4>1, <4>2, <4>3
      <4>. QED
        BY <4>2, <4>4 DEF S
    <3>3. SocketsOwned'
      <4>1. SocketsOwned /\ ephemeral \in [Helpers -> SUBSET Nat]
        BY DEF DialBackInv, HelpersInv
      <4>2. \A n \in Helpers : ephemeral'[n] = {p.socket : p \in probes'[n]}
        <5>1. TAKE n \in Helpers
        <5>2. ephemeral[n] = {p.socket : p \in probes[n]}
          BY <4>1 DEF SocketsOwned
        <5>3. CASE n # m
          BY <2>1, <2>4, <4>1, <5>2, <5>3
        <5>4. CASE n = m
          <6>1. probes'[n] = probes[n] \cup {probe}
            BY <2>4, <5>4
          <6>. QED
            BY <2>1, <2>2, <4>1, <5>2, <5>4, <6>1
        <5>. QED
          BY <5>3, <5>4
      <4>. QED
        BY <4>2 DEF SocketsOwned
    <3>4. ephemeral' \in [Helpers -> SUBSET Nat]
      BY <1>5, <2>1 DEF DialBackInv, HelpersInv
    <3>. QED
      BY <1>1, <2>4, <3>2, <3>3, <3>4 DEF DialBackInv, HelpersInv
  <2>7. BoxesInv' /\ GrantInv' /\ \A t : Verified(t) => Verified(t)'
    BY <1>1, VerifiedSame DEF DialBackInv
  <2>8. VerdictsInv'
    BY <1>1, <2>1, <2>7, VerdictsKept DEF DialBackInv
  <2>9. Asking' \subseteq Asking
    <3>1. ASSUME NEW n \in Asking'
          PROVE  n \in Asking
      <4>1. CASE \E w \in (wire \cap Requests)' : n = w.nonce
        BY <2>1, <4>1 DEF Asking
      <4>2. CASE \E h \in Helpers : \E p \in probes'[h] : n = p.nonce
        BY <1>2, <2>2, <2>4, <4>2 DEF Asking
      <4>. QED
        BY <3>1, <4>1, <4>2 DEF Asking
    <3>. QED
      BY <3>1
  <2>10. /\ \A v, w \in (wire \cap Requests)' : v.nonce = w.nonce => v = w
         /\ \A w \in (wire \cap Requests)', n \in Helpers : \A p \in probes'[n] : w.nonce # p.nonce
         /\ \A n, h \in Helpers : \A p \in probes'[n], q \in probes'[h] : p.nonce = q.nonce => n = h /\ p = q
         /\ \A n \in Helpers : \A p \in probes'[n] : p.socket = FreshSocket(n, p.nonce)
    BY <1>2, <2>1, <2>2, <2>4 DEF DialBackInv, NoncesInv, socket
  <2>11. NoncesInv'
    BY <1>1, <2>9, <2>10 DEF DialBackInv, NoncesInv
  <2>. QED
    BY <1>6, <2>5, <2>6, <2>7, <2>8, <2>11 DEF DialBackInv
<1>. QED
  BY <1>7, <1>8

\* A probe is over, whatever came of it: its socket is closed.
LEMMA ConcludeFacts ==
  ASSUME DialBackInv, NEW m \in Helpers, NEW probe \in probes[m], NEW ok \in BOOLEAN,
         Conclude(m, probe, ok), UNCHANGED <<pending, confirmed, probed, faults>>
  PROVE  /\ FramesInv' /\ HelpersInv'
         /\ (wire \cap Requests)' = wire \cap Requests
         /\ \A w \in (wire \cap Results)' : w \in wire \/ (w.ok = ok /\ w.target = probe.target)
         /\ \A n \in Helpers : probes'[n] = IF n = m THEN probes[m] \ {probe} ELSE probes[n]
<1>. DEFINE results == Result(m, probe.nonce, probe.target, ok)
<1>1. /\ wire' = wire \cup results
      /\ probes' = [probes EXCEPT ![m] = @ \ {probe}]
      /\ ephemeral' = [ephemeral EXCEPT ![m] = @ \ {probe.socket}]
  BY DEF Conclude
<1>2. probes \in [Helpers -> SUBSET HelperProbes] /\ ephemeral \in [Helpers -> SUBSET Nat]
  BY DEF DialBackInv, FramesInv, HelpersInv
<1>3. probe.nonce \in Nonces /\ probe.target \in Addrs
  BY <1>2 DEF HelperProbes
<1>4. results \subseteq Results /\ \A w \in results : w.ok = ok /\ w.target = probe.target
  BY <1>3, ResultIsFrame
<1>. HIDE DEF results
<1>5. /\ probes' \in [Helpers -> SUBSET HelperProbes]
      /\ \A n \in Helpers : probes'[n] = IF n = m THEN probes[m] \ {probe} ELSE probes[n]
  BY <1>1, <1>2
<1>6. FramesInv'
  BY <1>1, <1>4, <1>5 DEF DialBackInv, FramesInv
<1>7. (wire \cap Requests)' = wire \cap Requests
  BY <1>1, <1>4, FrameKinds
<1>8. \A n \in Helpers : IsFiniteSet(probes'[n]) /\ Cardinality(probes'[n]) <= MaxHelperProbes
  <2>1. TAKE n \in Helpers
  <2>. DEFINE S == probes[n]
              T == probes'[n]
  <2>2. T \subseteq S /\ IsFiniteSet(S) /\ Cardinality(S) <= MaxHelperProbes
    BY <1>5 DEF DialBackInv, HelpersInv
  <2>. HIDE DEF S, T
  <2>3. IsFiniteSet(T) /\ Cardinality(T) <= Cardinality(S)
    BY <2>2, FS_Subset
  <2>4. Cardinality(T) \in Nat /\ Cardinality(S) \in Nat /\ MaxHelperProbes \in Nat
    BY <2>2, <2>3, FS_CardinalityType, DialBackAssumption
  <2>5. IsFiniteSet(T) /\ Cardinality(T) <= MaxHelperProbes
    BY <2>2, <2>3, <2>4
  <2>. QED
    BY <2>5 DEF T
<1>9. \A n \in Helpers : ephemeral'[n] = {p.socket : p \in probes'[n]}
  <2>1. TAKE n \in Helpers
  <2>2. ephemeral[n] = {p.socket : p \in probes[n]}
    BY DEF DialBackInv, HelpersInv, SocketsOwned
  <2>3. CASE n # m
    BY <1>1, <1>2, <1>5, <2>2, <2>3
  <2>4. CASE n = m
    <3>1. \A p \in probes[m] : p.socket = probe.socket => p = probe
      <4>1. TAKE p \in probes[m]
      <4>2. /\ p.nonce \in Nonces /\ p.nonce[1] >= 1 /\ probe.nonce[1] >= 1
            /\ p.socket = FreshSocket(m, p.nonce) /\ probe.socket = FreshSocket(m, probe.nonce)
        BY <1>2 DEF DialBackInv, NoncesInv, Asking, HelperProbes, Nonces
      <4>3. p.socket = probe.socket => p.nonce = probe.nonce
        BY <1>3, <4>2, SocketFacts
      <4>. QED
        BY <4>3 DEF DialBackInv, NoncesInv
    <3>2. probes'[n] = probes[m] \ {probe} /\ ephemeral'[n] = ephemeral[m] \ {probe.socket}
      BY <1>1, <1>2, <1>5, <2>4
    <3>. QED
      BY <2>2, <2>4, <3>1, <3>2
  <2>. QED
    BY <2>3, <2>4
<1>10. HelpersInv'
  <2>1. ephemeral' \in [Helpers -> SUBSET Nat]
    BY <1>1, <1>2
  <2>. QED
    BY <1>8, <1>9, <2>1 DEF DialBackInv, HelpersInv, SocketsOwned
<1>11. \A w \in (wire \cap Results)' : w \in wire \/ (w.ok = ok /\ w.target = probe.target)
  BY <1>1, <1>4
<1>. QED
  BY <1>5, <1>6, <1>7, <1>10, <1>11

\* A probe times out.
LEMMA ExpireProbeKeeps ==
  ASSUME DialBackInv, NEW m \in Helpers, NEW probe \in probes[m], ExpireHelperProbe(m, probe)
  PROVE  DialBackInv'
<1>1. /\ Conclude(m, probe, FALSE)
      /\ UNCHANGED <<setting, box, link, index, obs, lease, pending, confirmed, probed, asked, faults>>
  BY DEF ExpireHelperProbe
<1>2. /\ FramesInv' /\ HelpersInv'
      /\ (wire \cap Requests)' = wire \cap Requests
      /\ \A w \in (wire \cap Results)' : w.ok => w \in wire
      /\ \A n \in Helpers : probes'[n] \subseteq probes[n]
  BY <1>1, ConcludeFacts
<1>3. LinksInv'
  BY <1>1 DEF DialBackInv, LinksInv
<1>. QED
  BY <1>1, <1>2, <1>3, TalkKeeps

\* A probe gets through, from a socket the requester never sent to: so would
\* anybody, unless the filter goes by address.
LEMMA ProbeKeeps ==
  ASSUME DialBackInv, NEW m \in Helpers, NEW probe \in probes[m], OnProbeEvent(m, probe)
  PROVE  DialBackInv'
<1>. DEFINE f == probe.family
            t == probe.target
            source == <<m, f, probe.socket>>
<1>1. /\ Inbound(box[f], source, t) = Mine(f)
      /\ Conclude(m, probe, TRUE)
      /\ UNCHANGED <<setting, link, index, obs, lease, pending, confirmed, probed, asked, faults>>
  BY DEF OnProbeEvent
<1>2. PICK out \in Outbound(box[f], Mine(f), source) : box' = [box EXCEPT ![f] = out.box]
  BY DEF OnProbeEvent
<1>3. probe \in HelperProbes
  BY DEF DialBackInv, FramesInv
<1>4. f \in Families /\ t \in Addrs /\ source \in Addrs /\ Port(source) = probe.socket
  BY <1>3, HelpersAssumption DEF HelperProbes, Addrs, Families, V4, V6, Port
<1>5. OwnBox(box[f]) /\ Mine(f) = Own(box[f]) /\ box \in [Families -> Boxes] /\ box[f] \in Boxes
  BY <1>4 DEF DialBackInv, BoxesInv, Mine, Own
<1>. HIDE DEF f, t, source
<1>6. /\ OwnBox(out.box) /\ Own(out.box) = Own(box[f])
      /\ out.box.config = box[f].config /\ out.box.net = box[f].net /\ out.box.static = box[f].static
      /\ \A n \in box[f].maps : \E l \in out.box.maps : l.port = n.port
      /\ \A port \in Nat : Toward(out.box, port) => port = probe.socket \/ Toward(box[f], port)
  BY <1>4, <1>5, OutboundKeeps
<1>7. box' \in [Families -> Boxes] /\ \A g \in Families : box'[g] = IF g = f THEN out.box ELSE box[g]
  BY <1>2, <1>4, <1>5, <1>6 DEF OwnBox
<1>8. Grown(box, box')
  BY <1>6, <1>7 DEF Grown, DialBackInv, BoxesInv
<1>9. BoxesInv' /\ \A x : Verified(x) => Verified(x)'
  BY <1>1, <1>8, VerifiedGrows DEF DialBackInv, Held
<1>10. GrantInv'
  BY <1>1, <1>6, <1>7 DEF DialBackInv, GrantInv
<1>11. LinksInv'
  BY <1>1 DEF DialBackInv, LinksInv
<1>12. /\ FramesInv' /\ HelpersInv'
       /\ (wire \cap Requests)' = wire \cap Requests
       /\ \A w \in (wire \cap Results)' : w \in wire \/ w.target = t
       /\ \A n \in Helpers : probes'[n] = IF n = m THEN probes[m] \ {probe} ELSE probes[n]
  BY <1>1, ConcludeFacts DEF t
<1>13. /\ probe.nonce \in Asking /\ probe.nonce \in Nonces /\ probe.nonce[1] \in 1 .. asked
       /\ probe.socket = FreshSocket(m, probe.nonce) /\ asked \in Nat
       /\ Asking \subseteq Nonces
  BY <1>3, DialBackAssumption
     DEF DialBackInv, NoncesInv, FramesInv, Asking, HelperProbes, Requests
<1>14. /\ probe.socket \in Nat /\ probe.socket < 104 + 4 * asked
       /\ \A h \in Helpers, o \in Nonces :
            o[1] >= 1 /\ FreshSocket(h, o) = probe.socket => o = probe.nonce
  <2>1. probe.nonce[1] >= 1 /\ probe.nonce[1] <= asked /\ probe.nonce[1] \in Nat
    BY <1>13
  <2>2. probe.socket \in Nat /\ probe.socket < 104 + 4 * probe.nonce[1]
    BY <1>13, <2>1, SocketFacts
  <2>3. \A h \in Helpers, o \in Nonces :
            o[1] >= 1 /\ FreshSocket(h, o) = probe.socket => o = probe.nonce
    BY <1>13, <2>1, SocketFacts
  <2>. QED
    BY <1>13, <2>1, <2>2, <2>3
<1>15. LetsAllIn(box[f], t) \/ box[f].config.filtering = "AddressRestricted"
  <2>1. ~Toward(box[f], probe.socket)
    BY <1>4, <1>13, <1>14 DEF DialBackInv, NoncesInv
  <2>. QED
    BY <1>1, <1>4, <1>5, <2>1, InboundOpens
<1>16. t[2] = box[f].net
  <2>1. Own(box[f]) # NoAddr
    BY <1>5, OwnFacts, AddrFacts
  <2>. QED
    BY <1>1, <1>5, <2>1 DEF Inbound
<1>17. Verified(t)
  <2>1. ASSUME NEW g \in Families, t[2] % 2 = OddFor(g) \/ t[2] = box[g].net
        PROVE  g = f
    BY <1>4, <1>16, <2>1 DEF DialBackInv, BoxesInv, Families, OddFor, V4, V6
  <2>2. box[f].net \in Nat
    BY <1>5 DEF Boxes
  <2>. QED
    BY <1>15, <1>16, <2>1, <2>2 DEF Verified, Stands
<1>18. Verified(t)'
  <2>1. PICK x : x = t
    OBVIOUS
  <2>2. Verified(x)'
    BY <1>9, <1>17, <2>1
  <2>3. x = probe.target
    BY <2>1 DEF t
  <2>. QED
    BY <2>2, <2>3 DEF t
<1>19. VerdictsInv'
  <2>1. \A w \in (wire \cap Results)' : w.ok => w \in wire \/ Verified(w.target)'
    BY <1>12, <1>18
  <2>. QED
    BY <1>1, <1>9, <2>1, VerdictsKept DEF DialBackInv
<1>20. Asking' \subseteq Asking \ {probe.nonce}
  <2>1. ASSUME NEW n \in Asking'
        PROVE  n \in Asking /\ n # probe.nonce
    <3>1. CASE \E w \in (wire \cap Requests)' : n = w.nonce
      BY <1>12, <3>1 DEF Asking, DialBackInv, NoncesInv
    <3>2. CASE \E h \in Helpers : \E p \in probes'[h] : n = p.nonce
      BY <1>12, <3>2 DEF Asking, DialBackInv, NoncesInv
    <3>. QED
      BY <2>1, <3>1, <3>2 DEF Asking
  <2>. QED
    BY <2>1
<1>21. /\ \A v, w \in (wire \cap Requests)' : v.nonce = w.nonce => v = w
       /\ \A w \in (wire \cap Requests)', n \in Helpers : \A p \in probes'[n] : w.nonce # p.nonce
       /\ \A n, h \in Helpers : \A p \in probes'[n], q \in probes'[h] : p.nonce = q.nonce => n = h /\ p = q
       /\ \A n \in Helpers : \A p \in probes'[n] : p.socket = FreshSocket(n, p.nonce)
  <2>1. \A n \in Helpers : probes'[n] \subseteq probes[n]
    BY <1>12
  <2>. QED
    BY <1>12, <2>1 DEF DialBackInv, NoncesInv
<1>22. ASSUME NEW g \in Families, NEW port \in Nat, Toward(box'[g], port)
       PROVE  /\ port < 104 + 4 * asked
              /\ \A n \in Asking', h \in Helpers : port # FreshSocket(h, n)
  <2>1. CASE Toward(box[g], port)
    BY <1>20, <2>1 DEF DialBackInv, NoncesInv
  <2>2. CASE port = probe.socket
    <3>1. \A n \in Asking' : n \in Nonces /\ n[1] >= 1 /\ n # probe.nonce
      BY <1>13, <1>20 DEF DialBackInv, NoncesInv
    <3>. QED
      BY <1>14, <2>2, <3>1
  <2>. QED
    BY <1>6, <1>7, <1>22, <2>1, <2>2
<1>23. NoncesInv'
  BY <1>1, <1>20, <1>21, <1>22 DEF DialBackInv, NoncesInv
<1>. QED
  BY <1>9, <1>10, <1>11, <1>12, <1>19, <1>23 DEF DialBackInv

\* The port of a grant is one of the box's range, hence no 0; the rest stays.
LEMMA InstalledFacts ==
  ASSUME NEW b, OwnBox(b), b.static = {},
         NEW c, c = InstallStatic(b, Own(b), MyPort), c.static # {}
  PROVE  /\ OwnBox(c) /\ Own(c) = Own(b)
         /\ c.config = b.config /\ c.net = b.net /\ c.maps = b.maps
         /\ \E port \in Nat \ {0} : c.static = {[port |-> port, internal |-> Own(b)]}
<1>. DEFINE At(k) == Lo + (((MyPort - Lo) + k) % (Hi - Lo + 1))
            steps == {k \in 0 .. Hi - Lo : /\ \A m \in b.static : m.port # At(k)
                                           /\ PortAvailable(b, At(k), Own(b))}
            new == [port |-> At(Min(steps)), internal |-> Own(b)]
<1>1. b \in Boxes /\ Own(b) \in Addrs
  BY OwnFacts DEF OwnBox
<1>2. c = IF steps = {} THEN b ELSE [b EXCEPT !.static = @ \cup {new}]
  BY DEF InstallStatic
<1>3. steps # {}
  <2>. HIDE DEF steps
  <2>. QED
    BY <1>2
<1>4. steps \in SUBSET Nat
  BY RangeAssumption
<1>5. Min(steps) \in Nat
  <2>. HIDE DEF steps
  <2>. QED
    BY <1>3, <1>4, LeastIsMin
<1>. HIDE DEF steps
<1>6. \A k \in Nat : At(k) \in Nat \ {0}
  <2>1. TAKE k \in Nat
  <2>. DEFINE x == (MyPort - Lo) + k
              n == Hi - Lo + 1
  <2>2. x \in Int /\ n \in Nat /\ n > 0
    BY RangeAssumption, DialBackAssumption
  <2>3. \A y \in Int, z \in Nat : z > 0 => y % z \in 0 .. z - 1
    OBVIOUS
  <2>4. x % n \in 0 .. n - 1
    <3>. HIDE DEF x, n
    <3>. QED
      BY <2>2, <2>3
  <2>5. At(k) = Lo + (x % n)
    OBVIOUS
  <2>. HIDE DEF x, n, At
  <2>. QED
    BY <2>2, <2>4, <2>5, RangeAssumption
<1>7. new.port \in Nat \ {0} /\ new \in Statics /\ new.internal = Own(b)
  <2>. HIDE DEF At
  <2>. QED
    BY <1>1, <1>5, <1>6 DEF Statics
<1>8. new = [port |-> new.port, internal |-> Own(b)]
  OBVIOUS
<1>. HIDE DEF new
<1>9. c = [b EXCEPT !.static = {new}]
  BY <1>1, <1>2, <1>3 DEF Boxes
<1>10. /\ c \in Boxes /\ c.config = b.config /\ c.net = b.net /\ c.maps = b.maps
       /\ c.static = {new}
  BY <1>1, <1>7, <1>9 DEF Boxes
<1>11. Own(c) = Own(b)
  BY <1>10 DEF Own, Local
<1>12. OwnBox(c)
  BY <1>7, <1>10, <1>11 DEF OwnBox
<1>. QED
  BY <1>7, <1>8, <1>10, <1>11, <1>12

\* The gateway grants a lease: nothing rested on one before.
LEMMA GrantKeeps ==
  ASSUME DialBackInv, Grant
  PROVE  DialBackInv'
<1>. DEFINE granted == InstallStatic(box[V4], Mine(V4), MyPort)
            fresh == granted.static \ box[V4].static
            hole == [port |-> MyPort, internal |-> Mine(V6)]
<1>1. /\ setting.gateway # NoGateway /\ lease = 0 /\ faults = 0
      /\ UNCHANGED <<setting, link, index, obs, pending, confirmed, probed, wire,
                     probes, ephemeral, asked, faults>>
  BY DEF Grant
<1>2. \A f \in Families : box[f].static = {} /\ OwnBox(box[f]) /\ Mine(f) = Own(box[f])
  BY <1>1 DEF DialBackInv, GrantInv, BoxesInv, Mine, Own
<1>3. V4 \in Families /\ V6 \in Families /\ V4 # V6 /\ box \in [Families -> Boxes]
  BY DEF Families, V4, V6, DialBackInv, BoxesInv
<1>4. /\ Grown(box, box') /\ GrantInv'
      /\ \A f \in Families : box'[f].maps = box[f].maps
  <2>1. CASE setting.gateway = Hollow
    <3>1. lease' = MyPort /\ box' = box
      BY <2>1 DEF Grant
    <3>2. Grown(box, box')
      BY <1>2, <1>3, <3>1 DEF Grown
    <3>3. GrantInv'
      BY <1>2, <3>1, DialBackAssumption DEF GrantInv
    <3>. QED
      BY <3>1, <3>2, <3>3
  <2>2. CASE setting.gateway # Hollow
    <3>0. setting.gateway = Real
      <4>1. setting.gateway \in {NoGateway, Real, Hollow}
        BY SettingsAssumption DEF DialBackInv, BoxesInv
      <4>. QED
        BY <1>1, <2>2, <4>1
    <3>1. /\ fresh # {} /\ lease' = Min({m.port : m \in fresh})
          /\ box' = [box EXCEPT ![V4] = granted, ![V6] = [@ EXCEPT !.static = {hole}]]
      BY <2>2 DEF Grant
    <3>2. granted.static # {} /\ fresh = granted.static
      BY <1>2, <1>3, <3>1
    <3>. HIDE DEF granted, fresh
    <3>3. /\ OwnBox(granted) /\ Own(granted) = Own(box[V4])
          /\ granted.config = box[V4].config /\ granted.net = box[V4].net /\ granted.maps = box[V4].maps
          /\ \E port \in Nat \ {0} : granted.static = {[port |-> port, internal |-> Own(box[V4])]}
      BY <1>2, <1>3, <3>2, InstalledFacts DEF granted
    <3>4. lease' \in Nat \ {0}
      <4>1. PICK port \in Nat \ {0} : granted.static = {[port |-> port, internal |-> Own(box[V4])]}
        BY <3>3
      <4>2. {m.port : m \in fresh} = {port}
        BY <3>2, <4>1
      <4>3. Min({port}) \in {port}
        BY LeastIsMin
      <4>. QED
        BY <3>1, <4>2, <4>3
    <3>5. hole \in Statics /\ hole.internal = Own(box[V6])
      <4>1. Own(box[V6]) \in Addrs /\ Mine(V6) = Own(box[V6])
        BY <1>2, <1>3, OwnFacts
      <4>. QED
        BY <4>1, DialBackAssumption DEF Statics
    <3>. HIDE DEF hole
    <3>. DEFINE d == [box[V6] EXCEPT !.static = {hole}]
    <3>6. box[V6] \in Boxes
      BY <1>3
    <3>7. /\ d \in Boxes /\ d.config = box[V6].config /\ d.net = box[V6].net /\ d.maps = box[V6].maps
          /\ d.static = {hole}
      BY <3>5, <3>6 DEF Boxes
    <3>8. box'[V4] = granted /\ box'[V6] = d /\ DOMAIN box' = Families
      BY <1>3, <3>1
    <3>8a. box' = [f \in Families |-> box'[f]]
      BY <1>3, <3>1
    <3>. HIDE DEF d
    <3>9. Own(d) = Own(box[V6])
      BY <3>7 DEF Own, Local
    <3>10. OwnBox(d)
      BY <1>2, <1>3, <3>5, <3>7, <3>9 DEF OwnBox
    <3>11. \A f \in Families : f = V4 \/ f = V6
      BY DEF Families
    <3>12. box' \in [Families -> Boxes]
      BY <3>3, <3>7, <3>8, <3>8a, <3>11 DEF OwnBox
    <3>13. Grown(box, box')
      BY <1>2, <3>3, <3>7, <3>8, <3>9, <3>10, <3>11, <3>12 DEF Grown
    <3>14. GrantInv'
      BY <1>1, <3>0, <3>4 DEF GrantInv
    <3>. QED
      BY <3>3, <3>7, <3>8, <3>11, <3>13, <3>14
  <2>. QED
    BY <2>1, <2>2
<1>5. Held
  BY <1>1 DEF Held
<1>6. BoxesInv' /\ \A t : Verified(t) => Verified(t)'
  BY <1>1, <1>4, <1>5, VerifiedGrows DEF DialBackInv
<1>7. FramesInv' /\ LinksInv' /\ HelpersInv'
  BY <1>1 DEF DialBackInv, FramesInv, LinksInv, HelpersInv, SocketsOwned
<1>8. VerdictsInv'
  BY <1>1, <1>6, VerdictsKept DEF DialBackInv
<1>9. NoncesInv'
  <2>1. \A f \in Families, port \in Nat : Toward(box'[f], port) => Toward(box[f], port)
    BY <1>4 DEF Toward
  <2>. QED
    BY <1>1, <2>1, NoncesKept DEF DialBackInv
<1>. QED
  BY <1>4, <1>6, <1>7, <1>8, <1>9 DEF DialBackInv

\* A lease ends: what rested on it is no longer claimed.
LEMMA LeaseEndsKeeps ==
  ASSUME DialBackInv, LeaseEnds
  PROVE  DialBackInv'
<1>1. /\ faults < MaxFaults /\ faults' = faults + 1 /\ lease' = 0
      /\ box' = [f \in Families |-> RemoveStatic(box[f], Mine(f))]
      /\ UNCHANGED <<setting, link, index, obs, pending, confirmed, probed, wire,
                     probes, ephemeral, asked>>
  BY DEF LeaseEnds
<1>2. ASSUME NEW f \in Families
      PROVE  /\ box'[f] \in Boxes /\ OwnBox(box'[f]) /\ Own(box'[f]) = Own(box[f])
             /\ box'[f].config = box[f].config /\ box'[f].net = box[f].net
             /\ box'[f].maps = box[f].maps /\ box'[f].static = {}
  <2>1. OwnBox(box[f]) /\ Mine(f) = Own(box[f]) /\ box[f] \in Boxes
    BY DEF DialBackInv, BoxesInv, Mine, Own
  <2>2. {m \in box[f].static : m.internal # Mine(f)} = {}
    BY <2>1 DEF OwnBox
  <2>3. box'[f] = [box[f] EXCEPT !.static = {m \in @ : m.internal # Mine(f)}]
    BY <1>1 DEF RemoveStatic
  <2>4. box'[f] = [box[f] EXCEPT !.static = {}]
    BY <2>1, <2>2, <2>3 DEF Boxes
  <2>5. /\ box'[f] \in Boxes /\ box'[f].config = box[f].config /\ box'[f].net = box[f].net
        /\ box'[f].maps = box[f].maps /\ box'[f].static = {}
    BY <2>1, <2>4 DEF Boxes
  <2>6. Own(box'[f]) = Own(box[f])
    BY <2>5 DEF Own, Local
  <2>. QED
    BY <2>1, <2>5, <2>6 DEF OwnBox
<1>3. box' \in [Families -> Boxes]
  BY <1>1, <1>2
<1>4. BoxesInv'
  BY <1>1, <1>2, <1>3 DEF DialBackInv, BoxesInv, Families
<1>5. GrantInv'
  BY <1>1, <1>2 DEF GrantInv
<1>6. \A t : Verified(t) => Verified(t)'
  <2>1. CASE setting.gateway = Real
    <3>1. ~Held'
      BY <1>1, <2>1, DialBackAssumption DEF Held, DialBackInv, HelpersInv
    <3>2. ASSUME NEW t, Verified(t), NEW f \in Families
          PROVE  Stands(f, box[f], t, Held)'
      BY <1>2, <3>1, <3>2 DEF Verified, Stands
    <3>. QED
      BY <3>2 DEF Verified
  <2>2. CASE setting.gateway # Real
    <3>1. \A f \in Families : box[f].static = {}
      BY <2>2 DEF DialBackInv, GrantInv
    <3>2. Grown(box, box')
      BY <1>2, <1>3, <3>1 DEF Grown
    <3>3. Held
      BY <2>2 DEF Held
    <3>. QED
      BY <1>1, <3>2, <3>3, VerifiedGrows DEF DialBackInv
  <2>. QED
    BY <2>1, <2>2
<1>7. FramesInv' /\ LinksInv'
  BY <1>1 DEF DialBackInv, FramesInv, LinksInv
<1>8. HelpersInv'
  BY <1>1, DialBackAssumption DEF DialBackInv, HelpersInv, SocketsOwned
<1>9. VerdictsInv'
  BY <1>1, <1>6, VerdictsKept DEF DialBackInv
<1>10. NoncesInv'
  <2>1. \A f \in Families, port \in Nat : Toward(box'[f], port) => Toward(box[f], port)
    BY <1>2 DEF Toward
  <2>. QED
    BY <1>1, <2>1, NoncesKept DEF DialBackInv
<1>. QED
  BY <1>4, <1>5, <1>7, <1>8, <1>9, <1>10 DEF DialBackInv

\* A connection is lost, and the requests that would have come over it.
LEMMA DisconnectKeeps ==
  ASSUME DialBackInv, NEW f \in Families, NEW m \in Helpers, Disconnect(f, m)
  PROVE  DialBackInv'
<1>1. /\ faults < MaxFaults /\ faults' = faults + 1
      /\ link' = [link EXCEPT ![f][m] = NoAddr]
      /\ index' = [index EXCEPT ![m] = IF @ = f THEN 0 ELSE @]
      /\ wire' \subseteq wire
      /\ UNCHANGED <<setting, box, obs, lease, pending, confirmed, probed, probes, ephemeral, asked>>
  BY DEF Disconnect
<1>2. faults \in 0 .. MaxFaults /\ MaxFaults \in Nat
  BY DialBackAssumption DEF DialBackInv, HelpersInv
<1>3. Held' => Held
  BY <1>1, <1>2 DEF Held
<1>4. Grown(box, box')
  BY <1>1 DEF Grown, DialBackInv, BoxesInv
<1>5. BoxesInv' /\ \A t : Verified(t) => Verified(t)'
  BY <1>1, <1>3, <1>4, VerifiedGrows DEF DialBackInv
<1>6. GrantInv'
  BY <1>1, <1>2 DEF DialBackInv, GrantInv
<1>7. FramesInv'
  BY <1>1 DEF DialBackInv, FramesInv
<1>8. LinksInv'
  <2>1. /\ link' \in [Families -> [Helpers -> {NoAddr} \cup Addrs]]
        /\ \A g \in Families, n \in Helpers : link'[g][n] = link[g][n] \/ (g = f /\ n = m)
    BY <1>1 DEF DialBackInv, LinksInv
  <2>2. 0 \notin Families
    BY DEF Families, V4, V6
  <2>3. /\ index' \in [Helpers -> {0} \cup Families]
        /\ \A n \in Helpers : index'[n] = 0 \/ (index'[n] = index[n] /\ (n = m => index[n] # f))
    BY <1>1 DEF DialBackInv, LinksInv
  <2>. QED
    BY <1>1, <2>1, <2>2, <2>3 DEF DialBackInv, LinksInv
<1>9. HelpersInv'
  BY <1>1, <1>2 DEF DialBackInv, HelpersInv, SocketsOwned
<1>10. VerdictsInv'
  BY <1>1, <1>5, VerdictsKept DEF DialBackInv
<1>11. NoncesInv'
  BY <1>1, NoncesKept DEF DialBackInv
<1>. QED
  BY <1>5, <1>6, <1>7, <1>8, <1>9, <1>10, <1>11 DEF DialBackInv

\* The box gets a network nothing was ever verified on.
LEMMA RenumberKeeps ==
  ASSUME DialBackInv, NEW f \in Families, Renumber(f)
  PROVE  DialBackInv'
<1>1. /\ faults < MaxFaults /\ faults' = faults + 1
      /\ box' = [box EXCEPT ![f] = Renumbered(@)]
      /\ lease' = IF f = V4 THEN 0 ELSE lease
      /\ UNCHANGED <<setting, link, index, obs, pending, confirmed, probed, wire,
                     probes, ephemeral, asked>>
  BY DEF Renumber
<1>2. /\ faults \in 0 .. MaxFaults /\ MaxFaults \in Nat /\ lease \in Nat
      /\ box \in [Families -> Boxes]
  BY DialBackAssumption DEF DialBackInv, HelpersInv, GrantInv, BoxesInv
<1>. DEFINE b == box[f]
            c == Renumbered(b)
<1>3. b \in Boxes /\ b.net \in Nat /\ b.config \in NatConfigs
  BY <1>2 DEF Boxes
<1>4. c = [config |-> b.config, net |-> b.net + 2, maps |-> {}, next |-> Lo, static |-> {}]
  BY DEF Renumbered, NewBox
<1>5. Lo \in Lo .. Hi
  BY RangeAssumption
<1>6. /\ c \in Boxes /\ c.config = b.config /\ c.net = b.net + 2 /\ c.maps = {} /\ c.static = {}
  BY <1>3, <1>4, <1>5 DEF Boxes
<1>7. \A g \in Families : box'[g] = IF g = f THEN c ELSE box[g]
  BY <1>1, <1>2
<1>8. box' \in [Families -> Boxes]
  BY <1>1, <1>2, <1>6
<1>. HIDE DEF b, c
<1>9. OwnBox(c)
  BY <1>6 DEF OwnBox
<1>10. b.net > 0 /\ b.net % 2 = OddFor(f)
  BY DEF DialBackInv, BoxesInv, b
<1>11. c.net > 0 /\ c.net % 2 = OddFor(f)
  <2>1. \A x \in Nat : (x + 2) % 2 = x % 2
    OBVIOUS
  <2>. QED
    BY <1>3, <1>6, <1>10, <2>1
<1>12. BoxesInv'
  <2>1. \A g \in Families : box'[g].config = box[g].config
    BY <1>6, <1>7 DEF b
  <2>2. \A g \in Families : OwnBox(box'[g]) /\ box'[g].net > 0 /\ box'[g].net % 2 = OddFor(g)
    BY <1>7, <1>9, <1>11 DEF DialBackInv, BoxesInv
  <2>. QED
    BY <1>1, <1>8, <2>1, <2>2 DEF DialBackInv, BoxesInv, Families
<1>13. GrantInv'
  BY <1>1, <1>2, <1>6, <1>7 DEF DialBackInv, GrantInv
<1>14. Held' => Held
  BY <1>1, <1>2 DEF Held
<1>15. ASSUME NEW t \in Addrs, Verified(t), NEW g \in Families
       PROVE  Stands(g, box[g], t, Held)'
  <2>1. Stands(g, box[g], t, Held)
    BY <1>15 DEF Verified
  <2>2. CASE g # f
    BY <1>7, <1>14, <2>1, <2>2 DEF Stands
  <2>3. CASE g = f
    <3>1. t[2] \in Nat
      BY AddrFacts
    <3>2. t[2] % 2 = OddFor(f) => t[2] <= b.net
      BY <2>1, <2>3 DEF Stands, b
    <3>3. (t[2] % 2 = OddFor(f) => t[2] <= c.net) /\ t[2] # c.net
      BY <1>3, <1>6, <1>11, <3>1, <3>2
    <3>4. box'[g] = c
      BY <1>7, <2>3
    <3>. QED
      BY <2>3, <3>3, <3>4 DEF Stands
  <2>. QED
    BY <2>2, <2>3
<1>16. \A t \in Addrs : Verified(t) => Verified(t)'
  BY <1>15 DEF Verified
<1>17. FramesInv' /\ LinksInv'
  BY <1>1 DEF DialBackInv, FramesInv, LinksInv
<1>18. HelpersInv'
  BY <1>1, <1>2 DEF DialBackInv, HelpersInv, SocketsOwned
<1>19. VerdictsInv'
  BY <1>1, <1>16, VerdictsKept DEF DialBackInv
<1>20. NoncesInv'
  <2>1. \A g \in Families, port \in Nat : Toward(box'[g], port) => Toward(box[g], port)
    BY <1>6, <1>7 DEF Toward
  <2>. QED
    BY <1>1, <2>1, NoncesKept DEF DialBackInv
<1>. QED
  BY <1>12, <1>13, <1>17, <1>18, <1>19, <1>20 DEF DialBackInv

-----------------------------------------------------------------------------
(* The theorems.                                                           *)

\* Nothing is connected, asked or verified at first.
LEMMA DialBackStarts ==
  ASSUME NEW chosen \in Settings, InitDialBack(chosen)
  PROVE  DialBackInv
<1>1. /\ setting = chosen
      /\ box = [f \in Families |->
                  IF f = V4 THEN NewBox(setting.v4) ELSE [NewBox(Firewall) EXCEPT !.net = 2]]
      /\ link = [f \in Families |-> [m \in Helpers |-> NoAddr]]
      /\ index = [m \in Helpers |-> 0]
      /\ obs = [f \in Families |-> [m \in Helpers |-> NoAddr]]
      /\ lease = 0 /\ pending = {} /\ wire = {} /\ asked = 0 /\ faults = 0
      /\ confirmed = [k \in Kinds |-> NoAddr] /\ probed = [k \in Kinds |-> NoAddr]
      /\ probes = [m \in Helpers |-> {}] /\ ephemeral = [m \in Helpers |-> {}]
  BY DEF InitDialBack
<1>2. V4 \in Families /\ V6 \in Families /\ V4 # V6 /\ \A f \in Families : f = V4 \/ f = V6
  BY DEF Families, V4, V6
<1>3. setting.v4 \in NatConfigs
  BY <1>1, SettingsAssumption
<1>4. ASSUME NEW config \in NatConfigs, NEW no \in {1, 2}
      PROVE  LET b == [config |-> config, net |-> no, maps |-> {}, next |-> Lo, static |-> {}]
             IN OwnBox(b) /\ b.config = config /\ b.net = no /\ b.maps = {} /\ b.static = {}
  <2>. DEFINE b == [config |-> config, net |-> no, maps |-> {}, next |-> Lo, static |-> {}]
  <2>1. b \in Boxes /\ b.config = config /\ b.net = no /\ b.maps = {} /\ b.static = {}
    BY RangeAssumption DEF Boxes
  <2>. HIDE DEF b
  <2>2. OwnBox(b)
    BY <2>1 DEF OwnBox
  <2>. QED
    BY <2>1, <2>2 DEF b
<1>5. /\ box[V4] = [config |-> setting.v4, net |-> 1, maps |-> {}, next |-> Lo, static |-> {}]
      /\ box[V6] = [config |-> Firewall, net |-> 2, maps |-> {}, next |-> Lo, static |-> {}]
  BY <1>1, <1>2 DEF NewBox
<1>6. /\ OwnBox(box[V4]) /\ box[V4].config = setting.v4 /\ box[V4].net = 1
      /\ box[V4].maps = {} /\ box[V4].static = {}
  BY <1>3, <1>4, <1>5
<1>7. /\ OwnBox(box[V6]) /\ box[V6].config = Firewall /\ box[V6].net = 2
      /\ box[V6].maps = {} /\ box[V6].static = {}
  <2>. DEFINE config == Firewall
  <2>1. config \in NatConfigs
    BY ConfigFacts
  <2>2. LET b == [config |-> config, net |-> 2, maps |-> {}, next |-> Lo, static |-> {}]
        IN OwnBox(b) /\ b.config = config /\ b.net = 2 /\ b.maps = {} /\ b.static = {}
    <3>. HIDE DEF config
    <3>. QED
      BY <1>4, <2>1
  <2>. HIDE DEF config
  <2>3. box[V6] = [config |-> config, net |-> 2, maps |-> {}, next |-> Lo, static |-> {}]
    BY <1>5 DEF config
  <2>. DEFINE b == [config |-> config, net |-> 2, maps |-> {}, next |-> Lo, static |-> {}]
  <2>4. OwnBox(b) /\ b.config = config /\ b.net = 2 /\ b.maps = {} /\ b.static = {}
    BY <2>2
  <2>5. box[V6] = b
    BY <2>3
  <2>. HIDE DEF b
  <2>. QED
    BY <2>4, <2>5 DEF config
<1>8. box = [f \in Families |-> box[f]]
  BY <1>1
<1>9. BoxesInv
  <2>1. box \in [Families -> Boxes]
    BY <1>2, <1>6, <1>7, <1>8 DEF OwnBox
  <2>2. OddFor(V4) = 1 /\ OddFor(V6) = 0
    BY <1>2 DEF OddFor
  <2>3. setting \in Settings /\ box[V4].config = setting.v4 /\ box[V6].config = Firewall
    BY <1>1, <1>6, <1>7
  <2>4. ASSUME NEW f \in Families
        PROVE  OwnBox(box[f]) /\ box[f].net > 0 /\ box[f].net % 2 = OddFor(f)
    <3>1. CASE f = V4
      BY <1>6, <2>2, <3>1
    <3>2. CASE f = V6
      BY <1>7, <2>2, <3>2
    <3>. QED
      BY <1>2, <3>1, <3>2
  <2>. QED
    BY <2>1, <2>3, <2>4 DEF BoxesInv
<1>10. GrantInv
  BY <1>1, <1>2, <1>6, <1>7 DEF GrantInv
<1>11. FramesInv /\ LinksInv
  BY <1>1 DEF FramesInv, LinksInv
<1>12. Asking = {}
  BY <1>1 DEF Asking
<1>13. NoncesInv
  <2>1. \A f \in Families, port \in Nat : ~Toward(box[f], port)
    BY <1>2, <1>6, <1>7 DEF Toward
  <2>. QED
    BY <1>1, <1>12, <2>1, DialBackAssumption DEF NoncesInv
<1>14. HelpersInv
  <2>1. \A m \in Helpers : probes[m] = {} /\ ephemeral[m] = {}
    BY <1>1
  <2>2. IsFiniteSet({}) /\ Cardinality({}) = 0
    BY FS_EmptySet
  <2>3. SocketsOwned
    BY <2>1 DEF SocketsOwned
  <2>. QED
    BY <1>1, <2>1, <2>2, <2>3, DialBackAssumption DEF HelpersInv
<1>15. VerdictsInv
  BY <1>1 DEF VerdictsInv
<1>. QED
  BY <1>9, <1>10, <1>11, <1>13, <1>14, <1>15 DEF DialBackInv

\* While the punch protocol works, dial-back rests.
LEMMA DialBackRests ==
  ASSUME DialBackInv, UNCHANGED dialBackVars
  PROVE  DialBackInv'
<1>1. UNCHANGED <<setting, box, lease, faults, asked, wire, probes, probed>>
  BY DEF dialBackVars
<1>2. FramesInv' /\ LinksInv' /\ HelpersInv'
  BY DEF dialBackVars, DialBackInv, FramesInv, LinksInv, HelpersInv, SocketsOwned
<1>. QED
  BY <1>1, <1>2, TalkKeeps

\* Dial-back, for any helpers, settings and limits: see DialBackInv.
THEOREM DialBackHolds == PathsSpec => []DialBackInv
<1>1. PathsInit => DialBackInv
  <2>1. (CHOOSE chosen \in Settings : TRUE) \in Settings
    BY SettingsAssumption
  <2>. QED
    BY <2>1, DialBackStarts DEF PathsInit
<1>2. DialBackInv /\ [PathsNext]_pathVars => DialBackInv'
  <2>. SUFFICES ASSUME DialBackInv, [PathsNext]_pathVars
                PROVE  DialBackInv'
    OBVIOUS
  <2>1. CASE UNCHANGED dialBackVars
    BY <2>1, DialBackRests
  <2>2. CASE NextDialBack
    <3>1. ASSUME NEW f \in Families, NEW m \in Helpers, Connect(f, m)
          PROVE  DialBackInv'
      BY <3>1, ConnectKeeps
    <3>2. ASSUME NEW f \in Families, NEW m \in Helpers, Disconnect(f, m)
          PROVE  DialBackInv'
      BY <3>2, DisconnectKeeps
    <3>3. ASSUME NEW m \in Helpers, BroadcastObservations(m)
          PROVE  DialBackInv'
      BY <3>3, BroadcastKeeps
    <3>4. ASSUME NEW frame \in wire, HandleAddressObservation(frame)
          PROVE  DialBackInv'
      BY <3>4, ObservationKeeps
    <3>5. ASSUME NEW frame \in wire, HandleDialbackResult(frame)
          PROVE  DialBackInv'
      BY <3>5, ResultKeeps
    <3>6. ASSUME NEW frame \in wire, NEW refused \in BOOLEAN, HandleDialbackRequest(frame, refused)
          PROVE  DialBackInv'
      BY <3>6, AcceptKeeps
    <3>7. CASE MaybeRequestDialback
      BY <3>7, RequestKeeps
    <3>8. ASSUME NEW p \in pending, ExpireDialback(p)
          PROVE  DialBackInv'
      BY <3>8, ExpireKeeps
    <3>9. ASSUME NEW m \in Helpers, NEW probe \in probes[m], OnProbeEvent(m, probe)
          PROVE  DialBackInv'
      BY <3>9, ProbeKeeps
    <3>10. ASSUME NEW m \in Helpers, NEW probe \in probes[m], ExpireHelperProbe(m, probe)
           PROVE  DialBackInv'
      BY <3>10, ExpireProbeKeeps
    <3>11. CASE Grant
      BY <3>11, GrantKeeps
    <3>12. CASE LeaseEnds
      BY <3>12, LeaseEndsKeeps
    <3>13. ASSUME NEW f \in Families, Renumber(f)
           PROVE  DialBackInv'
      BY <3>13, RenumberKeeps
    <3>. QED
      BY <2>2, <3>1, <3>2, <3>3, <3>4, <3>5, <3>6, <3>7, <3>8, <3>9, <3>10, <3>11, <3>12, <3>13
         DEF NextDialBack
  <2>. QED
    BY <2>1, <2>2 DEF PathsNext, pathVars
<1>. QED
  BY <1>1, <1>2, PTL DEF PathsSpec

\* The types of dial-back, for any helpers: no socket of a helper outlives its
\* probe, and at most one request of a kind is pending.
THEOREM DialBackTypesHold == PathsSpec => []DialBackTypes
<1>1. DialBackInv => DialBackTypes
  <2>. SUFFICES ASSUME DialBackInv
                PROVE  DialBackTypes
    OBVIOUS
  <2>1. /\ index \in [Helpers -> {0} \cup Families]
        /\ \A f \in Families, m \in Helpers : IsAddr(link[f][m]) /\ IsAddr(obs[f][m])
    BY DEF DialBackInv, LinksInv, IsAddr
  <2>2. \A k \in Kinds : IsAddr(confirmed[k])
    BY DEF DialBackInv, FramesInv, IsAddr
  <2>3. asked \in 0 .. MaxRequests
    BY DEF DialBackInv, NoncesInv
  <2>. QED
    BY <2>1, <2>2, <2>3 DEF DialBackInv, HelpersInv, DialBackTypes
<1>. QED
  BY <1>1, DialBackHolds, PTL

\* An advertised address that a helper has dialled lets anybody in while its
\* network lasts and no lease was lost (see DirectReachable), whatever NAT the
\* requester is behind and whoever its helpers are.
THEOREM DirectsReachable == PathsSpec => []DirectReachable
<1>1. DialBackInv => DirectReachable
  <2>. SUFFICES ASSUME DialBackInv
                PROVE  DirectReachable
    OBVIOUS
  <2>1. ASSUME NEW k \in Kinds, NEW f \in Families,
               confirmed[k] # NoAddr, confirmed[k] = probed[k],
               confirmed[k][2] = box[f].net,
               setting.gateway = Real => lease # 0,
               box[f].config.filtering # "AddressRestricted"
        PROVE  Inbound(box[f], Stranger, confirmed[k]) = Mine(f)
    <3>1. confirmed[k] \in Addrs /\ Verified(confirmed[k])
      BY <2>1 DEF DialBackInv, FramesInv, VerdictsInv
    <3>2. Held
      BY <2>1 DEF Held
    <3>3. LetsAllIn(box[f], confirmed[k])
      BY <2>1, <3>1, <3>2 DEF Verified, Stands
    <3>4. OwnBox(box[f]) /\ Mine(f) = Own(box[f])
      BY DEF DialBackInv, BoxesInv, Mine, Own
    <3>. QED
      BY <2>1, <3>1, <3>3, <3>4, OpenReaches
  <2>2. \A k \in Kinds : confirmed[k] \in ToSet(DirectAddrs) => confirmed[k] # NoAddr
    <3>. DEFINE a == confirmed["V6"]
                c == IF confirmed["Observed"] # NoAddr THEN confirmed["Observed"] ELSE confirmed["PortMapped"]
                Some(addr) == IF addr = NoAddr THEN <<>> ELSE <<addr>>
    <3>1. DirectAddrs = Some(a) \o Some(c)
      BY DEF DirectAddrs
    <3>. HIDE DEF a, c
    <3>2. \A x \in ToSet(DirectAddrs) : x # NoAddr
      <4>1. CASE a = NoAddr /\ c = NoAddr
        BY <3>1, <4>1 DEF ToSet
      <4>2. CASE a = NoAddr /\ c # NoAddr
        <5>1. DirectAddrs = <<c>>
          BY <3>1, <4>2
        <5>. QED
          BY <4>2, <5>1 DEF ToSet
      <4>3. CASE a # NoAddr /\ c = NoAddr
        <5>1. DirectAddrs = <<a>>
          BY <3>1, <4>3
        <5>. QED
          BY <4>3, <5>1 DEF ToSet
      <4>4. CASE a # NoAddr /\ c # NoAddr
        <5>. DEFINE s == <<a>>
                    t == <<c>>
        <5>1. s \in Seq({a, c}) /\ t \in Seq({a, c}) /\ Len(s) = 1 /\ Len(t) = 1
              /\ s[1] = a /\ t[1] = c
          OBVIOUS
        <5>2. DirectAddrs = s \o t
          BY <3>1, <4>4
        <5>. HIDE DEF s, t
        <5>3. /\ s \o t \in Seq({a, c}) /\ Len(s \o t) = 2
              /\ \A i \in 1 .. 2 : (s \o t)[i] = IF i <= 1 THEN s[i] ELSE t[i - 1]
          BY <5>1, ConcatProperties
        <5>. QED
          BY <4>4, <5>2, <5>3 DEF ToSet
      <4>. QED
        BY <4>1, <4>2, <4>3, <4>4
    <3>. QED
      BY <3>2
  <2>3. V4 \in Families /\ V6 \in Families
    BY DEF Families
  <2>. QED
    BY <2>1, <2>2, <2>3 DEF DirectReachable
<1>. QED
  BY <1>1, DialBackHolds, PTL

-----------------------------------------------------------------------------
(* Hole punching: what holds of its sessions, sockets and requests.        *)

Listed(q) == q \in Seq(ToSet(q))

SessionFields ==
  {"peer", "nonce", "candidates", "freshest", "awaiting", "dialStarted", "payload", "sockets",
   "birthdayStarted", "sprayed", "due", "rounds", "followup", "prediction", "bracket"}
IsSession(s) == \E V : s \in [SessionFields -> V]

\* A session at end e.
SessionInv(e, s) ==
  /\ IsSession(s)
  /\ s.nonce \in Ends
  /\ s.rounds \in 0 .. MaxPunchProbeRounds
  /\ Listed(s.candidates) /\ Len(s.candidates) <= MaxPunchCandidates
  /\ s.due \in {"now", "later", "never"}
  /\ s.sockets \subseteq BirthdaySockets(e, s.nonce)

\* The sessions, the kept sockets and all the short-lived sockets of end e.
Sound(e, ss, ks, sk) ==
  /\ \A s \in ss : SessionInv(e, s) /\ ks \cap BirthdaySockets(e, s.nonce) = {}
  /\ \A s, t \in ss : s.nonce = t.nonce => s = t
  /\ sk = ks \cup UNION {s.sockets : s \in ss}

Asks(q) == {i \in DOMAIN q : q[i].type = "ConnectRequest"}

\* The request of e is under way.
UnderWay(e) == Asks(chan[<<e, Via>>]) # {} \/ Asks(chan[<<Via, Peer(e)>>]) # {}

\* It is under way once, with the nonce of e.
Once(e) ==
  /\ \A h \in {<<e, Via>>, <<Via, Peer(e)>>} :
       \A i, j \in Asks(chan[h]) : i = j /\ chan[h][i].nonce = e
  /\ Asks(chan[<<e, Via>>]) = {} \/ Asks(chan[<<Via, Peer(e)>>]) = {}

\* Nobody at x has heard of the nonce n yet.
Unheard(x, n) ==
  /\ \A s \in session[x] : s.nonce # n
  /\ kept[x] \cap BirthdaySockets(x, n) = {}

RequestsInv ==
  \A e \in Ends :
    /\ Once(e)
    /\ UnderWay(e) \/ e \notin begun => Unheard(Peer(e), e)
    /\ e \notin begun => ~UnderWay(e) /\ Unheard(e, e)

ForwardsInv == IsFiniteSet(forward) /\ Cardinality(forward) <= MaxPunchForwards

AssistsInv ==
  /\ IsFiniteSet(assisting) /\ Cardinality(assisting) <= MaxPunchHelpers
  /\ \A g, h \in assisting : g.port = h.port => g = h
  /\ socks[Via] = {h.port : h \in assisting}

\* The variables are functions, whatever their values.
FunctionsInv ==
  /\ \E V : session \in [Ends -> V] /\ kept \in [Ends -> V] /\ socks \in [Nodes -> V]
  /\ \E F : chan \in [Hops -> Seq(F)]
  /\ \A e \in Ends : IsFiniteSet(DOMAIN seen[e])
  /\ begun \subseteq Ends /\ failed \subseteq Ends /\ joined \in BOOLEAN

PunchInv ==
  /\ FunctionsInv /\ ForwardsInv /\ AssistsInv /\ RequestsInv
  /\ \A e \in Ends : Sound(e, session[e], kept[e], socks[e])

-----------------------------------------------------------------------------
(* Lists of candidates.                                                    *)

\* A sequence is one of its own elements.
LEMMA SeqIsListed ==
  ASSUME NEW S, NEW q \in Seq(S)
  PROVE  Listed(q) /\ Len(q) \in Nat
BY DEF Listed, ToSet

\* A list stays within its cap.
LEMMA AddKeeps ==
  ASSUME NEW q, Listed(q), Len(q) <= MaxPunchCandidates, NEW a
  PROVE  Listed(Add(q, a)) /\ Len(Add(q, a)) <= MaxPunchCandidates
<1>. DEFINE S == ToSet(q) \cup {a}
<1>1. q \in Seq(S) /\ Len(q) \in Nat
  BY DEF Listed
<1>2. CASE Add(q, a) = q
  BY <1>2
<1>3. CASE Add(q, a) = Append(q, a) /\ Len(q) < MaxPunchCandidates
  <2>. HIDE DEF S
  <2>1. a \in S
    BY DEF S
  <2>2. Append(q, a) \in Seq(S) /\ Len(Append(q, a)) = Len(q) + 1
    BY <1>1, <2>1
  <2>3. MaxPunchCandidates \in Nat
    BY PunchAssumption
  <2>4. Listed(Append(q, a))
    BY <2>2, SeqIsListed
  <2>5. Len(Append(q, a)) <= MaxPunchCandidates
    BY <1>1, <1>3, <2>2, <2>3
  <2>. QED
    BY <1>3, <2>4, <2>5
<1>4. MaxPunchCandidates \in Nat
  BY PunchAssumption
<1>5. Add(q, a) = q \/ (Add(q, a) = Append(q, a) /\ Len(q) < MaxPunchCandidates)
  BY <1>1, <1>4 DEF Add
<1>. QED
  BY <1>2, <1>3, <1>5

\* So does one with an element moved to its front.
LEMMA FrontKeeps ==
  ASSUME NEW q, Listed(q), Len(q) <= MaxPunchCandidates, NEW a \in ToSet(q)
  PROVE  LET r == <<a>> \o RemoveFirst(q, a)
         IN Listed(r) /\ Len(r) <= MaxPunchCandidates
<1>. DEFINE S == ToSet(q)
            I == {i \in 1 .. Len(q) : q[i] = a}
            k == Min(I)
            x == SubSeq(q, 1, k - 1)
            y == SubSeq(q, k + 1, Len(q))
<1>1. q \in Seq(S) /\ Len(q) \in Nat /\ DOMAIN q = 1 .. Len(q)
  BY DEF Listed
<1>2. I # {} /\ I \in SUBSET Nat
  BY <1>1 DEF ToSet
<1>3. k \in I
  <2>. HIDE DEF I
  <2>. QED
    BY <1>2, LeastIsMin
<1>4. RemoveFirst(q, a) = x \o y
  <2>1. \E i \in 1 .. Len(q) : q[i] = a
    BY <1>2
  <2>2. SelectInSeq(q, LAMBDA v : v = a) = k
    BY <1>2 DEF SelectInSeq
  <2>. QED
    BY <2>1, <2>2 DEF RemoveFirst, RemoveAt
<1>. HIDE DEF k, S
<1>5. k \in 1 .. Len(q)
  BY <1>3
<1>6. x \in Seq(S) /\ Len(x) = k - 1
  BY <1>1, <1>5
<1>7. y \in Seq(S) /\ Len(y) = Len(q) - k
  <2>1. k + 1 \in Int /\ Len(q) \in Int /\ \A i \in k + 1 .. Len(q) : q[i] \in S
    BY <1>1, <1>5
  <2>2. y \in Seq(S) /\ Len(y) = IF k + 1 <= Len(q) THEN Len(q) - (k + 1) + 1 ELSE 0
    BY <2>1, SubSeqProperties
  <2>3. \A l \in Nat : \A c \in 1 .. l : (IF c + 1 <= l THEN l - (c + 1) + 1 ELSE 0) = l - c
    OBVIOUS
  <2>4. Len(y) = Len(q) - k
    <3>1. (IF k + 1 <= Len(q) THEN Len(q) - (k + 1) + 1 ELSE 0) = Len(q) - k
      BY <1>1, <1>5, <2>3
    <3>. HIDE DEF y
    <3>. QED
      BY <2>2, <3>1
  <2>. QED
    BY <2>2, <2>4
<1>. HIDE DEF x, y
<1>8. x \o y \in Seq(S) /\ Len(x \o y) = Len(q) - 1
  <2>1. x \o y \in Seq(S) /\ Len(x \o y) = Len(x) + Len(y)
    BY <1>6, <1>7, ConcatProperties
  <2>. QED
    BY <1>1, <1>5, <1>6, <1>7, <2>1
<1>9. <<a>> \in Seq(S) /\ Len(<<a>>) = 1
  BY DEF S
<1>. DEFINE z == x \o y
            u == <<a>>
<1>. HIDE DEF z, u
<1>10. u \o z \in Seq(S) /\ Len(u \o z) = Len(q)
  <2>1. z \in Seq(S) /\ u \in Seq(S) /\ Len(z) = Len(q) - 1 /\ Len(u) = 1
    BY <1>8, <1>9 DEF z, u
  <2>2. u \o z \in Seq(S) /\ Len(u \o z) = Len(u) + Len(z)
    BY <2>1, ConcatProperties
  <2>. QED
    BY <1>1, <2>1, <2>2
<1>. QED
  BY <1>4, <1>10, SeqIsListed DEF u, z

\* The hints are a list.
LEMMA HintsFacts ==
  ASSUME NEW ob, IsFiniteSet(DOMAIN ob)
  PROVE  Len(ObservedHints(ob)) \in Nat
<1>. DEFINE P == {Port(o) : o \in Observers(ob)}
            h == ObservedHints(ob)
            N == Cardinality(P)
<1>1. IsFiniteSet(P)
  <2>1. IsFiniteSet(Observers(ob))
    BY FS_Subset DEF Observers
  <2>. DEFINE at == [o \in Observers(ob) |-> Port(o)]
  <2>2. at \in Surjection(Observers(ob), P)
    BY DEF Surjection
  <2>. HIDE DEF at, P
  <2>. QED
    BY <2>1, <2>2, FS_Surjection
<1>2. N \in Nat
  BY <1>1, FS_CardinalityType
<1>. DEFINE Nth(i) == CHOOSE p \in P : Cardinality({q \in P : q < p}) = i - 1
            Some(port) == CHOOSE m \in Mappings(ob) :
                            \E o \in Observers(ob) : Port(o) = port /\ ob[o] = m
            One(i) == Some(Nth(i))
<1>3. h = [i \in 1 .. N |-> One(i)]
  BY DEF ObservedHints
<1>. HIDE DEF h, N, One
<1>4. h \in Seq({One(i) : i \in 1 .. N})
  BY <1>2, <1>3
<1>. QED
  BY <1>4 DEF h

\* What a node offers of itself is a list within the cap.
LEMMA CandidatesFacts ==
  ASSUME FunctionsInv, NEW e \in Ends
  PROVE  /\ Listed(LocalPunchCandidates(e))
         /\ Len(LocalPunchCandidates(e)) <= MaxPunchCandidates
<1>. DEFINE h == ObservedHints(seen[e])
            n == Len(h)
            Body(a, i) == IF i = 0 THEN <<>> ELSE Add(a[i - 1], h[i])
            Does(a, m) == a = [i \in 0 .. m |-> Body(a, i)]
            added[i \in 0 .. n] == IF i = 0 THEN <<>> ELSE Add(added[i - 1], h[i])
<1>1. n \in Nat
  BY HintsFacts DEF FunctionsInv
<1>2. LocalPunchCandidates(e) = added[n]
  BY DEF LocalPunchCandidates
<1>3. added = CHOOSE a : Does(a, n)
  BY DEF added
<1>. HIDE DEF added, Body, h, n
<1>4. \A m \in Nat : \E a : Does(a, m)
  <2>. DEFINE B == {m \in Nat : ~\E a : Does(a, m)}
              m == Min(B)
  <2>. SUFFICES ASSUME B # {}
                PROVE  FALSE
    OBVIOUS
  <2>1. B \in SUBSET Nat
    OBVIOUS
  <2>2. m \in B /\ \A y \in B : m <= y
    <3>. HIDE DEF B
    <3>. QED
      BY <2>1, LeastIsMin
  <2>. HIDE DEF m
  <2>3. m \in Nat /\ ~(\E a : Does(a, m)) /\ \A y \in Nat : y < m => \E a : Does(a, y)
    BY <2>2
  <2>4. CASE m = 0
    <3>. DEFINE b == [i \in 0 .. 0 |-> <<>>]
    <3>1. Does(b, 0)
      <4>1. \A i \in 0 .. 0 : Body(b, i) = <<>>
        BY DEF Body
      <4>. QED
        BY <4>1
    <3>. QED
      BY <2>3, <2>4, <3>1
  <2>5. CASE m # 0
    <3>1. m - 1 \in Nat /\ m - 1 < m
      BY <2>3, <2>5
    <3>2. PICK a : Does(a, m - 1)
      BY <2>3, <3>1
    <3>. DEFINE b == [i \in 0 .. m |-> IF i = m THEN Add(a[m - 1], h[m]) ELSE a[i]]
    <3>3. ASSUME NEW i \in 0 .. m
          PROVE  b[i] = Body(b, i)
      <4>1. CASE i = m
        <5>1. b[i] = Add(a[m - 1], h[m])
          BY <4>1
        <5>2. b[m - 1] = a[m - 1]
          <6>1. m - 1 \in 0 .. m /\ m - 1 # m
            BY <2>3, <3>1
          <6>. QED
            BY <6>1
        <5>. HIDE DEF b
        <5>. QED
          BY <2>5, <4>1, <5>1, <5>2 DEF Body
      <4>2. CASE i # m /\ i # 0
        <5>1. i \in 0 .. m - 1 /\ i - 1 \in 0 .. m /\ i - 1 # m
          BY <2>3, <4>2
        <5>2. a[i] = Body(a, i)
          BY <3>2, <5>1
        <5>3. b[i] = a[i] /\ b[i - 1] = a[i - 1]
          BY <4>2, <5>1
        <5>. HIDE DEF b
        <5>. QED
          BY <4>2, <5>2, <5>3 DEF Body
      <4>3. CASE i = 0 /\ i # m
        <5>1. i \in 0 .. m - 1
          BY <2>3, <4>3
        <5>2. a[i] = Body(a, i)
          BY <3>2, <5>1
        <5>3. b[i] = a[i]
          BY <4>3
        <5>. HIDE DEF b
        <5>. QED
          BY <4>3, <5>2, <5>3 DEF Body
      <4>. QED
        BY <4>1, <4>2, <4>3
    <3>4. b = [i \in 0 .. m |-> b[i]]
      OBVIOUS
    <3>. HIDE DEF b
    <3>5. Does(b, m)
      BY <3>3, <3>4
    <3>. QED
      BY <2>3, <3>5
  <2>. QED
    BY <2>4, <2>5
<1>5. Does(added, n)
  <2>. HIDE DEF Does
  <2>. QED
    BY <1>1, <1>3, <1>4
<1>6. \A i \in 0 .. n : added[i] = Body(added, i)
  BY <1>5
<1>. HIDE DEF Does
<1>7. Listed(added[n]) /\ Len(added[n]) <= MaxPunchCandidates
  <2>. DEFINE Good(i) == Listed(added[i]) /\ Len(added[i]) <= MaxPunchCandidates
              B == {i \in 0 .. n : ~Good(i)}
              m == Min(B)
  <2>. SUFFICES ASSUME B # {}
                PROVE  FALSE
    BY <1>1
  <2>1. B \in SUBSET Nat
    BY <1>1
  <2>2. m \in B /\ \A y \in B : m <= y
    <3>. HIDE DEF B
    <3>. QED
      BY <2>1, LeastIsMin
  <2>. HIDE DEF m
  <2>3. m \in 0 .. n /\ ~Good(m) /\ \A y \in 0 .. n : y < m => Good(y)
    BY <1>1, <2>2
  <2>4. CASE m = 0
    <3>1. added[m] = <<>>
      BY <1>6, <2>3, <2>4 DEF Body
    <3>2. <<>> \in Seq({}) /\ Len(<<>>) = 0 /\ MaxPunchCandidates \in Nat
      BY PunchAssumption
    <3>3. Listed(<<>>)
      BY <3>2, SeqIsListed
    <3>. QED
      BY <2>3, <3>1, <3>2, <3>3
  <2>5. CASE m # 0
    <3>1. added[m] = Add(added[m - 1], h[m])
      BY <1>6, <2>3, <2>5 DEF Body
    <3>2. Good(m - 1)
      BY <1>1, <2>3, <2>5
    <3>. QED
      BY <2>3, <3>1, <3>2, AddKeeps
  <2>. QED
    BY <2>4, <2>5
<1>. QED
  BY <1>2, <1>7

-----------------------------------------------------------------------------
(* Sessions.                                                               *)

\* The ports of birthday sockets tell nonces apart.
LEMMA BirthdaysDiffer ==
  ASSUME NEW e, NEW x \in Nat, NEW y \in Nat, x # y
  PROVE  BirthdaySockets(e, x) \cap BirthdaySockets(e, y) = {}
<1>. DEFINE c == BirthdaySocketCap
<1>1. c \in Nat
  BY PunchAssumption
<1>. HIDE DEF c
<1>2. ASSUME NEW a \in Nat, NEW b \in Nat, a < b, NEW i \in 1 .. c, NEW j \in 1 .. c
      PROVE  100 + c * a + i # 100 + c * b + j
  <2>1. PICK d \in Nat : b = a + 1 + d
    <3>1. b - a - 1 \in Nat /\ b = a + 1 + (b - a - 1)
      BY <1>2
    <3>. QED
      BY <3>1
  <2>2. c * b = c * a + c + c * d
    BY <1>1, <2>1
  <2>3. c * d \in Nat /\ c * a \in Nat
    BY <1>1
  <2>. DEFINE u == c * a
              v == c * d
  <2>. HIDE DEF u, v
  <2>4. u \in Nat /\ v \in Nat /\ c * b = u + c + v /\ c * a = u
    BY <2>2, <2>3 DEF u, v
  <2>. QED
    BY <1>1, <2>4
<1>3. x < y \/ y < x
  OBVIOUS
<1>4. ASSUME NEW p \in BirthdaySockets(e, x), p \in BirthdaySockets(e, y)
      PROVE  FALSE
  <2>1. PICK i \in 1 .. c : p = 100 + c * x + i
    BY DEF BirthdaySockets, c
  <2>2. PICK j \in 1 .. c : p = 100 + c * y + j
    BY <1>4 DEF BirthdaySockets, c
  <2>. QED
    BY <1>2, <1>3, <2>1, <2>2
<1>. QED
  BY <1>4

\* A session that is new has no sockets.
LEMMA NewFacts ==
  ASSUME NEW e, NEW n \in Ends, NEW w
  PROVE  LET s == NewSession(e, n, w)
         IN SessionInv(e, s) /\ s.nonce = n /\ s.sockets = {}
<1>. DEFINE s == NewSession(e, n, w)
<1>1. /\ s.nonce = n /\ s.candidates = <<>> /\ s.sockets = {} /\ s.due = "later" /\ s.rounds = 0
  BY DEF NewSession
<1>2. IsSession(s)
  <2>. DEFINE V == {s[x] : x \in SessionFields}
  <2>1. s = [x \in SessionFields |-> s[x]]
    BY DEF NewSession, SessionFields
  <2>. HIDE DEF s
  <2>2. s \in [SessionFields -> V]
    BY <2>1
  <2>. QED
    BY <2>2 DEF IsSession
<1>. HIDE DEF s
<1>3. Listed(<<>>) /\ Len(<<>>) = 0
  <2>1. <<>> \in Seq({}) /\ Len(<<>>) = 0
    OBVIOUS
  <2>. QED
    BY <2>1, SeqIsListed
<1>4. MaxPunchCandidates \in Nat /\ MaxPunchProbeRounds \in Nat
  BY PunchAssumption
<1>5. SessionInv(e, s)
  BY <1>1, <1>2, <1>3, <1>4 DEF SessionInv
<1>. QED
  BY <1>1, <1>5 DEF s

\* The fields of a session after one of them was set.
LEMMA SetFacts ==
  ASSUME NEW s, IsSession(s), NEW x \in SessionFields, NEW v
  PROVE  LET t == [s EXCEPT ![x] = v]
         IN IsSession(t) /\ t[x] = v /\ \A y \in SessionFields : y # x => t[y] = s[y]
<1>1. PICK V : s \in [SessionFields -> V]
  BY DEF IsSession
<1>2. [s EXCEPT ![x] = v] \in [SessionFields -> V \cup {v}]
  BY <1>1
<1>. QED
  BY <1>1, <1>2 DEF IsSession

\* advance_punches counts a round only while there is one left.
LEMMA AdvancedFacts ==
  ASSUME NEW e \in Ends, NEW s, SessionInv(e, s), NEW dues
  PROVE  LET t == Advanced(s, dues)
         IN SessionInv(e, t) /\ t.nonce = s.nonce /\ t.sockets = s.sockets
<1>. DEFINE t == Advanced(s, dues)
<1>1. PICK V : s \in [SessionFields -> V]
  BY DEF SessionInv, IsSession
<1>2. MaxPunchProbeRounds \in Nat /\ s.rounds \in 0 .. MaxPunchProbeRounds
  BY PunchAssumption DEF SessionInv
<1>3. ASSUME t = s
      PROVE  SessionInv(e, t) /\ t.nonce = s.nonce /\ t.sockets = s.sockets
  BY <1>3
<1>4. ASSUME t = [s EXCEPT !.due = "never"]
      PROVE  SessionInv(e, t) /\ t.nonce = s.nonce /\ t.sockets = s.sockets
  <2>1. IsSession(t) /\ t.due = "never" /\ t.nonce = s.nonce /\ t.sockets = s.sockets
        /\ t.rounds = s.rounds /\ t.candidates = s.candidates
    <3>1. t \in [SessionFields -> V \cup {"never"}]
      BY <1>1, <1>4
    <3>. QED
      BY <1>1, <1>4, <3>1 DEF IsSession, SessionFields
  <2>. HIDE DEF t
  <2>. QED
    BY <2>1 DEF SessionInv
<1>5. ASSUME \E d \in {"never", "later"} : t = [s EXCEPT !.rounds = s.rounds + 1, !.due = d]
               /\ s.rounds < MaxPunchProbeRounds
      PROVE  SessionInv(e, t) /\ t.nonce = s.nonce /\ t.sockets = s.sockets
  <2>1. PICK d \in {"never", "later"} : t = [s EXCEPT !.rounds = s.rounds + 1, !.due = d]
    BY <1>5
  <2>2. IsSession(t) /\ t.due = d /\ t.nonce = s.nonce /\ t.sockets = s.sockets
        /\ t.rounds = s.rounds + 1 /\ t.candidates = s.candidates
    <3>1. t \in [SessionFields -> V \cup {d, s.rounds + 1}]
      BY <1>1, <2>1
    <3>. QED
      BY <1>1, <2>1, <3>1 DEF IsSession, SessionFields
  <2>. HIDE DEF t
  <2>. QED
    BY <1>2, <1>5, <2>2 DEF SessionInv
<1>6. t = s \/ t = [s EXCEPT !.due = "never"]
      \/ \E d \in {"never", "later"} : t = [s EXCEPT !.rounds = s.rounds + 1, !.due = d]
           /\ s.rounds < MaxPunchProbeRounds
  BY DEF Advanced, Probing
<1>. HIDE DEF t
<1>7. SessionInv(e, t) /\ t.nonce = s.nonce /\ t.sockets = s.sockets
  BY <1>3, <1>4, <1>5, <1>6
<1>. QED
  BY <1>7 DEF t

-----------------------------------------------------------------------------
(* The sockets of an end.                                                  *)

\* After a timer or a handler's closing call.
LEMMA AdvanceSound ==
  ASSUME NEW e \in Ends, NEW ss, NEW ks, NEW sk, Sound(e, ss, ks, sk), NEW dues
  PROVE  /\ Sound(e, AdvancedAll(ss, dues), ks, sk)
         /\ \A t \in AdvancedAll(ss, dues) : \E s \in ss : t.nonce = s.nonce
<1>. DEFINE rr == AdvancedAll(ss, dues)
            A(s) == Advanced(s, dues)
<1>1. rr = {A(s) : s \in ss}
  BY DEF AdvancedAll
<1>2. \A s \in ss : SessionInv(e, A(s)) /\ A(s).nonce = s.nonce /\ A(s).sockets = s.sockets
  BY AdvancedFacts DEF Sound
<1>. HIDE DEF A, rr
<1>3. UNION {t.sockets : t \in rr} = UNION {s.sockets : s \in ss}
  BY <1>1, <1>2
<1>4. \A t \in rr : SessionInv(e, t) /\ ks \cap BirthdaySockets(e, t.nonce) = {}
  BY <1>1, <1>2 DEF Sound
<1>5. \A t, u \in rr : t.nonce = u.nonce => t = u
  BY <1>1, <1>2 DEF Sound
<1>6. Sound(e, rr, ks, sk)
  BY <1>3, <1>4, <1>5 DEF Sound
<1>7. \A t \in rr : \E s \in ss : t.nonce = s.nonce
  BY <1>1, <1>2
<1>. QED
  BY <1>6, <1>7 DEF rr

\* A session is edited, its sockets included.
LEMMA SwapSound ==
  ASSUME NEW e \in Ends, NEW ss, NEW ks, NEW sk, Sound(e, ss, ks, sk),
         NEW s \in ss, NEW t, SessionInv(e, t), t.nonce = s.nonce, s.sockets \subseteq t.sockets
  PROVE  Sound(e, (ss \ {s}) \cup {t}, ks, sk \cup t.sockets)
<1>. DEFINE rr == (ss \ {s}) \cup {t}
<1>1. sk \cup t.sockets = ks \cup UNION {r.sockets : r \in rr}
  <2>1. sk = ks \cup UNION {r.sockets : r \in ss}
    BY DEF Sound
  <2>2. \A r \in ss : r.sockets \subseteq UNION {q.sockets : q \in rr}
    <3>1. TAKE r \in ss
    <3>2. CASE r = s
      BY <3>2
    <3>3. CASE r # s
      BY <3>3
    <3>. QED
      BY <3>2, <3>3
  <2>3. \A r \in rr : r.sockets \subseteq t.sockets \cup UNION {q.sockets : q \in ss}
    OBVIOUS
  <2>. QED
    BY <2>1, <2>2, <2>3
<1>2. \A r \in rr : SessionInv(e, r) /\ ks \cap BirthdaySockets(e, r.nonce) = {}
  BY DEF Sound
<1>3. \A q, r \in rr : q.nonce = r.nonce => q = r
  BY DEF Sound
<1>. QED
  BY <1>1, <1>2, <1>3 DEF Sound

\* A session begins, of a nonce nothing is kept for.
LEMMA NewSound ==
  ASSUME NEW e \in Ends, NEW ss, NEW ks, NEW sk, Sound(e, ss, ks, sk),
         NEW t, SessionInv(e, t), t.sockets = {},
         \A s \in ss : s.nonce # t.nonce, ks \cap BirthdaySockets(e, t.nonce) = {}
  PROVE  Sound(e, ss \cup {t}, ks, sk)
<1>1. UNION {r.sockets : r \in ss \cup {t}} = UNION {r.sockets : r \in ss}
  OBVIOUS
<1>2. \A q, r \in ss \cup {t} : q.nonce = r.nonce => q = r
  BY DEF Sound
<1>. QED
  BY <1>1, <1>2 DEF Sound

\* A session ends: no other shares its sockets, nor does a connection.
LEMMA DropSound ==
  ASSUME NEW e \in Ends, NEW ss, NEW ks, NEW sk, Sound(e, ss, ks, sk), NEW s \in ss
  PROVE  Sound(e, ss \ {s}, ks, sk \ s.sockets)
<1>1. \A r \in ss \ {s} : r.sockets \cap s.sockets = {}
  <2>1. TAKE r \in ss \ {s}
  <2>2. r.nonce # s.nonce /\ r.nonce \in Nat /\ s.nonce \in Nat
    BY PunchAssumption DEF Sound, SessionInv
  <2>3. BirthdaySockets(e, r.nonce) \cap BirthdaySockets(e, s.nonce) = {}
    BY <2>2, BirthdaysDiffer
  <2>. QED
    BY <2>3 DEF Sound, SessionInv
<1>2. ks \cap s.sockets = {}
  BY DEF Sound, SessionInv
<1>3. sk = ks \cup UNION {r.sockets : r \in ss}
  BY DEF Sound
<1>4. sk \ s.sockets = ks \cup UNION {r.sockets : r \in ss \ {s}}
  BY <1>1, <1>2, <1>3
<1>. QED
  BY <1>4 DEF Sound

\* All sessions end, and a connection keeps the sockets it lives on.
LEMMA ClearSound ==
  ASSUME NEW e \in Ends, NEW ss, NEW ks, NEW sk, Sound(e, ss, ks, sk), NEW keep
  PROVE  LET all == UNION {s.sockets : s \in ss}
         IN /\ Sound(e, {}, ks \cup (all \cap keep), sk \ (all \ keep))
            /\ \A n \in Ends : ks \cap BirthdaySockets(e, n) = {} /\ (\A s \in ss : s.nonce # n)
                 => (ks \cup (all \cap keep)) \cap BirthdaySockets(e, n) = {}
<1>. DEFINE all == UNION {s.sockets : s \in ss}
<1>1. \A s \in ss : s.sockets \subseteq BirthdaySockets(e, s.nonce) /\ s.nonce \in Nat
                    /\ ks \cap s.sockets = {}
  BY PunchAssumption DEF Sound, SessionInv
<1>2. ks \cap all = {}
  BY <1>1
<1>3. sk = ks \cup all
  BY DEF Sound
<1>4. ASSUME NEW n \in Ends, ks \cap BirthdaySockets(e, n) = {}, \A s \in ss : s.nonce # n
      PROVE  (ks \cup (all \cap keep)) \cap BirthdaySockets(e, n) = {}
  <2>1. \A s \in ss : BirthdaySockets(e, s.nonce) \cap BirthdaySockets(e, n) = {}
    BY <1>1, <1>4, BirthdaysDiffer, PunchAssumption
  <2>2. all \cap BirthdaySockets(e, n) = {}
    BY <1>1, <2>1
  <2>. QED
    BY <1>4, <2>2
<1>. HIDE DEF all
<1>5. Sound(e, {}, ks \cup (all \cap keep), sk \ (all \ keep))
  BY <1>2, <1>3 DEF Sound
<1>. QED
  BY <1>4, <1>5 DEF all

-----------------------------------------------------------------------------
(* Requests under way.                                                     *)

\* Every request in r was in q, and stands there at most one place further on.
NoNew(q, r) == \E k \in {0, 1} : \A i \in Asks(r) : i + k \in Asks(q) /\ r[i] = q[i + k]

\* The channels d hold no request that c do not.
Quieter(c, d) ==
  /\ \E F : d \in [Hops -> Seq(F)]
  /\ \A g \in Hops : NoNew(c[g], d[g])

\* The two ends, and the ways between them and the via.
LEMMA EndsFacts ==
  ASSUME NEW e \in Ends
  PROVE  /\ e \in Nat /\ Peer(e) \in Ends /\ Peer(e) # e /\ Peer(Peer(e)) = e
         /\ \A x \in Ends : x = e \/ x = Peer(e)
         /\ e # Via /\ e \in Nodes /\ Via \in Nodes
         /\ <<e, Via>> \in Hops /\ <<Via, e>> \in Hops
         /\ \A x \in Ends : <<e, Via>> # <<Via, x>>
<1>1. PICK x, y \in Ends : x # y /\ Ends = {x, y}
  BY PunchAssumption
<1>2. e \in Nat /\ Via \notin Ends
  BY PunchAssumption
<1>3. \A a \in Ends : Peer(a) \in Ends /\ Peer(a) # a
  BY <1>1 DEF Peer
<1>4. Peer(Peer(e)) = e /\ \A a \in Ends : a = e \/ a = Peer(e)
  BY <1>1, <1>3
<1>. QED
  BY <1>2, <1>3, <1>4 DEF Nodes, Hops

\* What is appended is no request.
LEMMA NoNewConcat ==
  ASSUME NEW F, NEW q, NEW d \in Seq(F), NoNew(q, d),
         NEW G, NEW r \in Seq(G), Asks(r) = {}
  PROVE  d \o r \in Seq(F \cup G) /\ NoNew(q, d \o r)
<1>1. /\ d \in Seq(F \cup G) /\ r \in Seq(F \cup G)
      /\ DOMAIN d = 1 .. Len(d) /\ DOMAIN r = 1 .. Len(r) /\ Len(d) \in Nat /\ Len(r) \in Nat
  OBVIOUS
<1>2. /\ d \o r \in Seq(F \cup G) /\ Len(d \o r) = Len(d) + Len(r)
      /\ \A i \in 1 .. Len(d) + Len(r) : (d \o r)[i] = IF i <= Len(d) THEN d[i] ELSE r[i - Len(d)]
  BY <1>1, ConcatProperties
<1>. DEFINE c == d \o r
<1>3. DOMAIN c = 1 .. Len(d) + Len(r)
  <2>1. DOMAIN c = 1 .. Len(c)
    BY <1>2
  <2>. QED
    BY <1>2, <2>1
<1>4. \A i \in DOMAIN c : c[i] = IF i <= Len(d) THEN d[i] ELSE r[i - Len(d)]
  BY <1>2, <1>3
<1>. HIDE DEF c
<1>5. ASSUME NEW i \in Asks(c)
      PROVE  i \in Asks(d) /\ c[i] = d[i]
  <2>1. i \in DOMAIN c /\ c[i].type = "ConnectRequest"
    BY DEF Asks
  <2>2. CASE i <= Len(d)
    BY <1>1, <1>3, <1>4, <2>1, <2>2 DEF Asks
  <2>3. CASE ~(i <= Len(d))
    <3>1. i - Len(d) \in DOMAIN r /\ c[i] = r[i - Len(d)]
      BY <1>1, <1>3, <1>4, <2>1, <2>3
    <3>2. i - Len(d) \in Asks(r)
      BY <2>1, <3>1 DEF Asks
    <3>. QED
      BY <3>2
  <2>. QED
    BY <2>2, <2>3
<1>6. NoNew(q, c)
  BY <1>5 DEF NoNew
<1>. QED
  BY <1>2, <1>6 DEF c

\* Nor is there a new one when nothing, or the head, has gone.
LEMMA NoNewTail ==
  ASSUME NEW F, NEW q \in Seq(F)
  PROVE  /\ NoNew(q, q)
         /\ q # <<>> => /\ Tail(q) \in Seq(F) /\ NoNew(q, Tail(q))
                        /\ Head(q) = q[1] /\ 1 \in DOMAIN q
                        /\ \A i \in Asks(Tail(q)) : i + 1 \in Asks(q) /\ i + 1 # 1
<1>1. DOMAIN q = 1 .. Len(q) /\ Len(q) \in Nat
  OBVIOUS
<1>2. NoNew(q, q)
  <2>1. \A i \in Asks(q) : i + 0 = i
    BY <1>1 DEF Asks
  <2>2. \A i \in Asks(q) : i + 0 \in Asks(q) /\ q[i] = q[i + 0]
    BY <2>1
  <2>. QED
    BY <2>2 DEF NoNew
<1>3. ASSUME q # <<>>
      PROVE  /\ Tail(q) \in Seq(F) /\ NoNew(q, Tail(q))
             /\ Head(q) = q[1] /\ 1 \in DOMAIN q
             /\ \A i \in Asks(Tail(q)) : i + 1 \in Asks(q) /\ i + 1 # 1
  <2>1. Len(q) > 0
    BY <1>3
  <2>2. /\ Tail(q) \in Seq(F) /\ Len(Tail(q)) = Len(q) - 1
        /\ \A i \in 1 .. Len(q) - 1 : Tail(q)[i] = q[i + 1]
    BY <1>3
  <2>. DEFINE r == Tail(q)
  <2>3. DOMAIN r = 1 .. Len(q) - 1 /\ \A i \in 1 .. Len(q) - 1 : r[i] = q[i + 1]
    <3>1. DOMAIN r = 1 .. Len(r)
      BY <2>2
    <3>. QED
      BY <2>2, <3>1
  <2>. HIDE DEF r
  <2>4. \A i \in Asks(r) : i + 1 \in Asks(q) /\ r[i] = q[i + 1] /\ i + 1 # 1
    BY <1>1, <2>3 DEF Asks
  <2>5. NoNew(q, r)
    BY <2>4 DEF NoNew
  <2>6. Head(q) = q[1] /\ 1 \in DOMAIN q
    BY <1>1, <2>1
  <2>. QED
    BY <2>2, <2>4, <2>5, <2>6 DEF r
<1>. QED
  BY <1>2, <1>3

\* One channel gets another content.
LEMMA QuieterSet ==
  ASSUME NEW c, NEW d, Quieter(c, d), NEW h, NEW z, NEW G,
         h \in Hops => z \in Seq(G) /\ NoNew(c[h], z)
  PROVE  Quieter(c, [d EXCEPT ![h] = z])
<1>1. PICK F : d \in [Hops -> Seq(F)]
  BY DEF Quieter
<1>2. \A g \in Hops : d[g] \in Seq(F \cup G)
  BY <1>1
<1>3. h \in Hops => z \in Seq(F \cup G)
  OBVIOUS
<1>4. [d EXCEPT ![h] = z] \in [Hops -> Seq(F \cup G)]
  BY <1>1, <1>2, <1>3
<1>5. \A g \in Hops : NoNew(c[g], [d EXCEPT ![h] = z][g])
  BY <1>1 DEF Quieter
<1>. QED
  BY <1>4, <1>5 DEF Quieter

\* Channels that stay as they are.
LEMMA QuieterSame ==
  ASSUME FunctionsInv
  PROVE  Quieter(chan, chan)
<1>1. PICK F : chan \in [Hops -> Seq(F)]
  BY DEF FunctionsInv
<1>2. \A g \in Hops : NoNew(chan[g], chan[g])
  BY <1>1, NoNewTail
<1>. QED
  BY <1>1, <1>2 DEF Quieter

\* A frame is taken off a channel.
LEMMA QuieterTail ==
  ASSUME FunctionsInv, NEW h \in Hops, chan[h] # <<>>
  PROVE  Quieter(chan, [chan EXCEPT ![h] = Tail(@)])
<1>1. PICK F : chan \in [Hops -> Seq(F)]
  BY DEF FunctionsInv
<1>2. Tail(chan[h]) \in Seq(F) /\ NoNew(chan[h], Tail(chan[h]))
  BY <1>1, NoNewTail
<1>3. [chan EXCEPT ![h] = Tail(@)] = [chan EXCEPT ![h] = Tail(chan[h])]
  OBVIOUS
<1>. QED
  BY <1>2, <1>3, QuieterSame, QuieterSet

\* Frames other than requests are put on a channel.
LEMMA QuieterConcat ==
  ASSUME NEW c, NEW d, Quieter(c, d), NEW h, NEW G, NEW r \in Seq(G), Asks(r) = {}
  PROVE  Quieter(c, [d EXCEPT ![h] = @ \o r])
<1>1. PICK F : d \in [Hops -> Seq(F)]
  BY DEF Quieter
<1>2. h \in Hops => d[h] \o r \in Seq(F \cup G) /\ NoNew(c[h], d[h] \o r)
  BY <1>1, NoNewConcat DEF Quieter
<1>3. [d EXCEPT ![h] = @ \o r] = [d EXCEPT ![h] = d[h] \o r]
  OBVIOUS
<1>. QED
  BY <1>2, <1>3, QuieterSet

\* One frame is.
LEMMA QuieterAppend ==
  ASSUME NEW c, NEW d, Quieter(c, d), NEW h, NEW w, w.type # "ConnectRequest"
  PROVE  Quieter(c, [d EXCEPT ![h] = Append(@, w)])
<1>1. PICK F : d \in [Hops -> Seq(F)]
  BY DEF Quieter
<1>2. <<w>> \in Seq({w}) /\ Asks(<<w>>) = {}
  BY DEF Asks
<1>3. h \in Hops => Append(d[h], w) = d[h] \o <<w>>
  BY <1>1
<1>4. h \in Hops => d[h] \o <<w>> \in Seq(F \cup {w}) /\ NoNew(c[h], d[h] \o <<w>>)
  BY <1>1, <1>2, NoNewConcat DEF Quieter
<1>5. h \in Hops => Append(d[h], w) \in Seq(F \cup {w}) /\ NoNew(c[h], Append(d[h], w))
  BY <1>3, <1>4
<1>6. [d EXCEPT ![h] = Append(@, w)] = [d EXCEPT ![h] = Append(d[h], w)]
  OBVIOUS
<1>. QED
  BY <1>5, <1>6, QuieterSet

\* A request is still under way at most once, and to who has not heard of it.
LEMMA RequestsKept ==
  ASSUME RequestsInv, Quieter(chan, chan'), begun' = begun,
         \A e \in Ends : UnderWay(e)' \/ e \notin begun => Unheard(Peer(e), e)',
         \A e \in Ends : e \notin begun => Unheard(e, e)'
  PROVE  RequestsInv' /\ \A e \in Ends : UnderWay(e)' => UnderWay(e)
<1>1. PICK F : chan' \in [Hops -> Seq(F)]
  BY DEF Quieter
<1>2. \A h \in Hops : NoNew(chan[h], chan'[h]) /\ DOMAIN chan'[h] = 1 .. Len(chan'[h])
  BY <1>1 DEF Quieter
<1>3. ASSUME NEW h \in Hops
      PROVE  /\ Asks(chan[h]) = {} => Asks(chan'[h]) = {}
             /\ \A n : (\A i, j \in Asks(chan[h]) : i = j /\ chan[h][i].nonce = n) =>
                        \A i, j \in Asks(chan'[h]) : i = j /\ chan'[h][i].nonce = n
  <2>1. PICK k \in {0, 1} : \A i \in Asks(chan'[h]) : i + k \in Asks(chan[h]) /\ chan'[h][i] = chan[h][i + k]
    BY <1>2 DEF NoNew
  <2>2. Asks(chan[h]) = {} => Asks(chan'[h]) = {}
    BY <2>1
  <2>3. ASSUME NEW n, \A i, j \in Asks(chan[h]) : i = j /\ chan[h][i].nonce = n,
               NEW i \in Asks(chan'[h]), NEW j \in Asks(chan'[h])
        PROVE  i = j /\ chan'[h][i].nonce = n
    <3>1. i + k = j + k /\ chan[h][i + k].nonce = n
      BY <2>1, <2>3
    <3>2. i \in Int /\ j \in Int
      BY <1>2 DEF Asks
    <3>3. i = j
      BY <3>1, <3>2
    <3>. QED
      BY <2>1, <3>1, <3>3
  <2>. QED
    BY <2>2, <2>3
<1>4. ASSUME NEW e \in Ends
      PROVE  Once(e)' /\ (UnderWay(e)' => UnderWay(e))
  <2>1. Once(e) /\ <<e, Via>> \in Hops /\ <<Via, Peer(e)>> \in Hops
    BY EndsFacts DEF RequestsInv
  <2>2. \A h \in {<<e, Via>>, <<Via, Peer(e)>>} :
          \A i, j \in Asks(chan'[h]) : i = j /\ chan'[h][i].nonce = e
    <3>1. \A h \in {<<e, Via>>, <<Via, Peer(e)>>} :
            h \in Hops /\ \A i, j \in Asks(chan[h]) : i = j /\ chan[h][i].nonce = e
      BY <2>1, Zenon DEF Once
    <3>. QED
      BY <1>3, <3>1, Zenon
  <2>3. Asks(chan'[<<e, Via>>]) = {} \/ Asks(chan'[<<Via, Peer(e)>>]) = {}
    BY <1>3, <2>1 DEF Once
  <2>4. UnderWay(e)' => UnderWay(e)
    BY <1>3, <2>1 DEF UnderWay
  <2>5. Once(e)'
    BY <2>2, <2>3 DEF Once
  <2>. QED
    BY <2>4, <2>5
<1>. QED
  BY <1>4 DEF RequestsInv

\* The same when no session begins and no socket is kept.
LEMMA RequestsSame ==
  ASSUME RequestsInv, Quieter(chan, chan'), begun' = begun, kept' = kept,
         \A e \in Ends : \A t \in session'[e] : \E s \in session[e] : s.nonce = t.nonce
  PROVE  RequestsInv'
<1>1. \A e \in Ends : UnderWay(e)' => UnderWay(e)
  <2>1. PICK F : chan' \in [Hops -> Seq(F)]
    BY DEF Quieter
  <2>2. \A h \in Hops : Asks(chan[h]) = {} => Asks(chan'[h]) = {}
    BY DEF Quieter, NoNew
  <2>. QED
    BY <2>2, EndsFacts DEF UnderWay
<1>2. \A e \in Ends : \A n : Unheard(e, n) => Unheard(e, n)'
  BY DEF Unheard
<1>. QED
  BY <1>1, <1>2, RequestsKept, EndsFacts DEF RequestsInv

\* The only request of a channel is taken off it.
LEMMA AsksTail ==
  ASSUME NEW F, NEW q \in Seq(F), q # <<>>, Head(q).type = "ConnectRequest",
         \A i, j \in Asks(q) : i = j
  PROVE  Asks(Tail(q)) = {} /\ 1 \in Asks(q) /\ Head(q) = q[1]
<1>1. /\ Head(q) = q[1] /\ 1 \in DOMAIN q
      /\ \A i \in Asks(Tail(q)) : i + 1 \in Asks(q) /\ i + 1 # 1
  BY NoNewTail
<1>2. 1 \in Asks(q)
  BY <1>1 DEF Asks
<1>. QED
  BY <1>1, <1>2

\* The first request is put on a channel.
LEMMA AsksAppend ==
  ASSUME NEW F, NEW q \in Seq(F), Asks(q) = {}, NEW w
  PROVE  /\ Append(q, w) \in Seq(F \cup {w})
         /\ \A i, j \in Asks(Append(q, w)) : i = j /\ Append(q, w)[i] = w
<1>. DEFINE r == Append(q, w)
<1>1. r \in Seq(F \cup {w}) /\ Len(r) = Len(q) + 1 /\ Len(q) \in Nat
  BY AppendProperties
<1>2. DOMAIN r = 1 .. Len(q) + 1 /\ DOMAIN q = 1 .. Len(q)
      /\ r[Len(q) + 1] = w /\ \A i \in 1 .. Len(q) : r[i] = q[i]
  OBVIOUS
<1>. HIDE DEF r
<1>3. \A i \in Asks(r) : i = Len(q) + 1
  BY <1>1, <1>2 DEF Asks
<1>. QED
  BY <1>1, <1>2, <1>3 DEF r

-----------------------------------------------------------------------------
(* Steps.                                                                  *)

\* A step of one end: all but what it means for the requests.
LEMMA EndShape ==
  ASSUME PunchInv, NEW e \in Ends, NEW ss, NEW sk,
         session' = [session EXCEPT ![e] = ss], socks' = [socks EXCEPT ![e] = sk],
         Sound(e, ss, kept[e], sk), \E F : chan' \in [Hops -> Seq(F)],
         UNCHANGED <<seen, forward, assisting, kept, joined>>,
         begun' \subseteq Ends, failed' \subseteq Ends
  PROVE  /\ FunctionsInv' /\ ForwardsInv' /\ AssistsInv'
         /\ \A x \in Ends : Sound(x, session[x], kept[x], socks[x])'
         /\ session'[e] = ss /\ \A x \in Ends : x # e => session'[x] = session[x]
<1>1. PICK V : session \in [Ends -> V] /\ kept \in [Ends -> V] /\ socks \in [Nodes -> V]
  BY DEF PunchInv, FunctionsInv
<1>. DEFINE W == V \cup {ss, sk}
<1>2. session' \in [Ends -> W] /\ kept' \in [Ends -> W] /\ socks' \in [Nodes -> W]
  BY <1>1
<1>3. FunctionsInv'
  <2>. HIDE DEF W
  <2>. QED
    BY <1>2 DEF PunchInv, FunctionsInv
<1>4. ForwardsInv'
  BY DEF PunchInv, ForwardsInv
<1>5. e # Via /\ e \in Nodes /\ \A x \in Ends : x \in Nodes
  BY EndsFacts
<1>6. AssistsInv'
  <2>1. socks'[Via] = socks[Via]
    BY <1>1, <1>5
  <2>. QED
    BY <2>1 DEF PunchInv, AssistsInv
<1>7. session'[e] = ss /\ socks'[e] = sk
      /\ \A x \in Ends : x # e => session'[x] = session[x] /\ socks'[x] = socks[x]
  BY <1>1, <1>5
<1>8. \A x \in Ends : Sound(x, session'[x], kept'[x], socks'[x])
  BY <1>7 DEF PunchInv
<1>. QED
  BY <1>3, <1>4, <1>6, <1>7, <1>8

\* A step of one end that begins no session.
LEMMA EndStep ==
  ASSUME PunchInv, NEW e \in Ends, NEW ss, NEW sk,
         session' = [session EXCEPT ![e] = ss], socks' = [socks EXCEPT ![e] = sk],
         Sound(e, ss, kept[e], sk), Quieter(chan, chan'),
         \A t \in ss : \E s \in session[e] : s.nonce = t.nonce,
         UNCHANGED <<seen, forward, assisting, kept, begun, joined>>, failed' \subseteq Ends
  PROVE  PunchInv'
<1>1. /\ FunctionsInv' /\ ForwardsInv' /\ AssistsInv'
      /\ \A x \in Ends : Sound(x, session[x], kept[x], socks[x])'
      /\ session'[e] = ss /\ \A x \in Ends : x # e => session'[x] = session[x]
  <2>1. \E F : chan' \in [Hops -> Seq(F)]
    BY DEF Quieter
  <2>2. begun' \subseteq Ends
    BY DEF PunchInv, FunctionsInv
  <2>. QED
    BY <2>1, <2>2, EndShape
<1>2. \A x \in Ends : \A t \in session'[x] : \E s \in session[x] : s.nonce = t.nonce
  BY <1>1
<1>3. RequestsInv'
  BY <1>2, RequestsSame DEF PunchInv
<1>. QED
  BY <1>1, <1>3 DEF PunchInv

\* The same when the sockets stay.
LEMMA EndTalks ==
  ASSUME PunchInv, NEW e \in Ends, NEW ss,
         session' = [session EXCEPT ![e] = ss], UNCHANGED socks,
         Sound(e, ss, kept[e], socks[e]), Quieter(chan, chan'),
         \A t \in ss : \E s \in session[e] : s.nonce = t.nonce,
         UNCHANGED <<seen, forward, assisting, kept, begun, joined>>, failed' \subseteq Ends
  PROVE  PunchInv'
<1>1. PICK V : socks \in [Nodes -> V]
  BY DEF PunchInv, FunctionsInv
<1>2. socks' = [socks EXCEPT ![e] = socks[e]]
  BY <1>1
<1>. QED
  BY <1>2, EndStep

\* A step of the via, or of the network.
LEMMA ViaStep ==
  ASSUME PunchInv, UNCHANGED <<seen, session, kept, begun, failed, joined>>,
         \E V : socks' \in [Nodes -> V], \A e \in Ends : socks'[e] = socks[e],
         ForwardsInv', AssistsInv', Quieter(chan, chan')
  PROVE  PunchInv'
<1>1. FunctionsInv'
  <2>1. PICK V : session \in [Ends -> V] /\ kept \in [Ends -> V]
    BY DEF PunchInv, FunctionsInv
  <2>2. PICK W : socks' \in [Nodes -> W]
    OBVIOUS
  <2>3. session' \in [Ends -> V \cup W] /\ kept' \in [Ends -> V \cup W] /\ socks' \in [Nodes -> V \cup W]
    BY <2>1, <2>2
  <2>. QED
    BY <2>3 DEF PunchInv, FunctionsInv, Quieter
<1>2. RequestsInv'
  BY RequestsSame DEF PunchInv
<1>3. \A e \in Ends : Sound(e, session[e], kept[e], socks[e])'
  BY DEF PunchInv
<1>. QED
  BY <1>1, <1>2, <1>3 DEF PunchInv

\* What the closing calls leave of the sessions ss and the channels frames.
Engaged(e, ss, frames) ==
  \E tt, sk :
    /\ session' = [session EXCEPT ![e] = tt] /\ socks' = [socks EXCEPT ![e] = sk]
    /\ Sound(e, tt, kept[e], sk) /\ Quieter(chan, chan')
    /\ \A t \in tt : \E r \in ss : r.nonce = t.nonce
    /\ \A h \in Hops : h # <<e, Via>> => chan'[h] = frames[h]

\* The closing calls of a handler: a volley, and perhaps birthday sockets.
LEMMA EngageSound ==
  ASSUME PunchInv, NEW e \in Ends, NEW ss, Sound(e, ss, kept[e], socks[e]), NEW s \in ss,
         NEW frames, Quieter(chan, frames), Engage(e, ss, s, frames)
  PROVE  Engaged(e, ss, frames)
<1>. DEFINE dues == {"now"}
            rr == AdvancedAll(ss, dues)
<1>1. Sound(e, rr, kept[e], socks[e]) /\ \A t \in rr : \E r \in ss : t.nonce = r.nonce
  BY AdvanceSound
<1>2. CASE ~MayStartBirthday(e, s)
  <2>1. session' = [session EXCEPT ![e] = rr] /\ chan' = frames /\ UNCHANGED socks
    BY <1>2 DEF Engage, Advance
  <2>2. PICK V : socks \in [Nodes -> V]
    BY DEF PunchInv, FunctionsInv
  <2>3. socks' = [socks EXCEPT ![e] = socks[e]]
    BY <2>1, <2>2
  <2>. DEFINE sk == socks[e]
  <2>4. /\ socks' = [socks EXCEPT ![e] = sk] /\ Sound(e, rr, kept[e], sk)
        /\ Quieter(chan, chan') /\ \A h \in Hops : h # <<e, Via>> => chan'[h] = frames[h]
    BY <1>1, <2>1, <2>3
  <2>5. \A t \in rr : \E r \in ss : r.nonce = t.nonce
    BY <1>1
  <2>. HIDE DEF rr, sk
  <2>. QED
    BY <2>1, <2>4, <2>5, Zenon DEF Engaged
<1>3. CASE MayStartBirthday(e, s)
  <2>. DEFINE ports == BirthdaySockets(e, s.nonce)
              a == Advanced(s, dues)
              t == [a EXCEPT !.birthdayStarted = TRUE, !.sockets = ports]
              tt == AdvancedAll(ss \ {s}, dues) \cup {t}
              w == [type |-> "PunchBirthday", nonce |-> s.nonce, origin |-> e, target |-> s.peer]
  <2>1. /\ session' = [session EXCEPT ![e] = tt]
        /\ socks' = [socks EXCEPT ![e] = @ \cup ports]
        /\ chan' = [frames EXCEPT ![<<e, Via>>] = Append(@, w)]
    BY <1>3 DEF Engage, AdvanceWithBirthday
  <2>2. w.type # "ConnectRequest"
    OBVIOUS
  <2>. HIDE DEF w, ports
  <2>3. Quieter(chan, chan')
    BY <2>1, <2>2, QuieterAppend
  <2>4. PICK F : frames \in [Hops -> Seq(F)]
    BY DEF Quieter
  <2>5. \A h \in Hops : h # <<e, Via>> => chan'[h] = frames[h]
    BY <2>1, <2>4
  <2>6. SessionInv(e, s)
    BY DEF Sound
  <2>7. SessionInv(e, a) /\ a.nonce = s.nonce /\ a.sockets = s.sockets /\ a \in rr
    BY <2>6, AdvancedFacts DEF AdvancedAll
  <2>. HIDE DEF a
  <2>8. SessionInv(e, t) /\ t.nonce = a.nonce /\ t.sockets = ports
    <3>1. PICK V : a \in [SessionFields -> V]
      BY <2>7 DEF SessionInv, IsSession
    <3>2. t \in [SessionFields -> V \cup {TRUE, ports}]
      BY <3>1
    <3>3. /\ IsSession(t) /\ t.nonce = a.nonce /\ t.sockets = ports /\ t.rounds = a.rounds
          /\ t.candidates = a.candidates /\ t.due = a.due
      BY <3>1, <3>2 DEF IsSession, SessionFields
    <3>. HIDE DEF t
    <3>. QED
      BY <2>7, <3>3 DEF SessionInv, ports
  <2>. HIDE DEF t
  <2>9. a.sockets \subseteq t.sockets
    BY <2>7, <2>8 DEF SessionInv, ports
  <2>10. tt = (rr \ {a}) \cup {t}
    <3>1. \A r \in ss \ {s} : Advanced(r, dues) # a
      <4>1. TAKE r \in ss \ {s}
      <4>2. Advanced(r, dues).nonce = r.nonce /\ r.nonce # s.nonce
        BY AdvancedFacts DEF Sound
      <4>. QED
        BY <2>7, <4>2
    <3>2. AdvancedAll(ss \ {s}, dues) = rr \ {a}
      BY <3>1 DEF AdvancedAll, a
    <3>. QED
      BY <3>2
  <2>11. Sound(e, tt, kept[e], socks[e] \cup ports)
    <3>1. Sound(e, (rr \ {a}) \cup {t}, kept[e], socks[e] \cup t.sockets)
      <4>. HIDE DEF rr
      <4>. QED
        BY <1>1, <2>7, <2>8, <2>9, SwapSound
    <3>. QED
      BY <2>8, <2>10, <3>1
  <2>12. \A x \in tt : \E r \in ss : r.nonce = x.nonce
    BY <1>1, <2>7, <2>8, <2>10
  <2>13. socks' = [socks EXCEPT ![e] = socks[e] \cup ports]
    BY <2>1
  <2>. HIDE DEF tt
  <2>. QED
    BY <2>1, <2>3, <2>5, <2>11, <2>12, <2>13 DEF Engaged
<1>. QED
  BY <1>2, <1>3

-----------------------------------------------------------------------------
(* The steps of an end.                                                    *)

\* A session is edited, but for its nonce and its sockets.
LEMMA EditSound ==
  ASSUME PunchInv, NEW e \in Ends, NEW s \in session[e], NEW t,
         IsSession(t), t.nonce = s.nonce, t.sockets = s.sockets,
         t.rounds \in 0 .. MaxPunchProbeRounds, t.due \in {"now", "later", "never"},
         Listed(t.candidates), Len(t.candidates) <= MaxPunchCandidates
  PROVE  /\ Sound(e, With(e, s, t), kept[e], socks[e])
         /\ \A r \in With(e, s, t) : \E q \in session[e] : q.nonce = r.nonce
<1>1. Sound(e, session[e], kept[e], socks[e])
  BY DEF PunchInv
<1>2. SessionInv(e, t)
  BY <1>1 DEF Sound, SessionInv
<1>3. Sound(e, (session[e] \ {s}) \cup {t}, kept[e], socks[e] \cup t.sockets)
  BY <1>1, <1>2, SwapSound
<1>4. socks[e] \cup t.sockets = socks[e]
  BY <1>1 DEF Sound
<1>. QED
  BY <1>3, <1>4 DEF With

\* What a session holds, for whoever edits it.
LEMMA SessionFacts ==
  ASSUME PunchInv, NEW e \in Ends, NEW s \in session[e]
  PROVE  /\ SessionInv(e, s) /\ IsSession(s)
         /\ s.rounds \in 0 .. MaxPunchProbeRounds /\ 0 \in 0 .. MaxPunchProbeRounds
         /\ Listed(s.candidates) /\ Len(s.candidates) <= MaxPunchCandidates
         /\ s.due \in {"now", "later", "never"}
BY PunchAssumption DEF PunchInv, Sound, SessionInv

\* A frame of the via is taken.
LEMMA QuieterReceived ==
  ASSUME PunchInv, NEW e \in Ends
  PROVE  /\ chan[<<Via, e>>] # <<>> => Quieter(chan, Received(Via, e))
         /\ chan[<<e, Via>>] # <<>> => Quieter(chan, Received(e, Via))
<1>1. <<Via, e>> \in Hops /\ <<e, Via>> \in Hops /\ FunctionsInv
  BY EndsFacts DEF PunchInv
<1>. QED
  BY <1>1, QuieterTail DEF Received

\* A step that ends in a volley.
LEMMA AdvanceStep ==
  ASSUME PunchInv, NEW e \in Ends, NEW ss, Sound(e, ss, kept[e], socks[e]),
         \A r \in ss : \E q \in session[e] : q.nonce = r.nonce,
         NEW dues, Advance(e, ss, dues), Quieter(chan, chan'),
         UNCHANGED <<seen, forward, assisting, socks, kept, failed, begun, joined>>
  PROVE  PunchInv'
<1>. DEFINE rr == AdvancedAll(ss, dues)
<1>1. Sound(e, rr, kept[e], socks[e]) /\ \A t \in rr : \E s \in ss : t.nonce = s.nonce
  BY AdvanceSound
<1>2. session' = [session EXCEPT ![e] = rr]
  BY DEF Advance
<1>3. failed' \subseteq Ends
  BY DEF PunchInv, FunctionsInv
<1>. HIDE DEF rr
<1>4. \A t \in rr : \E q \in session[e] : q.nonce = t.nonce
  BY <1>1
<1>. QED
  BY <1>1, <1>2, <1>3, <1>4, EndTalks

\* A frame that no session waits for, or that the network loses.
LEMMA IdleStep ==
  ASSUME PunchInv, Quieter(chan, chan'),
         UNCHANGED <<seen, session, forward, assisting, socks, kept, failed, begun, joined>>
  PROVE  PunchInv'
<1>1. \E V : socks' \in [Nodes -> V]
  BY DEF PunchInv, FunctionsInv
<1>2. ForwardsInv' /\ AssistsInv' /\ \A e \in Ends : socks'[e] = socks[e]
  BY DEF PunchInv, ForwardsInv, AssistsInv
<1>. QED
  BY <1>1, <1>2, ViaStep

\* A helper's socket becomes a candidate.
LEMMA AssistSafe ==
  ASSUME PunchInv, NEW e \in Ends, HandlePunchAssist(e)
  PROVE  PunchInv'
<1>. DEFINE frame == Head(chan[<<Via, e>>])
            helper == WithPort(ViaAddr, frame.port)
<1>1. Quieter(chan, chan')
  BY QuieterReceived DEF HandlePunchAssist
<1>2. UNCHANGED <<seen, forward, assisting, socks, kept, failed, begun, joined>>
  BY DEF HandlePunchAssist
<1>3. CASE UNCHANGED session
  BY <1>1, <1>2, <1>3, IdleStep
<1>4. CASE Of(e, frame.nonce) # {}
  <2>1. PICK s, c :
               /\ s \in Of(e, frame.nonce)
               /\ Advance(e, With(e, s, [s EXCEPT !.candidates = c, !.rounds = 0, !.due = "now"]), {"now"})
               /\ LET added == Add(s.candidates, helper)
                  IN c = added \/ (helper \in ToSet(added) /\ c = <<helper>> \o RemoveFirst(added, helper))
    <3>. DEFINE Ahead(s) == LET added == Add(s.candidates, helper)
                     IN IF IsSequential(Profile(e)) /\ ~IsSequential(Remote(s)) /\ helper \in ToSet(added)
                        THEN <<helper>> \o RemoveFirst(added, helper)
                        ELSE added
    <3>1. PICK s \in Of(e, frame.nonce) :
            Advance(e, With(e, s, [s EXCEPT !.candidates = Ahead(s), !.rounds = 0, !.due = "now"]), {"now"})
      BY <1>4 DEF HandlePunchAssist
    <3>2. LET added == Add(s.candidates, helper)
          IN Ahead(s) = added
             \/ (helper \in ToSet(added) /\ Ahead(s) = <<helper>> \o RemoveFirst(added, helper))
      OBVIOUS
    <3>. HIDE DEF Ahead
    <3>. QED
      BY <3>1, <3>2
  <2>2. s \in session[e]
    BY <2>1 DEF Of
  <2>3. SessionInv(e, s) /\ IsSession(s) /\ 0 \in 0 .. MaxPunchProbeRounds
        /\ Listed(s.candidates) /\ Len(s.candidates) <= MaxPunchCandidates
    BY <2>2, SessionFacts
  <2>4. Listed(c) /\ Len(c) <= MaxPunchCandidates
    <3>. DEFINE added == Add(s.candidates, helper)
    <3>1. Listed(added) /\ Len(added) <= MaxPunchCandidates
      BY <2>3, AddKeeps
    <3>2. c = added \/ (helper \in ToSet(added) /\ c = <<helper>> \o RemoveFirst(added, helper))
      BY <2>1
    <3>. HIDE DEF added, helper
    <3>. QED
      BY <3>1, <3>2, FrontKeeps
  <2>. DEFINE t == [s EXCEPT !.candidates = c, !.rounds = 0, !.due = "now"]
  <2>5. IsSession(t) /\ t.nonce = s.nonce /\ t.sockets = s.sockets
        /\ t.rounds = 0 /\ t.due = "now" /\ t.candidates = c
    <3>1. PICK V : s \in [SessionFields -> V]
      BY <2>3 DEF IsSession
    <3>2. t \in [SessionFields -> V \cup {c, 0, "now"}]
      BY <3>1
    <3>. QED
      BY <3>1, <3>2 DEF IsSession, SessionFields
  <2>6. Advance(e, With(e, s, t), {"now"})
    BY <2>1
  <2>. HIDE DEF t
  <2>7. Sound(e, With(e, s, t), kept[e], socks[e])
        /\ \A r \in With(e, s, t) : \E q \in session[e] : q.nonce = r.nonce
    BY <2>2, <2>3, <2>4, <2>5, EditSound
  <2>. QED
    BY <1>1, <1>2, <2>6, <2>7, AdvanceStep
<1>5. UNCHANGED session \/ Of(e, frame.nonce) # {}
  BY DEF HandlePunchAssist
<1>. QED
  BY <1>3, <1>4, <1>5

\* One more volley for the first result.
LEMMA FollowUpFacts ==
  ASSUME NEW s, IsSession(s), s.rounds \in 0 .. MaxPunchProbeRounds, MaxPunchProbeRounds \in Nat
  PROVE  LET t == FollowUp(s)
         IN /\ IsSession(t) /\ t.nonce = s.nonce /\ t.sockets = s.sockets
            /\ t.rounds \in 0 .. MaxPunchProbeRounds /\ t.due = "now"
            /\ t.candidates = s.candidates
<1>. DEFINE n == IF s.followup THEN s.rounds ELSE 0
            t == [s EXCEPT !.rounds = n, !.followup = TRUE, !.due = "now"]
<1>1. FollowUp(s) = t /\ n \in 0 .. MaxPunchProbeRounds
  BY DEF FollowUp
<1>. HIDE DEF n
<1>2. PICK V : s \in [SessionFields -> V]
  BY DEF IsSession
<1>3. t \in [SessionFields -> V \cup {n, TRUE, "now"}]
  BY <1>2
<1>4. IsSession(t) /\ t.nonce = s.nonce /\ t.sockets = s.sockets
      /\ t.rounds = n /\ t.due = "now" /\ t.candidates = s.candidates
  BY <1>2, <1>3 DEF IsSession, SessionFields
<1>. HIDE DEF t
<1>. QED
  BY <1>1, <1>4

\* What a helper saw becomes a candidate.
LEMMA SeenSafe ==
  ASSUME PunchInv, NEW e \in Ends, HandlePunchObservation(e)
  PROVE  PunchInv'
<1>. DEFINE frame == Head(chan[<<Via, e>>])
<1>1. Quieter(chan, chan')
  BY QuieterReceived DEF HandlePunchObservation
<1>2. UNCHANGED <<seen, forward, assisting, socks, kept, failed, begun, joined>>
  BY DEF HandlePunchObservation
<1>3. CASE UNCHANGED session
  BY <1>1, <1>2, <1>3, IdleStep
<1>4. CASE Of(e, frame.nonce) # {}
  <2>1. PICK s \in Of(e, frame.nonce) :
          Advance(e, With(e, s, FollowUp([s EXCEPT !.candidates = Add(s.candidates, frame.observed)])), {"now"})
    BY <1>4 DEF HandlePunchObservation
  <2>2. s \in session[e]
    BY <2>1 DEF Of
  <2>3. IsSession(s) /\ s.rounds \in 0 .. MaxPunchProbeRounds
        /\ Listed(s.candidates) /\ Len(s.candidates) <= MaxPunchCandidates
    BY <2>2, SessionFacts
  <2>. DEFINE c == Add(s.candidates, frame.observed)
              r == [s EXCEPT !.candidates = c]
              t == FollowUp(r)
  <2>4. Listed(c) /\ Len(c) <= MaxPunchCandidates
    BY <2>3, AddKeeps
  <2>5. Advance(e, With(e, s, t), {"now"})
    BY <2>1
  <2>. HIDE DEF c
  <2>6. IsSession(r) /\ r.nonce = s.nonce /\ r.sockets = s.sockets
        /\ r.rounds = s.rounds /\ r.candidates = c
    <3>1. PICK V : s \in [SessionFields -> V]
      BY <2>3 DEF IsSession
    <3>2. r \in [SessionFields -> V \cup {c}]
      BY <3>1
    <3>. QED
      BY <3>1, <3>2 DEF IsSession, SessionFields
  <2>. HIDE DEF r
  <2>7. IsSession(t) /\ t.nonce = r.nonce /\ t.sockets = r.sockets
        /\ t.rounds \in 0 .. MaxPunchProbeRounds /\ t.due = "now" /\ t.candidates = r.candidates
    BY <2>3, <2>6, FollowUpFacts, PunchAssumption
  <2>. HIDE DEF t
  <2>8. Sound(e, With(e, s, t), kept[e], socks[e])
        /\ \A q \in With(e, s, t) : \E p \in session[e] : p.nonce = q.nonce
    BY <2>2, <2>4, <2>6, <2>7, EditSound
  <2>. QED
    BY <1>1, <1>2, <2>5, <2>8, AdvanceStep
<1>5. UNCHANGED session \/ Of(e, frame.nonce) # {}
  BY DEF HandlePunchObservation
<1>. QED
  BY <1>3, <1>4, <1>5

\* A bracket becomes a prediction or a list of openers.
LEMMA BracketSafe ==
  ASSUME PunchInv, NEW e \in Ends, HandlePunchBracket(e)
  PROVE  PunchInv'
<1>. DEFINE frame == Head(chan[<<Via, e>>])
<1>1. Quieter(chan, chan')
  BY QuieterReceived DEF HandlePunchBracket
<1>2. UNCHANGED <<seen, forward, assisting, socks, kept, failed, begun, joined>>
  BY DEF HandlePunchBracket
<1>3. CASE UNCHANGED session
  BY <1>1, <1>2, <1>3, IdleStep
<1>4. CASE Of(e, frame.nonce) # {}
  <2>1. PICK s, r :
          /\ s \in Of(e, frame.nonce)
          /\ Advance(e, With(e, s, FollowUp(r)), {"now"})
          /\ \E p, b : r = [s EXCEPT !.prediction = p, !.bracket = b] \/ r = [s EXCEPT !.bracket = b]
    <3>. DEFINE At(port) == WithPort(frame.ip, port)
                ports == [i \in 1 .. frame.end - frame.start + 1 |-> At(frame.start + i - 1)]
                Aimed(s) == IF IsSequential(Remote(s))
                     THEN [s EXCEPT !.prediction = At(frame.end + Remote(s).allocator.stride), !.bracket = <<>>]
                     ELSE [s EXCEPT !.bracket = @ \o SelectSeq(ports, LAMBDA a : a \notin ToSet(s.bracket))]
    <3>1. PICK s \in Of(e, frame.nonce) : Advance(e, With(e, s, FollowUp(Aimed(s))), {"now"})
      BY <1>4 DEF HandlePunchBracket
    <3>2. \E p, b : Aimed(s) = [s EXCEPT !.prediction = p, !.bracket = b] \/ Aimed(s) = [s EXCEPT !.bracket = b]
      <4>. DEFINE b == s.bracket \o SelectSeq(ports, LAMBDA a : a \notin ToSet(s.bracket))
      <4>1. IF IsSequential(Remote(s))
            THEN Aimed(s) = [s EXCEPT !.prediction = At(frame.end + Remote(s).allocator.stride), !.bracket = <<>>]
            ELSE Aimed(s) = [s EXCEPT !.bracket = b]
        OBVIOUS
      <4>. HIDE DEF b, Aimed
      <4>. QED
        BY <4>1
    <3>. HIDE DEF Aimed
    <3>. QED
      BY <3>1, <3>2
  <2>2. s \in session[e]
    BY <2>1 DEF Of
  <2>3. IsSession(s) /\ s.rounds \in 0 .. MaxPunchProbeRounds
        /\ Listed(s.candidates) /\ Len(s.candidates) <= MaxPunchCandidates
    BY <2>2, SessionFacts
  <2>. DEFINE t == FollowUp(r)
  <2>4. IsSession(r) /\ r.nonce = s.nonce /\ r.sockets = s.sockets
        /\ r.rounds = s.rounds /\ r.candidates = s.candidates
    <3>1. PICK V : s \in [SessionFields -> V]
      BY <2>3 DEF IsSession
    <3>2. PICK p, b : r = [s EXCEPT !.prediction = p, !.bracket = b] \/ r = [s EXCEPT !.bracket = b]
      BY <2>1
    <3>3. r \in [SessionFields -> V \cup {p, b}]
      BY <3>1, <3>2
    <3>. QED
      BY <3>1, <3>2, <3>3 DEF IsSession, SessionFields
  <2>5. IsSession(t) /\ t.nonce = r.nonce /\ t.sockets = r.sockets
        /\ t.rounds \in 0 .. MaxPunchProbeRounds /\ t.due = "now" /\ t.candidates = r.candidates
    BY <2>3, <2>4, FollowUpFacts, PunchAssumption
  <2>6. Advance(e, With(e, s, t), {"now"})
    BY <2>1
  <2>. HIDE DEF t
  <2>7. Sound(e, With(e, s, t), kept[e], socks[e])
        /\ \A q \in With(e, s, t) : \E p \in session[e] : p.nonce = q.nonce
    BY <2>2, <2>3, <2>4, <2>5, EditSound
  <2>. QED
    BY <1>1, <1>2, <2>6, <2>7, AdvanceStep
<1>5. UNCHANGED session \/ Of(e, frame.nonce) # {}
  BY DEF HandlePunchBracket
<1>. QED
  BY <1>3, <1>4, <1>5

\* The other side's birthday sockets are announced: a spray.
LEMMA BirthdaySafe ==
  ASSUME PunchInv, NEW e \in Ends, HandlePunchBirthday(e)
  PROVE  PunchInv'
<1>1. Quieter(chan, chan')
  BY QuieterReceived DEF HandlePunchBirthday
<1>2. UNCHANGED <<seen, forward, assisting, socks, kept, failed, begun, joined>>
  BY DEF HandlePunchBirthday
<1>3. CASE UNCHANGED session
  BY <1>1, <1>2, <1>3, IdleStep
<1>4. CASE ~UNCHANGED session
  <2>1. PICK s \in session[e] :
          session' = [session EXCEPT ![e] = With(e, s, [s EXCEPT !.sprayed = TRUE])]
    BY <1>4 DEF HandlePunchBirthday, Of
  <2>. DEFINE t == [s EXCEPT !.sprayed = TRUE]
              ss == With(e, s, t)
  <2>2. IsSession(s) /\ s.rounds \in 0 .. MaxPunchProbeRounds /\ s.due \in {"now", "later", "never"}
        /\ Listed(s.candidates) /\ Len(s.candidates) <= MaxPunchCandidates
    BY SessionFacts
  <2>3. IsSession(t) /\ t.nonce = s.nonce /\ t.sockets = s.sockets
        /\ t.rounds = s.rounds /\ t.due = s.due /\ t.candidates = s.candidates
    <3>1. PICK V : s \in [SessionFields -> V]
      BY <2>2 DEF IsSession
    <3>2. t \in [SessionFields -> V \cup {TRUE}]
      BY <3>1
    <3>. QED
      BY <3>1, <3>2 DEF IsSession, SessionFields
  <2>4. session' = [session EXCEPT ![e] = ss]
    BY <2>1
  <2>. HIDE DEF t
  <2>5. Sound(e, ss, kept[e], socks[e])
        /\ \A q \in ss : \E p \in session[e] : p.nonce = q.nonce
    BY <2>2, <2>3, EditSound
  <2>6. failed' \subseteq Ends
    BY <1>2 DEF PunchInv, FunctionsInv
  <2>. HIDE DEF ss
  <2>. QED
    BY <1>1, <1>2, <2>4, <2>5, <2>6, EndTalks
<1>. QED
  BY <1>3, <1>4

\* A probe gets through: the session is aimed at its source.
LEMMA ProbeSafe ==
  ASSUME PunchInv, NEW probe, HandlePunchProbe(probe)
  PROVE  PunchInv'
<1>. DEFINE e == Host(probe.dst)
<1>1. e \in Ends /\ UNCHANGED <<seen, forward, assisting, chan, socks, kept, failed, begun, joined>>
  BY DEF HandlePunchProbe
<1>2. Quieter(chan, chan')
  BY <1>1, QuieterSame DEF PunchInv
<1>3. CASE UNCHANGED session
  BY <1>1, <1>2, <1>3, IdleStep
<1>4. CASE ~UNCHANGED session
  <2>1. PICK s, f, d, p :
          /\ s \in session[e]
          /\ session' = [session EXCEPT ![e] = With(e, s,
               [s EXCEPT !.freshest = f, !.due = "now", !.dialStarted = d, !.payload = p])]
    <3>1. PICK s \in Of(e, probe.nonce) :
            LET socket == Reaches(e, probe.src, probe.dst)
                birthday == Port(socket) \in s.sockets
                shouldDial == e < s.peer /\ ~s.dialStarted
                carries == shouldDial /\ ~birthday /\ s.payload
            IN session' = [session EXCEPT ![e] = With(e, s,
                 [s EXCEPT !.freshest = probe.src, !.due = "now",
                           !.dialStarted = s.dialStarted \/ shouldDial, !.payload = s.payload /\ ~carries])]
      BY <1>4 DEF HandlePunchProbe
    <3>. QED
      BY <3>1 DEF Of
  <2>. DEFINE t == [s EXCEPT !.freshest = f, !.due = "now", !.dialStarted = d, !.payload = p]
              ss == With(e, s, t)
  <2>2. session' = [session EXCEPT ![e] = ss]
    BY <2>1
  <2>. HIDE DEF e
  <2>3. IsSession(s) /\ s.rounds \in 0 .. MaxPunchProbeRounds
        /\ Listed(s.candidates) /\ Len(s.candidates) <= MaxPunchCandidates
    BY <1>1, <2>1, SessionFacts
  <2>4. IsSession(t) /\ t.nonce = s.nonce /\ t.sockets = s.sockets
        /\ t.rounds = s.rounds /\ t.due = "now" /\ t.candidates = s.candidates
    <3>1. PICK V : s \in [SessionFields -> V]
      BY <2>3 DEF IsSession
    <3>2. t \in [SessionFields -> V \cup {f, "now", d, p}]
      BY <3>1
    <3>. QED
      BY <3>1, <3>2 DEF IsSession, SessionFields
  <2>. HIDE DEF t
  <2>5. Sound(e, ss, kept[e], socks[e])
        /\ \A q \in ss : \E r \in session[e] : r.nonce = q.nonce
    BY <1>1, <2>1, <2>3, <2>4, EditSound
  <2>6. failed' \subseteq Ends
    BY <1>1 DEF PunchInv, FunctionsInv
  <2>. HIDE DEF ss
  <2>. QED
    BY <1>1, <1>2, <2>2, <2>5, <2>6, EndTalks
<1>. QED
  BY <1>3, <1>4

\* The timer.
LEMMA TimerSafe ==
  ASSUME PunchInv, NEW e \in Ends, NEW dues, AdvancePunches(e, dues)
  PROVE  PunchInv'
<1>1. Advance(e, session[e], dues)
      /\ UNCHANGED <<seen, forward, assisting, chan, socks, kept, failed, begun, joined>>
  BY DEF AdvancePunches
<1>2. Quieter(chan, chan')
  BY <1>1, QuieterSame DEF PunchInv
<1>3. Sound(e, session[e], kept[e], socks[e])
  BY DEF PunchInv
<1>. QED
  BY <1>1, <1>2, <1>3, AdvanceStep

\* A session expires, and closes its sockets.
LEMMA ExpireSafe ==
  ASSUME PunchInv, NEW e \in Ends, ExpirePunch(e)
  PROVE  PunchInv'
<1>1. PICK s \in session[e] :
        /\ session' = [session EXCEPT ![e] = @ \ {s}]
        /\ failed' = IF s.awaiting THEN failed ELSE failed \cup {e}
        /\ socks' = [socks EXCEPT ![e] = @ \ s.sockets]
  BY DEF ExpirePunch
<1>2. UNCHANGED <<seen, forward, assisting, chan, kept, begun, joined>>
  BY DEF ExpirePunch
<1>3. Quieter(chan, chan')
  BY <1>2, QuieterSame DEF PunchInv
<1>. DEFINE ss == session[e] \ {s}
            sk == socks[e] \ s.sockets
<1>4. Sound(e, ss, kept[e], sk)
  BY DropSound DEF PunchInv
<1>5. session' = [session EXCEPT ![e] = ss] /\ socks' = [socks EXCEPT ![e] = sk]
  BY <1>1
<1>6. failed' \subseteq Ends
  BY <1>1 DEF PunchInv, FunctionsInv
<1>7. \A t \in ss : \E r \in session[e] : r.nonce = t.nonce
  OBVIOUS
<1>. HIDE DEF ss, sk
<1>. QED
  BY <1>2, <1>3, <1>4, <1>5, <1>6, <1>7, EndStep

\* The network loses something.
LEMMA LoseSafe ==
  ASSUME PunchInv, Lose
  PROVE  PunchInv'
<1>1. UNCHANGED <<seen, session, forward, assisting, socks, kept, failed, begun, joined>>
  BY DEF Lose
<1>2. Quieter(chan, chan')
  <2>1. CASE UNCHANGED chan
    BY <2>1, QuieterSame DEF PunchInv
  <2>2. CASE \E h \in Hops : chan[h] # <<>> /\ chan' = [chan EXCEPT ![h] = Tail(@)]
    BY <2>2, QuieterTail DEF PunchInv
  <2>. QED
    BY <2>1, <2>2 DEF Lose
<1>. QED
  BY <1>1, <1>2, IdleStep

\* A helper reports.
LEMMA HelperProbeSafe ==
  ASSUME PunchInv, NEW probe, HandlePunchHelperProbe(probe)
  PROVE  PunchInv'
<1>1. UNCHANGED <<seen, session, forward, assisting, socks, kept, failed, begun, joined>>
  BY DEF HandlePunchHelperProbe
<1>2. Quieter(chan, chan')
  <2>1. Quieter(chan, chan)
    BY QuieterSame DEF PunchInv
  <2>2. CASE UNCHANGED chan
    BY <2>1, <2>2
  <2>3. CASE ~UNCHANGED chan
    <3>1. PICK h, r : /\ chan' = [chan EXCEPT ![<<Via, h.target>>] = @ \o r]
                      /\ r \in {<<ObservedFrame(h, probe.src)>>, <<>>, <<BracketFrame(h, probe.src)>>}
      <4>. DEFINE Noisy(h) == LET bracket == BracketFrame(h, probe.src)
                  IN \/ bracket.end - bracket.start + 1 > MaxBracketWidth
                     \/ Ip(seen[h.origin][ViaAddr]) # Ip(probe.src)
                  Report(h) == IF h.kind = "SamePortObservation" THEN <<ObservedFrame(h, probe.src)>>
                   ELSE IF Noisy(h) THEN <<>> ELSE <<BracketFrame(h, probe.src)>>
      <4>1. PICK h : chan' = [chan EXCEPT ![<<Via, h.target>>] = @ \o Report(h)]
        BY <2>3 DEF HandlePunchHelperProbe
      <4>. HIDE DEF Noisy
      <4>. QED
        BY <4>1
    <3>2. ObservedFrame(h, probe.src).type = "PunchObservation"
          /\ BracketFrame(h, probe.src).type = "PunchBracket"
      BY DEF ObservedFrame, BracketFrame
    <3>. DEFINE v == ObservedFrame(h, probe.src)
                w == BracketFrame(h, probe.src)
    <3>. HIDE DEF v, w
    <3>3. r \in {<<v>>, <<>>, <<w>>} /\ v.type = "PunchObservation" /\ w.type = "PunchBracket"
      BY <3>1, <3>2 DEF v, w
    <3>4. r \in Seq({v, w}) /\ Asks(r) = {}
      <4>1. CASE r = <<v>>
        BY <3>3, <4>1 DEF Asks
      <4>2. CASE r = <<w>>
        BY <3>3, <4>2 DEF Asks
      <4>3. CASE r = <<>>
        BY <4>3 DEF Asks
      <4>. QED
        BY <3>3, <4>1, <4>2, <4>3
    <3>. QED
      BY <2>1, <3>1, <3>4, QuieterConcat
  <2>. QED
    BY <2>2, <2>3
<1>. QED
  BY <1>1, <1>2, IdleStep

\* The via passes an announcement on.
LEMMA RelayBirthdaySafe ==
  ASSUME PunchInv, NEW e \in Ends, RelayBirthday(e)
  PROVE  PunchInv'
<1>. DEFINE frame == Head(chan[<<e, Via>>])
            c == Received(e, Via)
<1>1. UNCHANGED <<seen, session, forward, assisting, socks, kept, failed, begun, joined>>
  BY DEF RelayBirthday
<1>2. /\ chan[<<e, Via>>] # <<>> /\ frame.type = "PunchBirthday"
      /\ chan' = [c EXCEPT ![<<Via, frame.target>>] = Append(@, frame)]
  BY DEF RelayBirthday
<1>3. Quieter(chan, c)
  BY <1>2, QuieterReceived
<1>. HIDE DEF c, frame
<1>4. frame.type # "ConnectRequest"
  BY <1>2
<1>5. Quieter(chan, chan')
  BY <1>2, <1>3, <1>4, QuieterAppend
<1>. QED
  BY <1>1, <1>5, IdleStep

\* A forward expires.
LEMMA ExpireForwardSafe ==
  ASSUME PunchInv, ExpirePunchForward
  PROVE  PunchInv'
<1>1. PICK f \in forward : forward' = forward \ {f}
  BY DEF ExpirePunchForward
<1>2. UNCHANGED <<seen, session, assisting, chan, socks, kept, failed, begun, joined>>
  BY DEF ExpirePunchForward
<1>3. Quieter(chan, chan')
  BY <1>2, QuieterSame DEF PunchInv
<1>4. IsFiniteSet(forward) /\ Cardinality(forward) <= MaxPunchForwards /\ MaxPunchForwards \in Nat
  BY PunchAssumption DEF PunchInv, ForwardsInv
<1>5. IsFiniteSet(forward \ {f}) /\ Cardinality(forward \ {f}) = Cardinality(forward) - 1
      /\ Cardinality(forward) \in Nat
  BY <1>4, FS_RemoveElement, FS_CardinalityType
<1>6. ForwardsInv'
  <2>1. Cardinality(forward \ {f}) <= MaxPunchForwards
    BY <1>4, <1>5
  <2>. QED
    BY <1>1, <1>5, <2>1 DEF ForwardsInv
<1>7. AssistsInv' /\ (\E V : socks' \in [Nodes -> V]) /\ \A e \in Ends : socks'[e] = socks[e]
  BY <1>2 DEF PunchInv, AssistsInv, FunctionsInv
<1>. QED
  BY <1>2, <1>3, <1>6, <1>7, ViaStep

\* A helper expires, and closes its socket.
LEMMA ExpireHelperSafe ==
  ASSUME PunchInv, ExpirePunchHelper
  PROVE  PunchInv'
<1>1. PICK h \in assisting : assisting' = assisting \ {h} /\ socks' = [socks EXCEPT ![Via] = @ \ {h.port}]
  BY DEF ExpirePunchHelper
<1>2. UNCHANGED <<seen, session, forward, chan, kept, failed, begun, joined>>
  BY DEF ExpirePunchHelper
<1>3. Quieter(chan, chan')
  BY <1>2, QuieterSame DEF PunchInv
<1>4. IsFiniteSet(assisting) /\ Cardinality(assisting) <= MaxPunchHelpers /\ MaxPunchHelpers \in Nat
  BY PunchAssumption DEF PunchInv, AssistsInv
<1>5. IsFiniteSet(assisting \ {h}) /\ Cardinality(assisting \ {h}) = Cardinality(assisting) - 1
      /\ Cardinality(assisting) \in Nat
  BY <1>4, FS_RemoveElement, FS_CardinalityType
<1>6. PICK V : socks \in [Nodes -> V]
  BY DEF PunchInv, FunctionsInv
<1>7. Via \in Nodes /\ \A e \in Ends : e # Via /\ e \in Nodes
  BY PunchAssumption DEF Nodes
<1>8. socks'[Via] = socks[Via] \ {h.port} /\ \A e \in Ends : socks'[e] = socks[e]
  BY <1>1, <1>6, <1>7
<1>9. socks' \in [Nodes -> V \cup {socks[Via] \ {h.port}}]
  BY <1>1, <1>6
<1>10. AssistsInv'
  <2>1. Cardinality(assisting \ {h}) <= MaxPunchHelpers
    BY <1>4, <1>5
  <2>2. (\A g, k \in assisting : g.port = k.port => g = k) /\ socks[Via] = {k.port : k \in assisting}
    BY DEF PunchInv, AssistsInv
  <2>3. socks[Via] \ {h.port} = {k.port : k \in assisting \ {h}}
    BY <2>2
  <2>. QED
    BY <1>1, <1>5, <1>8, <2>1, <2>2, <2>3 DEF AssistsInv
<1>11. ForwardsInv'
  BY <1>2 DEF PunchInv, ForwardsInv
<1>. QED
  BY <1>2, <1>3, <1>8, <1>9, <1>10, <1>11, ViaStep

\* The answer arrives.
LEMMA ResponseSafe ==
  ASSUME PunchInv, NEW e \in Ends, HandleConnectResponse(e)
  PROVE  PunchInv'
<1>. DEFINE frame == Head(chan[<<Via, e>>])
            open == {s \in Of(e, frame.nonce) : s.awaiting}
            cs == LocalPunchCandidates(Peer(e))
            frames == Received(Via, e)
<1>1. Quieter(chan, frames)
  BY QuieterReceived DEF HandleConnectResponse
<1>2. UNCHANGED <<seen, forward, assisting, kept, failed, begun, joined>>
  BY DEF HandleConnectResponse
<1>3. CASE open = {}
  <2>1. chan' = frames /\ UNCHANGED <<session, socks>>
    BY <1>3 DEF HandleConnectResponse
  <2>. QED
    BY <1>1, <1>2, <2>1, IdleStep
<1>4. CASE open # {}
  <2>1. PICK s \in open :
          LET t == [s EXCEPT !.candidates = cs, !.awaiting = FALSE, !.due = "now"]
          IN Engage(e, With(e, s, t), t, frames)
    BY <1>4 DEF HandleConnectResponse
  <2>. DEFINE t == [s EXCEPT !.candidates = cs, !.awaiting = FALSE, !.due = "now"]
              ss == With(e, s, t)
  <2>2. s \in session[e] /\ t \in ss
    BY DEF Of, With
  <2>3. IsSession(s) /\ s.rounds \in 0 .. MaxPunchProbeRounds
    BY <2>2, SessionFacts
  <2>4. Listed(cs) /\ Len(cs) <= MaxPunchCandidates
    BY CandidatesFacts, EndsFacts DEF PunchInv
  <2>5. Engage(e, ss, t, frames)
    BY <2>1
  <2>. HIDE DEF cs, frames, open
  <2>6. IsSession(t) /\ t.nonce = s.nonce /\ t.sockets = s.sockets
        /\ t.rounds = s.rounds /\ t.due = "now" /\ t.candidates = cs
    <3>1. PICK V : s \in [SessionFields -> V]
      BY <2>3 DEF IsSession
    <3>2. t \in [SessionFields -> V \cup {cs, FALSE, "now"}]
      BY <3>1
    <3>. QED
      BY <3>1, <3>2 DEF IsSession, SessionFields
  <2>. HIDE DEF t
  <2>7. Sound(e, ss, kept[e], socks[e]) /\ \A r \in ss : \E q \in session[e] : q.nonce = r.nonce
    BY <2>2, <2>3, <2>4, <2>6, EditSound
  <2>. HIDE DEF ss
  <2>8. PICK tt, sk :
          /\ session' = [session EXCEPT ![e] = tt] /\ socks' = [socks EXCEPT ![e] = sk]
          /\ Sound(e, tt, kept[e], sk) /\ Quieter(chan, chan')
          /\ \A x \in tt : \E r \in ss : r.nonce = x.nonce
          /\ \A h \in Hops : h # <<e, Via>> => chan'[h] = frames[h]
    <3>1. Engaged(e, ss, frames)
      BY <1>1, <2>2, <2>5, <2>7, EngageSound
    <3>. QED
      BY <3>1 DEF Engaged
  <2>9. failed' \subseteq Ends
    BY <1>2 DEF PunchInv, FunctionsInv
  <2>10. \A x \in tt : \E q \in session[e] : q.nonce = x.nonce
    BY <2>7, <2>8
  <2>. QED
    BY <1>2, <2>8, <2>9, <2>10, EndStep
<1>. QED
  BY <1>3, <1>4

\* A request arrives, for the first time.
LEMMA RequestSafe ==
  ASSUME PunchInv, NEW e \in Ends, HandleConnectRequest(e)
  PROVE  PunchInv'
<1>. DEFINE p == Peer(e)
            q == chan[<<Via, e>>]
            frame == Head(q)
            cs == LocalPunchCandidates(p)
            response == [type |-> "ConnectResponse", nonce |-> frame.nonce, origin |-> e, target |-> frame.origin]
            frames == [Received(Via, e) EXCEPT ![<<e, Via>>] = Append(@, response)]
<1>1. /\ q # <<>> /\ frame.type = "ConnectRequest"
      /\ UNCHANGED <<seen, forward, assisting, kept, failed, begun, joined>>
  BY DEF HandleConnectRequest
<1>2. /\ p \in Ends /\ p # e /\ Peer(p) = e /\ \A x \in Ends : x = e \/ x = p
      /\ <<Via, e>> \in Hops /\ <<e, Via>> \in Hops /\ <<p, Via>> \in Hops
      /\ <<e, Via>> # <<Via, e>> /\ <<p, Via>> # <<e, Via>>
  BY EndsFacts
<1>3. PICK F : chan \in [Hops -> Seq(F)]
  BY DEF PunchInv, FunctionsInv
<1>4. q \in Seq(F)
  BY <1>2, <1>3
<1>5. /\ \A i, j \in Asks(q) : i = j /\ q[i].nonce = p
      /\ Asks(chan[<<p, Via>>]) = {} \/ Asks(q) = {}
  BY <1>2 DEF PunchInv, RequestsInv, Once
<1>6. Asks(Tail(q)) = {} /\ 1 \in Asks(q) /\ frame = q[1]
  <2>. HIDE DEF q
  <2>. QED
    BY <1>1, <1>4, <1>5, AsksTail
<1>7. frame.nonce = p /\ Asks(chan[<<p, Via>>]) = {} /\ UnderWay(p)
  BY <1>2, <1>5, <1>6 DEF UnderWay
<1>8. Unheard(e, p) /\ p \in begun
  BY <1>2, <1>7 DEF PunchInv, RequestsInv
<1>9. Quieter(chan, frames)
  <2>1. Quieter(chan, Received(Via, e))
    BY <1>1, QuieterReceived
  <2>2. response.type # "ConnectRequest"
    OBVIOUS
  <2>. HIDE DEF response
  <2>. QED
    BY <2>1, <2>2, QuieterAppend
<1>10. frames[<<Via, e>>] = Tail(q)
  <2>1. Received(Via, e) = [chan EXCEPT ![<<Via, e>>] = Tail(chan[<<Via, e>>])]
    BY DEF Received
  <2>2. Received(Via, e)[<<Via, e>>] = Tail(q) /\ DOMAIN Received(Via, e) = Hops
    BY <1>2, <1>3, <2>1
  <2>. HIDE DEF response, q
  <2>. QED
    BY <1>2, <2>2
<1>. DEFINE nu == NewSession(e, p, FALSE)
            t == [nu EXCEPT !.candidates = cs, !.due = "now"]
            ss == session[e] \cup {t}
<1>11. Engage(e, ss, t, frames)
  <2>. DEFINE own == IF Of(e, frame.nonce) = {} THEN {[NewSession(e, frame.nonce, FALSE) EXCEPT
                     !.candidates = LocalPunchCandidates(Peer(e)), !.due = "now"]} ELSE Of(e, frame.nonce)
  <2>1. \E s \in own : Engage(e, session[e] \cup own, s, frames)
    BY DEF HandleConnectRequest
  <2>2. Of(e, frame.nonce) = {}
    BY <1>7, <1>8 DEF Unheard, Of
  <2>3. own = {t}
    BY <1>7, <2>2
  <2>. HIDE DEF own, t, frames
  <2>. QED
    BY <2>1, <2>3
<1>. HIDE DEF frames
<1>12. SessionInv(e, t) /\ t.nonce = p /\ t.sockets = {}
  <2>1. SessionInv(e, nu) /\ nu.nonce = p /\ nu.sockets = {}
    BY <1>2, NewFacts
  <2>2. Listed(cs) /\ Len(cs) <= MaxPunchCandidates
    BY <1>2, CandidatesFacts DEF PunchInv
  <2>. HIDE DEF nu, cs
  <2>3. PICK V : nu \in [SessionFields -> V]
    BY <2>1 DEF SessionInv, IsSession
  <2>4. t \in [SessionFields -> V \cup {cs, "now"}]
    BY <2>3
  <2>5. IsSession(t) /\ t.nonce = nu.nonce /\ t.sockets = nu.sockets
        /\ t.rounds = nu.rounds /\ t.due = "now" /\ t.candidates = cs
    BY <2>3, <2>4 DEF IsSession, SessionFields
  <2>. HIDE DEF t
  <2>. QED
    BY <2>1, <2>2, <2>5 DEF SessionInv
<1>. HIDE DEF t
<1>13. Sound(e, ss, kept[e], socks[e])
  <2>1. Sound(e, session[e], kept[e], socks[e])
    BY DEF PunchInv
  <2>. QED
    BY <1>8, <1>12, <2>1, NewSound DEF Unheard
<1>14. PICK tt, sk :
          /\ session' = [session EXCEPT ![e] = tt] /\ socks' = [socks EXCEPT ![e] = sk]
          /\ Sound(e, tt, kept[e], sk) /\ Quieter(chan, chan')
          /\ \A x \in tt : \E r \in ss : r.nonce = x.nonce
          /\ \A h \in Hops : h # <<e, Via>> => chan'[h] = frames[h]
  <2>1. t \in ss
    OBVIOUS
  <2>. HIDE DEF ss
  <2>2. Engaged(e, ss, frames)
    BY <1>9, <1>11, <1>13, <2>1, EngageSound
  <2>. QED
    BY <2>2 DEF Engaged
<1>15. /\ FunctionsInv' /\ ForwardsInv' /\ AssistsInv'
       /\ \A x \in Ends : Sound(x, session[x], kept[x], socks[x])'
       /\ session'[e] = tt /\ \A x \in Ends : x # e => session'[x] = session[x]
  <2>1. begun' \subseteq Ends /\ failed' \subseteq Ends
    BY <1>1 DEF PunchInv, FunctionsInv
  <2>2. \E G : chan' \in [Hops -> Seq(G)]
    BY <1>14 DEF Quieter
  <2>. QED
    BY <1>1, <1>14, <2>1, <2>2, EndShape
<1>16. ~UnderWay(p)' /\ (UnderWay(e)' => UnderWay(e))
  <2>1. \A h \in Hops : Asks(chan[h]) = {} => Asks(chan'[h]) = {}
    BY <1>14 DEF Quieter, NoNew
  <2>2. Asks(chan'[<<Via, e>>]) = {}
    BY <1>2, <1>6, <1>10, <1>14
  <2>3. <<Via, p>> \in Hops
    BY <1>2, EndsFacts
  <2>. QED
    BY <1>2, <1>7, <2>1, <2>2, <2>3 DEF UnderWay
<1>17. /\ Unheard(p, e) => Unheard(p, e)'
       /\ Unheard(e, e) => Unheard(e, e)'
  <2>1. Unheard(p, e) => Unheard(p, e)'
    BY <1>1, <1>2, <1>15 DEF Unheard
  <2>2. \A x \in tt : x.nonce = p \/ \E r \in session[e] : r.nonce = x.nonce
    BY <1>12, <1>14
  <2>3. Unheard(e, e) => Unheard(e, e)'
    BY <1>1, <1>2, <1>15, <2>2 DEF Unheard
  <2>. QED
    BY <2>1, <2>3
<1>18. RequestsInv'
  <2>1. \A x \in Ends : UnderWay(x)' \/ x \notin begun => Unheard(Peer(x), x)'
    BY <1>2, <1>8, <1>16, <1>17 DEF PunchInv, RequestsInv
  <2>2. \A x \in Ends : x \notin begun => Unheard(x, x)'
    BY <1>2, <1>8, <1>17 DEF PunchInv, RequestsInv
  <2>. QED
    BY <1>1, <1>14, <2>1, <2>2, RequestsKept DEF PunchInv
<1>. QED
  BY <1>15, <1>18 DEF PunchInv

\* The via passes a request on, if it has room.
LEMMA ForwardSafe ==
  ASSUME PunchInv, NEW e \in Ends, ForwardRequest(e)
  PROVE  PunchInv'
<1>. DEFINE p == Peer(e)
            q == chan[<<e, Via>>]
            frame == Head(q)
            known == \E f \in forward : f.origin = frame.origin /\ f.nonce = frame.nonce
            full == Cardinality(forward) >= MaxPunchForwards \/ known
            new == [origin |-> e, nonce |-> frame.nonce, target |-> frame.target]
<1>1. /\ q # <<>> /\ frame.type = "ConnectRequest"
      /\ UNCHANGED <<seen, session, assisting, socks, kept, failed, begun, joined>>
  BY DEF ForwardRequest
<1>2. CASE full
  <2>1. chan' = Received(e, Via) /\ UNCHANGED forward
    BY <1>2 DEF ForwardRequest
  <2>2. Quieter(chan, chan')
    BY <1>1, <2>1, QuieterReceived
  <2>. QED
    BY <1>1, <2>1, <2>2, IdleStep
<1>3. CASE ~full
  <2>1. /\ chan' = [Received(e, Via) EXCEPT ![<<Via, p>>] = Append(@, frame)]
        /\ forward' = forward \cup {new}
    BY <1>3 DEF ForwardRequest
  <2>2. ~(Cardinality(forward) >= MaxPunchForwards)
    BY <1>3
  <2>. HIDE DEF full, known, new
  <2>3. /\ p \in Ends /\ p # e /\ Peer(p) = e /\ \A x \in Ends : x = e \/ x = p
        /\ <<Via, e>> \in Hops /\ <<e, Via>> \in Hops /\ <<p, Via>> \in Hops /\ <<Via, p>> \in Hops
        /\ <<e, Via>> # <<Via, p>> /\ <<p, Via>> # <<e, Via>> /\ <<p, Via>> # <<Via, p>>
        /\ <<Via, e>> # <<e, Via>> /\ <<Via, e>> # <<Via, p>>
    BY EndsFacts
  <2>4. PICK F : chan \in [Hops -> Seq(F)]
    BY DEF PunchInv, FunctionsInv
  <2>5. q \in Seq(F) /\ chan[<<Via, p>>] \in Seq(F)
    BY <2>3, <2>4
  <2>6. /\ \A i, j \in Asks(q) : i = j /\ q[i].nonce = e
        /\ Asks(q) = {} \/ Asks(chan[<<Via, p>>]) = {}
    BY DEF PunchInv, RequestsInv, Once
  <2>7. Asks(Tail(q)) = {} /\ 1 \in Asks(q) /\ frame = q[1]
    <3>. HIDE DEF q
    <3>. QED
      BY <1>1, <2>5, <2>6, AsksTail
  <2>8. frame.nonce = e /\ Asks(chan[<<Via, p>>]) = {} /\ UnderWay(e)
    BY <2>6, <2>7 DEF UnderWay
  <2>. DEFINE r == Append(chan[<<Via, p>>], frame)
  <2>9. r \in Seq(F \cup {frame}) /\ \A i, j \in Asks(r) : i = j /\ r[i].nonce = e
    <3>. HIDE DEF frame
    <3>1. r \in Seq(F \cup {frame}) /\ \A i, j \in Asks(r) : i = j /\ r[i] = frame
      BY <2>5, <2>8, AsksAppend
    <3>. QED
      BY <2>8, <3>1
  <2>10. Tail(q) \in Seq(F)
    BY <1>1, <2>5
  <2>11. /\ chan' \in [Hops -> Seq(F \cup {frame})]
         /\ chan'[<<e, Via>>] = Tail(q) /\ chan'[<<Via, p>>] = r
         /\ chan'[<<p, Via>>] = chan[<<p, Via>>] /\ chan'[<<Via, e>>] = chan[<<Via, e>>]
    <3>. DEFINE c == [chan EXCEPT ![<<e, Via>>] = Tail(q)]
    <3>1. Received(e, Via) = c
      BY DEF Received
    <3>2. /\ c \in [Hops -> Seq(F)] /\ c[<<e, Via>>] = Tail(q) /\ c[<<Via, p>>] = chan[<<Via, p>>]
          /\ c[<<p, Via>>] = chan[<<p, Via>>] /\ c[<<Via, e>>] = chan[<<Via, e>>]
      BY <2>3, <2>4, <2>10
    <3>. HIDE DEF c
    <3>3. chan' = [c EXCEPT ![<<Via, p>>] = r]
      <4>1. chan' = [c EXCEPT ![<<Via, p>>] = Append(c[<<Via, p>>], frame)]
        BY <2>1, <3>1
      <4>. QED
        BY <3>2, <4>1
    <3>. HIDE DEF r, frame
    <3>4. \A h \in Hops : c[h] \in Seq(F \cup {frame})
      BY <3>2
    <3>5. chan' \in [Hops -> Seq(F \cup {frame})]
      BY <2>9, <3>2, <3>3, <3>4
    <3>. QED
      BY <2>3, <3>2, <3>3, <3>5
  <2>. HIDE DEF r, q
  <2>12. Once(e)' /\ Once(p)'
    <3>1. Once(p)
      BY <2>3 DEF PunchInv, RequestsInv
    <3>2. Once(p)'
      BY <2>3, <2>11, <3>1 DEF Once
    <3>3. Once(e)'
      BY <2>3, <2>7, <2>9, <2>11 DEF Once
    <3>. QED
      BY <3>2, <3>3
  <2>13. RequestsInv'
    <3>1. \A x, n : Unheard(x, n) => Unheard(x, n)'
      BY <1>1 DEF Unheard
    <3>2. e \in begun /\ Unheard(p, e)
      BY <2>8 DEF PunchInv, RequestsInv
    <3>3. UnderWay(p)' <=> UnderWay(p)
      BY <2>3, <2>11 DEF UnderWay
    <3>. QED
      BY <1>1, <2>3, <2>12, <3>1, <3>2, <3>3 DEF PunchInv, RequestsInv
  <2>14. ForwardsInv'
    <3>1. IsFiniteSet(forward) /\ Cardinality(forward) \in Nat /\ MaxPunchForwards \in Nat
      BY FS_CardinalityType, PunchAssumption DEF PunchInv, ForwardsInv
    <3>2. /\ IsFiniteSet(forward \cup {new})
          /\ Cardinality(forward \cup {new}) = Cardinality(forward)
             \/ Cardinality(forward \cup {new}) = Cardinality(forward) + 1
      BY <3>1, FS_AddElement
    <3>3. Cardinality(forward \cup {new}) <= MaxPunchForwards
      BY <2>2, <3>1, <3>2
    <3>. QED
      BY <2>1, <3>2, <3>3 DEF ForwardsInv
  <2>15. FunctionsInv' /\ AssistsInv' /\ \A x \in Ends : Sound(x, session[x], kept[x], socks[x])'
    BY <1>1, <2>11 DEF PunchInv, FunctionsInv, AssistsInv
  <2>. QED
    BY <2>13, <2>14, <2>15 DEF PunchInv
<1>. QED
  BY <1>2, <1>3

\* The elements of a finite set, as a list.
LEMMA SetToSeqFacts ==
  ASSUME NEW S, IsFiniteSet(S)
  PROVE  SetToSeq(S) \in Seq(S)
<1>. DEFINE n == Cardinality(S)
<1>1. n \in Nat /\ ExistsBijection(1 .. n, S)
  BY FS_CardinalityType
<1>2. PICK f : f \in Bijection(1 .. n, S)
  BY <1>1 DEF ExistsBijection
<1>3. f \in [1 .. n -> S] /\ IsInjective(f)
  BY <1>2 DEF Bijection, Injection
<1>4. SetToSeq(S) \in [1 .. n -> S]
  <2>. HIDE DEF n
  <2>1. SetToSeq(S) = CHOOSE g \in [1 .. n -> S] : IsInjective(g)
    BY DEF SetToSeq, n
  <2>. QED
    BY <1>3, <2>1
<1>. HIDE DEF n
<1>. QED
  BY <1>1, <1>4, SeqDef

\* The via announces its helpers, which asks nobody for anything.
LEMMA PlansFacts ==
  ASSUME NEW hs, IsFiniteSet(hs)
  PROVE  LET P == {PunchAssist(h) : h \in hs}
         IN SetToSeq(P) \in Seq(P) /\ Asks(SetToSeq(P)) = {}
<1>. DEFINE P == {PunchAssist(h) : h \in hs}
            at == [h \in hs |-> PunchAssist(h)]
            q == SetToSeq(P)
<1>1. at \in Surjection(hs, P)
  BY DEF Surjection
<1>2. \A w \in P : w.type = "PunchAssist"
  BY DEF PunchAssist
<1>. HIDE DEF at, P
<1>3. IsFiniteSet(P)
  BY <1>1, FS_Surjection
<1>4. q \in Seq(P)
  BY <1>3, SetToSeqFacts
<1>. HIDE DEF q
<1>5. \A i \in DOMAIN q : q[i] \in P
  BY <1>4
<1>6. Asks(q) = {}
  BY <1>2, <1>5 DEF Asks
<1>. QED
  BY <1>4, <1>6 DEF q, P

\* A set of helpers within the limit, each on a port of its own.
Helping(hs) ==
  /\ IsFiniteSet(hs) /\ Cardinality(hs) <= MaxPunchHelpers
  /\ \A g, h \in hs : g.port = h.port => g = h

\* At most one helper joins, on a port that is free, while there is room.
LEMMA StartAssistFacts ==
  ASSUME NEW o, NEW n, NEW hs, Helping(hs)
  PROVE  Helping(hs \cup StartAssist(o, n, hs)) /\ IsFiniteSet(StartAssist(o, n, hs))
<1>. DEFINE new == StartAssist(o, n, hs)
            taken == {h.port : h \in hs} \cup {Port(ViaAddr)}
            As(k) == [origin |-> o, target |-> Peer(o), nonce |-> n, kind |-> k.kind, port |-> k.port]
<1>1. \E k : AssistKind(o, n, taken) \in {{}, {k}}
  BY DEF AssistKind
<1>2. PICK k : AssistKind(o, n, taken) \in {{}, {k}}
  BY <1>1
<1>3. new = IF Cardinality(hs) >= MaxPunchHelpers THEN {}
            ELSE {As(l) : l \in {l \in AssistKind(o, n, taken) : l.port \notin taken}}
  BY DEF StartAssist
<1>4. As(k).port = k.port
  OBVIOUS
<1>. HIDE DEF new, As
<1>5. ASSUME new = {}
      PROVE  Helping(hs \cup new) /\ IsFiniteSet(new)
  <2>1. hs \cup {} = hs /\ IsFiniteSet({})
    BY FS_EmptySet
  <2>. QED
    BY <1>5, <2>1
<1>6. ASSUME new # {}
      PROVE  Helping(hs \cup new) /\ IsFiniteSet(new)
  <2>1. new = {As(k)} /\ k.port \notin taken /\ ~(Cardinality(hs) >= MaxPunchHelpers)
    BY <1>2, <1>3, <1>6
  <2>2. IsFiniteSet(hs) /\ Cardinality(hs) \in Nat /\ MaxPunchHelpers \in Nat
    BY FS_CardinalityType, PunchAssumption DEF Helping
  <2>. DEFINE g == As(k)
  <2>3. g.port = k.port /\ \A h \in hs : h.port # g.port
    BY <1>4, <2>1
  <2>. HIDE DEF g
  <2>4. new = {g}
    BY <2>1 DEF g
  <2>5. IsFiniteSet(hs \cup {g}) /\ IsFiniteSet({g})
        /\ (Cardinality(hs \cup {g}) = Cardinality(hs) \/ Cardinality(hs \cup {g}) = Cardinality(hs) + 1)
    BY <2>2, FS_AddElement, FS_Singleton
  <2>6. Cardinality(hs \cup {g}) <= MaxPunchHelpers
    BY <2>1, <2>2, <2>5
  <2>7. \A x, y \in hs \cup {g} : x.port = y.port => x = y
    BY <2>3 DEF Helping
  <2>. QED
    BY <2>4, <2>5, <2>6, <2>7 DEF Helping
<1>7. Helping(hs \cup new) /\ IsFiniteSet(new)
  BY <1>5, <1>6
<1>. QED
  BY <1>7 DEF new

\* The via passes an answer on, and helps.
LEMMA RelaySafe ==
  ASSUME PunchInv, NEW e \in Ends, RelayResponse(e)
  PROVE  PunchInv'
<1>. DEFINE frame == Head(chan[<<e, Via>>])
            matching == {f \in forward : f.origin = frame.target /\ f.nonce = frame.nonce}
            first == StartAssist(frame.target, frame.nonce, assisting)
            second == StartAssist(e, frame.nonce, assisting \cup first)
            Plans(helpers) == SetToSeq({PunchAssist(h) : h \in helpers})
            R == Received(e, Via)
<1>1. /\ chan[<<e, Via>>] # <<>> /\ frame.type = "ConnectResponse"
      /\ forward' = forward \ matching
      /\ UNCHANGED <<seen, session, kept, failed, begun, joined>>
  BY DEF RelayResponse
<1>2. ForwardsInv'
  <2>1. IsFiniteSet(forward) /\ Cardinality(forward) <= MaxPunchForwards /\ Cardinality(forward) \in Nat
        /\ MaxPunchForwards \in Nat
    BY FS_CardinalityType, PunchAssumption DEF PunchInv, ForwardsInv
  <2>2. forward \ matching \in SUBSET forward
    OBVIOUS
  <2>. HIDE DEF matching
  <2>3. IsFiniteSet(forward \ matching) /\ Cardinality(forward \ matching) <= Cardinality(forward)
        /\ Cardinality(forward \ matching) \in Nat
    BY <2>1, <2>2, FS_Subset, FS_CardinalityType
  <2>4. Cardinality(forward \ matching) <= MaxPunchForwards
    BY <2>1, <2>3
  <2>. QED
    BY <1>1, <2>3, <2>4 DEF ForwardsInv
<1>3. Quieter(chan, R)
  BY <1>1, QuieterReceived
<1>4. CASE chan' = R /\ UNCHANGED <<assisting, socks>>
  <2>1. AssistsInv' /\ (\E V : socks' \in [Nodes -> V]) /\ \A x \in Ends : socks'[x] = socks[x]
    BY <1>4 DEF PunchInv, AssistsInv, FunctionsInv
  <2>. HIDE DEF R, matching
  <2>. QED
    BY <1>1, <1>2, <1>3, <1>4, <2>1, ViaStep
<1>5. CASE ~(chan' = R /\ UNCHANGED <<assisting, socks>>)
  <2>1. /\ chan' = [[R EXCEPT ![<<Via, frame.target>>] = (@ \o <<frame>>) \o Plans(first)]
                      EXCEPT ![<<Via, e>>] = @ \o Plans(second)]
        /\ assisting' = assisting \cup first \cup second
        /\ socks' = [socks EXCEPT ![Via] = @ \cup {h.port : h \in first \cup second}]
    BY <1>5 DEF RelayResponse
  <2>2. Helping(assisting)
    BY DEF PunchInv, AssistsInv, Helping
  <2>3. Helping(assisting \cup first) /\ IsFiniteSet(first)
    BY <2>2, StartAssistFacts
  <2>4. Helping((assisting \cup first) \cup second) /\ IsFiniteSet(second)
    <3>. HIDE DEF first
    <3>. QED
      BY <2>3, StartAssistFacts
  <2>. HIDE DEF first, second, matching
  <2>. DEFINE P == Plans(first)
              Q == Plans(second)
              a == <<Via, frame.target>>
              b == <<Via, e>>
  <2>5. PICK F : P \in Seq(F) /\ Asks(P) = {}
    BY <2>3, PlansFacts
  <2>6. PICK G : Q \in Seq(G) /\ Asks(Q) = {}
    BY <2>4, PlansFacts
  <2>7. chan' = [[R EXCEPT ![a] = (@ \o <<frame>>) \o P] EXCEPT ![b] = @ \o Q]
    BY <2>1
  <2>. HIDE DEF P, Q, a, b, R, frame
  <2>. DEFINE c == [R EXCEPT ![a] = @ \o <<frame>>]
              d == [c EXCEPT ![a] = @ \o P]
  <2>8. Quieter(chan, c)
    <3>1. <<frame>> \in Seq({frame}) /\ Asks(<<frame>>) = {}
      BY <1>1 DEF Asks
    <3>. QED
      BY <1>3, <3>1, QuieterConcat
  <2>9. d = [R EXCEPT ![a] = (@ \o <<frame>>) \o P]
    <3>1. PICK K : R \in [Hops -> Seq(K)]
      BY <1>3 DEF Quieter
    <3>. QED
      BY <3>1
  <2>. HIDE DEF c
  <2>10. Quieter(chan, d)
    BY <2>5, <2>8, QuieterConcat
  <2>11. chan' = [d EXCEPT ![b] = @ \o Q]
    BY <2>7, <2>9
  <2>. HIDE DEF d
  <2>12. Quieter(chan, chan')
    BY <2>6, <2>10, <2>11, QuieterConcat
  <2>13. PICK V : socks \in [Nodes -> V]
    BY DEF PunchInv, FunctionsInv
  <2>14. Via \in Nodes /\ \A x \in Ends : x # Via /\ x \in Nodes
    BY PunchAssumption DEF Nodes
  <2>. DEFINE ports == {h.port : h \in first \cup second}
  <2>15. /\ socks' \in [Nodes -> V \cup {socks[Via] \cup ports}]
         /\ socks'[Via] = socks[Via] \cup ports
         /\ \A x \in Ends : socks'[x] = socks[x]
    <3>. HIDE DEF ports
    <3>1. socks' = [socks EXCEPT ![Via] = socks[Via] \cup ports]
      BY <2>1 DEF ports
    <3>. QED
      BY <2>13, <2>14, <3>1
  <2>16. AssistsInv'
    <3>1. socks[Via] = {h.port : h \in assisting}
      BY DEF PunchInv, AssistsInv
    <3>2. socks'[Via] = {h.port : h \in assisting'}
      BY <2>1, <2>15, <3>1
    <3>3. assisting' = (assisting \cup first) \cup second
      BY <2>1
    <3>4. Helping(assisting')
      BY <2>4, <3>3
    <3>. QED
      BY <3>2, <3>4 DEF Helping, AssistsInv
  <2>. QED
    BY <1>1, <1>2, <2>12, <2>15, <2>16, ViaStep
<1>. QED
  BY <1>4, <1>5

\* An end begins.
LEMMA BeginSafe ==
  ASSUME PunchInv, NEW e \in Ends, BeginPunch(e)
  PROVE  PunchInv'
<1>. DEFINE p == Peer(e)
<1>1. /\ e \notin begun /\ begun' = begun \cup {e}
      /\ UNCHANGED <<seen, forward, assisting, socks, kept, failed, joined>>
  BY DEF BeginPunch
<1>2. begun' \subseteq Ends /\ failed' \subseteq Ends
  BY <1>1 DEF PunchInv, FunctionsInv
<1>3. /\ p \in Ends /\ p # e /\ Peer(p) = e /\ \A x \in Ends : x = e \/ x = p
      /\ <<Via, e>> \in Hops /\ <<e, Via>> \in Hops /\ <<p, Via>> \in Hops /\ <<Via, p>> \in Hops
      /\ <<e, Via>> # <<Via, p>> /\ <<p, Via>> # <<e, Via>> /\ <<Via, e>> # <<e, Via>>
  BY EndsFacts
<1>4. Once(e) /\ Once(p) /\ ~UnderWay(e) /\ Unheard(e, e) /\ Unheard(p, e)
  BY <1>1, <1>3 DEF PunchInv, RequestsInv
<1>5. PICK V : socks \in [Nodes -> V]
  BY DEF PunchInv, FunctionsInv
<1>6. socks' = [socks EXCEPT ![e] = socks[e]]
  BY <1>1, <1>5
<1>7. Sound(e, session[e], kept[e], socks[e])
  BY DEF PunchInv
<1>8. PICK F : chan \in [Hops -> Seq(F)]
  BY DEF PunchInv, FunctionsInv
<1>9. CASE session[e] # {}
  <2>1. PICK s \in session[e] :
          session' = [session EXCEPT ![e] = With(e, s, [s EXCEPT !.payload = TRUE])]
    BY <1>9 DEF BeginPunch
  <2>2. UNCHANGED chan
    BY <1>9 DEF BeginPunch
  <2>. DEFINE t == [s EXCEPT !.payload = TRUE]
              ss == With(e, s, t)
  <2>3. session' = [session EXCEPT ![e] = ss]
    BY <2>1
  <2>4. IsSession(s) /\ s.rounds \in 0 .. MaxPunchProbeRounds /\ s.due \in {"now", "later", "never"}
        /\ Listed(s.candidates) /\ Len(s.candidates) <= MaxPunchCandidates
    BY SessionFacts
  <2>5. IsSession(t) /\ t.nonce = s.nonce /\ t.sockets = s.sockets
        /\ t.rounds = s.rounds /\ t.due = s.due /\ t.candidates = s.candidates
    <3>1. PICK W : s \in [SessionFields -> W]
      BY <2>4 DEF IsSession
    <3>2. t \in [SessionFields -> W \cup {TRUE}]
      BY <3>1
    <3>. QED
      BY <3>1, <3>2 DEF IsSession, SessionFields
  <2>. HIDE DEF t
  <2>6. Sound(e, ss, kept[e], socks[e]) /\ \A q \in ss : \E r \in session[e] : r.nonce = q.nonce
    BY <2>4, <2>5, EditSound
  <2>. HIDE DEF ss
  <2>7. /\ FunctionsInv' /\ ForwardsInv' /\ AssistsInv'
        /\ \A x \in Ends : Sound(x, session[x], kept[x], socks[x])'
        /\ session'[e] = ss /\ \A x \in Ends : x # e => session'[x] = session[x]
    <3>1. \E G : chan' \in [Hops -> Seq(G)]
      BY <1>8, <2>2
    <3>. QED
      BY <1>1, <1>2, <1>6, <2>3, <2>6, <3>1, EndShape
  <2>8. RequestsInv'
    <3>1. \A x \in Ends : \A n : Unheard(x, n) => Unheard(x, n)'
      BY <1>1, <2>6, <2>7 DEF Unheard
    <3>2. \A x \in Ends : (Once(x)' <=> Once(x)) /\ (UnderWay(x)' <=> UnderWay(x))
      BY <2>2 DEF Once, UnderWay
    <3>3. \A x \in Ends : x \notin begun' => x \notin begun
      BY <1>1
    <3>. QED
      BY <1>3, <3>1, <3>2, <3>3 DEF PunchInv, RequestsInv
  <2>. QED
    BY <2>7, <2>8 DEF PunchInv
<1>10. CASE session[e] = {}
  <2>. DEFINE w == [type |-> "ConnectRequest", nonce |-> e, origin |-> e, target |-> p]
              nu == NewSession(e, e, TRUE)
              t == [nu EXCEPT !.payload = TRUE]
              ss == {t}
              q == chan[<<e, Via>>]
              r == Append(q, w)
  <2>1. session' = [session EXCEPT ![e] = ss] /\ chan' = [chan EXCEPT ![<<e, Via>>] = r]
    BY <1>10 DEF BeginPunch, Send
  <2>2. w.nonce = e
    OBVIOUS
  <2>3. SessionInv(e, t) /\ t.nonce = e /\ t.sockets = {}
    <3>1. SessionInv(e, nu) /\ nu.nonce = e /\ nu.sockets = {}
      BY NewFacts
    <3>. HIDE DEF nu
    <3>2. PICK W : nu \in [SessionFields -> W]
      BY <3>1 DEF SessionInv, IsSession
    <3>3. t \in [SessionFields -> W \cup {TRUE}]
      BY <3>2
    <3>4. IsSession(t) /\ t.nonce = nu.nonce /\ t.sockets = nu.sockets
          /\ t.rounds = nu.rounds /\ t.due = nu.due /\ t.candidates = nu.candidates
      BY <3>2, <3>3 DEF IsSession, SessionFields
    <3>. HIDE DEF t
    <3>. QED
      BY <3>1, <3>4 DEF SessionInv
  <2>. HIDE DEF t, w
  <2>4. Sound(e, ss, kept[e], socks[e])
    <3>1. Sound(e, session[e] \cup {t}, kept[e], socks[e])
      BY <1>4, <1>7, <2>3, NewSound DEF Unheard
    <3>. QED
      BY <1>10, <3>1
  <2>5. q \in Seq(F) /\ Asks(q) = {} /\ Asks(chan[<<Via, p>>]) = {}
    BY <1>3, <1>4, <1>8 DEF UnderWay
  <2>6. r \in Seq(F \cup {w}) /\ \A i, j \in Asks(r) : i = j /\ r[i].nonce = e
    <3>1. r \in Seq(F \cup {w}) /\ \A i, j \in Asks(r) : i = j /\ r[i] = w
      <4>. HIDE DEF q
      <4>. QED
        BY <2>5, AsksAppend
    <3>. QED
      BY <2>2, <3>1
  <2>. HIDE DEF r, q
  <2>7. /\ chan' \in [Hops -> Seq(F \cup {w})] /\ chan'[<<e, Via>>] = r
        /\ \A h \in Hops : h # <<e, Via>> => chan'[h] = chan[h]
    <3>1. \A h \in Hops : chan[h] \in Seq(F \cup {w})
      BY <1>8
    <3>. QED
      BY <1>3, <1>8, <2>1, <2>6, <3>1
  <2>. HIDE DEF ss
  <2>8. /\ FunctionsInv' /\ ForwardsInv' /\ AssistsInv'
        /\ \A x \in Ends : Sound(x, session[x], kept[x], socks[x])'
        /\ session'[e] = ss /\ \A x \in Ends : x # e => session'[x] = session[x]
    <3>1. \E G : chan' \in [Hops -> Seq(G)]
      BY <2>7
    <3>. QED
      BY <1>1, <1>2, <1>6, <2>1, <2>4, <3>1, EndShape
  <2>9. Once(e)' /\ Once(p)' /\ (UnderWay(p)' <=> UnderWay(p))
    <3>1. Once(e)'
      BY <1>3, <2>5, <2>6, <2>7 DEF Once
    <3>2. Once(p)'
      BY <1>3, <1>4, <2>7 DEF Once
    <3>3. UnderWay(p)' <=> UnderWay(p)
      BY <1>3, <2>7 DEF UnderWay
    <3>. QED
      BY <3>1, <3>2, <3>3
  <2>10. /\ Unheard(p, e)' /\ (Unheard(p, p) => Unheard(p, p)')
         /\ Unheard(e, p) => Unheard(e, p)'
    <3>1. \A x \in ss : x.nonce = e
      BY <2>3 DEF ss
    <3>. QED
      BY <1>1, <1>3, <1>4, <2>8, <3>1 DEF Unheard
  <2>11. RequestsInv'
    BY <1>1, <1>3, <2>9, <2>10 DEF PunchInv, RequestsInv
  <2>. QED
    BY <2>8, <2>11 DEF PunchInv
<1>. QED
  BY <1>9, <1>10

\* A connection comes up, and the sessions end.
LEMMA EstablishSafe ==
  ASSUME PunchInv, NEW d, Establish(d)
  PROVE  PunchInv'
<1>. DEFINE there == Reaches(Peer(d.from), d.src, d.dst)
            keep == [e \in Ends |-> {Port(IF e = d.from THEN d.socket ELSE there)}]
            All(e) == UNION {s.sockets : s \in session[e]}
            K(e) == kept[e] \cup (All(e) \cap keep[e])
            S(e) == socks[e] \ (All(e) \ keep[e])
<1>1. joined' = TRUE /\ UNCHANGED <<seen, forward, assisting, chan, failed, begun>>
  BY DEF Establish
<1>2. CompletePunch(keep)
  BY DEF Establish
<1>. HIDE DEF keep
<1>3. /\ session' = [e \in Ends |-> {}]
      /\ kept' = [e \in Ends |-> K(e)]
      /\ socks' = [n \in Nodes |-> IF n = Via THEN socks[Via] ELSE S(n)]
  BY <1>2 DEF CompletePunch
<1>4. \A e \in Ends : /\ Sound(e, {}, K(e), S(e))
                      /\ \A n \in Ends : Unheard(e, n) => K(e) \cap BirthdaySockets(e, n) = {}
  <2>. SUFFICES ASSUME NEW e \in Ends
                PROVE  /\ Sound(e, {}, K(e), S(e))
                       /\ \A n \in Ends : Unheard(e, n) => K(e) \cap BirthdaySockets(e, n) = {}
    OBVIOUS
  <2>. DEFINE ss == session[e]
              ks == kept[e]
              sk == socks[e]
              held == keep[e]
  <2>1. Sound(e, ss, ks, sk)
    BY DEF PunchInv
  <2>2. \A n \in Ends : Unheard(e, n) =>
          ks \cap BirthdaySockets(e, n) = {} /\ \A s \in ss : s.nonce # n
    BY DEF Unheard
  <2>. HIDE DEF ss, ks, sk, held
  <2>3. LET all == UNION {s.sockets : s \in ss}
        IN /\ Sound(e, {}, ks \cup (all \cap held), sk \ (all \ held))
           /\ \A n \in Ends : ks \cap BirthdaySockets(e, n) = {} /\ (\A s \in ss : s.nonce # n)
                => (ks \cup (all \cap held)) \cap BirthdaySockets(e, n) = {}
    BY <2>1, ClearSound
  <2>. QED
    BY <2>2, <2>3 DEF ss, ks, sk, held
<1>. HIDE DEF K, S
<1>5. \A e \in Ends : e # Via /\ e \in Nodes
  BY EndsFacts
<1>6. \A e \in Ends : session'[e] = {} /\ kept'[e] = K(e) /\ socks'[e] = S(e)
  BY <1>3, <1>5
<1>7. socks'[Via] = socks[Via]
  BY <1>3 DEF Nodes
<1>8. FunctionsInv'
  <2>. DEFINE A == {{}} \cup {K(e) : e \in Ends} \cup {socks[Via]} \cup {S(n) : n \in Nodes}
  <2>1. session' \in [Ends -> A] /\ kept' \in [Ends -> A] /\ socks' \in [Nodes -> A]
    BY <1>3
  <2>. HIDE DEF A
  <2>. QED
    BY <1>1, <2>1 DEF PunchInv, FunctionsInv
<1>9. ForwardsInv' /\ AssistsInv'
  BY <1>1, <1>7 DEF PunchInv, ForwardsInv, AssistsInv
<1>10. \A e \in Ends : Sound(e, session[e], kept[e], socks[e])'
  BY <1>4, <1>6
<1>11. \A e, n \in Ends : Unheard(e, n) => Unheard(e, n)'
  BY <1>4, <1>6 DEF Unheard
<1>12. RequestsInv'
  <2>1. Quieter(chan, chan')
    BY <1>1, QuieterSame DEF PunchInv
  <2>2. \A e \in Ends : UnderWay(e)' <=> UnderWay(e)
    BY <1>1 DEF UnderWay
  <2>3. \A e \in Ends : Peer(e) \in Ends
    BY EndsFacts
  <2>. QED
    BY <1>1, <1>11, <2>1, <2>2, <2>3, RequestsKept DEF PunchInv, RequestsInv
<1>. QED
  BY <1>8, <1>9, <1>10, <1>12 DEF PunchInv

-----------------------------------------------------------------------------
(* The theorems about hole punching.                                       *)

\* Punching starts with nobody having asked for anything.
LEMMA PunchStarts ==
  ASSUME NEW chosen, InitPunch(chosen)
  PROVE  PunchInv
<1>1. /\ session = [e \in Ends |-> {}]
      /\ forward = {} /\ assisting = {}
      /\ chan = [h \in Hops |-> <<>>]
      /\ socks = [n \in Nodes |-> {}]
      /\ kept = [e \in Ends |-> {}]
      /\ failed = {} /\ begun = {} /\ joined = FALSE
  BY DEF InitPunch
<1>2. \A e \in Ends : DOMAIN seen[e] = ToSet(ObserverAddrs)
  BY DEF InitPunch
<1>3. IsFiniteSet(ToSet(ObserverAddrs))
  <2>. DEFINE D == DOMAIN ObserverAddrs
              S == ToSet(ObserverAddrs)
  <2>1. ObserverAddrs \in Seq(Addrs)
    BY PunchAssumption
  <2>2. Len(ObserverAddrs) \in Nat /\ D = 1 .. Len(ObserverAddrs)
    BY <2>1
  <2>3. IsFiniteSet(D)
    BY <2>2, FS_Interval
  <2>4. ObserverAddrs \in Surjection(D, S)
    <3>1. ObserverAddrs \in [D -> S]
      BY <2>1 DEF ToSet
    <3>. QED
      BY <3>1 DEF Surjection, ToSet
  <2>. HIDE DEF D, S
  <2>5. IsFiniteSet(S)
    BY <2>3, <2>4, FS_Surjection
  <2>. QED
    BY <2>5 DEF S
<1>4. Via \in Nodes /\ \A e \in Ends : e \in Nodes
  BY DEF Nodes
<1>5. FunctionsInv
  <2>1. session \in [Ends -> {{}}] /\ kept \in [Ends -> {{}}] /\ socks \in [Nodes -> {{}}]
    BY <1>1
  <2>2. chan \in [Hops -> Seq({})]
    BY <1>1
  <2>. QED
    BY <1>1, <1>2, <1>3, <2>1, <2>2 DEF FunctionsInv
<1>6. IsFiniteSet({}) /\ Cardinality({}) = 0
      /\ MaxPunchForwards \in Nat /\ MaxPunchHelpers \in Nat
  BY FS_EmptySet, PunchAssumption
<1>7. ForwardsInv
  BY <1>1, <1>6 DEF ForwardsInv
<1>8. AssistsInv
  BY <1>1, <1>4, <1>6 DEF AssistsInv
<1>9. \A e \in Ends : session[e] = {} /\ kept[e] = {} /\ socks[e] = {}
  BY <1>1, <1>4
<1>10. \A e \in Ends : Sound(e, session[e], kept[e], socks[e])
  BY <1>9 DEF Sound
<1>11. RequestsInv
  <2>1. Asks(<<>>) = {}
    BY DEF Asks
  <2>2. \A h \in Hops : Asks(chan[h]) = {}
    BY <1>1, <2>1
  <2>3. ASSUME NEW e \in Ends
        PROVE  Once(e) /\ ~UnderWay(e)
    BY <2>2, EndsFacts DEF Once, UnderWay
  <2>4. \A x \in Ends : \A n : Unheard(x, n)
    BY <1>9 DEF Unheard
  <2>5. \A e \in Ends : Peer(e) \in Ends
    BY EndsFacts
  <2>. QED
    BY <2>3, <2>4, <2>5 DEF RequestsInv
<1>. QED
  BY <1>5, <1>7, <1>8, <1>10, <1>11 DEF PunchInv

\* While dial-back works, punching rests.
LEMMA PunchRests ==
  ASSUME PunchInv, UNCHANGED punchVars
  PROVE  PunchInv'
<1>1. UNCHANGED <<seen, session, forward, assisting, chan, socks, kept, failed, begun, joined>>
  BY DEF punchVars
<1>2. Quieter(chan, chan')
  BY <1>1, QuieterSame DEF PunchInv
<1>. QED
  BY <1>1, <1>2, IdleStep

\* Hole punching, for any observers, boxes and limits: see PunchInv.
THEOREM PunchHolds == PathsSpec => []PunchInv
<1>1. PathsInit => PunchInv
  BY PunchStarts DEF PathsInit
<1>2. PunchInv /\ [PathsNext]_pathVars => PunchInv'
  <2>. SUFFICES ASSUME PunchInv, [PathsNext]_pathVars
                PROVE  PunchInv'
    OBVIOUS
  <2>1. CASE UNCHANGED punchVars
    BY <2>1, PunchRests
  <2>2. CASE NextPunch
    <3>1. ASSUME NEW e \in Ends, BeginPunch(e) \/ ForwardRequest(e) \/ HandleConnectRequest(e)
                                 \/ RelayResponse(e) \/ HandleConnectResponse(e)
          PROVE  PunchInv'
      BY <3>1, BeginSafe, ForwardSafe, RequestSafe, RelaySafe, ResponseSafe
    <3>2. ASSUME NEW e \in Ends, HandlePunchAssist(e) \/ HandlePunchObservation(e)
                                 \/ HandlePunchBracket(e) \/ RelayBirthday(e) \/ HandlePunchBirthday(e)
          PROVE  PunchInv'
      BY <3>2, AssistSafe, SeenSafe, BracketSafe, RelayBirthdaySafe, BirthdaySafe
    <3>3. ASSUME NEW e \in Ends, ExpirePunch(e)
          PROVE  PunchInv'
      BY <3>3, ExpireSafe
    <3>4. ASSUME NEW e \in Ends, NEW dues, AdvancePunches(e, dues)
          PROVE  PunchInv'
      BY <3>4, TimerSafe
    <3>5. ASSUME NEW probe, HandlePunchProbe(probe) \/ HandlePunchHelperProbe(probe)
          PROVE  PunchInv'
      BY <3>5, ProbeSafe, HelperProbeSafe
    <3>6. ASSUME NEW d, Establish(d)
          PROVE  PunchInv'
      BY <3>6, EstablishSafe
    <3>7. CASE ExpirePunchForward \/ ExpirePunchHelper \/ Lose
      BY <3>7, ExpireForwardSafe, ExpireHelperSafe, LoseSafe
    <3>. QED
      BY <2>2, <3>1, <3>2, <3>3, <3>4, <3>5, <3>6, <3>7 DEF NextPunch
  <2>. QED
    BY <2>1, <2>2 DEF PathsNext, pathVars
<1>. QED
  BY <1>1, <1>2, PTL DEF PathsSpec

\* The types of both protocols and their limits, for any observers, helpers, boxes
\* and limits: see PathTypes.  Every short-lived socket has an owner.
THEOREM PathsTyped == PathsSpec => []PathTypes
<1>1. PunchInv => PunchTypes
  <2>. SUFFICES ASSUME PunchInv
                PROVE  PunchTypes
    OBVIOUS
  <2>1. Cardinality(forward) <= MaxPunchForwards /\ Cardinality(assisting) <= MaxPunchHelpers
    BY DEF PunchInv, ForwardsInv, AssistsInv
  <2>2. ASSUME NEW e \in Ends, NEW s \in session[e]
        PROVE  /\ s.rounds <= MaxPunchProbeRounds
               /\ Len(s.candidates) <= MaxPunchCandidates
               /\ s.due \in {"now", "later", "never"}
    BY SessionFacts
  <2>3. begun \subseteq Ends /\ failed \subseteq Ends /\ joined \in BOOLEAN
    BY DEF PunchInv, FunctionsInv
  <2>4. PunchSocketsOwned
    BY DEF PunchInv, AssistsInv, Sound, PunchSocketsOwned
  <2>. QED
    BY <2>1, <2>2, <2>3, <2>4 DEF PunchTypes
<1>2. PathsInit => scene \in {"dialback", "punch"}
  BY DEF PathsInit
<1>3. scene \in {"dialback", "punch"} /\ [PathsNext]_pathVars => (scene \in {"dialback", "punch"})'
  BY DEF PathsNext, pathVars
<1>4. PathsSpec => [](scene \in {"dialback", "punch"})
  BY <1>2, <1>3, PTL DEF PathsSpec
<1>5. scene \in {"dialback", "punch"} /\ DialBackTypes /\ PunchTypes => PathTypes
  BY DEF PathTypes
<1>. QED
  BY <1>1, <1>4, <1>5, PunchHolds, DialBackTypesHold, PTL

=============================================================================
