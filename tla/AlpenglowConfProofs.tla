------------------------ MODULE AlpenglowConfProofs ------------------------
(***************************************************************************)
(* Proofs about the Alpenglow confirmation stream, for any set of blocks   *)
(* and any limits of its buffers.                                          *)
(***************************************************************************)
EXTENDS AlpenglowConf, TLAPS

\* What has been emitted lies below the slot the stream waits for.
OutBehind ==
  /\ next_slot = None => out = <<>>
  /\ next_slot # None => \A i \in 1 .. Len(out) : out[i].slot < next_slot

\* Only final blocks are pending.
PendingFinal ==
  \A s \in DOMAIN pending : [slot |-> s, hash |-> pending[s]] \in Certified

\* The inductive invariant: neither OutputFinal nor the order of the output
\* is inductive without what is known of the blocks still pending.
IInv ==
  /\ TypeOK
  /\ PendingAhead
  /\ OutBehind
  /\ PendingFinal
  /\ OutputFinal
  /\ MatchedPromoted

-----------------------------------------------------------------------------
\* Slots of keys and certified blocks are numbers.
LEMMA KeySlots ==
  /\ \A k \in Keys : k.slot \in Nat /\ k = [slot |-> k.slot, hash |-> k.hash]
  /\ \A k \in Certified : k.slot \in Nat
BY SlotsAssumption DEF Keys, Key

\* pop_ready takes a pending slot that no other pending slot precedes.
LEMMA ReadyIsLeast ==
  ASSUME TypeOK, PendingAhead, NEW s \in ReadySlots
  PROVE  /\ s \in DOMAIN pending
         /\ s \in Nat
         /\ next_slot # None => next_slot <= s
         /\ \A t \in DOMAIN pending : s <= t
<1>1. DOMAIN pending \subseteq Nat
  BY KeySlots DEF TypeOK
<1>2. CASE next_slot \in DOMAIN pending
  <2>1. s = next_slot
    BY <1>2 DEF ReadySlots
  <2>2. next_slot # None
    BY <1>1, <1>2, NoneAssumption
  <2>. QED
    BY <1>1, <1>2, <2>1, <2>2 DEF PendingAhead
<1>3. CASE next_slot \notin DOMAIN pending
  BY <1>1, <1>3 DEF ReadySlots, PendingAhead
<1>. QED
  BY <1>2, <1>3

\* A block emitted by pop_ready follows everything emitted before it.
LEMMA EmitIsOrdered ==
  ASSUME IInv, Emit
  PROVE  Stream!Next
<1>1. PICK s \in ReadySlots :
        /\ out' = Append(out, [slot |-> s, hash |-> pending[s]])
        /\ next_slot' = s + 1
  BY DEF Emit
<1>. DEFINE u == [slot |-> s, hash |-> pending[s]]
<1>2. /\ s \in DOMAIN pending
      /\ s \in Nat
      /\ next_slot # None => next_slot <= s
  BY ReadyIsLeast DEF IInv
<1>3. u \in Keys
  BY <1>2 DEF IInv, TypeOK
<1>4. \A i \in 1 .. Len(out) : out[i].slot < u.slot
  <2>1. CASE next_slot = None
    BY <2>1 DEF IInv, OutBehind
  <2>2. CASE next_slot # None
    <3>1. TAKE i \in 1 .. Len(out)
    <3>2. out[i].slot < next_slot
      BY <2>2 DEF IInv, OutBehind
    <3>3. out[i] \in Keys /\ next_slot \in Nat
      BY <2>2 DEF IInv, TypeOK
    <3>4. out[i].slot \in Nat
      BY <3>3, KeySlots
    <3>. QED
      BY <1>2, <2>2, <3>2, <3>3, <3>4
  <2>. QED
    BY <2>1, <2>2
<1>. QED
  BY <1>1, <1>3, <1>4 DEF Stream!Next, Stream!Emit, Stream!Follows

-----------------------------------------------------------------------------
\* The initial state satisfies the invariant.
LEMMA InitIInv == Init => IInv
BY DEF Init, IInv, TypeOK, PendingAhead, OutBehind, PendingFinal, OutputFinal,
       MatchedPromoted

\* Emitting a block preserves the invariant.
LEMMA EmitIInv ==
  ASSUME IInv, Emit
  PROVE  IInv'
<1>1. PICK s \in ReadySlots :
        /\ out' = Append(out, [slot |-> s, hash |-> pending[s]])
        /\ pending' = [t \in DOMAIN pending \ {s} |-> pending[t]]
        /\ next_slot' = s + 1
        /\ UNCHANGED <<candidates, finalized>>
  BY DEF Emit
<1>. DEFINE u == [slot |-> s, hash |-> pending[s]]
<1>2. /\ s \in DOMAIN pending
      /\ s \in Nat
      /\ next_slot # None => next_slot <= s
      /\ \A t \in DOMAIN pending : s <= t
  BY ReadyIsLeast DEF IInv
<1>3. DOMAIN pending' = DOMAIN pending \ {s}
      /\ \A t \in DOMAIN pending' : pending'[t] = pending[t]
  BY <1>1
<1>4. u \in Keys /\ u \in Certified
  BY <1>2 DEF IInv, TypeOK, PendingFinal
<1>5. out \in Seq(Keys)
  BY DEF IInv, TypeOK
<1>6. /\ out' \in Seq(Keys)
      /\ Len(out') = Len(out) + 1
      /\ \A i \in 1 .. Len(out) : out'[i] = out[i]
      /\ out'[Len(out) + 1] = u
  BY <1>1, <1>4, <1>5
<1>7. TypeOK'
  BY <1>1, <1>2, <1>3, <1>6 DEF IInv, TypeOK
<1>8. PendingAhead'
  <2>1. DOMAIN pending \subseteq Nat
    BY KeySlots DEF IInv, TypeOK
  <2>. QED
    BY <1>1, <1>2, <1>3, <2>1 DEF PendingAhead
<1>9. OutBehind'
  <2>1. next_slot' # None
    BY <1>1, <1>2, NoneAssumption
  <2>2. \A i \in 1 .. Len(out) : out[i].slot < s + 1
    <3>1. CASE next_slot = None
      BY <3>1 DEF IInv, OutBehind
    <3>2. CASE next_slot # None
      <4>1. TAKE i \in 1 .. Len(out)
      <4>2. out[i].slot \in Nat
        BY <1>5, KeySlots
      <4>3. out[i].slot < next_slot /\ next_slot \in Nat
        BY <3>2 DEF IInv, OutBehind, TypeOK
      <4>. QED
        BY <1>2, <3>2, <4>2, <4>3
    <3>. QED
      BY <3>1, <3>2
  <2>3. u.slot < s + 1
    BY <1>2
  <2>4. \A i \in 1 .. Len(out') : out'[i].slot < s + 1
    BY <1>5, <1>6, <2>2, <2>3
  <2>. QED
    BY <1>1, <2>1, <2>4 DEF OutBehind
<1>10. PendingFinal'
  BY <1>3 DEF IInv, PendingFinal
<1>11. OutputFinal'
  <2>1. \A i \in 1 .. Len(out') : i \in 1 .. Len(out) \/ i = Len(out) + 1
    BY <1>5, <1>6
  <2>. QED
    BY <1>4, <1>6, <2>1 DEF IInv, OutputFinal
<1>12. MatchedPromoted'
  BY <1>1 DEF IInv, MatchedPromoted
<1>. QED
  BY <1>7, <1>8, <1>9, <1>10, <1>11, <1>12 DEF IInv

\* Receiving a slot preserves the invariant.
LEMMA ReceiveIInv ==
  ASSUME IInv, NEW b \in Blocks, Receive(b)
  PROVE  IInv'
<1>1. PICK c \in SUBSET (candidates \cup {Key(b)}),
           f \in SUBSET (finalized \cup b.certs) : Promote(c, f)
  BY DEF Receive, Trimmed
<1>. DEFINE live == f \ Stale(f)
            promoted == live \cap c
<1>2. /\ candidates' = (c \ Stale(f)) \ promoted
      /\ finalized' = live \ promoted
      /\ pending' =
           [s \in DOMAIN pending \cup {k.slot : k \in promoted} |->
              IF \E k \in promoted : k.slot = s
              THEN (CHOOSE k \in promoted : k.slot = s).hash
              ELSE pending[s]]
      /\ next_slot' = next_slot
      /\ out' = out
  BY <1>1 DEF Promote, Receive
<1>3. c \subseteq Keys
  BY DEF IInv, TypeOK, Keys
<1>4. f \subseteq Certified
  BY DEF IInv, TypeOK, Certified
<1>5. promoted \subseteq Keys \cap Certified
  BY <1>3, <1>4
<1>6. /\ DOMAIN pending' = DOMAIN pending \cup {k.slot : k \in promoted}
      /\ \A s \in DOMAIN pending' :
           \/ s \in DOMAIN pending /\ pending'[s] = pending[s]
           \/ \E k \in promoted : s = k.slot /\ pending'[s] = k.hash
  BY <1>2
<1>7. \A s \in DOMAIN pending' :
        [slot |-> s, hash |-> pending'[s]] \in Keys \cap Certified
  <2>1. TAKE s \in DOMAIN pending'
  <2>2. CASE s \in DOMAIN pending /\ pending'[s] = pending[s]
    BY <2>2 DEF IInv, TypeOK, PendingFinal
  <2>3. CASE \E k \in promoted : s = k.slot /\ pending'[s] = k.hash
    BY <1>5, <2>3, KeySlots
  <2>. QED
    BY <1>6, <2>2, <2>3
<1>8. TypeOK'
  <2>1. candidates' \subseteq Keys /\ finalized' \subseteq Certified
    BY <1>2, <1>3, <1>4
  <2>2. DOMAIN pending' \subseteq {k.slot : k \in Keys}
    BY <1>5, <1>6 DEF IInv, TypeOK
  <2>. QED
    BY <1>2, <1>7, <2>1, <2>2 DEF IInv, TypeOK
<1>9. PendingAhead'
  <2>1. SUFFICES ASSUME next_slot # None, NEW s \in DOMAIN pending'
                 PROVE  next_slot <= s
    BY <1>2 DEF PendingAhead
  <2>2. next_slot \in Nat
    BY <2>1 DEF IInv, TypeOK
  <2>3. CASE s \in DOMAIN pending
    BY <2>1, <2>3 DEF IInv, PendingAhead
  <2>4. CASE \E k \in promoted : s = k.slot
    BY <1>5, <2>1, <2>2, <2>4, KeySlots DEF Stale
  <2>. QED
    BY <1>6, <2>3, <2>4
<1>10. OutBehind' /\ OutputFinal'
  BY <1>2 DEF IInv, OutBehind, OutputFinal
<1>11. PendingFinal'
  BY <1>7 DEF PendingFinal
<1>12. MatchedPromoted'
  BY <1>2 DEF MatchedPromoted
<1>. QED
  BY <1>8, <1>9, <1>10, <1>11, <1>12 DEF IInv

\* IInv is inductive.
THEOREM IInvHolds == Spec => []IInv
<1>1. Init => IInv
  BY InitIInv
<1>2. IInv /\ [Next]_vars => IInv'
  <2>1. SUFFICES ASSUME IInv, [Next]_vars
                 PROVE  IInv'
    OBVIOUS
  <2>2. CASE Emit
    BY <2>1, <2>2, EmitIInv
  <2>3. ASSUME NEW b \in Blocks, Receive(b)
        PROVE  IInv'
    BY <2>1, <2>3, ReceiveIInv
  <2>4. CASE UNCHANGED vars
    BY <2>1, <2>4 DEF vars, IInv, TypeOK, PendingAhead, OutBehind, PendingFinal,
                      OutputFinal, MatchedPromoted
  <2>. QED
    BY <2>1, <2>2, <2>3, <2>4 DEF Next
<1>. QED
  BY <1>1, <1>2, PTL DEF Spec

\* Type correctness: the maps hold keys of blocks that arrived or that a
\* certificate names, and the output consists of blocks that arrived.
THEOREM TypeCorrect == Spec => []TypeOK
<1>1. IInv => TypeOK
  BY DEF IInv
<1>. QED
  BY <1>1, IInvHolds, PTL

\* Only final blocks leave the stream (OutputFinal), whatever the leaders do.
THEOREM OnlyFinalBlocks == Spec => []OutputFinal
<1>1. IInv => OutputFinal
  BY DEF IInv
<1>. QED
  BY <1>1, IInvHolds, PTL

\* No pending block falls behind the slot the stream waits for
\* (promote_finalized_candidates drops late blocks before they get there).
THEOREM NothingFallsBehind == Spec => []PendingAhead
<1>1. IInv => PendingAhead
  BY DEF IInv
<1>. QED
  BY <1>1, IInvHolds, PTL

\* A block that has arrived and is known to be final never stays behind in the
\* two maps of promote_finalized_candidates.
THEOREM MatchesArePromoted == Spec => []MatchedPromoted
<1>1. IInv => MatchedPromoted
  BY DEF IInv
<1>. QED
  BY <1>1, IInvHolds, PTL

\* The stream implements OrderedStream: pop_ready emits blocks in strictly
\* increasing slot order.
THEOREM Refinement == Spec => ImplementsOrderedStream
<1>1. Init => Stream!Init
  BY DEF Init, Stream!Init
<1>2. IInv /\ [Next]_vars => [Stream!Next]_out
  <2>1. SUFFICES ASSUME IInv, [Next]_vars
                 PROVE  [Stream!Next]_out
    OBVIOUS
  <2>2. CASE Emit
    BY <2>1, <2>2, EmitIsOrdered
  <2>3. ASSUME NEW b \in Blocks, Receive(b)
        PROVE  UNCHANGED out
    BY <2>3 DEF Receive
  <2>4. CASE UNCHANGED vars
    BY <2>4 DEF vars
  <2>. QED
    BY <2>1, <2>2, <2>3, <2>4 DEF Next
<1>. QED
  BY <1>1, <1>2, IInvHolds, PTL DEF Spec, ImplementsOrderedStream, Stream!Spec
=============================================================================
