-------------------------- MODULE BlockConfProofs --------------------------
(***************************************************************************)
(* Proofs about the RPC confirmation stream, for any chain of confirmed    *)
(* blocks and any behaviour of the RPC server.                             *)
(***************************************************************************)
EXTENDS BlockConf, SequenceTheorems, TLAPS

\* The slot emitted last is the slot of a confirmed block, and nothing emitted
\* lies beyond it.
LastInv ==
  /\ last_slot = None => out = <<>>
  /\ last_slot # None =>
       /\ \E i \in 1 .. tip : Chain[i].slot = last_slot
       /\ \A k \in 1 .. Len(out) : out[k].slot <= last_slot

\* Blocks are listed and fetched only while the stream catches up.
PhaseInv ==
  /\ phase = "next" => listed = <<>>
  /\ phase = "listing" => listed = <<>> /\ catchup = <<>>
  /\ phase = "hashing" => listed # <<>>
  /\ catchup \o listed # <<>> => last_slot # None

\* The inductive invariant: that the stream never goes back rests on where in
\* the chain it stands while it catches up.
IInv ==
  /\ TypeOK
  /\ LastInv
  /\ PhaseInv
  /\ CatchupContiguous

-----------------------------------------------------------------------------
(* The chain.                                                              *)

\* Blocks of the chain are told apart and ordered by their slots.
LEMMA ChainFacts ==
  /\ Chain \in Seq(Range(Chain))
  /\ Len(Chain) \in Nat
  /\ \A i \in 1 .. Len(Chain) : Chain[i] \in Range(Chain) /\ Chain[i].slot \in Nat
  /\ \A b \in Range(Chain) : b.slot \in Nat
  /\ \A i, j \in 1 .. Len(Chain) : Chain[i].slot < Chain[j].slot <=> i < j
  /\ \A i, j \in 1 .. Len(Chain) : Chain[i].slot = Chain[j].slot <=> i = j
<1>. DEFINE S == [slot : Nat, hash : STRING]
<1>1. Chain \in Seq(S)
  BY ChainAssumption
<1>2. /\ Len(Chain) \in Nat /\ DOMAIN Chain = 1 .. Len(Chain)
      /\ \A i \in 1 .. Len(Chain) : Chain[i] \in S
  BY <1>1, LenProperties, ElementOfSeq
<1>3. \A i \in 1 .. Len(Chain) : Chain[i] \in Range(Chain) /\ Chain[i].slot \in Nat
  BY <1>2 DEF Range
<1>4. \A b \in Range(Chain) : b.slot \in Nat
  BY <1>2 DEF Range
<1>5. Chain \in Seq(Range(Chain))
  BY <1>1, SeqOfRange
<1>6. \A i, j \in 1 .. Len(Chain) : i < j => Chain[i].slot < Chain[j].slot
  BY ChainAssumption
<1>7. /\ \A i, j \in 1 .. Len(Chain) : Chain[i].slot < Chain[j].slot <=> i < j
      /\ \A i, j \in 1 .. Len(Chain) : Chain[i].slot = Chain[j].slot <=> i = j
  BY <1>2, <1>3, <1>6
<1>. QED
  BY <1>2, <1>3, <1>4, <1>5, <1>7

\* Fetching a hash moves the first listed block to the end of what is caught
\* up on.
LEMMA MoveHead ==
  ASSUME NEW S, NEW q \in Seq(S), NEW r \in Seq(S), r # <<>>
  PROVE  Append(q, Head(r)) \o Tail(r) = q \o r
<1>1. Head(r) \in S /\ Tail(r) \in Seq(S) /\ <<Head(r)>> \in Seq(S)
  BY HeadTailProperties
<1>2. Append(q, Head(r)) = q \o <<Head(r)>>
  BY <1>1, AppendIsConcat
<1>3. r = <<Head(r)>> \o Tail(r)
  BY <1>1
<1>. QED
  BY <1>1, <1>2, <1>3, ConcatAssociative

\* Of the known blocks of the first t, those from a place on are the j-th and its
\* successors.
Since(t, known, from, j) ==
  /\ t \in 0 .. Len(Chain) /\ known \in 0 .. t /\ from \in 1 .. (known + 1) /\ j \in 1 .. t
  /\ \A i \in 1 .. known : i >= from <=> Chain[i].slot >= Chain[j].slot

\* These blocks lie right behind the j-th.
Behind(new, t, j) ==
  /\ new \in Seq(Range(Chain))
  /\ j + Len(new) <= t
  /\ new = SubSeq(Chain, j + 1, j + Len(new))

\* What get_blocks lists behind its first block lies right behind the block
\* emitted last, or there is nothing there.
LEMMA ListedContiguous ==
  ASSUME NEW t, NEW known, NEW from, NEW j, Since(t, known, from, j)
  PROVE  Behind(CatchupSlots(SubSeq(Chain, from, known)), t, j)
<1>. DEFINE blocks == SubSeq(Chain, from, known)
            new == CatchupSlots(blocks)
<1>. /\ t \in 0 .. Len(Chain) /\ known \in 0 .. t
     /\ from \in 1 .. (known + 1) /\ j \in 1 .. t
  BY DEF Since
<1>. SUFFICES Behind(new, t, j)
  OBVIOUS
<1>. HIDE DEF new
<1>1. /\ Len(Chain) \in Nat /\ Chain \in Seq(Range(Chain))
      /\ \A i \in 1 .. Len(Chain) : Chain[i] \in Range(Chain) /\ Chain[i].slot \in Nat
      /\ \A i \in 1 .. Len(Chain) : Chain[i].slot < Chain[j].slot <=> i < j
  BY ChainFacts
<1>2. CASE known < from
  <2>1. blocks = <<>>
    BY <1>2, SubSeqEmpty
  <2>2. new = <<>>
    BY <2>1 DEF new, CatchupSlots
  <2>3. SubSeq(Chain, j + 1, j + Len(new)) = <<>>
    BY <2>2, SubSeqEmpty
  <2>. QED
    BY <2>2, <2>3 DEF Behind
<1>3. CASE from <= known
  <2>1. known \in 1 .. Len(Chain) /\ from \in 1 .. Len(Chain)
    BY <1>1, <1>3
  <2>2. ~(from < j)
    BY <1>1, <1>3, <2>1 DEF Since
  <2>3. ~(j < from)
    BY <1>1, <1>3, <2>1 DEF Since
  <2>4. from = j
    BY <2>1, <2>2, <2>3
  <2>5. /\ blocks \in Seq(Range(Chain)) /\ Len(blocks) = known - from + 1
    BY <1>1, <1>3, <2>1, SubSeqProperties
  <2>6. blocks # <<>>
    <3>. HIDE DEF blocks
    <3>. QED
      BY <1>3, <2>1, <2>5
  <2>7. new = SubSeq(Chain, from + 1, known)
    BY <1>1, <1>3, <2>1, <2>6, HeadTailOfSubSeq DEF new, CatchupSlots
  <2>8. new \in Seq(Range(Chain)) /\ Len(new) = known - from
    BY <2>5, <2>6 DEF new, CatchupSlots
  <2>. QED
    BY <1>3, <2>1, <2>4, <2>7, <2>8 DEF Behind
<1>. QED
  BY <1>2, <1>3

-----------------------------------------------------------------------------
(* Emitting a block.                                                       *)

\* An update that follows the slot emitted last follows the whole output.
LEMMA EmitInv ==
  ASSUME IInv, NEW i \in 1 .. tip, Emit(Chain[i]), UNCHANGED tip,
         last_slot # None => last_slot < Chain[i].slot
  PROVE  LastInv' /\ out' \in Seq(Range(Chain)) /\ last_slot' = Chain[i].slot
         /\ last_slot' \in Nat /\ Stream!Next
<1>. DEFINE u == Chain[i]
<1>1. i \in 1 .. Len(Chain) /\ u \in Range(Chain) /\ u.slot \in Nat
      /\ \A b \in Range(Chain) : b.slot \in Nat
  BY ChainFacts DEF IInv, TypeOK
<1>2. out' = Append(out, u) /\ last_slot' = u.slot
  BY DEF Emit
<1>3. out \in Seq(Range(Chain)) /\ last_slot \in Nat \cup {None}
  BY DEF IInv, TypeOK
<1>4. \A k \in 1 .. Len(out) : out[k].slot < u.slot
  <2>1. CASE last_slot = None
    BY <2>1 DEF IInv, LastInv
  <2>2. CASE last_slot # None
    <3>1. TAKE k \in 1 .. Len(out)
    <3>2. out[k].slot \in Nat
      BY <1>1, <1>3
    <3>. QED
      BY <1>1, <1>3, <2>2, <3>2 DEF IInv, LastInv
  <2>. QED
    BY <2>1, <2>2
<1>5. /\ out' \in Seq(Range(Chain))
      /\ Len(out') = Len(out) + 1 /\ Len(out) \in Nat
      /\ \A k \in 1 .. Len(out) : out'[k] = out[k]
      /\ out'[Len(out) + 1] = u
  BY <1>1, <1>2, <1>3, AppendProperties, LenProperties
<1>6. last_slot' # None
  BY <1>1, <1>2, NoneAssumption
<1>7. \A k \in 1 .. Len(out) : out[k].slot \in Nat
  BY <1>1, <1>3
<1>. HIDE DEF u
<1>8. \A k \in 1 .. Len(out') : out'[k].slot <= u.slot
  BY <1>1, <1>4, <1>5, <1>7
<1>9. LastInv'
  BY <1>2, <1>6, <1>8 DEF LastInv, u
<1>10. Stream!Next
  BY <1>1, <1>2, <1>4 DEF Stream!Next, Stream!Emit, Stream!Follows
<1>. QED
  BY <1>1, <1>2, <1>5, <1>9, <1>10 DEF u

\* A caught-up block is the one behind the block emitted last.
LEMMA NextCatchupInv ==
  ASSUME IInv, NextCatchup
  PROVE  IInv' /\ Stream!Next
<1>1. /\ phase = "next" /\ catchup # <<>>
      /\ Emit(Head(catchup)) /\ catchup' = Tail(catchup)
      /\ UNCHANGED <<tip, ws, listed, phase>>
  BY DEF NextCatchup
<1>2. /\ listed = <<>> /\ catchup \in Seq(Range(Chain))
      /\ catchup \o listed = catchup
  BY <1>1, ConcatEmptySeq DEF IInv, PhaseInv, TypeOK
<1>3. last_slot # None
  BY <1>1, <1>2 DEF IInv, PhaseInv
<1>4. PICK i \in 1 .. tip : Chain[i].slot = last_slot
  BY <1>3 DEF IInv, LastInv
<1>5. tip \in 0 .. Len(Chain) /\ Len(Chain) \in Nat /\ i \in 1 .. Len(Chain)
  BY ChainFacts DEF IInv, TypeOK
<1>. DEFINE n == Len(catchup)
<1>6. i + n <= tip /\ catchup = SubSeq(Chain, i + 1, i + n)
  BY <1>1, <1>2, <1>4, <1>5 DEF IInv, CatchupContiguous
<1>7. n \in Nat \ {0}
  BY <1>1, <1>2, EmptySeq
<1>8. i + 1 \in 1 .. Len(Chain) /\ i + n \in (i + 1) .. Len(Chain)
  BY <1>5, <1>6, <1>7
<1>9. Chain \in Seq(Range(Chain))
  BY ChainFacts
<1>10. Head(catchup) = Chain[i + 1] /\ Tail(catchup) = SubSeq(Chain, i + 2, i + n)
  <2>1. /\ Head(SubSeq(Chain, i + 1, i + n)) = Chain[i + 1]
        /\ Tail(SubSeq(Chain, i + 1, i + n)) = SubSeq(Chain, (i + 1) + 1, i + n)
    BY <1>8, <1>9, HeadTailOfSubSeq
  <2>2. (i + 1) + 1 = i + 2
    BY <1>5
  <2>. QED
    BY <1>6, <2>1, <2>2
<1>11. i + 1 \in 1 .. tip
  BY <1>5, <1>6, <1>7
<1>12. last_slot < Chain[i + 1].slot
  BY <1>4, <1>5, <1>8, ChainFacts
<1>13. /\ LastInv' /\ out' \in Seq(Range(Chain))
       /\ last_slot' = Chain[i + 1].slot
       /\ last_slot' \in Nat /\ Stream!Next
  BY <1>1, <1>10, <1>11, <1>12, EmitInv
<1>14. /\ catchup' \in Seq(Range(Chain)) /\ Len(catchup') = n - 1
       /\ catchup' \o listed' = catchup'
  BY <1>1, <1>2, HeadTailProperties, ConcatEmptySeq
<1>15. TypeOK'
  BY <1>1, <1>13, <1>14 DEF IInv, TypeOK
<1>16. PhaseInv'
  BY <1>1, <1>13, NoneAssumption DEF IInv, PhaseInv
<1>17. CatchupContiguous'
  <2>1. \A k \in 1 .. Len(Chain) : Chain[k].slot = last_slot' => k = i + 1
    BY <1>8, <1>13, ChainFacts
  <2>2. (i + 1) + (n - 1) = i + n /\ (i + 1) + 1 = i + 2
    BY <1>5, <1>7
  <2>3. /\ (i + 1) + Len(catchup') <= tip
        /\ catchup' = SubSeq(Chain, (i + 1) + 1, (i + 1) + Len(catchup'))
    BY <1>1, <1>6, <1>10, <1>14, <2>2
  <2>. QED
    BY <1>1, <1>14, <2>1, <2>3 DEF CatchupContiguous
<1>. QED
  BY <1>13, <1>15, <1>16, <1>17 DEF IInv

\* A notification is passed over unless it lies beyond what was emitted.
LEMMA NextNotifInv ==
  ASSUME IInv, NextNotif
  PROVE  IInv' /\ (Stream!Next \/ UNCHANGED out)
<1>1. /\ phase = "next" /\ catchup = <<>> /\ ws # None /\ ws < tip
      /\ ws' = ws + 1
      /\ UNCHANGED <<tip, listed, catchup, phase>>
  BY DEF NextNotif, Polling
<1>2. /\ listed = <<>> /\ catchup \o listed = <<>> /\ catchup' \o listed' = <<>>
  BY <1>1, ConcatEmptySeq DEF IInv, PhaseInv, TypeOK
<1>3. ws \in Nat /\ ws + 1 \in 1 .. tip /\ tip \in 0 .. Len(Chain)
  BY <1>1, ChainFacts DEF IInv, TypeOK
<1>4. PhaseInv' /\ CatchupContiguous'
  BY <1>1, <1>2 DEF IInv, PhaseInv, CatchupContiguous
<1>5. CASE Newer(Chain[ws + 1])
  <2>1. Emit(Chain[ws + 1])
    BY <1>5 DEF NextNotif
  <2>2. last_slot # None => last_slot < Chain[ws + 1].slot
    BY <1>5 DEF Newer
  <2>3. /\ LastInv' /\ out' \in Seq(Range(Chain))
        /\ last_slot' \in Nat /\ Stream!Next
    BY <1>1, <1>3, <2>1, <2>2, EmitInv
  <2>4. TypeOK'
    BY <1>1, <1>3, <2>3 DEF IInv, TypeOK
  <2>. QED
    BY <1>4, <2>3, <2>4 DEF IInv
<1>6. CASE ~Newer(Chain[ws + 1])
  <2>1. UNCHANGED <<out, last_slot>>
    BY <1>6 DEF NextNotif
  <2>2. TypeOK' /\ LastInv'
    BY <1>1, <1>3, <2>1 DEF IInv, TypeOK, LastInv
  <2>. QED
    BY <1>4, <2>1, <2>2 DEF IInv
<1>. QED
  BY <1>5, <1>6

-----------------------------------------------------------------------------
(* Catching up.                                                            *)

\* get_blocks lists what lies behind the block emitted last.
LEMMA ListBlocksInv ==
  ASSUME IInv, ListBlocks
  PROVE  IInv'
<1>1. /\ phase = "listing" /\ catchup' = <<>>
      /\ phase' = IF listed' = <<>> THEN "next" ELSE "hashing"
      /\ UNCHANGED <<tip, ws, last_slot, out>>
  BY DEF ListBlocks
<1>2. last_slot # None /\ ws = None
  BY <1>1 DEF IInv, TypeOK
<1>3. PICK j \in 1 .. tip : Chain[j].slot = last_slot
  BY <1>2 DEF IInv, LastInv
<1>4. tip \in 0 .. Len(Chain)
  BY DEF IInv, TypeOK
<1>5. PICK known \in 0 .. tip : \E from \in 1 .. (known + 1) :
        /\ \A i \in 1 .. known : i >= from <=> Chain[i].slot >= last_slot
        /\ listed' = CatchupSlots(SubSeq(Chain, from, known))
  BY DEF ListBlocks
<1>6. PICK from \in 1 .. (known + 1) :
        /\ \A i \in 1 .. known : i >= from <=> Chain[i].slot >= last_slot
        /\ listed' = CatchupSlots(SubSeq(Chain, from, known))
  BY <1>5
<1>7. /\ listed' \in Seq(Range(Chain))
      /\ j + Len(listed') <= tip
      /\ listed' = SubSeq(Chain, j + 1, j + Len(listed'))
  <2>1. Since(tip, known, from, j)
    BY <1>3, <1>4, <1>6 DEF Since
  <2>2. Behind(CatchupSlots(SubSeq(Chain, from, known)), tip, j)
    BY <2>1, ListedContiguous
  <2>. QED
    BY <1>6, <2>2 DEF Behind
<1>8. catchup' \o listed' = listed' /\ catchup' \in Seq(Range(Chain))
  BY <1>1, <1>7, ConcatEmptySeq
<1>9. \A k \in 1 .. Len(Chain) : Chain[k].slot = last_slot => k = j
  BY <1>3, <1>4, ChainFacts
<1>10. CatchupContiguous'
  BY <1>1, <1>7, <1>8, <1>9 DEF CatchupContiguous
<1>11. TypeOK'
  BY <1>1, <1>2, <1>7, <1>8 DEF IInv, TypeOK
<1>12. LastInv' /\ PhaseInv'
  BY <1>1, <1>2 DEF IInv, LastInv, PhaseInv
<1>. QED
  BY <1>10, <1>11, <1>12 DEF IInv

\* get_blockhash does not change what lies ahead.
LEMMA FetchHashInv ==
  ASSUME IInv, FetchHash
  PROVE  IInv'
<1>1. /\ phase = "hashing" /\ catchup' = Append(catchup, Head(listed))
      /\ listed' = Tail(listed)
      /\ phase' = IF Tail(listed) = <<>> THEN "next" ELSE "hashing"
      /\ UNCHANGED <<tip, ws, last_slot, out>>
  BY DEF FetchHash
<1>2. /\ listed # <<>> /\ listed \in Seq(Range(Chain))
      /\ catchup \in Seq(Range(Chain))
  BY <1>1 DEF IInv, TypeOK, PhaseInv
<1>3. catchup' \o listed' = catchup \o listed
  BY <1>1, <1>2, MoveHead
<1>4. catchup' \in Seq(Range(Chain)) /\ listed' \in Seq(Range(Chain))
  BY <1>1, <1>2, HeadTailProperties, AppendProperties
<1>5. TypeOK'
  BY <1>1, <1>4 DEF IInv, TypeOK
<1>6. CatchupContiguous'
  BY <1>1, <1>3 DEF IInv, CatchupContiguous
<1>7. LastInv' /\ PhaseInv'
  BY <1>1, <1>3 DEF IInv, LastInv, PhaseInv
<1>. QED
  BY <1>5, <1>6, <1>7 DEF IInv

\* The network confirms a block: what lies ahead is confirmed still.
LEMMA ConfirmInv ==
  ASSUME IInv, Confirm
  PROVE  IInv'
<1>1. /\ tip < Len(Chain) /\ tip' = tip + 1
      /\ UNCHANGED <<ws, listed, catchup, last_slot, phase, out>>
  BY DEF Confirm
<1>2. tip \in Nat /\ tip <= Len(Chain) /\ Len(Chain) \in Nat
  BY ChainFacts DEF IInv, TypeOK
<1>3. TypeOK'
  BY <1>1, <1>2 DEF IInv, TypeOK
<1>4. LastInv' /\ PhaseInv'
  BY <1>1, <1>2 DEF IInv, LastInv, PhaseInv
<1>5. CatchupContiguous'
  <2>1. \A n \in Int : n <= tip => n <= tip'
    BY <1>1, <1>2
  <2>2. catchup \in Seq(Range(Chain)) /\ listed \in Seq(Range(Chain))
    BY DEF IInv, TypeOK
  <2>3. Len(catchup \o listed) \in Nat
    BY <2>2, ConcatProperties, LenProperties
  <2>. QED
    BY <1>1, <2>1, <2>3 DEF IInv, CatchupContiguous
<1>. QED
  BY <1>3, <1>4, <1>5 DEF IInv

\* The steps that change no more than the websocket and the phase.
LEMMA OtherInv ==
  ASSUME IInv, Subscribe \/ WsFails \/ RpcFails \/ Drop
  PROVE  IInv' /\ UNCHANGED out
<1>1. UNCHANGED <<tip, listed, catchup, last_slot, out>>
  BY DEF Subscribe, WsFails, RpcFails, Drop
<1>2. LastInv' /\ CatchupContiguous'
  BY <1>1 DEF IInv, LastInv, CatchupContiguous
<1>3. CASE Subscribe
  BY <1>1, <1>2, <1>3 DEF IInv, TypeOK, PhaseInv, Subscribe, Polling
<1>4. CASE WsFails
  BY <1>1, <1>2, <1>4 DEF IInv, TypeOK, PhaseInv, WsFails, Polling
<1>5. CASE RpcFails
  BY <1>1, <1>2, <1>5 DEF IInv, TypeOK, PhaseInv, RpcFails
<1>6. CASE Drop
  BY <1>1, <1>2, <1>6 DEF IInv, TypeOK, PhaseInv, Drop
<1>. QED
  BY <1>1, <1>3, <1>4, <1>5, <1>6

-----------------------------------------------------------------------------
\* IInv is inductive.
THEOREM IInvHolds == Spec => []IInv
<1>1. Init => IInv
  <2>. SUFFICES ASSUME Init PROVE IInv
    OBVIOUS
  <2>1. TypeOK
    BY ChainFacts, EmptySeq DEF Init, TypeOK
  <2>2. catchup \o listed = <<>>
    BY EmptySeq, ConcatEmptySeq DEF Init
  <2>. QED
    BY <2>1, <2>2 DEF Init, IInv, LastInv, PhaseInv, CatchupContiguous
<1>2. IInv /\ [Next]_vars => IInv'
  <2>1. SUFFICES ASSUME IInv, [Next]_vars
                 PROVE  IInv'
    OBVIOUS
  <2>2. CASE Next
    BY <2>1, <2>2, ConfirmInv, NextCatchupInv, NextNotifInv, ListBlocksInv,
       FetchHashInv, OtherInv DEF Next
  <2>3. CASE UNCHANGED vars
    BY <2>1, <2>3 DEF vars, IInv, TypeOK, LastInv, PhaseInv, CatchupContiguous
  <2>. QED
    BY <2>1, <2>2, <2>3
<1>. QED
  BY <1>1, <1>2, PTL DEF Spec

\* Type correctness: blocks are listed only for a stream that has emitted one.
THEOREM TypeCorrect == Spec => []TypeOK
<1>1. IInv => TypeOK
  BY DEF IInv
<1>. QED
  BY <1>1, IInvHolds, PTL

\* mark_for_resubscribe neither repeats nor skips a block (CatchupContiguous),
\* for every chain and however far the block list lags behind.
THEOREM CatchupIsContiguous == Spec => []CatchupContiguous
<1>1. IInv => CatchupContiguous
  BY DEF IInv
<1>. QED
  BY <1>1, IInvHolds, PTL

\* The stream implements OrderedStream, across reconnects, lagging block lists
\* and repeated notifications.
THEOREM Refinement == Spec => ImplementsOrderedStream
<1>1. Init => Stream!Init
  BY DEF Init, Stream!Init
<1>2. IInv /\ [Next]_vars => [Stream!Next]_out
  <2>1. SUFFICES ASSUME IInv, [Next]_vars
                 PROVE  [Stream!Next]_out
    OBVIOUS
  <2>2. CASE NextCatchup
    BY <2>1, <2>2, NextCatchupInv
  <2>3. CASE NextNotif
    BY <2>1, <2>3, NextNotifInv
  <2>4. CASE Confirm \/ ListBlocks \/ FetchHash
    BY <2>4 DEF Confirm, ListBlocks, FetchHash
  <2>5. CASE Subscribe \/ WsFails \/ RpcFails \/ Drop
    BY <2>1, <2>5, OtherInv
  <2>6. CASE UNCHANGED vars
    BY <2>6 DEF vars
  <2>. QED
    BY <2>1, <2>2, <2>3, <2>4, <2>5, <2>6 DEF Next
<1>. QED
  BY <1>1, <1>2, IInvHolds, PTL DEF Spec, ImplementsOrderedStream, Stream!Spec
=============================================================================
