--------------------------- MODULE SlotMetaProofs ---------------------------
(***************************************************************************)
(* Proofs about slot assembly, for any slots, block shapes, cache layout   *)
(* and channel capacities.                                                 *)
(***************************************************************************)
EXTENDS SlotMeta, FiniteSetTheorems, TLAPS

\* What slot s is known to be from its metadata m: the shreds filed are shreds
\* of the block, a batch is recorded as finished only with enough of them, and
\* the number of batches required is unknown or that of the block.
GoodMeta(s, m) ==
  /\ m \in Metadata
  /\ m.data \subseteq DataIndexes(s)
  /\ m.code \subseteq DataIndexes(s)
  /\ m.completed \subseteq FecSets(NumBatches[s])
  /\ m.required \in {NumBatches[s], None}
  /\ \A f \in m.completed : BatchFull(m, f)

MetaInv == \A s \in DOMAIN meta : GoodMeta(s, meta[s])

\* The inductive invariant: that a delivered slot can be recovered rests on
\* what the metadata it was made from is known to be.
IInv ==
  /\ TypeOK
  /\ MetaInv
  /\ DeliveredRecoverable

\* The number of batches is known once the last shred has been filed.
LastLearnt(s, m) ==
  FecSize * NumBatches[s] - 1 \in m.data => m.required # None

\* Every finished batch has gone to the shred store.
StoreInv ==
  \A s \in DOMAIN meta :
    /\ LastLearnt(s, meta[s])
    /\ \A f \in meta[s].completed :
         \E b \in store_tx : b.slot = s /\ b.fec = f /\ Recoverable(b, f)

\* Every x in the queue has a y behind it.
Followed(q, x, y) ==
  \A i \in 1 .. Len(q) :
    q[i] = x => \E j \in 1 .. Len(q) : i < j /\ q[j] = y

\* What the messages under way to the monitor say of a slot's present life:
\* a slot that is not complete was inserted after its last completion, one
\* that is was completed after its last insertion; a timer that is in the map
\* and has fired has its expiry under way, and a complete slot with a timer
\* has the message that removes it under way.
QueueInv ==
  /\ \A s \in timers \ armed : Timeout(s) \in Elems(timer_q)
  /\ \A s \in DOMAIN meta :
       IF IsComplete(meta[s])
       THEN /\ Followed(timer_q, Insertion(s), Completion(s))
            /\ s \in timers => Completion(s) \in Elems(timer_q)
       ELSE Followed(timer_q, Completion(s), Insertion(s))

\* Every message for s in the queue is a cancellation or has one behind it.
Cancelled(q, s) ==
  \A i \in 1 .. Len(q) :
    q[i].slot = s => \E j \in 1 .. Len(q) : i <= j /\ q[j] = CancelRepair(s)

\* Once the monitor has seen the completion of a slot for which repair was
\* asked, the cancellation is queued behind the request or about to be.
CancelInv ==
  \A s \in DOMAIN meta :
    /\ IsComplete(meta[s])
    /\ meta[s].timed_out
    /\ Completion(s) \notin Elems(timer_q)
    => /\ monitor # None /\ monitor.slot = s => monitor = CancelRepair(s)
       /\ monitor = CancelRepair(s) \/ Cancelled(repair_tx, s)

\* The inductive invariant of the monitor, on top of IInv.
MonitorInv ==
  /\ StoreInv
  /\ QueueInv
  /\ NeverForgotten
  /\ CancelInv

-----------------------------------------------------------------------------
(* Arithmetic of FEC set indexes.                                          *)

\* Division of a shred index by the size of an FEC set.
LEMMA DivMod ==
  ASSUME NEW a \in Nat, NEW d \in Nat \ {0}
  PROVE  /\ a \div d \in Nat
         /\ a % d \in 0 .. (d - 1)
         /\ a = d * (a \div d) + (a % d)
  OBVIOUS

\* A product is divided by its factor without remainder.
LEMMA DivProduct ==
  ASSUME NEW n \in Nat, NEW d \in Nat \ {0}
  PROVE  (d * n) \div d = n
  OBVIOUS

\* Multiplication by the size of an FEC set preserves strict order.
LEMMA MulOrder ==
  ASSUME NEW n \in Nat, NEW d \in Nat \ {0}, NEW k \in Nat, d * k < d * n
  PROVE  k < n
  OBVIOUS

\* Multiplication by the size of an FEC set is injective.
LEMMA MulInjective ==
  ASSUME NEW j \in Nat, NEW k \in Nat, NEW d \in Nat \ {0}, d * j = d * k
  PROVE  j = k
  OBVIOUS

\* The FEC set index of a shred is the first index of one of its block's sets.
LEMMA FecInFecSets ==
  ASSUME NEW n \in Nat, NEW i \in 0 .. (FecSize * n - 1)
  PROVE  Fec(i) \in FecSets(n) /\ Fec(i) \in Nat
<1>. DEFINE k == i \div FecSize
<1>1. FecSize \in Nat \ {0} /\ i \in Nat /\ i < FecSize * n
  BY FecSizeAssumption
<1>2. k \in Nat /\ i % FecSize \in 0 .. (FecSize - 1)
      /\ i = FecSize * k + (i % FecSize)
  BY <1>1, DivMod
<1>3. FecSize * k \in Nat
  BY <1>1, <1>2
<1>4. Fec(i) = FecSize * k
  BY <1>1, <1>2, <1>3 DEF Fec
<1>5. FecSize * k < FecSize * n
  BY <1>1, <1>2, <1>3
<1>6. k \in 0 .. (n - 1)
  BY <1>1, <1>2, <1>5, MulOrder
<1>. QED
  BY <1>3, <1>4, <1>6 DEF FecSets

\* From the last data shred the number of batches is computed correctly.
LEMMA LastTellsRequired ==
  ASSUME NEW n \in Nat \ {0}
  PROVE  (Fec(FecSize * n - 1) + FecSize) \div FecSize = n
<1>. DEFINE i == FecSize * n - 1
            k == i \div FecSize
<1>1. FecSize \in Nat \ {0} /\ FecSize * n \in Nat \ {0}
  BY FecSizeAssumption
<1>2. i \in Nat
  BY <1>1
<1>3. k \in Nat /\ i % FecSize \in 0 .. (FecSize - 1)
      /\ i = FecSize * k + (i % FecSize)
  BY <1>1, <1>2, DivMod
<1>4. FecSize * k \in Nat /\ FecSize * (k + 1) = FecSize * k + FecSize
  BY <1>1, <1>3
<1>5. Fec(i) = FecSize * k
  BY <1>1, <1>2, <1>3, <1>4 DEF Fec
<1>6. FecSize * k < FecSize * n
  BY <1>1, <1>2, <1>3, <1>4
<1>7. k < n
  BY <1>1, <1>3, <1>6, MulOrder
<1>8. ~(FecSize * (k + 1) < FecSize * n)
  BY <1>1, <1>2, <1>3, <1>4
<1>9. ~(k + 1 < n)
  BY <1>1, <1>3, <1>8
<1>10. k + 1 = n
  BY <1>3, <1>7, <1>9
<1>. QED
  BY <1>1, <1>4, <1>5, <1>10, DivProduct

\* A block of n batches has n FEC sets.
LEMMA CountFecSets ==
  ASSUME NEW n \in Nat
  PROVE  IsFiniteSet(FecSets(n)) /\ Cardinality(FecSets(n)) = n
<1>. DEFINE f == [k \in 0 .. (n - 1) |-> FecSize * k]
<1>1. f \in Bijection(0 .. (n - 1), FecSets(n))
  <2>1. \A j, k \in 0 .. (n - 1) : f[j] = f[k] => j = k
    BY FecSizeAssumption, MulInjective
  <2>2. f \in [0 .. (n - 1) -> FecSets(n)]
    BY DEF FecSets
  <2>3. \A x \in FecSets(n) : \E k \in 0 .. (n - 1) : f[k] = x
    BY DEF FecSets
  <2>. QED
    BY <2>1, <2>2, <2>3 DEF Bijection, Injection, Surjection, IsInjective
<1>2. IsFiniteSet(0 .. (n - 1)) /\ Cardinality(0 .. (n - 1)) = n
  BY FS_Interval
<1>. QED
  BY <1>1, <1>2, FS_Bijection DEF ExistsBijection

-----------------------------------------------------------------------------
(* Filing a shred.                                                         *)

\* A shred names a slot and an index of that slot's block.
LEMMA ShredFields ==
  ASSUME NEW sh \in Shreds
  PROVE  /\ sh.slot \in Slots
         /\ sh.kind \in {"data", "code"}
         /\ sh.index \in DataIndexes(sh.slot)
  BY DEF Shreds

\* The indexes of a block are finitely many numbers.
LEMMA IndexesFinite ==
  ASSUME NEW s \in Slots
  PROVE  /\ IsFiniteSet(DataIndexes(s))
         /\ DataIndexes(s) \subseteq Nat
         /\ NumBatches[s] \in Nat \ {0}
<1>1. NumBatches[s] \in Nat \ {0} /\ FecSize \in Nat \ {0}
  BY NumBatchesAssumption, FecSizeAssumption
<1>2. FecSize * NumBatches[s] - 1 \in Int
  BY <1>1
<1>3. IsFiniteSet(DataIndexes(s))
  <2>. DEFINE hi == FecSize * NumBatches[s] - 1
  <2>1. DataIndexes(s) = 0 .. hi
    BY DEF DataIndexes
  <2>2. hi \in Int
    BY <1>2
  <2>. HIDE DEF hi
  <2>. QED
    BY <2>1, <2>2, FS_Interval
<1>4. DataIndexes(s) \subseteq Nat
  BY DEF DataIndexes
<1>. QED
  BY <1>1, <1>3, <1>4

\* A finished batch stays finished when shreds are added.
LEMMA BatchGrows ==
  ASSUME NEW s \in Slots, NEW m, NEW n, NEW f,
         m.data \subseteq n.data, m.code \subseteq n.code,
         n.data \subseteq DataIndexes(s), n.code \subseteq DataIndexes(s),
         BatchFull(m, f)
  PROVE  BatchFull(n, f)
<1>. DEFINE A == InSet(m.data, f)
            B == InSet(m.code, f)
            C == InSet(n.data, f)
            D == InSet(n.code, f)
<1>1. A \in SUBSET C /\ B \in SUBSET D
  BY DEF InSet
<1>2. C \in SUBSET DataIndexes(s) /\ D \in SUBSET DataIndexes(s)
  BY DEF InSet
<1>3. IsFiniteSet(C) /\ IsFiniteSet(D)
  BY <1>2, IndexesFinite, FS_Subset
<1>4. Cardinality(A) <= Cardinality(C) /\ Cardinality(B) <= Cardinality(D)
      /\ IsFiniteSet(A) /\ IsFiniteSet(B)
  BY <1>1, <1>3, FS_Subset
<1>5. /\ Cardinality(A) \in Nat /\ Cardinality(B) \in Nat
      /\ Cardinality(C) \in Nat /\ Cardinality(D) \in Nat
  BY <1>3, <1>4, FS_CardinalityType
<1>6. Cardinality(A) + Cardinality(B) >= FecSize
  BY DEF BatchFull, BatchCount
<1>7. Cardinality(C) + Cardinality(D) >= FecSize
  BY <1>4, <1>5, <1>6, FecSizeAssumption
<1>. QED
  BY <1>7 DEF BatchFull, BatchCount

\* Metadata that is created by an access knows nothing, and nothing wrong.
LEMMA FreshGood ==
  ASSUME NEW s \in Slots
  PROVE  GoodMeta(s, Fresh)
  BY DEF GoodMeta, Fresh, Metadata

\* Learning the number of batches from the last shred is sound.
LEMMA LearnGood ==
  ASSUME NEW sh \in Shreds, NEW m, GoodMeta(sh.slot, m)
  PROVE  /\ GoodMeta(sh.slot, LearnRequired(m, sh))
         /\ LearnRequired(m, sh).data = m.data
         /\ LearnRequired(m, sh).code = m.code
         /\ LearnRequired(m, sh).completed = m.completed
<1>. DEFINE s == sh.slot
            m1 == LearnRequired(m, sh)
<1>1. s \in Slots /\ NumBatches[s] \in Nat \ {0}
  BY ShredFields, IndexesFinite
<1>2. CASE ~IsLast(sh)
  BY <1>2 DEF LearnRequired
<1>3. CASE IsLast(sh)
  <2>1. m1 = [m EXCEPT !.required = NumBatches[s]]
    BY <1>1, <1>3, LastTellsRequired DEF LearnRequired, IsLast
  <2>2. m \in Metadata
    BY DEF GoodMeta
  <2>3. /\ m1 \in Metadata
        /\ m1.data = m.data /\ m1.code = m.code
        /\ m1.completed = m.completed /\ m1.required = NumBatches[s]
    BY <1>1, <2>1, <2>2 DEF Metadata
  <2>4. \A f \in m1.completed : BatchFull(m1, f)
    BY <2>3 DEF GoodMeta, BatchFull, BatchCount
  <2>. QED
    BY <2>3, <2>4 DEF GoodMeta
<1>. QED
  BY <1>2, <1>3

\* Inserting a shred and closing its batch keeps the metadata good.
LEMMA InsertGood ==
  ASSUME NEW sh \in Shreds, NEW m, GoodMeta(sh.slot, m)
  PROVE  GoodMeta(sh.slot, CloseBatch(Insert(m, sh), Fec(sh.index)))
<1>. DEFINE s == sh.slot
            n == Insert(m, sh)
            f == Fec(sh.index)
<1>1. /\ s \in Slots /\ sh.index \in DataIndexes(s) /\ sh.index \in Nat
      /\ sh.kind \in {"data", "code"}
      /\ NumBatches[s] \in Nat
  BY ShredFields, IndexesFinite
<1>2. m \in Metadata
  BY DEF GoodMeta
<1>3. /\ n \in Metadata
      /\ n.data \in {m.data, m.data \cup {sh.index}}
      /\ n.code \in {m.code, m.code \cup {sh.index}}
      /\ n.completed = m.completed
      /\ n.required = m.required
  BY <1>1, <1>2 DEF Insert, Metadata
<1>4. /\ m.data \subseteq n.data /\ n.data \subseteq DataIndexes(s)
      /\ m.code \subseteq n.code /\ n.code \subseteq DataIndexes(s)
  BY <1>1, <1>3 DEF GoodMeta
<1>5. \A g \in m.completed : BatchFull(n, g)
  BY <1>1, <1>4, BatchGrows DEF GoodMeta
<1>6. GoodMeta(s, n)
  BY <1>3, <1>4, <1>5 DEF GoodMeta
<1>7. CASE ~BatchFull(n, f)
  BY <1>6, <1>7 DEF CloseBatch
<1>8. CASE BatchFull(n, f)
  <2>. DEFINE c == [n EXCEPT !.completed = @ \cup {f}]
  <2>1. f \in FecSets(NumBatches[s]) /\ f \in Nat
    BY <1>1, FecInFecSets DEF DataIndexes
  <2>2. /\ c \in Metadata
        /\ c.data = n.data /\ c.code = n.code /\ c.required = n.required
        /\ c.completed = n.completed \cup {f}
    BY <1>3, <2>1 DEF Metadata
  <2>3. \A g \in c.completed : BatchFull(c, g)
    BY <1>3, <1>5, <1>8, <2>2 DEF BatchFull, BatchCount
  <2>4. GoodMeta(s, c)
    BY <1>6, <2>1, <2>2, <2>3 DEF GoodMeta
  <2>. QED
    BY <1>8, <2>4 DEF CloseBatch
<1>. QED
  BY <1>7, <1>8

BatchType ==
  [slot : Slots, fec : Nat, data : SUBSET Nat, code : SUBSET Nat]

\* store_shred keeps the metadata good, hands well-formed batches to the store
\* and reports Complete only for a slot that is.
LEMMA StoreShredGood ==
  ASSUME NEW sh \in Shreds, NEW m, GoodMeta(sh.slot, m)
  PROVE  LET r == StoreShred(m, sh)
         IN /\ GoodMeta(sh.slot, r.meta)
            /\ r.outcome = "Complete" => IsComplete(r.meta)
            /\ r.batches \subseteq BatchType
<1>. DEFINE s == sh.slot
            f == Fec(sh.index)
            m1 == LearnRequired(m, sh)
            m2 == CloseBatch(Insert(m1, sh), f)
            r == StoreShred(m, sh)
            duplicate == sh.index \in (IF sh.kind = "data" THEN m.data ELSE m.code)
<1>1. GoodMeta(s, m1)
  BY LearnGood
<1>2. GoodMeta(s, m2)
  BY <1>1, InsertGood
<1>3. s \in Slots /\ f \in Nat
  BY ShredFields, IndexesFinite, FecInFecSets DEF DataIndexes
<1>4. Batch(m2, s, f) \in BatchType
  BY <1>2, <1>3 DEF Batch, BatchType, GoodMeta, Metadata, InSet
<1>. HIDE DEF m1, m2, f
<1>5. CASE IsComplete(m)
  BY <1>5 DEF StoreShred
<1>6. CASE ~IsComplete(m) /\ f \in m.completed
  BY <1>1, <1>6 DEF StoreShred, m1, f
<1>7. CASE ~IsComplete(m) /\ f \notin m.completed /\ duplicate
  BY <1>1, <1>7 DEF StoreShred, m1, f
<1>8. CASE ~IsComplete(m) /\ f \notin m.completed /\ ~duplicate
  BY <1>2, <1>4, <1>8 DEF StoreShred, m1, m2, f
<1>. QED
  BY <1>5, <1>6, <1>7, <1>8

\* Two counts that agree mean that every FEC set is finished.
LEMMA CompleteHasAll ==
  ASSUME NEW s \in Slots, NEW m, GoodMeta(s, m), IsComplete(m)
  PROVE  m.completed = FecSets(NumBatches[s])
<1>. DEFINE n == NumBatches[s]
<1>1. n \in Nat
  BY IndexesFinite
<1>2. IsFiniteSet(FecSets(n)) /\ Cardinality(FecSets(n)) = n
  BY <1>1, CountFecSets
<1>3. m.completed \in SUBSET FecSets(n)
  BY DEF GoodMeta
<1>4. Cardinality(m.completed) \in Nat
  BY <1>2, <1>3, FS_Subset, FS_CardinalityType
<1>5. Cardinality(m.completed) = n
  BY <1>4, NoneAssumption DEF IsComplete, GoodMeta
<1>. QED
  BY <1>2, <1>3, <1>5, FS_Subset

\* A complete slot can be recovered.
LEMMA CompleteRecoverable ==
  ASSUME NEW s \in Slots, NEW m, GoodMeta(s, m), IsComplete(m)
  PROVE  \A f \in FecSets(NumBatches[s]) : Recoverable(SlotRaw(s, m), f)
<1>1. m.completed = FecSets(NumBatches[s])
  BY CompleteHasAll
<1>. QED
  BY <1>1 DEF GoodMeta, BatchFull, BatchCount, Recoverable, SlotRaw

-----------------------------------------------------------------------------
(* Channels and the cache.                                                 *)

\* A send adds one element to a queue.
LEMMA ElemsAppend ==
  ASSUME NEW S, NEW q \in Seq(S), NEW x
  PROVE  Elems(Append(q, x)) = Elems(q) \cup {x}
<1>1. Len(Append(q, x)) = Len(q) + 1 /\ Len(q) \in Nat
  OBVIOUS
<1>2. /\ \A i \in 1 .. Len(q) : Append(q, x)[i] = q[i]
      /\ Append(q, x)[Len(q) + 1] = x
  OBVIOUS
<1>. QED
  BY <1>1, <1>2 DEF Elems

\* A receive adds none.
LEMMA ElemsTail ==
  ASSUME NEW S, NEW q \in Seq(S), q # <<>>
  PROVE  Elems(Tail(q)) \subseteq Elems(q)
  BY DEF Elems

\* An access keeps, adds and drops cached slots, and adds no other than its own.
LEMMA CachedSubset ==
  ASSUME NEW s, NEW cached \in Cached(s)
  PROVE  cached \subseteq DOMAIN meta \cup {s}
  BY DEF Cached

\* The metadata an access finds or creates is good.
LEMMA EntryGood ==
  ASSUME MetaInv, NEW s \in Slots
  PROVE  GoodMeta(s, Entry(s))
  BY FreshGood DEF MetaInv, Entry

\* A request for what is missing is well-formed.
LEMMA MissingType ==
  ASSUME NEW s \in Slots, NEW m \in Metadata
  PROVE  MissingShreds(s, m) \in RepairReqs
<1>1. \A f \in Nat : FecSet(f) \subseteq Nat
  BY FecSizeAssumption DEF FecSet
<1>2. \A n \in Nat : FecSets(n) \subseteq Nat
  BY FecSizeAssumption DEF FecSets
<1>3. CASE m.required # None
  <2>1. m.required \in Nat
    BY <1>3 DEF Metadata
  <2>2. MissingBounded(m) \subseteq Nat
    BY <1>1, <1>2, <2>1 DEF MissingBounded
  <2>. QED
    BY <1>3, <2>2 DEF MissingShreds, RepairReqs
<1>4. CASE m.required = None
  <2>1. \A i \in m.data : Fec(i) \in Nat
    <3>1. TAKE i \in m.data
    <3>2. i \in Nat
      BY DEF Metadata
    <3>3. i % FecSize \in 0 .. (FecSize - 1) /\ i \div FecSize \in Nat
          /\ i = FecSize * (i \div FecSize) + (i % FecSize)
      BY <3>2, FecSizeAssumption, DivMod
    <3>4. FecSize * (i \div FecSize) \in Nat
      BY <3>3, FecSizeAssumption
    <3>. QED
      BY <3>2, <3>3, <3>4, FecSizeAssumption DEF Fec
  <2>2. MissingUnbounded(m) \subseteq Nat
    BY <1>1, <1>2, <2>1 DEF MissingUnbounded
  <2>3. m.max_inclusive \in Nat
    BY DEF Metadata
  <2>. QED
    BY <1>4, <2>2, <2>3 DEF MissingShreds, RepairReqs
<1>. QED
  BY <1>3, <1>4

-----------------------------------------------------------------------------
(* Every step preserves the invariant.                                     *)

\* What the actions other than HandleShred leave alone or change harmlessly.
LEMMA Frame ==
  ASSUME DeliveredRecoverable, Delivered' \subseteq Delivered
  PROVE  DeliveredRecoverable'
  BY DEF DeliveredRecoverable, Recoverable, InSet, Fec, FecSets

\* Filing a shred: the metadata stays good, and a slot is delivered only when
\* it is complete.
LEMMA HandleShredIInv ==
  ASSUME IInv, NEW sh \in Shreds, HandleShred(sh)
  PROVE  IInv'
<1>. DEFINE s == sh.slot
            r == StoreShred(Entry(s), sh)
            raw == SlotRaw(s, r.meta)
<1>1. s \in Slots
  BY ShredFields
<1>2. /\ GoodMeta(s, r.meta)
      /\ r.outcome = "Complete" => IsComplete(r.meta)
      /\ r.batches \subseteq BatchType
  BY <1>1, EntryGood, StoreShredGood DEF IInv
<1>3. PICK cached \in Cached(s) :
        meta' = [t \in cached |-> IF t = s THEN r.meta ELSE meta[t]]
  BY DEF HandleShred
<1>4. /\ store_tx' = store_tx \cup r.batches
      /\ timer_q' =
           CASE r.outcome = "Ignored"  -> timer_q
             [] r.outcome = "Complete" -> Append(timer_q, Completion(s))
             [] OTHER                  -> Append(timer_q, Insertion(s))
      /\ IF r.outcome = "Complete"
         THEN SendGrpc(raw)
         ELSE UNCHANGED <<grpc_tx, handler>>
      /\ UNCHANGED <<timers, armed, detached, monitor, repair_tx, wedged>>
  BY DEF HandleShred
<1>. HIDE DEF s, r
<1>5. /\ DOMAIN meta' \subseteq DOMAIN meta \cup {s}
      /\ \A t \in DOMAIN meta' :
           \/ t = s /\ meta'[t] = r.meta
           \/ t \in DOMAIN meta /\ meta'[t] = meta[t]
  BY <1>3, CachedSubset
<1>6. MetaInv'
  <2>1. \A t \in DOMAIN meta' : GoodMeta(t, meta'[t])
    BY <1>2, <1>5 DEF IInv, MetaInv
  <2>. QED
    BY <2>1 DEF MetaInv, GoodMeta, Metadata, DataIndexes, FecSets, BatchFull,
                BatchCount, InSet, Fec
<1>7. raw \in SlotRaws
  BY <1>1, <1>2 DEF SlotRaw, SlotRaws, GoodMeta, Metadata
<1>8. /\ Completion(s) \in TimerMsgs
      /\ Insertion(s) \in TimerMsgs
  BY <1>1 DEF Completion, Insertion, TimerMsgs
<1>9. TypeOK'
  <2>1. DOMAIN meta' \subseteq Slots
        /\ \A t \in DOMAIN meta' : meta'[t] \in Metadata
    BY <1>1, <1>2, <1>5 DEF IInv, TypeOK, GoodMeta
  <2>2. store_tx' \subseteq BatchType
    BY <1>2, <1>4 DEF IInv, TypeOK, BatchType
  <2>3. timer_q' \in Seq(TimerMsgs)
    BY <1>4, <1>8 DEF IInv, TypeOK
  <2>4. grpc_tx' \in Seq(SlotRaws) /\ handler' \in SlotRaws \cup {None}
    <3>1. \/ UNCHANGED <<grpc_tx, handler>>
          \/ grpc_tx' = Append(grpc_tx, raw) /\ UNCHANGED handler
          \/ handler' = raw /\ UNCHANGED grpc_tx
      BY <1>4 DEF SendGrpc
    <3>2. grpc_tx \in Seq(SlotRaws) /\ handler \in SlotRaws \cup {None}
      BY DEF IInv, TypeOK
    <3>. HIDE DEF raw
    <3>. QED
      BY <1>7, <3>1, <3>2
  <2>. QED
    BY <1>4, <2>1, <2>2, <2>3, <2>4 DEF IInv, TypeOK, BatchType
<1>10. DeliveredRecoverable'
  <2>1. CASE r.outcome # "Complete"
    <3>1. UNCHANGED <<grpc_tx, handler>>
      BY <1>4, <2>1
    <3>. QED
      BY <3>1, Frame DEF IInv, Delivered, Elems
  <2>2. CASE r.outcome = "Complete"
    <3>1. Delivered' \subseteq Delivered \cup {raw}
      <4>1. grpc_tx \in Seq(SlotRaws)
        BY DEF IInv, TypeOK
      <4>2. CASE grpc_tx' = Append(grpc_tx, raw) /\ UNCHANGED handler
        BY <4>1, <4>2, ElemsAppend DEF Delivered, Elems
      <4>3. CASE handler' = raw /\ UNCHANGED grpc_tx
        BY <4>3 DEF Delivered, Elems
      <4>. QED
        BY <1>4, <2>2, <4>2, <4>3 DEF SendGrpc
    <3>2. \A f \in FecSets(NumBatches[s]) : Recoverable(raw, f)
      BY <1>1, <1>2, <2>2, CompleteRecoverable
    <3>3. raw.slot = s
      BY DEF SlotRaw
    <3>4. \A x \in Delivered' :
            \A f \in FecSets(NumBatches[x.slot]) : Recoverable(x, f)
      BY <3>1, <3>2, <3>3 DEF IInv, DeliveredRecoverable
    <3>. QED
      BY <3>4 DEF DeliveredRecoverable, Recoverable, InSet, Fec, FecSets
  <2>. QED
    BY <2>1, <2>2
<1>. QED
  BY <1>6, <1>9, <1>10 DEF IInv

\* The waiting handler delivers the slot it holds.
LEMMA HandlerResumesIInv ==
  ASSUME IInv, HandlerResumes
  PROVE  IInv'
<1>1. /\ handler # None /\ handler' = None
      /\ grpc_tx' = Append(grpc_tx, handler)
      /\ UNCHANGED <<meta, store_tx, timers, armed, detached, timer_q, monitor,
                     repair_tx, wedged>>
  BY DEF HandlerResumes
<1>2. grpc_tx \in Seq(SlotRaws) /\ handler \in SlotRaws
  BY <1>1 DEF IInv, TypeOK
<1>3. Elems(grpc_tx') = Elems(grpc_tx) \cup {handler}
  BY <1>1, <1>2, ElemsAppend
<1>4. Elems(grpc_tx)' = Elems(grpc_tx')
  BY DEF Elems
<1>5. Delivered' \subseteq Delivered
  BY <1>1, <1>3, <1>4 DEF Delivered
<1>6. DeliveredRecoverable'
  BY <1>5, Frame DEF IInv
<1>7. TypeOK'
  BY <1>1, <1>2 DEF IInv, TypeOK
<1>8. MetaInv'
  BY <1>1 DEF IInv, MetaInv, GoodMeta, BatchFull, BatchCount, InSet, Fec,
              DataIndexes, FecSets, Metadata
<1>. QED
  BY <1>6, <1>7, <1>8 DEF IInv

\* The gRPC side takes a slot.
LEMMA GrpcTakesIInv ==
  ASSUME IInv, GrpcTakes
  PROVE  IInv'
<1>1. /\ grpc_tx # <<>> /\ grpc_tx' = Tail(grpc_tx)
      /\ UNCHANGED <<meta, store_tx, handler, timers, armed, detached, timer_q,
                     monitor, repair_tx, wedged>>
  BY DEF GrpcTakes
<1>2. grpc_tx \in Seq(SlotRaws)
  BY DEF IInv, TypeOK
<1>3. Elems(grpc_tx') \subseteq Elems(grpc_tx) /\ Elems(grpc_tx)' = Elems(grpc_tx')
  BY <1>1, <1>2, ElemsTail DEF Elems
<1>4. DeliveredRecoverable'
  BY <1>1, <1>3, Frame DEF IInv, Delivered
<1>5. TypeOK'
  BY <1>1, <1>2 DEF IInv, TypeOK
<1>6. MetaInv'
  BY <1>1 DEF IInv, MetaInv, GoodMeta, BatchFull, BatchCount, InSet, Fec,
              DataIndexes, FecSets, Metadata
<1>. QED
  BY <1>4, <1>5, <1>6 DEF IInv

\* The steps that touch neither the metadata nor what is delivered.
LEMMA QuietStep ==
  ASSUME IInv, TypeOK', UNCHANGED <<meta, grpc_tx, handler>>
  PROVE  IInv'
<1>1. MetaInv'
  BY DEF IInv, MetaInv, GoodMeta, BatchFull, BatchCount, InSet, Fec,
         DataIndexes, FecSets, Metadata
<1>2. DeliveredRecoverable'
  BY Frame DEF IInv, Delivered, Elems
<1>. QED
  BY <1>1, <1>2 DEF IInv

\* A message the monitor takes names a slot.
LEMMA MonitorMessage ==
  ASSUME TypeOK, NEW type, MonitorReady(type)
  PROVE  Head(timer_q).slot \in Slots /\ timer_q' \in Seq(TimerMsgs)
<1>1. timer_q \in Seq(TimerMsgs) /\ timer_q # <<>> /\ timer_q' = Tail(timer_q)
  BY DEF TypeOK, MonitorReady
<1>2. Head(timer_q) \in TimerMsgs
  BY <1>1
<1>. QED
  BY <1>1, <1>2 DEF TimerMsgs

\* Sending to the repair manager, or waiting to, is well-typed.
LEMMA SendRepairType ==
  ASSUME TypeOK, NEW msg \in RepairReqs, SendRepair(msg)
  PROVE  repair_tx' \in Seq(RepairReqs) /\ monitor' \in RepairReqs \cup {None}
<1>1. repair_tx \in Seq(RepairReqs) /\ monitor \in RepairReqs \cup {None}
  BY DEF TypeOK
<1>2. \/ repair_tx' = Append(repair_tx, msg) /\ UNCHANGED monitor
      \/ monitor' = msg /\ UNCHANGED repair_tx
  BY DEF SendRepair
<1>. QED
  BY <1>1, <1>2

\* The monitor learns of an insertion.
LEMMA MonitorInsertionIInv ==
  ASSUME IInv, MonitorInsertion
  PROVE  IInv'
<1>1. Head(timer_q).slot \in Slots /\ timer_q' \in Seq(TimerMsgs)
  BY MonitorMessage DEF IInv, MonitorInsertion
<1>2. TypeOK'
  BY <1>1 DEF IInv, TypeOK, MonitorInsertion
<1>. QED
  BY <1>2, QuietStep DEF MonitorInsertion

\* The monitor learns of a completion.
LEMMA MonitorCompletionIInv ==
  ASSUME IInv, MonitorCompletion
  PROVE  IInv'
<1>. DEFINE s == Head(timer_q).slot
<1>1. s \in Slots /\ timer_q' \in Seq(TimerMsgs)
  BY MonitorMessage DEF IInv, MonitorCompletion
<1>2. CancelRepair(s) \in RepairReqs
  BY <1>1 DEF CancelRepair, RepairReqs
<1>3. repair_tx' \in Seq(RepairReqs) /\ monitor' \in RepairReqs \cup {None}
  <2>1. CASE SendRepair(CancelRepair(s))
    BY <1>2, <2>1, SendRepairType DEF IInv
  <2>2. CASE UNCHANGED <<repair_tx, monitor>>
    BY <2>2 DEF IInv, TypeOK
  <2>. QED
    BY <2>1, <2>2 DEF MonitorCompletion
<1>4. TypeOK'
  BY <1>1, <1>3 DEF IInv, TypeOK, MonitorCompletion
<1>. QED
  BY <1>4, QuietStep DEF MonitorCompletion

\* The monitor learns of an expiry and asks for repair.
LEMMA MonitorTimeoutIInv ==
  ASSUME IInv, MonitorTimeout
  PROVE  IInv'
<1>. DEFINE s == Head(timer_q).slot
<1>1. s \in Slots /\ timer_q' \in Seq(TimerMsgs)
  BY MonitorMessage DEF IInv, MonitorTimeout
<1>2. timers' \subseteq Slots /\ armed' \subseteq timers' /\ detached' \subseteq Slots
  BY <1>1 DEF IInv, TypeOK, MonitorTimeout, DropTimer
<1>3. UNCHANGED <<store_tx, grpc_tx, handler, wedged>>
  BY DEF MonitorTimeout
<1>4. CASE UNCHANGED <<meta, repair_tx, monitor>>
  <2>1. TypeOK'
    BY <1>1, <1>2, <1>3, <1>4 DEF IInv, TypeOK
  <2>. QED
    BY <1>3, <1>4, <2>1, QuietStep
<1>5. CASE /\ s \in DOMAIN meta
           /\ meta' = [meta EXCEPT ![s].timed_out = TRUE]
           /\ SendRepair(MissingShreds(s, meta[s]))
  <2>1. meta[s] \in Metadata /\ GoodMeta(s, meta[s])
    BY <1>5 DEF IInv, TypeOK, MetaInv
  <2>2. repair_tx' \in Seq(RepairReqs) /\ monitor' \in RepairReqs \cup {None}
    BY <1>1, <1>5, <2>1, MissingType, SendRepairType DEF IInv
  <2>3. /\ DOMAIN meta' = DOMAIN meta
        /\ \A t \in DOMAIN meta :
             t # s => meta'[t] = meta[t]
    BY <1>5
  <2>4. meta'[s] = [meta[s] EXCEPT !.timed_out = TRUE]
    BY <1>5
  <2>5. /\ meta'[s] \in Metadata
        /\ meta'[s].data = meta[s].data /\ meta'[s].code = meta[s].code
        /\ meta'[s].completed = meta[s].completed
        /\ meta'[s].required = meta[s].required
    BY <2>1, <2>4 DEF Metadata
  <2>6. GoodMeta(s, meta'[s])
    BY <2>1, <2>5 DEF GoodMeta, BatchFull, BatchCount
  <2>7. \A t \in DOMAIN meta' : GoodMeta(t, meta'[t])
    BY <2>3, <2>6 DEF IInv, MetaInv
  <2>8. MetaInv'
    BY <2>7 DEF MetaInv, GoodMeta, Metadata, DataIndexes, FecSets, BatchFull,
                BatchCount, InSet, Fec
  <2>9. TypeOK'
    <3>1. DOMAIN meta' \subseteq Slots
          /\ \A t \in DOMAIN meta' : meta'[t] \in Metadata
      BY <2>3, <2>7 DEF IInv, TypeOK, GoodMeta
    <3>. QED
      BY <1>1, <1>2, <1>3, <2>2, <3>1 DEF IInv, TypeOK
  <2>10. DeliveredRecoverable'
    BY <1>3, Frame DEF IInv, Delivered, Elems
  <2>. QED
    BY <2>8, <2>9, <2>10 DEF IInv
<1>. QED
  BY <1>4, <1>5 DEF MonitorTimeout

\* The remaining steps: waiting tasks resume, timers fire, the thread wedges,
\* the repair manager takes a message.
LEMMA OtherIInv ==
  ASSUME IInv,
         \/ \E sh \in Shreds : HandleShredLocked(sh)
         \/ MonitorResumes
         \/ \E s \in Slots : TimerFires(s) \/ DetachedFires(s)
         \/ RepairTakes
  PROVE  IInv'
<1>1. CASE \E sh \in Shreds : HandleShredLocked(sh)
  <2>1. TypeOK'
    BY <1>1 DEF IInv, TypeOK, HandleShredLocked
  <2>. QED
    BY <1>1, <2>1, QuietStep DEF HandleShredLocked
<1>2. CASE MonitorResumes
  <2>1. monitor \in RepairReqs /\ repair_tx \in Seq(RepairReqs)
    BY <1>2 DEF IInv, TypeOK, MonitorResumes
  <2>2. TypeOK'
    BY <1>2, <2>1 DEF IInv, TypeOK, MonitorResumes
  <2>. QED
    BY <1>2, <2>2, QuietStep DEF MonitorResumes
<1>3. ASSUME NEW s \in Slots, TimerFires(s)
      PROVE  IInv'
  <2>1. Timeout(s) \in TimerMsgs
    BY DEF Timeout, TimerMsgs
  <2>2. TypeOK'
    BY <1>3, <2>1 DEF IInv, TypeOK, TimerFires
  <2>. QED
    BY <1>3, <2>2, QuietStep DEF TimerFires
<1>4. ASSUME NEW s \in Slots, DetachedFires(s)
      PROVE  IInv'
  <2>1. Timeout(s) \in TimerMsgs
    BY DEF Timeout, TimerMsgs
  <2>2. TypeOK'
    BY <1>4, <2>1 DEF IInv, TypeOK, DetachedFires
  <2>. QED
    BY <1>4, <2>2, QuietStep DEF DetachedFires
<1>5. CASE RepairTakes
  <2>1. TypeOK'
    BY <1>5 DEF IInv, TypeOK, RepairTakes
  <2>. QED
    BY <1>5, <2>1, QuietStep DEF RepairTakes
<1>. QED
  BY <1>1, <1>2, <1>3, <1>4, <1>5

-----------------------------------------------------------------------------
\* IInv is inductive.
THEOREM IInvHolds == Spec => []IInv
<1>1. Init => IInv
  <2>1. SUFFICES ASSUME Init PROVE IInv
    OBVIOUS
  <2>2. TypeOK /\ MetaInv
    <3>1. DOMAIN meta = {}
      BY <2>1 DEF Init
    <3>2. <<>> \in Seq(SlotRaws) /\ <<>> \in Seq(TimerMsgs)
          /\ <<>> \in Seq(RepairReqs)
      OBVIOUS
    <3>. QED
      BY <2>1, <3>1, <3>2 DEF Init, TypeOK, MetaInv
  <2>3. Delivered = {}
    BY <2>1 DEF Init, Delivered, Elems
  <2>. QED
    BY <2>2, <2>3 DEF IInv, DeliveredRecoverable
<1>2. IInv /\ [Next]_vars => IInv'
  <2>1. SUFFICES ASSUME IInv, [Next]_vars
                 PROVE  IInv'
    OBVIOUS
  <2>2. ASSUME NEW sh \in Shreds, HandleShred(sh)
        PROVE  IInv'
    BY <2>1, <2>2, HandleShredIInv
  <2>3. CASE HandlerResumes
    BY <2>1, <2>3, HandlerResumesIInv
  <2>4. CASE MonitorInsertion
    BY <2>1, <2>4, MonitorInsertionIInv
  <2>5. CASE MonitorCompletion
    BY <2>1, <2>5, MonitorCompletionIInv
  <2>6. CASE MonitorTimeout
    BY <2>1, <2>6, MonitorTimeoutIInv
  <2>7. CASE GrpcTakes
    BY <2>1, <2>7, GrpcTakesIInv
  <2>8. CASE \/ \E sh \in Shreds : HandleShredLocked(sh)
             \/ MonitorResumes
             \/ \E s \in Slots : TimerFires(s) \/ DetachedFires(s)
             \/ RepairTakes
    BY <2>1, <2>8, OtherIInv
  <2>9. CASE UNCHANGED vars
    <3>1. TypeOK'
      BY <2>1, <2>9 DEF vars, IInv, TypeOK
    <3>. QED
      BY <2>1, <2>9, <3>1, QuietStep DEF vars
  <2>. QED
    BY <2>1, <2>2, <2>3, <2>4, <2>5, <2>6, <2>7, <2>8, <2>9 DEF Next
<1>. QED
  BY <1>1, <1>2, PTL DEF Spec

\* Type correctness of slot assembly: cache entries, timers and the messages
\* in all channels keep their types.
THEOREM TypeCorrect == Spec => []TypeOK
<1>1. IInv => TypeOK
  BY DEF IInv
<1>. QED
  BY <1>1, IInvHolds, PTL

\* Whatever is lost, repeated or reordered, evicted or delayed, a slot that
\* make_complete hands to the gRPC side can be recovered in full.
THEOREM DeliveredSlotsRecoverable == Spec => []DeliveredRecoverable
<1>1. IInv => DeliveredRecoverable
  BY DEF IInv
<1>. QED
  BY <1>1, IInvHolds, PTL
-----------------------------------------------------------------------------
(* Queues of messages.                                                     *)

\* The messages of the monitor's channel are told apart by type and slot.
LEMMA MessagesDiffer ==
  ASSUME NEW s, NEW t
  PROVE  /\ Insertion(s) # Completion(t)
         /\ Insertion(s) # Timeout(t)
         /\ Completion(s) # Timeout(t)
         /\ s # t => /\ Insertion(s) # Insertion(t)
                     /\ Completion(s) # Completion(t)
                     /\ Timeout(s) # Timeout(t)
<1>1. Insertion(s).type # Completion(t).type
      /\ Insertion(s).type # Timeout(t).type
      /\ Completion(s).type # Timeout(t).type
  BY DEF Insertion, Completion, Timeout
<1>2. \A x : Insertion(x).slot = x /\ Completion(x).slot = x /\ Timeout(x).slot = x
  BY DEF Insertion, Completion, Timeout
<1>. QED
  BY <1>1, <1>2

\* What a receive leaves in the queue: everything but the message received.
LEMMA ElemsSplit ==
  ASSUME NEW S, NEW q \in Seq(S), q # <<>>, NEW x \in Elems(q), x # Head(q)
  PROVE  x \in Elems(Tail(q))
<1>1. PICK i \in 1 .. Len(q) : q[i] = x
  BY DEF Elems
<1>2. i # 1
  BY <1>1
<1>3. Len(Tail(q)) = Len(q) - 1 /\ i - 1 \in 1 .. Len(Tail(q))
      /\ Tail(q)[i - 1] = q[i]
  BY <1>1, <1>2
<1>. QED
  BY <1>1, <1>3 DEF Elems

\* A send of another message keeps every x followed by a y.
LEMMA FollowedAppend ==
  ASSUME NEW S, NEW q \in Seq(S), NEW x, NEW y, NEW z,
         Followed(q, x, y), z # x
  PROVE  Followed(Append(q, z), x, y)
<1>1. Len(Append(q, z)) = Len(q) + 1 /\ Len(q) \in Nat
  OBVIOUS
<1>2. /\ \A i \in 1 .. Len(q) : Append(q, z)[i] = q[i]
      /\ Append(q, z)[Len(q) + 1] = z
  OBVIOUS
<1>. QED
  BY <1>1, <1>2 DEF Followed

\* A send of y puts it behind every x.
LEMMA FollowedLast ==
  ASSUME NEW S, NEW q \in Seq(S), NEW x, NEW y, x # y
  PROVE  Followed(Append(q, y), x, y)
<1>1. Len(Append(q, y)) = Len(q) + 1 /\ Len(q) \in Nat
  OBVIOUS
<1>2. /\ \A i \in 1 .. Len(q) : Append(q, y)[i] = q[i]
      /\ Append(q, y)[Len(q) + 1] = y
  OBVIOUS
<1>. QED
  BY <1>1, <1>2 DEF Followed

\* A receive takes nothing from behind the messages that stay.
LEMMA FollowedTail ==
  ASSUME NEW S, NEW q \in Seq(S), q # <<>>, NEW x, NEW y, Followed(q, x, y)
  PROVE  Followed(Tail(q), x, y)
<1>1. Len(Tail(q)) = Len(q) - 1 /\ Len(q) \in Nat
      /\ \A i \in 1 .. Len(Tail(q)) : Tail(q)[i] = q[i + 1]
  OBVIOUS
<1>2. SUFFICES ASSUME NEW i \in 1 .. Len(Tail(q)), Tail(q)[i] = x
               PROVE  \E j \in 1 .. Len(Tail(q)) : i < j /\ Tail(q)[j] = y
  BY DEF Followed
<1>3. i + 1 \in 1 .. Len(q) /\ q[i + 1] = x
  BY <1>1, <1>2
<1>4. PICK j \in 1 .. Len(q) : i + 1 < j /\ q[j] = y
  BY <1>3 DEF Followed
<1>5. j - 1 \in 1 .. Len(Tail(q)) /\ i < j - 1 /\ (j - 1) + 1 = j
  BY <1>1, <1>4
<1>. QED
  BY <1>1, <1>4, <1>5

\* What follows a message that is received is still to come.
LEMMA FollowedHead ==
  ASSUME NEW S, NEW q \in Seq(S), q # <<>>, NEW y, Followed(q, Head(q), y)
  PROVE  y \in Elems(Tail(q))
<1>1. Len(Tail(q)) = Len(q) - 1 /\ Len(q) \in Nat \ {0} /\ Head(q) = q[1]
      /\ \A i \in 1 .. Len(Tail(q)) : Tail(q)[i] = q[i + 1]
  OBVIOUS
<1>2. PICK j \in 1 .. Len(q) : 1 < j /\ q[j] = y
  BY <1>1 DEF Followed
<1>3. j - 1 \in 1 .. Len(Tail(q)) /\ (j - 1) + 1 = j
  BY <1>1, <1>2
<1>. QED
  BY <1>1, <1>2, <1>3 DEF Elems

\* A message for another slot, or the cancellation itself, keeps the requests
\* for s cancelled.
LEMMA CancelledAppend ==
  ASSUME NEW S, NEW q \in Seq(S), NEW s, NEW z,
         (Cancelled(q, s) /\ z.slot # s) \/ z = CancelRepair(s)
  PROVE  Cancelled(Append(q, z), s)
<1>1. Len(Append(q, z)) = Len(q) + 1 /\ Len(q) \in Nat
  OBVIOUS
<1>2. /\ \A i \in 1 .. Len(q) : Append(q, z)[i] = q[i]
      /\ Append(q, z)[Len(q) + 1] = z
  OBVIOUS
<1>. HIDE DEF CancelRepair
<1>. QED
  BY <1>1, <1>2 DEF Cancelled

\* The repair manager takes messages from the front.
LEMMA CancelledTail ==
  ASSUME NEW S, NEW q \in Seq(S), q # <<>>, NEW s, Cancelled(q, s)
  PROVE  Cancelled(Tail(q), s)
<1>1. Len(Tail(q)) = Len(q) - 1 /\ Len(q) \in Nat
      /\ \A i \in 1 .. Len(Tail(q)) : Tail(q)[i] = q[i + 1]
  OBVIOUS
<1>2. SUFFICES ASSUME NEW i \in 1 .. Len(Tail(q)), Tail(q)[i].slot = s
               PROVE  \E j \in 1 .. Len(Tail(q)) :
                        i <= j /\ Tail(q)[j] = CancelRepair(s)
  BY DEF Cancelled
<1>3. i + 1 \in 1 .. Len(q) /\ q[i + 1].slot = s
  BY <1>1, <1>2
<1>4. PICK j \in 1 .. Len(q) : i + 1 <= j /\ q[j] = CancelRepair(s)
  BY <1>3 DEF Cancelled
<1>5. j - 1 \in 1 .. Len(Tail(q)) /\ i <= j - 1 /\ (j - 1) + 1 = j
  BY <1>1, <1>4
<1>. QED
  BY <1>1, <1>4, <1>5

-----------------------------------------------------------------------------
(* What filing a shred reports.                                            *)

\* What the last shred teaches, and that no other shred teaches anything.
LEMMA LearnFields ==
  ASSUME NEW sh \in Shreds, NEW m, GoodMeta(sh.slot, m)
  PROVE  LET m1 == LearnRequired(m, sh)
         IN /\ IsLast(sh) => m1.required = NumBatches[sh.slot]
            /\ ~IsLast(sh) => m1 = m
            /\ m1.timed_out = m.timed_out
            /\ m.required # None => m1.required = m.required
<1>. DEFINE s == sh.slot
            m1 == LearnRequired(m, sh)
<1>1. s \in Slots /\ NumBatches[s] \in Nat \ {0}
  BY ShredFields, IndexesFinite
<1>2. CASE ~IsLast(sh)
  BY <1>2 DEF LearnRequired
<1>3. CASE IsLast(sh)
  <2>1. m1 = [m EXCEPT !.required = NumBatches[s]]
    BY <1>1, <1>3, LastTellsRequired DEF LearnRequired, IsLast
  <2>2. m \in Metadata /\ m.required \in {NumBatches[s], None}
    BY DEF GoodMeta
  <2>3. m1.required = NumBatches[s] /\ m1.timed_out = m.timed_out
    BY <2>1, <2>2 DEF Metadata
  <2>. HIDE DEF m1
  <2>. QED
    BY <1>3, <2>2, <2>3 DEF m1
<1>. QED
  BY <1>2, <1>3

\* What inserting a shred and closing its batch changes.
LEMMA InsertFields ==
  ASSUME NEW sh \in Shreds, NEW m, GoodMeta(sh.slot, m)
  PROVE  LET n == CloseBatch(Insert(m, sh), Fec(sh.index))
         IN /\ n.data = IF sh.kind = "data" THEN m.data \cup {sh.index} ELSE m.data
            /\ n.completed \subseteq m.completed \cup {Fec(sh.index)}
            /\ n.required = m.required
            /\ n.timed_out = m.timed_out
<1>. DEFINE i == Insert(m, sh)
            n == CloseBatch(i, Fec(sh.index))
<1>1. m \in Metadata
  BY DEF GoodMeta
<1>2. /\ i.data = IF sh.kind = "data" THEN m.data \cup {sh.index} ELSE m.data
      /\ i.completed = m.completed
      /\ i.required = m.required
      /\ i.timed_out = m.timed_out
      /\ DOMAIN i = DOMAIN m
  BY <1>1 DEF Insert, Metadata
<1>3. DOMAIN m = {"data", "code", "completed", "required", "max_inclusive",
                  "timed_out"}
  BY <1>1 DEF Metadata
<1>. HIDE DEF i
<1>4. /\ n.data = i.data /\ n.required = i.required /\ n.timed_out = i.timed_out
      /\ n.completed \subseteq i.completed \cup {Fec(sh.index)}
  BY <1>2, <1>3 DEF CloseBatch
<1>. QED
  BY <1>2, <1>4 DEF i

\* New metadata is not complete.
LEMMA FreshIncomplete == ~IsComplete(Fresh)
<1>1. Cardinality({}) = 0 /\ Fresh.completed = {} /\ Fresh.required = None
  BY FS_EmptySet DEF Fresh
<1>. QED
  BY <1>1, NoneAssumption DEF IsComplete

\* The outcome store_shred reports tells whether the slot has become complete:
\* an ignored shred does not change it, and every other outcome says what it
\* is.  A batch that finishes is handed over in the same step.
LEMMA StoreShredOutcome ==
  ASSUME NEW sh \in Shreds, NEW m, GoodMeta(sh.slot, m), LastLearnt(sh.slot, m)
  PROVE  LET r == StoreShred(m, sh)
         IN /\ LastLearnt(sh.slot, r.meta)
            /\ r.meta.timed_out = m.timed_out
            /\ r.outcome = "Ignored" => (IsComplete(r.meta) <=> IsComplete(m))
            /\ r.outcome = "Ignored" => m # Fresh
            /\ r.outcome = "Complete" => IsComplete(r.meta)
            /\ r.outcome \notin {"Ignored", "Complete"} => ~IsComplete(r.meta)
            /\ \A g \in r.meta.completed :
                 \/ g \in m.completed
                 \/ \E b \in r.batches :
                      b.slot = sh.slot /\ b.fec = g /\ Recoverable(b, g)
<1>. DEFINE s == sh.slot
            f == Fec(sh.index)
            m1 == LearnRequired(m, sh)
            m2 == CloseBatch(Insert(m1, sh), f)
            r == StoreShred(m, sh)
            last == FecSize * NumBatches[s] - 1
            duplicate == sh.index \in (IF sh.kind = "data" THEN m.data ELSE m.code)
<1>1. /\ GoodMeta(s, m1) /\ m1.data = m.data /\ m1.completed = m.completed
      /\ IsLast(sh) => m1.required = NumBatches[s]
      /\ ~IsLast(sh) => m1 = m
      /\ m1.timed_out = m.timed_out
      /\ m.required # None => m1.required = m.required
  BY LearnGood, LearnFields
<1>2. /\ GoodMeta(s, m2)
      /\ m2.data = IF sh.kind = "data" THEN m1.data \cup {sh.index} ELSE m1.data
      /\ m2.completed \subseteq m1.completed \cup {f}
      /\ m2.required = m1.required
      /\ m2.timed_out = m1.timed_out
  BY <1>1, InsertGood, InsertFields
<1>3. NumBatches[s] # None /\ NumBatches[s] \in Nat
  BY ShredFields, NoneAssumption, IndexesFinite
<1>4. IsLast(sh) <=> sh.kind = "data" /\ sh.index = last
  BY DEF IsLast
<1>5. LastLearnt(s, m1)
  BY <1>1, <1>3 DEF LastLearnt
<1>6. LastLearnt(s, m2)
  BY <1>1, <1>2, <1>3, <1>4, <1>5 DEF LastLearnt
<1>7. Fresh.completed = {} /\ Fresh.data = {} /\ Fresh.code = {}
  BY DEF Fresh
<1>8. f \in m2.completed => Recoverable(Batch(m2, s, f), f)
  <2>1. ASSUME f \in m2.completed PROVE BatchCount(m2, f) >= FecSize
    BY <1>2, <2>1 DEF GoodMeta, BatchFull
  <2>2. \A i : InSet(InSet(i, f), f) = InSet(i, f)
    BY DEF InSet
  <2>3. Batch(m2, s, f).data = InSet(m2.data, f)
        /\ Batch(m2, s, f).code = InSet(m2.code, f)
    BY DEF Batch
  <2>. HIDE DEF m2, f
  <2>. QED
    BY <2>1, <2>2, <2>3 DEF Recoverable, BatchCount
<1>9. Batch(m2, s, f).slot = s /\ Batch(m2, s, f).fec = f
  BY DEF Batch
<1>. HIDE DEF m1, m2, f, last
<1>10. CASE IsComplete(m)
  <2>1. r = [meta |-> m, outcome |-> "Ignored", batches |-> {}]
    BY <1>10 DEF StoreShred
  <2>. HIDE DEF r
  <2>. QED
    BY <1>10, <2>1, FreshIncomplete DEF r
<1>11. CASE ~IsComplete(m) /\ f \in m.completed
  <2>1. r = [meta |-> m1,
             outcome |-> IF IsComplete(m1) THEN "Complete" ELSE "Ignored",
             batches |-> {}]
    BY <1>11 DEF StoreShred, m1, f
  <2>. HIDE DEF r
  <2>. QED
    BY <1>1, <1>5, <1>7, <1>11, <2>1 DEF r
<1>12. CASE ~IsComplete(m) /\ f \notin m.completed /\ duplicate
  <2>1. r = [meta |-> m1, outcome |-> "Ignored", batches |-> {}]
    BY <1>12 DEF StoreShred, m1, f
  <2>2. m1.required = m.required
    BY <1>1, <1>4, <1>12 DEF LastLearnt, last
  <2>3. ~IsComplete(m1)
    BY <1>1, <1>12, <2>2 DEF IsComplete
  <2>. HIDE DEF r
  <2>. QED
    BY <1>1, <1>5, <1>7, <1>12, <2>1, <2>3 DEF r
<1>13. CASE ~IsComplete(m) /\ f \notin m.completed /\ ~duplicate
  <2>. DEFINE out == CASE IsComplete(m2) -> "Complete"
                       [] ~IsComplete(m2) /\ f \in m2.completed -> "BatchComplete"
                       [] OTHER -> "Incomplete"
              bs == IF f \in m2.completed THEN {Batch(m2, s, f)} ELSE {}
  <2>1. r = [meta |-> m2, outcome |-> out, batches |-> bs]
    BY <1>13 DEF StoreShred, m1, m2, f
  <2>2. /\ out # "Ignored"
        /\ out = "Complete" <=> IsComplete(m2)
    OBVIOUS
  <2>3. \A g \in m2.completed :
          \/ g \in m.completed
          \/ \E b \in bs : b.slot = s /\ b.fec = g /\ Recoverable(b, g)
    BY <1>1, <1>2, <1>8, <1>9
  <2>. HIDE DEF r, out, bs
  <2>. QED
    BY <1>1, <1>2, <1>6, <2>1, <2>2, <2>3 DEF r
<1>. QED
  BY <1>10, <1>11, <1>12, <1>13

-----------------------------------------------------------------------------
(* Every step preserves the monitor's invariant.                           *)

\* The four parts of the invariant, spelt out for the next state.
LEMMA StoreNext ==
  ASSUME \A s \in DOMAIN meta' :
           /\ LastLearnt(s, meta'[s])
           /\ \A f \in meta'[s].completed :
                \E b \in store_tx' : b.slot = s /\ b.fec = f /\ Recoverable(b, f)
  PROVE  StoreInv'
  BY DEF StoreInv, LastLearnt, Recoverable, InSet, Fec

LEMMA QueueNext ==
  ASSUME \A s \in timers' \ armed' : Timeout(s) \in Elems(timer_q'),
         \A s \in DOMAIN meta' :
           IF IsComplete(meta'[s])
           THEN /\ Followed(timer_q', Insertion(s), Completion(s))
                /\ s \in timers' => Completion(s) \in Elems(timer_q')
           ELSE Followed(timer_q', Completion(s), Insertion(s))
  PROVE  QueueInv'
  BY DEF QueueInv, IsComplete, Followed, Elems, Timeout, Insertion, Completion

LEMMA ForgottenNext ==
  ASSUME \A s \in DOMAIN meta' :
           \/ IsComplete(meta'[s])
           \/ meta'[s].timed_out
           \/ s \in armed' \cup detached'
           \/ Insertion(s) \in Elems(timer_q')
           \/ Timeout(s) \in Elems(timer_q')
  PROVE  NeverForgotten'
  BY DEF NeverForgotten, IsComplete, Elems, Timeout, Insertion

LEMMA CancelNext ==
  ASSUME \A s \in DOMAIN meta' :
           /\ IsComplete(meta'[s])
           /\ meta'[s].timed_out
           /\ Completion(s) \notin Elems(timer_q')
           => /\ monitor' # None /\ monitor'.slot = s => monitor' = CancelRepair(s)
              /\ monitor' = CancelRepair(s) \/ Cancelled(repair_tx', s)
  PROVE  CancelInv'
  BY DEF CancelInv, IsComplete, Elems, Completion, Cancelled, CancelRepair

\* A message to the repair manager names its slot, and is not the idle task.
LEMMA CancelFields ==
  ASSUME NEW s \in Slots
  PROVE  CancelRepair(s).slot = s /\ CancelRepair(s) # None
<1>1. CancelRepair(s) \in RepairReqs
  BY DEF CancelRepair, RepairReqs
<1>. QED
  BY <1>1, IdleAssumption DEF CancelRepair

\* An access leaves the slot it is for in the cache.
LEMMA CachedHas ==
  ASSUME NEW s, NEW cached \in Cached(s)
  PROVE  s \in cached
  BY DEF Cached

\* Filing a shred: the queue tells the monitor exactly when the slot has become
\* complete, and of every shred that leaves it incomplete.
LEMMA HandleShredMonitor ==
  ASSUME IInv, MonitorInv, NEW sh \in Shreds, HandleShred(sh)
  PROVE  MonitorInv'
<1>. DEFINE s == sh.slot
            m == Entry(s)
            r == StoreShred(m, sh)
<1>1. s \in Slots /\ GoodMeta(s, m)
  BY ShredFields, EntryGood DEF IInv
<1>2. LastLearnt(s, m)
  BY DEF MonitorInv, StoreInv, Entry, Fresh, LastLearnt
<1>3. /\ LastLearnt(s, r.meta)
      /\ r.meta.timed_out = m.timed_out
      /\ r.outcome = "Ignored" => (IsComplete(r.meta) <=> IsComplete(m))
      /\ r.outcome = "Ignored" => m # Fresh
      /\ r.outcome = "Complete" => IsComplete(r.meta)
      /\ r.outcome \notin {"Ignored", "Complete"} => ~IsComplete(r.meta)
      /\ \A g \in r.meta.completed :
           \/ g \in m.completed
           \/ \E b \in r.batches : b.slot = s /\ b.fec = g /\ Recoverable(b, g)
  BY <1>1, <1>2, StoreShredOutcome
<1>4. PICK cached \in Cached(s) :
        meta' = [t \in cached |-> IF t = s THEN r.meta ELSE meta[t]]
  BY DEF HandleShred
<1>5. /\ store_tx' = store_tx \cup r.batches
      /\ timer_q' =
           CASE r.outcome = "Ignored"  -> timer_q
             [] r.outcome = "Complete" -> Append(timer_q, Completion(s))
             [] OTHER                  -> Append(timer_q, Insertion(s))
      /\ UNCHANGED <<timers, armed, detached, monitor, repair_tx>>
  BY DEF HandleShred
<1>6. m = IF s \in DOMAIN meta THEN meta[s] ELSE Fresh
  BY DEF Entry
<1>7. timer_q \in Seq(TimerMsgs)
  BY DEF IInv, TypeOK
<1>. HIDE DEF s, r, m
<1>8. /\ \A t \in DOMAIN meta' :
           \/ t = s
           \/ t # s /\ t \in DOMAIN meta /\ meta'[t] = meta[t]
      /\ s \in DOMAIN meta' /\ meta'[s] = r.meta
  BY <1>4, CachedSubset, CachedHas
<1>9. \/ r.outcome = "Ignored" /\ timer_q' = timer_q
      \/ r.outcome = "Complete" /\ timer_q' = Append(timer_q, Completion(s))
      \/ /\ r.outcome \notin {"Ignored", "Complete"}
         /\ timer_q' = Append(timer_q, Insertion(s))
  BY <1>5
<1>10. /\ Elems(Append(timer_q, Completion(s))) = Elems(timer_q) \cup {Completion(s)}
       /\ Elems(Append(timer_q, Insertion(s))) = Elems(timer_q) \cup {Insertion(s)}
  BY <1>7, ElemsAppend
<1>11. Elems(timer_q) \subseteq Elems(timer_q')
  BY <1>9, <1>10
<1>12. StoreInv'
  <2>1. ASSUME NEW t \in DOMAIN meta'
        PROVE  /\ LastLearnt(t, meta'[t])
               /\ \A f \in meta'[t].completed :
                    \E b \in store_tx' : b.slot = t /\ b.fec = f /\ Recoverable(b, f)
    <3>1. CASE t # s
      BY <1>5, <1>8, <2>1, <3>1 DEF MonitorInv, StoreInv
    <3>2. CASE t = s
      <4>1. \A f \in m.completed :
              \E b \in store_tx : b.slot = s /\ b.fec = f /\ Recoverable(b, f)
        BY <1>6 DEF MonitorInv, StoreInv, Fresh
      <4>. QED
        BY <1>3, <1>5, <1>8, <3>2, <4>1
    <3>. QED
      BY <3>1, <3>2
  <2>. QED
    BY <2>1, StoreNext
<1>13. QueueInv'
  <2>1. \A t \in timers' \ armed' : Timeout(t) \in Elems(timer_q')
    BY <1>5, <1>11 DEF MonitorInv, QueueInv
  <2>2. ASSUME NEW t \in DOMAIN meta'
        PROVE  IF IsComplete(meta'[t])
               THEN /\ Followed(timer_q', Insertion(t), Completion(t))
                    /\ t \in timers' => Completion(t) \in Elems(timer_q')
               ELSE Followed(timer_q', Completion(t), Insertion(t))
    <3>1. CASE t # s
      <4>1. t \in DOMAIN meta /\ meta'[t] = meta[t]
        BY <1>8, <2>2, <3>1
      <4>2. /\ Completion(s) # Completion(t) /\ Completion(s) # Insertion(t)
            /\ Insertion(s) # Completion(t) /\ Insertion(s) # Insertion(t)
        BY <3>1, MessagesDiffer
      <4>3. \A x, y : x \in {Completion(t), Insertion(t)} /\ Followed(timer_q, x, y)
                        => Followed(timer_q', x, y)
        BY <1>7, <1>9, <4>2, FollowedAppend
      <4>. QED
        BY <1>5, <1>11, <4>1, <4>3 DEF MonitorInv, QueueInv
    <3>2. CASE t = s /\ r.outcome = "Ignored"
      <4>1. s \in DOMAIN meta /\ m = meta[s]
        BY <1>3, <1>6, <3>2
      <4>2. timer_q' = timer_q
        BY <1>9, <3>2
      <4>. QED
        BY <1>3, <1>5, <1>8, <3>2, <4>1, <4>2 DEF MonitorInv, QueueInv
    <3>3. CASE t = s /\ r.outcome = "Complete"
      <4>1. Followed(Append(timer_q, Completion(s)), Insertion(s), Completion(s))
        BY <1>7, FollowedLast, MessagesDiffer
      <4>2. timer_q' = Append(timer_q, Completion(s)) /\ IsComplete(meta'[s])
        BY <1>3, <1>8, <1>9, <3>3
      <4>. QED
        BY <1>10, <3>3, <4>1, <4>2
    <3>4. CASE t = s /\ r.outcome \notin {"Ignored", "Complete"}
      <4>1. Followed(Append(timer_q, Insertion(s)), Completion(s), Insertion(s))
        BY <1>7, FollowedLast, MessagesDiffer
      <4>2. timer_q' = Append(timer_q, Insertion(s)) /\ ~IsComplete(meta'[s])
        BY <1>3, <1>8, <1>9, <3>4
      <4>. QED
        BY <3>4, <4>1, <4>2
    <3>. QED
      BY <3>1, <3>2, <3>3, <3>4
  <2>. QED
    BY <2>1, <2>2, QueueNext
<1>14. NeverForgotten'
  <2>1. ASSUME NEW t \in DOMAIN meta'
        PROVE  \/ IsComplete(meta'[t])
               \/ meta'[t].timed_out
               \/ t \in armed' \cup detached'
               \/ Insertion(t) \in Elems(timer_q')
               \/ Timeout(t) \in Elems(timer_q')
    <3>1. CASE t # s
      BY <1>5, <1>8, <1>11, <2>1, <3>1 DEF MonitorInv, NeverForgotten
    <3>2. CASE t = s /\ r.outcome = "Ignored"
      <4>1. s \in DOMAIN meta /\ m = meta[s]
        BY <1>3, <1>6, <3>2
      <4>. QED
        BY <1>3, <1>5, <1>8, <1>11, <3>2, <4>1 DEF MonitorInv, NeverForgotten
    <3>3. CASE t = s /\ r.outcome # "Ignored"
      BY <1>3, <1>8, <1>9, <1>10, <3>3
    <3>. QED
      BY <3>1, <3>2, <3>3
  <2>. QED
    BY <2>1, ForgottenNext
<1>15. CancelInv'
  <2>1. ASSUME NEW t \in DOMAIN meta', IsComplete(meta'[t]), meta'[t].timed_out,
               Completion(t) \notin Elems(timer_q')
        PROVE  /\ monitor' # None /\ monitor'.slot = t => monitor' = CancelRepair(t)
               /\ monitor' = CancelRepair(t) \/ Cancelled(repair_tx', t)
    <3>1. t \in DOMAIN meta /\ IsComplete(meta[t]) /\ meta[t].timed_out
      <4>1. CASE t # s
        BY <1>8, <2>1, <4>1
      <4>2. CASE t = s
        <5>1. r.outcome = "Ignored"
          BY <1>3, <1>8, <1>9, <1>10, <2>1, <4>2
        <5>. QED
          BY <1>3, <1>6, <1>8, <2>1, <4>2, <5>1
      <4>. QED
        BY <4>1, <4>2
    <3>2. Completion(t) \notin Elems(timer_q)
      BY <1>11, <2>1
    <3>. QED
      BY <1>5, <3>1, <3>2 DEF MonitorInv, CancelInv
  <2>. QED
    BY <2>1, CancelNext
<1>. QED
  BY <1>12, <1>13, <1>14, <1>15 DEF MonitorInv

\* What the monitor finds in its queue, and what it leaves there.
LEMMA MonitorReceives ==
  ASSUME IInv, NEW type, MonitorReady(type)
  PROVE  /\ timer_q \in Seq(TimerMsgs) /\ timer_q # <<>>
         /\ timer_q' = Tail(timer_q)
         /\ monitor = None
         /\ Head(timer_q).slot \in Slots
         /\ Head(timer_q) = [type |-> type, slot |-> Head(timer_q).slot]
         /\ \A x \in Elems(timer_q) : x # Head(timer_q) => x \in Elems(timer_q')
         /\ Elems(timer_q') \subseteq Elems(timer_q)
         /\ \A x, y : Followed(timer_q, x, y) => Followed(timer_q', x, y)
<1>1. /\ timer_q \in Seq(TimerMsgs) /\ timer_q # <<>>
      /\ timer_q' = Tail(timer_q) /\ monitor = None
      /\ Head(timer_q).type = type
  BY DEF IInv, TypeOK, MonitorReady
<1>2. Head(timer_q) \in TimerMsgs
  BY <1>1
<1>3. Head(timer_q) = [type |-> type, slot |-> Head(timer_q).slot]
      /\ Head(timer_q).slot \in Slots
  BY <1>1, <1>2 DEF TimerMsgs
<1>4. \A x \in Elems(timer_q) : x # Head(timer_q) => x \in Elems(timer_q')
  BY <1>1, ElemsSplit
<1>5. Elems(timer_q') \subseteq Elems(timer_q)
  BY <1>1, ElemsTail
<1>6. \A x, y : Followed(timer_q, x, y) => Followed(timer_q', x, y)
  BY <1>1, FollowedTail
<1>. QED
  BY <1>1, <1>3, <1>4, <1>5, <1>6

\* The monitor learns of an insertion: the slot has a timer afterwards, and if
\* it has been completed since, the completion is still to be received.
LEMMA MonitorInsertionMonitor ==
  ASSUME IInv, MonitorInv, MonitorInsertion
  PROVE  MonitorInv'
<1>. DEFINE h == Head(timer_q).slot
<1>1. MonitorReady("insertion")
  BY DEF MonitorInsertion
<1>2. /\ timer_q \in Seq(TimerMsgs) /\ timer_q # <<>>
      /\ timer_q' = Tail(timer_q)
      /\ Head(timer_q) = Insertion(h)
      /\ \A x \in Elems(timer_q) : x # Head(timer_q) => x \in Elems(timer_q')
      /\ Elems(timer_q') \subseteq Elems(timer_q)
      /\ \A x, y : Followed(timer_q, x, y) => Followed(timer_q', x, y)
  BY <1>1, MonitorReceives DEF Insertion
<1>3. /\ timers' = timers \cup {h}
      /\ armed' = IF h \in timers THEN armed ELSE armed \cup {h}
      /\ UNCHANGED <<meta, store_tx, detached, monitor, repair_tx>>
  BY DEF MonitorInsertion
<1>4. \A t : Completion(t) \in Elems(timer_q) => Completion(t) \in Elems(timer_q')
  BY <1>2, MessagesDiffer
<1>5. \A t : Timeout(t) \in Elems(timer_q) => Timeout(t) \in Elems(timer_q')
  BY <1>2, MessagesDiffer
<1>6. \A t : t # h /\ Insertion(t) \in Elems(timer_q)
               => Insertion(t) \in Elems(timer_q')
  BY <1>2, MessagesDiffer
<1>7. Followed(timer_q, Insertion(h), Completion(h))
        => Completion(h) \in Elems(timer_q')
  BY <1>2, FollowedHead
<1>. HIDE DEF h
<1>8. StoreInv'
  BY <1>3, StoreNext DEF MonitorInv, StoreInv
<1>9. QueueInv'
  <2>1. \A t \in timers' \ armed' : Timeout(t) \in Elems(timer_q')
    BY <1>3, <1>5 DEF MonitorInv, QueueInv
  <2>2. ASSUME NEW t \in DOMAIN meta'
        PROVE  IF IsComplete(meta'[t])
               THEN /\ Followed(timer_q', Insertion(t), Completion(t))
                    /\ t \in timers' => Completion(t) \in Elems(timer_q')
               ELSE Followed(timer_q', Completion(t), Insertion(t))
    BY <1>2, <1>3, <1>4, <1>7, <2>2 DEF MonitorInv, QueueInv
  <2>. QED
    BY <2>1, <2>2, QueueNext
<1>10. NeverForgotten'
  <2>1. ASSUME NEW t \in DOMAIN meta'
        PROVE  \/ IsComplete(meta'[t])
               \/ meta'[t].timed_out
               \/ t \in armed' \cup detached'
               \/ Insertion(t) \in Elems(timer_q')
               \/ Timeout(t) \in Elems(timer_q')
    <3>1. CASE t # h
      BY <1>3, <1>5, <1>6, <2>1, <3>1 DEF MonitorInv, NeverForgotten
    <3>2. CASE t = h
      BY <1>3, <1>5, <3>2 DEF MonitorInv, QueueInv
    <3>. QED
      BY <3>1, <3>2
  <2>. QED
    BY <2>1, ForgottenNext
<1>11. CancelInv'
  BY <1>3, <1>4, CancelNext DEF MonitorInv, CancelInv
<1>. QED
  BY <1>8, <1>9, <1>10, <1>11 DEF MonitorInv

\* The monitor learns of a completion: the timer goes, and a request that was
\* made is cancelled, at once or as soon as there is room.
LEMMA MonitorCompletionMonitor ==
  ASSUME IInv, MonitorInv, MonitorCompletion
  PROVE  MonitorInv'
<1>. DEFINE h == Head(timer_q).slot
<1>1. MonitorReady("completion")
  BY DEF MonitorCompletion
<1>2. /\ timer_q \in Seq(TimerMsgs) /\ timer_q # <<>>
      /\ timer_q' = Tail(timer_q)
      /\ monitor = None
      /\ h \in Slots
      /\ Head(timer_q) = Completion(h)
      /\ \A x \in Elems(timer_q) : x # Head(timer_q) => x \in Elems(timer_q')
      /\ Elems(timer_q') \subseteq Elems(timer_q)
      /\ \A x, y : Followed(timer_q, x, y) => Followed(timer_q', x, y)
  BY <1>1, MonitorReceives DEF Completion
<1>3. /\ timers' = timers \ {h}
      /\ armed' = armed \ {h}
      /\ UNCHANGED <<meta, store_tx, detached>>
      /\ IF h \in DOMAIN meta /\ meta[h].timed_out
         THEN SendRepair(CancelRepair(h))
         ELSE UNCHANGED <<repair_tx, monitor>>
  BY DEF MonitorCompletion
<1>4. \A t : t # h /\ Completion(t) \in Elems(timer_q)
               => Completion(t) \in Elems(timer_q')
  BY <1>2, MessagesDiffer
<1>5. \A t : Timeout(t) \in Elems(timer_q) => Timeout(t) \in Elems(timer_q')
  BY <1>2, MessagesDiffer
<1>6. \A t : Insertion(t) \in Elems(timer_q) => Insertion(t) \in Elems(timer_q')
  BY <1>2, MessagesDiffer
<1>7. Followed(timer_q, Completion(h), Insertion(h))
        => Insertion(h) \in Elems(timer_q')
  BY <1>2, FollowedHead
<1>8. repair_tx \in Seq(RepairReqs)
  BY DEF IInv, TypeOK
<1>9. DOMAIN meta \subseteq Slots
  BY DEF IInv, TypeOK
<1>. HIDE DEF h
<1>10. StoreInv'
  BY <1>3, StoreNext DEF MonitorInv, StoreInv
<1>11. QueueInv'
  <2>1. \A t \in timers' \ armed' : Timeout(t) \in Elems(timer_q')
    BY <1>3, <1>5 DEF MonitorInv, QueueInv
  <2>2. ASSUME NEW t \in DOMAIN meta'
        PROVE  IF IsComplete(meta'[t])
               THEN /\ Followed(timer_q', Insertion(t), Completion(t))
                    /\ t \in timers' => Completion(t) \in Elems(timer_q')
               ELSE Followed(timer_q', Completion(t), Insertion(t))
    BY <1>2, <1>3, <1>4, <2>2 DEF MonitorInv, QueueInv
  <2>. QED
    BY <2>1, <2>2, QueueNext
<1>12. NeverForgotten'
  <2>1. ASSUME NEW t \in DOMAIN meta'
        PROVE  \/ IsComplete(meta'[t])
               \/ meta'[t].timed_out
               \/ t \in armed' \cup detached'
               \/ Insertion(t) \in Elems(timer_q')
               \/ Timeout(t) \in Elems(timer_q')
    <3>1. CASE t # h
      BY <1>3, <1>5, <1>6, <2>1, <3>1 DEF MonitorInv, NeverForgotten
    <3>2. CASE t = h
      BY <1>3, <1>7, <2>1, <3>2 DEF MonitorInv, QueueInv
    <3>. QED
      BY <3>1, <3>2
  <2>. QED
    BY <2>1, ForgottenNext
<1>13. CancelInv'
  <2>1. ASSUME NEW t \in DOMAIN meta', IsComplete(meta'[t]), meta'[t].timed_out,
               Completion(t) \notin Elems(timer_q')
        PROVE  /\ monitor' # None /\ monitor'.slot = t => monitor' = CancelRepair(t)
               /\ monitor' = CancelRepair(t) \/ Cancelled(repair_tx', t)
    <3>1. /\ t \in DOMAIN meta /\ t \in Slots
          /\ IsComplete(meta[t]) /\ meta[t].timed_out
      BY <1>3, <1>9, <2>1
    <3>2. CancelRepair(h).slot = h /\ CancelRepair(t) # None
      BY <1>2, <3>1, CancelFields
    <3>3. CASE t = h
      <4>1. \/ repair_tx' = Append(repair_tx, CancelRepair(h)) /\ monitor' = monitor
            \/ monitor' = CancelRepair(h)
        BY <1>3, <3>1, <3>3 DEF SendRepair
      <4>2. Cancelled(Append(repair_tx, CancelRepair(h)), h)
        BY <1>8, CancelledAppend
      <4>. QED
        BY <1>2, <3>3, <4>1, <4>2
    <3>4. CASE t # h
      <4>1. Cancelled(repair_tx, t)
        BY <1>2, <1>4, <2>1, <3>1, <3>2, <3>4 DEF MonitorInv, CancelInv
      <4>2. \/ repair_tx' = Append(repair_tx, CancelRepair(h)) /\ monitor' = monitor
            \/ repair_tx' = repair_tx /\ monitor' = CancelRepair(h)
            \/ UNCHANGED <<repair_tx, monitor>>
        BY <1>3 DEF SendRepair
      <4>3. Cancelled(Append(repair_tx, CancelRepair(h)), t)
        BY <1>8, <3>2, <3>4, <4>1, CancelledAppend
      <4>. QED
        BY <1>2, <3>2, <3>4, <4>1, <4>2, <4>3
    <3>. QED
      BY <3>3, <3>4
  <2>. QED
    BY <2>1, CancelNext
<1>. QED
  BY <1>10, <1>11, <1>12, <1>13 DEF MonitorInv

\* The monitor learns of an expiry: repair is asked for and recorded, or the
\* slot is complete or gone.
LEMMA MonitorTimeoutMonitor ==
  ASSUME IInv, MonitorInv, MonitorTimeout
  PROVE  MonitorInv'
<1>. DEFINE h == Head(timer_q).slot
            stale == h \in DOMAIN meta /\ ~IsComplete(meta[h])
            req == MissingShreds(h, meta[h])
<1>1. MonitorReady("timeout")
  BY DEF MonitorTimeout
<1>2. /\ monitor = None
      /\ Head(timer_q) = Timeout(h)
      /\ \A x \in Elems(timer_q) : x # Head(timer_q) => x \in Elems(timer_q')
      /\ \A x, y : Followed(timer_q, x, y) => Followed(timer_q', x, y)
  BY <1>1, MonitorReceives DEF Timeout
<1>3. /\ timers' = timers \ {h}
      /\ armed' = armed \ {h}
      /\ detached \subseteq detached'
      /\ UNCHANGED store_tx
  BY DEF MonitorTimeout, DropTimer
<1>4. \/ stale /\ meta' = [meta EXCEPT ![h].timed_out = TRUE] /\ SendRepair(req)
      \/ ~stale /\ UNCHANGED <<meta, repair_tx, monitor>>
  BY DEF MonitorTimeout
<1>5. \A t : Completion(t) \in Elems(timer_q) => Completion(t) \in Elems(timer_q')
  BY <1>2, MessagesDiffer
<1>6. \A t : t # h /\ Timeout(t) \in Elems(timer_q) => Timeout(t) \in Elems(timer_q')
  BY <1>2, MessagesDiffer
<1>7. \A t : Insertion(t) \in Elems(timer_q) => Insertion(t) \in Elems(timer_q')
  BY <1>2, MessagesDiffer
<1>8. repair_tx \in Seq(RepairReqs) /\ DOMAIN meta \subseteq Slots
      /\ \A t \in DOMAIN meta : meta[t] \in Metadata
  BY DEF IInv, TypeOK
<1>9. req.slot = h
  BY DEF MissingShreds
<1>10. /\ DOMAIN meta' = DOMAIN meta
       /\ \A t \in DOMAIN meta : t # h \/ ~stale => meta'[t] = meta[t]
       /\ stale => meta'[h].timed_out
       /\ \A t \in DOMAIN meta : /\ meta'[t].data = meta[t].data
                                 /\ meta'[t].completed = meta[t].completed
                                 /\ meta'[t].required = meta[t].required
  <2>1. CASE ~stale
    BY <1>4, <2>1
  <2>2. CASE stale
    <3>1. /\ DOMAIN meta' = DOMAIN meta
          /\ \A t \in DOMAIN meta : t # h => meta'[t] = meta[t]
      BY <1>4, <2>2
    <3>2. meta'[h] = [meta[h] EXCEPT !.timed_out = TRUE]
      BY <1>4, <2>2
    <3>3. /\ meta'[h].timed_out /\ meta'[h].data = meta[h].data
          /\ meta'[h].completed = meta[h].completed
          /\ meta'[h].required = meta[h].required
      BY <1>8, <2>2, <3>2 DEF Metadata
    <3>. QED
      BY <2>2, <3>1, <3>3
  <2>. QED
    BY <2>1, <2>2
<1>11. \A t \in DOMAIN meta : IsComplete(meta'[t]) <=> IsComplete(meta[t])
  BY <1>10 DEF IsComplete
<1>. HIDE DEF h, req
<1>12. StoreInv'
  <2>1. \A t \in DOMAIN meta : LastLearnt(t, meta[t]) => LastLearnt(t, meta'[t])
    BY <1>10 DEF LastLearnt
  <2>. QED
    BY <1>3, <1>10, <2>1, StoreNext DEF MonitorInv, StoreInv
<1>13. QueueInv'
  <2>1. \A t \in timers' \ armed' : Timeout(t) \in Elems(timer_q')
    BY <1>3, <1>6 DEF MonitorInv, QueueInv
  <2>2. ASSUME NEW t \in DOMAIN meta'
        PROVE  IF IsComplete(meta'[t])
               THEN /\ Followed(timer_q', Insertion(t), Completion(t))
                    /\ t \in timers' => Completion(t) \in Elems(timer_q')
               ELSE Followed(timer_q', Completion(t), Insertion(t))
    BY <1>2, <1>3, <1>5, <1>10, <1>11, <2>2 DEF MonitorInv, QueueInv
  <2>. QED
    BY <2>1, <2>2, QueueNext
<1>14. NeverForgotten'
  <2>1. ASSUME NEW t \in DOMAIN meta'
        PROVE  \/ IsComplete(meta'[t])
               \/ meta'[t].timed_out
               \/ t \in armed' \cup detached'
               \/ Insertion(t) \in Elems(timer_q')
               \/ Timeout(t) \in Elems(timer_q')
    <3>1. CASE t # h
      BY <1>3, <1>6, <1>7, <1>10, <2>1, <3>1 DEF MonitorInv, NeverForgotten
    <3>2. CASE t = h
      BY <1>10, <1>11, <2>1, <3>2
    <3>. QED
      BY <3>1, <3>2
  <2>. QED
    BY <2>1, ForgottenNext
<1>15. CancelInv'
  <2>1. ASSUME NEW t \in DOMAIN meta', IsComplete(meta'[t]), meta'[t].timed_out,
               Completion(t) \notin Elems(timer_q')
        PROVE  /\ monitor' # None /\ monitor'.slot = t => monitor' = CancelRepair(t)
               /\ monitor' = CancelRepair(t) \/ Cancelled(repair_tx', t)
    <3>1. t \in DOMAIN meta /\ IsComplete(meta[t]) /\ t \in Slots
      BY <1>8, <1>10, <1>11, <2>1
    <3>2. t # h \/ ~stale
      BY <3>1
    <3>3. CancelRepair(t) # None
      BY <3>1, CancelFields
    <3>4. Cancelled(repair_tx, t)
      BY <1>2, <1>5, <1>10, <2>1, <3>1, <3>2, <3>3 DEF MonitorInv, CancelInv
    <3>5. CASE ~stale
      BY <1>2, <1>4, <3>4, <3>5
    <3>6. CASE stale /\ t # h
      <4>1. \/ repair_tx' = Append(repair_tx, req) /\ monitor' = monitor
            \/ repair_tx' = repair_tx /\ monitor' = req
        BY <1>4, <3>6 DEF SendRepair
      <4>2. Cancelled(Append(repair_tx, req), t)
        BY <1>8, <1>9, <3>4, <3>6, CancelledAppend
      <4>. QED
        BY <1>2, <1>9, <3>4, <3>6, <4>1, <4>2
    <3>. QED
      BY <3>2, <3>5, <3>6
  <2>. QED
    BY <2>1, CancelNext
<1>. QED
  BY <1>12, <1>13, <1>14, <1>15 DEF MonitorInv

\* A timer fires, one of the map or a detached one: its expiry is under way.
LEMMA TimerMonitor ==
  ASSUME IInv, MonitorInv, NEW h \in Slots, TimerFires(h) \/ DetachedFires(h)
  PROVE  MonitorInv'
<1>1. /\ timer_q' = Append(timer_q, Timeout(h))
      /\ armed \cup detached \subseteq armed' \cup detached' \cup {h}
      /\ timers' = timers /\ armed \subseteq armed' \cup {h}
      /\ UNCHANGED <<meta, store_tx, monitor, repair_tx>>
  BY DEF TimerFires, DetachedFires
<1>2. timer_q \in Seq(TimerMsgs)
  BY DEF IInv, TypeOK
<1>3. Elems(timer_q') = Elems(timer_q) \cup {Timeout(h)}
  BY <1>1, <1>2, ElemsAppend
<1>4. StoreInv'
  BY <1>1, StoreNext DEF MonitorInv, StoreInv
<1>5. QueueInv'
  <2>1. \A t \in timers' \ armed' : Timeout(t) \in Elems(timer_q')
    BY <1>1, <1>3 DEF MonitorInv, QueueInv
  <2>2. ASSUME NEW t \in DOMAIN meta'
        PROVE  IF IsComplete(meta'[t])
               THEN /\ Followed(timer_q', Insertion(t), Completion(t))
                    /\ t \in timers' => Completion(t) \in Elems(timer_q')
               ELSE Followed(timer_q', Completion(t), Insertion(t))
    <3>1. Timeout(h) # Insertion(t) /\ Timeout(h) # Completion(t)
      BY MessagesDiffer
    <3>2. \A x, y : x \in {Completion(t), Insertion(t)} /\ Followed(timer_q, x, y)
                      => Followed(timer_q', x, y)
      BY <1>1, <1>2, <3>1, FollowedAppend
    <3>. QED
      BY <1>1, <1>3, <2>2, <3>2 DEF MonitorInv, QueueInv
  <2>. QED
    BY <2>1, <2>2, QueueNext
<1>6. NeverForgotten'
  <2>1. ASSUME NEW t \in DOMAIN meta'
        PROVE  \/ IsComplete(meta'[t])
               \/ meta'[t].timed_out
               \/ t \in armed' \cup detached'
               \/ Insertion(t) \in Elems(timer_q')
               \/ Timeout(t) \in Elems(timer_q')
    BY <1>1, <1>3, <2>1 DEF MonitorInv, NeverForgotten
  <2>. QED
    BY <2>1, ForgottenNext
<1>7. CancelInv'
  BY <1>1, <1>3, CancelNext DEF MonitorInv, CancelInv
<1>. QED
  BY <1>4, <1>5, <1>6, <1>7 DEF MonitorInv

\* The steps that touch neither the metadata nor the timers and their queue.
LEMMA FrameMonitor ==
  ASSUME MonitorInv, CancelInv',
         UNCHANGED <<meta, store_tx, timers, armed, detached, timer_q>>
  PROVE  MonitorInv'
<1>1. StoreInv'
  BY StoreNext DEF MonitorInv, StoreInv
<1>2. QueueInv'
  BY QueueNext DEF MonitorInv, QueueInv
<1>3. NeverForgotten'
  BY ForgottenNext DEF MonitorInv, NeverForgotten
<1>. QED
  BY <1>1, <1>2, <1>3 DEF MonitorInv

\* The waiting monitor sends: a cancellation lands behind the requests.
LEMMA MonitorResumesMonitor ==
  ASSUME IInv, MonitorInv, MonitorResumes
  PROVE  MonitorInv'
<1>1. /\ monitor # None /\ monitor' = None
      /\ repair_tx' = Append(repair_tx, monitor)
      /\ UNCHANGED <<meta, store_tx, timers, armed, detached, timer_q>>
  BY DEF MonitorResumes
<1>2. repair_tx \in Seq(RepairReqs)
  BY DEF IInv, TypeOK
<1>3. ASSUME NEW t \in DOMAIN meta', IsComplete(meta'[t]), meta'[t].timed_out,
             Completion(t) \notin Elems(timer_q')
      PROVE  Cancelled(repair_tx', t)
  <2>1. /\ monitor.slot = t => monitor = CancelRepair(t)
        /\ monitor = CancelRepair(t) \/ Cancelled(repair_tx, t)
    BY <1>1, <1>3 DEF MonitorInv, CancelInv
  <2>. QED
    BY <1>1, <1>2, <2>1, CancelledAppend
<1>4. CancelInv'
  BY <1>1, <1>3, CancelNext
<1>. QED
  BY <1>1, <1>4, FrameMonitor

\* The repair manager takes a message.
LEMMA RepairTakesMonitor ==
  ASSUME IInv, MonitorInv, RepairTakes
  PROVE  MonitorInv'
<1>1. /\ repair_tx # <<>> /\ repair_tx' = Tail(repair_tx)
      /\ UNCHANGED <<meta, store_tx, timers, armed, detached, timer_q, monitor>>
  BY DEF RepairTakes
<1>2. repair_tx \in Seq(RepairReqs)
  BY DEF IInv, TypeOK
<1>3. \A t : Cancelled(repair_tx, t) => Cancelled(repair_tx', t)
  BY <1>1, <1>2, CancelledTail
<1>4. CancelInv'
  BY <1>1, <1>3, CancelNext DEF MonitorInv, CancelInv
<1>. QED
  BY <1>1, <1>4, FrameMonitor

-----------------------------------------------------------------------------
\* MonitorInv is inductive, given IInv.
THEOREM MonitorInvHolds == Spec => []MonitorInv
<1>1. Init => MonitorInv
  <2>1. SUFFICES ASSUME Init PROVE MonitorInv
    OBVIOUS
  <2>2. DOMAIN meta = {} /\ timers = {}
    BY <2>1 DEF Init
  <2>. QED
    BY <2>2 DEF MonitorInv, StoreInv, QueueInv, NeverForgotten, CancelInv
<1>2. IInv /\ MonitorInv /\ [Next]_vars => MonitorInv'
  <2>1. SUFFICES ASSUME IInv, MonitorInv, [Next]_vars
                 PROVE  MonitorInv'
    OBVIOUS
  <2>2. ASSUME NEW sh \in Shreds, HandleShred(sh)
        PROVE  MonitorInv'
    BY <2>1, <2>2, HandleShredMonitor
  <2>3. CASE MonitorInsertion
    BY <2>1, <2>3, MonitorInsertionMonitor
  <2>4. CASE MonitorCompletion
    BY <2>1, <2>4, MonitorCompletionMonitor
  <2>5. CASE MonitorTimeout
    BY <2>1, <2>5, MonitorTimeoutMonitor
  <2>6. CASE MonitorResumes
    BY <2>1, <2>6, MonitorResumesMonitor
  <2>7. CASE RepairTakes
    BY <2>1, <2>7, RepairTakesMonitor
  <2>8. ASSUME NEW s \in Slots, TimerFires(s) \/ DetachedFires(s)
        PROVE  MonitorInv'
    BY <2>1, <2>8, TimerMonitor
  <2>9. CASE \/ \E sh \in Shreds : HandleShredLocked(sh)
             \/ HandlerResumes
             \/ GrpcTakes
             \/ UNCHANGED vars
    <3>1. UNCHANGED <<meta, store_tx, timers, armed, detached, timer_q, monitor,
                      repair_tx>>
      BY <2>9 DEF HandleShredLocked, HandlerResumes, GrpcTakes, vars
    <3>2. CancelInv'
      BY <2>1, <3>1, CancelNext DEF MonitorInv, CancelInv
    <3>. QED
      BY <2>1, <3>1, <3>2, FrameMonitor
  <2>. QED
    BY <2>1, <2>2, <2>3, <2>4, <2>5, <2>6, <2>7, <2>8, <2>9 DEF Next
<1>. QED
  BY <1>1, <1>2, IInvHolds, PTL DEF Spec

\* Whatever the order in which batches close and the last shred arrives, a slot
\* the cache calls complete is in the shred store in full.
THEOREM CompleteSlotsStored == Spec => []StoreHasCompleteSlot
<1>1. IInv /\ MonitorInv => StoreHasCompleteSlot
  <2>1. SUFFICES ASSUME IInv, MonitorInv, NEW s \in DOMAIN meta,
                        IsComplete(meta[s]),
                        NEW f \in FecSets(NumBatches[s])
                 PROVE  \E b \in store_tx :
                          b.slot = s /\ b.fec = f /\ Recoverable(b, f)
    BY DEF StoreHasCompleteSlot
  <2>2. s \in Slots /\ GoodMeta(s, meta[s])
    BY <2>1 DEF IInv, TypeOK, MetaInv
  <2>3. meta[s].completed = FecSets(NumBatches[s])
    BY <2>1, <2>2, CompleteHasAll
  <2>. QED
    BY <2>1, <2>3 DEF MonitorInv, StoreInv
<1>. QED
  BY <1>1, IInvHolds, MonitorInvHolds, PTL

\* No incomplete slot is left without a timer, a message that will start or
\* report one, or a request for repair, whatever is evicted or delayed.
THEOREM IncompleteSlotsRemembered == Spec => []NeverForgotten
<1>1. MonitorInv => NeverForgotten
  BY DEF MonitorInv
<1>. QED
  BY <1>1, MonitorInvHolds, PTL

\* A slot whose completion the monitor has seen has no timer, and no request
\* for it is queued without a cancellation behind it.
THEOREM CompleteSlotsQuiet == Spec => []QuietWhenComplete
<1>1. IInv /\ MonitorInv => QuietWhenComplete
  <2>1. SUFFICES ASSUME IInv, MonitorInv, NEW s \in Slots, Settled(s)
                 PROVE  /\ s \notin timers
                        /\ meta[s].timed_out =>
                             \A i \in 1 .. Len(repair_tx) :
                               repair_tx[i].slot = s =>
                                 \E j \in i .. Len(repair_tx) :
                                   repair_tx[j] = CancelRepair(s)
    BY DEF QuietWhenComplete
  <2>2. /\ s \in DOMAIN meta /\ IsComplete(meta[s])
        /\ Completion(s) \notin Elems(timer_q) /\ monitor = None
    BY <2>1 DEF Settled
  <2>3. s \notin timers
    BY <2>1, <2>2 DEF MonitorInv, QueueInv
  <2>4. ASSUME meta[s].timed_out, NEW i \in 1 .. Len(repair_tx),
               repair_tx[i].slot = s
        PROVE  \E j \in i .. Len(repair_tx) : repair_tx[j] = CancelRepair(s)
    <3>1. Cancelled(repair_tx, s)
      BY <2>1, <2>2, <2>4, CancelFields DEF MonitorInv, CancelInv
    <3>2. PICK j \in 1 .. Len(repair_tx) : i <= j /\ repair_tx[j] = CancelRepair(s)
      BY <2>4, <3>1 DEF Cancelled
    <3>. QED
      BY <2>4, <3>2
  <2>. QED
    BY <2>3, <2>4
<1>. QED
  BY <1>1, IInvHolds, MonitorInvHolds, PTL

-----------------------------------------------------------------------------
(* What is asked for.                                                      *)

\* What a step may add to the requests under way.
Sufficient(req) ==
  req.type = "bounded" =>
    \A f \in FecSets(NumBatches[req.slot]) :
      \/ f \in meta[req.slot].completed
      \/ FecSet(f) \subseteq meta[req.slot].data \cup req.shreds

\* The request calculate_missing_shreds_bounded makes is sufficient.
LEMMA MissingSufficient ==
  ASSUME IInv, NEW s \in DOMAIN meta
  PROVE  Sufficient(MissingShreds(s, meta[s]))
<1>. DEFINE m == meta[s]
            req == MissingShreds(s, m)
<1>1. GoodMeta(s, m)
  BY DEF IInv, MetaInv
<1>2. CASE m.required = None
  BY <1>2 DEF MissingShreds, Sufficient
<1>3. CASE m.required # None
  <2>1. req = [type |-> "bounded", slot |-> s, shreds |-> MissingBounded(m)]
    BY <1>3 DEF MissingShreds
  <2>2. m.required = NumBatches[s]
    BY <1>1, <1>3 DEF GoodMeta
  <2>3. \A f \in FecSets(NumBatches[s]) :
          f \notin m.completed => FecSet(f) \ m.data \subseteq MissingBounded(m)
    BY <2>2 DEF MissingBounded
  <2>4. req.slot = s /\ req.shreds = MissingBounded(m)
    BY <2>1
  <2>. HIDE DEF req
  <2>5. \A f \in FecSets(NumBatches[s]) :
          f \in m.completed \/ FecSet(f) \subseteq m.data \cup req.shreds
    BY <2>3, <2>4
  <2>. QED
    BY <2>4, <2>5 DEF Sufficient, req
<1>. QED
  BY <1>2, <1>3

\* What a send to the repair manager adds to the requests under way.
LEMMA SendAsks ==
  ASSUME IInv, NEW msg, SendRepair(msg)
  PROVE  Asked' \subseteq Asked \cup {msg}
<1>1. repair_tx \in Seq(RepairReqs)
  BY DEF IInv, TypeOK
<1>2. CASE repair_tx' = Append(repair_tx, msg) /\ UNCHANGED monitor
  BY <1>1, <1>2, ElemsAppend DEF Asked, Elems
<1>3. CASE monitor' = msg /\ UNCHANGED repair_tx
  BY <1>3 DEF Asked, Elems
<1>. QED
  BY <1>2, <1>3 DEF SendRepair

\* Whenever the monitor makes a bounded request, what it asks for and what has
\* been filed together complete every FEC set of the block.
THEOREM BoundedRequestsSuffice == Spec => BoundedRequestSuffices
<1>1. ASSUME IInv, [Next]_vars
      PROVE  \A req \in Asked' \ Asked : Sufficient(req)
  <2>1. CASE UNCHANGED <<monitor, repair_tx>>
    BY <2>1 DEF Asked, Elems
  <2>2. CASE MonitorCompletion
    <3>. DEFINE c == CancelRepair(Head(timer_q).slot)
    <3>1. Asked' \subseteq Asked \cup {c}
      <4>1. CASE SendRepair(c)
        BY <1>1, <4>1, SendAsks
      <4>2. CASE UNCHANGED <<monitor, repair_tx>>
        BY <4>2 DEF Asked, Elems
      <4>. QED
        BY <2>2, <4>1, <4>2 DEF MonitorCompletion
    <3>2. c.type # "bounded"
      BY DEF CancelRepair
    <3>. QED
      BY <3>1, <3>2 DEF Sufficient
  <2>3. CASE MonitorTimeout
    <3>. DEFINE h == Head(timer_q).slot
                req == MissingShreds(h, meta[h])
    <3>1. CASE UNCHANGED <<monitor, repair_tx>>
      BY <3>1 DEF Asked, Elems
    <3>2. CASE h \in DOMAIN meta /\ SendRepair(req)
      <4>1. Asked' \subseteq Asked \cup {req}
        BY <1>1, <3>2, SendAsks
      <4>2. Sufficient(req)
        BY <1>1, <3>2, MissingSufficient
      <4>. QED
        BY <4>1, <4>2
    <3>. QED
      BY <2>3, <3>1, <3>2 DEF MonitorTimeout
  <2>4. CASE MonitorResumes
    <3>1. /\ monitor # None /\ monitor' = None
          /\ repair_tx' = Append(repair_tx, monitor)
          /\ repair_tx \in Seq(RepairReqs)
      BY <1>1, <2>4 DEF MonitorResumes, IInv, TypeOK
    <3>2. Elems(repair_tx') = Elems(repair_tx) \cup {monitor}
      BY <3>1, ElemsAppend
    <3>3. Asked' \subseteq Asked
      BY <3>1, <3>2 DEF Asked, Elems
    <3>. QED
      BY <3>3
  <2>5. CASE RepairTakes
    <3>1. /\ repair_tx # <<>> /\ repair_tx' = Tail(repair_tx)
          /\ UNCHANGED monitor /\ repair_tx \in Seq(RepairReqs)
      BY <1>1, <2>5 DEF RepairTakes, IInv, TypeOK
    <3>2. Elems(repair_tx') \subseteq Elems(repair_tx)
      BY <3>1, ElemsTail
    <3>3. Asked' \subseteq Asked
      BY <3>1, <3>2 DEF Asked, Elems
    <3>. QED
      BY <3>3
  <2>6. CASE \/ \E sh \in Shreds : HandleShred(sh) \/ HandleShredLocked(sh)
             \/ HandlerResumes
             \/ MonitorInsertion
             \/ \E s \in Slots : TimerFires(s) \/ DetachedFires(s)
             \/ GrpcTakes
             \/ UNCHANGED vars
    <3>1. UNCHANGED <<monitor, repair_tx>>
      BY <2>6 DEF HandleShred, HandleShredLocked, HandlerResumes,
                  MonitorInsertion, TimerFires, DetachedFires, GrpcTakes, vars
    <3>. QED
      BY <2>1, <3>1
  <2>. QED
    BY <1>1, <2>2, <2>3, <2>4, <2>5, <2>6 DEF Next
<1>2. IInv /\ [Next]_vars
        => [\A req \in Asked' \ Asked :
              req.type = "bounded" =>
                \A f \in FecSets(NumBatches[req.slot]) :
                  \/ f \in meta[req.slot].completed
                  \/ FecSet(f) \subseteq meta[req.slot].data \cup req.shreds]_vars
  BY <1>1 DEF Sufficient
<1>. QED
  BY <1>2, IInvHolds, PTL DEF Spec, BoundedRequestSuffices
=============================================================================
