------------------------------ MODULE SlotMeta ------------------------------
(***************************************************************************)
(* Slot assembly (store/slot_meta.rs).                                     *)
(*                                                                         *)
(* Two tasks share one Glommio thread.  The metadata handler files every   *)
(* verified shred under its slot, closes FEC batches, and hands a finished *)
(* batch to the shred store and a finished slot to the gRPC side.  The     *)
(* staleness monitor keeps one 200 ms timer per slot; when it expires it   *)
(* asks the repair manager for the shreds that are missing, and when the   *)
(* slot completes it withdraws that request.  The tasks communicate        *)
(* through an unbounded local channel; the outgoing repair and gRPC        *)
(* channels are bounded, so sending on them is a point where a task may    *)
(* be suspended.                                                           *)
(*                                                                         *)
(* A shred is what survives the packet filter: a signed member of the      *)
(* leader's block for its slot, so its index, kind, FEC set index and last *)
(* flag are those of that block.  Loss, duplication and reordering are all *)
(* expressed by which shreds HandleShred is given and when.                *)
(***************************************************************************)
EXTENDS Naturals, Sequences, FiniteSets

CONSTANTS
  Slots,       \* slot numbers
  FecSize,     \* DATA_SHREDS_PER_FEC_SET (32 in the code)
  NumBatches,  \* [Slots -> Nat \ {0}]: FEC sets in the leader's block
  BucketCap,   \* entries one bucket of the slot cache holds
  GrpcCap,     \* capacity of grpc_slot_meta (1000 in the code)
  RepairCap,   \* capacity of the repair channel (10000 in the code)
  Bucket,      \* [Slots -> bucket]: the cache bucket a slot is hashed to
  Backlog,     \* bound: messages the monitor may fall behind the handler
  None         \* Option::None, and an idle task

ASSUME FecSizeAssumption == FecSize \in Nat \ {0}
ASSUME NumBatchesAssumption == NumBatches \in [Slots -> Nat \ {0}]
ASSUME CapAssumption ==
  {BucketCap, GrpcCap, RepairCap, Backlog} \subseteq Nat \ {0}
ASSUME NoneAssumption == None \notin Nat

VARIABLES
  meta,      \* the slot cache: a function from the cached slots to metadata
  store_tx,  \* finished batches handed to the shred store
  grpc_tx,   \* finished slots waiting for the gRPC side
  handler,   \* None, or the finished slot the handler is waiting to send
  timers,    \* slots with an entry in the monitor's timer map
  armed,     \* those of them whose timer has still to fire
  detached,  \* slots with a running timer that is no longer in the map
  timer_q,   \* the local channel into the monitor
  monitor,   \* None, or the repair message the monitor is waiting to send
  repair_tx, \* the channel into the repair manager
  wedged     \* the executor thread is blocked on a cache bucket it holds

vars == <<meta, store_tx, grpc_tx, handler, timers, armed, detached, timer_q,
          monitor, repair_tx, wedged>>

-----------------------------------------------------------------------------
(* Shreds and blocks.                                                      *)

DataIndexes(s) == 0 .. (FecSize * NumBatches[s] - 1)

\* Data and coding shreds are numbered alike: an FEC set has FecSize of each.
Shreds ==
  UNION {[slot : {s}, kind : {"data", "code"}, index : DataIndexes(s)] :
           s \in Slots}

Fec(i) == i - (i % FecSize)

FecSets(n) == {FecSize * k : k \in 0 .. (n - 1)}

FecSet(f) == f .. (f + FecSize - 1)

\* ShredFlags::LAST_SHRED_IN_SLOT.
IsLast(sh) ==
  /\ sh.kind = "data"
  /\ sh.index = FecSize * NumBatches[sh.slot] - 1

-----------------------------------------------------------------------------
(* SlotMetadata.                                                           *)

\* data and code stand for fec_data_map and fec_coding_map (an index
\* determines its FEC set); batch_shreds holds the same shreds until they are
\* drained at completion, after which no shred is accepted any more.
Fresh ==
  [data |-> {}, code |-> {}, completed |-> {}, required |-> None,
   max_inclusive |-> 0, timed_out |-> FALSE]

IsComplete(m) == Cardinality(m.completed) = m.required

InSet(is, f) == {i \in is : Fec(i) = f}

BatchCount(m, f) == Cardinality(InSet(m.data, f)) + Cardinality(InSet(m.code, f))

\* Mutant: a batch closes one shred early.
BatchFullEarly(m, f) == BatchCount(m, f) + 1 >= FecSize

BatchFull(m, f) == BatchCount(m, f) >= FecSize

\* Mutant: the last batch is not counted.
LearnRequiredShort(m, sh) ==
  IF IsLast(sh) THEN [m EXCEPT !.required = Fec(sh.index) \div FecSize] ELSE m

\* The last shred of the slot tells how many batches it has.
LearnRequired(m, sh) ==
  IF IsLast(sh)
  THEN [m EXCEPT !.required = (Fec(sh.index) + FecSize) \div FecSize]
  ELSE m

Insert(m, sh) ==
  [m EXCEPT
     !.data = IF sh.kind = "data" THEN @ \cup {sh.index} ELSE @,
     !.code = IF sh.kind = "code" THEN @ \cup {sh.index} ELSE @,
     !.max_inclusive = IF sh.index > @ THEN sh.index ELSE @]

CloseBatch(m, f) ==
  IF BatchFull(m, f) THEN [m EXCEPT !.completed = @ \cup {f}] ELSE m

\* The shreds of one batch, as they go to the shred store.
Batch(m, s, f) ==
  [slot |-> s, fec |-> f, data |-> InSet(m.data, f), code |-> InSet(m.code, f)]

\* store_shred: the metadata after filing sh, the outcome, and the batches
\* (none or one) that go to the store.  A shred of a finished batch is
\* ignored, unless it is the last shred and thereby completes the slot.
StoreShred(m, sh) ==
  LET f  == Fec(sh.index)
      m1 == LearnRequired(m, sh)
      m2 == CloseBatch(Insert(m1, sh), f)
      duplicate == sh.index \in (IF sh.kind = "data" THEN m.data ELSE m.code)
      Res(n, outcome, batches) ==
        [meta |-> n, outcome |-> outcome, batches |-> batches]
  IN CASE IsComplete(m) -> Res(m, "Ignored", {})
       [] ~IsComplete(m) /\ f \in m.completed ->
            Res(m1, IF IsComplete(m1) THEN "Complete" ELSE "Ignored", {})
       [] ~IsComplete(m) /\ f \notin m.completed /\ duplicate ->
            Res(m1, "Ignored", {})
       [] OTHER ->
            Res(m2,
                CASE IsComplete(m2) -> "Complete"
                  [] ~IsComplete(m2) /\ f \in m2.completed -> "BatchComplete"
                  [] OTHER -> "Incomplete",
                IF f \in m2.completed THEN {Batch(m2, sh.slot, f)} ELSE {})

-----------------------------------------------------------------------------
(* What to repair.                                                         *)

\* Mutant: batches that finished are not skipped, the unfinished ones are.
MissingBoundedSwapped(m) ==
  UNION {FecSet(f) \ m.data : f \in FecSets(m.required) \cap m.completed}

MissingBounded(m) ==
  UNION {FecSet(f) \ m.data : f \in FecSets(m.required) \ m.completed}

\* Only batches with a data shred count as seen: max_batch ranges over
\* fec_data_map, and a batch below it without data is asked for in full.
MissingUnbounded(m) ==
  LET seen  == {Fec(i) : i \in m.data}
      below == UNION {{f \in FecSets(g) : f < g} : g \in seen}
  IN UNION ({FecSet(f) \ m.data : f \in seen \ m.completed}
              \cup {FecSet(f) : f \in below \ seen})

MissingShreds(s, m) ==
  IF m.required # None
  THEN [type |-> "bounded", slot |-> s, shreds |-> MissingBounded(m)]
  ELSE [type |-> "unbounded", slot |-> s, shreds |-> MissingUnbounded(m),
        max_inclusive |-> m.max_inclusive]

CancelRepair(s) == [type |-> "cancel", slot |-> s]

-----------------------------------------------------------------------------
Insertion(s)  == [type |-> "insertion", slot |-> s]
Completion(s) == [type |-> "completion", slot |-> s]
Timeout(s)    == [type |-> "timeout", slot |-> s]

SlotRaw(s, m) == [slot |-> s, data |-> m.data, code |-> m.code]

Init ==
  /\ meta = [s \in {} |-> Fresh]
  /\ store_tx = {}
  /\ grpc_tx = <<>>
  /\ handler = None
  /\ timers = {}
  /\ armed = {}
  /\ detached = {}
  /\ timer_q = <<>>
  /\ monitor = None
  /\ repair_tx = <<>>
  /\ wedged = FALSE

\* The cached slots after an access to slot s.  A slot that is not cached gets
\* an entry; if its bucket is full, another entry of the bucket is dropped.
InBucket(s) == {t \in DOMAIN meta : Bucket[t] = Bucket[s]}

Cached(s) ==
  CASE s \in DOMAIN meta -> {DOMAIN meta}
    [] s \notin DOMAIN meta /\ Cardinality(InBucket(s)) < BucketCap ->
         {DOMAIN meta \cup {s}}
    [] OTHER -> {(DOMAIN meta \ {v}) \cup {s} : v \in InBucket(s)}

Entry(s) == IF s \in DOMAIN meta THEN meta[s] ELSE Fresh

BucketLocked(s) == monitor # None /\ Bucket[monitor.slot] = Bucket[s]

\* grpc_tx.send: immediate while there is room, otherwise the handler waits.
SendGrpc(raw) ==
  IF Len(grpc_tx) < GrpcCap
  THEN grpc_tx' = Append(grpc_tx, raw) /\ UNCHANGED handler
  ELSE handler' = raw /\ UNCHANGED grpc_tx

\* One shred goes through store_shred and its outcome is reported.
HandleShred(sh) ==
  LET s == sh.slot
      r == StoreShred(Entry(s), sh)
  IN /\ ~wedged
     /\ handler = None
     /\ ~BucketLocked(s)
     /\ Len(timer_q) < Backlog
     /\ \E cached \in Cached(s) :
          meta' = [t \in cached |-> IF t = s THEN r.meta ELSE meta[t]]
     /\ store_tx' = store_tx \cup r.batches
     /\ timer_q' =
          CASE r.outcome = "Ignored"  -> timer_q
            [] r.outcome = "Complete" -> Append(timer_q, Completion(s))
            [] OTHER                  -> Append(timer_q, Insertion(s))
     /\ IF r.outcome = "Complete"
        THEN SendGrpc(SlotRaw(s, r.meta))
        ELSE UNCHANGED <<grpc_tx, handler>>
     /\ UNCHANGED <<timers, armed, detached, monitor, repair_tx, wedged>>

\* The monitor waits for room in repair_tx with the slot's cache entry still
\* borrowed; entry_sync for the same bucket then blocks the thread both share.
HandleShredLocked(sh) ==
  /\ ~wedged
  /\ handler = None
  /\ BucketLocked(sh.slot)
  /\ wedged' = TRUE
  /\ UNCHANGED <<meta, store_tx, grpc_tx, handler, timers, armed, detached,
                 timer_q, monitor, repair_tx>>

\* The handler resumes once the gRPC side has taken something.
HandlerResumes ==
  /\ ~wedged
  /\ handler # None
  /\ Len(grpc_tx) < GrpcCap
  /\ grpc_tx' = Append(grpc_tx, handler)
  /\ handler' = None
  /\ UNCHANGED <<meta, store_tx, timers, armed, detached, timer_q, monitor,
                 repair_tx, wedged>>

-----------------------------------------------------------------------------
(* The staleness monitor.                                                  *)

MonitorReady(type) ==
  /\ ~wedged
  /\ monitor = None
  /\ timer_q # <<>>
  /\ Head(timer_q).type = type
  /\ timer_q' = Tail(timer_q)

\* repair_tx.send: immediate while there is room, otherwise the monitor waits.
SendRepair(msg) ==
  IF Len(repair_tx) < RepairCap
  THEN repair_tx' = Append(repair_tx, msg) /\ UNCHANGED monitor
  ELSE monitor' = msg /\ UNCHANGED repair_tx

\* Rearming a timer that has fired already has no effect.
MonitorInsertion ==
  LET s == Head(timer_q).slot
  IN /\ MonitorReady("insertion")
     /\ timers' = timers \cup {s}
     /\ armed' = IF s \in timers THEN armed ELSE armed \cup {s}
     /\ UNCHANGED <<meta, store_tx, grpc_tx, handler, detached, monitor,
                    repair_tx, wedged>>

\* Mutant: the request is withdrawn only if a timer was still running.
MonitorCompletionTimed ==
  LET s == Head(timer_q).slot
  IN /\ MonitorReady("completion")
     /\ timers' = timers \ {s}
     /\ armed' = armed \ {s}
     /\ IF s \in DOMAIN meta /\ meta[s].timed_out /\ s \in timers
        THEN SendRepair(CancelRepair(s))
        ELSE UNCHANGED <<repair_tx, monitor>>
     /\ UNCHANGED <<meta, store_tx, grpc_tx, handler, detached, wedged>>

\* Mutant: the timer is taken out of the map but not destroyed.
MonitorCompletionLeaks ==
  LET s == Head(timer_q).slot
  IN /\ MonitorReady("completion")
     /\ timers' = timers \ {s}
     /\ IF s \in DOMAIN meta /\ meta[s].timed_out
        THEN SendRepair(CancelRepair(s))
        ELSE UNCHANGED <<repair_tx, monitor>>
     /\ UNCHANGED <<meta, store_tx, grpc_tx, handler, armed, detached, wedged>>

MonitorCompletion ==
  LET s == Head(timer_q).slot
  IN /\ MonitorReady("completion")
     /\ timers' = timers \ {s}
     /\ armed' = armed \ {s}
     /\ IF s \in DOMAIN meta /\ meta[s].timed_out
        THEN SendRepair(CancelRepair(s))
        ELSE UNCHANGED <<repair_tx, monitor>>
     /\ UNCHANGED <<meta, store_tx, grpc_tx, handler, detached, wedged>>

\* timers.remove: dropping the handle leaves a running timer running.
DropTimer(s) ==
  /\ timers' = timers \ {s}
  /\ armed' = armed \ {s}
  /\ detached' = IF s \in armed THEN detached \cup {s} ELSE detached

\* Mutant: the request goes out without being recorded on the slot.
MonitorTimeoutForgets ==
  LET s == Head(timer_q).slot
  IN /\ MonitorReady("timeout")
     /\ DropTimer(s)
     /\ IF s \in DOMAIN meta /\ ~IsComplete(meta[s])
        THEN SendRepair(MissingShreds(s, meta[s]))
        ELSE UNCHANGED <<repair_tx, monitor>>
     /\ UNCHANGED <<meta, store_tx, grpc_tx, handler, wedged>>

MonitorTimeout ==
  LET s == Head(timer_q).slot
  IN /\ MonitorReady("timeout")
     /\ DropTimer(s)
     /\ IF s \in DOMAIN meta /\ ~IsComplete(meta[s])
        THEN /\ meta' = [meta EXCEPT ![s].timed_out = TRUE]
             /\ SendRepair(MissingShreds(s, meta[s]))
        ELSE UNCHANGED <<meta, repair_tx, monitor>>
     /\ UNCHANGED <<store_tx, grpc_tx, handler, wedged>>

MonitorResumes ==
  /\ ~wedged
  /\ monitor # None
  /\ Len(repair_tx) < RepairCap
  /\ repair_tx' = Append(repair_tx, monitor)
  /\ monitor' = None
  /\ UNCHANGED <<meta, store_tx, grpc_tx, handler, timers, armed, detached,
                 timer_q, wedged>>

\* DEFER_REPAIR_THRESHOLD has passed since the timer was last armed.
TimerFires(s) ==
  /\ ~wedged
  /\ s \in armed
  /\ armed' = armed \ {s}
  /\ timer_q' = Append(timer_q, Timeout(s))
  /\ UNCHANGED <<meta, store_tx, grpc_tx, handler, timers, detached, monitor,
                 repair_tx, wedged>>

\* A slot may have any number of detached timers, so the last one need not be
\* the one that fires.
DetachedFires(s) ==
  /\ ~wedged
  /\ s \in detached
  /\ Len(timer_q) < Backlog
  /\ detached' \in {detached, detached \ {s}}
  /\ timer_q' = Append(timer_q, Timeout(s))
  /\ UNCHANGED <<meta, store_tx, grpc_tx, handler, timers, armed, monitor,
                 repair_tx, wedged>>

-----------------------------------------------------------------------------
(* The receiving ends of the bounded channels, on other threads.           *)

GrpcTakes ==
  /\ grpc_tx # <<>>
  /\ grpc_tx' = Tail(grpc_tx)
  /\ UNCHANGED <<meta, store_tx, handler, timers, armed, detached, timer_q,
                 monitor, repair_tx, wedged>>

RepairTakes ==
  /\ repair_tx # <<>>
  /\ repair_tx' = Tail(repair_tx)
  /\ UNCHANGED <<meta, store_tx, grpc_tx, handler, timers, armed, detached,
                 timer_q, monitor, wedged>>

Next ==
  \/ \E sh \in Shreds : HandleShred(sh) \/ HandleShredLocked(sh)
  \/ HandlerResumes
  \/ MonitorInsertion
  \/ MonitorCompletion
  \/ MonitorTimeout
  \/ MonitorResumes
  \/ \E s \in Slots : TimerFires(s) \/ DetachedFires(s)
  \/ GrpcTakes
  \/ RepairTakes

Spec == Init /\ [][Next]_vars

-----------------------------------------------------------------------------
(* Properties.                                                             *)

Metadata ==
  [data : SUBSET Nat, code : SUBSET Nat, completed : SUBSET Nat,
   required : Nat \cup {None}, max_inclusive : Nat, timed_out : BOOLEAN]

SlotRaws == [slot : Slots, data : SUBSET Nat, code : SUBSET Nat]

TimerMsgs ==
  [type : {"insertion", "completion", "timeout"}, slot : Slots]

RepairReqs ==
  [type : {"bounded"}, slot : Slots, shreds : SUBSET Nat]
    \cup [type : {"unbounded"}, slot : Slots, shreds : SUBSET Nat,
          max_inclusive : Nat]
    \cup [type : {"cancel"}, slot : Slots]

ASSUME IdleAssumption == None \notin RepairReqs

\* Every variable has its type: the slot cache maps slots to metadata, the
\* channels hold the messages of their Rust message types.
TypeOK ==
  /\ DOMAIN meta \subseteq Slots
  /\ \A s \in DOMAIN meta : meta[s] \in Metadata
  /\ store_tx \subseteq
       [slot : Slots, fec : Nat, data : SUBSET Nat, code : SUBSET Nat]
  /\ grpc_tx \in Seq(SlotRaws)
  /\ handler \in SlotRaws \cup {None}
  /\ timers \subseteq Slots
  /\ armed \subseteq timers
  /\ detached \subseteq Slots
  /\ timer_q \in Seq(TimerMsgs)
  /\ monitor \in RepairReqs \cup {None}
  /\ repair_tx \in Seq(RepairReqs)
  /\ wedged \in BOOLEAN

Elems(q) == {q[i] : i \in 1 .. Len(q)}

\* The raw slots on their way to the gRPC side.
Delivered == Elems(grpc_tx) \cup ({handler} \ {None})

Recoverable(raw, f) ==
  Cardinality(InSet(raw.data, f)) + Cardinality(InSet(raw.code, f)) >= FecSize

\* A slot handed to the gRPC side (make_complete) carries, for EVERY FEC set of
\* the leader's block, enough shreds to recover it: completeness is judged by
\* comparing two counts (is_complete), one learnt from the last shred.
DeliveredRecoverable ==
  \A raw \in Delivered :
    \A f \in FecSets(NumBatches[raw.slot]) : Recoverable(raw, f)

\* When the cache calls a slot complete, the shred store has been handed a
\* recoverable batch for every FEC set of the block, whatever the order in
\* which batches closed and the last shred arrived (store_shred).
StoreHasCompleteSlot ==
  \A s \in DOMAIN meta :
    IsComplete(meta[s]) =>
      \A f \in FecSets(NumBatches[s]) :
        \E b \in store_tx : b.slot = s /\ b.fec = f /\ Recoverable(b, f)

\* An incomplete slot is never forgotten (packet_listener_loop): its timer is
\* running, or a message that starts it or reports its expiry is on its way to
\* the monitor, or repair has been asked for.
NeverForgotten ==
  \A s \in DOMAIN meta :
    IsComplete(meta[s]) \/ meta[s].timed_out \/ s \in armed \cup detached
      \/ {Insertion(s), Timeout(s)} \cap Elems(timer_q) # {}

Settled(s) ==
  /\ s \in DOMAIN meta
  /\ IsComplete(meta[s])
  /\ Completion(s) \notin Elems(timer_q)
  /\ monitor = None

\* Once the monitor has seen a completion, the slot has no timer left, and if
\* repair was asked for, no request is queued to the repair manager without a
\* cancellation behind it (Completion arm of the staleness monitor).
QuietWhenComplete ==
  \A s \in Slots :
    Settled(s) =>
      /\ s \notin timers
      /\ meta[s].timed_out =>
           \A i \in 1 .. Len(repair_tx) :
             repair_tx[i].slot = s =>
               \E j \in i .. Len(repair_tx) : repair_tx[j] = CancelRepair(s)

\* What has been asked of the repair manager and is still on its way to it.
Asked == Elems(repair_tx) \cup ({monitor} \ {None})

\* When the monitor makes a bounded request, its data shreds with those already
\* filed complete every FEC set of the block (calculate_missing_shreds_bounded):
\* repair of what is asked for is enough, unless the slot is evicted meanwhile.
BoundedRequestSuffices ==
  [][\A req \in Asked' \ Asked :
       req.type = "bounded" =>
         \A f \in FecSets(NumBatches[req.slot]) :
           \/ f \in meta[req.slot].completed
           \/ FecSet(f) \subseteq meta[req.slot].data \cup req.shreds]_vars
=============================================================================
