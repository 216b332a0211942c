----------------------------- MODULE MCSlotMeta -----------------------------
(* Instances of SlotMeta for model checking.                               *)
EXTENDS SlotMeta

\* Block shapes and cache layouts: slot numbers double as indexes.
MCTwoThenOne == [s \in Slots |-> IF s = 1 THEN 2 ELSE 1]
MCOneBucket == [s \in Slots |-> 0]

\* bound: slot 2 is a passer-by of one shred, enough to evict slot 1 and to be
\* evicted by it, and of slot 1's coding shreds only the first of the last FEC
\* set arrives; while the monitor is more than two messages behind or a timer is
\* detached slot 1 arrives in order without coding shreds, and the monitor is
\* that far behind only while nothing waits in a channel.
Arriving ==
  LET late == Len(timer_q) > 2
  IN /\ 2 \in DOMAIN meta => meta[2].data \subseteq {0} /\ meta[2].code = {}
     /\ 1 \in DOMAIN meta =>
          IF late \/ detached # {}
          THEN meta[1].code = {} /\ \E n \in 0..4 : meta[1].data = 0..(n - 1)
          ELSE meta[1].code \subseteq {FecSize}
     /\ late => repair_tx = <<>> /\ grpc_tx = <<>> /\ {monitor, handler} = {None}
=============================================================================
