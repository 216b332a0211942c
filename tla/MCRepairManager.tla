-------------------------- MODULE MCRepairManager --------------------------
(* An instance of RepairManager for model checking: blocks of two shreds,  *)
(* of which the first or an unknown number is reported missing.            *)
EXTENDS RepairManager

MCNumShreds == [s \in Slots |-> 2]

MCAsks ==
  UNION {{[type |-> "bounded", slot |-> s, shreds |-> {0}],
          [type |-> "unbounded", slot |-> s, shreds |-> {}, max_inclusive |-> 0],
          [type |-> "cancel", slot |-> s]} : s \in Slots}

\* No action but FilterTakes reads filter_tx, so states that differ only in it
\* need not be told apart.
ButFilter == <<managerVars, socket_tx, responses, peer_has>>
\* bound: requests in the store and messages to the outstanding loop.
MaxLoad == 2
LoadBounded == Cardinality(outstanding) + Len(out_q) <= MaxLoad
=============================================================================
