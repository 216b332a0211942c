---------------------------- MODULE MCSlotRepair ----------------------------
(* Instances of SlotRepair for model checking.                             *)
EXTENDS SlotRepair

MCTwoBatches == [s \in Slots |-> 2]
MCThreeBatches == [s \in Slots |-> 3]
MCBucket == [s \in Slots |-> s]

\* What turbine may deliver: data shreds, and coding shreds of the last FEC set;
\* or of the first FEC set the data and of the last the coding shreds.
InSet(sh, k) == Slot!Fec(sh.index) = FecSize * (k - 1)
InTail(sh) == InSet(sh, NumBatches[sh.slot])
MCDataAndTail == {sh \in Slot!Shreds : sh.kind = "data" \/ InTail(sh)}
MCHeadAndTail ==
  {sh \in Slot!Shreds : IF sh.kind = "data" THEN InSet(sh, 1) ELSE InTail(sh)}
=============================================================================
