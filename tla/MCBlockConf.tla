---------------------------- MODULE MCBlockConf ----------------------------
(* An instance of BlockConf for model checking: a chain with skipped slots. *)
EXTENDS BlockConf

MCChain ==
  <<[slot |-> 1, hash |-> "a"], [slot |-> 2, hash |-> "b"],
    [slot |-> 4, hash |-> "c"], [slot |-> 5, hash |-> "d"],
    [slot |-> 7, hash |-> "e"]>>
=============================================================================
