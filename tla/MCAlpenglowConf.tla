-------------------------- MODULE MCAlpenglowConf --------------------------
(* An instance of AlpenglowConf for model checking: a chain of slots 1..5, *)
(* each block certifying some before it, with a competing block in slot 2  *)
(* and a certificate for slot 0, whose block never arrives.                *)
EXTENDS AlpenglowConf

K(s, h) == [slot |-> s, hash |-> h]

MCBlocks ==
  {[slot |-> 1, hash |-> "a", certs |-> {K(0, "a")}],
   [slot |-> 2, hash |-> "a", certs |-> {K(1, "a")}],
   [slot |-> 2, hash |-> "b", certs |-> {}],
   [slot |-> 3, hash |-> "a", certs |-> {K(1, "a"), K(2, "a")}],
   [slot |-> 4, hash |-> "a", certs |-> {K(2, "a"), K(3, "a")}],
   [slot |-> 5, hash |-> "a", certs |-> {K(3, "a"), K(4, "a")}]}
=============================================================================
