--------------------------- MODULE MCOverlayNet ----------------------------
(* An instance of OverlayNet for model checking: Mover bootstraps from a  *)
(* node that two others have bootstrapped from.                            *)
EXTENDS OverlayNet, TLC

CONSTANTS n1, n2, n3, n4

MCLinks == {{n2, n3}, {n2, n4}}
Symmetry == Permutations({n3, n4})
=============================================================================
