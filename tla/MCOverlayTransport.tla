------------------------- MODULE MCOverlayTransport -------------------------
(* An instance of OverlayTransport for model checking.                     *)
EXTENDS OverlayTransport, TLC

Symmetry == Permutations(Addrs) \cup Permutations(Ids)
=============================================================================
