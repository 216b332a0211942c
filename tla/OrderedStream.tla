--------------------------- MODULE OrderedStream ---------------------------
(***************************************************************************)
(* What a confirmation stream promises its consumer: a sequence of block   *)
(* updates in strictly increasing order of their slots.  Slots may be left *)
(* out.  The two confirmation streams and the confirmed-slot delivery      *)
(* behind them are shown to implement it.                                  *)
(***************************************************************************)
EXTENDS Naturals, Sequences

CONSTANT Updates   \* records with a field slot

VARIABLE out       \* the updates handed to the consumer so far

Init == out = <<>>

\* Update u comes after everything handed out so far.
Follows(u) == \A i \in 1 .. Len(out) : out[i].slot < u.slot

Emit(u) ==
  /\ Follows(u)
  /\ out' = Append(out, u)

Next == \E u \in Updates : Emit(u)

Spec == Init /\ [][Next]_out
=============================================================================
