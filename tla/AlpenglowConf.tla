--------------------------- MODULE AlpenglowConf ---------------------------
(***************************************************************************)
(* The Alpenglow confirmation stream (block_conf/alpenglow.rs).            *)
(*                                                                         *)
(* Complete slots arrive in any order.  Each is a candidate block, and     *)
(* carries certificates that finalize other blocks.  A block that is both  *)
(* a candidate and finalized becomes pending; pending blocks leave in slot *)
(* order, waiting for a gap to fill until too many have gathered.          *)
(* A block is identified by its slot and its block id (hash).              *)
(***************************************************************************)
EXTENDS Naturals, Sequences, FiniteSets

CONSTANTS
  Blocks,          \* [slot, hash, certs]: what may arrive; certs are the blocks
                   \* its valid final certificates name
  MaxReordered,    \* MAX_REORDERED_SLOTS (32 in the code)
  MaxCandidates,   \* MAX_UNMATCHED_CANDIDATES (2048 in the code)
  MaxFinalized,    \* MAX_UNMATCHED_FINALIZATIONS (2048 in the code)
  None             \* Option::None

Key(b) == [slot |-> b.slot, hash |-> b.hash]

Certified == UNION {b.certs : b \in Blocks}

\* Consensus finalizes one block per slot.
ASSUME FinalityAssumption ==
  \A k, l \in Certified : k.slot = l.slot => k = l
ASSUME SlotsAssumption ==
  /\ \A b \in Blocks : b.slot \in Nat
  /\ \A k \in Certified : k.slot \in Nat
ASSUME LimitsAssumption ==
  {MaxReordered, MaxCandidates, MaxFinalized} \subseteq Nat
ASSUME NoneAssumption == None \notin Nat

VARIABLES
  candidates,  \* blocks that arrived and are not known to be final
  finalized,   \* blocks known to be final that have not arrived
  pending,     \* final blocks waiting for their turn: slot -> hash
  next_slot,   \* None, or the lowest slot that may still be emitted
  out          \* the blocks emitted

vars == <<candidates, finalized, pending, next_slot, out>>

Init ==
  /\ candidates = {}
  /\ finalized = {}
  /\ pending = [s \in {} |-> None]
  /\ next_slot = None
  /\ out = <<>>

-----------------------------------------------------------------------------
(* pop_ready.                                                              *)

\* The slots pop_ready may take: the next one, or if there is no next one yet,
\* or too many wait for it, the lowest.
ReadySlots ==
  IF next_slot \in DOMAIN pending
  THEN {next_slot}
  ELSE {s \in DOMAIN pending :
          /\ next_slot = None \/ Cardinality(DOMAIN pending) > MaxReordered
          /\ \A t \in DOMAIN pending : s <= t}

\* Mutant: the next slot is not advanced past a gap.
EmitBehind ==
  \E s \in ReadySlots :
    /\ out' = Append(out, [slot |-> s, hash |-> pending[s]])
    /\ pending' = [t \in DOMAIN pending \ {s} |-> pending[t]]
    /\ next_slot' = IF next_slot = None THEN s + 1 ELSE next_slot + 1
    /\ UNCHANGED <<candidates, finalized>>

Emit ==
  \E s \in ReadySlots :
    /\ out' = Append(out, [slot |-> s, hash |-> pending[s]])
    /\ pending' = [t \in DOMAIN pending \ {s} |-> pending[t]]
    /\ next_slot' = s + 1
    /\ UNCHANGED <<candidates, finalized>>

-----------------------------------------------------------------------------
(* Receiving a slot.                                                       *)

\* An LRU map that has grown to S drops entries down to its limit.
Trimmed(S, limit) ==
  {T \in SUBSET S :
     Cardinality(T) = IF Cardinality(S) > limit THEN limit ELSE Cardinality(S)}

\* Finalized blocks the stream is already past.
Stale(f) == {k \in f : next_slot # None /\ k.slot < next_slot}

\* Mutant: late blocks are promoted like any other.
PromoteLate(c, f) ==
  LET promoted == f \cap c
  IN /\ candidates' = c \ promoted
     /\ finalized' = f \ promoted
     /\ pending' =
          [s \in DOMAIN pending \cup {k.slot : k \in promoted} |->
             IF \E k \in promoted : k.slot = s
             THEN (CHOOSE k \in promoted : k.slot = s).hash
             ELSE pending[s]]

\* Mutant: a candidate is matched with a finalized block by slot alone.
PromoteBySlot(c, f) ==
  LET live     == f \ Stale(f)
      promoted == {k \in c : \E l \in live : l.slot = k.slot}
  IN /\ candidates' = (c \ Stale(f)) \ promoted
     /\ finalized' = live \ promoted
     /\ pending' =
          [s \in DOMAIN pending \cup {k.slot : k \in promoted} |->
             IF \E k \in promoted : k.slot = s
             THEN (CHOOSE k \in promoted : k.slot = s).hash
             ELSE pending[s]]

\* Mutant: a stale entry leaves neither map.
PromoteKeepsStale(c, f) ==
  LET promoted == (f \ Stale(f)) \cap c
  IN /\ candidates' = c \ promoted
     /\ finalized' = f \ promoted
     /\ pending' =
          [s \in DOMAIN pending \cup {k.slot : k \in promoted} |->
             IF \E k \in promoted : k.slot = s
             THEN (CHOOSE k \in promoted : k.slot = s).hash
             ELSE pending[s]]

\* Mutant: a certificate alone makes a block pending.
PromoteUnmatched(c, f) ==
  LET promoted == f \ Stale(f)
  IN /\ candidates' = c \ f
     /\ finalized' = {}
     /\ pending' =
          [s \in DOMAIN pending \cup {k.slot : k \in promoted} |->
             IF \E k \in promoted : k.slot = s
             THEN (CHOOSE k \in promoted : k.slot = s).hash
             ELSE pending[s]]

\* promote_finalized_candidates, for the candidates c and finalized blocks f.
Promote(c, f) ==
  LET live     == f \ Stale(f)
      promoted == live \cap c
  IN /\ candidates' = (c \ Stale(f)) \ promoted
     /\ finalized' = live \ promoted
     /\ pending' =
          [s \in DOMAIN pending \cup {k.slot : k \in promoted} |->
             IF \E k \in promoted : k.slot = s
             THEN (CHOOSE k \in promoted : k.slot = s).hash
             ELSE pending[s]]

\* next receives a slot only when nothing is ready.  A certificate may fail to
\* verify; a slot whose shreds cannot be recovered changes nothing.
Receive(b) ==
  /\ ReadySlots = {}
  /\ \E verified \in SUBSET b.certs :
       \E c \in Trimmed(candidates \cup {Key(b)}, MaxCandidates),
          f \in Trimmed(finalized \cup verified, MaxFinalized) :
         Promote(c, f)
  /\ UNCHANGED <<next_slot, out>>

Next == Emit \/ \E b \in Blocks : Receive(b)

Spec == Init /\ [][Next]_vars

-----------------------------------------------------------------------------
(* Properties.                                                             *)

Keys == {Key(b) : b \in Blocks}

\* Every variable has its type.
TypeOK ==
  /\ candidates \subseteq Keys
  /\ finalized \subseteq Certified
  /\ DOMAIN pending \subseteq {k.slot : k \in Keys}
  /\ \A s \in DOMAIN pending : [slot |-> s, hash |-> pending[s]] \in Keys
  /\ next_slot \in Nat \cup {None}
  /\ out \in Seq(Keys)

\* Only final blocks are emitted: when a leader equivocates, the candidate that
\* consensus did not finalize never leaves.
OutputFinal == \A i \in 1 .. Len(out) : out[i] \in Certified

Stream == INSTANCE OrderedStream WITH Updates <- Keys

\* Consumers see blocks that arrived, in strictly increasing slot order, however
\* the slots and the certificates that finalize them arrive, gaps and late
\* finalizations included.
ImplementsOrderedStream == Stream!Spec

\* No block waits in both maps: it is promoted by whichever of its arrival and
\* its certificate comes second (promote_finalized_candidates).
MatchedPromoted == candidates \cap finalized = {}

\* A pending block is never below the slot the stream waits for, where pop_ready
\* would neither emit nor wait for it but let it fill up the reorder buffer.
PendingAhead ==
  next_slot # None => \A s \in DOMAIN pending : next_slot <= s
=============================================================================
