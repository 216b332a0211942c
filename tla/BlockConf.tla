----------------------------- MODULE BlockConf -----------------------------
(***************************************************************************)
(* The RPC confirmation stream (block_conf/mod.rs, solana_rpc.rs).         *)
(*                                                                         *)
(* Confirmed blocks are announced over a websocket subscription.  When the *)
(* websocket fails or is silent for five seconds it is closed, the blocks  *)
(* confirmed since the last one emitted are asked for over HTTP, and the   *)
(* subscription is opened again once these have been emitted.  An RPC      *)
(* error ends the stream; its owner then drops it, as it does when the     *)
(* node shuts down.                                                        *)
(***************************************************************************)
EXTENDS Naturals, Sequences, Functions

CONSTANTS
  Chain,       \* the confirmed blocks: a sequence of [slot, hash]
  ListsBlocks, \* whether the server answers get_blocks with a list of slots
  RpcDown,     \* whether an HTTP request may fail
  ShutsDown,   \* whether the node may shut down
  None         \* Option::None

ASSUME ChainAssumption ==
  /\ Chain \in Seq([slot : Nat, hash : STRING])
  /\ \A i, j \in 1 .. Len(Chain) : i < j => Chain[i].slot < Chain[j].slot
ASSUME AnswersAssumption == {ListsBlocks, RpcDown, ShutsDown} \subseteq BOOLEAN
ASSUME NoneAssumption == None \notin Nat

VARIABLES
  tip,        \* how many blocks of the chain are confirmed
  ws,         \* None, or how many of them this subscription has passed
  listed,     \* slots listed by get_blocks whose hash is still to be fetched
  catchup,    \* catchup_slots
  last_slot,  \* None, or the slot emitted last
  phase,      \* what the stream is doing
  out         \* the updates emitted

vars == <<tip, ws, listed, catchup, last_slot, phase, out>>

Init ==
  /\ tip = 0
  /\ ws = 0
  /\ listed = <<>>
  /\ catchup = <<>>
  /\ last_slot = None
  /\ phase = "next"
  /\ out = <<>>

\* The network confirms a block.
Confirm ==
  /\ tip < Len(Chain)
  /\ tip' = tip + 1
  /\ UNCHANGED <<ws, listed, catchup, last_slot, phase, out>>

-----------------------------------------------------------------------------
(* next and next_inner.                                                    *)

Emit(u) ==
  /\ out' = Append(out, u)
  /\ last_slot' = u.slot

NextCatchup ==
  /\ phase = "next"
  /\ catchup # <<>>
  /\ Emit(Head(catchup))
  /\ catchup' = Tail(catchup)
  /\ UNCHANGED <<tip, ws, listed, phase>>

Polling == phase = "next" /\ catchup = <<>>

\* Mutant: notifications are not compared with what was emitted.
NewerAny(u) == TRUE

\* self.last_slot.unwrap_or_default() < update.slot
Newer(u) == (IF last_slot = None THEN 0 ELSE last_slot) < u.slot

\* A notification of the current subscription; stale ones are passed over.
NextNotif ==
  /\ Polling
  /\ ws # None
  /\ ws < tip
  /\ ws' = ws + 1
  /\ IF Newer(Chain[ws + 1])
     THEN Emit(Chain[ws + 1])
     ELSE UNCHANGED <<out, last_slot>>
  /\ UNCHANGED <<tip, listed, catchup, phase>>

\* A new subscription may begin with blocks that are already confirmed.
Subscribe ==
  /\ Polling
  /\ ws = None
  /\ ws' \in 0 .. tip
  /\ UNCHANGED <<tip, listed, catchup, last_slot, phase, out>>

-----------------------------------------------------------------------------
(* mark_for_resubscribe.                                                   *)

\* Mutant: blocks are asked for before any was emitted.
WsFailsEager ==
  /\ Polling
  /\ ws' = None
  /\ phase' = "listing"
  /\ UNCHANGED <<tip, listed, catchup, last_slot, out>>

\* The websocket, or the attempt to subscribe, failed or was silent for 5 s.
WsFails ==
  /\ Polling
  /\ ws' = None
  /\ phase' = IF last_slot = None THEN "next" ELSE "listing"
  /\ UNCHANGED <<tip, listed, catchup, last_slot, out>>

\* Mutant: the list is taken to begin after the block asked for.
CatchupSlotsAll(blocks) == blocks

\* The list begins with the block asked for, which was emitted already.
CatchupSlots(blocks) == IF blocks = <<>> THEN <<>> ELSE Tail(blocks)

\* get_blocks: the server lists the blocks it knows to be confirmed, which
\* may be fewer than the websocket has announced.
ListBlocks ==
  /\ phase = "listing"
  /\ ListsBlocks
  /\ \E known \in 0 .. tip : \E from \in 1 .. (known + 1) :
       /\ \A i \in 1 .. known : i >= from <=> Chain[i].slot >= last_slot
       /\ listed' = CatchupSlots(SubSeq(Chain, from, known))
  /\ catchup' = <<>>
  /\ phase' = IF listed' = <<>> THEN "next" ELSE "hashing"
  /\ UNCHANGED <<tip, ws, last_slot, out>>

\* get_blockhash, one slot at a time.
FetchHash ==
  /\ phase = "hashing"
  /\ catchup' = Append(catchup, Head(listed))
  /\ listed' = Tail(listed)
  /\ phase' = IF Tail(listed) = <<>> THEN "next" ELSE "hashing"
  /\ UNCHANGED <<tip, ws, last_slot, out>>

\* An answer that is an error, or not of the type expected, ends the stream.
RpcFails ==
  /\ phase \in {"listing", "hashing"}
  /\ RpcDown \/ (phase = "listing" /\ ~ListsBlocks)
  /\ phase' = "ended"
  /\ UNCHANGED <<tip, ws, listed, catchup, last_slot, out>>

-----------------------------------------------------------------------------
\* The owner drops a stream that has ended, and any stream when the node shuts
\* down.  Dropping closes the websocket, and panics if there is none.
Drop ==
  /\ \/ phase = "ended"
     \/ ShutsDown /\ phase \in {"next", "listing", "hashing"}
  /\ phase' = IF ws = None THEN "panicked" ELSE "dropped"
  /\ UNCHANGED <<tip, ws, listed, catchup, last_slot, out>>

Next ==
  \/ Confirm
  \/ NextCatchup
  \/ NextNotif
  \/ Subscribe
  \/ WsFails
  \/ ListBlocks
  \/ FetchHash
  \/ RpcFails
  \/ Drop

Spec == Init /\ [][Next]_vars

-----------------------------------------------------------------------------
(* Properties.                                                             *)

\* Every variable has its type; blocks are listed only for a stream that has
\* emitted one, and while there is no websocket.
TypeOK ==
  /\ tip \in 0 .. Len(Chain)
  /\ ws \in 0 .. tip \cup {None}
  /\ listed \in Seq(Range(Chain))
  /\ catchup \in Seq(Range(Chain))
  /\ last_slot \in Nat \cup {None}
  /\ phase \in
       {"next", "listing", "hashing", "ended", "dropped", "panicked"}
  /\ phase \in {"listing", "hashing"} => ws = None /\ last_slot # None
  /\ out \in Seq(Range(Chain))

Stream == INSTANCE OrderedStream WITH Updates <- Range(Chain)

\* The stream emits each confirmed block at most once and in slot order,
\* through any number of websocket failures, lagging block lists and repeated
\* notifications.
ImplementsOrderedStream == Stream!Spec

\* What is caught up on is the part of the chain right behind the last block
\* emitted: neither that block again nor a later start (mark_for_resubscribe
\* skips the first slot of the list).
CatchupContiguous ==
  LET ahead == catchup \o listed
  IN \A i \in 1 .. Len(Chain) :
       /\ ahead # <<>> /\ Chain[i].slot = last_slot
       => /\ i + Len(ahead) <= tip
          /\ ahead = SubSeq(Chain, i + 1, i + Len(ahead))

\* The websocket is there to be closed when the stream is dropped, as
\* the expect in BlockConfStream::drop claims.
DropHasSocket == phase # "panicked"
=============================================================================
