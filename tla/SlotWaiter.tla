----------------------------- MODULE SlotWaiter -----------------------------
(***************************************************************************)
(* Confirmed slots for the gRPC server (grpc_slot_stream/shred_source.rs). *)
(*                                                                         *)
(* Slots are completed by slot assembly in any order and confirmed by the  *)
(* confirmation stream in slot order; a slot goes to the gRPC server when  *)
(* both have happened.  Three tasks share one Glommio thread: the metadata *)
(* task files complete slots, the confirmation task queues confirmations,  *)
(* and the shreds task takes the confirmations in turn and waits for the   *)
(* slot of each.  The metadata and the shreds task first agree on where to *)
(* start.  Tasks interleave only where they await something.               *)
(***************************************************************************)
EXTENDS Naturals, Sequences, Functions

CONSTANTS
  Slots,     \* slot numbers
  CacheCap,  \* entries of the slot cache (300 in the code)
  ConfCap,   \* capacity of the confirmation queue (1000 in the code)
  MetaCap,   \* capacity of the channel of complete slots (1000 in the code)
  StoreGets, \* what the shred store may return for a slot it was handed:
             \* "whole", "partial" or "error"
  None       \* Option::None

ASSUME SlotsAssumption == Slots \subseteq Nat
ASSUME CapsAssumption == {CacheCap, ConfCap, MetaCap} \subseteq Nat \ {0}
ASSUME StoreAssumption == StoreGets \subseteq {"whole", "partial", "error"}
ASSUME NoneAssumption ==
  None \notin Nat \cup [of : Slots, shreds : {"whole", "partial"}]

VARIABLES
  todo,        \* slots that have never been completed
  slot_q,      \* complete slots on their way to the metadata task
  meta_task,   \* "first", "handshake" or "running"
  first_grpc,  \* first_grpc_slot: None, or the slot the stream starts with
  confirmed,   \* the confirmations the stream has emitted
  conf_q,      \* those the shreds task has not taken
  shreds_task, \* "first", "start", "next", "wait" or "send"
  first_slot,  \* None, or the first complete slot
  update,      \* None, or the slot the shreds task is working on
  got,         \* None, or the shreds it has obtained for it
  block_notif, \* None, or the slot whose shreds the shreds task waits for
  finished,    \* finished_slots
  slot_cache,  \* the cached slots, the most recently used first
  sent,        \* what was sent to the gRPC server
  failed,      \* the confirmed slots whose shreds the store could not read
  ended        \* the confirmation stream has ended

metaVars == <<meta_task, slot_q, todo>>
confVars == <<confirmed, conf_q>>
waiterVars == <<block_notif, finished, slot_cache>>
shredsVars == <<shreds_task, update, got, sent, failed>>

vars == <<metaVars, first_grpc, confVars, first_slot, waiterVars, shredsVars,
          ended>>

Init ==
  /\ todo = Slots
  /\ slot_q = <<>>
  /\ meta_task = "first"
  /\ first_grpc = None
  /\ confirmed = <<>>
  /\ conf_q = <<>>
  /\ shreds_task = "first"
  /\ first_slot = None
  /\ update = None
  /\ got = None
  /\ block_notif = None
  /\ finished = {}
  /\ slot_cache = <<>>
  /\ sent = <<>>
  /\ failed = {}
  /\ ended = FALSE

-----------------------------------------------------------------------------
(* SlotShredsWaiter.                                                       *)

Capped(q) == SubSeq(q, 1, IF Len(q) < CacheCap THEN Len(q) ELSE CacheCap)

Whole(s) == [of |-> s, shreds |-> "whole"]

\* Mutant: every slot is filed, whether it is waited for or not.
InsertFiles(s) ==
  /\ slot_cache' = Capped(<<s>> \o slot_cache)
  /\ finished' = finished \cup {s}
  /\ UNCHANGED <<block_notif, got>>

\* Mutant: whoever waits is handed the slot, whichever one it waits for.
InsertAny(s) ==
  IF block_notif # None
  THEN /\ got' = Whole(s)
       /\ block_notif' = None
       /\ UNCHANGED <<finished, slot_cache>>
  ELSE InsertFiles(s)

\* insert: a slot that is waited for is handed over, any other is filed.
Insert(s) ==
  IF block_notif = s
  THEN /\ got' = Whole(s)
       /\ block_notif' = None
       /\ UNCHANGED <<finished, slot_cache>>
  ELSE /\ slot_cache' = Capped(<<s>> \o slot_cache)
       /\ finished' = finished \cup {s}
       /\ UNCHANGED <<block_notif, got>>

\* LRUCache::find moves the entry it finds to the front.
Touched(q, s) ==
  LET i == CHOOSE j \in 1 .. Len(q) : q[j] = s /\ \A k \in 1 .. (j - 1) : q[k] # s
  IN <<s>> \o SubSeq(q, 1, i - 1) \o SubSeq(q, i + 1, Len(q))

\* send_slot_shreds up to its first await: the shreds of a finished slot come
\* from the cache, or, if they have been evicted, from the store; a slot that
\* has not finished is waited for.
LookUp(s) ==
  /\ update' = s
  /\ \/ /\ s \in finished
        /\ finished' = finished \ {s}
        /\ s \in Range(slot_cache)
        /\ slot_cache' = Touched(slot_cache, s)
        /\ got' = Whole(s)
        /\ shreds_task' = "send"
        /\ UNCHANGED <<block_notif, failed>>
     \/ /\ s \in finished
        /\ finished' = finished \ {s}
        /\ s \notin Range(slot_cache)
        /\ \E res \in StoreGets :
             IF res = "error"
             THEN /\ failed' = failed \cup {s}
                  /\ shreds_task' = "next"
                  /\ UNCHANGED got
             ELSE /\ got' = [of |-> s, shreds |-> res]
                  /\ shreds_task' = "send"
                  /\ UNCHANGED failed
        /\ UNCHANGED <<block_notif, slot_cache>>
     \/ /\ s \notin finished
        /\ block_notif' = s
        /\ shreds_task' = "wait"
        /\ UNCHANGED <<finished, slot_cache, got, failed>>

-----------------------------------------------------------------------------
(* The metadata task.                                                      *)

MetaFirst ==
  /\ meta_task = "first"
  /\ slot_q # <<>>
  /\ Insert(Head(slot_q))
  /\ slot_q' = Tail(slot_q)
  /\ first_slot' = Head(slot_q)
  /\ meta_task' = "handshake"
  /\ UNCHANGED <<todo, first_grpc, confVars, shreds_task, update, sent, failed>>

MetaHandshake ==
  /\ meta_task = "handshake"
  /\ first_grpc # None
  /\ meta_task' = "running"
  /\ UNCHANGED <<slot_q, todo, first_grpc, confVars, first_slot, waiterVars,
                 shredsVars>>

\* Mutant: the slot the stream starts with is dropped with those before it.
TooEarlyOrFirst(s) == s <= first_grpc

\* Slots before the one the stream starts with are dropped.
TooEarly(s) == s < first_grpc

MetaNext ==
  /\ meta_task = "running"
  /\ slot_q # <<>>
  /\ slot_q' = Tail(slot_q)
  /\ IF TooEarly(Head(slot_q))
     THEN UNCHANGED <<waiterVars, got>>
     ELSE Insert(Head(slot_q))
  /\ UNCHANGED <<meta_task, todo, first_grpc, confVars, first_slot,
                 shreds_task, update, sent, failed>>

-----------------------------------------------------------------------------
(* The shreds task.                                                        *)

ShredsFirst ==
  /\ shreds_task = "first"
  /\ first_slot # None
  /\ shreds_task' = "start"
  /\ UNCHANGED <<metaVars, first_grpc, confVars, first_slot, waiterVars, update,
                 got, sent, failed>>

TakeConf == conf_q # <<>> /\ conf_q' = Tail(conf_q)

\* Confirmations of slots before the first complete one are passed over; the
\* first other one is where the stream starts.
ShredsStart ==
  LET s == Head(conf_q)
  IN /\ shreds_task = "start"
     /\ TakeConf
     /\ IF first_slot > s
        THEN UNCHANGED <<first_grpc, waiterVars, shredsVars>>
        ELSE /\ first_grpc' = s
             /\ LookUp(s)
             /\ UNCHANGED sent
     /\ UNCHANGED <<metaVars, confirmed, first_slot>>

ShredsNext ==
  /\ shreds_task = "next"
  /\ TakeConf
  /\ LookUp(Head(conf_q))
  /\ UNCHANGED <<metaVars, first_grpc, confirmed, first_slot, sent>>

\* Mutant: the task goes on without waiting.
ShredsWaitNot ==
  /\ shreds_task = "wait"
  /\ shreds_task' = "send"
  /\ UNCHANGED <<metaVars, first_grpc, confVars, first_slot, waiterVars, update,
                 got, sent, failed>>

ShredsWait ==
  /\ shreds_task = "wait"
  /\ got # None
  /\ shreds_task' = "send"
  /\ UNCHANGED <<metaVars, first_grpc, confVars, first_slot, waiterVars, update,
                 got, sent, failed>>

\* tx.send: done whenever the gRPC server has made room for it.
ShredsSend ==
  /\ shreds_task = "send"
  /\ sent' = Append(sent, [slot |-> update, got |-> got])
  /\ got' = None
  /\ update' = None
  /\ shreds_task' = "next"
  /\ UNCHANGED <<metaVars, first_grpc, confVars, first_slot, waiterVars, failed>>

-----------------------------------------------------------------------------
(* Slot assembly and the confirmation stream.                              *)

Update(s) == [slot |-> s]

Conf == INSTANCE OrderedStream
          WITH Updates <- {Update(s) : s \in Slots}, out <- confirmed

\* A slot that was evicted from the metadata cache may be completed again.
Completes(s) ==
  /\ Len(slot_q) < MetaCap
  /\ slot_q' = Append(slot_q, s)
  /\ todo' = todo \ {s}
  /\ UNCHANGED <<meta_task, first_grpc, confVars, first_slot, waiterVars,
                 shredsVars>>

\* The confirmation task: a full queue suspends it.
Confirms(s) ==
  /\ Len(conf_q) < ConfCap
  /\ Conf!Emit(Update(s))
  /\ conf_q' = Append(conf_q, s)
  /\ UNCHANGED <<metaVars, first_grpc, first_slot, waiterVars, shredsVars>>

MetaTask == MetaFirst \/ MetaHandshake \/ MetaNext

ShredsTask ==
  ShredsFirst \/ ShredsStart \/ ShredsNext \/ ShredsWait \/ ShredsSend

\* The end of the confirmation stream cancels the other two tasks.
StreamEnds ==
  /\ ~ended
  /\ ended' = TRUE
  /\ UNCHANGED <<metaVars, first_grpc, confVars, first_slot, waiterVars,
                 shredsVars>>

Next ==
  \/ /\ ~ended
     /\ MetaTask \/ ShredsTask \/ \E s \in Slots : Completes(s) \/ Confirms(s)
     /\ UNCHANGED ended
  \/ StreamEnds

\* The executor polls ready tasks in turn and the gRPC server takes what it is
\* sent; every slot completes at some time, its sender waiting in line when
\* the channel is full.  Nothing need ever be confirmed.
Fairness ==
  /\ WF_vars(~ended /\ MetaTask /\ UNCHANGED ended)
  /\ WF_vars(~ended /\ ShredsTask /\ UNCHANGED ended)
  /\ \A s \in Slots :
       SF_vars(~ended /\ s \in todo /\ Completes(s) /\ UNCHANGED ended)

Spec == Init /\ [][Next]_vars /\ Fairness

-----------------------------------------------------------------------------
(* Properties.                                                             *)

Got == [of : Slots, shreds : {"whole", "partial"}]

\* Every variable has its type, and the tasks' local variables are set in the
\* states in which the tasks use them.
TypeOK ==
  /\ todo \subseteq Slots
  /\ slot_q \in Seq(Slots)
  /\ meta_task \in {"first", "handshake", "running"}
  /\ first_grpc \in Slots \cup {None}
  /\ confirmed \in Seq({Update(s) : s \in Slots})
  /\ conf_q \in Seq(Slots)
  /\ shreds_task \in {"first", "start", "next", "wait", "send"}
  /\ first_slot \in Slots \cup {None}
  /\ update \in Slots \cup {None}
  /\ got \in Got \cup {None}
  /\ block_notif \in Slots \cup {None}
  /\ finished \subseteq Slots
  /\ slot_cache \in Seq(Slots)
  /\ sent \in Seq([slot : Slots, got : Got])
  /\ failed \subseteq Slots
  /\ ended \in BOOLEAN
  /\ shreds_task = "send" => update # None /\ got # None

\* No wake-up is lost: while the shreds task waits for a slot, either it is
\* registered to be handed the slot and the slot has not been filed in its
\* back, or the shreds have been handed over.
NoLostWakeup ==
  shreds_task = "wait" =>
    \/ block_notif = update /\ update \notin finished /\ got = None
    \/ block_notif = None /\ got # None

Delivery == INSTANCE OrderedStream
              WITH Updates <- {[slot |-> g.of, got |-> g] : g \in Got},
                   out <- sent

\* The gRPC server is handed each confirmed slot at most once, in slot order
\* and with the shreds of that slot, in whatever order and however often slots
\* are completed.
DeliversInOrder == Delivery!Spec

Sent(s) == \E i \in 1 .. Len(sent) : sent[i].slot = s

IsConfirmed(s) == Update(s) \in Range(confirmed)

\* A confirmed slot is sent in the end, unless the store fails to return it, it
\* precedes the slot the stream starts with, or the stream ends: no
\* confirmation is stuck in the handshake, behind another one, or waiting for
\* shreds that came before.
ConfirmedAreSent ==
  \A s \in Slots :
    IsConfirmed(s) ~>
      \/ Sent(s) \/ s \in failed
      \/ first_slot # None /\ s < first_slot
      \/ ended
=============================================================================
