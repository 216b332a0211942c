-------------------------- MODULE SlotWaiterProofs --------------------------
(***************************************************************************)
(* Proofs about the delivery of confirmed slots, for any slots, capacities *)
(* and behaviour of the shred store.                                       *)
(***************************************************************************)
EXTENDS SlotWaiter, WellFoundedInduction, TLAPS

\* The shreds task has taken a confirmation and is not done with it.
Working == shreds_task \in {"wait", "send"}

\* Whoever is registered with the waiter waits for the slot it works on, and
\* shreds that were handed over are shreds of that slot.
HandoverInv ==
  /\ block_notif # None => shreds_task = "wait" /\ block_notif = update
  /\ got # None => Working /\ got.of = update
  /\ NoLostWakeup

\* Confirmations are sent, worked on and queued in slot order, and none of
\* them is later than what the confirmation stream has emitted.
OrderInv ==
  /\ \A i \in 1 .. Len(conf_q) : IsConfirmed(conf_q[i])
  /\ \A i, j \in 1 .. Len(conf_q) : i < j => conf_q[i] < conf_q[j]
  /\ Working =>
       /\ IsConfirmed(update)
       /\ \A i \in 1 .. Len(conf_q) : update < conf_q[i]
  /\ \A j \in 1 .. Len(sent) :
       /\ IsConfirmed(sent[j].slot)
       /\ \A i \in 1 .. Len(conf_q) : sent[j].slot < conf_q[i]
       /\ Working => sent[j].slot < update

\* The inductive invariant: NoLostWakeup needs to know who may be registered,
\* the order of what is sent needs the order of what is queued.
IInv ==
  /\ TypeOK
  /\ HandoverInv
  /\ OrderInv

-----------------------------------------------------------------------------
(* Queues.                                                                 *)

\* What a send does to a queue.
LEMMA AppendFacts ==
  ASSUME NEW S, NEW q \in Seq(S), NEW x \in S
  PROVE  /\ Append(q, x) \in Seq(S)
         /\ Len(Append(q, x)) = Len(q) + 1
         /\ \A i \in 1 .. Len(q) : Append(q, x)[i] = q[i]
         /\ Append(q, x)[Len(q) + 1] = x
  OBVIOUS

\* What a receive does to a queue.
LEMMA TailFacts ==
  ASSUME NEW S, NEW q \in Seq(S), q # <<>>
  PROVE  /\ Head(q) \in S /\ Head(q) = q[1] /\ 1 \in 1 .. Len(q)
         /\ Tail(q) \in Seq(S)
         /\ Len(Tail(q)) = Len(q) - 1
         /\ \A i \in 1 .. Len(Tail(q)) : Tail(q)[i] = q[i + 1] /\ i + 1 \in 1 .. Len(q)
  OBVIOUS

\* A sequence cut or with an element moved to the front keeps its type.
LEMMA CappedType ==
  ASSUME NEW q \in Seq(Slots)
  PROVE  Capped(q) \in Seq(Slots)
  BY CapsAssumption DEF Capped

\* A set of numbers that is not empty has a least element.
LEMMA LeastElement ==
  ASSUME NEW T \in SUBSET Nat, T # {}
  PROVE  \E m \in T : \A k \in T : ~(k < m)
<1>. DEFINE R == OpToRel(<, Nat)
<1>1. IsWellFoundedOn(R, Nat)
  BY NatLessThanWellFounded
<1>2. \A x, y \in Nat : x < y => <<x, y>> \in R
  BY DEF OpToRel
<1>. HIDE DEF R
<1>3. \E x \in T : \A y \in T : ~(<<y, x>> \in R)
  BY <1>1, WFMin
<1>. QED
  BY <1>2, <1>3

LEMMA TouchedType ==
  ASSUME NEW q \in Seq(Slots), NEW s \in Range(q)
  PROVE  Touched(q, s) \in Seq(Slots)
<1>. DEFINE T == {j \in 1 .. Len(q) : q[j] = s}
            i == CHOOSE j \in 1 .. Len(q) : q[j] = s /\ \A k \in 1 .. (j - 1) : q[k] # s
<1>1. T \in SUBSET Nat /\ T # {}
  BY DEF Range
<1>2. PICK m \in T : \A k \in T : ~(k < m)
  BY <1>1, LeastElement
<1>3. \A k \in 1 .. (m - 1) : q[k] # s
  BY <1>2
<1>4. i \in 1 .. Len(q) /\ s \in Slots
  BY <1>2, <1>3
<1>. HIDE DEF i
<1>5. SubSeq(q, 1, i - 1) \in Seq(Slots) /\ SubSeq(q, i + 1, Len(q)) \in Seq(Slots)
  BY <1>4
<1>6. <<s>> \o SubSeq(q, 1, i - 1) \o SubSeq(q, i + 1, Len(q)) \in Seq(Slots)
  BY <1>4, <1>5
<1>. QED
  BY <1>6 DEF Touched, i

\* The shreds that are handed over are a value of their own.
LEMMA WholeGot ==
  ASSUME NEW s \in Slots
  PROVE  /\ Whole(s) \in Got /\ Whole(s) # None /\ Whole(s).of = s
         /\ s # None
  BY NoneAssumption, SlotsAssumption DEF Whole, Got

-----------------------------------------------------------------------------
(* The waiter.                                                             *)

\* insert keeps the types, and hands over to whoever is registered.
LEMMA InsertInv ==
  ASSUME IInv, NEW s \in Slots, Insert(s), UNCHANGED <<shreds_task, update>>
  PROVE  /\ block_notif' \in Slots \cup {None}
         /\ got' \in Got \cup {None}
         /\ finished' \subseteq Slots
         /\ slot_cache' \in Seq(Slots)
         /\ HandoverInv'
         /\ shreds_task = "send" => got' # None
<1>1. Whole(s) \in Got /\ Whole(s) # None /\ Whole(s).of = s /\ s # None
  BY WholeGot
<1>2. CASE block_notif = s
  <2>1. /\ got' = Whole(s) /\ block_notif' = None
        /\ UNCHANGED <<finished, slot_cache>>
    BY <1>2 DEF Insert
  <2>2. shreds_task = "wait" /\ update = s
    BY <1>1, <1>2 DEF IInv, HandoverInv
  <2>. QED
    BY <1>1, <2>1, <2>2 DEF IInv, TypeOK, HandoverInv, NoLostWakeup, Working
<1>3. CASE block_notif # s
  <2>1. /\ slot_cache' = Capped(<<s>> \o slot_cache)
        /\ finished' = finished \cup {s}
        /\ UNCHANGED <<block_notif, got>>
    BY <1>3 DEF Insert
  <2>2. slot_cache' \in Seq(Slots)
    <3>1. slot_cache \in Seq(Slots)
      BY DEF IInv, TypeOK
    <3>2. <<s>> \o slot_cache \in Seq(Slots)
      BY <3>1
    <3>. QED
      BY <2>1, <3>2, CappedType
  <2>3. HandoverInv'
    BY <1>3, <2>1 DEF IInv, HandoverInv, NoLostWakeup, Working
  <2>. QED
    BY <2>1, <2>2, <2>3 DEF IInv, TypeOK
<1>. QED
  BY <1>2, <1>3

\* send_slot_shreds, called when nothing is being worked on, either has the
\* shreds, or is registered for a slot that has not been filed.
LEMMA LookUpInv ==
  ASSUME IInv, NEW s \in Slots, LookUp(s), ~Working
  PROVE  /\ update' = s
         /\ shreds_task' \in {"next", "wait", "send"}
         /\ block_notif' \in Slots \cup {None}
         /\ got' \in Got \cup {None}
         /\ finished' \subseteq Slots
         /\ failed' \subseteq Slots
         /\ slot_cache' \in Seq(Slots)
         /\ HandoverInv'
         /\ shreds_task' = "send" => got' # None
<1>1. Whole(s) \in Got /\ Whole(s) # None /\ Whole(s).of = s /\ s # None
  BY WholeGot
<1>2. block_notif = None /\ got = None /\ update' = s
  BY DEF IInv, HandoverInv, Working, LookUp
<1>3. CASE /\ s \in Range(slot_cache)
           /\ finished' = finished \ {s}
           /\ slot_cache' = Touched(slot_cache, s)
           /\ got' = Whole(s)
           /\ shreds_task' = "send"
           /\ UNCHANGED <<block_notif, failed>>
  <2>1. slot_cache' \in Seq(Slots)
    BY <1>3, TouchedType DEF IInv, TypeOK
  <2>. QED
    BY <1>1, <1>2, <1>3, <2>1 DEF IInv, TypeOK, HandoverInv, NoLostWakeup, Working
<1>4. CASE /\ finished' = finished \ {s}
           /\ \E res \in StoreGets :
                IF res = "error"
                THEN /\ failed' = failed \cup {s}
                     /\ shreds_task' = "next"
                     /\ UNCHANGED got
                ELSE /\ got' = [of |-> s, shreds |-> res]
                     /\ shreds_task' = "send"
                     /\ UNCHANGED failed
           /\ UNCHANGED <<block_notif, slot_cache>>
  <2>1. PICK res \in StoreGets :
                IF res = "error"
                THEN /\ failed' = failed \cup {s}
                     /\ shreds_task' = "next"
                     /\ UNCHANGED got
                ELSE /\ got' = [of |-> s, shreds |-> res]
                     /\ shreds_task' = "send"
                     /\ UNCHANGED failed
    BY <1>4
  <2>2. CASE res = "error"
    BY <1>2, <1>4, <2>1, <2>2 DEF IInv, TypeOK, HandoverInv, NoLostWakeup, Working
  <2>3. CASE res # "error"
    <3>1. got' = [of |-> s, shreds |-> res] /\ got' \in Got /\ got' # None
          /\ got'.of = s
      BY <2>1, <2>3, StoreAssumption, NoneAssumption DEF Got
    <3>. QED
      BY <1>2, <1>4, <2>1, <2>3, <3>1 DEF IInv, TypeOK, HandoverInv, NoLostWakeup, Working
  <2>. QED
    BY <2>2, <2>3
<1>5. CASE /\ s \notin finished
           /\ block_notif' = s
           /\ shreds_task' = "wait"
           /\ UNCHANGED <<finished, slot_cache, got, failed>>
  BY <1>1, <1>2, <1>5 DEF IInv, TypeOK, HandoverInv, NoLostWakeup, Working
<1>. QED
  BY <1>3, <1>4, <1>5 DEF LookUp

-----------------------------------------------------------------------------
(* The order of confirmations.                                             *)

\* Steps that take no confirmation, finish none and make none.
LEMMA OrderFrame ==
  ASSUME OrderInv, UNCHANGED <<confirmed, conf_q, update, sent>>, Working' => Working
  PROVE  OrderInv'
  BY DEF OrderInv, IsConfirmed

\* The confirmation taken follows all that was sent, and precedes those left.
LEMMA TakeOrdered ==
  ASSUME IInv, TakeConf, UNCHANGED <<confirmed, sent>>, ~Working,
         Working' => update' = Head(conf_q)
  PROVE  OrderInv' /\ conf_q' \in Seq(Slots) /\ Head(conf_q) \in Slots
<1>1. conf_q \in Seq(Slots) /\ conf_q # <<>> /\ conf_q' = Tail(conf_q)
  BY DEF IInv, TypeOK, TakeConf
<1>2. /\ Head(conf_q) \in Slots /\ Head(conf_q) = conf_q[1]
      /\ 1 \in 1 .. Len(conf_q)
      /\ conf_q' \in Seq(Slots)
      /\ Len(conf_q') = Len(conf_q) - 1
      /\ \A i \in 1 .. Len(conf_q') :
           conf_q'[i] = conf_q[i + 1] /\ i + 1 \in 1 .. Len(conf_q)
  BY <1>1, TailFacts
<1>3. /\ \A i \in 1 .. Len(conf_q') : IsConfirmed(conf_q'[i])
      /\ \A i, j \in 1 .. Len(conf_q') : i < j => conf_q'[i] < conf_q'[j]
  <2>1. \A i \in 1 .. Len(conf_q') : IsConfirmed(conf_q'[i])
    BY <1>2 DEF IInv, OrderInv
  <2>2. \A i, j \in 1 .. Len(conf_q) : i < j => conf_q[i] < conf_q[j]
    BY DEF IInv, OrderInv
  <2>3. ASSUME NEW i \in 1 .. Len(conf_q'), NEW j \in 1 .. Len(conf_q'), i < j
        PROVE  conf_q'[i] < conf_q'[j]
    <3>1. i + 1 \in 1 .. Len(conf_q) /\ j + 1 \in 1 .. Len(conf_q) /\ i + 1 < j + 1
      BY <1>2, <2>3
    <3>2. conf_q[i + 1] < conf_q[j + 1]
      BY <2>2, <3>1
    <3>. QED
      BY <1>2, <3>2
  <2>. QED
    BY <2>1, <2>3
<1>4. Working' =>
        /\ IsConfirmed(update')
        /\ \A i \in 1 .. Len(conf_q') : update' < conf_q'[i]
  BY <1>2 DEF IInv, OrderInv
<1>5. \A j \in 1 .. Len(sent) :
        /\ IsConfirmed(sent[j].slot)
        /\ \A i \in 1 .. Len(conf_q') : sent[j].slot < conf_q'[i]
        /\ Working' => sent[j].slot < update'
  BY <1>2 DEF IInv, OrderInv
<1>. QED
  BY <1>2, <1>3, <1>4, <1>5 DEF OrderInv, IsConfirmed

\* A new confirmation follows all earlier ones.
LEMMA ConfirmsOrdered ==
  ASSUME IInv, NEW s \in Slots, Confirms(s)
  PROVE  /\ OrderInv'
         /\ conf_q' \in Seq(Slots)
         /\ confirmed' \in Seq({Update(t) : t \in Slots})
<1>1. /\ conf_q' = Append(conf_q, s)
      /\ confirmed' = Append(confirmed, Update(s))
      /\ \A i \in 1 .. Len(confirmed) : confirmed[i].slot < s
      /\ UNCHANGED <<shreds_task, update, sent>>
  BY DEF Confirms, Conf!Emit, Conf!Follows, Update, shredsVars
<1>. DEFINE U == {Update(t) : t \in Slots}
            Later(t) == Update(t) \in Range(confirmed')
<1>2. conf_q \in Seq(Slots) /\ confirmed \in Seq(U) /\ Update(s) \in U
  BY DEF IInv, TypeOK
<1>3. /\ conf_q' \in Seq(Slots)
      /\ Len(conf_q') = Len(conf_q) + 1
      /\ \A i \in 1 .. Len(conf_q) : conf_q'[i] = conf_q[i]
      /\ conf_q'[Len(conf_q) + 1] = s
  BY <1>1, <1>2, AppendFacts
<1>4. /\ confirmed' \in Seq(U)
      /\ Len(confirmed') = Len(confirmed) + 1
      /\ \A i \in 1 .. Len(confirmed) : confirmed'[i] = confirmed[i]
      /\ confirmed'[Len(confirmed) + 1] = Update(s)
  BY <1>1, <1>2, AppendFacts
<1>5. Len(confirmed) \in Nat /\ Len(conf_q) \in Nat
  BY <1>2
<1>6. /\ DOMAIN confirmed = 1 .. Len(confirmed)
      /\ DOMAIN confirmed' = 1 .. (Len(confirmed) + 1)
  BY <1>2, <1>4
<1>. HIDE DEF U
<1>7. \A t : IsConfirmed(t) => t < s /\ Later(t)
  BY <1>1, <1>4, <1>5, <1>6 DEF IsConfirmed, Range, Update
<1>8. Later(s)
  BY <1>4, <1>5, <1>6 DEF IsConfirmed, Range
<1>. HIDE DEF Later
<1>9. /\ \A i \in 1 .. Len(conf_q') : Later(conf_q'[i])
      /\ \A i, j \in 1 .. Len(conf_q') : i < j => conf_q'[i] < conf_q'[j]
  BY <1>3, <1>5, <1>7, <1>8 DEF IInv, OrderInv
<1>10. Working' =>
         /\ Later(update)
         /\ \A i \in 1 .. Len(conf_q') : update < conf_q'[i]
  BY <1>1, <1>3, <1>5, <1>7 DEF IInv, OrderInv, Working
<1>11. \A j \in 1 .. Len(sent) :
         /\ Later(sent[j].slot)
         /\ \A i \in 1 .. Len(conf_q') : sent[j].slot < conf_q'[i]
         /\ Working' => sent[j].slot < update
  BY <1>1, <1>3, <1>5, <1>7 DEF IInv, OrderInv, Working
<1>. QED
  BY <1>1, <1>3, <1>4, <1>9, <1>10, <1>11 DEF OrderInv, IsConfirmed, Later, U

-----------------------------------------------------------------------------
(* Every step preserves the invariant.                                     *)

\* The initial state satisfies the invariant.
LEMMA InitIInv == Init => IInv
<1>. SUFFICES ASSUME Init PROVE IInv
  OBVIOUS
<1>1. TypeOK
  <2>1. \A S : <<>> \in Seq(S)
    OBVIOUS
  <2>2. {} \subseteq Slots
    OBVIOUS
  <2>. QED
    BY <2>1, <2>2 DEF Init, TypeOK
<1>. QED
  BY <1>1 DEF Init, IInv, HandoverInv, NoLostWakeup, OrderInv, Working

\* The first complete slot is filed and made known to the shreds task.
LEMMA MetaFirstIInv ==
  ASSUME IInv, MetaFirst, UNCHANGED ended
  PROVE  IInv'
<1>. DEFINE s == Head(slot_q)
<1>1. slot_q \in Seq(Slots) /\ slot_q # <<>> /\ slot_q' = Tail(slot_q)
  BY DEF IInv, TypeOK, MetaFirst
<1>2. s \in Slots /\ slot_q' \in Seq(Slots)
  BY <1>1, TailFacts
<1>3. /\ Insert(s)
      /\ first_slot' = s /\ meta_task' = "handshake"
      /\ UNCHANGED <<todo, first_grpc, confirmed, conf_q, shreds_task, update,
                     sent, failed>>
  BY DEF MetaFirst, confVars
<1>. HIDE DEF s
<1>4. /\ block_notif' \in Slots \cup {None}
      /\ got' \in Got \cup {None}
      /\ finished' \subseteq Slots
      /\ slot_cache' \in Seq(Slots)
      /\ HandoverInv'
      /\ shreds_task = "send" => got' # None
  BY <1>2, <1>3, InsertInv
<1>5. TypeOK'
  BY <1>2, <1>3, <1>4 DEF IInv, TypeOK
<1>6. OrderInv'
  BY <1>3, OrderFrame DEF IInv, Working
<1>. QED
  BY <1>4, <1>5, <1>6 DEF IInv

\* A complete slot is filed, handed over or dropped.
LEMMA MetaNextIInv ==
  ASSUME IInv, MetaNext, UNCHANGED ended
  PROVE  IInv'
<1>. DEFINE s == Head(slot_q)
<1>1. slot_q \in Seq(Slots) /\ slot_q # <<>> /\ slot_q' = Tail(slot_q)
  BY DEF IInv, TypeOK, MetaNext
<1>2. s \in Slots /\ slot_q' \in Seq(Slots)
  BY <1>1, TailFacts
<1>3. /\ Insert(s) \/ UNCHANGED <<block_notif, finished, slot_cache, got>>
      /\ UNCHANGED <<meta_task, todo, first_grpc, confirmed, conf_q, first_slot,
                     shreds_task, update, sent, failed>>
  BY DEF MetaNext, confVars, waiterVars
<1>. HIDE DEF s
<1>4. /\ block_notif' \in Slots \cup {None}
      /\ got' \in Got \cup {None}
      /\ finished' \subseteq Slots
      /\ slot_cache' \in Seq(Slots)
      /\ HandoverInv'
      /\ shreds_task = "send" => got' # None
  <2>1. CASE Insert(s)
    BY <1>2, <1>3, <2>1, InsertInv
  <2>2. CASE UNCHANGED <<block_notif, finished, slot_cache, got>>
    BY <1>3, <2>2 DEF IInv, TypeOK, HandoverInv, NoLostWakeup, Working
  <2>. QED
    BY <1>3, <2>1, <2>2
<1>5. TypeOK'
  BY <1>2, <1>3, <1>4 DEF IInv, TypeOK
<1>6. OrderInv'
  BY <1>3, OrderFrame DEF IInv, Working
<1>. QED
  BY <1>4, <1>5, <1>6 DEF IInv

\* The shreds task looks for the confirmation the stream starts with.
LEMMA ShredsStartIInv ==
  ASSUME IInv, ShredsStart, UNCHANGED ended
  PROVE  IInv'
<1>. DEFINE s == Head(conf_q)
<1>1. /\ shreds_task = "start" /\ TakeConf
      /\ \/ UNCHANGED <<first_grpc, waiterVars, shredsVars>>
         \/ first_grpc' = s /\ LookUp(s) /\ UNCHANGED sent
      /\ UNCHANGED <<metaVars, confirmed, first_slot>>
  BY DEF ShredsStart
<1>2. ~Working
  BY <1>1 DEF Working
<1>3. CASE UNCHANGED <<first_grpc, waiterVars, shredsVars>>
  <2>1. ~Working'
    BY <1>1, <1>3 DEF Working, shredsVars
  <2>2. OrderInv' /\ conf_q' \in Seq(Slots)
    BY <1>1, <1>2, <1>3, <2>1, TakeOrdered DEF shredsVars
  <2>3. TypeOK'
    BY <1>1, <1>3, <2>2 DEF IInv, TypeOK, metaVars, waiterVars, shredsVars
  <2>4. HandoverInv'
    BY <1>3 DEF IInv, HandoverInv, NoLostWakeup, Working, waiterVars, shredsVars
  <2>. QED
    BY <2>2, <2>3, <2>4 DEF IInv
<1>4. CASE first_grpc' = s /\ LookUp(s) /\ UNCHANGED sent
  <2>1. OrderInv' /\ conf_q' \in Seq(Slots) /\ s \in Slots
    BY <1>1, <1>2, <1>4, TakeOrdered DEF LookUp
  <2>2. /\ update' = s
        /\ shreds_task' \in {"next", "wait", "send"}
        /\ block_notif' \in Slots \cup {None}
        /\ got' \in Got \cup {None}
        /\ finished' \subseteq Slots
        /\ failed' \subseteq Slots
        /\ slot_cache' \in Seq(Slots)
        /\ HandoverInv'
        /\ shreds_task' = "send" => got' # None
    BY <1>2, <1>4, <2>1, LookUpInv
  <2>3. s # None
    BY <2>1, WholeGot
  <2>. HIDE DEF s
  <2>4. TypeOK'
    BY <1>1, <1>4, <2>1, <2>2, <2>3 DEF IInv, TypeOK, metaVars
  <2>. QED
    BY <2>1, <2>2, <2>4 DEF IInv
<1>. QED
  BY <1>1, <1>3, <1>4

\* The shreds task takes the next confirmation.
LEMMA ShredsNextIInv ==
  ASSUME IInv, ShredsNext, UNCHANGED ended
  PROVE  IInv'
<1>. DEFINE s == Head(conf_q)
<1>1. /\ shreds_task = "next" /\ TakeConf /\ LookUp(s)
      /\ UNCHANGED <<metaVars, first_grpc, confirmed, first_slot, sent>>
  BY DEF ShredsNext
<1>2. ~Working
  BY <1>1 DEF Working
<1>3. OrderInv' /\ conf_q' \in Seq(Slots) /\ s \in Slots
  BY <1>1, <1>2, TakeOrdered DEF LookUp
<1>4. /\ update' = s
      /\ shreds_task' \in {"next", "wait", "send"}
      /\ block_notif' \in Slots \cup {None}
      /\ got' \in Got \cup {None}
      /\ finished' \subseteq Slots
      /\ failed' \subseteq Slots
      /\ slot_cache' \in Seq(Slots)
      /\ HandoverInv'
      /\ shreds_task' = "send" => got' # None
  BY <1>1, <1>2, <1>3, LookUpInv
<1>5. s # None
  BY <1>3, WholeGot
<1>. HIDE DEF s
<1>6. TypeOK'
  BY <1>1, <1>3, <1>4, <1>5 DEF IInv, TypeOK, metaVars
<1>. QED
  BY <1>3, <1>4, <1>6 DEF IInv

\* A slot goes to the gRPC server: it follows what was sent before.
LEMMA ShredsSendIInv ==
  ASSUME IInv, ShredsSend
  PROVE  /\ UNCHANGED ended => IInv'
         /\ Delivery!Next
<1>. DEFINE x == [slot |-> update, got |-> got]
            T == [slot : Slots, got : Got]
<1>1. /\ shreds_task = "send" /\ shreds_task' = "next"
      /\ sent' = Append(sent, x)
      /\ got' = None /\ update' = None
      /\ UNCHANGED <<metaVars, first_grpc, confVars, first_slot, waiterVars, failed>>
  BY DEF ShredsSend
<1>2. update \in Slots /\ got \in Got /\ got.of = update /\ block_notif = None
  BY <1>1 DEF IInv, TypeOK, HandoverInv
<1>3. sent \in Seq(T) /\ x \in T
  BY <1>2 DEF IInv, TypeOK
<1>4. /\ sent' \in Seq(T)
      /\ Len(sent') = Len(sent) + 1
      /\ \A i \in 1 .. Len(sent) : sent'[i] = sent[i]
      /\ sent'[Len(sent) + 1] = x
  BY <1>1, <1>3, AppendFacts
<1>5. Working /\ ~Working'
  BY <1>1 DEF Working
<1>6. x \in {[slot |-> g.of, got |-> g] : g \in Got}
  BY <1>2
<1>7. Delivery!Next
  <2>1. \A i \in 1 .. Len(sent) : sent[i].slot < x.slot
    BY <1>5 DEF IInv, OrderInv
  <2>. QED
    BY <1>1, <1>6, <2>1 DEF Delivery!Next, Delivery!Emit, Delivery!Follows
<1>8. ASSUME UNCHANGED ended
      PROVE  IInv'
  <2>1. TypeOK'
    BY <1>1, <1>4, <1>8 DEF IInv, TypeOK, metaVars, confVars, waiterVars
  <2>2. HandoverInv'
    BY <1>1, <1>2 DEF HandoverInv, NoLostWakeup, waiterVars
  <2>3. OrderInv'
    <3>1. /\ IsConfirmed(x.slot)
          /\ \A i \in 1 .. Len(conf_q) : x.slot < conf_q[i]
      BY <1>5 DEF IInv, OrderInv
    <3>2. Len(sent) \in Nat
      BY <1>3
    <3>3. \A j \in 1 .. Len(sent') :
            /\ IsConfirmed(sent'[j].slot)
            /\ \A i \in 1 .. Len(conf_q) : sent'[j].slot < conf_q[i]
      BY <1>4, <3>1, <3>2 DEF IInv, OrderInv
    <3>. QED
      BY <1>1, <1>5, <3>3 DEF IInv, OrderInv, IsConfirmed, confVars
  <2>. QED
    BY <2>1, <2>2, <2>3 DEF IInv
<1>. QED
  BY <1>7, <1>8

\* The steps that only pass on control, and those of the two producers.
LEMMA OtherIInv ==
  ASSUME IInv, UNCHANGED ended,
         \/ MetaHandshake \/ ShredsFirst \/ ShredsWait
         \/ \E s \in Slots : Completes(s) \/ Confirms(s)
  PROVE  IInv'
<1>1. CASE MetaHandshake
  BY <1>1, OrderFrame DEF IInv, TypeOK, HandoverInv, NoLostWakeup, Working,
       MetaHandshake, confVars, waiterVars, shredsVars
<1>2. CASE ShredsFirst
  BY <1>2, OrderFrame DEF IInv, TypeOK, HandoverInv, NoLostWakeup, Working,
       ShredsFirst, metaVars, confVars, waiterVars
<1>3. CASE ShredsWait
  <2>1. /\ got # None /\ shreds_task = "wait" /\ shreds_task' = "send"
        /\ UNCHANGED <<metaVars, first_grpc, confVars, first_slot, waiterVars,
                       update, got, sent, failed>>
    BY <1>3 DEF ShredsWait
  <2>2. update \in Slots \cup {None} /\ got.of = update /\ got \in Got
    BY <2>1 DEF IInv, TypeOK, HandoverInv
  <2>3. update # None
    BY <2>2, WholeGot DEF Got
  <2>4. block_notif = None
    BY <2>1 DEF IInv, HandoverInv, NoLostWakeup
  <2>5. TypeOK'
    BY <2>1, <2>3 DEF IInv, TypeOK, metaVars, confVars, waiterVars
  <2>6. HandoverInv'
    BY <2>1, <2>2, <2>4 DEF HandoverInv, NoLostWakeup, Working, waiterVars
  <2>7. OrderInv'
    BY <2>1, OrderFrame DEF IInv, Working, confVars
  <2>. QED
    BY <2>5, <2>6, <2>7 DEF IInv
<1>4. ASSUME NEW s \in Slots, Completes(s)
      PROVE  IInv'
  <2>1. slot_q' \in Seq(Slots)
    BY <1>4, AppendFacts DEF IInv, TypeOK, Completes
  <2>. QED
    BY <1>4, <2>1, OrderFrame DEF IInv, TypeOK, HandoverInv, NoLostWakeup, Working,
         Completes, confVars, waiterVars, shredsVars
<1>5. ASSUME NEW s \in Slots, Confirms(s)
      PROVE  IInv'
  <2>1. /\ OrderInv' /\ conf_q' \in Seq(Slots)
        /\ confirmed' \in Seq({Update(t) : t \in Slots})
    BY <1>5, ConfirmsOrdered
  <2>2. TypeOK'
    BY <1>5, <2>1 DEF IInv, TypeOK, Confirms, metaVars, waiterVars, shredsVars
  <2>3. HandoverInv'
    BY <1>5 DEF IInv, HandoverInv, NoLostWakeup, Working, Confirms, waiterVars,
         shredsVars
  <2>. QED
    BY <2>1, <2>2, <2>3 DEF IInv
<1>. QED
  BY <1>1, <1>2, <1>3, <1>4, <1>5

-----------------------------------------------------------------------------
\* IInv is inductive.
THEOREM IInvHolds == Spec => []IInv
<1>1. Init => IInv
  BY InitIInv
<1>2. IInv /\ [Next]_vars => IInv'
  <2>1. SUFFICES ASSUME IInv, [Next]_vars
                 PROVE  IInv'
    OBVIOUS
  <2>2. CASE UNCHANGED ended /\ MetaTask
    BY <2>1, <2>2, MetaFirstIInv, MetaNextIInv, OtherIInv DEF MetaTask
  <2>3. CASE UNCHANGED ended /\ ShredsTask
    BY <2>1, <2>3, ShredsStartIInv, ShredsNextIInv, ShredsSendIInv, OtherIInv
       DEF ShredsTask
  <2>4. CASE UNCHANGED ended /\ \E s \in Slots : Completes(s) \/ Confirms(s)
    BY <2>1, <2>4, OtherIInv
  <2>5. CASE StreamEnds \/ UNCHANGED vars
    <3>1. /\ ended' \in BOOLEAN
          /\ UNCHANGED <<todo, slot_q, meta_task, first_grpc, confirmed, conf_q,
                         shreds_task, first_slot, update, got, block_notif,
                         finished, slot_cache, sent, failed>>
      BY <2>1, <2>5 DEF StreamEnds, vars, metaVars, confVars, waiterVars,
           shredsVars, IInv, TypeOK
    <3>2. TypeOK'
      BY <2>1, <3>1 DEF IInv, TypeOK
    <3>3. HandoverInv'
      BY <2>1, <3>1 DEF IInv, HandoverInv, NoLostWakeup, Working
    <3>4. OrderInv'
      BY <2>1, <3>1, OrderFrame DEF IInv, Working
    <3>. QED
      BY <3>2, <3>3, <3>4 DEF IInv
  <2>. QED
    BY <2>1, <2>2, <2>3, <2>4, <2>5 DEF Next
<1>. QED
  BY <1>1, <1>2, PTL DEF Spec

\* Type correctness: every task's variables are set when the task uses them.
THEOREM TypeCorrect == Spec => []TypeOK
<1>1. IInv => TypeOK
  BY DEF IInv
<1>. QED
  BY <1>1, IInvHolds, PTL

\* No wake-up is lost between send_slot_shreds and insert (NoLostWakeup),
\* whatever the number of slots and the sizes of cache and channels.
THEOREM WakeupsReach == Spec => []NoLostWakeup
<1>1. IInv => NoLostWakeup
  BY DEF IInv, HandoverInv
<1>. QED
  BY <1>1, IInvHolds, PTL

\* What the gRPC server is sent implements OrderedStream: each confirmed slot
\* at most once, in slot order, with its own shreds.
THEOREM Refinement == Spec => DeliversInOrder
<1>1. Init => Delivery!Init
  BY DEF Init, Delivery!Init
<1>2. IInv /\ [Next]_vars => [Delivery!Next]_sent
  <2>1. SUFFICES ASSUME IInv, [Next]_vars
                 PROVE  [Delivery!Next]_sent
    OBVIOUS
  <2>2. CASE ShredsSend
    BY <2>1, <2>2, ShredsSendIInv
  <2>3. ASSUME MetaTask \/ ShredsFirst \/ ShredsStart \/ ShredsNext \/ ShredsWait
        PROVE  UNCHANGED sent
    BY <2>3 DEF MetaTask, MetaFirst, MetaHandshake, MetaNext, ShredsFirst,
         ShredsStart, ShredsNext, ShredsWait, shredsVars
  <2>4. ASSUME NEW s \in Slots, Completes(s) \/ Confirms(s)
        PROVE  UNCHANGED sent
    BY <2>4 DEF Completes, Confirms, shredsVars
  <2>5. CASE StreamEnds \/ UNCHANGED vars
    BY <2>5 DEF StreamEnds, vars, shredsVars
  <2>. QED
    BY <2>1, <2>2, <2>3, <2>4, <2>5 DEF Next, ShredsTask
<1>. QED
  BY <1>1, <1>2, IInvHolds, PTL DEF Spec, DeliversInOrder, Delivery!Spec
=============================================================================
