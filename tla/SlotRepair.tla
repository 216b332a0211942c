----------------------------- MODULE SlotRepair -----------------------------
(***************************************************************************)
(* Slot assembly and repair together (main.rs wires them up).              *)
(*                                                                         *)
(* Shreds reach the slot metadata from turbine, which promises nothing,    *)
(* and from the packet filter behind the repair manager; the metadata's    *)
(* staleness monitor feeds the repair manager through repair_tx.           *)
(*                                                                         *)
(* A run of the system is only as good as its network.  Faults (a lost     *)
(* packet, or a response that is slower than the 200 ms timeout) may       *)
(* happen MaxFaults times; after that every request that a peer can answer *)
(* is answered in time.  Peers receive the block themselves, shred by      *)
(* shred, and all of it in the end.                                        *)
(***************************************************************************)
EXTENDS Naturals, Sequences, FiniteSets

CONSTANTS
  Slots, FecSize, NumBatches, BucketCap, GrpcCap, RepairCap, Bucket, Backlog,
  Peers, SocketCap, WireCap, None,
  Turbine,    \* the shreds that turbine may deliver
  MaxFaults   \* bound: packets lost or late

VARIABLES
  meta, store_tx, grpc_tx, handler, timers, armed, detached, timer_q, monitor,
  repair_tx, wedged,
  processor, out_q, outstanding, ticking, resend, socket_tx, responses,
  receiver, filter_tx, peer_has,
  faults      \* the packets lost or late so far

NumShreds == [s \in Slots |-> FecSize * NumBatches[s]]

Slot == INSTANCE SlotMeta

Repair == INSTANCE RepairManager
            WITH Lonely <- FALSE, Faulty <- FALSE, Asks <- {}

slotOnly == <<meta, store_tx, grpc_tx, handler, timers, armed, detached,
              timer_q, monitor, wedged>>

repairOnly == <<processor, out_q, outstanding, ticking, resend, socket_tx,
                responses, receiver, filter_tx, peer_has>>

vars == <<slotOnly, repair_tx, repairOnly, faults>>

Init == Slot!Init /\ Repair!Init /\ faults = 0

-----------------------------------------------------------------------------
(* Slot metadata.                                                          *)

HandleTurbine(sh) ==
  /\ Slot!HandleShred(sh) \/ Slot!HandleShredLocked(sh)
  /\ UNCHANGED <<repairOnly, faults>>

\* A shred from the repair manager passes the filter and is filed.
HandleRepaired(shred) ==
  LET sh == [slot |-> shred.slot, kind |-> "data", index |-> shred.index]
  IN /\ shred \in filter_tx
     /\ Slot!HandleShred(sh)
     /\ filter_tx' = filter_tx \ {shred}
     /\ UNCHANGED <<processor, out_q, outstanding, ticking, resend, socket_tx,
                    responses, receiver, peer_has, faults>>

SlotTask ==
  /\ \/ Slot!HandlerResumes
     \/ Slot!MonitorInsertion
     \/ Slot!MonitorCompletion
     \/ Slot!MonitorTimeout
     \/ Slot!MonitorResumes
  /\ UNCHANGED <<repairOnly, faults>>

SlotTimer(s) ==
  /\ Slot!TimerFires(s)
  /\ UNCHANGED <<repairOnly, faults>>

GrpcTakes ==
  /\ Slot!GrpcTakes
  /\ UNCHANGED <<repairOnly, faults>>

-----------------------------------------------------------------------------
(* Repair.                                                                 *)

ProcessorTask ==
  /\ \/ Repair!ProcessBounded
     \/ Repair!ProcessUnbounded
     \/ Repair!ProcessCancel
     \/ Repair!ProcessorResumes
  /\ UNCHANGED <<slotOnly, faults>>

OutstandingTask ==
  /\ \/ Repair!TrackNew
     \/ Repair!RetryDropped
     \/ Repair!Retry
     \/ Repair!RetryResumes
  /\ UNCHANGED <<slotOnly, faults>>

ReceiverTask ==
  /\ \/ \E pkt \in responses :
          \/ Repair!ReceiveDropped(pkt)
          \/ Repair!ReceiveWindow(pkt)
          \/ Repair!ReceiveHighest(pkt)
     \/ Repair!ReceiverResumes
  /\ UNCHANGED <<slotOnly, faults>>

\* A response may still come for a request that is under way or answered.
Answerable(r) ==
  \/ \E pkt \in responses : pkt.nonce = r.nonce
  \/ \E pkt \in UNION (Repair!Seqs(socket_tx) \cup ({processor} \ {None})) :
       pkt.nonce = r.nonce
  \/ receiver # None /\ \E pkt \in receiver.batch : pkt.nonce = r.nonce

\* A timer that fires although the response is still to come is a fault.
RequestTimer(r) ==
  /\ Repair!TimerFires(r)
  /\ Answerable(r) => faults < MaxFaults
  /\ faults' = IF Answerable(r) THEN faults + 1 ELSE faults
  /\ UNCHANGED slotOnly

\* Each request of the batch that could have been answered and was not is one.
SocketTask ==
  LET answerable == {pkt \in Head(socket_tx) : Repair!Answer(pkt) # {}}
  IN /\ Repair!SocketSends
     /\ faults' = faults + Cardinality(answerable)
                    - Cardinality(responses' \ responses)
     /\ faults' <= MaxFaults
     /\ UNCHANGED slotOnly

PeersAdvance(s) ==
  /\ Repair!PeersAdvance(s)
  /\ UNCHANGED <<slotOnly, faults>>

-----------------------------------------------------------------------------
Next ==
  \/ \E sh \in Turbine : HandleTurbine(sh)
  \/ \E shred \in filter_tx : HandleRepaired(shred)
  \/ SlotTask
  \/ \E s \in Slots : SlotTimer(s)
  \/ GrpcTakes
  \/ ProcessorTask
  \/ OutstandingTask
  \/ ReceiverTask
  \/ \E r \in ticking : RequestTimer(r)
  \/ SocketTask
  \/ \E s \in Slots : PeersAdvance(s)

\* Every task that can run eventually does: the Glommio executor polls ready
\* tasks in turn, timers fire and the socket drains.  Nothing is assumed of
\* turbine.
Fairness ==
  /\ WF_vars(\E shred \in filter_tx : HandleRepaired(shred))
  /\ WF_vars(SlotTask)
  /\ \A s \in Slots : WF_vars(SlotTimer(s)) /\ WF_vars(PeersAdvance(s))
  /\ WF_vars(GrpcTakes)
  /\ WF_vars(ProcessorTask)
  /\ WF_vars(OutstandingTask)
  /\ WF_vars(ReceiverTask)
  /\ WF_vars(\E r \in ticking : RequestTimer(r))
  /\ WF_vars(SocketTask)

Spec == Init /\ [][Next]_vars /\ Fairness

-----------------------------------------------------------------------------
(* Properties.                                                             *)

Complete(s) == s \in DOMAIN meta /\ Slot!IsComplete(meta[s])

\* A slot of which a data shred was filed is completed in the end: what
\* calculate_missing_shreds finds is to complete it.  The code does not keep
\* this, see Overlooked.
SlotsComplete == \A s \in Slots : (s \in DOMAIN meta /\ meta[s].data # {}) ~> Complete(s)

\* An unbounded request is on its way that leaves out missing shreds: it covers
\* the FEC sets up to the last one with a data shred, and what comes after
\* max_inclusive_shred, which coding shreds raise too.  Later requests may be
\* dropped or never be made, as an Ignored shred arms no timer.
Overlooked(s) ==
  /\ s \in DOMAIN meta
  /\ \E req \in Slot!Asked :
       /\ req.type = "unbounded" /\ req.slot = s
       /\ \E f \in Slot!FecSets(NumBatches[s]) \ meta[s].completed :
            \E i \in Slot!FecSet(f) \ meta[s].data :
              i < req.max_inclusive /\ i \notin req.shreds

\* A slot of which any shred was filed, data or coding, is completed in the end,
\* whatever turbine loses, if no request ever overlooks shreds of it, it is not
\* evicted and the thread does not hang on a full repair queue: every missing
\* shred is requested (calculate_missing_shreds and
\* handle_unbounded_packet_response), requests that time out are sent again, and
\* those that are dropped because older ones are outstanding were not needed.
RequestedComplete ==
  \A s \in Slots :
    [](~Overlooked(s)) =>
      (s \in DOMAIN meta ~> (Complete(s) \/ s \notin DOMAIN meta \/ wedged))

\* Once a slot is complete its repair traffic dies out: a cancellation that
\* overtakes a request on its way to the store (ProcessCancel) leaves no
\* request behind that is retried for ever.
RepairSubsides ==
  \A s \in Slots : Complete(s) ~> [](~Repair!Traffic(s))
=============================================================================
