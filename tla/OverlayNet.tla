----------------------------- MODULE OverlayNet -----------------------------
(***************************************************************************)
(* The mesh with repair over one of its connections: Requester asks Mover, *)
(* over a connection that gossip or dissemination has made and that goes   *)
(* when Mover crashes, or Requester finds it at an address it gave up.     *)
(* Repairs are requested in one advert interval, and once they may be the  *)
(* mesh only loses Mover.                                                  *)
(***************************************************************************)
EXTENDS OverlayMesh, Sequences

CONSTANTS
  Requester,
  RepairAt,     \* bound: the interval in which repairs are requested
  Nonces, MaxStreams, MaxOutbound, MaxInbound, MaxRate, MaxEvents

ASSUME RepairAssumption ==
  /\ Requester \in Nodes \ {Mover} /\ RepairAt \in Nat
  /\ {MaxStreams, MaxOutbound, MaxInbound, MaxRate, MaxEvents} \subseteq Nat \ {0}

\* What may be written on a stream, and None, which is nothing of it.
Bytes == Seq({"garbage", "huge", "notfound", "request", "shred"} \cup Nonces)
ASSUME UnsetAssumption ==
  None \notin Nonces \cup [fin_sent : BOOLEAN, fin_recvd : BOOLEAN]
              \cup Seq(Bytes) \cup [buf : Seq(Bytes), awaiting : BOOLEAN]

VARIABLES
  streams, opened, outbound, inbound, ops, events, nonces, rate, view, told,
  concluded, dropped

Linked ==
  [end \in {"requester", "server"} |->
     IF end = "requester" THEN Mover \in core[Requester].conn
     ELSE Requester \in core[Mover].conn]

Repair == INSTANCE OverlayRepair WITH linked <- Linked

repairVars ==
  <<streams, opened, outbound, inbound, ops, events, nonces, rate, view, told,
    concluded, dropped>>
netVars == <<vars, repairVars>>

\* Whether repairs may be asked for: an honest Mover, and no fault before.
Window ==
  /\ ticks = RepairAt /\ Quiet /\ claim = Mover /\ Faults = 0
  /\ \A n \in Nodes : core[n].seen = {}

\* Before that there are no streams that would follow the connections.
MeshStep ==
  \/ ~view /\ opened = 0 /\ Next /\ UNCHANGED repairVars
  \/ /\ view /\ (Crash \/ \E n, m \in Nodes : Disconnect(n, m))
     /\ Repair!Follow(up /\ ~up')

RepairStep ==
  /\ (Window /\ Repair!Ask) \/ Repair!Progress
  /\ UNCHANGED vars

NetInit == Init /\ Repair!InitRepair
NetSpec == NetInit /\ [][MeshStep \/ RepairStep]_netVars

\* Repair!RepairConcludes, of streams over a connection of the mesh.
RepairConcludes == Repair!RepairConcludes

=============================================================================
