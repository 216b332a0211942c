--------------------------- MODULE MCOverlayPaths ---------------------------
(* Settings of the dial-back requester, and pairs of boxes to punch through. *)
EXTENDS OverlayPaths

MCHelperPort == 1 :> 10 @@ 2 :> 11
MCStranger == <<9, 4, 77>>

MCSetting(v4, v6, gateway) == [v4 |-> v4, v6 |-> v6, gateway |-> gateway]
MCSettings ==
  {MCSetting(FullCone, FALSE, NoGateway), MCSetting(RestrictedCone, FALSE, Hollow),
   MCSetting(PortRestrictedCone, FALSE, Real), MCSetting(FieldNoteFiber, FALSE, Hollow),
   MCSetting(SymmetricSequential, FALSE, Real), MCSetting(SymmetricPreserving, FALSE, NoGateway),
   MCSetting(PortRestrictedCone, TRUE, Real)}

MCObserverAddrs == <<<<1, 4, 10>>, <<2, 4, 10>>, <<5, 4, 11>>>>
MCDrawn == <<5, 9, 6>>

MCPair(x, y, who, birthday, most) ==
  [nat |-> 3 :> x @@ 4 :> y, who |-> who, birthday |-> birthday, mishaps |-> most]
MCPairs ==
  {MCPair(PortRestrictedCone, PortRestrictedCone, {3, 4}, FALSE, 1),
   MCPair(Firewall, Firewall, {4}, FALSE, 0),
   MCPair(FieldNoteFiber, PortRestrictedCone, {3}, FALSE, 1),
   MCPair(FullCone, FieldNoteFiber, {3}, FALSE, 0),
   MCPair(FullCone, SymmetricSequential, {3}, FALSE, 0),
   MCPair(SymmetricSequential, RestrictedCone, {4}, FALSE, 0),
   MCPair(SymmetricSequential, SymmetricSequential, {3}, FALSE, 0),
   MCPair(SymmetricSequential, SymmetricSequential, {3, 4}, FALSE, 0),
   MCPair(SymmetricPreserving, FieldNoteFiber, {4}, FALSE, 0),
   MCPair(FieldNoteFiber, FieldNoteFiber, {3}, FALSE, 0),
   MCPair(SymmetricRandom, PortRestrictedCone, {3}, TRUE, 0),
   MCPair(SymmetricRandom, PortRestrictedCone, {4}, FALSE, 0)}

\* Bound: frames and requests of the dial-back scene under way at a time.
Sparse == Cardinality(wire) <= (IF setting.v6 THEN 1 ELSE 2) /\ Cardinality(pending) <= 2

=============================================================================
