---------------------------- MODULE OverlayPaths ----------------------------
(***************************************************************************)
(* How nodes behind NAT get paths to each other: either a node confirms by *)
(* dial-back that it can be dialled (OverlayDialBack), or two that cannot  *)
(* be meet through a common peer (OverlayPunch).  The two protocols of     *)
(* overlay/service.rs share no state but the boxes they work on; a         *)
(* behaviour shows one of them at work, the other at rest.                 *)
(***************************************************************************)
EXTENDS OverlayDialBack, OverlayPunch

VARIABLE scene

pathVars == <<scene, dialBackVars, punchVars>>

PathsInit ==
  \/ /\ scene = "dialback"
     /\ \E chosen \in Settings : InitDialBack(chosen)
     /\ InitPunch(CHOOSE chosen \in Pairs : TRUE)
  \/ /\ scene = "punch"
     /\ \E chosen \in Pairs : InitPunch(chosen)
     /\ InitDialBack(CHOOSE chosen \in Settings : TRUE)

PathsNext ==
  \/ scene = "dialback" /\ NextDialBack /\ UNCHANGED <<scene, punchVars>>
  \/ scene = "punch" /\ NextPunch /\ UNCHANGED <<scene, dialBackVars>>

PathsSpec == PathsInit /\ [][PathsNext]_pathVars

-----------------------------------------------------------------------------
\* Type invariant.  Part of it is about resources: every short-lived socket of a
\* node has a probe, a session or a helper that will close it, or is the one a
\* connection lives on, so timeouts, late answers and refusals leak none.
PathTypes ==
  /\ scene \in {"dialback", "punch"}
  /\ DialBackTypes
  /\ PunchTypes

=============================================================================
