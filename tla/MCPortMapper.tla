---------------------------- MODULE MCPortMapper ----------------------------
(* An instance of PortMapper for model checking, in units of one second;   *)
(* the two longest times are shortened.                                    *)
EXTENDS PortMapper

MCLease == [p \in Protocols |-> IF p = "upnp" THEN 24 ELSE 15]
MCGateways == {{p} : p \in Protocols} \cup {Protocols}
=============================================================================
