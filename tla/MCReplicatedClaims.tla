------------------------- MODULE MCReplicatedClaims -------------------------
(* An administrator, one rule and two sessions.                              *)
EXTENDS ReplicatedClaims

CONSTANTS adm, r1, s1, s2

MCUsers == {adm}
MCRoleOf == [u \in MCUsers |-> "admin"]
MCIsActiveUser == [u \in MCUsers |-> TRUE]
MCUserWorkload == [u \in MCUsers |-> NoWorkload]
=============================================================================
