------------------------ MODULE MCReplicatedApproval ------------------------
(* An administrator and two sessions: enough for every pair of requests to   *)
(* meet on one rule.                                                         *)
EXTENDS ReplicatedApproval, LifecycleRefinement, TLC

CONSTANTS adm, r1, r2, s1, s2

MCUsers == {adm}
MCRoleOf == [u \in MCUsers |-> "admin"]
MCIsActiveUser == [u \in MCUsers |-> TRUE]
MCUserWorkload == [u \in MCUsers |-> NoWorkload]

\* The sessions are interchangeable: no action and no property names one.
SessionSymmetry == Permutations({s1, s2})
=============================================================================
