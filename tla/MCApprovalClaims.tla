-------------------------- MODULE MCApprovalClaims --------------------------
(* The users of MCApprovalWorkflow, for the claims the handlers contradict.  *)
EXTENDS ApprovalClaims

CONSTANTS adm, sec, wl, web, r1

MCUsers == {adm, sec, wl}
MCRoleOf == [u \in MCUsers |->
               CASE u = adm -> "admin"
                 [] u = sec -> SECURITY_ROLE
                 [] u = wl  -> WORKLOAD_ROLE]
MCIsActiveUser == [u \in MCUsers |-> TRUE]
MCUserWorkload == [u \in MCUsers |-> IF u = sec THEN web ELSE NoWorkload]
=============================================================================
