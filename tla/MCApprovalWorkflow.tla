------------------------- MODULE MCApprovalWorkflow -------------------------
(* Constants for checking ApprovalWorkflow: an administrator, a security    *)
(* stakeholder of the rule's workload, a workload stakeholder of another    *)
(* one and a reviewer, so that a round can have an unassigned record.       *)
EXTENDS ApprovalWorkflow

CONSTANTS adm, sec, wl, rev, web, r1, r2

MCUsers == {adm, sec, wl, rev}
MCRoleOf == [u \in MCUsers |->
               CASE u = adm -> "admin"
                 [] u = sec -> SECURITY_ROLE
                 [] u = wl  -> WORKLOAD_ROLE
                 [] u = rev -> "reviewer"]
MCIsActiveUser == [u \in MCUsers |-> TRUE]
MCUserWorkload == [u \in MCUsers |-> IF u = sec THEN web ELSE NoWorkload]
=============================================================================
