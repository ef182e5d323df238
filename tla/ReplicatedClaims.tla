-------------------------- MODULE ReplicatedClaims --------------------------
(***************************************************************************)
(* What approval_service.py says of its handlers, what one process keeps,  *)
(* and what two overlapping requests for one rule break.                   *)
(***************************************************************************)
EXTENDS ReplicatedApproval

\* "Approval record is already ...": no record is decided twice.  Two requests
\* that both read it pending both decide it, and the later commit wins.
DecidedOnce ==
  [][\A r \in Rules : \A i \in DOMAIN approvals[r] :
       approvals[r][i].status # "pending" =>
         approvals'[r][i] = approvals[r][i]]_rvars

\* "Check if all approvers have approved": the approval that completes the
\* records activates the rule.  Two approvers who read each other's record
\* before either commits both find it open, and nobody activates the rule.
LastApprovalActivates == PendingHasWork
=============================================================================
