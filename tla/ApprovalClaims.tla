--------------------------- MODULE ApprovalClaims ---------------------------
(***************************************************************************)
(* What the documents, the messages and the comments of the repository say *)
(* about the review, and the handlers, run one at a time, do not do.       *)
(***************************************************************************)
EXTENDS ApprovalWorkflow

\* rule-detail.component.ts asks "Archive this rule? This action cannot be
\* undone."  A decision on a record left open when the rule was archived
\* changes its status again.
ArchiveCannotBeUndone ==
  [][\A r \in Rules : status[r] = "archived" => status'[r] = "archived"]_vars

\* The admin guide: a rule under review is approved when the approver accepts.
\* After a rejection and a resubmission every approver of the round can accept
\* and the rule stays under review: approve also counts the rejected record of
\* the round before.
AcceptedRoundActivates ==
  \A r \in Rules : status[r] = "pending_approval" =>
    \E i \in LatestRound(r) : approvals[r][i].status # "approved"
=============================================================================
