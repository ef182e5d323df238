---------------------------- MODULE RuleLifecycle ----------------------------
(***************************************************************************)
(* What the review promises about each firewall rule, without records,     *)
(* users, audit rows or time: the rule's phase, whether a decision is      *)
(* still open on it, and whether somebody ever rejected it.                *)
(* ApprovalWorkflow implements it (module LifecycleRefinement).            *)
(***************************************************************************)
CONSTANT Rules

VARIABLES phase, open, vetoed

vars == <<phase, open, vetoed>>

Init ==
  /\ phase \in [Rules -> {"draft", "active"}]
  /\ open = [r \in Rules |-> FALSE]
  /\ vetoed = [r \in Rules |-> FALSE]

\* A draft or a rejected rule enters review, with decisions to take.
Submit(r) ==
  /\ phase[r] \in {"draft", "rejected"}
  /\ phase' = [phase EXCEPT ![r] = "pending_approval"]
  /\ open' = [open EXCEPT ![r] = TRUE]
  /\ UNCHANGED vetoed

\* An approval that is not the last one.  Decisions are left, or the rule was
\* rejected in the past and the approvers alone no longer settle it.
Approve(r) ==
  /\ open[r]
  /\ \E left \in BOOLEAN : /\ left \/ vetoed[r]
                           /\ open' = [open EXCEPT ![r] = left]
  /\ UNCHANGED <<phase, vetoed>>

\* The last approval of a rule that nobody ever rejected.
Activate(r) ==
  /\ open[r]
  /\ ~vetoed[r]
  /\ phase' = [phase EXCEPT ![r] = "active"]
  /\ open' = [open EXCEPT ![r] = FALSE]
  /\ UNCHANGED vetoed

Reject(r) ==
  /\ open[r]
  /\ phase' = [phase EXCEPT ![r] = "rejected"]
  /\ vetoed' = [vetoed EXCEPT ![r] = TRUE]
  /\ \E left \in BOOLEAN : open' = [open EXCEPT ![r] = left]

\* The sweep settles any number of rules under review.
AutoActivate(done) ==
  /\ \A r \in done : phase[r] = "pending_approval"
  /\ phase' = [r \in Rules |-> IF r \in done THEN "active" ELSE phase[r]]
  /\ open' = [r \in Rules |-> IF r \in done THEN FALSE ELSE open[r]]
  /\ UNCHANGED vetoed

Archive(r) ==
  /\ phase' = [phase EXCEPT ![r] = "archived"]
  /\ UNCHANGED <<open, vetoed>>

Next ==
  \/ \E r \in Rules : \/ Submit(r) \/ Approve(r) \/ Activate(r)
                      \/ Reject(r) \/ Archive(r)
  \/ \E done \in SUBSET Rules : AutoActivate(done)

Spec == Init /\ [][Next]_vars

=============================================================================
