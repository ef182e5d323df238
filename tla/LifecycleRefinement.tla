------------------------- MODULE LifecycleRefinement -------------------------
(* ApprovalWorkflow implements RuleLifecycle: a rule's phase is its status,  *)
(* it is open while one of its records is pending, and vetoed once one of    *)
(* its records is rejected.                                                  *)
EXTENDS ApprovalWorkflow

openOf == [r \in Rules |-> Open(r)]
vetoedOf == [r \in Rules |-> Vetoed(r)]

Lifecycle == INSTANCE RuleLifecycle
               WITH phase <- status, open <- openOf, vetoed <- vetoedOf

\* Every handler of the approval and firewall services is a step of the
\* abstract life cycle or leaves it unchanged, sweeps that die half way and
\* decisions on archived rules included.
ImplementsLifecycle == Lifecycle!Spec
=============================================================================
