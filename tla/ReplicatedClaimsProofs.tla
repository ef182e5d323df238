----------------------- MODULE ReplicatedClaimsProofs -----------------------
(* What the replicas keep as long as no two requests for one rule overlap,   *)
(* and so what the overlap alone breaks: for every set of rules, users and   *)
(* sessions and every value of the bounds.                                   *)
EXTENDS ReplicatedClaims, ReplicaProofs

\* The life cycle of a rule is the abstract one, although each handler of a
\* replica takes several steps, among those of requests for other rules.
THEOREM DisjointRequestsKeepLifecycle == ~Overlap => (RSpec => ImplementsLifecycle)
BY DisjointRequestsAreAtomic, WorkflowImplementsLifecycle DEF HandlersAreAtomic

\* What holds of the review in one process holds of it in several.
THEOREM DisjointRequestsKeepReview ==
  ~Overlap =>
    (RSpec => /\ [](ActiveIsSettled /\ ActivatedByBothRoles /\ AutoApprovalWaits)
              /\ [](AuditChains /\ RowsAreAudited)
              /\ ActiveNeverReopens /\ ArchiveEndsByDecision /\ UsersCannotOverrule)
<1>1. Spec => /\ [](ActiveIsSettled /\ ActivatedByBothRoles /\ AutoApprovalWaits)
              /\ [](AuditChains /\ RowsAreAudited)
  BY ActiveSettled, BothRolesApprove, SweepIsPatient, HistoryIsWhole, NothingIsHalfStored, PTL
<1>2. Spec => ActiveNeverReopens /\ ArchiveEndsByDecision /\ UsersCannotOverrule
  BY ActiveStays, ArchiveStays, VetoStands
<1> QED
  BY <1>1, <1>2, DisjointRequestsAreAtomic DEF HandlersAreAtomic

\* The last approval of a rule that nobody rejected activates it: the run that
\* finds a rule waiting with every record approved needs two requests for it.
THEOREM OnlyOverlapStrandsARule == ~Overlap => (RSpec => []LastApprovalActivates)
BY DisjointRequestsAreAtomic, PendingDecidable DEF HandlersAreAtomic, LastApprovalActivates

\* A record is decided once: the run that finds a decision overwritten needs
\* two requests for its rule.
THEOREM OnlyOverlapDecidesTwice == ~Overlap => (RSpec => DecidedOnce)
<1>1. [\A r \in Rules : \A i \in DOMAIN approvals[r] :
         approvals[r][i].status # "pending" =>
           i \in DOMAIN approvals'[r] /\ approvals'[r][i] = approvals[r][i]]_vars
      => [\A r \in Rules : \A i \in DOMAIN approvals[r] :
            approvals[r][i].status # "pending" => approvals'[r][i] = approvals[r][i]]_rvars
  BY DEF vars
<1>2. DecisionsAreFinal => DecidedOnce
  BY <1>1, PTL DEF DecisionsAreFinal, DecidedOnce
<1> QED
  BY <1>2, DisjointRequestsAreAtomic, DecisionsStay DEF HandlersAreAtomic
=============================================================================
