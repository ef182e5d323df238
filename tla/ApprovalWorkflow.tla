-------------------------- MODULE ApprovalWorkflow --------------------------
(***************************************************************************)
(* The review of firewall rules: ApprovalWorkflowService                   *)
(* (backend/app/services/approval_service.py), the two operations of       *)
(* FirewallRuleService that change a stored rule (update_rule and          *)
(* archive_rule), and the audit rows AuditService.log_action commits.      *)
(*                                                                         *)
(* This module is the service as one backend process runs it: a handler    *)
(* contains no await, so it is one step.  ReplicatedApproval has the same  *)
(* handlers with the interleavings that several processes allow.           *)
(*                                                                         *)
(* Every variable is a column of a table, as a function of the rule; the   *)
(* rows of approval_records and of audit_logs that belong to one rule are  *)
(* a sequence in the order of their primary keys.                          *)
(***************************************************************************)
EXTENDS Integers, Sequences, FiniteSets

CONSTANTS
  Rules,                  \* primary keys of firewall_rules
  Users,                  \* oidc_sub of the rows of users
  RoleOf,                 \* users.role
  IsActiveUser,           \* users.is_active
  UserWorkload,           \* users.workload
  Workloads,              \* the workload names in use
  NoWorkload,             \* no workload: NULL or the empty string
  Unassigned,             \* a NULL approval_records.approver_id
  AutoApproveAfterDays,   \* settings.AUTO_APPROVE_AFTER_DAYS
  MaxDay,                 \* bound: the clock stops on this day
  MaxRounds               \* bound: how often one rule is submitted

Roles == {"admin", "security_stakeholder", "workload_stakeholder",
          "reviewer", "viewer"}

ASSUME ConstantsAssumption ==
  /\ RoleOf \in [Users -> Roles]
  /\ IsActiveUser \in [Users -> BOOLEAN]
  /\ UserWorkload \in [Users -> Workloads \cup {NoWorkload}]
  /\ NoWorkload \notin Workloads
  /\ Unassigned \notin Users
  /\ AutoApproveAfterDays \in Nat
  /\ MaxDay \in Nat
  /\ MaxRounds \in Nat

SECURITY_ROLE == "security_stakeholder"
WORKLOAD_ROLE == "workload_stakeholder"

RuleStatus == {"draft", "pending_approval", "approved", "rejected",
               "active", "deprecated", "archived"}

ApprovalStatus == {"pending", "approved", "rejected", "cancelled"}

NoTime == -1                       \* a NULL timestamp
Days == 0..MaxDay

ApprovalRecord == [approver_role : {SECURITY_ROLE, WORKLOAD_ROLE},
                   approver_id   : Users \cup {Unassigned},
                   status        : ApprovalStatus]

\* log_action's row: the status before and after, and whether a user or the
\* string "system" is its user_id.
AuditEntry == [action : {"submit", "approve", "reject"},
               old    : RuleStatus,
               new    : RuleStatus,
               by     : {"user", "system"}]

VARIABLES
  status,         \* firewall_rules.status
  is_active,      \* firewall_rules.is_active
  workload,       \* firewall_rules.workload
  submitted_at,   \* firewall_rules.submitted_for_approval_at
  approved_at,    \* firewall_rules.approved_at
  approvals,      \* the approval_records of each rule
  audit,          \* the audit_logs of each rule
  today           \* utcnow(), in days

ruleVars == <<status, is_active, workload, submitted_at, approved_at>>
vars == <<status, is_active, workload, submitted_at, approved_at,
          approvals, audit, today>>

-----------------------------------------------------------------------------
\* Rows the handlers build

\* The default of get_required_approvers: FirewallRule has no attribute
\* required_approval_level, so no other branch is ever taken.
get_required_approvers == <<SECURITY_ROLE, WORKLOAD_ROLE>>

\* The active users submit_for_approval selects for a rule.
WorkloadUsers(r) ==
  {u \in Users : /\ IsActiveUser[u]
                 /\ workload[r] = NoWorkload \/ UserWorkload[u] = workload[r]}

\* Whom it may put on a record: the first match, in an order the query does
\* not fix, or nobody.  Its second search reads the same list again.
Approvers(r, role) ==
  LET found == {u \in WorkloadUsers(r) : RoleOf[u] = role}
  IN  IF found = {} THEN {Unassigned} ELSE found

NewRecord(role, approver) ==
  [approver_role |-> role, approver_id |-> approver, status |-> "pending"]

\* Mutant of NewEntry: the old status is read after the new one was assigned.
NewEntry_ReadLate(r, action, new, by) ==
  [action |-> action, old |-> new, new |-> new, by |-> by]

NewEntry(r, action, new, by) ==
  [action |-> action, old |-> status[r], new |-> new, by |-> by]

\* get_current_user admits the active users.
Authenticated(u) == IsActiveUser[u]

MayDecide(u, record) == RoleOf[u] \in {record.approver_role, "admin"}

\* require_role of the archive endpoint.
MayArchive(u) == Authenticated(u) /\ RoleOf[u] \in {"admin", "reviewer"}

\* Mutants of AllApproved: any() for all(); a rejected record counts.
AllApproved_Any(records) ==
  \E k \in DOMAIN records : records[k].status = "approved"
AllApproved_Decided(records) ==
  \A k \in DOMAIN records : records[k].status # "pending"

AllApproved(records) ==
  \A k \in DOMAIN records : records[k].status = "approved"

-----------------------------------------------------------------------------
\* A rule is written by the fixtures and the seed script, as a draft or as
\* active; no handler can insert one (create_rule raises).
Init ==
  /\ status \in [Rules -> {"draft", "active"}]
  /\ is_active = [r \in Rules |-> TRUE]
  /\ workload \in [Rules -> Workloads \cup {NoWorkload}]
  /\ submitted_at = [r \in Rules |-> NoTime]
  /\ approved_at = [r \in Rules |-> NoTime]
  /\ approvals = [r \in Rules |-> << >>]
  /\ audit = [r \in Rules |-> << >>]
  /\ today = 0

\* Mutant of submit_for_approval: any rule that is not under review or in
\* force may be submitted.
submit_for_approval_Unguarded(u, r) ==
  /\ Authenticated(u)
  /\ status[r] \notin {"pending_approval", "active"}
  /\ Len(approvals[r]) < Len(get_required_approvers) * MaxRounds
  /\ status' = [status EXCEPT ![r] = "pending_approval"]
  /\ submitted_at' = [submitted_at EXCEPT ![r] = today]
  /\ approvals' = [approvals EXCEPT
       ![r] = @ \o <<NewRecord(SECURITY_ROLE, Unassigned),
                     NewRecord(WORKLOAD_ROLE, Unassigned)>>]
  /\ audit' = [audit EXCEPT
       ![r] = Append(@, NewEntry(r, "submit", "pending_approval", "user"))]
  /\ UNCHANGED <<is_active, workload, approved_at, today>>

submit_for_approval(u, r) ==
  /\ Authenticated(u)
  /\ status[r] \in {"draft", "rejected"}
  /\ Len(approvals[r]) < Len(get_required_approvers) * MaxRounds
  /\ status' = [status EXCEPT ![r] = "pending_approval"]
  /\ submitted_at' = [submitted_at EXCEPT ![r] = today]
  /\ \E s \in Approvers(r, SECURITY_ROLE), w \in Approvers(r, WORKLOAD_ROLE) :
       approvals' = [approvals EXCEPT
         ![r] = @ \o <<NewRecord(SECURITY_ROLE, s), NewRecord(WORKLOAD_ROLE, w)>>]
  /\ audit' = [audit EXCEPT
       ![r] = Append(@, NewEntry(r, "submit", "pending_approval", "user"))]
  /\ UNCHANGED <<is_active, workload, approved_at, today>>

\* Mutant of Decide: the audit action is stored as the status.
Decide_WrongEnum(r, action, new) ==
  /\ status' = [status EXCEPT ![r] = action]
  /\ approved_at' = [approved_at EXCEPT ![r] = today]
  /\ audit' = [audit EXCEPT ![r] = Append(@, NewEntry(r, action, new, "user"))]

\* The rule's columns and audit row when a decision sets its status.
Decide(r, action, new) ==
  /\ status' = [status EXCEPT ![r] = new]
  /\ approved_at' = [approved_at EXCEPT ![r] = today]
  /\ audit' = [audit EXCEPT ![r] = Append(@, NewEntry(r, action, new, "user"))]

\* Mutant of OpenTo: a record can be decided twice.
OpenTo_AnyRecord(u, r, i) ==
  /\ Authenticated(u)
  /\ i \in DOMAIN approvals[r]
  /\ MayDecide(u, approvals[r][i])

\* The record is open and the caller may decide it; the rule's own status
\* is not consulted.
OpenTo(u, r, i) ==
  /\ Authenticated(u)
  /\ i \in DOMAIN approvals[r]
  /\ approvals[r][i].status = "pending"
  /\ MayDecide(u, approvals[r][i])

\* Mutant of approve: the records are counted before this one is approved.
approve_CountsBefore(u, r, i) ==
  /\ OpenTo(u, r, i)
  /\ approvals' = [approvals EXCEPT ![r][i].status = "approved"]
  /\ \/ /\ AllApproved(approvals[r])
        /\ Decide(r, "approve", "active")
     \/ /\ ~AllApproved(approvals[r])
        /\ UNCHANGED <<status, approved_at, audit>>
  /\ UNCHANGED <<is_active, workload, submitted_at, today>>

approve(u, r, i) ==
  /\ OpenTo(u, r, i)
  /\ approvals' = [approvals EXCEPT ![r][i].status = "approved"]
  /\ \/ /\ AllApproved(approvals'[r])
        /\ Decide(r, "approve", "active")
     \/ /\ ~AllApproved(approvals'[r])
        /\ UNCHANGED <<status, approved_at, audit>>
  /\ UNCHANGED <<is_active, workload, submitted_at, today>>

reject(u, r, i) ==
  /\ OpenTo(u, r, i)
  /\ approvals' = [approvals EXCEPT ![r][i].status = "rejected"]
  /\ Decide(r, "reject", "rejected")
  /\ UNCHANGED <<is_active, workload, submitted_at, today>>

\* Mutant of Overdue: the cutoff is forgotten.
Overdue_AnyAge == {r \in Rules : status[r] = "pending_approval"}

\* The rules the sweep selects.
Overdue == {r \in Rules : /\ status[r] = "pending_approval"
                          /\ submitted_at[r] # NoTime
                          /\ submitted_at[r] <= today - AutoApproveAfterDays}

\* Mutant of AutoApproved: the rule is activated, its records stay open.
AutoApproved_LeavesOpen(records) == records

AutoApproved(records) ==
  [k \in DOMAIN records |->
     IF records[k].status = "pending"
       THEN [records[k] EXCEPT !.status = "approved"]
       ELSE records[k]]

\* log_action commits rule by rule: done is every overdue rule, or the ones
\* committed before the process dies.
check_auto_approve(done) ==
  /\ done # {}
  /\ approvals' = [r \in Rules |->
       IF r \in done THEN AutoApproved(approvals[r]) ELSE approvals[r]]
  /\ status' = [r \in Rules |-> IF r \in done THEN "active" ELSE status[r]]
  /\ approved_at' = [r \in Rules |-> IF r \in done THEN today ELSE approved_at[r]]
  /\ audit' = [r \in Rules |->
       IF r \in done
         THEN Append(audit[r], NewEntry(r, "approve", "active", "system"))
         ELSE audit[r]]
  /\ UNCHANGED <<is_active, workload, submitted_at, today>>

\* The fields of FirewallRuleUpdate the workflow depends on; the schema has
\* no status.  The AuditLog object is built and never added to the session.
update_rule(u, r, newActive, newWorkload) ==
  /\ Authenticated(u)
  /\ is_active' = [is_active EXCEPT ![r] = newActive]
  /\ workload' = [workload EXCEPT ![r] = newWorkload]
  /\ UNCHANGED <<status, submitted_at, approved_at, approvals, audit, today>>

\* The audit object is not added either.
archive_rule(u, r) ==
  /\ MayArchive(u)
  /\ status' = [status EXCEPT ![r] = "archived"]
  /\ is_active' = [is_active EXCEPT ![r] = FALSE]
  /\ UNCHANGED <<workload, submitted_at, approved_at, approvals, audit, today>>

NextDay ==
  /\ today < MaxDay
  /\ today' = today + 1
  /\ UNCHANGED <<ruleVars, approvals, audit>>

Next ==
  \/ \E u \in Users, r \in Rules :
       \/ submit_for_approval(u, r)
       \/ \E i \in DOMAIN approvals[r] : approve(u, r, i) \/ reject(u, r, i)
       \/ \E b \in BOOLEAN, w \in Workloads \cup {NoWorkload} : update_rule(u, r, b, w)
       \/ archive_rule(u, r)
  \/ \E done \in SUBSET Overdue : check_auto_approve(done)
  \/ NextDay

Spec == Init /\ [][Next]_vars

-----------------------------------------------------------------------------
\* Properties

TypeOK ==
  /\ status \in [Rules -> RuleStatus]
  /\ is_active \in [Rules -> BOOLEAN]
  /\ workload \in [Rules -> Workloads \cup {NoWorkload}]
  /\ submitted_at \in [Rules -> Days \cup {NoTime}]
  /\ approved_at \in [Rules -> Days \cup {NoTime}]
  /\ approvals \in [Rules -> Seq(ApprovalRecord)]
  /\ audit \in [Rules -> Seq(AuditEntry)]
  /\ today \in Days

Open(r) == \E i \in DOMAIN approvals[r] : approvals[r][i].status = "pending"
Vetoed(r) == \E i \in DOMAIN approvals[r] : approvals[r][i].status = "rejected"

\* The records of the rule's latest submission.
LatestRound(r) ==
  {i \in DOMAIN approvals[r] :
     i > Len(approvals[r]) - Len(get_required_approvers)}

LastEntry(r) == audit[r][Len(audit[r])]

\* A rule in force has no approval record left open, however many rounds,
\* late decisions and sweeps came before: approve and check_auto_approve only
\* activate a rule whose records they leave settled.
ActiveIsSettled == \A r \in Rules : status[r] = "active" => ~Open(r)

\* Once a rule that was ever submitted is in force, its latest round holds an
\* approval of each of the two stakeholders (get_required_approvers).
ActivatedByBothRoles ==
  \A r \in Rules : status[r] = "active" /\ approvals[r] # << >> =>
    \A role \in {SECURITY_ROLE, WORKLOAD_ROLE} :
      \E i \in LatestRound(r) : /\ approvals[r][i].approver_role = role
                               /\ approvals[r][i].status = "approved"

\* A rule under review that nobody ever rejected still has a record somebody
\* can decide: approve's activation cannot be missed and leave it waiting.
PendingHasWork ==
  \A r \in Rules : status[r] = "pending_approval" /\ ~Vetoed(r) => Open(r)

\* What makes the two inductive: no handler ever cancels a record.
NeverCancelled ==
  \A r \in Rules : \A i \in DOMAIN approvals[r] :
    approvals[r][i].status # "cancelled"

ReviewInv == TypeOK /\ NeverCancelled /\ ActiveIsSettled /\ PendingHasWork

\* The audit rows of a rule replay its history: the first is its submission
\* as a draft, each one starts where the one before ended and the last ends
\* at the rule's status, but for the archiving that is never recorded.
AuditChains ==
  \A r \in Rules : audit[r] # << >> =>
    /\ audit[r][1].action = "submit" /\ audit[r][1].old = "draft"
    /\ \A k \in 1..(Len(audit[r]) - 1) :
         audit[r][k + 1].old \in {audit[r][k].new, "archived"}
    /\ status[r] \in {LastEntry(r).new, "archived"}

\* No half of a handler is ever stored: two approval records per audited
\* submission and one rejected record per audited rejection.
RowsAreAudited ==
  LET Audited(r, action) == {k \in DOMAIN audit[r] : audit[r][k].action = action}
      Rejected(r) == {i \in DOMAIN approvals[r] : approvals[r][i].status = "rejected"}
  IN  \A r \in Rules :
        /\ Len(approvals[r]) =
             Len(get_required_approvers) * Cardinality(Audited(r, "submit"))
        /\ Cardinality(Rejected(r)) = Cardinality(Audited(r, "reject"))

\* The sweep activates a rule only when its latest submission, not an earlier
\* one, is AUTO_APPROVE_AFTER_DAYS old.
AutoApprovalWaits ==
  \A r \in Rules :
    status[r] = "active" /\ audit[r] # << >> /\ LastEntry(r).by = "system" =>
      /\ submitted_at[r] # NoTime
      /\ approved_at[r] - submitted_at[r] >= AutoApproveAfterDays

\* A rule in force is never taken back into review or rejected by a late
\* decision: it stays in force or is archived.
ActiveNeverReopens ==
  [][\A r \in Rules :
       status[r] = "active" => status'[r] \in {"active", "archived"}]_vars

\* A decision is final: a record that left "pending" is never changed again,
\* by a second decision, a new round or a sweep ("Approval record is already").
DecisionsAreFinal ==
  [][\A r \in Rules : \A i \in DOMAIN approvals[r] :
       approvals[r][i].status # "pending" =>
         i \in DOMAIN approvals'[r] /\ approvals'[r][i] = approvals[r][i]]_vars

\* The users cannot activate a rule any stakeholder rejected, in whatever
\* round: only the sweep can.
UsersCannotOverrule ==
  [][\A r \in Rules :
       Vetoed(r) /\ status[r] # "active" /\ status'[r] = "active" =>
         audit'[r][Len(audit'[r])].by = "system"]_vars

Undecided(r) == {i \in DOMAIN approvals[r] : approvals[r][i].status = "pending"}

\* Nothing restores an archived rule, although the administrator's guide calls
\* a deleted rule recoverable (admin-guide.md:51, :97): it leaves the archive
\* only by a decision on a record the archiving left open.  The decision names
\* the new status, uses its record up while the archive opens none, and leaves
\* is_active as it was: a rule so "restored" is in force but switched off.
ArchiveEndsByDecision ==
  [][\A r \in Rules : status[r] = "archived" =>
       /\ Undecided(r)' \subseteq Undecided(r)
       /\ status'[r] # "archived" =>
            /\ is_active'[r] = is_active[r]
            /\ \E i \in Undecided(r) :
                 \/ approvals'[r][i].status = "approved" /\ status'[r] = "active"
                 \/ approvals'[r][i].status = "rejected" /\ status'[r] = "rejected"]_vars
=============================================================================
