----------------------------- MODULE AuditProofs -----------------------------
(* Proofs about the audit trail of ApprovalWorkflow: what its rows say of a  *)
(* rule, for every set of rules, users and workloads and every bound.        *)
EXTENDS ApprovalWorkflowProofs, FiniteSetTheorems

-----------------------------------------------------------------------------
\* What a step of the service is to one rule

\* The rule gets a status and the audit row of it.
Logs(r, action, new, by) ==
  /\ status'[r] = new
  /\ audit'[r] = Append(audit[r], NewEntry(r, action, new, by))

\* One open record of the rule is decided.
Settles(r, i, new) ==
  /\ i \in DOMAIN approvals[r]
  /\ approvals[r][i].status = "pending"
  /\ approvals'[r] = [approvals[r] EXCEPT ![i].status = new]

KeepsColumns(r) ==
  /\ audit'[r] = audit[r]
  /\ submitted_at'[r] = submitted_at[r]
  /\ approved_at'[r] = approved_at[r]

Rests(r) ==
  /\ KeepsColumns(r)
  /\ approvals'[r] = approvals[r]
  /\ status'[r] \in {status[r], "archived"}

IsSubmitted(r) ==
  /\ status[r] \in {"draft", "rejected"}
  /\ Logs(r, "submit", "pending_approval", "user")
  /\ \E s, w \in Users \cup {Unassigned} :
       approvals'[r] = approvals[r] \o <<NewRecord(SECURITY_ROLE, s),
                                        NewRecord(WORKLOAD_ROLE, w)>>

IsAgreed(r) ==
  /\ \E i \in DOMAIN approvals[r] : Settles(r, i, "approved")
  /\ KeepsColumns(r)
  /\ status'[r] = status[r]

IsActivated(r) ==
  /\ \E i \in DOMAIN approvals[r] : Settles(r, i, "approved")
  /\ AllApproved(approvals'[r])
  /\ Logs(r, "approve", "active", "user")

IsRejected(r) ==
  /\ \E i \in DOMAIN approvals[r] : Settles(r, i, "rejected")
  /\ Logs(r, "reject", "rejected", "user")

IsSwept(r) ==
  /\ r \in Overdue
  /\ Logs(r, "approve", "active", "system")
  /\ approvals'[r] = AutoApproved(approvals[r])
  /\ submitted_at'[r] = submitted_at[r]
  /\ approved_at'[r] = today

LEMMA RuleSteps ==
  ASSUME TypeOK, [Next]_vars, NEW r \in Rules
  PROVE  \/ Rests(r) \/ IsSubmitted(r) \/ IsAgreed(r)
         \/ IsActivated(r) \/ IsRejected(r) \/ IsSwept(r)
<1>1. ASSUME NEW u \in Users, NEW q \in Rules, submit_for_approval(u, q)
      PROVE  Rests(r) \/ IsSubmitted(r)
  <2>1. CASE q = r
    <3>1. PICK s \in Users \cup {Unassigned}, w \in Users \cup {Unassigned} :
            approvals' = [approvals EXCEPT
              ![q] = @ \o <<NewRecord(SECURITY_ROLE, s), NewRecord(WORKLOAD_ROLE, w)>>]
      BY <1>1 DEF submit_for_approval, Approvers, WorkloadUsers
    <3>2. approvals'[r] = approvals[r] \o <<NewRecord(SECURITY_ROLE, s),
                                           NewRecord(WORKLOAD_ROLE, w)>>
      BY <2>1, <3>1 DEF TypeOK
    <3>3. status[r] \in {"draft", "rejected"} /\ Logs(r, "submit", "pending_approval", "user")
      BY <1>1, <2>1 DEF submit_for_approval, Logs, TypeOK
    <3> QED
      BY <3>2, <3>3 DEF IsSubmitted
  <2>2. CASE q # r
    <3>1. PICK records : approvals' = [approvals EXCEPT ![q] = records]
      BY <1>1 DEF submit_for_approval
    <3> QED
      BY <1>1, <2>2, <3>1 DEF submit_for_approval, Rests, KeepsColumns, TypeOK
  <2> QED
    BY <2>1, <2>2
<1>2. ASSUME NEW u \in Users, NEW q \in Rules, NEW i \in DOMAIN approvals[q], approve(u, q, i)
      PROVE  Rests(r) \/ IsAgreed(r) \/ IsActivated(r)
  <2>1. CASE q = r
    <3>1. Settles(r, i, "approved")
      BY <1>2, <2>1 DEF approve, OpenTo, Settles, TypeOK
    <3>2. CASE AllApproved(approvals'[q])
      <4>1. Logs(r, "approve", "active", "user")
        BY <1>2, <2>1, <3>2 DEF approve, Decide, Logs, TypeOK
      <4> QED
        BY <1>2, <2>1, <3>1, <3>2, <4>1 DEF IsActivated
    <3>3. CASE ~AllApproved(approvals'[q])
      <4>1. KeepsColumns(r) /\ status'[r] = status[r]
        BY <1>2, <3>3 DEF approve, KeepsColumns
      <4> QED
        BY <1>2, <2>1, <3>1, <4>1 DEF IsAgreed
    <3> QED
      BY <3>2, <3>3
  <2>2. CASE q # r
    BY <1>2, <2>2 DEF approve, Decide, Rests, KeepsColumns, TypeOK
  <2> QED
    BY <2>1, <2>2
<1>3. ASSUME NEW u \in Users, NEW q \in Rules, NEW i \in DOMAIN approvals[q], reject(u, q, i)
      PROVE  Rests(r) \/ IsRejected(r)
  <2>1. CASE q = r
    <3>1. Settles(r, i, "rejected") /\ Logs(r, "reject", "rejected", "user")
      BY <1>3, <2>1 DEF reject, OpenTo, Settles, Decide, Logs, TypeOK
    <3> QED
      BY <1>3, <2>1, <3>1 DEF IsRejected
  <2>2. CASE q # r
    BY <1>3, <2>2 DEF reject, Decide, Rests, KeepsColumns, TypeOK
  <2> QED
    BY <2>1, <2>2
<1>4. ASSUME NEW done \in SUBSET Overdue, check_auto_approve(done)
      PROVE  Rests(r) \/ IsSwept(r)
  <2>1. CASE r \in done
    BY <1>4, <2>1 DEF check_auto_approve, IsSwept, Logs
  <2>2. CASE r \notin done
    BY <1>4, <2>2 DEF check_auto_approve, Rests, KeepsColumns
  <2> QED
    BY <2>1, <2>2
<1>5. ASSUME \/ \E u \in Users, q \in Rules, b \in BOOLEAN, w \in Workloads \cup {NoWorkload} :
                  update_rule(u, q, b, w)
             \/ \E u \in Users, q \in Rules : archive_rule(u, q)
             \/ NextDay
             \/ UNCHANGED vars
      PROVE  Rests(r)
  BY <1>5 DEF update_rule, archive_rule, NextDay, ruleVars, vars, Rests, KeepsColumns, TypeOK
<1> QED
  BY <1>1, <1>2, <1>3, <1>4, <1>5 DEF Next

\* A logged step leaves the earlier rows and adds one that starts at the
\* status the rule had and ends at the one it gets.
LEMMA LoggedRow ==
  ASSUME TypeOK, NEW r \in Rules, NEW action \in {"submit", "approve", "reject"},
         NEW new \in RuleStatus, NEW by \in {"user", "system"}, Logs(r, action, new, by)
  PROVE  /\ Len(audit[r]) \in Nat
         /\ Len(audit'[r]) = Len(audit[r]) + 1
         /\ audit'[r] # << >>
         /\ \A k \in 1..Len(audit[r]) : audit'[r][k] = audit[r][k]
         /\ LET last == audit'[r][Len(audit[r]) + 1] IN
            last.action = action /\ last.old = status[r] /\ last.new = new /\ last.by = by
<1> DEFINE e == NewEntry(r, action, new, by)
<1>1. audit[r] \in Seq(AuditEntry)
  BY DEF TypeOK
<1>2. e \in AuditEntry
  BY DEF TypeOK, NewEntry, AuditEntry
<1>3. audit'[r] = Append(audit[r], e)
  BY DEF Logs
<1>4. e.action = action /\ e.old = status[r] /\ e.new = new /\ e.by = by
  BY DEF NewEntry
<1> HIDE DEF e
<1> QED
  BY <1>1, <1>2, <1>3, <1>4

-----------------------------------------------------------------------------
\* The chain of the rows

\* The conjunct of AuditChains for one rule.
Chain(r) ==
  /\ audit[r][1].action = "submit" /\ audit[r][1].old = "draft"
  /\ \A k \in 1..(Len(audit[r]) - 1) :
       audit[r][k + 1].old \in {audit[r][k].new, "archived"}
  /\ status[r] \in {LastEntry(r).new, "archived"}

\* A rule without a row was never submitted.
History(r) ==
  /\ audit[r] = << >> => approvals[r] = << >> /\ status[r] \in {"draft", "active", "archived"}
  /\ audit[r] # << >> => Chain(r)

LEMMA ChainGrows ==
  ASSUME TypeOK, NEW r \in Rules, History(r),
         NEW action \in {"submit", "approve", "reject"}, NEW new \in RuleStatus,
         NEW by \in {"user", "system"}, Logs(r, action, new, by),
         audit[r] = << >> => action = "submit" /\ status[r] = "draft"
  PROVE  History(r)'
<1> DEFINE n == Len(audit[r])
<1>1. /\ n \in Nat /\ Len(audit'[r]) = n + 1 /\ audit'[r] # << >>
      /\ \A k \in 1..n : audit'[r][k] = audit[r][k]
      /\ audit'[r][n + 1].action = action /\ audit'[r][n + 1].old = status[r]
      /\ audit'[r][n + 1].new = new
  BY LoggedRow
<1>2. status'[r] \in {audit'[r][Len(audit'[r])].new, "archived"}
  BY <1>1 DEF Logs
<1>3. CASE audit[r] = << >>
  <2>1. n = 0
    BY <1>3
  <2>2. audit'[r][1].action = "submit" /\ audit'[r][1].old = "draft"
    BY <1>1, <1>3, <2>1
  <2>3. \A k \in 1..(Len(audit'[r]) - 1) : FALSE
    BY <1>1, <2>1
  <2> QED
    BY <1>1, <1>2, <2>2, <2>3 DEF History, Chain, LastEntry
<1>4. CASE audit[r] # << >>
  <2>1. audit[r] \in Seq(AuditEntry)
    BY DEF TypeOK
  <2>2. n >= 1
    BY <1>1, <1>4, <2>1, EmptySeq
  <2>3. Chain(r)
    BY <1>4 DEF History
  <2>4. audit'[r][1].action = "submit" /\ audit'[r][1].old = "draft"
    BY <1>1, <2>2, <2>3 DEF Chain
  <2>5. ASSUME NEW k \in 1..n PROVE audit'[r][k + 1].old \in {audit'[r][k].new, "archived"}
    <3>1. CASE k = n
      BY <1>1, <2>2, <2>3, <3>1 DEF Chain, LastEntry
    <3>2. CASE k # n
      <4>1. k \in 1..(n - 1) /\ k + 1 \in 1..n
        BY <1>1, <3>2
      <4> QED
        BY <1>1, <2>3, <4>1 DEF Chain
    <3> QED
      BY <3>1, <3>2
  <2>6. \A k \in 1..(Len(audit'[r]) - 1) : audit'[r][k + 1].old \in {audit'[r][k].new, "archived"}
    BY <1>1, <2>5
  <2> QED
    BY <1>1, <1>2, <2>4, <2>6 DEF History, Chain, LastEntry
<1> QED
  BY <1>3, <1>4

LEMMA HistoryNext ==
  ASSUME TypeOK, [Next]_vars, NEW r \in Rules, History(r)
  PROVE  History(r)'
<1>0. {"pending_approval", "active", "rejected"} \subseteq RuleStatus
  BY DEF RuleStatus
<1>1. CASE Rests(r)
  BY <1>1 DEF Rests, KeepsColumns, History, Chain, LastEntry
<1>2. CASE IsSubmitted(r)
  <2>1. Logs(r, "submit", "pending_approval", "user")
    BY <1>2 DEF IsSubmitted
  <2>2. audit[r] = << >> => status[r] = "draft"
    BY <1>2 DEF IsSubmitted, History
  <2> QED
    BY <1>0, <2>1, <2>2, ChainGrows
<1>3. CASE IsAgreed(r) \/ IsActivated(r) \/ IsRejected(r)
  <2>1. approvals[r] # << >>
    BY <1>3 DEF IsAgreed, IsActivated, IsRejected
  <2>2. audit[r] # << >>
    BY <2>1 DEF History
  <2>3. CASE IsAgreed(r)
    BY <2>2, <2>3 DEF IsAgreed, KeepsColumns, History, Chain, LastEntry
  <2>4. CASE IsActivated(r)
    BY <1>0, <2>2, <2>4, ChainGrows DEF IsActivated
  <2>5. CASE IsRejected(r)
    BY <1>0, <2>2, <2>5, ChainGrows DEF IsRejected
  <2> QED
    BY <1>3, <2>3, <2>4, <2>5
<1>4. CASE IsSwept(r)
  <2>1. status[r] = "pending_approval" /\ Logs(r, "approve", "active", "system")
    BY <1>4 DEF IsSwept, Overdue
  <2>2. audit[r] # << >>
    BY <2>1 DEF History
  <2> QED
    BY <1>0, <2>1, <2>2, ChainGrows
<1> QED
  BY <1>1, <1>2, <1>3, <1>4, RuleSteps

-----------------------------------------------------------------------------
\* The patience of the sweep

\* The conjunct of AutoApprovalWaits for one rule.
Waited(r) ==
  status[r] = "active" /\ audit[r] # << >> /\ LastEntry(r).by = "system" =>
    /\ submitted_at[r] # NoTime
    /\ approved_at[r] - submitted_at[r] >= AutoApproveAfterDays

LEMMA WaitedNext ==
  ASSUME TypeOK, [Next]_vars, NEW r \in Rules, Waited(r)
  PROVE  Waited(r)'
<1>0. {"pending_approval", "active", "rejected"} \subseteq RuleStatus
  BY DEF RuleStatus
<1>1. CASE Rests(r) \/ IsAgreed(r)
  BY <1>1 DEF Rests, IsAgreed, KeepsColumns, Waited, LastEntry
<1>2. CASE IsSubmitted(r) \/ IsRejected(r)
  BY <1>2 DEF IsSubmitted, IsRejected, Logs, Waited
<1>3. CASE IsActivated(r)
  <2>1. LastEntry(r)'.by = "user"
    BY <1>0, <1>3, LoggedRow DEF IsActivated, LastEntry
  <2> QED
    BY <2>1 DEF Waited
<1>4. CASE IsSwept(r)
  <2>1. /\ submitted_at[r] # NoTime /\ submitted_at[r] <= today - AutoApproveAfterDays
        /\ submitted_at'[r] = submitted_at[r] /\ approved_at'[r] = today
    BY <1>4 DEF IsSwept, Overdue
  <2>2. submitted_at[r] \in Int /\ today \in Int /\ AutoApproveAfterDays \in Int
    BY ConstantsAssumption DEF TypeOK, Days, NoTime
  <2>3. approved_at'[r] - submitted_at'[r] >= AutoApproveAfterDays
    BY <2>1, <2>2
  <2> QED
    BY <2>1, <2>3 DEF Waited
<1> QED
  BY <1>1, <1>2, <1>3, <1>4, RuleSteps

-----------------------------------------------------------------------------
\* The latest round

\* It is a record of either stakeholder, and while the rule is under review or
\* in force nobody has rejected one of the two.
Round(r) ==
  approvals[r] # << >> =>
    LET n == Len(approvals[r]) IN
    /\ n >= 2
    /\ approvals[r][n - 1].approver_role = SECURITY_ROLE
    /\ approvals[r][n].approver_role = WORKLOAD_ROLE
    /\ status[r] \in {"pending_approval", "active"} =>
         approvals[r][n - 1].status # "rejected" /\ approvals[r][n].status # "rejected"

LEMMA RoundSettled ==
  ASSUME TypeOK, NEW r \in Rules, NEW i, NEW new \in ApprovalStatus, Settles(r, i, new)
  PROVE  /\ approvals[r] # << >>
         /\ approvals'[r] \in Seq(ApprovalRecord)
         /\ Len(approvals'[r]) = Len(approvals[r])
         /\ DOMAIN approvals'[r] = DOMAIN approvals[r]
         /\ i \in DOMAIN approvals[r] /\ approvals'[r][i].status = new
         /\ \A k \in DOMAIN approvals[r] :
              /\ approvals'[r][k].approver_role = approvals[r][k].approver_role
              /\ k # i => approvals'[r][k] = approvals[r][k]
<1>1. approvals[r] \in Seq(ApprovalRecord) /\ i \in DOMAIN approvals[r]
      /\ approvals'[r] = [approvals[r] EXCEPT ![i].status = new]
  BY DEF TypeOK, Settles
<1>2. /\ approvals'[r] \in Seq(ApprovalRecord)
      /\ DOMAIN approvals'[r] = DOMAIN approvals[r]
      /\ approvals'[r][i].status = new
      /\ \A k \in DOMAIN approvals[r] : k # i => approvals'[r][k] = approvals[r][k]
  BY <1>1, DecidedRecords
<1>3. approvals[r][i] \in ApprovalRecord
  BY <1>1, ElementOfSeq, LenProperties
<1>4. approvals'[r][i].approver_role = approvals[r][i].approver_role
  BY <1>1, <1>3 DEF ApprovalRecord
<1>5. Len(approvals'[r]) = Len(approvals[r])
  BY <1>1, <1>2, LenProperties
<1>6. approvals[r] # << >>
  BY <1>1
<1> QED
  BY <1>1, <1>2, <1>4, <1>5, <1>6

LEMMA RoundNext ==
  ASSUME TypeOK, [Next]_vars, NEW r \in Rules, Round(r)
  PROVE  Round(r)'
<1> DEFINE n == Len(approvals[r])
<1>0. approvals[r] \in Seq(ApprovalRecord) /\ n \in Nat /\ DOMAIN approvals[r] = 1..n
  BY LenProperties DEF TypeOK
<1>1. CASE Rests(r)
  BY <1>1 DEF Rests, Round
<1>2. CASE IsSubmitted(r)
  <2>1. PICK s \in Users \cup {Unassigned}, w \in Users \cup {Unassigned} :
          approvals'[r] = approvals[r] \o <<NewRecord(SECURITY_ROLE, s),
                                           NewRecord(WORKLOAD_ROLE, w)>>
    BY <1>2 DEF IsSubmitted
  <2> DEFINE new == <<NewRecord(SECURITY_ROLE, s), NewRecord(WORKLOAD_ROLE, w)>>
  <2>2. /\ new \in Seq(ApprovalRecord) /\ Len(new) = 2
        /\ new[1].approver_role = SECURITY_ROLE /\ new[1].status = "pending"
        /\ new[2].approver_role = WORKLOAD_ROLE /\ new[2].status = "pending"
    BY DEF NewRecord, ApprovalRecord, ApprovalStatus
  <2> HIDE DEF new
  <2>3. /\ Len(approvals'[r]) = n + Len(new)
        /\ \A k \in 1..(n + Len(new)) :
             approvals'[r][k] = IF k <= n THEN approvals[r][k] ELSE new[k - n]
    BY <1>0, <2>1, <2>2, ConcatProperties DEF new
  <2>4. approvals'[r][n + 1] = new[1] /\ approvals'[r][n + 2] = new[2]
    <3>1. /\ n + 1 \in 1..(n + 2) /\ ~(n + 1 <= n) /\ (n + 1) - n = 1
          /\ n + 2 \in 1..(n + 2) /\ ~(n + 2 <= n) /\ (n + 2) - n = 2
      BY <1>0
    <3> QED
      BY <2>2, <2>3, <3>1
  <2>5. Len(approvals'[r]) = n + 2 /\ n + 2 >= 2 /\ (n + 2) - 1 = n + 1
    BY <1>0, <2>2, <2>3
  <2> QED
    BY <2>2, <2>4, <2>5 DEF Round
<1>3. ASSUME NEW i, NEW new \in {"approved", "rejected"}, Settles(r, i, new),
             \/ new = "approved" /\ (status'[r] = status[r] \/ AllApproved(approvals'[r]))
             \/ new = "rejected" /\ status'[r] = "rejected"
      PROVE  Round(r)'
  <2>1. new \in ApprovalStatus
    BY DEF ApprovalStatus
  <2>2. /\ approvals[r] # << >> /\ Len(approvals'[r]) = n
        /\ DOMAIN approvals'[r] = DOMAIN approvals[r]
        /\ i \in DOMAIN approvals[r] /\ approvals'[r][i].status = new
        /\ \A k \in DOMAIN approvals[r] :
             /\ approvals'[r][k].approver_role = approvals[r][k].approver_role
             /\ k # i => approvals'[r][k] = approvals[r][k]
    BY <1>3, <2>1, RoundSettled
  <2>3. n >= 2 /\ n - 1 \in DOMAIN approvals[r] /\ n \in DOMAIN approvals[r]
    BY <1>0, <2>2 DEF Round
  <2>4. /\ approvals'[r][n - 1].approver_role = SECURITY_ROLE
        /\ approvals'[r][n].approver_role = WORKLOAD_ROLE
    BY <2>2, <2>3 DEF Round
  <2>5. status'[r] \in {"pending_approval", "active"} =>
          approvals'[r][n - 1].status # "rejected" /\ approvals'[r][n].status # "rejected"
    <3>1. CASE AllApproved(approvals'[r])
      BY <2>2, <2>3, <3>1 DEF AllApproved
    <3>2. CASE new = "approved" /\ status'[r] = status[r]
      BY <2>2, <2>3, <3>2 DEF Round
    <3>3. CASE status'[r] = "rejected"
      BY <3>3
    <3> QED
      BY <1>3, <3>1, <3>2, <3>3
  <2> QED
    BY <2>2, <2>3, <2>4, <2>5 DEF Round
<1>4. CASE IsAgreed(r) \/ IsActivated(r) \/ IsRejected(r)
  <2>1. PICK i : \/ Settles(r, i, "approved") /\ (status'[r] = status[r] \/ AllApproved(approvals'[r]))
                 \/ Settles(r, i, "rejected") /\ status'[r] = "rejected"
    BY <1>4 DEF IsAgreed, IsActivated, IsRejected, Logs
  <2> QED
    BY <1>3, <2>1
<1>5. CASE IsSwept(r)
  <2>1. /\ DOMAIN approvals'[r] = DOMAIN approvals[r]
        /\ \A k \in DOMAIN approvals[r] :
             IF approvals[r][k].status = "pending"
               THEN approvals'[r][k].status = "approved"
               ELSE approvals'[r][k] = approvals[r][k]
        /\ approvals'[r] \in Seq(ApprovalRecord)
    BY <1>0, <1>5, SweptRecords DEF IsSwept
  <2>2. \A k \in DOMAIN approvals[r] :
          approvals'[r][k].approver_role = approvals[r][k].approver_role
    BY <1>5 DEF IsSwept, AutoApproved
  <2>3. Len(approvals'[r]) = n
    BY <1>0, <2>1, LenProperties
  <2>4. status[r] = "pending_approval"
    BY <1>5 DEF IsSwept, Overdue
  <2>5. ASSUME approvals'[r] # << >>
        PROVE  /\ n >= 2 /\ n - 1 \in DOMAIN approvals[r] /\ n \in DOMAIN approvals[r]
               /\ approvals[r] # << >>
    <3>1. approvals[r] # << >>
      BY <1>0, <2>1, <2>3, <2>5, EmptySeq
    <3> QED
      BY <1>0, <3>1 DEF Round
  <2> QED
    BY <2>1, <2>2, <2>3, <2>4, <2>5 DEF Round
<1> QED
  BY <1>1, <1>2, <1>4, <1>5, RuleSteps

-----------------------------------------------------------------------------
\* Counting rows

RowsOf(rows, action) == {k \in DOMAIN rows : rows[k].action = action}
CountOf(rows, action) == Cardinality(RowsOf(rows, action))
Refused(r) == {i \in DOMAIN approvals[r] : approvals[r][i].status = "rejected"}

\* The conjunct of RowsAreAudited for one rule.
Counts(r) ==
  /\ Len(approvals[r]) = Len(get_required_approvers) * CountOf(audit[r], "submit")
  /\ Cardinality(Refused(r)) = CountOf(audit[r], "reject")

LEMMA CountsAreCounted == (\A r \in Rules : Counts(r)) <=> RowsAreAudited
BY DEF Counts, CountOf, RowsOf, Refused, RowsAreAudited

\* Appending a row adds one to the rows of its own action and none to others.
LEMMA CountAppended ==
  ASSUME NEW rows \in Seq(AuditEntry), NEW e \in AuditEntry, NEW action
  PROVE  /\ CountOf(rows, action) \in Nat
         /\ CountOf(Append(rows, e), action) =
              CountOf(rows, action) + (IF e.action = action THEN 1 ELSE 0)
<1> DEFINE n == Len(rows)
           longer == Append(rows, e)
<1>1. /\ n \in Nat /\ DOMAIN rows = 1..n /\ DOMAIN longer = 1..(n + 1)
      /\ \A k \in 1..n : longer[k] = rows[k]
      /\ longer[n + 1] = e
  BY LenProperties
<1> HIDE DEF n, longer
<1>2. IsFiniteSet(RowsOf(rows, action)) /\ CountOf(rows, action) \in Nat
  <2>1. IsFiniteSet(1..n) /\ RowsOf(rows, action) \subseteq 1..n
    BY <1>1, FS_Interval DEF RowsOf
  <2> QED
    BY <2>1, FS_Subset, FS_CardinalityType DEF CountOf
<1>3. n + 1 \notin RowsOf(rows, action) /\ 1..(n + 1) = (1..n) \cup {n + 1}
  BY <1>1 DEF RowsOf
<1>4. RowsOf(longer, action) = IF e.action = action THEN RowsOf(rows, action) \cup {n + 1}
                               ELSE RowsOf(rows, action)
  BY <1>1, <1>3 DEF RowsOf
<1>5. Cardinality(RowsOf(rows, action) \cup {n + 1}) = CountOf(rows, action) + 1
  BY <1>2, <1>3, FS_AddElement DEF CountOf
<1>6. CountOf(longer, action) = CountOf(rows, action) + (IF e.action = action THEN 1 ELSE 0)
  BY <1>2, <1>4, <1>5 DEF CountOf
<1> QED
  BY <1>2, <1>6 DEF longer

LEMMA FiniteRows ==
  ASSUME TypeOK, NEW r \in Rules
  PROVE  /\ \A action : CountOf(audit[r], action) \in Nat
         /\ IsFiniteSet(Refused(r)) /\ Cardinality(Refused(r)) \in Nat
<1>1. /\ DOMAIN audit[r] = 1..Len(audit[r]) /\ Len(audit[r]) \in Nat
      /\ DOMAIN approvals[r] = 1..Len(approvals[r]) /\ Len(approvals[r]) \in Nat
  BY LenProperties DEF TypeOK
<1>2. IsFiniteSet(DOMAIN audit[r]) /\ IsFiniteSet(DOMAIN approvals[r])
  BY <1>1, FS_Interval
<1>3. IsFiniteSet(Refused(r)) /\ \A action : IsFiniteSet(RowsOf(audit[r], action))
  BY <1>2, FS_Subset DEF RowsOf, Refused
<1> QED
  BY <1>3, FS_CardinalityType DEF CountOf

\* A logged row counts for its own action and for no other.
LEMMA LoggedCount ==
  ASSUME TypeOK, NEW r \in Rules, NEW action \in {"submit", "approve", "reject"},
         NEW new \in RuleStatus, NEW by \in {"user", "system"}, Logs(r, action, new, by),
         NEW counted
  PROVE  CountOf(audit[r], counted)' =
           CountOf(audit[r], counted) + (IF action = counted THEN 1 ELSE 0)
<1> PICK e : e = NewEntry(r, action, new, by)
  OBVIOUS
<1>1. e \in AuditEntry /\ e.action = action
  BY DEF TypeOK, NewEntry, AuditEntry
<1>2. audit[r] \in Seq(AuditEntry) /\ audit'[r] = Append(audit[r], e)
  BY DEF TypeOK, Logs
<1>3. CountOf(audit[r], counted)' = CountOf(audit'[r], counted)
  BY DEF CountOf, RowsOf
<1> QED
  BY <1>1, <1>2, <1>3, CountAppended

LEMMA CountsNext ==
  ASSUME TypeOK, [Next]_vars, NEW r \in Rules, Counts(r)
  PROVE  Counts(r)'
<1>1. /\ {"pending_approval", "active", "rejected"} \subseteq RuleStatus
      /\ approvals[r] \in Seq(ApprovalRecord) /\ Len(approvals[r]) \in Nat
      /\ DOMAIN approvals[r] = 1..Len(approvals[r])
  BY LenProperties DEF RuleStatus, TypeOK
<1>2. Len(get_required_approvers) = 2
  BY DEF get_required_approvers
<1> PICK submits \in Nat, rejects \in Nat :
      submits = CountOf(audit[r], "submit") /\ rejects = CountOf(audit[r], "reject")
  BY FiniteRows
<1>3. Len(approvals[r]) = 2 * submits /\ Cardinality(Refused(r)) = rejects
  BY <1>2 DEF Counts
<1>4. ASSUME Len(approvals'[r]) = 2 * CountOf(audit[r], "submit")',
              Cardinality(Refused(r)') = CountOf(audit[r], "reject")'
       PROVE  Counts(r)'
  BY <1>2, <1>4 DEF Counts
<1>5. CASE Rests(r)
  BY <1>5 DEF Rests, KeepsColumns, Counts, Refused, CountOf, RowsOf
<1>6. CASE IsSubmitted(r)
  <2>1. PICK s \in Users \cup {Unassigned}, w \in Users \cup {Unassigned} :
          approvals'[r] = approvals[r] \o <<NewRecord(SECURITY_ROLE, s),
                                           NewRecord(WORKLOAD_ROLE, w)>>
    BY <1>6 DEF IsSubmitted
  <2>2. /\ Len(approvals'[r]) = Len(approvals[r]) + 2
        /\ \A k \in DOMAIN approvals[r] : k \in DOMAIN approvals'[r]
                                        /\ approvals'[r][k] = approvals[r][k]
        /\ \A k \in DOMAIN approvals'[r] \ DOMAIN approvals[r] :
             approvals'[r][k].status = "pending"
    BY <1>1, <2>1, SubmittedRecords
  <2>3. Refused(r)' = Refused(r)
    BY <2>2 DEF Refused
  <2>4. Logs(r, "submit", "pending_approval", "user")
    BY <1>6 DEF IsSubmitted
  <2>5. CountOf(audit[r], "submit")' = submits + 1 /\ CountOf(audit[r], "reject")' = rejects + 0
    BY <1>1, <2>4, LoggedCount
  <2> QED
    BY <1>3, <1>4, <2>2, <2>3, <2>5
<1>7. ASSUME NEW i, NEW new \in {"approved", "rejected"}, Settles(r, i, new)
      PROVE  /\ Len(approvals'[r]) = Len(approvals[r])
             /\ Cardinality(Refused(r)') =
                  Cardinality(Refused(r)) + (IF new = "rejected" THEN 1 ELSE 0)
  <2>1. /\ new \in ApprovalStatus /\ approvals[r][i].status = "pending"
        /\ i \in DOMAIN approvals[r]
    BY <1>7 DEF ApprovalStatus, Settles
  <2>2. /\ Len(approvals'[r]) = Len(approvals[r])
        /\ DOMAIN approvals'[r] = DOMAIN approvals[r]
        /\ approvals'[r][i].status = new
        /\ \A k \in DOMAIN approvals[r] : k # i => approvals'[r][k] = approvals[r][k]
    BY <1>7, <2>1, RoundSettled
  <2>3. i \notin Refused(r)
    BY <2>1 DEF Refused
  <2>4. CASE new = "rejected"
    <3>1. Refused(r)' = Refused(r) \cup {i}
      BY <2>1, <2>2, <2>4 DEF Refused
    <3>2. Cardinality(Refused(r) \cup {i}) = Cardinality(Refused(r)) + 1
      BY <2>3, FiniteRows, FS_AddElement
    <3> QED
      BY <2>2, <2>4, <3>1, <3>2
  <2>5. CASE new = "approved"
    <3>1. Refused(r)' = Refused(r)
      BY <2>1, <2>2, <2>5 DEF Refused
    <3> QED
      BY <2>2, <2>5, <3>1, FiniteRows
  <2> QED
    BY <2>4, <2>5
<1>8. CASE IsAgreed(r)
  <2>1. Len(approvals'[r]) = Len(approvals[r])
        /\ Cardinality(Refused(r)') = Cardinality(Refused(r))
    BY <1>7, <1>8, FiniteRows DEF IsAgreed
  <2>2. audit'[r] = audit[r]
    BY <1>8 DEF IsAgreed, KeepsColumns
  <2>3. CountOf(audit[r], "submit")' = submits /\ CountOf(audit[r], "reject")' = rejects
    BY <2>2 DEF CountOf, RowsOf
  <2> QED
    BY <1>3, <1>4, <2>1, <2>3
<1>9. CASE IsActivated(r)
  <2>1. Len(approvals'[r]) = Len(approvals[r])
        /\ Cardinality(Refused(r)') = Cardinality(Refused(r))
    BY <1>7, <1>9, FiniteRows DEF IsActivated
  <2>2. Logs(r, "approve", "active", "user")
    BY <1>9 DEF IsActivated
  <2>3. CountOf(audit[r], "submit")' = submits + 0 /\ CountOf(audit[r], "reject")' = rejects + 0
    BY <1>1, <2>2, LoggedCount
  <2> QED
    BY <1>3, <1>4, <2>1, <2>3
<1>10. CASE IsRejected(r)
  <2>1. Len(approvals'[r]) = Len(approvals[r])
        /\ Cardinality(Refused(r)') = Cardinality(Refused(r)) + 1
    BY <1>7, <1>10 DEF IsRejected
  <2>2. Logs(r, "reject", "rejected", "user")
    BY <1>10 DEF IsRejected
  <2>3. CountOf(audit[r], "submit")' = submits + 0 /\ CountOf(audit[r], "reject")' = rejects + 1
    BY <1>1, <2>2, LoggedCount
  <2> QED
    BY <1>3, <1>4, <2>1, <2>3
<1>11. CASE IsSwept(r)
  <2>1. /\ approvals'[r] \in Seq(ApprovalRecord)
        /\ DOMAIN approvals'[r] = DOMAIN approvals[r]
        /\ \A k \in DOMAIN approvals[r] :
             IF approvals[r][k].status = "pending"
               THEN approvals'[r][k].status = "approved"
               ELSE approvals'[r][k] = approvals[r][k]
    BY <1>1, <1>11, SweptRecords DEF IsSwept
  <2>2. Len(approvals'[r]) = Len(approvals[r]) /\ Refused(r)' = Refused(r)
    BY <1>1, <2>1, LenProperties DEF Refused
  <2>3. Logs(r, "approve", "active", "system")
    BY <1>11 DEF IsSwept
  <2>4. CountOf(audit[r], "submit")' = submits + 0 /\ CountOf(audit[r], "reject")' = rejects + 0
    BY <1>1, <2>3, LoggedCount
  <2> QED
    BY <1>3, <1>4, <2>2, <2>4
<1> QED
  BY <1>5, <1>6, <1>8, <1>9, <1>10, <1>11, RuleSteps

-----------------------------------------------------------------------------
\* The theorems

AuditInv == \A r \in Rules : History(r) /\ Waited(r) /\ Round(r) /\ Counts(r)

LEMMA AuditInit == Init => AuditInv
<1> SUFFICES ASSUME Init, NEW r \in Rules
             PROVE  History(r) /\ Waited(r) /\ Round(r) /\ Counts(r)
  BY DEF AuditInv
<1>1. audit[r] = << >> /\ approvals[r] = << >> /\ status[r] \in {"draft", "active"}
  BY DEF Init
<1>2. RowsOf(audit[r], "submit") = {} /\ RowsOf(audit[r], "reject") = {} /\ Refused(r) = {}
  BY <1>1 DEF RowsOf, Refused
<1>3. Counts(r)
  <2>1. Len(approvals[r]) = 0 /\ Len(get_required_approvers) = 2
    BY <1>1 DEF get_required_approvers
  <2>3. Cardinality({}) = 0
    BY FS_EmptySet
  <2>4. /\ CountOf(audit[r], "submit") = 0 /\ CountOf(audit[r], "reject") = 0
        /\ Cardinality(Refused(r)) = 0
    BY <1>2, <2>3 DEF CountOf
  <2>5. 0 = 2 * 0
    OBVIOUS
  <2> QED
    BY <2>1, <2>4, <2>5 DEF Counts
<1> QED
  BY <1>1, <1>3 DEF History, Waited, Round

LEMMA AuditInvariant == Spec => [](ReviewInv /\ AuditInv)
<1>1. ReviewInv /\ AuditInv /\ [Next]_vars => AuditInv'
  BY HistoryNext, WaitedNext, RoundNext, CountsNext DEF AuditInv, ReviewInv
<1> QED
  BY <1>1, AuditInit, ReviewInvariant, PTL DEF Spec

\* The audit rows of a rule are one unbroken history that ends at its status.
THEOREM HistoryIsWhole == Spec => []AuditChains
<1>1. AuditInv => AuditChains
  BY DEF AuditInv, History, Chain, AuditChains
<1> QED
  BY <1>1, AuditInvariant, PTL

\* Records and audit rows of a rule are stored together or not at all.
THEOREM NothingIsHalfStored == Spec => []RowsAreAudited
<1>1. AuditInv => RowsAreAudited
  BY CountsAreCounted DEF AuditInv
<1> QED
  BY <1>1, AuditInvariant, PTL

\* The sweep never activates a rule before its latest submission is old enough.
THEOREM SweepIsPatient == Spec => []AutoApprovalWaits
<1>1. AuditInv => AutoApprovalWaits
  BY DEF AuditInv, Waited, AutoApprovalWaits
<1> QED
  BY <1>1, AuditInvariant, PTL

\* A rule that was ever submitted is in force only with the approval of both
\* stakeholders on its latest round.
THEOREM BothRolesApprove == Spec => []ActivatedByBothRoles
<1>1. ReviewInv /\ AuditInv => ActivatedByBothRoles
  <2> SUFFICES ASSUME ReviewInv, AuditInv, NEW r \in Rules, status[r] = "active",
                      approvals[r] # << >>
               PROVE  \A role \in {SECURITY_ROLE, WORKLOAD_ROLE} :
                        \E i \in LatestRound(r) : /\ approvals[r][i].approver_role = role
                                                 /\ approvals[r][i].status = "approved"
    BY DEF ActivatedByBothRoles
  <2> DEFINE n == Len(approvals[r])
  <2>1. /\ approvals[r] \in Seq(ApprovalRecord) /\ n \in Nat /\ DOMAIN approvals[r] = 1..n
        /\ \A k \in 1..n : approvals[r][k] \in ApprovalRecord
    BY LenProperties, ElementOfSeq DEF ReviewInv, TypeOK
  <2>2. /\ n >= 2
        /\ approvals[r][n - 1].approver_role = SECURITY_ROLE
        /\ approvals[r][n].approver_role = WORKLOAD_ROLE
        /\ approvals[r][n - 1].status # "rejected" /\ approvals[r][n].status # "rejected"
    BY DEF AuditInv, Round
  <2>3. \A k \in 1..n : approvals[r][k].status \in {"approved", "rejected"}
    BY <2>1 DEF ReviewInv, ActiveIsSettled, NeverCancelled, Open, ApprovalRecord, ApprovalStatus
  <2>4. n - 1 \in 1..n /\ n \in 1..n /\ n - 1 > n - 2 /\ n > n - 2
    BY <2>1, <2>2
  <2>5. Len(get_required_approvers) = 2
    BY DEF get_required_approvers
  <2>6. n - 1 \in LatestRound(r) /\ n \in LatestRound(r)
    BY <2>1, <2>4, <2>5 DEF LatestRound
  <2> QED
    BY <2>2, <2>3, <2>4, <2>6
<1> QED
  BY <1>1, AuditInvariant, PTL
=============================================================================
