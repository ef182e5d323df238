----------------------- MODULE ApprovalWorkflowProofs -----------------------
(* Proofs about ApprovalWorkflow, for every set of rules, users and          *)
(* workloads and every value of the bounds.                                  *)
EXTENDS LifecycleRefinement, SequenceTheorems, TLAPS

-----------------------------------------------------------------------------
\* What the handlers do to the records of one rule

\* Deciding record i changes its status and nothing else.
LEMMA DecidedRecords ==
  ASSUME NEW records \in Seq(ApprovalRecord), NEW i \in DOMAIN records,
         NEW new \in ApprovalStatus
  PROVE  LET decided == [records EXCEPT ![i].status = new] IN
         /\ decided \in Seq(ApprovalRecord)
         /\ DOMAIN decided = DOMAIN records
         /\ decided[i].status = new
         /\ \A k \in DOMAIN records : k # i => decided[k] = records[k]
<1> DEFINE e == [records[i] EXCEPT !.status = new]
           decided == [records EXCEPT ![i] = e]
<1>1. /\ i \in 1..Len(records)
      /\ records[i] \in ApprovalRecord
  BY ElementOfSeq, LenProperties
<1>2. e \in ApprovalRecord /\ e.status = new
  BY <1>1 DEF ApprovalRecord
<1>3. /\ decided \in Seq(ApprovalRecord)
      /\ Len(decided) = Len(records)
      /\ \A k \in 1..Len(records) : decided[k] = IF k = i THEN e ELSE records[k]
  BY <1>1, <1>2, ExceptSeq
<1>4. DOMAIN decided = DOMAIN records
  OBVIOUS
<1> QED
  BY <1>1, <1>2, <1>3, <1>4, LenProperties

\* A submission keeps the earlier records and adds open ones.
LEMMA SubmittedRecords ==
  ASSUME NEW records \in Seq(ApprovalRecord),
         NEW s \in Users \cup {Unassigned}, NEW w \in Users \cup {Unassigned}
  PROVE  LET submitted == records \o <<NewRecord(SECURITY_ROLE, s),
                                       NewRecord(WORKLOAD_ROLE, w)>> IN
         /\ submitted \in Seq(ApprovalRecord)
         /\ Len(submitted) = Len(records) + 2
         /\ \A k \in DOMAIN records : k \in DOMAIN submitted
                                      /\ submitted[k] = records[k]
         /\ \A k \in DOMAIN submitted \ DOMAIN records :
              submitted[k].status = "pending"
         /\ Len(records) + 1 \in DOMAIN submitted \ DOMAIN records
<1> DEFINE new == <<NewRecord(SECURITY_ROLE, s), NewRecord(WORKLOAD_ROLE, w)>>
           submitted == records \o new
<1>1. /\ NewRecord(SECURITY_ROLE, s) \in ApprovalRecord
      /\ NewRecord(WORKLOAD_ROLE, w) \in ApprovalRecord
  BY DEF NewRecord, ApprovalRecord, ApprovalStatus
<1>2. /\ new \in Seq(ApprovalRecord)
      /\ Len(new) = 2
      /\ new[1].status = "pending" /\ new[2].status = "pending"
  BY <1>1 DEF NewRecord
<1>3. /\ submitted \in Seq(ApprovalRecord)
      /\ Len(submitted) = Len(records) + 2
      /\ \A k \in 1..Len(records) + 2 :
           submitted[k] = IF k <= Len(records) THEN records[k]
                                               ELSE new[k - Len(records)]
  BY <1>2, ConcatProperties
<1>4. /\ Len(records) \in Nat
      /\ DOMAIN records = 1..Len(records)
      /\ DOMAIN submitted = 1..Len(records) + 2
  BY <1>3, LenProperties
<1>5. \A k \in DOMAIN records : k \in DOMAIN submitted /\ submitted[k] = records[k]
  BY <1>3, <1>4
<1>6. \A k \in DOMAIN submitted \ DOMAIN records : submitted[k].status = "pending"
  <2> TAKE k \in DOMAIN submitted \ DOMAIN records
  <2>1. k - Len(records) \in {1, 2} /\ ~(k <= Len(records)) /\ k \in 1..Len(records) + 2
    BY <1>4
  <2>2. submitted[k] = new[k - Len(records)]
    BY <2>1, <1>3
  <2> QED
    BY <2>1, <2>2, <1>2
<1> QED
  BY <1>3, <1>4, <1>5, <1>6

\* A sweep closes every open record of a rule and touches no other.
LEMMA SweptRecords ==
  ASSUME NEW records \in Seq(ApprovalRecord)
  PROVE  /\ AutoApproved(records) \in Seq(ApprovalRecord)
         /\ DOMAIN AutoApproved(records) = DOMAIN records
         /\ \A k \in DOMAIN records :
              IF records[k].status = "pending"
                THEN AutoApproved(records)[k].status = "approved"
                ELSE AutoApproved(records)[k] = records[k]
<1>1. /\ Len(records) \in Nat
      /\ DOMAIN records = 1..Len(records)
      /\ \A k \in DOMAIN records : records[k] \in ApprovalRecord
  BY LenProperties, ElementOfSeq
<1>2. \A k \in DOMAIN records : AutoApproved(records)[k] \in ApprovalRecord
  BY <1>1 DEF AutoApproved, ApprovalRecord, ApprovalStatus
<1>3. AutoApproved(records) \in [1..Len(records) -> ApprovalRecord]
  BY <1>1, <1>2 DEF AutoApproved
<1>4. \A k \in DOMAIN records : records[k].status = "pending" =>
        AutoApproved(records)[k].status = "approved"
  BY <1>1 DEF AutoApproved, ApprovalRecord
<1>5. AutoApproved(records) \in Seq(ApprovalRecord)
  BY <1>1, <1>3, SeqDef
<1> QED
  BY <1>4, <1>5 DEF AutoApproved
-----------------------------------------------------------------------------
\* What a handler does to one rule and to the others

\* A rule whose records a step leaves alone stays as open, and as vetoed.
LEMMA Untouched ==
  ASSUME NEW q \in Rules, approvals'[q] = approvals[q]
  PROVE  /\ Open(q)' <=> Open(q)
         /\ Vetoed(q)' <=> Vetoed(q)
BY DEF Open, Vetoed

\* The settled records of a rule are as they were after a step.
SettledKept(r) ==
  \A k \in DOMAIN approvals[r] : approvals[r][k].status # "pending" =>
    k \in DOMAIN approvals'[r] /\ approvals'[r][k] = approvals[r][k]

LEMMA SubmitStep ==
  ASSUME TypeOK, NeverCancelled, NEW u \in Users, NEW r \in Rules, submit_for_approval(u, r)
  PROVE  /\ TypeOK' /\ NeverCancelled'
         /\ Open(r)'
         /\ Vetoed(r)' <=> Vetoed(r)
         /\ SettledKept(r)
         /\ \A q \in Rules \ {r} : approvals'[q] = approvals[q]
<1>1. PICK s \in Users \cup {Unassigned}, w \in Users \cup {Unassigned} :
        approvals' = [approvals EXCEPT
          ![r] = @ \o <<NewRecord(SECURITY_ROLE, s), NewRecord(WORKLOAD_ROLE, w)>>]
  BY DEF submit_for_approval, Approvers, WorkloadUsers
<1>2. approvals[r] \in Seq(ApprovalRecord)
  BY DEF TypeOK
<1>3. approvals'[r] = approvals[r] \o <<NewRecord(SECURITY_ROLE, s),
                                       NewRecord(WORKLOAD_ROLE, w)>>
  BY <1>1 DEF TypeOK
<1>4. /\ approvals'[r] \in Seq(ApprovalRecord)
      /\ \A k \in DOMAIN approvals[r] : k \in DOMAIN approvals'[r]
                                      /\ approvals'[r][k] = approvals[r][k]
      /\ \A k \in DOMAIN approvals'[r] \ DOMAIN approvals[r] :
           approvals'[r][k].status = "pending"
      /\ Len(approvals[r]) + 1 \in DOMAIN approvals'[r] \ DOMAIN approvals[r]
  BY <1>2, <1>3, SubmittedRecords
<1>5. \A q \in Rules \ {r} : approvals'[q] = approvals[q]
  BY <1>1 DEF TypeOK
<1>6. TypeOK'
  <2>1. approvals' \in [Rules -> Seq(ApprovalRecord)]
    BY <1>1, <1>3, <1>4 DEF TypeOK
  <2>2. NewEntry(r, "submit", "pending_approval", "user") \in AuditEntry
    BY DEF TypeOK, NewEntry, AuditEntry, RuleStatus
  <2>3. audit' \in [Rules -> Seq(AuditEntry)]
    BY <2>2 DEF submit_for_approval, TypeOK
  <2>4. /\ status' \in [Rules -> RuleStatus]
        /\ submitted_at' \in [Rules -> Days \cup {NoTime}]
    BY DEF submit_for_approval, TypeOK, RuleStatus
  <2> QED
    BY <2>1, <2>3, <2>4 DEF submit_for_approval, TypeOK
<1>7. Open(r)'
  BY <1>4 DEF Open
<1>8. Vetoed(r)' <=> Vetoed(r)
  BY <1>4 DEF Vetoed
<1>9. NeverCancelled'
  BY <1>4, <1>5 DEF NeverCancelled
<1>10. SettledKept(r)
  BY <1>4 DEF SettledKept
<1> QED
  BY <1>5, <1>6, <1>7, <1>8, <1>9, <1>10

\* What approve and reject have in common: one record changes its status.
LEMMA DecisionStep ==
  ASSUME TypeOK, NEW u \in Users, NEW r \in Rules, NEW i, OpenTo(u, r, i),
         NEW new \in ApprovalStatus,
         approvals' = [approvals EXCEPT ![r][i].status = new]
  PROVE  /\ approvals' \in [Rules -> Seq(ApprovalRecord)]
         /\ Open(r)
         /\ i \in DOMAIN approvals[r]
         /\ DOMAIN approvals'[r] = DOMAIN approvals[r]
         /\ approvals'[r][i].status = new
         /\ \A k \in DOMAIN approvals[r] :
              k # i => approvals'[r][k] = approvals[r][k]
         /\ \A q \in Rules \ {r} : approvals'[q] = approvals[q]
<1>1. /\ approvals[r] \in Seq(ApprovalRecord)
      /\ i \in DOMAIN approvals[r]
      /\ approvals[r][i].status = "pending"
  BY DEF TypeOK, OpenTo
<1>2. approvals'[r] = [approvals[r] EXCEPT ![i].status = new]
  BY DEF TypeOK
<1>3. /\ approvals'[r] \in Seq(ApprovalRecord)
      /\ DOMAIN approvals'[r] = DOMAIN approvals[r]
      /\ approvals'[r][i].status = new
      /\ \A k \in DOMAIN approvals[r] :
           k # i => approvals'[r][k] = approvals[r][k]
  BY <1>1, <1>2, DecidedRecords
<1>4. \A q \in Rules \ {r} : approvals'[q] = approvals[q]
  BY DEF TypeOK
<1>5. approvals' \in [Rules -> Seq(ApprovalRecord)]
  BY <1>3, <1>4 DEF TypeOK
<1> QED
  BY <1>1, <1>3, <1>4, <1>5 DEF Open

LEMMA DecideTypes ==
  ASSUME TypeOK, NEW r \in Rules, NEW action \in {"approve", "reject"},
         NEW new \in {"active", "rejected"}, Decide(r, action, new)
  PROVE  /\ status' \in [Rules -> RuleStatus]
         /\ approved_at' \in [Rules -> Days \cup {NoTime}]
         /\ audit' \in [Rules -> Seq(AuditEntry)]
<1>1. NewEntry(r, action, new, "user") \in AuditEntry
  BY DEF TypeOK, NewEntry, AuditEntry, RuleStatus
<1> QED
  BY <1>1 DEF Decide, TypeOK, RuleStatus

\* An approval leaves an open record or an old rejection, unless it is the one
\* that activates the rule, and then every record is settled and none rejected.
LEMMA ApproveStep ==
  ASSUME TypeOK, NeverCancelled, NEW u \in Users, NEW r \in Rules, NEW i,
         approve(u, r, i)
  PROVE  /\ TypeOK' /\ NeverCancelled'
         /\ Open(r)
         /\ Vetoed(r)' <=> Vetoed(r)
         /\ SettledKept(r)
         /\ \A q \in Rules \ {r} : approvals'[q] = approvals[q]
         /\ \/ /\ UNCHANGED status
               /\ Open(r)' \/ Vetoed(r)
            \/ /\ Decide(r, "approve", "active")
               /\ ~Open(r)' /\ ~Vetoed(r)
<1>1. /\ approvals' \in [Rules -> Seq(ApprovalRecord)]
      /\ Open(r)
      /\ i \in DOMAIN approvals[r]
      /\ DOMAIN approvals'[r] = DOMAIN approvals[r]
      /\ approvals'[r][i].status = "approved"
      /\ \A k \in DOMAIN approvals[r] :
           k # i => approvals'[r][k] = approvals[r][k]
      /\ \A q \in Rules \ {r} : approvals'[q] = approvals[q]
  <2>1. "approved" \in ApprovalStatus
    BY DEF ApprovalStatus
  <2>2. /\ OpenTo(u, r, i)
        /\ approvals' = [approvals EXCEPT ![r][i].status = "approved"]
    BY DEF approve
  <2> QED
    BY <2>1, <2>2, DecisionStep
<1>2. approvals[r][i].status = "pending"
  BY DEF approve, OpenTo
<1>8. SettledKept(r)
  BY <1>1, <1>2 DEF SettledKept
<1>3. Vetoed(r)' <=> Vetoed(r)
  BY <1>1, <1>2 DEF Vetoed
<1>4. NeverCancelled'
  BY <1>1 DEF NeverCancelled
<1>5. \A k \in DOMAIN approvals'[r] : approvals'[r][k].status \in ApprovalStatus
  <2> TAKE k \in DOMAIN approvals'[r]
  <2>1. approvals'[r] \in Seq(ApprovalRecord)
    BY <1>1
  <2>2. approvals'[r][k] \in ApprovalRecord
    BY <2>1, ElementOfSeq, LenProperties
  <2> QED
    BY <2>2 DEF ApprovalRecord
<1>6. CASE AllApproved(approvals'[r])
  <2>1. Decide(r, "approve", "active")
    BY <1>6 DEF approve
  <2>2. ~Open(r)' /\ ~Vetoed(r)'
    BY <1>6 DEF AllApproved, Open, Vetoed
  <2>3. TypeOK'
    <3>1. /\ status' \in [Rules -> RuleStatus]
          /\ approved_at' \in [Rules -> Days \cup {NoTime}]
          /\ audit' \in [Rules -> Seq(AuditEntry)]
      BY <2>1, DecideTypes
    <3> QED
      BY <1>1, <3>1 DEF approve, TypeOK
  <2> QED
    BY <1>1, <1>3, <1>4, <1>8, <2>1, <2>2, <2>3
<1>7. CASE ~AllApproved(approvals'[r])
  <2>1. UNCHANGED <<status, approved_at, audit>>
    BY <1>7 DEF approve
  <2>2. PICK k \in DOMAIN approvals'[r] : approvals'[r][k].status # "approved"
    BY <1>7 DEF AllApproved
  <2>3. approvals'[r][k].status \in {"pending", "rejected"}
    BY <2>2, <1>4, <1>5 DEF NeverCancelled, ApprovalStatus
  <2>4. Open(r)' \/ Vetoed(r)'
    BY <2>3 DEF Open, Vetoed
  <2>5. TypeOK'
    BY <1>1, <2>1 DEF approve, TypeOK
  <2> QED
    BY <1>1, <1>3, <1>4, <1>8, <2>1, <2>4, <2>5
<1> QED
  BY <1>6, <1>7

LEMMA RejectStep ==
  ASSUME TypeOK, NeverCancelled, NEW u \in Users, NEW r \in Rules, NEW i,
         reject(u, r, i)
  PROVE  /\ TypeOK' /\ NeverCancelled'
         /\ Open(r)
         /\ Vetoed(r)'
         /\ Decide(r, "reject", "rejected")
         /\ SettledKept(r)
         /\ \A q \in Rules \ {r} : approvals'[q] = approvals[q]
<1>1. /\ approvals' \in [Rules -> Seq(ApprovalRecord)]
      /\ Open(r)
      /\ i \in DOMAIN approvals[r]
      /\ DOMAIN approvals'[r] = DOMAIN approvals[r]
      /\ approvals'[r][i].status = "rejected"
      /\ \A k \in DOMAIN approvals[r] :
           k # i => approvals'[r][k] = approvals[r][k]
      /\ \A q \in Rules \ {r} : approvals'[q] = approvals[q]
  <2>1. "rejected" \in ApprovalStatus
    BY DEF ApprovalStatus
  <2>2. /\ OpenTo(u, r, i)
        /\ approvals' = [approvals EXCEPT ![r][i].status = "rejected"]
    BY DEF reject
  <2> QED
    BY <2>1, <2>2, DecisionStep
<1>2. Decide(r, "reject", "rejected")
  BY DEF reject
<1>3. TypeOK'
  <2>1. /\ status' \in [Rules -> RuleStatus]
        /\ approved_at' \in [Rules -> Days \cup {NoTime}]
        /\ audit' \in [Rules -> Seq(AuditEntry)]
    BY <1>2, DecideTypes
  <2> QED
    BY <1>1, <2>1 DEF reject, TypeOK
<1>4. NeverCancelled'
  BY <1>1 DEF NeverCancelled
<1>5. Vetoed(r)'
  BY <1>1 DEF Vetoed
<1>6. SettledKept(r)
  BY <1>1 DEF SettledKept, reject, OpenTo
<1> QED
  BY <1>1, <1>2, <1>3, <1>4, <1>5, <1>6

LEMMA SweepStep ==
  ASSUME TypeOK, NeverCancelled, NEW done \in SUBSET Overdue,
         check_auto_approve(done)
  PROVE  /\ TypeOK' /\ NeverCancelled'
         /\ \A r \in done : /\ status[r] = "pending_approval"
                            /\ ~Open(r)'
                            /\ Vetoed(r)' <=> Vetoed(r)
                            /\ SettledKept(r)
         /\ \A q \in Rules \ done : approvals'[q] = approvals[q]
<1>1. done \subseteq Rules /\ \A r \in done : status[r] = "pending_approval"
  BY DEF Overdue
<1>2. /\ \A q \in Rules \ done : approvals'[q] = approvals[q]
      /\ \A r \in done : approvals'[r] = AutoApproved(approvals[r])
  BY <1>1 DEF check_auto_approve
<1>3. \A r \in done :
        /\ approvals'[r] \in Seq(ApprovalRecord)
        /\ DOMAIN approvals'[r] = DOMAIN approvals[r]
        /\ \A k \in DOMAIN approvals[r] :
             IF approvals[r][k].status = "pending"
               THEN approvals'[r][k].status = "approved"
               ELSE approvals'[r][k] = approvals[r][k]
  BY <1>1, <1>2, SweptRecords DEF TypeOK
<1>4. approvals' \in [Rules -> Seq(ApprovalRecord)]
  BY <1>2, <1>3 DEF check_auto_approve, TypeOK
<1>5. audit' \in [Rules -> Seq(AuditEntry)]
  <2>1. \A r \in Rules : NewEntry(r, "approve", "active", "system") \in AuditEntry
    BY DEF TypeOK, NewEntry, AuditEntry, RuleStatus
  <2> QED
    BY <2>1 DEF check_auto_approve, TypeOK
<1>6. /\ status' \in [Rules -> RuleStatus]
      /\ approved_at' \in [Rules -> Days \cup {NoTime}]
  BY DEF check_auto_approve, TypeOK, RuleStatus
<1>7. TypeOK'
  BY <1>4, <1>5, <1>6 DEF check_auto_approve, TypeOK
<1>8. NeverCancelled'
  BY <1>2, <1>3 DEF NeverCancelled
<1>9. \A r \in done : ~Open(r)' /\ (Vetoed(r)' <=> Vetoed(r)) /\ SettledKept(r)
  BY <1>3 DEF Open, Vetoed, SettledKept
<1> QED
  BY <1>1, <1>2, <1>7, <1>8, <1>9

\* Edits, archivings and the clock touch no record.
LEMMA OtherSteps ==
  ASSUME TypeOK, NeverCancelled,
         \/ \E u \in Users, r \in Rules, b \in BOOLEAN, w \in Workloads \cup {NoWorkload} :
              update_rule(u, r, b, w)
         \/ \E u \in Users, r \in Rules : archive_rule(u, r)
         \/ NextDay
         \/ UNCHANGED vars
  PROVE  /\ TypeOK' /\ NeverCancelled'
         /\ UNCHANGED approvals
<1>1. CASE \E u \in Users, r \in Rules, b \in BOOLEAN, w \in Workloads \cup {NoWorkload} :
             update_rule(u, r, b, w)
  BY <1>1 DEF update_rule, TypeOK, NeverCancelled
<1>2. CASE \E u \in Users, r \in Rules : archive_rule(u, r)
  BY <1>2 DEF archive_rule, TypeOK, NeverCancelled, RuleStatus
<1>3. CASE NextDay
  BY <1>3, ConstantsAssumption DEF NextDay, ruleVars, TypeOK, NeverCancelled, Days
<1>4. CASE UNCHANGED vars
  BY <1>4 DEF vars, TypeOK, NeverCancelled
<1> QED
  BY <1>1, <1>2, <1>3, <1>4

-----------------------------------------------------------------------------
\* The inductive invariant

LEMMA InitReview == Init => ReviewInv
<1> SUFFICES ASSUME Init PROVE ReviewInv
  OBVIOUS
<1>1. /\ TypeOK
      /\ \A r \in Rules : DOMAIN approvals[r] = {}
  BY ConstantsAssumption DEF Init, TypeOK, RuleStatus, Days, NoTime
<1> QED
  BY <1>1 DEF Init, ReviewInv, NeverCancelled, ActiveIsSettled, PendingHasWork, Open

LEMMA NextReview == ReviewInv /\ [Next]_vars => ReviewInv'
<1> SUFFICES ASSUME ReviewInv, [Next]_vars PROVE ReviewInv'
  OBVIOUS
<1>0. TypeOK /\ NeverCancelled
  BY DEF ReviewInv
<1>1. ASSUME NEW u \in Users, NEW r \in Rules, submit_for_approval(u, r)
      PROVE  ReviewInv'
  <2>1. /\ TypeOK' /\ NeverCancelled'
        /\ Open(r)'
        /\ \A q \in Rules \ {r} : approvals'[q] = approvals[q]
    BY <1>0, <1>1, SubmitStep
  <2>2. status' = [status EXCEPT ![r] = "pending_approval"]
    BY <1>1 DEF submit_for_approval
  <2>3. ActiveIsSettled'
    BY <1>0, <2>1, <2>2, Untouched DEF ReviewInv, ActiveIsSettled, TypeOK
  <2>4. PendingHasWork'
    BY <1>0, <2>1, <2>2, Untouched DEF ReviewInv, PendingHasWork, TypeOK
  <2> QED
    BY <2>1, <2>3, <2>4 DEF ReviewInv
<1>2. ASSUME NEW u \in Users, NEW r \in Rules, NEW i \in DOMAIN approvals[r],
             approve(u, r, i)
      PROVE  ReviewInv'
  <2>1. /\ TypeOK' /\ NeverCancelled'
        /\ Open(r)
        /\ Vetoed(r)' <=> Vetoed(r)
        /\ \A q \in Rules \ {r} : approvals'[q] = approvals[q]
        /\ \/ /\ UNCHANGED status
              /\ Open(r)' \/ Vetoed(r)
           \/ /\ Decide(r, "approve", "active")
              /\ ~Open(r)' /\ ~Vetoed(r)
    BY <1>0, <1>2, ApproveStep
  <2>2. CASE UNCHANGED status /\ (Open(r)' \/ Vetoed(r))
    <3>1. ActiveIsSettled'
      BY <2>1, <2>2, Untouched DEF ReviewInv, ActiveIsSettled
    <3>2. PendingHasWork'
      BY <2>1, <2>2, Untouched DEF ReviewInv, PendingHasWork
    <3> QED
      BY <2>1, <3>1, <3>2 DEF ReviewInv
  <2>3. CASE Decide(r, "approve", "active") /\ ~Open(r)'
    <3>1. status' = [status EXCEPT ![r] = "active"]
      BY <2>3 DEF Decide
    <3>2. ActiveIsSettled'
      BY <1>0, <2>1, <2>3, <3>1, Untouched DEF ReviewInv, ActiveIsSettled, TypeOK
    <3>3. PendingHasWork'
      BY <1>0, <2>1, <2>3, <3>1, Untouched DEF ReviewInv, PendingHasWork, TypeOK
    <3> QED
      BY <2>1, <3>2, <3>3 DEF ReviewInv
  <2> QED
    BY <2>1, <2>2, <2>3
<1>3. ASSUME NEW u \in Users, NEW r \in Rules, NEW i \in DOMAIN approvals[r],
             reject(u, r, i)
      PROVE  ReviewInv'
  <2>1. /\ TypeOK' /\ NeverCancelled'
        /\ Decide(r, "reject", "rejected")
        /\ \A q \in Rules \ {r} : approvals'[q] = approvals[q]
    BY <1>0, <1>3, RejectStep
  <2>2. status' = [status EXCEPT ![r] = "rejected"]
    BY <2>1 DEF Decide
  <2>3. ActiveIsSettled'
    BY <1>0, <2>1, <2>2, Untouched DEF ReviewInv, ActiveIsSettled, TypeOK
  <2>4. PendingHasWork'
    BY <1>0, <2>1, <2>2, Untouched DEF ReviewInv, PendingHasWork, TypeOK
  <2> QED
    BY <2>1, <2>3, <2>4 DEF ReviewInv
<1>4. ASSUME NEW done \in SUBSET Overdue, check_auto_approve(done)
      PROVE  ReviewInv'
  <2>1. /\ TypeOK' /\ NeverCancelled'
        /\ \A r \in done : ~Open(r)'
        /\ \A q \in Rules \ done : approvals'[q] = approvals[q]
    BY <1>0, <1>4, SweepStep
  <2>2. \A q \in Rules : status'[q] = IF q \in done THEN "active" ELSE status[q]
    BY <1>4 DEF check_auto_approve
  <2>3. ActiveIsSettled'
    BY <2>1, <2>2, Untouched DEF ReviewInv, ActiveIsSettled
  <2>4. PendingHasWork'
    BY <2>1, <2>2, Untouched DEF ReviewInv, PendingHasWork
  <2> QED
    BY <2>1, <2>3, <2>4 DEF ReviewInv
<1>5. ASSUME \/ \E u \in Users, r \in Rules, b \in BOOLEAN, w \in Workloads \cup {NoWorkload} :
                  update_rule(u, r, b, w)
             \/ \E u \in Users, r \in Rules : archive_rule(u, r)
             \/ NextDay
             \/ UNCHANGED vars
      PROVE  ReviewInv'
  <2>1. TypeOK' /\ NeverCancelled' /\ UNCHANGED approvals
    BY <1>0, <1>5, OtherSteps
  <2>2. \A q \in Rules : status'[q] \in {status[q], "archived"}
    BY <1>0, <1>5 DEF update_rule, archive_rule, NextDay, ruleVars, vars, TypeOK
  <2>3. ActiveIsSettled' /\ PendingHasWork'
    BY <2>1, <2>2, Untouched DEF ReviewInv, ActiveIsSettled, PendingHasWork
  <2> QED
    BY <2>1, <2>3 DEF ReviewInv
<1> QED
  BY <1>1, <1>2, <1>3, <1>4, <1>5 DEF Next

LEMMA ReviewInvariant == Spec => []ReviewInv
<1> QED
  BY InitReview, NextReview, PTL DEF Spec

-----------------------------------------------------------------------------
\* Invariants

\* Every column keeps a value of its type, and a rule's records stay a
\* sequence of approval records, for any number of rounds.
THEOREM TypeCorrect == Spec => []TypeOK
<1>1. ReviewInv => TypeOK
  BY DEF ReviewInv
<1> QED
  BY <1>1, ReviewInvariant, PTL

\* A rule in force never has an approval record left to decide.
THEOREM ActiveSettled == Spec => []ActiveIsSettled
<1>1. ReviewInv => ActiveIsSettled
  BY DEF ReviewInv
<1> QED
  BY <1>1, ReviewInvariant, PTL

\* A rule under review that nobody rejected always has a record to decide.
THEOREM PendingDecidable == Spec => []PendingHasWork
<1>1. ReviewInv => PendingHasWork
  BY DEF ReviewInv
<1> QED
  BY <1>1, ReviewInvariant, PTL

-----------------------------------------------------------------------------
\* Every handler is a step of the abstract life cycle

\* The mapped variables after a step that writes the records of rule r only.
LEMMA MappedRule ==
  ASSUME NEW r \in Rules,
         \A q \in Rules \ {r} : approvals'[q] = approvals[q]
  PROVE  /\ openOf' = [openOf EXCEPT ![r] = Open(r)']
         /\ vetoedOf' = [vetoedOf EXCEPT ![r] = Vetoed(r)']
<1>1. \A q \in Rules \ {r} : (Open(q)' <=> Open(q)) /\ (Vetoed(q)' <=> Vetoed(q))
  BY Untouched
<1>2. \A q \in Rules \ {r} : openOf'[q] = openOf[q] /\ vetoedOf'[q] = vetoedOf[q]
  BY <1>1 DEF openOf, vetoedOf, Open, Vetoed
<1> QED
  BY <1>2 DEF openOf, vetoedOf

LEMMA LifecycleInit == Init => Lifecycle!Init
<1> SUFFICES ASSUME Init PROVE Lifecycle!Init
  OBVIOUS
<1>1. \A r \in Rules : DOMAIN approvals[r] = {}
  BY DEF Init
<1> QED
  BY <1>1 DEF Init, Lifecycle!Init, openOf, vetoedOf, Open, Vetoed

LEMMA LifecycleStep ==
  ReviewInv /\ [Next]_vars => [Lifecycle!Next]_(Lifecycle!vars)
<1> SUFFICES ASSUME ReviewInv, [Next]_vars
             PROVE  [Lifecycle!Next]_(Lifecycle!vars)
  OBVIOUS
<1>0. TypeOK /\ NeverCancelled
  BY DEF ReviewInv
<1>1. ASSUME NEW u \in Users, NEW r \in Rules, submit_for_approval(u, r)
      PROVE  Lifecycle!Submit(r)
  <2>1. /\ openOf' = [openOf EXCEPT ![r] = Open(r)']
        /\ vetoedOf' = [vetoedOf EXCEPT ![r] = Vetoed(r)']
        /\ Open(r)'
        /\ Vetoed(r)' <=> Vetoed(r)
    BY <1>0, <1>1, SubmitStep, MappedRule
  <2>2. openOf' = [openOf EXCEPT ![r] = TRUE]
    BY <2>1 DEF openOf, Open
  <2>3. vetoedOf' = vetoedOf
    BY <2>1 DEF vetoedOf, Vetoed
  <2> QED
    BY <1>1, <2>2, <2>3 DEF submit_for_approval, Lifecycle!Submit
<1>2. ASSUME NEW u \in Users, NEW r \in Rules, NEW i \in DOMAIN approvals[r],
             approve(u, r, i)
      PROVE  Lifecycle!Approve(r) \/ Lifecycle!Activate(r)
  <2>1. /\ Open(r)
        /\ Vetoed(r)' <=> Vetoed(r)
        /\ \A q \in Rules \ {r} : approvals'[q] = approvals[q]
        /\ \/ /\ UNCHANGED status
              /\ Open(r)' \/ Vetoed(r)
           \/ /\ Decide(r, "approve", "active")
              /\ ~Open(r)' /\ ~Vetoed(r)
    BY <1>0, <1>2, ApproveStep
  <2>2. /\ openOf' = [openOf EXCEPT ![r] = Open(r)']
        /\ vetoedOf' = [vetoedOf EXCEPT ![r] = Vetoed(r)']
    BY <2>1, MappedRule
  <2>3. vetoedOf' = vetoedOf
    BY <2>1, <2>2 DEF vetoedOf, Vetoed
  <2>4. openOf[r] = Open(r) /\ vetoedOf[r] = Vetoed(r)
    BY DEF openOf, vetoedOf
  <2>5. CASE UNCHANGED status /\ (Open(r)' \/ Vetoed(r))
    <3>1. Open(r)' \in BOOLEAN
      BY DEF Open
    <3>2. \E left \in BOOLEAN : /\ left \/ vetoedOf[r]
                               /\ openOf' = [openOf EXCEPT ![r] = left]
      <4> WITNESS Open(r)' \in BOOLEAN
      <4> QED
        BY <2>2, <2>4, <2>5
    <3> QED
      BY <2>1, <2>3, <2>4, <2>5, <3>2 DEF Lifecycle!Approve
  <2>6. CASE Decide(r, "approve", "active") /\ ~Open(r)' /\ ~Vetoed(r)
    <3>1. openOf' = [openOf EXCEPT ![r] = FALSE]
      BY <2>2, <2>6 DEF openOf, Open
    <3> QED
      BY <2>1, <2>3, <2>4, <2>6, <3>1 DEF Decide, Lifecycle!Activate
  <2> QED
    BY <2>1, <2>5, <2>6
<1>3. ASSUME NEW u \in Users, NEW r \in Rules, NEW i \in DOMAIN approvals[r],
             reject(u, r, i)
      PROVE  Lifecycle!Reject(r)
  <2>1. /\ Open(r)
        /\ Vetoed(r)'
        /\ Decide(r, "reject", "rejected")
        /\ \A q \in Rules \ {r} : approvals'[q] = approvals[q]
    BY <1>0, <1>3, RejectStep
  <2>2. /\ openOf' = [openOf EXCEPT ![r] = Open(r)']
        /\ vetoedOf' = [vetoedOf EXCEPT ![r] = Vetoed(r)']
    BY <2>1, MappedRule
  <2>3. vetoedOf' = [vetoedOf EXCEPT ![r] = TRUE]
    BY <2>1, <2>2 DEF vetoedOf, Vetoed
  <2>4. openOf[r]
    BY <2>1 DEF openOf
  <2>5. Open(r)' \in BOOLEAN
    BY DEF Open
  <2>6. \E left \in BOOLEAN : openOf' = [openOf EXCEPT ![r] = left]
    BY <2>2, <2>5
  <2> QED
    BY <2>1, <2>3, <2>4, <2>6 DEF Decide, Lifecycle!Reject
<1>4. ASSUME NEW done \in SUBSET Overdue, check_auto_approve(done)
      PROVE  done \in SUBSET Rules /\ Lifecycle!AutoActivate(done)
  <2>1. /\ done \subseteq Rules
        /\ \A r \in done : /\ status[r] = "pending_approval"
                           /\ ~Open(r)'
                           /\ Vetoed(r)' <=> Vetoed(r)
        /\ \A q \in Rules \ done : approvals'[q] = approvals[q]
    BY <1>0, <1>4, SweepStep DEF Overdue
  <2>2. \A q \in Rules \ done : (Open(q)' <=> Open(q)) /\ (Vetoed(q)' <=> Vetoed(q))
    BY <2>1, Untouched
  <2>3. openOf' = [r \in Rules |-> IF r \in done THEN FALSE ELSE openOf[r]]
    BY <2>1, <2>2 DEF openOf, Open
  <2>4. vetoedOf' = vetoedOf
    BY <2>1, <2>2 DEF vetoedOf, Vetoed
  <2> QED
    BY <1>4, <2>1, <2>3, <2>4 DEF check_auto_approve, Lifecycle!AutoActivate
<1>5. ASSUME NEW u \in Users, NEW r \in Rules, archive_rule(u, r)
      PROVE  Lifecycle!Archive(r)
  BY <1>5 DEF archive_rule, Lifecycle!Archive, openOf, vetoedOf, Open, Vetoed
<1>6. ASSUME \/ \E u \in Users, r \in Rules, b \in BOOLEAN, w \in Workloads \cup {NoWorkload} :
                  update_rule(u, r, b, w)
             \/ NextDay
             \/ UNCHANGED vars
      PROVE  UNCHANGED Lifecycle!vars
  BY <1>6 DEF update_rule, NextDay, ruleVars, vars, Lifecycle!vars,
              openOf, vetoedOf, Open, Vetoed
<1> QED
  BY <1>1, <1>2, <1>3, <1>4, <1>5, <1>6 DEF Next, Lifecycle!Next

\* ApprovalWorkflow implements the abstract life cycle.
THEOREM WorkflowImplementsLifecycle == Spec => ImplementsLifecycle
<1> QED
  BY LifecycleInit, LifecycleStep, ReviewInvariant, PTL
     DEF Spec, ImplementsLifecycle, Lifecycle!Spec

-----------------------------------------------------------------------------
\* Action properties

\* Without an open record, a rule in force or archived can only be archived.
LEMMA SettledStep ==
  ASSUME ReviewInv, [Next]_vars, NEW r \in Rules,
         status[r] \in {"active", "archived"}, ~Open(r)
  PROVE  status'[r] \in {status[r], "archived"}
<1>1. [Lifecycle!Next]_(Lifecycle!vars)
  BY LifecycleStep
<1>2. ~openOf[r] /\ status \in [Rules -> RuleStatus]
  BY DEF openOf, ReviewInv, TypeOK
<1>3. CASE \E q \in Rules : \/ Lifecycle!Submit(q) \/ Lifecycle!Approve(q)
                           \/ Lifecycle!Activate(q) \/ Lifecycle!Reject(q)
                           \/ Lifecycle!Archive(q)
  BY <1>2, <1>3 DEF Lifecycle!Submit, Lifecycle!Approve, Lifecycle!Activate,
                    Lifecycle!Reject, Lifecycle!Archive
<1>4. CASE \E done \in SUBSET Rules : Lifecycle!AutoActivate(done)
  BY <1>4 DEF Lifecycle!AutoActivate
<1>5. CASE UNCHANGED Lifecycle!vars
  BY <1>5 DEF Lifecycle!vars
<1> QED
  BY <1>1, <1>3, <1>4, <1>5 DEF Lifecycle!Next

\* No late decision, sweep or submission takes a rule in force back.
THEOREM ActiveStays == Spec => ActiveNeverReopens
<1>1. ReviewInv /\ [Next]_vars =>
        [\A r \in Rules :
           status[r] = "active" => status'[r] \in {"active", "archived"}]_vars
  BY SettledStep DEF ReviewInv, ActiveIsSettled
<1> QED
  BY <1>1, ReviewInvariant, PTL DEF Spec, ActiveNeverReopens

\* What the property says of one rule.
Shelved(q) ==
  status[q] = "archived" =>
    /\ Undecided(q)' \subseteq Undecided(q)
    /\ status'[q] # "archived" =>
         /\ is_active'[q] = is_active[q]
         /\ \E i \in Undecided(q) :
              \/ approvals'[q][i].status = "approved" /\ status'[q] = "active"
              \/ approvals'[q][i].status = "rejected" /\ status'[q] = "rejected"

\* A decision on record i of rule r, whatever else it changes.
LEMMA DecisionShelves ==
  ASSUME TypeOK, NEW r \in Rules, NEW i \in Undecided(r),
         NEW outcome \in {"approved", "rejected"},
         approvals' = [approvals EXCEPT ![r][i].status = outcome],
         is_active' = is_active,
         \/ UNCHANGED status
         \/ outcome = "approved" /\ status' = [status EXCEPT ![r] = "active"]
         \/ outcome = "rejected" /\ status' = [status EXCEPT ![r] = "rejected"]
  PROVE  \A q \in Rules : Shelved(q)
<1>1. /\ i \in DOMAIN approvals[r]
      /\ approvals \in [Rules -> Seq(ApprovalRecord)]
      /\ status \in [Rules -> RuleStatus]
  BY DEF Undecided, TypeOK
<1>2. /\ DOMAIN approvals'[r] = DOMAIN approvals[r]
      /\ approvals'[r][i].status = outcome
      /\ \A k \in DOMAIN approvals[r] : k # i => approvals'[r][k] = approvals[r][k]
      /\ \A q \in Rules \ {r} : approvals'[q] = approvals[q]
  BY <1>1 DEF ApprovalRecord
<1>3. Undecided(r)' \subseteq Undecided(r)
  BY <1>2 DEF Undecided
<1>4. Shelved(r)
  BY <1>1, <1>2, <1>3 DEF Shelved
<1>5. ASSUME NEW q \in Rules \ {r} PROVE Shelved(q)
  BY <1>1, <1>2, <1>5 DEF Shelved, Undecided
<1> QED
  BY <1>4, <1>5

\* Only a decision on a record left open takes a rule out of the archive, and
\* it does not switch the rule on again.
THEOREM ArchiveStays == Spec => ArchiveEndsByDecision
<1>1. ReviewInv /\ [Next]_vars => \A q \in Rules : Shelved(q)
  <2> SUFFICES ASSUME ReviewInv, [Next]_vars PROVE \A q \in Rules : Shelved(q)
    OBVIOUS
  <2>0. TypeOK /\ NeverCancelled
    BY DEF ReviewInv
  <2>1. ASSUME NEW q \in Rules, approvals'[q] = approvals[q],
               status'[q] \in {status[q], "archived"}
        PROVE  Shelved(q)
    BY <2>1 DEF Shelved, Undecided
  <2>2. ASSUME NEW u \in Users, NEW r \in Rules, submit_for_approval(u, r)
        PROVE  \A q \in Rules : Shelved(q)
    <3>1. Shelved(r)
      BY <2>2 DEF submit_for_approval, Shelved
    <3>2. \A q \in Rules \ {r} : approvals'[q] = approvals[q]
      BY <2>0, <2>2, SubmitStep
    <3>3. \A q \in Rules \ {r} : status'[q] = status[q]
      BY <2>0, <2>2 DEF submit_for_approval, TypeOK
    <3> QED
      BY <2>1, <3>1, <3>2, <3>3
  <2>3. ASSUME NEW u \in Users, NEW r \in Rules, NEW i \in DOMAIN approvals[r],
               approve(u, r, i)
        PROVE  \A q \in Rules : Shelved(q)
    <3>1. i \in Undecided(r) /\ is_active' = is_active
      BY <2>3 DEF approve, OpenTo, Undecided
    <3>2. UNCHANGED status \/ status' = [status EXCEPT ![r] = "active"]
      BY <2>3 DEF approve, Decide
    <3>3. approvals' = [approvals EXCEPT ![r][i].status = "approved"]
      BY <2>3 DEF approve
    <3> QED
      BY <2>0, <3>1, <3>2, <3>3, DecisionShelves
  <2>4. ASSUME NEW u \in Users, NEW r \in Rules, NEW i \in DOMAIN approvals[r],
               reject(u, r, i)
        PROVE  \A q \in Rules : Shelved(q)
    <3>1. i \in Undecided(r) /\ is_active' = is_active
      BY <2>4 DEF reject, OpenTo, Undecided
    <3>2. status' = [status EXCEPT ![r] = "rejected"]
      BY <2>4 DEF reject, Decide
    <3>3. approvals' = [approvals EXCEPT ![r][i].status = "rejected"]
      BY <2>4 DEF reject
    <3> QED
      BY <2>0, <3>1, <3>2, <3>3, DecisionShelves
  <2>5. ASSUME NEW done \in SUBSET Overdue, check_auto_approve(done)
        PROVE  \A q \in Rules : Shelved(q)
    <3>1. \A q \in done : q \in Rules /\ Shelved(q)
      BY <2>5 DEF Overdue, Shelved
    <3>2. \A q \in Rules \ done : approvals'[q] = approvals[q]
      BY <2>0, <2>5, SweepStep
    <3>3. \A q \in Rules \ done : status'[q] = status[q]
      BY <2>5 DEF check_auto_approve
    <3> QED
      BY <2>1, <3>1, <3>2, <3>3
  <2>6. ASSUME \/ \E u \in Users, r \in Rules, b \in BOOLEAN, w \in Workloads \cup {NoWorkload} :
                    update_rule(u, r, b, w)
               \/ \E u \in Users, r \in Rules : archive_rule(u, r)
               \/ NextDay
               \/ UNCHANGED vars
        PROVE  \A q \in Rules : Shelved(q)
    <3>1. UNCHANGED approvals
      BY <2>0, <2>6, OtherSteps
    <3>2. \A q \in Rules : status'[q] \in {status[q], "archived"}
      BY <2>0, <2>6 DEF update_rule, archive_rule, NextDay, ruleVars, vars, TypeOK
    <3> QED
      BY <2>1, <3>1, <3>2
  <2> QED
    BY <2>2, <2>3, <2>4, <2>5, <2>6 DEF Next
<1>2. (\A q \in Rules : Shelved(q)) =>
        \A r \in Rules : status[r] = "archived" =>
          /\ Undecided(r)' \subseteq Undecided(r)
          /\ status'[r] # "archived" =>
               /\ is_active'[r] = is_active[r]
               /\ \E i \in Undecided(r) :
                    \/ approvals'[r][i].status = "approved" /\ status'[r] = "active"
                    \/ approvals'[r][i].status = "rejected" /\ status'[r] = "rejected"
  BY DEF Shelved
<1>3. ReviewInv /\ [Next]_vars =>
        [\A r \in Rules : status[r] = "archived" =>
           /\ Undecided(r)' \subseteq Undecided(r)
           /\ status'[r] # "archived" =>
                /\ is_active'[r] = is_active[r]
                /\ \E i \in Undecided(r) :
                     \/ approvals'[r][i].status = "approved" /\ status'[r] = "active"
                     \/ approvals'[r][i].status = "rejected" /\ status'[r] = "rejected"]_vars
  BY <1>1, <1>2
<1> QED
  BY <1>3, ReviewInvariant, PTL DEF Spec, ArchiveEndsByDecision

\* No decision on a record is ever taken back or overwritten.
THEOREM DecisionsStay == Spec => DecisionsAreFinal
<1>1. ReviewInv /\ [Next]_vars => \A r \in Rules : SettledKept(r)
  <2> SUFFICES ASSUME ReviewInv, [Next]_vars PROVE \A r \in Rules : SettledKept(r)
    OBVIOUS
  <2>0. TypeOK /\ NeverCancelled
    BY DEF ReviewInv
  <2>1. ASSUME NEW q \in Rules, approvals'[q] = approvals[q] PROVE SettledKept(q)
    BY <2>1 DEF SettledKept
  <2>2. ASSUME NEW u \in Users, NEW r \in Rules, submit_for_approval(u, r)
        PROVE  \A q \in Rules : SettledKept(q)
    <3>1. SettledKept(r) /\ \A q \in Rules \ {r} : approvals'[q] = approvals[q]
      BY <2>0, <2>2, SubmitStep
    <3> QED
      BY <2>1, <3>1
  <2>3. ASSUME NEW u \in Users, NEW r \in Rules, NEW i \in DOMAIN approvals[r],
               approve(u, r, i)
        PROVE  \A q \in Rules : SettledKept(q)
    <3>1. SettledKept(r) /\ \A q \in Rules \ {r} : approvals'[q] = approvals[q]
      BY <2>0, <2>3, ApproveStep
    <3> QED
      BY <2>1, <3>1
  <2>4. ASSUME NEW u \in Users, NEW r \in Rules, NEW i \in DOMAIN approvals[r],
               reject(u, r, i)
        PROVE  \A q \in Rules : SettledKept(q)
    <3>1. SettledKept(r) /\ \A q \in Rules \ {r} : approvals'[q] = approvals[q]
      BY <2>0, <2>4, RejectStep
    <3> QED
      BY <2>1, <3>1
  <2>5. ASSUME NEW done \in SUBSET Overdue, check_auto_approve(done)
        PROVE  \A q \in Rules : SettledKept(q)
    <3>1. /\ \A r \in done : SettledKept(r)
          /\ \A q \in Rules \ done : approvals'[q] = approvals[q]
      BY <2>0, <2>5, SweepStep
    <3> QED
      BY <2>1, <3>1
  <2>6. ASSUME \/ \E u \in Users, r \in Rules, b \in BOOLEAN, w \in Workloads \cup {NoWorkload} :
                    update_rule(u, r, b, w)
               \/ \E u \in Users, r \in Rules : archive_rule(u, r)
               \/ NextDay
               \/ UNCHANGED vars
        PROVE  \A q \in Rules : SettledKept(q)
    <3>1. UNCHANGED approvals
      BY <2>0, <2>6, OtherSteps
    <3> QED
      BY <2>1, <3>1
  <2> QED
    BY <2>2, <2>3, <2>4, <2>5, <2>6 DEF Next
<1>2. (\A r \in Rules : SettledKept(r)) =>
        \A r \in Rules : \A i \in DOMAIN approvals[r] :
          approvals[r][i].status # "pending" =>
            i \in DOMAIN approvals'[r] /\ approvals'[r][i] = approvals[r][i]
  BY DEF SettledKept
<1>3. ReviewInv /\ [Next]_vars =>
        [\A r \in Rules : \A i \in DOMAIN approvals[r] :
           approvals[r][i].status # "pending" =>
             i \in DOMAIN approvals'[r] /\ approvals'[r][i] = approvals[r][i]]_vars
  BY <1>1, <1>2
<1> QED
  BY <1>3, ReviewInvariant, PTL DEF Spec, DecisionsAreFinal

\* The audit row a sweep leaves last on a rule it activates is the system's.
LEMMA SweepSigns ==
  ASSUME TypeOK, NEW done \in SUBSET Overdue, check_auto_approve(done),
         NEW r \in done
  PROVE  audit'[r][Len(audit'[r])].by = "system"
<1> DEFINE entry == NewEntry(r, "approve", "active", "system")
<1>1. r \in Rules
  BY DEF Overdue
<1>2. audit[r] \in Seq(AuditEntry) /\ entry \in AuditEntry
  BY <1>1 DEF TypeOK, NewEntry, AuditEntry, RuleStatus
<1>3. audit'[r] = Append(audit[r], entry)
  BY <1>1 DEF check_auto_approve
<1>4. /\ Len(audit'[r]) = Len(audit[r]) + 1
      /\ audit'[r][Len(audit[r]) + 1] = entry
  BY <1>2, <1>3
<1>5. entry.by = "system"
  BY DEF NewEntry
<1> QED
  BY <1>4, <1>5

\* Only the sweep activates a rule that was rejected in any of its rounds.
THEOREM VetoStands == Spec => UsersCannotOverrule
<1>1. ReviewInv /\ [Next]_vars =>
        [\A r \in Rules :
           Vetoed(r) /\ status[r] # "active" /\ status'[r] = "active" =>
             audit'[r][Len(audit'[r])].by = "system"]_vars
  <2> SUFFICES ASSUME ReviewInv, [Next]_vars, NEW q \in Rules,
                      Vetoed(q), status[q] # "active", status'[q] = "active"
               PROVE  audit'[q][Len(audit'[q])].by = "system"
    OBVIOUS
  <2>0. TypeOK /\ NeverCancelled
    BY DEF ReviewInv
  <2>1. ASSUME NEW u \in Users, NEW r \in Rules, submit_for_approval(u, r)
        PROVE  FALSE
    BY <2>0, <2>1 DEF submit_for_approval, TypeOK
  <2>2. ASSUME NEW u \in Users, NEW r \in Rules, NEW i \in DOMAIN approvals[r],
               approve(u, r, i)
        PROVE  FALSE
    <3>1. UNCHANGED status \/ (Decide(r, "approve", "active") /\ ~Vetoed(r))
      BY <2>0, <2>2, ApproveStep
    <3> QED
      BY <2>0, <3>1 DEF Decide, TypeOK
  <2>3. ASSUME NEW u \in Users, NEW r \in Rules, NEW i \in DOMAIN approvals[r],
               reject(u, r, i)
        PROVE  FALSE
    BY <2>0, <2>3 DEF reject, Decide, TypeOK
  <2>4. ASSUME NEW done \in SUBSET Overdue, check_auto_approve(done)
        PROVE  audit'[q][Len(audit'[q])].by = "system"
    <3>1. q \in done
      BY <2>4 DEF check_auto_approve
    <3> QED
      BY <2>0, <2>4, <3>1, SweepSigns
  <2>5. ASSUME \/ \E u \in Users, r \in Rules, b \in BOOLEAN, w \in Workloads \cup {NoWorkload} :
                    update_rule(u, r, b, w)
               \/ \E u \in Users, r \in Rules : archive_rule(u, r)
               \/ NextDay
               \/ UNCHANGED vars
        PROVE  FALSE
    BY <2>0, <2>5 DEF update_rule, archive_rule, NextDay, ruleVars, vars, TypeOK
  <2> QED
    BY <2>1, <2>2, <2>3, <2>4, <2>5 DEF Next
<1> QED
  BY <1>1, ReviewInvariant, PTL DEF Spec, UsersCannotOverrule
=============================================================================
