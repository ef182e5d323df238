---------------------------- MODULE ReplicaProofs ----------------------------
(* Proofs about ReplicatedApproval, for every number of requests served at   *)
(* the same time: what overlapping requests cannot break, and that requests  *)
(* that do not overlap behave as the single process of ApprovalWorkflow.     *)
EXTENDS ReplicatedApproval, AuditProofs

-----------------------------------------------------------------------------
\* Overlapping requests

\* What a request has read is about a rule, and about records the rule has.
Loaded(s) ==
  \/ req[s].op = "idle"
  \/ /\ req[s].op = "submit"
     /\ req[s].rule \in Rules /\ req[s].loaded \in RuleStatus
     /\ \E a, b \in Users \cup {Unassigned} :
          req[s].round = <<NewRecord(SECURITY_ROLE, a), NewRecord(WORKLOAD_ROLE, b)>>
  \/ /\ req[s].op \in {"approve", "reject"}
     /\ req[s].rule \in Rules /\ req[s].record \in DOMAIN approvals[req[s].rule]
     /\ req[s].at = "rule" => req[s].loaded \in RuleStatus
  \/ /\ req[s].op = "archive"
     /\ req[s].rule \in Rules /\ req[s].loaded \in RuleStatus
  \/ /\ req[s].op = "sweep"
     /\ req[s].todo \in SUBSET Rules
     /\ req[s].at = "records" => req[s].rule \in Rules

ReplicaInv ==
  /\ TypeOK
  /\ DOMAIN req = Sessions
  /\ \A s \in Sessions : Loaded(s)

\* A commit changes one rule: its records are kept, and only a submission adds
\* to them, two and an audit row of its own.
Commits(r, action) ==
  /\ \A q \in Rules \ {r} : approvals'[q] = approvals[q] /\ audit'[q] = audit[q]
  /\ \A i \in DOMAIN approvals[r] :
       /\ i \in DOMAIN approvals'[r]
       /\ approvals[r][i].status # "pending" => approvals'[r][i].status # "pending"
  /\ Len(approvals'[r]) = Len(approvals[r]) + (IF action = "submit" THEN 2 ELSE 0)
  /\ \/ audit'[r] = audit[r] /\ action # "submit"
     \/ \E e \in AuditEntry : e.action = action /\ audit'[r] = Append(audit[r], e)

LEMMA WrittenEntry ==
  ASSUME TypeOK, NEW r \in Rules, NEW action \in {"submit", "approve", "reject"},
         NEW loaded \in RuleStatus, NEW new \in RuleStatus, NEW by \in {"user", "system"},
         WriteEntry(r, action, loaded, new, by)
  PROVE  /\ audit' \in [Rules -> Seq(AuditEntry)]
         /\ \A q \in Rules \ {r} : audit'[q] = audit[q]
         /\ \E e \in AuditEntry : e.action = action /\ audit'[r] = Append(audit[r], e)
<1> PICK e : e = [action |-> action, old |-> loaded, new |-> new, by |-> by]
  OBVIOUS
<1>1. e \in AuditEntry /\ e.action = action
  BY DEF AuditEntry
<1>2. audit' = [audit EXCEPT ![r] = Append(audit[r], e)]
  BY DEF WriteEntry
<1>3. Append(audit[r], e) \in Seq(AuditEntry)
  BY <1>1 DEF TypeOK
<1>4. audit' \in [Rules -> Seq(AuditEntry)]
  BY <1>2, <1>3 DEF TypeOK
<1>5. audit'[r] = Append(audit[r], e) /\ \A q \in Rules \ {r} : audit'[q] = audit[q]
  BY <1>2 DEF TypeOK
<1> QED
  BY <1>1, <1>4, <1>5

LEMMA WrittenStatus ==
  ASSUME TypeOK, NEW r \in Rules, NEW loaded, NEW new \in RuleStatus,
         WriteStatus(r, loaded, new)
  PROVE  status' \in [Rules -> RuleStatus]
BY DEF WriteStatus, TypeOK

LEMMA CommitSubmitStep ==
  ASSUME ReplicaInv, NEW s \in Sessions, CommitSubmit(s)
  PROVE  TypeOK' /\ Commits(req[s].rule, "submit")
<1> PICK r : r = req[s].rule
  OBVIOUS
<1>1. r \in Rules /\ req[s].loaded \in RuleStatus
  BY DEF ReplicaInv, Loaded, CommitSubmit
<1>2. PICK a \in Users \cup {Unassigned}, b \in Users \cup {Unassigned} :
        req[s].round = <<NewRecord(SECURITY_ROLE, a), NewRecord(WORKLOAD_ROLE, b)>>
  BY DEF ReplicaInv, Loaded, CommitSubmit
<1>3. /\ approvals' = [approvals EXCEPT ![r] =
           @ \o <<NewRecord(SECURITY_ROLE, a), NewRecord(WORKLOAD_ROLE, b)>>]
      /\ WriteStatus(r, req[s].loaded, "pending_approval")
      /\ WriteEntry(r, "submit", req[s].loaded, "pending_approval", "user")
      /\ submitted_at' = [submitted_at EXCEPT ![r] = today]
      /\ UNCHANGED <<is_active, workload, approved_at, today>>
  BY <1>2 DEF CommitSubmit
<1>4. /\ approvals[r] \in Seq(ApprovalRecord)
      /\ approvals'[r] = approvals[r] \o <<NewRecord(SECURITY_ROLE, a),
                                          NewRecord(WORKLOAD_ROLE, b)>>
      /\ \A q \in Rules \ {r} : approvals'[q] = approvals[q]
  BY <1>1, <1>3 DEF ReplicaInv, TypeOK
<1>5. /\ approvals'[r] \in Seq(ApprovalRecord)
      /\ Len(approvals'[r]) = Len(approvals[r]) + 2
      /\ \A k \in DOMAIN approvals[r] : k \in DOMAIN approvals'[r]
                                      /\ approvals'[r][k] = approvals[r][k]
  BY <1>4, SubmittedRecords
<1>6. "pending_approval" \in RuleStatus
  BY DEF RuleStatus
<1>7. /\ audit' \in [Rules -> Seq(AuditEntry)]
      /\ \A q \in Rules \ {r} : audit'[q] = audit[q]
      /\ \E e \in AuditEntry : e.action = "submit" /\ audit'[r] = Append(audit[r], e)
  BY <1>1, <1>3, <1>6, WrittenEntry DEF ReplicaInv
<1>8. status' \in [Rules -> RuleStatus]
  BY <1>1, <1>3, <1>6, WrittenStatus DEF ReplicaInv
<1>9. TypeOK'
  <2>1. approvals' \in [Rules -> Seq(ApprovalRecord)]
    BY <1>1, <1>3, <1>4, <1>5 DEF ReplicaInv, TypeOK
  <2>2. submitted_at' \in [Rules -> Days \cup {NoTime}]
    BY <1>3 DEF ReplicaInv, TypeOK
  <2> QED
    BY <1>3, <1>7, <1>8, <2>1, <2>2 DEF ReplicaInv, TypeOK
<1> QED
  BY <1>4, <1>5, <1>7, <1>9 DEF Commits

LEMMA CommitDecisionStep ==
  ASSUME ReplicaInv, NEW s \in Sessions,
         NEW op \in {"approve", "reject"}, NEW outcome \in {"approved", "rejected"},
         NEW new \in {"active", "rejected"}, CommitDecision(s, op, outcome, new)
  PROVE  TypeOK' /\ Commits(req[s].rule, op)
<1> PICK r, i : r = req[s].rule /\ i = req[s].record
  OBVIOUS
<1>1. r \in Rules /\ i \in DOMAIN approvals[r] /\ req[s].loaded \in RuleStatus
  BY DEF ReplicaInv, Loaded, CommitDecision
<1>2. outcome \in ApprovalStatus /\ outcome # "pending" /\ new \in RuleStatus
  BY DEF ApprovalStatus, RuleStatus
<1>3. /\ approvals[r] \in Seq(ApprovalRecord)
      /\ approvals' = [approvals EXCEPT ![r][i].status = outcome]
      /\ approvals'[r] = [approvals[r] EXCEPT ![i].status = outcome]
      /\ \A q \in Rules \ {r} : approvals'[q] = approvals[q]
  BY <1>1 DEF CommitDecision, ReplicaInv, TypeOK
<1>4. /\ approvals'[r] \in Seq(ApprovalRecord)
      /\ DOMAIN approvals'[r] = DOMAIN approvals[r]
      /\ approvals'[r][i].status = outcome
      /\ \A k \in DOMAIN approvals[r] : k # i => approvals'[r][k] = approvals[r][k]
  BY <1>1, <1>2, <1>3, DecidedRecords
<1>5. Len(approvals'[r]) = Len(approvals[r]) /\ Len(approvals[r]) \in Nat
  BY <1>3, <1>4, LenProperties
<1>6. approvals' \in [Rules -> Seq(ApprovalRecord)]
  BY <1>1, <1>3, <1>4 DEF ReplicaInv, TypeOK
<1>7. /\ status' \in [Rules -> RuleStatus]
      /\ approved_at' \in [Rules -> Days \cup {NoTime}]
      /\ audit' \in [Rules -> Seq(AuditEntry)]
      /\ \A q \in Rules \ {r} : audit'[q] = audit[q]
      /\ \/ audit'[r] = audit[r]
         \/ \E e \in AuditEntry : e.action = op /\ audit'[r] = Append(audit[r], e)
  <2>1. CASE UNCHANGED <<status, approved_at, audit>>
    BY <2>1 DEF ReplicaInv, TypeOK
  <2>2. CASE /\ WriteStatus(r, req[s].loaded, new)
             /\ approved_at' = [approved_at EXCEPT ![r] = today]
             /\ WriteEntry(r, op, req[s].loaded, new, "user")
    <3>1. /\ audit' \in [Rules -> Seq(AuditEntry)]
          /\ \A q \in Rules \ {r} : audit'[q] = audit[q]
          /\ \E e \in AuditEntry : e.action = op /\ audit'[r] = Append(audit[r], e)
      <4>1. WriteEntry(r, op, req[s].loaded, new, "user") /\ TypeOK
        BY <2>2 DEF ReplicaInv
      <4>2. op \in {"submit", "approve", "reject"} /\ "user" \in {"user", "system"}
        OBVIOUS
      <4> HIDE DEF TypeOK, WriteEntry
      <4> QED
        BY <1>1, <1>2, <4>1, <4>2, WrittenEntry
    <3>2. status' \in [Rules -> RuleStatus]
      BY <1>1, <1>2, <2>2, WrittenStatus DEF ReplicaInv
    <3>3. approved_at' \in [Rules -> Days \cup {NoTime}]
      BY <2>2 DEF ReplicaInv, TypeOK
    <3> QED
      BY <3>1, <3>2, <3>3
  <2> QED
    BY <2>1, <2>2 DEF CommitDecision
<1>8. TypeOK'
  BY <1>6, <1>7 DEF CommitDecision, ReplicaInv, TypeOK
<1>9. \A k \in DOMAIN approvals[r] :
        /\ k \in DOMAIN approvals'[r]
        /\ approvals[r][k].status # "pending" => approvals'[r][k].status # "pending"
  BY <1>2, <1>4
<1>10. op # "submit"
  OBVIOUS
<1>11. Len(approvals'[r]) = Len(approvals[r]) + (IF op = "submit" THEN 2 ELSE 0)
  <2>1. Len(approvals'[r]) = Len(approvals[r]) + 0
    BY <1>5
  <2> QED
    BY <1>10, <2>1, Zenon
<1>12. Commits(r, op)
  <2>1. \A q \in Rules \ {r} : approvals'[q] = approvals[q] /\ audit'[q] = audit[q]
    BY <1>3, <1>7
  <2>2. \/ audit'[r] = audit[r] /\ op # "submit"
        \/ \E e \in AuditEntry : e.action = op /\ audit'[r] = Append(audit[r], e)
    BY <1>7, <1>10
  <2> QED
    BY <1>9, <1>11, <2>1, <2>2, Zenon DEF Commits
<1> QED
  BY <1>8, <1>12

LEMMA CommitSweepStep ==
  ASSUME ReplicaInv, NEW s \in Sessions, CommitSweep(s)
  PROVE  TypeOK' /\ req[s].rule \in Rules /\ Commits(req[s].rule, "approve")
<1> PICK r : r = req[s].rule
  OBVIOUS
<1>1. r \in Rules
  BY DEF ReplicaInv, Loaded, CommitSweep
<1> DEFINE closed == [i \in DOMAIN approvals[r] |->
                        IF i \in req[s].open
                          THEN [approvals[r][i] EXCEPT !.status = "approved"]
                          ELSE approvals[r][i]]
<1>2. /\ approvals' = [approvals EXCEPT ![r] = closed]
      /\ WriteStatus(r, "pending_approval", "active")
      /\ approved_at' = [approved_at EXCEPT ![r] = today]
      /\ WriteEntry(r, "approve", "pending_approval", "active", "system")
      /\ UNCHANGED <<is_active, workload, submitted_at, today>>
  BY DEF CommitSweep
<1>3. /\ approvals[r] \in Seq(ApprovalRecord) /\ DOMAIN approvals[r] = 1..Len(approvals[r])
      /\ Len(approvals[r]) \in Nat
      /\ \A i \in DOMAIN approvals[r] : approvals[r][i] \in ApprovalRecord
  BY <1>1, LenProperties, ElementOfSeq DEF ReplicaInv, TypeOK
<1>4. \A i \in DOMAIN approvals[r] :
        [approvals[r][i] EXCEPT !.status = "approved"] \in ApprovalRecord
  BY <1>3 DEF ApprovalRecord, ApprovalStatus
<1>5. closed \in [1..Len(approvals[r]) -> ApprovalRecord]
  BY <1>3, <1>4
<1>6. closed \in Seq(ApprovalRecord)
  BY <1>3, <1>5, SeqDef
<1>7. Len(closed) = Len(approvals[r]) + 0
  BY <1>3, <1>5, <1>6, LenProperties
<1>8. \A i \in DOMAIN approvals[r] :
        i \in DOMAIN closed
        /\ (approvals[r][i].status # "pending" => closed[i].status # "pending")
  BY <1>3 DEF ApprovalRecord
<1> HIDE DEF closed
<1>9. /\ approvals' \in [Rules -> Seq(ApprovalRecord)]
      /\ approvals'[r] = closed
      /\ \A q \in Rules \ {r} : approvals'[q] = approvals[q]
  BY <1>1, <1>2, <1>6 DEF ReplicaInv, TypeOK
<1>10. "pending_approval" \in RuleStatus /\ "active" \in RuleStatus
  BY DEF RuleStatus
<1>11. /\ audit' \in [Rules -> Seq(AuditEntry)]
       /\ \A q \in Rules \ {r} : audit'[q] = audit[q]
       /\ \E e \in AuditEntry : e.action = "approve" /\ audit'[r] = Append(audit[r], e)
  BY <1>1, <1>2, <1>10, WrittenEntry DEF ReplicaInv
<1>12. status' \in [Rules -> RuleStatus]
  BY <1>1, <1>2, <1>10, WrittenStatus DEF ReplicaInv
<1>13. approved_at' \in [Rules -> Days \cup {NoTime}]
  BY <1>2 DEF ReplicaInv, TypeOK
<1>14. TypeOK'
  BY <1>2, <1>9, <1>11, <1>12, <1>13 DEF ReplicaInv, TypeOK
<1>15. Commits(r, "approve")
  BY <1>7, <1>8, <1>9, <1>11, Zenon DEF Commits
<1> QED
  BY <1>1, <1>14, <1>15

LEMMA CommitArchiveStep ==
  ASSUME ReplicaInv, NEW s \in Sessions, CommitArchive(s)
  PROVE  TypeOK' /\ UNCHANGED <<approvals, audit>>
<1>1. req[s].rule \in Rules
  BY DEF ReplicaInv, Loaded, CommitArchive
<1>2. status' \in [Rules -> RuleStatus]
  BY <1>1, WrittenStatus DEF CommitArchive, ReplicaInv, RuleStatus
<1>3. is_active' \in [Rules -> BOOLEAN]
  BY DEF CommitArchive, ReplicaInv, TypeOK
<1> QED
  BY <1>2, <1>3 DEF CommitArchive, ReplicaInv, TypeOK

\* Every step commits for one rule, or leaves all records and rows alone.
LEMMA ReplicaSteps ==
  ASSUME ReplicaInv, [RNext]_rvars
  PROVE  /\ TypeOK'
         /\ \/ UNCHANGED <<approvals, audit>>
            \/ \E r \in Rules, action \in {"submit", "approve", "reject"} : Commits(r, action)
<1>1. ASSUME NEW s \in Sessions, CommitSubmit(s)
      PROVE  TypeOK' /\ \E r \in Rules : Commits(r, "submit")
  BY <1>1, CommitSubmitStep DEF ReplicaInv, Loaded, CommitSubmit
<1>2. ASSUME NEW s \in Sessions, CommitApprove(s) \/ CommitReject(s)
      PROVE  TypeOK' /\ \E r \in Rules, op \in {"approve", "reject"} : Commits(r, op)
  <2>1. req[s].rule \in Rules
    BY <1>2 DEF ReplicaInv, Loaded, CommitApprove, CommitReject, CommitDecision
  <2>2. CASE CommitApprove(s)
    BY <2>1, <2>2, CommitDecisionStep DEF CommitApprove
  <2>3. CASE CommitReject(s)
    BY <2>1, <2>3, CommitDecisionStep DEF CommitReject
  <2> QED
    BY <1>2, <2>2, <2>3
<1>3. ASSUME NEW s \in Sessions, CommitSweep(s)
      PROVE  TypeOK' /\ \E r \in Rules : Commits(r, "approve")
  BY <1>3, CommitSweepStep
<1>4. ASSUME NEW s \in Sessions, CommitArchive(s)
      PROVE  TypeOK' /\ UNCHANGED <<approvals, audit>>
  BY <1>4, CommitArchiveStep
<1>5. CASE UNCHANGED vars
  BY <1>5 DEF vars, ReplicaInv, TypeOK
<1>6. CASE Midnight
  <2>1. today' \in Days
    BY <1>6, ConstantsAssumption DEF Midnight, NextDay, ReplicaInv, TypeOK, Days
  <2> QED
    BY <1>6, <2>1 DEF Midnight, NextDay, ruleVars, ReplicaInv, TypeOK
<1> QED
  BY <1>1, <1>2, <1>3, <1>4, <1>5, <1>6 DEF RNext, ReadForSubmit, ReadRecord, ReadForArchive,
     ReadAllRecords, ReadRule, SelectOverdue, ReadPending, Abort, rvars

LEMMA ReplicaNext ==
  ASSUME ReplicaInv, [RNext]_rvars
  PROVE  ReplicaInv'
<1>0. TypeOK' /\ TypeOK
  BY ReplicaSteps DEF ReplicaInv
<1>1. \A r \in Rules : \A i \in DOMAIN approvals[r] : i \in DOMAIN approvals'[r]
  BY ReplicaSteps DEF Commits
<1>2. ASSUME NEW t \in Sessions, req'[t] = req[t] PROVE Loaded(t)'
  BY <1>1, <1>2 DEF ReplicaInv, Loaded
<1>3. ASSUME NEW t \in Sessions, req'[t] = Idle PROVE Loaded(t)'
  BY <1>3 DEF Loaded, Idle
<1>4. ASSUME NEW s \in Sessions, NEW request, Becomes(s, request),
             request = req'[s] => Loaded(s)'
      PROVE  ReplicaInv'
  <2>1. DOMAIN req' = Sessions /\ req'[s] = request
        /\ \A t \in Sessions \ {s} : req'[t] = req[t]
    BY <1>4 DEF Becomes, ReplicaInv
  <2>2. \A t \in Sessions : Loaded(t)'
    BY <1>2, <1>4, <2>1
  <2> QED
    BY <1>0, <2>1, <2>2 DEF ReplicaInv
<1>5. ASSUME NEW s \in Sessions, NEW u \in Users, NEW r \in Rules, ReadForSubmit(s, u, r)
      PROVE  ReplicaInv'
  <2>1. PICK a \in Users \cup {Unassigned}, b \in Users \cup {Unassigned} :
          Becomes(s, [op |-> "submit", rule |-> r, loaded |-> status[r],
                      round |-> <<NewRecord(SECURITY_ROLE, a), NewRecord(WORKLOAD_ROLE, b)>>])
    BY <1>5 DEF ReadForSubmit, Approvers, WorkloadUsers
  <2>2. status[r] \in RuleStatus
    BY <1>0 DEF TypeOK
  <2>3. ASSUME req'[s] = [op |-> "submit", rule |-> r, loaded |-> status[r],
                 round |-> <<NewRecord(SECURITY_ROLE, a), NewRecord(WORKLOAD_ROLE, b)>>]
        PROVE  Loaded(s)'
    BY <2>2, <2>3 DEF Loaded, NewRecord
  <2> QED
    BY <1>4, <2>1, <2>3
<1>6. ASSUME NEW s \in Sessions, NEW u \in Users, NEW r \in Rules, NEW i \in DOMAIN approvals[r],
             NEW op \in {"approve", "reject"}, ReadRecord(s, u, r, i, op)
      PROVE  ReplicaInv'
  <2>1. Becomes(s, [op |-> op, at |-> "record", rule |-> r, record |-> i])
    BY <1>6 DEF ReadRecord
  <2>2. ASSUME req'[s] = [op |-> op, at |-> "record", rule |-> r, record |-> i]
        PROVE  Loaded(s)'
    BY <1>1, <2>2 DEF Loaded
  <2> QED
    BY <1>4, <2>1, <2>2
<1>7. ASSUME NEW s \in Sessions, NEW u \in Users, NEW r \in Rules, ReadForArchive(s, u, r)
      PROVE  ReplicaInv'
  <2>1. Becomes(s, [op |-> "archive", rule |-> r, loaded |-> status[r]])
    BY <1>7 DEF ReadForArchive
  <2>2. status[r] \in RuleStatus
    BY <1>0 DEF TypeOK
  <2>3. ASSUME req'[s] = [op |-> "archive", rule |-> r, loaded |-> status[r]]
        PROVE  Loaded(s)'
    BY <2>2, <2>3 DEF Loaded
  <2> QED
    BY <1>4, <2>1, <2>3
<1>8. ASSUME NEW s \in Sessions, ReadAllRecords(s) PROVE ReplicaInv'
  <2>1. PICK complete : Becomes(s, [op |-> "approve", at |-> "all_records", rule |-> req[s].rule,
                                    record |-> req[s].record, complete |-> complete])
    BY <1>8 DEF ReadAllRecords
  <2>2. req[s].rule \in Rules /\ req[s].record \in DOMAIN approvals[req[s].rule]
    BY <1>8 DEF ReadAllRecords, ReplicaInv, Loaded
  <2>3. PICK r, i : r = req[s].rule /\ i = req[s].record /\ i \in DOMAIN approvals'[r]
    BY <1>1, <2>2
  <2>4. ASSUME req'[s] = [op |-> "approve", at |-> "all_records", rule |-> r,
                          record |-> i, complete |-> complete]
        PROVE  Loaded(s)'
    BY <2>2, <2>3, <2>4 DEF Loaded
  <2> QED
    BY <1>4, <2>1, <2>3, <2>4
<1>9. ASSUME NEW s \in Sessions, ReadRule(s) PROVE ReplicaInv'
  <2>1. PICK r, i, op, loaded : /\ r = req[s].rule /\ i = req[s].record
                                /\ op = req[s].op /\ loaded = status[r]
    OBVIOUS
  <2>2. PICK decides : Becomes(s, [op |-> op, at |-> "rule", rule |-> r, record |-> i,
                                   decides |-> decides, loaded |-> loaded])
    BY <1>9, <2>1 DEF ReadRule
  <2>3. op \in {"approve", "reject"} /\ r \in Rules /\ i \in DOMAIN approvals[r]
    BY <1>9, <2>1 DEF ReadRule, ReplicaInv, Loaded
  <2>4. loaded \in RuleStatus /\ i \in DOMAIN approvals'[r]
    BY <1>0, <1>1, <2>1, <2>3 DEF TypeOK
  <2>5. ASSUME req'[s] = [op |-> op, at |-> "rule", rule |-> r, record |-> i,
                          decides |-> decides, loaded |-> loaded]
        PROVE  Loaded(s)'
    BY <2>3, <2>4, <2>5 DEF Loaded
  <2> QED
    BY <1>4, <2>2, <2>5
<1>10. ASSUME NEW s \in Sessions, NEW todo \in SUBSET Rules,
              Becomes(s, [op |-> "sweep", at |-> "rules", todo |-> todo])
       PROVE  ReplicaInv'
  <2>1. ASSUME req'[s] = [op |-> "sweep", at |-> "rules", todo |-> todo]
        PROVE  Loaded(s)'
    BY <2>1 DEF Loaded
  <2> QED
    BY <1>4, <1>10, <2>1
<1>11. ASSUME NEW s \in Sessions, SelectOverdue(s) PROVE ReplicaInv'
  BY <1>10, <1>11 DEF SelectOverdue, Overdue
<1>12. ASSUME NEW s \in Sessions, NEW r \in Rules, ReadPending(s, r) PROVE ReplicaInv'
  <2>1. PICK todo, open : /\ todo = req[s].todo
          /\ Becomes(s, [op |-> "sweep", at |-> "records", todo |-> todo, rule |-> r, open |-> open])
    BY <1>12 DEF ReadPending
  <2>2. todo \in SUBSET Rules
    BY <1>12, <2>1 DEF ReadPending, ReplicaInv, Loaded
  <2>3. ASSUME req'[s] = [op |-> "sweep", at |-> "records", todo |-> todo, rule |-> r, open |-> open]
        PROVE  Loaded(s)'
    BY <2>2, <2>3 DEF Loaded
  <2> QED
    BY <1>4, <2>1, <2>3
<1>13. ASSUME NEW s \in Sessions, Becomes(s, Idle) PROVE ReplicaInv'
  BY <1>3, <1>4, <1>13
<1>14. ASSUME NEW s \in Sessions, CommitSweep(s) PROVE ReplicaInv'
  <2>1. PICK left : /\ left = req[s].todo \ {req[s].rule}
                    /\ Becomes(s, IF left = {} THEN Idle
                                  ELSE [op |-> "sweep", at |-> "rules", todo |-> left])
    BY <1>14 DEF CommitSweep
  <2>2. left \in SUBSET Rules
    BY <1>14, <2>1 DEF CommitSweep, ReplicaInv, Loaded
  <2> QED
    BY <1>10, <1>13, <2>1, <2>2
<1>15. CASE UNCHANGED req
  BY <1>0, <1>2, <1>15 DEF ReplicaInv
<1> QED
  BY <1>5, <1>6, <1>7, <1>8, <1>9, <1>11, <1>12, <1>13, <1>14, <1>15
     DEF RNext, CommitSubmit, CommitApprove, CommitReject, CommitDecision, CommitArchive,
         Abort, Midnight, rvars

LEMMA ReplicaInit == RInit => ReplicaInv
<1> SUFFICES ASSUME RInit PROVE ReplicaInv
  OBVIOUS
<1>1. TypeOK
  BY InitReview DEF RInit, ReviewInv
<1>2. DOMAIN req = Sessions /\ \A s \in Sessions : req[s].op = "idle"
  BY DEF RInit, Idle
<1> QED
  BY <1>1, <1>2 DEF ReplicaInv, Loaded

\* Records and submissions of one rule add up.
Whole(r) ==
  Len(approvals[r]) = Len(get_required_approvers) * CountOf(audit[r], "submit")

LEMMA WholeNext ==
  ASSUME ReplicaInv, [RNext]_rvars, NEW r \in Rules, Whole(r)
  PROVE  Whole(r)'
<1>0. Len(get_required_approvers) = 2
  BY DEF get_required_approvers
<1>1. audit[r] \in Seq(AuditEntry) /\ TypeOK
  BY DEF ReplicaInv, TypeOK
<1> PICK submits \in Nat : submits = CountOf(audit[r], "submit")
  BY <1>1, FiniteRows
<1>2. Len(approvals[r]) = 2 * submits
  BY <1>0 DEF Whole
<1>3. CountOf(audit[r], "submit")' = CountOf(audit'[r], "submit")
  BY DEF CountOf, RowsOf
<1>4. CASE approvals'[r] = approvals[r] /\ audit'[r] = audit[r]
  <2>1. CountOf(audit'[r], "submit") = submits
    BY <1>4
  <2> QED
    BY <1>0, <1>2, <1>3, <1>4, <2>1 DEF Whole
<1>5. ASSUME NEW action \in {"submit", "approve", "reject"}, Commits(r, action)
      PROVE  Whole(r)'
  <2>1. CountOf(audit'[r], "submit") = submits + (IF action = "submit" THEN 1 ELSE 0)
    <3>1. CASE audit'[r] = audit[r] /\ action # "submit"
      <4>1. CountOf(audit'[r], "submit") = submits + 0
        BY <3>1
      <4> QED
        BY <3>1, <4>1
    <3>2. ASSUME NEW e \in AuditEntry, e.action = action, audit'[r] = Append(audit[r], e)
          PROVE  CountOf(audit'[r], "submit") = submits + (IF action = "submit" THEN 1 ELSE 0)
      BY <1>1, <3>2, CountAppended
    <3> QED
      BY <1>5, <3>1, <3>2 DEF Commits
  <2>2. Len(approvals'[r]) = Len(approvals[r]) + (IF action = "submit" THEN 2 ELSE 0)
    BY <1>5 DEF Commits
  <2>3. CASE action = "submit"
    BY <1>0, <1>2, <1>3, <2>1, <2>2, <2>3 DEF Whole
  <2>4. CASE action # "submit"
    BY <1>0, <1>2, <1>3, <2>1, <2>2, <2>4 DEF Whole
  <2> QED
    BY <2>3, <2>4
<1> QED
  BY <1>4, <1>5, ReplicaSteps DEF Commits

LEMMA WholeInit ==
  ASSUME RInit, NEW r \in Rules
  PROVE  Whole(r)
<1>1. approvals[r] = << >> /\ audit[r] = << >>
  BY DEF RInit, Init
<1>2. RowsOf(audit[r], "submit") = {}
  BY <1>1 DEF RowsOf
<1>3. CountOf(audit[r], "submit") = 0
  BY <1>2, FS_EmptySet DEF CountOf
<1>4. Len(approvals[r]) = 0 /\ Len(get_required_approvers) = 2 /\ 0 = 2 * 0
  BY <1>1 DEF get_required_approvers
<1> QED
  BY <1>3, <1>4 DEF Whole

LEMMA ReplicaInvariant == RSpec => [](ReplicaInv /\ \A r \in Rules : Whole(r))
<1>1. RInit => ReplicaInv /\ \A r \in Rules : Whole(r)
  BY ReplicaInit, WholeInit
<1>2. (ReplicaInv /\ \A r \in Rules : Whole(r)) /\ [RNext]_rvars =>
        (ReplicaInv /\ \A r \in Rules : Whole(r))'
  BY ReplicaNext, WholeNext
<1> QED
  BY <1>1, <1>2, PTL DEF RSpec

\* Overlapping requests never store half a submission, however many there are.
THEOREM SubmissionsStayWhole == RSpec => []SubmissionsAreWhole
<1>1. (\A r \in Rules : Whole(r)) => SubmissionsAreWhole
  BY DEF Whole, CountOf, RowsOf, SubmissionsAreWhole
<1> QED
  BY <1>1, ReplicaInvariant, PTL

\* Overlapping requests never lose a record nor open a decided one again.
THEOREM RecordsStayDecided == RSpec => NoRecordReopens
<1>1. ReplicaInv /\ [RNext]_rvars =>
        [\A r \in Rules : \A i \in DOMAIN approvals[r] :
           /\ i \in DOMAIN approvals'[r]
           /\ approvals[r][i].status # "pending" =>
                approvals'[r][i].status # "pending"]_rvars
  BY ReplicaSteps DEF Commits
<1> QED
  BY <1>1, ReplicaInvariant, PTL DEF RSpec, NoRecordReopens

\* The status of a rule under review, rejected or in force is the one some audit
\* row gave it, or the rule came in force; a request that loaded a rejected rule
\* is about one that has a row.
HasRow(r, new) == \E k \in DOMAIN audit[r] : audit[r][k].new = new

Signed(r) ==
  /\ status[r] \in {"pending_approval", "rejected"} => HasRow(r, status[r])
  /\ status[r] = "active" => audit[r] = << >> \/ HasRow(r, "active")

Remembers(s) ==
  /\ req[s].op = "submit" => req[s].loaded \in {"draft", "rejected"}
  /\ req[s].op \in {"approve", "reject"} /\ req[s].at = "rule" /\ req[s].loaded = "rejected" =>
       audit[req[s].rule] # << >>

SignedInv == (\A r \in Rules : Signed(r)) /\ (\A s \in Sessions : Remembers(s))

LEMMA RowsStay ==
  ASSUME TypeOK, NEW r \in Rules, NEW e \in AuditEntry, audit'[r] = Append(audit[r], e)
  PROVE  /\ audit'[r] # << >>
         /\ HasRow(r, e.new)'
         /\ \A new : HasRow(r, new) => \E k \in DOMAIN audit'[r] : audit'[r][k].new = new
<1> DEFINE n == Len(audit[r])
<1>1. audit[r] \in Seq(AuditEntry)
  BY DEF TypeOK
<1>2. audit'[r] # << >> /\ n + 1 \in DOMAIN audit'[r] /\ audit'[r][n + 1] = e
  BY <1>1
<1>3. \A k \in DOMAIN audit[r] : k \in DOMAIN audit'[r] /\ audit'[r][k] = audit[r][k]
  BY <1>1
<1>4. \E k \in DOMAIN audit'[r] : audit'[r][k].new = e.new
  BY <1>2
<1> QED
  BY <1>2, <1>3, <1>4 DEF HasRow

LEMMA SignedWrite ==
  ASSUME TypeOK, NEW r \in Rules, Signed(r), NEW action \in {"submit", "approve", "reject"},
         NEW loaded \in RuleStatus, NEW new \in {"pending_approval", "active", "rejected"},
         NEW by \in {"user", "system"},
         WriteStatus(r, loaded, new), WriteEntry(r, action, loaded, new, by),
         loaded = new /\ new # "active" => audit[r] # << >>
  PROVE  \A q \in Rules : Signed(q) => Signed(q)'
<1> PICK e : e = [action |-> action, old |-> loaded, new |-> new, by |-> by]
  OBVIOUS
<1>1. e \in AuditEntry /\ e.new = new
  BY DEF AuditEntry, RuleStatus
<1>2. audit'[r] = Append(audit[r], e) /\ \A q \in Rules \ {r} : audit'[q] = audit[q]
  BY DEF WriteEntry, TypeOK
<1>3. /\ \A q \in Rules \ {r} : status'[q] = status[q]
      /\ status'[r] = new \/ (loaded = new /\ status'[r] = status[r])
  BY DEF WriteStatus, TypeOK
<1>4. /\ audit'[r] # << >>
      /\ \E k \in DOMAIN audit'[r] : audit'[r][k].new = new
      /\ \A old : HasRow(r, old) => \E k \in DOMAIN audit'[r] : audit'[r][k].new = old
  BY <1>1, <1>2, RowsStay DEF HasRow
<1>5. Signed(r)'
  <2>1. CASE status'[r] = new
    BY <1>4, <2>1 DEF Signed, HasRow
  <2>2. CASE loaded = new /\ status'[r] = status[r]
    <3>1. CASE status[r] = "active"
      <4>1. new = "active" \/ HasRow(r, "active")
        BY <2>2, <3>1 DEF Signed
      <4> QED
        BY <1>4, <2>2, <3>1, <4>1 DEF Signed, HasRow
    <3>2. CASE status[r] # "active"
      <4>1. status[r] \in {"pending_approval", "rejected"} => HasRow(r, status[r])
        BY DEF Signed
      <4> QED
        BY <1>4, <2>2, <3>2, <4>1 DEF Signed, HasRow
    <3> QED
      BY <3>1, <3>2
  <2> QED
    BY <1>3, <2>1, <2>2
<1>6. ASSUME NEW q \in Rules \ {r}, Signed(q) PROVE Signed(q)'
  BY <1>2, <1>3, <1>6 DEF Signed, HasRow
<1> QED
  BY <1>5, <1>6

LEMMA SignedRules ==
  ASSUME ReplicaInv, SignedInv, [RNext]_rvars
  PROVE  \A r \in Rules : Signed(r)'
<1>0. TypeOK /\ \A r \in Rules : Signed(r)
  BY DEF ReplicaInv, SignedInv
<1>1. ASSUME NEW r \in Rules, audit' = audit, status'[r] \in {status[r], "archived"}
      PROVE  Signed(r)'
  BY <1>0, <1>1 DEF Signed, HasRow
<1>2. ASSUME NEW s \in Sessions, CommitSubmit(s) PROVE \A r \in Rules : Signed(r)'
  <2>1. PICK r \in Rules : r = req[s].rule
    BY <1>2 DEF CommitSubmit, ReplicaInv, Loaded
  <2>2. PICK loaded \in RuleStatus : loaded = req[s].loaded /\ loaded # "pending_approval"
    BY <1>2 DEF CommitSubmit, ReplicaInv, Loaded, SignedInv, Remembers
  <2>3. /\ WriteStatus(r, loaded, "pending_approval")
        /\ WriteEntry(r, "submit", loaded, "pending_approval", "user")
    BY <1>2, <2>1, <2>2 DEF CommitSubmit
  <2> QED
    BY <1>0, <2>2, <2>3, SignedWrite
<1>3. ASSUME NEW s \in Sessions, CommitApprove(s) \/ CommitReject(s)
      PROVE  \A r \in Rules : Signed(r)'
  <2>1. PICK r \in Rules : r = req[s].rule
    BY <1>3 DEF CommitApprove, CommitReject, CommitDecision, ReplicaInv, Loaded
  <2>2. PICK loaded \in RuleStatus : loaded = req[s].loaded
    BY <1>3 DEF CommitApprove, CommitReject, CommitDecision, ReplicaInv, Loaded
  <2>3. loaded = "rejected" => audit[r] # << >>
    BY <1>3, <2>1, <2>2 DEF CommitApprove, CommitReject, CommitDecision, SignedInv, Remembers
  <2>4. CASE UNCHANGED <<status, audit>>
    BY <1>1, <2>4
  <2>5. CASE /\ WriteStatus(r, loaded, "active")
             /\ WriteEntry(r, "approve", loaded, "active", "user")
    BY <1>0, <2>5, SignedWrite
  <2>6. CASE /\ WriteStatus(r, loaded, "rejected")
             /\ WriteEntry(r, "reject", loaded, "rejected", "user")
    BY <1>0, <2>3, <2>6, SignedWrite
  <2> QED
    BY <1>3, <2>1, <2>2, <2>4, <2>5, <2>6 DEF CommitApprove, CommitReject, CommitDecision
<1>4. ASSUME NEW s \in Sessions, CommitSweep(s) PROVE \A r \in Rules : Signed(r)'
  <2>1. PICK r \in Rules : r = req[s].rule
    BY <1>4 DEF CommitSweep, ReplicaInv, Loaded
  <2>2. /\ WriteStatus(r, "pending_approval", "active")
        /\ WriteEntry(r, "approve", "pending_approval", "active", "system")
    BY <1>4, <2>1 DEF CommitSweep
  <2>3. "pending_approval" \in RuleStatus
    BY DEF RuleStatus
  <2> QED
    BY <1>0, <2>2, <2>3, SignedWrite
<1>5. ASSUME NEW s \in Sessions, CommitArchive(s) PROVE \A r \in Rules : Signed(r)'
  <2>1. audit' = audit /\ \A r \in Rules : status'[r] \in {status[r], "archived"}
    BY <1>0, <1>5 DEF CommitArchive, WriteStatus, TypeOK
  <2> QED
    BY <1>1, <2>1
<1>6. CASE UNCHANGED <<status, audit>>
  BY <1>1, <1>6
<1> QED
  BY <1>2, <1>3, <1>4, <1>5, <1>6 DEF RNext, ReadForSubmit, ReadRecord, ReadForArchive,
     ReadAllRecords, ReadRule, SelectOverdue, ReadPending, Abort, Midnight, NextDay, ruleVars,
     vars, rvars

LEMMA RequestsRemember ==
  ASSUME ReplicaInv, SignedInv, [RNext]_rvars
  PROVE  \A s \in Sessions : Remembers(s)'
<1>0. \A r \in Rules : audit[r] # << >> => audit'[r] # << >>
  BY ReplicaSteps, RowsStay DEF ReplicaInv, Commits
<1>1. ASSUME NEW s \in Sessions, req'[s] = req[s] PROVE Remembers(s)'
  <2>1. req[s].op \in {"approve", "reject"} => req[s].rule \in Rules
    BY DEF ReplicaInv, Loaded
  <2> QED
    BY <1>0, <1>1, <2>1 DEF SignedInv, Remembers
<1>2. ASSUME NEW s \in Sessions, NEW request, Becomes(s, request),
             req'[s] = request => Remembers(s)'
      PROVE  \A t \in Sessions : Remembers(t)'
  <2>1. req'[s] = request /\ \A t \in Sessions \ {s} : req'[t] = req[t]
    BY <1>2 DEF Becomes, ReplicaInv
  <2> QED
    BY <1>1, <1>2, <2>1
<1>3. ASSUME NEW s \in Sessions, NEW request, Becomes(s, request),
             \/ request.op \in {"archive", "sweep", "idle"}
             \/ request.op \in {"approve", "reject"} /\ request.at # "rule"
      PROVE  \A t \in Sessions : Remembers(t)'
  <2>1. ASSUME req'[s] = request PROVE Remembers(s)'
    BY <1>3, <2>1 DEF Remembers
  <2> QED
    BY <1>2, <1>3, <2>1
<1>4. ASSUME NEW s \in Sessions, NEW u \in Users, NEW r \in Rules, ReadForSubmit(s, u, r)
      PROVE  \A t \in Sessions : Remembers(t)'
  <2>1. PICK round : Becomes(s, [op |-> "submit", rule |-> r, loaded |-> status[r],
                                 round |-> round])
    BY <1>4 DEF ReadForSubmit
  <2>2. ASSUME req'[s] = [op |-> "submit", rule |-> r, loaded |-> status[r], round |-> round]
        PROVE  Remembers(s)'
    BY <1>4, <2>2 DEF ReadForSubmit, Remembers
  <2> QED
    BY <1>2, <2>1, <2>2
<1>5. ASSUME NEW s \in Sessions, ReadRule(s) PROVE \A t \in Sessions : Remembers(t)'
  <2>1. PICK r \in Rules : r = req[s].rule
    BY <1>5 DEF ReadRule, ReplicaInv, Loaded
  <2>2. PICK request : /\ request.op = req[s].op /\ request.rule = r
                       /\ request.loaded = status[r] /\ Becomes(s, request)
    BY <1>5, <2>1 DEF ReadRule
  <2>3. status[r] = "rejected" => audit[r] # << >>
    BY DEF SignedInv, Signed, HasRow
  <2>4. audit' = audit
    BY <1>5 DEF ReadRule, vars
  <2>5. request.op # "submit"
    BY <1>5, <2>2 DEF ReadRule
  <2>6. ASSUME req'[s] = request PROVE Remembers(s)'
    BY <2>2, <2>3, <2>4, <2>5, <2>6 DEF Remembers
  <2> QED
    BY <1>2, <2>2, <2>6
<1>6. ASSUME NEW s \in Sessions, CommitSweep(s) PROVE \A t \in Sessions : Remembers(t)'
  <2>1. PICK request : request.op \in {"idle", "sweep"} /\ Becomes(s, request)
    BY <1>6 DEF CommitSweep, Idle
  <2> QED
    BY <1>3, <2>1
<1>7. ASSUME NEW s \in Sessions,
             \/ \E u \in Users, r \in Rules :
                  \/ \E i \in DOMAIN approvals[r], op \in {"approve", "reject"} :
                       ReadRecord(s, u, r, i, op)
                  \/ ReadForArchive(s, u, r)
             \/ ReadAllRecords(s) \/ SelectOverdue(s) \/ \E r \in Rules : ReadPending(s, r)
             \/ CommitSubmit(s) \/ CommitApprove(s) \/ CommitReject(s) \/ CommitArchive(s)
             \/ Abort(s)
      PROVE  \A t \in Sessions : Remembers(t)'
  <2>1. PICK request :
          /\ \/ request.op \in {"archive", "sweep", "idle"}
             \/ request.op \in {"approve", "reject"} /\ request.at # "rule"
          /\ Becomes(s, request)
    BY <1>7 DEF ReadRecord, ReadForArchive, ReadAllRecords, SelectOverdue, ReadPending,
       CommitSubmit, CommitApprove, CommitReject, CommitDecision, CommitArchive, Abort, Idle
  <2> QED
    BY <1>3, <2>1
<1>8. CASE UNCHANGED req
  BY <1>1, <1>8
<1> QED
  BY <1>4, <1>5, <1>6, <1>7, <1>8 DEF RNext, Midnight, rvars

\* A status reached through the review always has an audit row that gave it,
\* even when overlapping requests write from what they read before.
THEOREM StatusesAreAudited == RSpec => []StatusIsAudited
<1>1. RInit => SignedInv
  <2> SUFFICES ASSUME RInit PROVE SignedInv
    OBVIOUS
  <2>1. \A r \in Rules : audit[r] = << >> /\ status[r] \in {"draft", "active"}
    BY DEF RInit, Init
  <2>2. \A s \in Sessions : req[s].op = "idle"
    BY DEF RInit, Idle
  <2> QED
    BY <2>1, <2>2 DEF SignedInv, Signed, Remembers
<1>2. ReplicaInv /\ SignedInv /\ [RNext]_rvars => SignedInv'
  BY SignedRules, RequestsRemember DEF SignedInv
<1>3. SignedInv => StatusIsAudited
  BY DEF SignedInv, Signed, HasRow, StatusIsAudited
<1> QED
  BY <1>1, <1>2, <1>3, ReplicaInvariant, PTL DEF RSpec

-----------------------------------------------------------------------------
\* Requests that do not overlap

Seen(r, i) == [approvals[r] EXCEPT ![i].status = "approved"]

\* What a request has read is still so when it commits, and would let somebody
\* start the whole handler in that moment.
KnowsSubmit(s, r) ==
  /\ req[s].op = "submit" /\ req[s].rule = r
  /\ req[s].loaded = status[r] /\ status[r] \in {"draft", "rejected"}
  /\ Len(approvals[r]) < Len(get_required_approvers) * MaxRounds
  /\ \E u \in Users : Authenticated(u)
  /\ \E a \in Approvers(r, SECURITY_ROLE), b \in Approvers(r, WORKLOAD_ROLE) :
       req[s].round = <<NewRecord(SECURITY_ROLE, a), NewRecord(WORKLOAD_ROLE, b)>>

KnowsDecision(s, r) ==
  /\ req[s].op \in {"approve", "reject"} /\ req[s].rule = r
  /\ \E u \in Users : OpenTo(u, r, req[s].record)
  /\ req[s].at = "all_records" => (req[s].complete <=> AllApproved(Seen(r, req[s].record)))
  /\ req[s].at = "rule" =>
       /\ req[s].loaded = status[r]
       /\ req[s].decides <=> req[s].op = "reject" \/ AllApproved(Seen(r, req[s].record))

KnowsArchive(s, r) ==
  /\ req[s].op = "archive" /\ req[s].rule = r
  /\ req[s].loaded = status[r]
  /\ \E u \in Users : MayArchive(u)

KnowsSweep(s) ==
  /\ req[s].op = "sweep" /\ req[s].todo \subseteq Overdue
  /\ req[s].at = "records" =>
       /\ req[s].rule \in req[s].todo
       /\ req[s].open = {i \in DOMAIN approvals[req[s].rule] :
                           approvals[req[s].rule][i].status = "pending"}

Knows(s) ==
  \/ req[s] = Idle
  \/ KnowsSweep(s)
  \/ \E r \in Rules : KnowsSubmit(s, r) \/ KnowsDecision(s, r) \/ KnowsArchive(s, r)

Apart == \A s, t \in Sessions : s # t => Touched(s) \cap Touched(t) = {}

AtomicInv ==
  /\ ReviewInv
  /\ DOMAIN req = Sessions
  /\ \A s \in Sessions : Knows(s)
  /\ Apart

\* The rules a request works on, by its kind.
LEMMA TouchedRules ==
  ASSUME NEW s
  PROVE  /\ req[s] = Idle => Touched(s) = {}
         /\ req[s].op = "sweep" => Touched(s) = req[s].todo
         /\ req[s].op \in {"submit", "approve", "reject", "archive"} => Touched(s) = {req[s].rule}
BY DEF Touched, Idle

LEMMA TouchedRulesNext ==
  ASSUME NEW s
  PROVE  /\ req'[s] = Idle => Touched(s)' = {}
         /\ req'[s].op = "sweep" => Touched(s)' = req'[s].todo
         /\ req'[s].op \in {"submit", "approve", "reject", "archive"} =>
              Touched(s)' = {req'[s].rule}
BY DEF Touched, Idle

\* Nothing a request reads of the rule changes.
Still(r) ==
  /\ status'[r] = status[r] /\ approvals'[r] = approvals[r]
  /\ submitted_at'[r] = submitted_at[r]
  /\ workload' = workload /\ today' = today

LEMMA KnowsStill ==
  ASSUME NEW s \in Sessions, Knows(s), req'[s] = req[s], \A r \in Touched(s) : Still(r)
  PROVE  Knows(s)' /\ Touched(s)' = Touched(s)
<1>1. Touched(s)' = Touched(s)
  BY DEF Touched
<1>2. CASE req[s] = Idle
  BY <1>1, <1>2 DEF Knows, Idle
<1>3. CASE KnowsSweep(s)
  <2>1. Touched(s) = req[s].todo
    BY <1>3, TouchedRules DEF KnowsSweep
  <2>2. req[s].todo \subseteq Overdue'
    BY <1>3, <2>1 DEF KnowsSweep, Overdue, Still
  <2>3. KnowsSweep(s)'
    BY <1>3, <2>1, <2>2 DEF KnowsSweep, Still
  <2> QED
    BY <2>3, <1>1 DEF Knows
<1>4. ASSUME NEW r \in Rules, KnowsSubmit(s, r) PROVE Knows(s)'
  <2>1. Still(r)
    BY <1>4, TouchedRules DEF KnowsSubmit
  <2>2. \A role : Approvers(r, role)' = Approvers(r, role)
    BY <2>1 DEF Still, Approvers, WorkloadUsers
  <2>3. KnowsSubmit(s, r)'
    BY <1>4, <2>1, <2>2 DEF KnowsSubmit, Still
  <2> QED
    BY <2>3 DEF Knows
<1>5. ASSUME NEW r \in Rules, KnowsDecision(s, r) PROVE Knows(s)'
  <2>1. Still(r)
    BY <1>5, TouchedRules DEF KnowsDecision
  <2>2. KnowsDecision(s, r)'
    BY <1>5, <2>1 DEF KnowsDecision, Still, OpenTo, Seen
  <2> QED
    BY <2>2 DEF Knows
<1>6. ASSUME NEW r \in Rules, KnowsArchive(s, r) PROVE Knows(s)'
  <2>1. Still(r)
    BY <1>6, TouchedRules DEF KnowsArchive
  <2>2. KnowsArchive(s, r)'
    BY <1>6, <2>1 DEF KnowsArchive, Still
  <2> QED
    BY <2>2 DEF Knows
<1> QED
  BY <1>1, <1>2, <1>3, <1>4, <1>5, <1>6 DEF Knows

\* A step of one request keeps the invariant if it changes only the rules it
\* works on and takes none of another one.
LEMMA OneRequest ==
  ASSUME AtomicInv, ReviewInv', NEW s \in Sessions, NEW request, Becomes(s, request),
         \A r \in Rules \ Touched(s) : Still(r),
         req'[s] = request => Knows(s)',
         \A t \in Sessions \ {s} : Touched(s)' \cap Touched(t) = {}
  PROVE  AtomicInv'
<1>1. /\ DOMAIN req' = Sessions /\ req'[s] = request
      /\ \A t \in Sessions \ {s} : req'[t] = req[t]
  BY DEF AtomicInv, Becomes
<1>2. ASSUME NEW t \in Sessions \ {s} PROVE Knows(t)' /\ Touched(t)' = Touched(t)
  <2>1. Knows(t) /\ Touched(t) \cap Touched(s) = {}
    BY DEF AtomicInv, Apart
  <2>2. Touched(t) \subseteq Rules
    BY <2>1, TouchedRules DEF Knows, KnowsSweep, Overdue, KnowsSubmit, KnowsDecision, KnowsArchive
  <2>3. \A r \in Touched(t) : Still(r)
    BY <2>1, <2>2
  <2> QED
    BY <1>1, <2>1, <2>3, KnowsStill
<1>3. \A t \in Sessions : Knows(t)'
  BY <1>1, <1>2
<1>4. ASSUME NEW t \in Sessions, NEW v \in Sessions, t # v
      PROVE  Touched(t)' \cap Touched(v)' = {}
  <2>1. Touched(t) \cap Touched(v) = {}
    BY <1>4 DEF AtomicInv, Apart
  <2>2. CASE t = s
    <3>1. Touched(v)' = Touched(v) /\ Touched(s)' \cap Touched(v) = {}
      BY <1>2, <1>4, <2>2
    <3> QED
      BY <2>2, <3>1
  <2>3. CASE v = s
    <3>1. Touched(t)' = Touched(t) /\ Touched(s)' \cap Touched(t) = {}
      BY <1>2, <1>4, <2>3
    <3> QED
      BY <2>3, <3>1
  <2>4. CASE t # s /\ v # s
    <3>1. Touched(t)' = Touched(t) /\ Touched(v)' = Touched(v)
      BY <1>2, <2>4
    <3> QED
      BY <2>1, <3>1
  <2> QED
    BY <2>2, <2>3, <2>4
<1>5. Apart'
  BY <1>4 DEF Apart
<1> QED
  BY <1>1, <1>3, <1>5 DEF AtomicInv

\* A step that only reads.
LEMMA ReadRequest ==
  ASSUME AtomicInv, NEW s \in Sessions, NEW request, Becomes(s, request), UNCHANGED vars,
         req'[s] = request => Knows(s)',
         \A t \in Sessions \ {s} : Touched(s)' \cap Touched(t) = {}
  PROVE  AtomicInv'
<1>1. ReviewInv'
  BY NextReview DEF AtomicInv
<1>2. \A r \in Rules \ Touched(s) : Still(r)
  BY DEF vars, Still
<1> QED
  BY <1>1, <1>2, OneRequest

LEMMA StartRequest ==
  ASSUME ~Overlap, AtomicInv, NEW s \in Sessions, NEW rules, NEW request, Free(s, rules),
         Becomes(s, request), UNCHANGED vars,
         req'[s] = request => Knows(s)' /\ Touched(s)' = rules
  PROVE  AtomicInv'
<1>1. req'[s] = request
  BY DEF AtomicInv, Becomes
<1>2. \A t \in Sessions \ {s} : Touched(s)' \cap Touched(t) = {}
  BY <1>1 DEF Free
<1> QED
  BY <1>1, <1>2, ReadRequest

LEMMA GoOn ==
  ASSUME AtomicInv, NEW s \in Sessions, NEW request, Becomes(s, request), UNCHANGED vars,
         req'[s] = request => Knows(s)' /\ Touched(s)' \subseteq Touched(s)
  PROVE  AtomicInv'
<1>1. req'[s] = request
  BY DEF AtomicInv, Becomes
<1>2. \A t \in Sessions \ {s} : Touched(s)' \cap Touched(t) = {}
  BY <1>1 DEF AtomicInv, Apart
<1> QED
  BY <1>1, <1>2, ReadRequest

LEMMA ReadsAtomic ==
  ASSUME ~Overlap, AtomicInv, NEW s \in Sessions,
         \/ \E u \in Users, r \in Rules :
              \/ ReadForSubmit(s, u, r)
              \/ \E i \in DOMAIN approvals[r], op \in {"approve", "reject"} :
                   ReadRecord(s, u, r, i, op)
              \/ ReadForArchive(s, u, r)
         \/ SelectOverdue(s)
  PROVE  AtomicInv'
<1>1. ASSUME NEW u \in Users, NEW r \in Rules, ReadForSubmit(s, u, r) PROVE AtomicInv'
  <2>1. PICK a \in Approvers(r, SECURITY_ROLE), b \in Approvers(r, WORKLOAD_ROLE) :
          Becomes(s, [op |-> "submit", rule |-> r, loaded |-> status[r],
                      round |-> <<NewRecord(SECURITY_ROLE, a), NewRecord(WORKLOAD_ROLE, b)>>])
    BY <1>1 DEF ReadForSubmit
  <2>2. PICK request : request = [op |-> "submit", rule |-> r, loaded |-> status[r],
                      round |-> <<NewRecord(SECURITY_ROLE, a), NewRecord(WORKLOAD_ROLE, b)>>]
    OBVIOUS
  <2>3. /\ request.op = "submit" /\ request.rule = r /\ request.loaded = status[r]
        /\ request.round = <<NewRecord(SECURITY_ROLE, a), NewRecord(WORKLOAD_ROLE, b)>>
    BY <2>2
  <2>4. Free(s, {r}) /\ UNCHANGED vars /\ Authenticated(u) /\ status[r] \in {"draft", "rejected"}
        /\ Len(approvals[r]) < Len(get_required_approvers) * MaxRounds
    BY <1>1 DEF ReadForSubmit
  <2>5. ASSUME req'[s] = request PROVE Knows(s)' /\ Touched(s)' = {r}
    <3>1. \A role : Approvers(r, role)' = Approvers(r, role)
      BY <2>4 DEF vars, Approvers, WorkloadUsers
    <3>2. KnowsSubmit(s, r)'
      BY <2>3, <2>4, <2>5, <3>1 DEF KnowsSubmit, vars
    <3> QED
      BY <2>3, <2>5, <3>2, TouchedRulesNext DEF Knows
  <2> QED
    BY <2>1, <2>2, <2>4, <2>5, StartRequest
<1>2. ASSUME NEW u \in Users, NEW r \in Rules, NEW i \in DOMAIN approvals[r],
             NEW op \in {"approve", "reject"}, ReadRecord(s, u, r, i, op)
      PROVE  AtomicInv'
  <2>1. PICK request : request = [op |-> op, at |-> "record", rule |-> r, record |-> i]
    OBVIOUS
  <2>2. /\ request.op = op /\ request.at = "record" /\ request.rule = r /\ request.record = i
        /\ Free(s, {r}) /\ UNCHANGED vars /\ OpenTo(u, r, i) /\ Becomes(s, request)
    BY <1>2, <2>1 DEF ReadRecord
  <2>3. ASSUME req'[s] = request PROVE Knows(s)' /\ Touched(s)' = {r}
    <3>1. OpenTo(u, r, i)'
      BY <2>2 DEF OpenTo, vars
    <3>2. KnowsDecision(s, r)'
      BY <2>2, <2>3, <3>1 DEF KnowsDecision
    <3> QED
      BY <2>2, <2>3, <3>2, TouchedRulesNext DEF Knows
  <2> QED
    BY <2>2, <2>3, StartRequest
<1>3. ASSUME NEW u \in Users, NEW r \in Rules, ReadForArchive(s, u, r) PROVE AtomicInv'
  <2>1. PICK request : request = [op |-> "archive", rule |-> r, loaded |-> status[r]]
    OBVIOUS
  <2>2. /\ request.op = "archive" /\ request.rule = r /\ request.loaded = status[r]
        /\ Free(s, {r}) /\ UNCHANGED vars /\ MayArchive(u) /\ Becomes(s, request)
    BY <1>3, <2>1 DEF ReadForArchive
  <2>3. ASSUME req'[s] = request PROVE Knows(s)' /\ Touched(s)' = {r}
    <3>1. KnowsArchive(s, r)'
      BY <2>2, <2>3 DEF KnowsArchive, vars
    <3> QED
      BY <2>2, <2>3, <3>1, TouchedRulesNext DEF Knows
  <2> QED
    BY <2>2, <2>3, StartRequest
<1>4. ASSUME SelectOverdue(s) PROVE AtomicInv'
  <2>1. PICK todo, request : /\ todo = Overdue
                             /\ request = [op |-> "sweep", at |-> "rules", todo |-> todo]
    OBVIOUS
  <2>2. /\ request.op = "sweep" /\ request.at = "rules" /\ request.todo = todo
        /\ Free(s, todo) /\ UNCHANGED vars /\ Becomes(s, request)
    BY <1>4, <2>1 DEF SelectOverdue
  <2>3. ASSUME req'[s] = request PROVE Knows(s)' /\ Touched(s)' = todo
    <3>1. Overdue' = todo
      BY <2>1, <2>2 DEF Overdue, vars
    <3>2. KnowsSweep(s)'
      BY <2>2, <2>3, <3>1 DEF KnowsSweep
    <3> QED
      BY <2>2, <2>3, <3>2, TouchedRulesNext DEF Knows
  <2> QED
    BY <2>2, <2>3, StartRequest
<1> QED
  BY <1>1, <1>2, <1>3, <1>4

LEMMA FurtherReadsAtomic ==
  ASSUME AtomicInv, NEW s \in Sessions,
         \/ ReadAllRecords(s) \/ ReadRule(s) \/ Abort(s)
         \/ \E r \in Rules : ReadPending(s, r)
  PROVE  AtomicInv'
<1>0. Knows(s)
  BY DEF AtomicInv
<1>1. ASSUME ReadAllRecords(s) PROVE AtomicInv'
  <2>1. PICK r \in Rules : KnowsDecision(s, r)
    BY <1>0, <1>1 DEF ReadAllRecords, Knows, KnowsSweep, KnowsSubmit, KnowsArchive, Idle
  <2>2. PICK i, request : /\ i = req[s].record
          /\ request = [op |-> "approve", at |-> "all_records", rule |-> r, record |-> i,
                        complete |-> AllApproved(Seen(r, i))]
    OBVIOUS
  <2>3. /\ request.op = "approve" /\ request.at = "all_records" /\ request.rule = r
        /\ request.record = i /\ (request.complete <=> AllApproved(Seen(r, i)))
    BY <2>2
  <2>4. UNCHANGED vars /\ Becomes(s, request) /\ Touched(s) = {r}
    BY <1>1, <2>1, <2>2, TouchedRules DEF ReadAllRecords, KnowsDecision, Seen
  <2>5. ASSUME req'[s] = request PROVE Knows(s)' /\ Touched(s)' \subseteq Touched(s)
    <3>1. KnowsDecision(s, r)'
      BY <2>1, <2>2, <2>3, <2>4, <2>5 DEF KnowsDecision, OpenTo, Seen, vars
    <3> QED
      BY <2>3, <2>4, <2>5, <3>1, TouchedRulesNext DEF Knows
  <2> QED
    BY <2>4, <2>5, GoOn
<1>2. ASSUME ReadRule(s) PROVE AtomicInv'
  <2>1. PICK r \in Rules : KnowsDecision(s, r)
    BY <1>0, <1>2 DEF ReadRule, Knows, KnowsSweep, KnowsSubmit, KnowsArchive, Idle
  <2>2. PICK i, op, request : /\ i = req[s].record /\ op = req[s].op
          /\ request = [op |-> op, at |-> "rule", rule |-> r, record |-> i,
                        decides |-> req[s].op = "reject" \/ req[s].complete, loaded |-> status[r]]
    OBVIOUS
  <2>3. /\ request.op = op /\ request.at = "rule" /\ request.rule = r
        /\ request.record = i /\ request.loaded = status[r]
        /\ request.decides <=> req[s].op = "reject" \/ req[s].complete
    BY <2>2
  <2>4. /\ UNCHANGED vars /\ Becomes(s, request) /\ Touched(s) = {r}
        /\ op \in {"approve", "reject"}
    BY <1>2, <2>1, <2>2, TouchedRules DEF ReadRule, KnowsDecision
  <2>5. request.decides <=> op = "reject" \/ AllApproved(Seen(r, i))
    BY <1>2, <2>1, <2>2, <2>3 DEF ReadRule, KnowsDecision
  <2>6. ASSUME req'[s] = request PROVE Knows(s)' /\ Touched(s)' \subseteq Touched(s)
    <3>1. KnowsDecision(s, r)'
      BY <2>1, <2>2, <2>3, <2>4, <2>5, <2>6 DEF KnowsDecision, OpenTo, Seen, vars
    <3> QED
      BY <2>3, <2>4, <2>6, <3>1, TouchedRulesNext DEF Knows
  <2> QED
    BY <2>4, <2>6, GoOn
<1>3. ASSUME NEW r \in Rules, ReadPending(s, r) PROVE AtomicInv'
  <2>1. KnowsSweep(s) /\ r \in req[s].todo
    BY <1>0, <1>3 DEF ReadPending, Knows, KnowsSubmit, KnowsDecision, KnowsArchive, Idle
  <2>2. PICK todo, request : /\ todo = req[s].todo
          /\ request = [op |-> "sweep", at |-> "records", todo |-> todo, rule |-> r,
                        open |-> {i \in DOMAIN approvals[r] : approvals[r][i].status = "pending"}]
    OBVIOUS
  <2>3. /\ request.op = "sweep" /\ request.at = "records" /\ request.todo = todo
        /\ request.rule = r
        /\ request.open = {i \in DOMAIN approvals[r] : approvals[r][i].status = "pending"}
    BY <2>2
  <2>4. UNCHANGED vars /\ Becomes(s, request) /\ Touched(s) = todo
    BY <1>3, <2>1, <2>2, TouchedRules DEF ReadPending, KnowsSweep
  <2>5. ASSUME req'[s] = request PROVE Knows(s)' /\ Touched(s)' \subseteq Touched(s)
    <3>1. todo \subseteq Overdue'
      BY <2>1, <2>2, <2>4 DEF KnowsSweep, Overdue, vars
    <3>2. KnowsSweep(s)'
      BY <2>1, <2>2, <2>3, <2>4, <2>5, <3>1 DEF KnowsSweep, vars
    <3> QED
      BY <2>3, <2>4, <2>5, <3>2, TouchedRulesNext DEF Knows
  <2> QED
    BY <2>4, <2>5, GoOn
<1>4. ASSUME Abort(s) PROVE AtomicInv'
  <2>1. Becomes(s, Idle) /\ UNCHANGED vars
    BY <1>4 DEF Abort
  <2>2. ASSUME req'[s] = Idle PROVE Knows(s)' /\ Touched(s)' \subseteq Touched(s)
    BY <2>2, TouchedRulesNext DEF Knows, Idle
  <2> QED
    BY <2>1, <2>2, GoOn
<1> QED
  BY <1>1, <1>2, <1>3, <1>4

\* A commit ends the request, or leaves a sweep the rules it has still to do.
LEMMA CommitAtomic ==
  ASSUME AtomicInv, [Next]_vars, NEW s \in Sessions, Becomes(s, Idle),
         \A r \in Rules \ Touched(s) : Still(r)
  PROVE  AtomicInv'
<1>1. ReviewInv'
  BY NextReview DEF AtomicInv
<1>2. req'[s] = Idle
  BY DEF AtomicInv, Becomes
<1>3. Knows(s)' /\ Touched(s)' = {}
  BY <1>2, TouchedRulesNext DEF Knows, Idle
<1> QED
  BY <1>1, <1>3, OneRequest

LEMMA WritesLoaded ==
  ASSUME NEW r \in Rules, NEW new, TypeOK, WriteStatus(r, status[r], new)
  PROVE  status' = [status EXCEPT ![r] = new]
<1>1. CASE status[r] = new
  BY <1>1 DEF WriteStatus, TypeOK
<1>2. CASE status[r] # new
  BY <1>2 DEF WriteStatus
<1> QED
  BY <1>1, <1>2

LEMMA CommitSubmitAtomic ==
  ASSUME AtomicInv, NEW s \in Sessions, CommitSubmit(s)
  PROVE  (\E u \in Users, r \in Rules : submit_for_approval(u, r)) /\ AtomicInv'
<1>0. TypeOK
  BY DEF AtomicInv, ReviewInv
<1>1. PICK r \in Rules : KnowsSubmit(s, r)
  BY DEF AtomicInv, CommitSubmit, Knows, KnowsSweep, KnowsDecision, KnowsArchive, Idle
<1>2. Touched(s) = {r}
  BY <1>1, TouchedRules DEF KnowsSubmit
<1>3. PICK u \in Users : Authenticated(u)
  BY <1>1 DEF KnowsSubmit
<1>4. PICK a \in Approvers(r, SECURITY_ROLE), b \in Approvers(r, WORKLOAD_ROLE) :
        req[s].round = <<NewRecord(SECURITY_ROLE, a), NewRecord(WORKLOAD_ROLE, b)>>
  BY <1>1 DEF KnowsSubmit
<1>5. /\ status[r] \in {"draft", "rejected"}
      /\ Len(approvals[r]) < Len(get_required_approvers) * MaxRounds
      /\ WriteStatus(r, status[r], "pending_approval")
      /\ WriteEntry(r, "submit", status[r], "pending_approval", "user")
      /\ submitted_at' = [submitted_at EXCEPT ![r] = today]
      /\ approvals' = [approvals EXCEPT ![r] =
           @ \o <<NewRecord(SECURITY_ROLE, a), NewRecord(WORKLOAD_ROLE, b)>>]
      /\ Becomes(s, Idle)
      /\ UNCHANGED <<is_active, workload, approved_at, today>>
  BY <1>1, <1>4 DEF CommitSubmit, KnowsSubmit
<1>6. status' = [status EXCEPT ![r] = "pending_approval"]
  BY <1>0, <1>5, WritesLoaded
<1>7. audit' = [audit EXCEPT ![r] = Append(@, NewEntry(r, "submit", "pending_approval", "user"))]
  BY <1>5 DEF WriteEntry, NewEntry
<1>8. submit_for_approval(u, r)
  BY <1>3, <1>5, <1>6, <1>7 DEF submit_for_approval
<1>9. \A q \in Rules \ Touched(s) : Still(q)
  BY <1>0, <1>2, <1>5, <1>6 DEF Still, TypeOK
<1>10. [Next]_vars
  BY <1>8 DEF Next
<1> QED
  BY <1>5, <1>8, <1>9, <1>10, CommitAtomic

LEMMA CommitDecisionAtomic ==
  ASSUME AtomicInv, NEW s \in Sessions, CommitApprove(s) \/ CommitReject(s)
  PROVE  [Next]_vars /\ AtomicInv'
<1>0. TypeOK
  BY DEF AtomicInv, ReviewInv
<1>1. req[s].op \in {"approve", "reject"} /\ req[s].at = "rule"
  BY DEF CommitApprove, CommitReject, CommitDecision
<1>2. PICK r \in Rules : KnowsDecision(s, r)
  BY <1>1 DEF AtomicInv, Knows, KnowsSweep, KnowsSubmit, KnowsArchive, Idle
<1>3. PICK u \in Users, i \in DOMAIN approvals[r] : i = req[s].record /\ OpenTo(u, r, i)
  BY <1>2 DEF KnowsDecision, OpenTo
<1>4. /\ i \in DOMAIN approvals[r] /\ Touched(s) = {r} /\ req[s].rule = r
      /\ req[s].loaded = status[r]
      /\ req[s].decides <=> req[s].op = "reject" \/ AllApproved(Seen(r, i))
  BY <1>1, <1>2, <1>3, TouchedRules DEF KnowsDecision, OpenTo
<1>5. CASE CommitApprove(s)
  <2>1. /\ req[s].op = "approve"
        /\ approvals' = [approvals EXCEPT ![r][i].status = "approved"]
        /\ \/ /\ req[s].decides
              /\ WriteStatus(r, status[r], "active")
              /\ approved_at' = [approved_at EXCEPT ![r] = today]
              /\ WriteEntry(r, "approve", status[r], "active", "user")
           \/ ~req[s].decides /\ UNCHANGED <<status, approved_at, audit>>
        /\ Becomes(s, Idle)
        /\ UNCHANGED <<is_active, workload, submitted_at, today>>
    BY <1>3, <1>4, <1>5 DEF CommitApprove, CommitDecision
  <2>2. approvals'[r] = Seen(r, i)
    BY <1>0, <2>1 DEF TypeOK, Seen
  <2>3. req[s].decides <=> AllApproved(approvals'[r])
    BY <1>4, <2>1, <2>2
  <2>4. approve(u, r, i) /\ (UNCHANGED status \/ status' = [status EXCEPT ![r] = "active"])
    <3>1. CASE ~AllApproved(approvals'[r])
      BY <1>3, <2>1, <2>3, <3>1 DEF approve
    <3>2. CASE AllApproved(approvals'[r])
      <4>1. /\ status' = [status EXCEPT ![r] = "active"]
            /\ Decide(r, "approve", "active")
        BY <1>0, <2>1, <2>3, <3>2, WritesLoaded DEF Decide, WriteEntry, NewEntry
      <4> QED
        BY <1>3, <2>1, <3>2, <4>1 DEF approve
    <3> QED
      BY <3>1, <3>2
  <2>5. [Next]_vars
    BY <1>4, <2>4 DEF Next
  <2>6. \A q \in Rules \ Touched(s) : Still(q)
    BY <1>0, <1>4, <2>1, <2>4 DEF Still, TypeOK
  <2> QED
    BY <2>1, <2>5, <2>6, CommitAtomic
<1>6. CASE CommitReject(s)
  <2>1. req[s].op = "reject"
    BY <1>6 DEF CommitReject, CommitDecision
  <2>2. /\ approvals' = [approvals EXCEPT ![r][i].status = "rejected"]
        /\ WriteStatus(r, status[r], "rejected")
        /\ approved_at' = [approved_at EXCEPT ![r] = today]
        /\ WriteEntry(r, "reject", status[r], "rejected", "user")
        /\ Becomes(s, Idle)
        /\ UNCHANGED <<is_active, workload, submitted_at, today>>
    BY <1>3, <1>4, <1>6, <2>1 DEF CommitReject, CommitDecision
  <2>3. /\ status' = [status EXCEPT ![r] = "rejected"]
        /\ Decide(r, "reject", "rejected")
    BY <1>0, <2>2, WritesLoaded DEF Decide, WriteEntry, NewEntry
  <2>4. reject(u, r, i)
    BY <1>3, <2>2, <2>3 DEF reject
  <2>5. [Next]_vars
    BY <1>4, <2>4 DEF Next
  <2>6. \A q \in Rules \ Touched(s) : Still(q)
    BY <1>0, <1>4, <2>2, <2>3 DEF Still, TypeOK
  <2> QED
    BY <2>2, <2>5, <2>6, CommitAtomic
<1> QED
  BY <1>5, <1>6

LEMMA CommitArchiveAtomic ==
  ASSUME AtomicInv, NEW s \in Sessions, CommitArchive(s)
  PROVE  [Next]_vars /\ AtomicInv'
<1>0. TypeOK
  BY DEF AtomicInv, ReviewInv
<1>1. PICK r \in Rules : KnowsArchive(s, r)
  BY DEF AtomicInv, CommitArchive, Knows, KnowsSweep, KnowsDecision, KnowsSubmit, Idle
<1>2. PICK u \in Users : MayArchive(u)
  BY <1>1 DEF KnowsArchive
<1>3. /\ Touched(s) = {r} /\ Becomes(s, Idle)
      /\ WriteStatus(r, status[r], "archived")
      /\ is_active' = [is_active EXCEPT ![r] = FALSE]
      /\ UNCHANGED <<workload, submitted_at, approved_at, approvals, audit, today>>
  BY <1>1, TouchedRules DEF KnowsArchive, CommitArchive
<1>4. status' = [status EXCEPT ![r] = "archived"]
  BY <1>0, <1>3, WritesLoaded
<1>5. archive_rule(u, r)
  BY <1>2, <1>3, <1>4 DEF archive_rule
<1>6. [Next]_vars
  BY <1>5 DEF Next
<1>7. \A q \in Rules \ Touched(s) : Still(q)
  BY <1>0, <1>3, <1>4 DEF Still, TypeOK
<1> QED
  BY <1>3, <1>6, <1>7, CommitAtomic

LEMMA CommitSweepAtomic ==
  ASSUME AtomicInv, NEW s \in Sessions, CommitSweep(s)
  PROVE  [Next]_vars /\ AtomicInv'
<1>0. TypeOK
  BY DEF AtomicInv, ReviewInv
<1>1. KnowsSweep(s) /\ req[s].at = "records"
  BY DEF AtomicInv, CommitSweep, Knows, KnowsArchive, KnowsDecision, KnowsSubmit, Idle
<1>2. PICK r, todo, open : r = req[s].rule /\ todo = req[s].todo /\ open = req[s].open
  OBVIOUS
<1>3. /\ r \in todo /\ todo \subseteq Overdue /\ Touched(s) = todo
      /\ open = {i \in DOMAIN approvals[r] : approvals[r][i].status = "pending"}
  BY <1>1, <1>2, TouchedRules DEF KnowsSweep
<1>4. r \in Rules /\ status[r] = "pending_approval"
  BY <1>3 DEF Overdue
<1>5. /\ approvals' = [approvals EXCEPT ![r] =
           [i \in DOMAIN @ |-> IF i \in open THEN [@[i] EXCEPT !.status = "approved"] ELSE @[i]]]
      /\ WriteStatus(r, status[r], "active")
      /\ approved_at' = [approved_at EXCEPT ![r] = today]
      /\ WriteEntry(r, "approve", status[r], "active", "system")
      /\ Becomes(s, IF todo \ {r} = {} THEN Idle
                    ELSE [op |-> "sweep", at |-> "rules", todo |-> todo \ {r}])
      /\ UNCHANGED <<is_active, workload, submitted_at, today>>
  BY <1>2, <1>4 DEF CommitSweep
<1>6. approvals' = [approvals EXCEPT ![r] = AutoApproved(approvals[r])]
  BY <1>3, <1>5 DEF AutoApproved
<1>7. status' = [status EXCEPT ![r] = "active"]
  BY <1>0, <1>4, <1>5, WritesLoaded
<1>8. audit' = [audit EXCEPT ![r] = Append(@, NewEntry(r, "approve", "active", "system"))]
  BY <1>5 DEF WriteEntry, NewEntry
<1>9. check_auto_approve({r})
  BY <1>0, <1>4, <1>5, <1>6, <1>7, <1>8 DEF check_auto_approve, TypeOK
<1>10. [Next]_vars
  <2>1. {r} \in SUBSET Overdue
    BY <1>3
  <2> QED
    BY <1>9, <2>1 DEF Next
<1>11. \A q \in Rules \ {r} : Still(q)
  BY <1>0, <1>4, <1>5, <1>6, <1>7 DEF Still, TypeOK
<1>12. \A q \in Rules \ Touched(s) : Still(q)
  BY <1>3, <1>11
<1>13. CASE todo \ {r} = {}
  BY <1>5, <1>10, <1>12, <1>13, CommitAtomic
<1>14. CASE todo \ {r} # {}
  <2>1. PICK left, request : /\ left = todo \ {r}
                             /\ request = [op |-> "sweep", at |-> "rules", todo |-> left]
    OBVIOUS
  <2>2. /\ request.op = "sweep" /\ request.at = "rules" /\ request.todo = left
        /\ Becomes(s, request)
    BY <1>5, <1>14, <2>1
  <2>3. left \subseteq Overdue'
    BY <1>3, <1>11, <2>1 DEF Overdue, Still
  <2>4. req'[s] = request
    BY <2>2 DEF AtomicInv, Becomes
  <2>5. Knows(s)' /\ Touched(s)' = left
    <3>1. KnowsSweep(s)'
      BY <2>2, <2>3, <2>4 DEF KnowsSweep
    <3> QED
      BY <2>2, <2>4, <3>1, TouchedRulesNext DEF Knows
  <2>6. \A t \in Sessions \ {s} : Touched(s)' \cap Touched(t) = {}
    BY <1>3, <2>1, <2>5 DEF AtomicInv, Apart
  <2>7. ReviewInv'
    BY <1>10, NextReview DEF AtomicInv
  <2> QED
    BY <1>10, <1>12, <2>2, <2>5, <2>6, <2>7, OneRequest
<1> QED
  BY <1>13, <1>14

LEMMA AtomicNext ==
  ASSUME ~Overlap, AtomicInv, [RNext]_rvars
  PROVE  [Next]_vars /\ AtomicInv'
<1>1. CASE Midnight
  <2>1. NextDay /\ UNCHANGED req /\ \A s \in Sessions : req[s] = Idle
    BY <1>1 DEF Midnight
  <2>2. ReviewInv' /\ [Next]_vars
    BY <2>1, NextReview DEF AtomicInv, Next
  <2>3. \A s \in Sessions : req'[s] = Idle /\ Touched(s)' = {}
    BY <2>1, TouchedRulesNext
  <2>4. \A s \in Sessions : Knows(s)'
    BY <2>3 DEF Knows, Idle
  <2> QED
    BY <2>1, <2>2, <2>3, <2>4 DEF AtomicInv, Apart
<1>2. CASE UNCHANGED rvars
  <2>1. UNCHANGED vars /\ UNCHANGED req
    BY <1>2 DEF rvars
  <2>2. ReviewInv'
    BY <2>1, NextReview DEF AtomicInv
  <2>3. \A s \in Sessions : Knows(s)' /\ Touched(s)' = Touched(s)
    BY <2>1, KnowsStill DEF AtomicInv, Still, vars
  <2> QED
    BY <2>1, <2>2, <2>3 DEF AtomicInv, Apart
<1>3. ASSUME NEW s \in Sessions, CommitSubmit(s) PROVE [Next]_vars /\ AtomicInv'
  BY <1>3, CommitSubmitAtomic DEF Next
<1>4. ASSUME NEW s \in Sessions,
             \/ \E u \in Users, r \in Rules :
                  \/ ReadForSubmit(s, u, r)
                  \/ \E i \in DOMAIN approvals[r], op \in {"approve", "reject"} :
                       ReadRecord(s, u, r, i, op)
                  \/ ReadForArchive(s, u, r)
             \/ SelectOverdue(s)
      PROVE  [Next]_vars /\ AtomicInv'
  <2>1. UNCHANGED vars
    BY <1>4 DEF ReadForSubmit, ReadRecord, ReadForArchive, SelectOverdue
  <2> QED
    BY <1>4, <2>1, ReadsAtomic
<1>5. ASSUME NEW s \in Sessions,
             \/ ReadAllRecords(s) \/ ReadRule(s) \/ Abort(s)
             \/ \E r \in Rules : ReadPending(s, r)
      PROVE  [Next]_vars /\ AtomicInv'
  <2>1. UNCHANGED vars
    BY <1>5 DEF ReadAllRecords, ReadRule, Abort, ReadPending
  <2> QED
    BY <1>5, <2>1, FurtherReadsAtomic
<1> QED
  BY <1>1, <1>2, <1>3, <1>4, <1>5, CommitDecisionAtomic, CommitArchiveAtomic, CommitSweepAtomic
     DEF RNext

LEMMA AtomicInit == RInit => AtomicInv
<1> SUFFICES ASSUME RInit PROVE AtomicInv
  OBVIOUS
<1>1. ReviewInv
  BY InitReview DEF RInit
<1>2. DOMAIN req = Sessions /\ \A s \in Sessions : req[s] = Idle
  BY DEF RInit
<1>3. \A s \in Sessions : Knows(s) /\ Touched(s) = {}
  BY <1>2, TouchedRules DEF Knows
<1> QED
  BY <1>1, <1>2, <1>3 DEF AtomicInv, Apart

\* Replicas whose requests for one rule never overlap behave as one process
\* that runs every handler in a single step, however many replicas there are.
THEOREM DisjointRequestsAreAtomic == ~Overlap => (RSpec => HandlersAreAtomic)
<1> SUFFICES ASSUME ~Overlap PROVE RSpec => HandlersAreAtomic
  OBVIOUS
<1>1. RInit => Init
  BY DEF RInit
<1>2. AtomicInv /\ [RNext]_rvars => [Next]_vars /\ AtomicInv'
  BY AtomicNext
<1> QED
  BY <1>1, <1>2, AtomicInit, PTL DEF RSpec, HandlersAreAtomic, Spec
=============================================================================
