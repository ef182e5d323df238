------------------------ MODULE ReviewQueriesProofs ------------------------
(* Proofs about ReviewQueries, for every set of rules, users and workloads   *)
(* and every value of the bounds.                                            *)
EXTENDS ReviewQueries, AuditProofs, WellFoundedInduction

\* A record whose approver, if it has one, is active and has the record's role.
FitRecord ==
  {rec \in ApprovalRecord :
     \/ rec.approver_id = Unassigned
     \/ /\ rec.approver_id \in Users
        /\ IsActiveUser[rec.approver_id]
        /\ RoleOf[rec.approver_id] = rec.approver_role}

\* The inductive invariant: submissions only create such records, and no
\* handler changes the approver or the role of a record.
RecordsFit == approvals \in [Rules -> Seq(FitRecord)]

-----------------------------------------------------------------------------
LEMMA SubmissionFits ==
  ASSUME RecordsFit, NEW u \in Users, NEW r \in Rules, submit_for_approval(u, r)
  PROVE  RecordsFit'
<1>1. PICK s \in Approvers(r, SECURITY_ROLE), w \in Approvers(r, WORKLOAD_ROLE) :
        approvals' = [approvals EXCEPT
          ![r] = @ \o <<NewRecord(SECURITY_ROLE, s), NewRecord(WORKLOAD_ROLE, w)>>]
  BY DEF submit_for_approval
<1>2. /\ NewRecord(SECURITY_ROLE, s) \in FitRecord
      /\ NewRecord(WORKLOAD_ROLE, w) \in FitRecord
  BY <1>1 DEF FitRecord, ApprovalRecord, ApprovalStatus, NewRecord, Approvers,
              WorkloadUsers, SECURITY_ROLE, WORKLOAD_ROLE
<1>3. <<NewRecord(SECURITY_ROLE, s), NewRecord(WORKLOAD_ROLE, w)>> \in Seq(FitRecord)
  BY <1>2
<1>4. approvals[r] \o <<NewRecord(SECURITY_ROLE, s), NewRecord(WORKLOAD_ROLE, w)>>
        \in Seq(FitRecord)
  BY <1>3, ConcatProperties DEF RecordsFit
<1> QED
  BY <1>1, <1>4 DEF RecordsFit

LEMMA DecisionFits ==
  ASSUME RecordsFit, NEW r \in Rules, NEW i \in DOMAIN approvals[r],
         NEW new \in ApprovalStatus,
         approvals' = [approvals EXCEPT ![r][i].status = new]
  PROVE  RecordsFit'
<1> DEFINE e == [approvals[r][i] EXCEPT !.status = new]
<1>1. /\ approvals[r] \in Seq(FitRecord)
      /\ i \in 1..Len(approvals[r])
      /\ approvals[r][i] \in FitRecord
  BY ElementOfSeq, LenProperties DEF RecordsFit
<1>2. e \in FitRecord
  BY <1>1 DEF FitRecord, ApprovalRecord
<1>3. [approvals[r] EXCEPT ![i] = e] \in Seq(FitRecord)
  BY <1>1, <1>2, ExceptSeq
<1> QED
  BY <1>3 DEF RecordsFit

LEMMA SweepFits ==
  ASSUME RecordsFit, NEW done \in SUBSET Overdue, check_auto_approve(done)
  PROVE  RecordsFit'
<1>1. ASSUME NEW records \in Seq(FitRecord)
      PROVE  AutoApproved(records) \in Seq(FitRecord)
  <2>1. /\ Len(records) \in Nat
        /\ DOMAIN records = 1..Len(records)
        /\ \A k \in DOMAIN records : records[k] \in FitRecord
    BY LenProperties, ElementOfSeq
  <2>2. \A k \in DOMAIN records :
          (IF records[k].status = "pending"
             THEN [records[k] EXCEPT !.status = "approved"]
             ELSE records[k]) \in FitRecord
    BY <2>1 DEF FitRecord, ApprovalRecord, ApprovalStatus
  <2>3. AutoApproved(records) \in [1..Len(records) -> FitRecord]
    BY <2>1, <2>2 DEF AutoApproved
  <2> QED
    BY <2>1, <2>3, SeqDef
<1>2. \A q \in Rules : approvals[q] \in Seq(FitRecord)
  BY DEF RecordsFit
<1>3. \A q \in Rules : AutoApproved(approvals[q]) \in Seq(FitRecord)
  BY <1>1, <1>2
<1> QED
  BY <1>2, <1>3 DEF check_auto_approve, RecordsFit

LEMMA FitInit == InitQueries => RecordsFit
<1>1. << >> \in Seq(FitRecord)
  BY EmptySeq
<1> QED
  BY <1>1 DEF InitQueries, Init, RecordsFit

LEMMA FitNext == RecordsFit /\ [NextQueries]_queryVars => RecordsFit'
<1> SUFFICES ASSUME RecordsFit, [NextQueries]_queryVars PROVE RecordsFit'
  OBVIOUS
<1>1. CASE Review
  <2>1. ASSUME NEW u \in Users, NEW r \in Rules, submit_for_approval(u, r)
        PROVE  RecordsFit'
    BY <2>1, SubmissionFits
  <2>2. ASSUME NEW u \in Users, NEW r \in Rules, NEW i \in DOMAIN approvals[r],
               approve(u, r, i) \/ reject(u, r, i)
        PROVE  RecordsFit'
    <3>1. PICK new \in ApprovalStatus :
            approvals' = [approvals EXCEPT ![r][i].status = new]
      BY <2>2 DEF approve, reject, ApprovalStatus
    <3> QED
      BY <3>1, DecisionFits
  <2>3. ASSUME NEW done \in SUBSET Overdue, check_auto_approve(done)
        PROVE  RecordsFit'
    BY <2>3, SweepFits
  <2>4. CASE UNCHANGED approvals
    BY <2>4 DEF RecordsFit
  <2>5. ASSUME NEW u \in Users, NEW r \in Rules, archive_rule(u, r)
        PROVE  UNCHANGED approvals
    BY <2>5 DEF archive_rule
  <2>6. ASSUME NEW u \in Users, NEW r \in Rules, NEW b \in BOOLEAN,
               NEW w \in Workloads \cup {NoWorkload}, update_rule(u, r, b, w)
        PROVE  UNCHANGED approvals
    BY <2>6 DEF update_rule
  <2>7. ASSUME NextDay PROVE UNCHANGED approvals
    BY <2>7 DEF NextDay
  <2> QED
    BY <1>1, <2>1, <2>2, <2>3, <2>4, <2>5, <2>6, <2>7 DEF Review, Next
<1>2. CASE UNCHANGED approvals
  BY <1>2 DEF RecordsFit
<1>3. ASSUME \/ \E u \in Users, list \in Lists : StartWalk(u, list)
             \/ Count \/ FetchTrail \/ FetchInbox \/ AnswerInbox
      PROVE  UNCHANGED approvals
  BY <1>3 DEF StartWalk, Count, FetchTrail, FetchInbox, AnswerInbox, vars
<1> QED
  BY <1>1, <1>2, <1>3 DEF NextQueries, queryVars

-----------------------------------------------------------------------------
\* Whoever finds a record in the pending list passes the guard of approve and
\* reject, and an open record with an approver is in an active user's list.
THEOREM PendingListIsRight == SpecQueries => []OpenRecordsReachSomeone
<1>1. ASSUME RecordsFit PROVE OpenRecordsReachSomeone
  <2> SUFFICES ASSUME NEW r \in Rules, NEW i \in DOMAIN approvals[r]
               PROVE  /\ \A u \in Users : InInbox(u, <<r, i>>) => MayDecide(u, approvals[r][i])
                      /\ /\ approvals[r][i].status = "pending"
                         /\ approvals[r][i].approver_id # Unassigned
                         => \E u \in Users : Authenticated(u) /\ InInbox(u, <<r, i>>)
    BY DEF OpenRecordsReachSomeone
  <2>1. approvals[r][i] \in FitRecord
    BY <1>1, ElementOfSeq, LenProperties DEF RecordsFit
  <2>2. Record(<<r, i>>) = approvals[r][i]
    BY DEF Record
  <2>3. ASSUME NEW u \in Users, InInbox(u, <<r, i>>)
        PROVE  MayDecide(u, approvals[r][i])
    BY <2>1, <2>2, <2>3, ConstantsAssumption DEF FitRecord, InInbox, MayDecide
  <2>4. ASSUME approvals[r][i].status = "pending", approvals[r][i].approver_id # Unassigned
        PROVE  \E u \in Users : Authenticated(u) /\ InInbox(u, <<r, i>>)
    BY <2>1, <2>2, <2>4 DEF FitRecord, InInbox, Authenticated
  <2> QED
    BY <2>3, <2>4
<1> QED
  BY <1>1, FitInit, FitNext, PTL DEF SpecQueries

-----------------------------------------------------------------------------
\* The list of records

\* The first three conjuncts of TypeOKQueries.
Listed ==
  /\ created \in Seq(Rules \X Nat)
  /\ \A k \in DOMAIN created : created[k][2] \in DOMAIN approvals[created[k][1]]
  /\ \A r \in Rules : \A i \in DOMAIN approvals[r] :
       \E k \in DOMAIN created : created[k] = <<r, i>>
  /\ \A j, k \in DOMAIN created :
       created[j][1] = created[k][1] /\ j < k => created[j][2] < created[k][2]

WalkFields == {"step", "list", "page", "total", "rows", "seen", "first", "left", "late"}

\* The fields of a walk that say where the client is.
Walking ==
  \/ walk = NoWalk
  \/ /\ walk = [f \in WalkFields |-> walk[f]]
     /\ walk.step \in {"count", "fetch", "answer", "done"}
     /\ walk.list \in Lists /\ walk.page \in Nat \ {0}

\* A step of the review adds the two records of one submission or none.
LEMMA RecordsGrow ==
  ASSUME RecordsFit, RecordsFit', Next
  PROVE  \/ \A r \in Rules : DOMAIN approvals'[r] = DOMAIN approvals[r]
         \/ \E r \in Rules :
              /\ Len(approvals'[r]) = Len(approvals[r]) + 2
              /\ \A q \in Rules \ {r} : approvals'[q] = approvals[q]
<1>1. ASSUME NEW u \in Users, NEW r \in Rules, submit_for_approval(u, r)
      PROVE  /\ Len(approvals'[r]) = Len(approvals[r]) + 2
             /\ \A q \in Rules \ {r} : approvals'[q] = approvals[q]
  <2>1. PICK a, b : approvals' = [approvals EXCEPT ![r] = @ \o <<a, b>>]
    BY <1>1 DEF submit_for_approval
  <2>2. approvals[r] \in Seq(FitRecord) /\ approvals = [q \in Rules |-> approvals[q]]
    BY DEF RecordsFit
  <2>3. approvals'[r] = approvals[r] \o <<a, b>>
    BY <2>1, <2>2
  <2>4. Len(approvals[r] \o <<a, b>>) = Len(approvals[r]) + 2
    BY <2>2
  <2> QED
    BY <2>1, <2>2, <2>3, <2>4
<1>2. ASSUME NEW u \in Users, NEW r \in Rules, NEW i \in DOMAIN approvals[r],
             approve(u, r, i) \/ reject(u, r, i), NEW q \in Rules
      PROVE  DOMAIN approvals'[q] = DOMAIN approvals[q]
  <2>1. PICK new : approvals' = [approvals EXCEPT ![r][i].status = new]
    BY <1>2 DEF approve, reject
  <2> QED
    BY <2>1 DEF RecordsFit
<1>3. ASSUME NEW done \in SUBSET Overdue, check_auto_approve(done), NEW q \in Rules
      PROVE  DOMAIN approvals'[q] = DOMAIN approvals[q]
  <2>1. DOMAIN AutoApproved(approvals[q]) = DOMAIN approvals[q]
    BY DEF AutoApproved
  <2> QED
    BY <1>3, <2>1 DEF check_auto_approve, RecordsFit
<1>4. ASSUME \/ \E u \in Users, r \in Rules : archive_rule(u, r)
             \/ \E u \in Users, r \in Rules, b \in BOOLEAN, w \in Workloads \cup {NoWorkload} :
                  update_rule(u, r, b, w)
             \/ NextDay
      PROVE  UNCHANGED approvals
  BY <1>4 DEF archive_rule, update_rule, NextDay
<1> QED
  BY <1>1, <1>2, <1>3, <1>4 DEF Next

\* A list with two entries put behind it.
LEMMA TwoBehind ==
  ASSUME NEW S, NEW a \in S, NEW b \in S, NEW s \in Seq(S)
  PROVE  /\ s \o <<a, b>> \in Seq(S)
         /\ DOMAIN (s \o <<a, b>>) = 1..(Len(s) + 2)
         /\ (s \o <<a, b>>)[Len(s) + 1] = a /\ (s \o <<a, b>>)[Len(s) + 2] = b
         /\ \A k \in DOMAIN s : (s \o <<a, b>>)[k] = s[k]
<1>1. /\ <<a, b>> \in Seq(S) /\ Len(<<a, b>>) = 2
      /\ <<a, b>>[1] = a /\ <<a, b>>[2] = b
      /\ Len(s) \in Nat /\ DOMAIN s = 1..Len(s)
  BY LenProperties
<1> QED
  BY <1>1, ConcatProperties, LenProperties

\* The list keeps its entries and holds the new records behind them.
LEMMA ListedNext ==
  ASSUME RecordsFit, RecordsFit', Listed, Review
  PROVE  /\ Listed'
         /\ \A k \in DOMAIN created : k \in DOMAIN created' /\ created'[k] = created[k]
<1>1. /\ \A r \in Rules : /\ Len(approvals[r]) \in Nat /\ Len(approvals'[r]) \in Nat
                          /\ DOMAIN approvals[r] = 1..Len(approvals[r])
                          /\ DOMAIN approvals'[r] = 1..Len(approvals'[r])
      /\ Len(created) \in Nat /\ DOMAIN created = 1..Len(created)
  BY LenProperties DEF RecordsFit, Listed
<1>2. \A k \in DOMAIN created : /\ created[k] = <<created[k][1], created[k][2]>>
                                /\ created[k][1] \in Rules /\ created[k][2] \in Nat
  BY ElementOfSeq DEF Listed
<1>3. ASSUME NEW r \in Rules, Len(approvals'[r]) = Len(approvals[r])
      PROVE  NewRecords(r) = << >>
  <2>1. Len(approvals'[r]) - Len(approvals[r]) = 0
    BY <1>1, <1>3
  <2>2. NewRecords(r) = [k \in 1..0 |-> <<r, Len(approvals[r]) + k>>]
    BY <2>1 DEF NewRecords
  <2>3. NewRecords(r) \in Seq({r} \X Int) /\ DOMAIN NewRecords(r) = {}
    BY <1>1, <2>2, SeqDef
  <2>4. /\ Len(NewRecords(r)) \in Nat
        /\ DOMAIN NewRecords(r) = 1..Len(NewRecords(r))
    BY <2>3, LenProperties
  <2>5. Len(NewRecords(r)) = 0
    BY <2>3, <2>4
  <2> QED
    BY <2>3, <2>5, EmptySeq
<1>4. CASE \A r \in Rules : DOMAIN approvals'[r] = DOMAIN approvals[r]
  <2>1. \A r \in Rules : Len(approvals'[r]) = Len(approvals[r])
    BY <1>1, <1>4
  <2>2. created' = created
    BY <1>3, <2>1 DEF Review
  <2> QED
    BY <1>2, <1>4, <2>2 DEF Listed
<1>5. ASSUME NEW r \in Rules, Len(approvals'[r]) = Len(approvals[r]) + 2,
             \A q \in Rules \ {r} : approvals'[q] = approvals[q]
      PROVE  /\ Listed'
             /\ \A k \in DOMAIN created : k \in DOMAIN created' /\ created'[k] = created[k]
  <2> DEFINE n == Len(approvals[r])
             N == Len(created)
             two == <<<<r, n + 1>>, <<r, n + 2>>>>
  <2>1. NewRecords(r) = two
    <3>1. 1..(Len(approvals'[r]) - Len(approvals[r])) = {1, 2}
      BY <1>1, <1>5
    <3>2. NewRecords(r) = [k \in {1, 2} |-> <<r, n + k>>]
      BY <1>1, <1>5, <3>1 DEF NewRecords
    <3> QED
      BY <1>1, <3>2
  <2>2. \A q \in Rules \ {r} : NewRecords(q) = << >>
    BY <1>3, <1>5
  <2>3. created' = created \o two
    <3>1. two # << >>
      OBVIOUS
    <3>2. \E q \in Rules : NewRecords(q) # << >> /\ created' = created \o NewRecords(q)
      BY <2>1, <3>1 DEF Review
    <3> QED
      BY <2>1, <2>2, <3>2
  <2>4. /\ created' \in Seq(Rules \X Nat)
        /\ DOMAIN created' = 1..(N + 2)
        /\ created'[N + 1] = <<r, n + 1>> /\ created'[N + 2] = <<r, n + 2>>
        /\ \A k \in DOMAIN created : created'[k] = created[k]
    <3> DEFINE S == Rules \X Nat
               a == <<r, n + 1>>
               b == <<r, n + 2>>
    <3>1. a \in S /\ b \in S /\ created \in Seq(S) /\ created' = created \o <<a, b>>
      BY <1>1, <2>3 DEF Listed
    <3> HIDE DEF S, a, b
    <3>2. /\ created' \in Seq(S)
          /\ DOMAIN created' = 1..(N + 2)
          /\ created'[N + 1] = a /\ created'[N + 2] = b
          /\ \A k \in DOMAIN created : created'[k] = created[k]
      BY <3>1, TwoBehind
    <3> QED
      BY <3>2 DEF S, a, b
  <2> HIDE DEF two
  <2>5. \A k \in DOMAIN created' : k = N + 1 \/ k = N + 2 \/ k \in DOMAIN created
    BY <1>1, <2>4
  <2>6. \A k \in DOMAIN created' : created'[k][2] \in DOMAIN approvals'[created'[k][1]]
    <3> SUFFICES ASSUME NEW k \in DOMAIN created'
                 PROVE  created'[k][2] \in DOMAIN approvals'[created'[k][1]]
      OBVIOUS
    <3>1. CASE k = N + 1 \/ k = N + 2
      BY <1>1, <1>5, <2>4, <3>1
    <3>2. CASE k \in DOMAIN created
      <4>1. created[k][2] \in DOMAIN approvals[created[k][1]]
        BY <3>2 DEF Listed
      <4>2. created'[k] = created[k] /\ created[k][1] \in Rules
        BY <1>2, <2>4, <3>2
      <4>3. DOMAIN approvals[created[k][1]] \subseteq DOMAIN approvals'[created[k][1]]
        BY <1>1, <1>5, <4>2
      <4> QED
        BY <4>1, <4>2, <4>3
    <3> QED
      BY <2>5, <3>1, <3>2
  <2>7. ASSUME NEW q \in Rules, NEW i \in DOMAIN approvals'[q]
        PROVE  \E k \in DOMAIN created' : created'[k] = <<q, i>>
    <3>1. CASE i \in DOMAIN approvals[q]
      <4>1. PICK k \in DOMAIN created : created[k] = <<q, i>>
        BY <3>1 DEF Listed
      <4>2. k \in DOMAIN created' /\ created'[k] = <<q, i>>
        BY <1>1, <2>4, <4>1
      <4> QED
        BY <4>2
    <3>2. CASE i \notin DOMAIN approvals[q]
      <4>1. q = r /\ (i = n + 1 \/ i = n + 2)
        BY <1>1, <1>5, <2>7, <3>2
      <4>2. N + 1 \in DOMAIN created' /\ N + 2 \in DOMAIN created'
        BY <1>1, <2>4
      <4> QED
        BY <2>4, <4>1, <4>2
    <3> QED
      BY <3>1, <3>2
  <2>8. ASSUME NEW j \in DOMAIN created', NEW k \in DOMAIN created',
               created'[j][1] = created'[k][1], j < k
        PROVE  created'[j][2] < created'[k][2]
    <3>1. CASE j = N + 1
      BY <1>1, <2>4, <2>8, <3>1
    <3>2. CASE j \in DOMAIN created
      <4>1. CASE k = N + 1 \/ k = N + 2
        <5>1. created[j][1] = r /\ created'[j] = created[j]
          BY <2>4, <2>8, <3>2, <4>1
        <5>2. created[j][2] \in 1..n
          BY <1>1, <3>2, <5>1 DEF Listed
        <5> QED
          BY <1>1, <2>4, <4>1, <5>1, <5>2
      <4>2. CASE k \in DOMAIN created
        BY <2>4, <2>8, <3>2, <4>2 DEF Listed
      <4> QED
        BY <2>5, <4>1, <4>2
    <3> QED
      BY <1>1, <2>4, <2>5, <2>8, <3>1, <3>2
  <2>9. Listed'
    BY <2>4, <2>6, <2>7, <2>8 DEF Listed
  <2> QED
    BY <1>1, <2>4, <2>9
<1>6. Next
  BY DEF Review
<1> QED
  BY <1>4, <1>5, <1>6, RecordsGrow

LEMMA WalkingNext ==
  ASSUME Walking, [NextQueries]_queryVars
  PROVE  Walking'
<1>1. CASE UNCHANGED walk
  BY <1>1 DEF Walking
<1>2. ASSUME NEW list \in Lists, list = walk.list, walk.step \notin {"idle", "done"},
             walk' = Watched(list)
      PROVE  Walking'
  <2>1. walk = [f \in WalkFields |-> walk[f]] /\ walk.page \in Nat \ {0}
        /\ walk.step \in {"count", "fetch", "answer", "done"}
    BY <1>2 DEF Walking, NoWalk
  <2>2. PICK a, b : walk' = [walk EXCEPT !.left = a, !.late = b]
    BY <1>2 DEF Watched
  <2> QED
    BY <1>2, <2>1, <2>2 DEF Walking, WalkFields
<1>3. ASSUME NEW u \in Users, NEW list \in Lists, StartWalk(u, list)
      PROVE  Walking'
  BY <1>3 DEF StartWalk, Walking, WalkFields
<1>4. ASSUME Count \/ FetchTrail \/ FetchInbox \/ AnswerInbox
      PROVE  Walking'
  <2>1. /\ walk = [f \in WalkFields |-> walk[f]] /\ walk.list \in Lists
        /\ walk.page \in Nat \ {0}
    BY <1>4 DEF Walking, NoWalk, Count, FetchTrail, FetchInbox, AnswerInbox
  <2>2. CASE Count
    <3>1. PICK a, t : walk' = [walk EXCEPT !.step = "fetch", !.late = a, !.total = t]
      BY <2>2 DEF Count
    <3> QED
      BY <2>1, <3>1 DEF Walking, WalkFields
  <2>3. ASSUME NEW w, w = [f \in WalkFields |-> w[f]], w.list \in Lists,
               w.page \in Nat \ {0}, walk' = Turned(w)
        PROVE  Walking'
    <3>1. CASE walk' = [w EXCEPT !.step = "count", !.page = @ + 1]
      <4>1. walk' = [f \in WalkFields |-> walk'[f]]
        BY <2>3, <3>1
      <4>2. walk'.step = "count" /\ walk'.list = w.list /\ walk'.page = w.page + 1
        BY <2>3, <3>1 DEF WalkFields
      <4>3. w.page + 1 \in Nat \ {0}
        BY <2>3
      <4> QED
        BY <2>3, <4>1, <4>2, <4>3 DEF Walking
    <3>2. CASE walk' = [w EXCEPT !.step = "done"]
      BY <2>3, <3>2 DEF Walking, WalkFields
    <3> QED
      BY <2>3, <3>1, <3>2 DEF Turned
  <2>4. ASSUME NEW rows, NEW w, w = Fetched(rows)
        PROVE  /\ w = [f \in WalkFields |-> w[f]] /\ w.list \in Lists
               /\ w.page \in Nat \ {0}
    <3>1. PICK a, b, c : w = [walk EXCEPT !.seen = a, !.first = b, !.left = c]
      BY <2>4 DEF Fetched
    <3> QED
      BY <2>1, <3>1 DEF WalkFields
  <2>5. CASE FetchTrail
    BY <2>3, <2>4, <2>5 DEF FetchTrail
  <2>6. CASE FetchInbox
    <3>1. PICK rows, items : walk' = [Fetched(rows) EXCEPT !.step = "answer", !.rows = items]
      BY <2>6 DEF FetchInbox
    <3> QED
      BY <2>4, <3>1 DEF Walking, WalkFields
  <2>7. CASE AnswerInbox
    BY <2>1, <2>3, <2>7 DEF AnswerInbox
  <2> QED
    BY <1>4, <2>2, <2>5, <2>6, <2>7
<1>5. CASE Review
  BY <1>1, <1>2, <1>5 DEF Review
<1> QED
  BY <1>1, <1>3, <1>4, <1>5 DEF NextQueries, queryVars

-----------------------------------------------------------------------------
\* The pages of a list

\* The first n rows of a list, and those not behind row k.
Top(rows, n) == {k \in rows : Rank(rows, k) <= n}
AtOrAbove(rows, k) == {j \in rows : j >= k}

\* A set of numbers has a least element, and a greatest if it is bounded.
LEMMA LeastElement ==
  ASSUME NEW S \in SUBSET Nat, S # {}
  PROVE  \E m \in S : \A k \in S : m <= k
<1>1. PICK m \in S : \A k \in S : <<k, m>> \notin OpToRel(<, Nat)
  BY NatLessThanWellFounded, WFMin, ZenonT(20)
<1>2. \A k \in S : ~(k < m)
  BY <1>1 DEF OpToRel
<1> QED
  BY <1>2

LEMMA GreatestElement ==
  ASSUME NEW n \in Nat, NEW S \in SUBSET (1..n), S # {}
  PROVE  \E m \in S : \A k \in S : k <= m
<1> DEFINE T == {i \in 0..n : n - i \in S}
<1>1. \A k \in S : n - k \in T
  OBVIOUS
<1>2. T # {}
  BY <1>1
<1>3. T \in SUBSET Nat
  OBVIOUS
<1>4. PICK i \in T : \A j \in T : i <= j
  <2> HIDE DEF T
  <2> QED
    BY <1>2, <1>3, LeastElement
<1>5. ASSUME NEW k \in S PROVE k <= n - i
  <2>1. i <= n - k /\ k \in Int /\ i \in Int
    BY <1>1, <1>4
  <2> QED
    BY <2>1
<1>6. n - i \in S
  BY <1>4
<1> QED
  BY <1>5, <1>6

LEMMA FiniteList ==
  ASSUME NEW N \in Nat, NEW S \in SUBSET (1..N)
  PROVE  IsFiniteSet(S) /\ Cardinality(S) \in Nat
<1>1. IsFiniteSet(1..N)
  BY FS_Interval
<1> QED
  BY <1>1, FS_Subset, FS_CardinalityType

LEMMA FinitePart ==
  ASSUME NEW S, IsFiniteSet(S), NEW T \in SUBSET S
  PROVE  IsFiniteSet(T) /\ Cardinality(T) \in Nat /\ Cardinality(T) <= Cardinality(S)
BY FS_Subset, FS_CardinalityType

LEMMA RankType ==
  ASSUME NEW N \in Nat, NEW S \in SUBSET (1..N), NEW k
  PROVE  /\ IsFiniteSet(AtOrAbove(S, k))
         /\ Rank(S, k) \in Nat /\ Rank(S, k) = Cardinality(AtOrAbove(S, k))
<1>1. AtOrAbove(S, k) \in SUBSET (1..N)
  BY DEF AtOrAbove
<1>2. Rank(S, k) = Cardinality(AtOrAbove(S, k))
  BY DEF Rank, AtOrAbove
<1> QED
  BY <1>1, <1>2, FiniteList

LEMMA RankOrder ==
  ASSUME NEW N \in Nat, NEW S \in SUBSET (1..N), NEW T \in SUBSET (1..N), NEW k, NEW m,
         AtOrAbove(T, m) \subseteq AtOrAbove(S, k)
  PROVE  Rank(T, m) <= Rank(S, k)
<1>1. /\ IsFiniteSet(AtOrAbove(S, k)) /\ Rank(S, k) = Cardinality(AtOrAbove(S, k))
      /\ Rank(T, m) = Cardinality(AtOrAbove(T, m))
  BY RankType
<1>2. Cardinality(AtOrAbove(T, m)) <= Cardinality(AtOrAbove(S, k))
  BY <1>1, FS_Subset
<1> QED
  BY <1>1, <1>2

\* The first n rows of a longer list are n.
LEMMA TopIsFull ==
  ASSUME NEW N \in Nat, NEW S \in SUBSET (1..N), NEW n \in Nat, S \ Top(S, n) # {}
  PROVE  Cardinality(Top(S, n)) >= n
<1>1. PICK g \in S \ Top(S, n) : \A k \in S \ Top(S, n) : k <= g
  BY GreatestElement
<1> DEFINE H == AtOrAbove(S, g)
<1>2. IsFiniteSet(H) /\ Cardinality(H) \in Nat /\ Cardinality(H) > n
  <2>1. g \in S /\ ~(Rank(S, g) <= n)
    BY <1>1 DEF Top
  <2>2. IsFiniteSet(H) /\ Rank(S, g) \in Nat /\ Rank(S, g) = Cardinality(H)
    BY RankType
  <2> QED
    BY <2>1, <2>2
<1>3. g \in H /\ H \ {g} \subseteq Top(S, n)
  <2>1. g \in Int /\ \A j \in S : j \in Int
    OBVIOUS
  <2>2. \A j \in S : j >= g /\ j # g => ~(j <= g)
    BY <2>1
  <2>3. \A j \in S : j >= g /\ j # g => j \in Top(S, n)
    BY <1>1, <2>2
  <2> QED
    BY <1>1, <2>1, <2>3 DEF AtOrAbove
<1>4. Cardinality(H \ {g}) = Cardinality(H) - 1
  BY <1>2, <1>3, FS_RemoveElement
<1>5. IsFiniteSet(Top(S, n)) /\ Cardinality(Top(S, n)) \in Nat
  BY FiniteList DEF Top
<1>6. Cardinality(H \ {g}) <= Cardinality(Top(S, n))
  BY <1>3, <1>5, FS_Subset
<1> QED
  BY <1>2, <1>4, <1>5, <1>6

\* Rows that come only push others back.
LEMMA ComingPushesBack ==
  ASSUME NEW N \in Nat, NEW S \in SUBSET (1..N), NEW T \in SUBSET S, NEW n \in Nat
  PROVE  Top(S, n) \cap T \subseteq Top(T, n)
<1> SUFFICES ASSUME NEW k \in T, Rank(S, k) <= n PROVE Rank(T, k) <= n
  BY DEF Top
<1>1. AtOrAbove(T, k) \subseteq AtOrAbove(S, k) /\ T \in SUBSET (1..N)
  BY DEF AtOrAbove
<1>2. Rank(T, k) <= Rank(S, k)
  BY <1>1, RankOrder
<1>3. Rank(S, k) \in Nat /\ Rank(T, k) \in Nat
  BY <1>1, RankType
<1> QED
  BY <1>2, <1>3

\* Rows that leave move no more others into the first n than they are.
LEMMA LeavingMovesUp ==
  ASSUME NEW N \in Nat, NEW S \in SUBSET (1..N), NEW T \in SUBSET S, NEW n \in Nat
  PROVE  Cardinality(Top(T, n) \ Top(S, n)) <= Cardinality(S \ T)
<1> DEFINE E == Top(T, n) \ Top(S, n)
           G == Top(S, n)
<1>0. /\ E \in SUBSET T /\ E \in SUBSET (1..N) /\ G \in SUBSET S /\ G \in SUBSET (1..N)
      /\ IsFiniteSet(S \ T) /\ Cardinality(S \ T) \in Nat
      /\ IsFiniteSet(E) /\ Cardinality(E) \in Nat
      /\ IsFiniteSet(G) /\ Cardinality(G) \in Nat
  BY FiniteList DEF Top
<1>1. CASE E = {}
  BY <1>0, <1>1, FS_EmptySet
<1>2. CASE E # {}
  <2>1. PICK m \in E : \A k \in E : m <= k
    <3> HIDE DEF E
    <3> QED
      BY <1>0, <1>2, LeastElement
  <2> DEFINE H == AtOrAbove(T, m)
  <2>2. Cardinality(H) <= n /\ IsFiniteSet(H) /\ Cardinality(H) \in Nat
    BY <1>0, <2>1, RankType DEF Top
  <2>3. m \in S \ G /\ m \in T
    BY <1>0, <2>1
  <2>4. Cardinality(G) >= n
    BY <2>3, TopIsFull
  <2>5. \A k \in G : k >= m
    <3> SUFFICES ASSUME NEW k \in G, ~(k >= m) PROVE FALSE
      OBVIOUS
    <3>1. AtOrAbove(S, m) \subseteq AtOrAbove(S, k)
      <4>1. m \in Int /\ k \in Int /\ \A j \in S : j \in Int
        BY <1>0, <2>3
      <4>2. \A j \in S : j >= m => j >= k
        BY <4>1
      <4> QED
        BY <4>2 DEF AtOrAbove
    <3>2. Rank(S, m) <= Rank(S, k)
      BY <3>1, RankOrder
    <3>4. Rank(S, k) \in Nat /\ Rank(S, m) \in Nat
      BY RankType
    <3>3. ~(Rank(S, m) <= n) /\ Rank(S, k) <= n
      BY <2>3 DEF Top
    <3> QED
      BY <3>2, <3>3, <3>4
  <2>6. E \cup (G \cap T) \subseteq H /\ E \cap (G \cap T) = {}
    BY <1>0, <2>1, <2>5 DEF AtOrAbove
  <2>7. /\ IsFiniteSet(G \cap T) /\ Cardinality(G \cap T) \in Nat
        /\ IsFiniteSet(G \ T) /\ Cardinality(G \ T) \in Nat
        /\ Cardinality(G \ T) = Cardinality(G) - Cardinality(G \cap T)
        /\ Cardinality(G \ T) <= Cardinality(S \ T)
    <3>1. G \cap T \in SUBSET G /\ G \ T \in SUBSET G /\ G \ T \in SUBSET (S \ T)
      BY <1>0
    <3> HIDE DEF G
    <3> QED
      BY <1>0, <3>1, FinitePart, FS_Difference
  <2>8. Cardinality(E) + Cardinality(G \cap T) <= n
    <3> HIDE DEF E, G, H
    <3> DEFINE F == G \cap T
    <3>0. IsFiniteSet(F) /\ E \cap F = {} /\ E \cup F \in SUBSET H
      BY <2>6, <2>7
    <3> HIDE DEF F
    <3>1. Cardinality(E \cup F) = Cardinality(E) + Cardinality(F) - Cardinality(E \cap F)
      BY <1>0, <3>0, FS_Union
    <3>2. Cardinality(E \cup F) <= Cardinality(H)
      BY <2>2, <3>0, FS_Subset
    <3>3. Cardinality(E \cap F) = 0
      BY <3>0, FS_EmptySet
    <3> QED
      BY <1>0, <2>2, <2>7, <3>1, <3>2, <3>3 DEF F
  <2> HIDE DEF E, G, H
  <2>9. Cardinality(E) <= Cardinality(S \ T)
    BY <1>0, <2>4, <2>7, <2>8
  <2> QED
    BY <2>9 DEF E, G
<1> QED
  BY <1>1, <1>2

\* Behind the first n rows of a list of n + c there are no more than c.
LEMMA BehindTheTop ==
  ASSUME NEW N \in Nat, NEW S \in SUBSET (1..N), NEW n \in Nat, NEW c \in Nat,
         Cardinality(S) <= n + c
  PROVE  Cardinality(S \ Top(S, n)) <= c
<1> DEFINE R == S \ Top(S, n)
<1>1. /\ IsFiniteSet(S) /\ Cardinality(S) \in Nat
      /\ IsFiniteSet(R) /\ Cardinality(R) \in Nat
      /\ IsFiniteSet(Top(S, n)) /\ Cardinality(Top(S, n)) \in Nat
  BY FiniteList DEF Top
<1>2. CASE R = {}
  BY <1>2, FS_EmptySet
<1>3. CASE R # {}
  <2>1. S \cap Top(S, n) = Top(S, n)
    BY DEF Top
  <2>2. Cardinality(R) = Cardinality(S) - Cardinality(Top(S, n))
    BY <1>1, <2>1, FS_Difference
  <2>3. Cardinality(Top(S, n)) >= n
    BY <1>3, TopIsFull
  <2> QED
    BY <1>1, <2>2, <2>3
<1> QED
  BY <1>2, <1>3

\* Page p follows the rows of the pages before it.
LEMMA PageFollows ==
  ASSUME NEW N \in Nat, NEW S \in SUBSET (1..N), NEW p \in Nat \ {0}
  PROVE  /\ (p - 1) * PerPage \in Nat /\ p * PerPage \in Nat
         /\ Top(S, p * PerPage) = Top(S, (p - 1) * PerPage) \cup Page(S, p)
         /\ p = 1 => Top(S, p * PerPage) = Page(S, p)
<1>1. /\ (p - 1) * PerPage \in Nat /\ p * PerPage \in Nat
      /\ (p - 1) * PerPage <= p * PerPage
      /\ p = 1 => (p - 1) * PerPage = 0
  <2>1. \A a, b \in Nat : a * b \in Nat
    OBVIOUS
  <2>2. p * PerPage = (p - 1) * PerPage + PerPage /\ 0 * PerPage = 0
    BY PerPageAssumption
  <2>3. p - 1 \in Nat /\ p \in Nat /\ PerPage \in Nat
    BY PerPageAssumption
  <2> QED
    BY <2>1, <2>2, <2>3
<1> DEFINE a == (p - 1) * PerPage
           b == p * PerPage
<1>2. \A k \in S : Rank(S, k) \in Nat
  BY RankType
<1>3. Page(S, p) = {k \in S : a < Rank(S, k) /\ Rank(S, k) <= b}
  BY DEF Page
<1>4. a \in Nat /\ b \in Nat /\ a <= b /\ (p = 1 => a = 0)
  BY <1>1
<1> HIDE DEF a, b
<1>5. Top(S, b) = Top(S, a) \cup Page(S, p)
  <2>1. ASSUME NEW x \in Nat
        PROVE  x <= b <=> x <= a \/ (a < x /\ x <= b)
    BY <1>4
  <2> QED
    BY <1>2, <1>3, <2>1 DEF Top
<1>6. ASSUME NEW k \in S, Rank(S, k) = 0
      PROVE  FALSE
  <2>1. AtOrAbove(S, k) = {}
    BY <1>6, RankType, FS_EmptySet
  <2>2. k \in AtOrAbove(S, k)
    BY DEF AtOrAbove
  <2> QED
    BY <2>1, <2>2
<1>7. p = 1 => Top(S, b) = Page(S, p)
  <2>1. ASSUME NEW x \in Nat, x # 0, a = 0
        PROVE  a < x
    BY <2>1
  <2> QED
    BY <1>2, <1>3, <1>4, <1>6, <2>1 DEF Top
<1> QED
  BY <1>4, <1>5, <1>7 DEF a, b

\* When a list changes, a client misses among its first n rows no more of
\* those it is looking for than before and one for each that left.
LEMMA MissedAfterMove ==
  ASSUME NEW N \in Nat, NEW S \in SUBSET (1..N), NEW T \in SUBSET (1..N),
         NEW first, NEW seen, first \cap T \subseteq S, NEW n \in Nat, NEW left \in Nat,
         Cardinality(((first \cap S) \ seen) \cap Top(S, n)) <= left
  PROVE  Cardinality(((first \cap T) \ seen) \cap Top(T, n)) <= left + Cardinality(S \ T)
<1> DEFINE M == S \cap T
           A == ((first \cap S) \ seen) \cap Top(S, n)
           B == Top(M, n) \ Top(S, n)
           C == ((first \cap T) \ seen) \cap Top(T, n)
<1>1. Top(T, n) \cap M \subseteq Top(M, n)
  BY ComingPushesBack
<1>2. C \subseteq A \cup B
  BY <1>1
<1>3. Cardinality(B) <= Cardinality(S \ M) /\ S \ M = S \ T
  BY LeavingMovesUp
<1>4. /\ IsFiniteSet(A) /\ Cardinality(A) \in Nat
      /\ IsFiniteSet(B) /\ Cardinality(B) \in Nat
      /\ IsFiniteSet(S \ T) /\ Cardinality(S \ T) \in Nat
  BY FiniteList DEF Top
<1> HIDE DEF A, B, C, M
<1>5. /\ Cardinality(A \cup B) <= Cardinality(A) + Cardinality(B)
      /\ IsFiniteSet(A \cup B) /\ Cardinality(A \cup B) \in Nat
  <2>1. /\ IsFiniteSet(A \cup B)
        /\ Cardinality(A \cup B) = Cardinality(A) + Cardinality(B) - Cardinality(A \cap B)
    BY <1>4, FS_Union
  <2>2. IsFiniteSet(A \cap B)
    BY <1>4, FS_Intersection
  <2>3. Cardinality(A \cap B) \in Nat /\ Cardinality(A \cup B) \in Nat
    BY <2>1, <2>2, FS_CardinalityType
  <2> QED
    BY <1>4, <2>1, <2>3
<1>6. Cardinality(C) \in Nat /\ Cardinality(C) <= Cardinality(A \cup B)
  BY <1>2, <1>5, FinitePart
<1>7. Cardinality(A) <= left
  BY DEF A
<1>8. Cardinality(C) <= left + Cardinality(S \ T)
  BY <1>3, <1>4, <1>5, <1>6, <1>7
<1> QED
  BY <1>8 DEF C

-----------------------------------------------------------------------------
\* The walk

\* Every row there ever was, in the list or not.
Places(list) == IF list.of = "inbox" THEN DOMAIN created ELSE DOMAIN audit[list.rule]

\* How many rows the pages cover that the client has got.
Covered(w) == (IF w.step \in {"count", "fetch"} THEN w.page - 1 ELSE w.page) * PerPage

\* The rows there all the time that the client has not got.
Missing(w) == (w.first \cap Selected(w.list)) \ w.seen

\* Among the rows the pages so far cover the client misses no more than left
\* the list, between a count and its page no more rows come than are counted
\* late, and once there is no further page to ask for the two are all it misses.
Accounted(w) ==
  /\ w.total \in Nat /\ w.left \in Nat /\ w.late \in Nat
  /\ w.first \subseteq Places(w.list)
  /\ w.page = 1 /\ w.step \in {"count", "fetch"} => w.first = {}
  /\ w.step # "done" =>
       Cardinality(Missing(w) \cap Top(Selected(w.list), Covered(w))) <= w.left
  /\ w.step = "fetch" => Cardinality(Selected(w.list)) <= w.total + w.late
  /\ w.step = "done" \/ (w.step = "answer" /\ w.total <= Covered(w)) =>
       Cardinality(Missing(w)) <= w.left + w.late

\* The inductive invariant of WalkMissesOnlyMoved.
WalkInv == walk # NoWalk => Accounted(walk)

\* A draft has no records: what keeps it out of the pending list.
DraftsAreNew == \A r \in Rules : status[r] = "draft" => approvals[r] = << >>

Numbered ==
  \A list \in Lists : \E N \in Nat : Places(list) = 1..N /\ Selected(list) \in SUBSET (1..N)

LEMMA PlacesNumbered == TypeOK /\ Listed => Numbered
<1> SUFFICES ASSUME TypeOK, Listed, NEW list \in Lists
             PROVE  \E N \in Nat : Places(list) = 1..N /\ Selected(list) \in SUBSET (1..N)
  BY DEF Numbered
<1>1. Len(created) \in Nat /\ DOMAIN created = 1..Len(created)
  BY LenProperties DEF Listed
<1>2. CASE list.of = "inbox"
  BY <1>1, <1>2 DEF Places, Selected
<1>3. CASE list.of # "inbox"
  <2>1. list.rule \in Rules
    BY <1>3 DEF Lists
  <2>2. Len(audit[list.rule]) \in Nat /\ DOMAIN audit[list.rule] = 1..Len(audit[list.rule])
    BY <2>1, LenProperties DEF TypeOK
  <2> QED
    BY <1>3, <2>2 DEF Places, Selected
<1> QED
  BY <1>2, <1>3

\* A record that is open after a step was the same open record before.
LEMMA OpenRecordsStay ==
  ASSUME TypeOK, [Next]_vars, NEW r \in Rules, NEW i \in DOMAIN approvals[r],
         approvals'[r][i].status = "pending"
  PROVE  approvals'[r][i] = approvals[r][i]
<1>1. approvals[r] \in Seq(ApprovalRecord)
  BY DEF TypeOK
<1>2. ASSUME NEW j \in DOMAIN approvals[r], NEW new \in {"approved", "rejected"},
             Settles(r, j, new)
      PROVE  approvals'[r][i] = approvals[r][i]
  <2>1. new \in ApprovalStatus /\ new # "pending"
    BY DEF ApprovalStatus
  <2>2. /\ approvals'[r][j].status = new
        /\ \A k \in DOMAIN approvals[r] : k # j => approvals'[r][k] = approvals[r][k]
    BY <1>1, <1>2, <2>1, DecidedRecords DEF Settles
  <2> QED
    BY <2>1, <2>2
<1>3. CASE Rests(r)
  BY <1>3 DEF Rests
<1>4. CASE IsSubmitted(r)
  <2>1. PICK s \in Users \cup {Unassigned}, w \in Users \cup {Unassigned} :
          approvals'[r] = approvals[r] \o <<NewRecord(SECURITY_ROLE, s),
                                           NewRecord(WORKLOAD_ROLE, w)>>
    BY <1>4 DEF IsSubmitted
  <2> QED
    BY <1>1, <2>1, SubmittedRecords
<1>5. CASE IsAgreed(r) \/ IsActivated(r) \/ IsRejected(r)
  BY <1>2, <1>5 DEF IsAgreed, IsActivated, IsRejected
<1>6. CASE IsSwept(r)
  BY <1>1, <1>6, SweptRecords DEF IsSwept
<1> QED
  BY <1>3, <1>4, <1>5, <1>6, RuleSteps

\* No audit row of a rule is ever removed.
LEMMA RowsOfRuleStay ==
  ASSUME TypeOK, [Next]_vars, NEW r \in Rules
  PROVE  DOMAIN audit[r] \subseteq DOMAIN audit'[r]
<1>1. audit[r] \in Seq(AuditEntry)
  BY DEF TypeOK
<1>2. ASSUME NEW action \in {"submit", "approve", "reject"}, NEW new \in RuleStatus,
             NEW by \in {"user", "system"}, Logs(r, action, new, by)
      PROVE  DOMAIN audit[r] \subseteq DOMAIN audit'[r]
  <2> PICK e : e = NewEntry(r, action, new, by)
    OBVIOUS
  <2>1. e \in AuditEntry /\ audit'[r] = Append(audit[r], e)
    BY <1>2 DEF TypeOK, NewEntry, AuditEntry, Logs
  <2> QED
    BY <1>1, <2>1
<1>3. {"pending_approval", "active", "rejected"} \subseteq RuleStatus
  BY DEF RuleStatus
<1>4. CASE Rests(r) \/ IsAgreed(r)
  BY <1>4 DEF Rests, IsAgreed, KeepsColumns
<1>5. CASE IsSubmitted(r) \/ IsActivated(r) \/ IsRejected(r) \/ IsSwept(r)
  BY <1>2, <1>3, <1>5 DEF IsSubmitted, IsActivated, IsRejected, IsSwept
<1> QED
  BY <1>4, <1>5, RuleSteps

\* What a step of the review does to a list: rows come behind all there were,
\* and no row comes back.
LEMMA SelectedMoves ==
  ASSUME TypeOK, RecordsFit, RecordsFit', Listed, Review, NEW list \in Lists
  PROVE  /\ Places(list) \subseteq Places(list)'
         /\ Selected(list)' \cap Places(list) \subseteq Selected(list)
<1>0. Next
  BY DEF Review
<1>1. CASE list.of # "inbox"
  <2>1. list.rule \in Rules
    BY <1>1 DEF Lists
  <2>2. DOMAIN audit[list.rule] \subseteq DOMAIN audit'[list.rule]
    BY <1>0, <2>1, RowsOfRuleStay
  <2> QED
    BY <1>1, <2>2 DEF Places, Selected
<1>2. CASE list.of = "inbox"
  <2>1. \A k \in DOMAIN created : k \in DOMAIN created' /\ created'[k] = created[k]
    BY ListedNext
  <2>2. ASSUME NEW k \in DOMAIN created, InInbox(list.user, created[k])'
        PROVE  InInbox(list.user, created[k])
    <3>1. PICK r \in Rules, i \in Nat : created[k] = <<r, i>> /\ i \in DOMAIN approvals[r]
      BY ElementOfSeq DEF Listed
    <3>2. created'[k] = <<r, i>>
      BY <2>1, <3>1
    <3>3. Record(created[k]) = approvals[r][i] /\ Record(created[k])' = approvals'[r][i]
      BY <3>1, <3>2 DEF Record
    <3>4. approvals'[r][i].status = "pending"
      BY <2>2, <3>3 DEF InInbox
    <3>5. approvals'[r][i] = approvals[r][i]
      BY <1>0, <3>1, <3>4, OpenRecordsStay
    <3> QED
      BY <2>2, <3>3, <3>5 DEF InInbox
  <2> QED
    BY <1>2, <2>1, <2>2 DEF Places, Selected
<1> QED
  BY <1>1, <1>2

\* The page a client gets is all it lacked of what the page covers, and the
\* last page leaves only what came too late to be counted.
LEMMA FetchedPage ==
  ASSUME NEW N \in Nat, NEW S \in SUBSET (1..N), NEW p \in Nat \ {0}, NEW first, NEW seen,
         NEW left \in Nat, NEW late \in Nat, NEW total \in Nat,
         p # 1 => Cardinality(((first \cap S) \ seen) \cap Top(S, (p - 1) * PerPage)) <= left,
         Cardinality(S) <= total + late
  PROVE  LET missed == (first \cap S) \ (seen \cup Page(S, p)) IN
         /\ Cardinality(missed \cap Top(S, p * PerPage)) <= left
         /\ total <= p * PerPage => Cardinality(missed) <= left + late
<1> DEFINE n == p * PerPage
           m == (p - 1) * PerPage
           missed == (first \cap S) \ (seen \cup Page(S, p))
           A == missed \cap Top(S, n)
           B == S \ Top(S, n)
<1>1. /\ n \in Nat /\ m \in Nat
      /\ Top(S, n) = Top(S, m) \cup Page(S, p)
      /\ p = 1 => Top(S, n) = Page(S, p)
  BY PageFollows
<1>2. /\ IsFiniteSet(A) /\ Cardinality(A) \in Nat
      /\ IsFiniteSet(B) /\ Cardinality(B) \in Nat
      /\ IsFiniteSet(missed) /\ Cardinality(missed) \in Nat
  BY FiniteList
<1>3. Cardinality(A) <= left
  <2>1. CASE p = 1
    <3>1. A = {}
      BY <1>1, <2>1
    <3> QED
      BY <3>1, FS_EmptySet
  <2>2. CASE p # 1
    <3> DEFINE C == ((first \cap S) \ seen) \cap Top(S, m)
    <3>1. A \subseteq C /\ C \in SUBSET (1..N)
      BY <1>1
    <3>2. Cardinality(A) <= Cardinality(C) /\ Cardinality(C) \in Nat
      BY <3>1, FiniteList, FS_Subset
    <3>3. Cardinality(C) <= left
      BY <2>2
    <3> HIDE DEF A, C
    <3> QED
      BY <1>2, <3>2, <3>3
  <2> QED
    BY <2>1, <2>2
<1>4. ASSUME total <= n PROVE Cardinality(missed) <= left + late
  <2>1. Cardinality(S) <= n + late
    <3>1. Cardinality(S) \in Nat
      BY FiniteList
    <3> HIDE DEF n
    <3> QED
      BY <1>1, <1>4, <3>1
  <2>2. Cardinality(B) <= late
    <3> HIDE DEF n
    <3> QED
      BY <1>1, <2>1, BehindTheTop
  <2>3. missed \subseteq A \cup B
    OBVIOUS
  <2> HIDE DEF A, B, missed
  <2>4. /\ IsFiniteSet(A \cup B) /\ IsFiniteSet(A \cap B)
        /\ Cardinality(A \cup B) = Cardinality(A) + Cardinality(B) - Cardinality(A \cap B)
    BY <1>2, FS_Union, FS_Intersection
  <2>5. Cardinality(A \cup B) \in Nat /\ Cardinality(A \cap B) \in Nat
    BY <2>4, FS_CardinalityType
  <2>6. Cardinality(missed) <= Cardinality(A \cup B)
    BY <2>3, <2>4, FS_Subset
  <2> QED
    BY <1>2, <1>3, <2>2, <2>4, <2>5, <2>6
<1> QED
  BY <1>3, <1>4

\* What holds when a page has been got holds after it was turned, too.
LEMMA TurnedAccounted ==
  ASSUME NEW w, w = [f \in WalkFields |-> w[f]], w.page \in Nat \ {0},
         w.total \in Nat, w.left \in Nat, w.late \in Nat, w.first \subseteq Places(w.list),
         Cardinality(Missing(w) \cap Top(Selected(w.list), w.page * PerPage)) <= w.left,
         w.total <= w.page * PerPage => Cardinality(Missing(w)) <= w.left + w.late,
         walk' = Turned(w), UNCHANGED <<vars, created>>
  PROVE  WalkInv'
<1>1. /\ walk'.list = w.list /\ walk'.total = w.total /\ walk'.first = w.first
      /\ walk'.seen = w.seen /\ walk'.left = w.left /\ walk'.late = w.late
  BY DEF Turned, WalkFields
<1>2. /\ Selected(walk.list)' = Selected(w.list) /\ Places(walk.list)' = Places(w.list)
      /\ Missing(walk)' = Missing(w)
  <2>1. created' = created /\ approvals' = approvals /\ audit' = audit
    BY DEF vars
  <2>2. Selected(walk.list)' = Selected(w.list)
    BY <1>1, <2>1 DEF Selected, InInbox, Record
  <2>3. Places(walk.list)' = Places(w.list)
    BY <1>1, <2>1 DEF Places
  <2> QED
    BY <1>1, <2>2, <2>3 DEF Missing
<1>3. w.page * PerPage \in Nat
  BY PageFollows
<1>4. CASE w.page * PerPage < w.total
  <2>1. walk'.step = "count" /\ walk'.page = w.page + 1
    BY <1>4 DEF Turned, WalkFields
  <2>2. walk'.page # 1 /\ walk'.page - 1 = w.page
    BY <2>1
  <2>3. Covered(walk)' = w.page * PerPage
    BY <2>1, <2>2 DEF Covered
  <2> QED
    BY <1>1, <1>2, <2>1, <2>2, <2>3 DEF WalkInv, Accounted, Top, Rank
<1>5. CASE ~(w.page * PerPage < w.total)
  <2>1. walk'.step = "done"
    BY <1>5 DEF Turned, WalkFields
  <2>2. w.total <= w.page * PerPage
    BY <1>3, <1>5
  <2> QED
    BY <1>1, <1>2, <2>1, <2>2 DEF WalkInv, Accounted
<1> QED
  BY <1>4, <1>5

\* What the review does to a walk that is under way.
LEMMA WatchedNext ==
  ASSUME TypeOK, RecordsFit, RecordsFit', Listed, TypeOK', Listed', Review,
         Walking, walk # NoWalk, Accounted(walk),
         NEW list \in Lists, list = walk.list, walk' = Watched(list),
         walk.step \notin {"idle", "done"}
  PROVE  Accounted(walk)'
<1> DEFINE S == Selected(list)
           T == Selected(list)'
           first == walk.first
           seen == walk.seen
<1>0. Numbered /\ Numbered'
  <2>1. (TypeOK /\ Listed => Numbered)'
    BY PlacesNumbered, PTL
  <2> QED
    BY <2>1, PlacesNumbered
<1>1. PICK N \in Nat : Places(list)' = 1..N /\ T \in SUBSET (1..N)
  BY <1>0 DEF Numbered
<1>2. /\ Places(list) \subseteq Places(list)'
      /\ T \cap Places(list) \subseteq S
  BY SelectedMoves
<1>3. PICK M \in Nat : Places(list) = 1..M /\ S \in SUBSET (1..M)
  BY <1>0 DEF Numbered
<1>4. S \in SUBSET (1..N) /\ first \cap T \subseteq S
  BY <1>1, <1>2, <1>3 DEF Accounted
<1>5. /\ IsFiniteSet(S) /\ IsFiniteSet(T) /\ IsFiniteSet(S \ T) /\ IsFiniteSet(T \ S)
      /\ Cardinality(S) \in Nat /\ Cardinality(T) \in Nat
      /\ Cardinality(S \ T) \in Nat /\ Cardinality(T \ S) \in Nat
  BY <1>1, <1>4, FiniteList
<1> PICK late :
      late = IF walk.step = "fetch" THEN walk.late + Cardinality(T \ S) ELSE walk.late
  OBVIOUS
<1>6. walk' = [walk EXCEPT !.left = walk.left + Cardinality(S \ T), !.late = late]
  BY DEF Watched
<1>7. /\ walk'.step = walk.step /\ walk'.list = list /\ walk'.page = walk.page
      /\ walk'.total = walk.total /\ walk'.first = first /\ walk'.seen = seen
      /\ walk'.left = walk.left + Cardinality(S \ T) /\ walk'.late = late
  BY <1>6 DEF Walking, WalkFields
<1>8. /\ Selected(walk.list)' = T /\ Places(walk.list)' = Places(list)'
      /\ Missing(walk)' = (first \cap T) \ seen /\ Covered(walk)' = Covered(walk)
  <2>1. Selected(walk.list)' = T
    BY <1>7 DEF Selected, InInbox
  <2>2. Places(walk.list)' = Places(list)'
    BY <1>7 DEF Places
  <2>3. Covered(walk)' = Covered(walk)
    BY <1>7 DEF Covered
  <2> HIDE DEF T
  <2> QED
    BY <1>7, <2>1, <2>2, <2>3 DEF Missing
<1>9. Covered(walk) \in Nat
  <2>1. walk.page \in Nat \ {0}
    BY DEF Walking
  <2>2. (walk.page - 1) * PerPage \in Nat /\ walk.page * PerPage \in Nat
    BY <1>3, <2>1, PageFollows
  <2> QED
    BY <2>2 DEF Covered
<1>10. /\ walk.left \in Nat /\ walk.late \in Nat /\ walk.total \in Nat
       /\ first \subseteq Places(list)
       /\ Missing(walk) = (first \cap S) \ seen
  BY DEF Accounted, Missing
<1>11. late \in Nat /\ late >= walk.late
  BY <1>5, <1>10
<1> HIDE DEF S, T, first, seen
<1>12. Cardinality(((first \cap T) \ seen) \cap Top(T, Covered(walk)))
         <= walk.left + Cardinality(S \ T)
  BY <1>1, <1>4, <1>9, <1>10, MissedAfterMove DEF Accounted, S
<1>13. walk.step = "fetch" => Cardinality(T) <= walk.total + late
  <2> SUFFICES ASSUME walk.step = "fetch" PROVE Cardinality(T) <= walk.total + late
    OBVIOUS
  <2>1. Cardinality(S) <= walk.total + walk.late
    BY DEF Accounted, S
  <2>2. T \subseteq S \cup (T \ S) /\ S \cap (T \ S) = {}
    OBVIOUS
  <2>3. IsFiniteSet(S \cup (T \ S)) /\ Cardinality(S \cup (T \ S)) \in Nat
        /\ Cardinality(S \cup (T \ S)) = Cardinality(S) + Cardinality(T \ S) - Cardinality({})
    BY <1>5, <2>2, FS_Union, FS_CardinalityType
  <2>4. Cardinality(T) <= Cardinality(S \cup (T \ S)) /\ Cardinality({}) = 0
    BY <2>2, <2>3, FS_Subset, FS_EmptySet
  <2> QED
    BY <1>5, <1>10, <2>1, <2>3, <2>4
<1>14. Cardinality(Missing(walk)) <= walk.left + walk.late =>
         Cardinality((first \cap T) \ seen) <= walk.left + Cardinality(S \ T) + late
  <2>1. IsFiniteSet(Missing(walk)) /\ Cardinality(Missing(walk)) \in Nat
    BY <1>4, <1>10, FiniteList
  <2>2. (first \cap T) \ seen \subseteq Missing(walk)
    BY <1>4, <1>10
  <2>3. /\ Cardinality((first \cap T) \ seen) <= Cardinality(Missing(walk))
        /\ Cardinality((first \cap T) \ seen) \in Nat
    BY <2>1, <2>2, FinitePart
  <2> QED
    BY <1>5, <1>10, <1>11, <2>1, <2>3
<1>15. walk.left + Cardinality(S \ T) \in Nat
  BY <1>5, <1>10
<1>16. walk.step # "done"
  OBVIOUS
<1>17. Top(Selected(walk.list), Covered(walk))' = Top(T, Covered(walk))
  BY <1>8 DEF Top, Rank
<1>18. Cardinality(Missing(walk) \cap Top(Selected(walk.list), Covered(walk)))' <= walk'.left
  BY <1>7, <1>8, <1>12, <1>17
<1>19. walk'.page = 1 /\ walk'.step \in {"count", "fetch"} => walk'.first = {}
  BY <1>7 DEF Accounted, first
<1>20. walk'.step = "done" \/ (walk'.step = "answer" /\ walk'.total <= Covered(walk)') =>
         Cardinality(Missing(walk))' <= walk'.left + walk'.late
  BY <1>7, <1>8, <1>14, <1>16 DEF Accounted
<1>21. walk'.first \subseteq Places(walk.list)'
  BY <1>2, <1>7, <1>8, <1>10
<1>22. walk'.step = "fetch" => Cardinality(Selected(walk.list))' <= walk'.total + walk'.late
  BY <1>7, <1>8, <1>13
<1>23. walk'.total \in Nat /\ walk'.left \in Nat /\ walk'.late \in Nat
  BY <1>7, <1>10, <1>11, <1>15
<1> QED
  BY <1>18, <1>19, <1>20, <1>21, <1>22, <1>23 DEF Accounted

LEMMA WalkNext ==
  ASSUME TypeOK, TypeOK', RecordsFit, RecordsFit', Listed, Listed', Walking, WalkInv,
         [NextQueries]_queryVars
  PROVE  WalkInv'
<1>1. ASSUME UNCHANGED walk, walk # NoWalk => walk.step = "done", Review
      PROVE  WalkInv'
  <2> SUFFICES ASSUME walk # NoWalk PROVE Accounted(walk)'
    BY <1>1 DEF WalkInv
  <2> PICK list \in Lists : list = walk.list
    BY DEF Walking
  <2>1. /\ Places(list) \subseteq Places(list)'
        /\ Selected(list)' \cap Places(list) \subseteq Selected(list)
    BY <1>1, SelectedMoves
  <2>2. PICK N \in Nat : Selected(list) \in SUBSET (1..N)
    BY PlacesNumbered DEF Numbered
  <2>3. Accounted(walk) /\ walk.step = "done"
    BY <1>1 DEF WalkInv
  <2>4. /\ Places(walk.list)' = Places(list)' /\ Selected(walk.list)' = Selected(list)'
        /\ Missing(walk)' = (walk.first \cap Selected(list)') \ walk.seen
    BY <1>1 DEF Places, Selected, Missing, InInbox
  <2>5. Missing(walk)' \subseteq Missing(walk)
    BY <2>1, <2>3, <2>4 DEF Accounted, Missing
  <2>6. IsFiniteSet(Missing(walk)) /\ Cardinality(Missing(walk)) \in Nat
    BY <2>2, FiniteList DEF Missing
  <2>7. /\ Cardinality(Missing(walk)') \in Nat
        /\ Cardinality(Missing(walk)') <= Cardinality(Missing(walk))
    BY <2>5, <2>6, FinitePart
  <2>8. Cardinality(Missing(walk)') <= walk.left + walk.late
    BY <2>3, <2>6, <2>7 DEF Accounted
  <2>9. walk.first \subseteq Places(walk.list)'
    BY <2>1, <2>3, <2>4 DEF Accounted
  <2> QED
    BY <1>1, <2>3, <2>8, <2>9 DEF Accounted
<1>2. CASE Review
  <2>1. CASE walk.step \in {"idle", "done"}
    BY <1>1, <1>2, <2>1 DEF Review, Walking, NoWalk
  <2>2. CASE walk.step \notin {"idle", "done"}
    <3>1. PICK list \in Lists : list = walk.list /\ walk' = Watched(list)
      BY <1>2, <2>2 DEF Review
    <3>2. walk # NoWalk
      BY <2>2 DEF NoWalk
    <3> QED
      BY <1>2, <2>2, <3>1, <3>2, WatchedNext DEF WalkInv
  <2> QED
    BY <2>1, <2>2
<1>3. CASE UNCHANGED queryVars
  BY <1>3 DEF WalkInv, Accounted, Missing, Covered, Top, Rank, Places, Selected, InInbox,
              Record, queryVars
<1>4. ASSUME NEW u \in Users, NEW list \in Lists, StartWalk(u, list)
      PROVE  WalkInv'
  <2>1. /\ walk'.step = "count" /\ walk'.first = {} /\ walk'.total = 0
        /\ walk'.left = 0 /\ walk'.late = 0
    BY <1>4 DEF StartWalk
  <2>2. Missing(walk)' = {}
    BY <2>1 DEF Missing
  <2>3. Cardinality(Missing(walk) \cap Top(Selected(walk.list), Covered(walk)))' = 0
    BY <2>2, FS_EmptySet
  <2> QED
    BY <2>1, <2>3 DEF WalkInv, Accounted
<1>5. CASE Count \/ FetchTrail \/ FetchInbox \/ AnswerInbox
  <2>1. /\ walk # NoWalk /\ Accounted(walk) /\ walk.list \in Lists /\ walk.page \in Nat \ {0}
        /\ walk = [f \in WalkFields |-> walk[f]]
    BY <1>5 DEF WalkInv, Walking, NoWalk, Count, FetchTrail, FetchInbox, AnswerInbox
  <2>2. UNCHANGED <<vars, created>>
    BY <1>5 DEF Count, FetchTrail, FetchInbox, AnswerInbox
  <2> DEFINE S == Selected(walk.list)
             n == walk.page * PerPage
  <2>3. PICK N \in Nat : Places(walk.list) = 1..N /\ S \in SUBSET (1..N)
    <3> PICK list \in Lists : list = walk.list
      BY <2>1
    <3>1. PICK N \in Nat : Places(list) = 1..N /\ Selected(list) \in SUBSET (1..N)
      BY PlacesNumbered DEF Numbered
    <3> QED
      BY <3>1
  <2>4. CASE Count
    <3>1. /\ walk.step = "count" /\ walk'.step = "fetch" /\ walk'.late = 0
          /\ walk'.total = Cardinality(S) /\ walk'.list = walk.list
          /\ walk'.page = walk.page /\ walk'.first = walk.first
          /\ walk'.seen = walk.seen /\ walk'.left = walk.left
      BY <2>1, <2>4 DEF Count, WalkFields
    <3>2. /\ Selected(walk.list)' = S /\ Places(walk.list)' = Places(walk.list)
          /\ Missing(walk)' = Missing(walk) /\ Covered(walk)' = Covered(walk)
      <4>1. created' = created /\ approvals' = approvals /\ audit' = audit
        BY <2>2 DEF vars
      <4>2. Selected(walk.list)' = S
        BY <3>1, <4>1 DEF Selected, InInbox, Record
      <4>3. Places(walk.list)' = Places(walk.list)
        BY <3>1, <4>1 DEF Places
      <4> QED
        BY <3>1, <4>2, <4>3 DEF Missing, Covered
    <3>3. Cardinality(S) \in Nat
      BY <2>3, FiniteList
    <3>4. Top(Selected(walk.list), Covered(walk))' = Top(S, Covered(walk))
      BY <3>2 DEF Top, Rank
    <3>5. Cardinality(Missing(walk) \cap Top(Selected(walk.list), Covered(walk)))' <= walk.left
      BY <2>1, <3>1, <3>2, <3>4 DEF Accounted
    <3>6. Cardinality(Selected(walk.list))' <= walk'.total + walk'.late
      BY <3>1, <3>2, <3>3
    <3> QED
      BY <2>1, <3>1, <3>2, <3>3, <3>5, <3>6 DEF WalkInv, Accounted
  <2>5. CASE FetchTrail \/ FetchInbox
    <3> DEFINE w == Fetched(S)
               first == IF walk.page = 1 THEN S ELSE walk.first
               left == IF walk.page = 1 THEN 0 ELSE walk.left
    <3>1. walk.step = "fetch"
      BY <2>5 DEF FetchTrail, FetchInbox
    <3>2. /\ w = [f \in WalkFields |-> w[f]]
          /\ w.seen = walk.seen \cup Page(S, walk.page) /\ w.first = first /\ w.left = left
          /\ w.list = walk.list /\ w.page = walk.page /\ w.total = walk.total
          /\ w.late = walk.late
      BY <2>1 DEF Fetched, WalkFields
    <3>3. /\ walk.total \in Nat /\ left \in Nat /\ walk.late \in Nat
          /\ first \subseteq Places(walk.list)
          /\ Cardinality(S) <= walk.total + walk.late
      BY <2>1, <2>3, <3>1 DEF Accounted
    <3>4. walk.page # 1 =>
            Cardinality(((first \cap S) \ walk.seen) \cap Top(S, (walk.page - 1) * PerPage))
              <= left
      BY <2>1, <3>1 DEF Accounted, Missing, Covered
    <3> HIDE DEF w, first, left, S
    <3>5. Missing(w) = (first \cap S) \ (walk.seen \cup Page(S, walk.page))
      BY <3>2 DEF Missing, S
    <3>6. /\ Cardinality(Missing(w) \cap Top(S, n)) <= left
          /\ walk.total <= n => Cardinality(Missing(w)) <= left + walk.late
      BY <2>1, <2>3, <3>3, <3>4, <3>5, FetchedPage
    <3>7. CASE FetchTrail
      <4>1. walk' = Turned(w)
        BY <3>7 DEF FetchTrail, w, S
      <4>2. Selected(w.list) = S /\ Places(w.list) = Places(walk.list)
        BY <3>2 DEF S, Selected, Places, InInbox, Record
      <4> QED
        BY <2>1, <2>2, <3>2, <3>3, <3>6, <4>1, <4>2, TurnedAccounted
    <3>8. CASE FetchInbox
      <4>1. PICK items : walk' = [w EXCEPT !.step = "answer", !.rows = items]
        BY <3>8 DEF FetchInbox, w, S
      <4>2. /\ walk'.step = "answer" /\ walk'.list = walk.list /\ walk'.page = walk.page
            /\ walk'.total = walk.total /\ walk'.first = first /\ walk'.seen = w.seen
            /\ walk'.left = left /\ walk'.late = walk.late
        BY <3>2, <4>1 DEF WalkFields
      <4>3. /\ Selected(walk.list)' = S /\ Places(walk.list)' = Places(walk.list)
            /\ Missing(walk)' = Missing(w) /\ Covered(walk)' = n
        <5>1. created' = created /\ approvals' = approvals /\ audit' = audit
          BY <2>2 DEF vars
        <5>2. Selected(walk.list)' = S
          BY <4>2, <5>1 DEF Selected, InInbox, Record, S
        <5>3. Places(walk.list)' = Places(walk.list)
          BY <4>2, <5>1 DEF Places
        <5>4. Missing(walk)' = Missing(w)
          BY <3>2, <3>5, <4>2, <5>2 DEF Missing
        <5> QED
          BY <4>2, <5>2, <5>3, <5>4 DEF Covered
      <4>4. Top(Selected(walk.list), Covered(walk))' = Top(S, n)
        BY <4>3 DEF Top, Rank
      <4> QED
        BY <3>3, <3>6, <4>2, <4>3, <4>4 DEF WalkInv, Accounted
    <3> QED
      BY <2>5, <3>7, <3>8
  <2>6. CASE AnswerInbox
    <3>1. walk.step = "answer" /\ walk' = Turned(walk)
      BY <2>6 DEF AnswerInbox
    <3>2. /\ Cardinality(Missing(walk) \cap Top(Selected(walk.list), n)) <= walk.left
          /\ walk.total <= n => Cardinality(Missing(walk)) <= walk.left + walk.late
      BY <2>1, <3>1 DEF Accounted, Covered
    <3>3. PICK w : w = walk
      OBVIOUS
    <3> QED
      BY <2>1, <2>2, <3>1, <3>2, TurnedAccounted DEF Accounted
  <2> QED
    BY <1>5, <2>4, <2>5, <2>6
<1> QED
  BY <1>2, <1>3, <1>4, <1>5 DEF NextQueries

-----------------------------------------------------------------------------
\* The items of an answer

LEMMA DraftsNext == TypeOK /\ DraftsAreNew /\ [Next]_vars => DraftsAreNew'
<1> SUFFICES ASSUME TypeOK, DraftsAreNew, [Next]_vars, NEW r \in Rules, status'[r] = "draft"
             PROVE  approvals'[r] = << >>
  BY DEF DraftsAreNew
<1>1. CASE Rests(r)
  BY <1>1 DEF Rests, DraftsAreNew
<1>2. CASE IsAgreed(r)
  <2>1. approvals[r] = << >>
    BY <1>2 DEF IsAgreed, DraftsAreNew
  <2> QED
    BY <1>2, <2>1 DEF IsAgreed
<1>3. CASE IsSubmitted(r) \/ IsActivated(r) \/ IsRejected(r) \/ IsSwept(r)
  BY <1>3 DEF IsSubmitted, IsActivated, IsRejected, IsSwept, Logs
<1> QED
  BY <1>1, <1>2, <1>3, RuleSteps

\* A record of the pending list belongs to a rule that is no draft and not in
\* force, so the answer that takes both from one SELECT shows no such rule.
LEMMA ItemsNext ==
  ASSUME ReviewInv, DraftsAreNew, Listed, Walking, ItemsAgree, [NextQueries]_queryVars
  PROVE  ItemsAgree'
<1>1. CASE UNCHANGED walk
  BY <1>1 DEF ItemsAgree
<1>2. ASSUME walk # NoWalk, walk' = [f \in WalkFields |-> walk'[f]], walk'.rows = walk.rows
      PROVE  ItemsAgree'
  BY <1>2 DEF ItemsAgree, Walking
<1>3. ASSUME NEW w, w = [f \in WalkFields |-> w[f]], w.rows = walk.rows, walk # NoWalk,
             walk' = Turned(w)
      PROVE  ItemsAgree'
  <2>1. walk' = [f \in WalkFields |-> walk'[f]] /\ walk'.rows = walk.rows
    <3>1. PICK a, b : walk' = [w EXCEPT !.step = a, !.page = b] \/ walk' = [w EXCEPT !.step = a]
      BY <1>3 DEF Turned
    <3> QED
      BY <1>3, <3>1 DEF WalkFields
  <2> QED
    BY <1>2, <1>3, <2>1
<1>4. CASE Review
  <2>1. CASE walk.step \in {"idle", "done"}
    BY <1>1, <1>4, <2>1 DEF Review
  <2>2. CASE walk.step \notin {"idle", "done"}
    <3>1. PICK list \in Lists : walk' = Watched(list)
      BY <1>4, <2>2 DEF Review
    <3>2. PICK a, b : walk' = [walk EXCEPT !.left = a, !.late = b]
      BY <3>1 DEF Watched
    <3>3. walk # NoWalk /\ walk = [f \in WalkFields |-> walk[f]]
      BY <2>2 DEF Walking, NoWalk
    <3> QED
      BY <1>2, <3>2, <3>3 DEF WalkFields
  <2> QED
    BY <2>1, <2>2
<1>5. ASSUME NEW u \in Users, NEW list \in Lists, StartWalk(u, list)
      PROVE  ItemsAgree'
  BY <1>5 DEF StartWalk, ItemsAgree
<1>6. CASE Count \/ FetchTrail \/ FetchInbox \/ AnswerInbox
  <2>1. walk = [f \in WalkFields |-> walk[f]] /\ walk # NoWalk
    BY <1>6 DEF Walking, NoWalk, Count, FetchTrail, FetchInbox, AnswerInbox
  <2>2. CASE Count
    <3>1. PICK a, t : walk' = [walk EXCEPT !.step = "fetch", !.late = a, !.total = t]
      BY <2>2 DEF Count
    <3> QED
      BY <1>2, <2>1, <3>1 DEF WalkFields
  <2>3. ASSUME NEW rows, NEW w, w = Fetched(rows)
        PROVE  w = [f \in WalkFields |-> w[f]] /\ w.rows = walk.rows
    <3>1. PICK a, b, c : w = [walk EXCEPT !.seen = a, !.first = b, !.left = c]
      BY <2>3 DEF Fetched
    <3> QED
      BY <2>1, <3>1 DEF WalkFields
  <2>4. CASE FetchTrail
    BY <1>3, <2>1, <2>3, <2>4 DEF FetchTrail
  <2>5. CASE AnswerInbox
    BY <1>3, <2>1, <2>5 DEF AnswerInbox
  <2>6. CASE FetchInbox
    <3> DEFINE items == {[id |-> k, rule_status |-> status[created[k][1]]] :
                           k \in Page(Selected(walk.list), walk.page)}
               w == Fetched(Selected(walk.list))
    <3>1. walk.list.of = "inbox" /\ walk' = [w EXCEPT !.step = "answer", !.rows = items]
      BY <2>6 DEF FetchInbox
    <3>2. walk'.rows = items
      BY <2>3, <3>1 DEF WalkFields
    <3>3. ASSUME NEW k \in Page(Selected(walk.list), walk.page)
          PROVE  status[created[k][1]] \notin {"draft", "active"}
      <4>1. k \in DOMAIN created /\ Record(created[k]).status = "pending"
        BY <3>1, <3>3 DEF Page, Selected, InInbox
      <4>2. PICK r \in Rules, i \in Nat : created[k] = <<r, i>> /\ i \in DOMAIN approvals[r]
        BY <4>1, ElementOfSeq DEF Listed
      <4>3. approvals[r][i].status = "pending"
        BY <4>1, <4>2 DEF Record
      <4>4. status[r] # "active"
        BY <4>2, <4>3 DEF ReviewInv, ActiveIsSettled, Open
      <4>5. status[r] # "draft"
        BY <4>2 DEF DraftsAreNew
      <4> QED
        BY <4>2, <4>4, <4>5
    <3> QED
      BY <3>2, <3>3 DEF ItemsAgree
  <2> QED
    BY <1>6, <2>2, <2>4, <2>5, <2>6
<1> QED
  BY <1>1, <1>4, <1>5, <1>6 DEF NextQueries, queryVars

-----------------------------------------------------------------------------
\* The theorems

QueriesInv == /\ ReviewInv /\ DraftsAreNew /\ RecordsFit /\ Listed
              /\ Walking /\ WalkInv /\ ItemsAgree

LEMMA QueriesInit == InitQueries => QueriesInv
<1> SUFFICES ASSUME InitQueries PROVE QueriesInv
  OBVIOUS
<1>1. ReviewInv /\ RecordsFit
  BY InitReview, FitInit DEF InitQueries
<1>2. DraftsAreNew /\ Listed
  BY EmptySeq DEF InitQueries, Init, DraftsAreNew, Listed
<1>3. Walking /\ WalkInv /\ ItemsAgree
  BY DEF InitQueries, Walking, WalkInv, ItemsAgree, NoWalk
<1> QED
  BY <1>1, <1>2, <1>3 DEF QueriesInv

LEMMA QueriesNext == QueriesInv /\ [NextQueries]_queryVars => QueriesInv'
<1> SUFFICES ASSUME QueriesInv, [NextQueries]_queryVars PROVE QueriesInv'
  OBVIOUS
<1>1. [Next]_vars
  BY DEF NextQueries, Review, StartWalk, Count, FetchTrail, FetchInbox, AnswerInbox,
         queryVars, vars
<1>2. ReviewInv' /\ DraftsAreNew'
  BY <1>1, NextReview, DraftsNext DEF QueriesInv, ReviewInv
<1>3. RecordsFit' /\ Walking' /\ ItemsAgree'
  BY FitNext, WalkingNext, ItemsNext DEF QueriesInv
<1>4. Listed'
  <2>1. CASE Review
    BY <1>3, <2>1, ListedNext DEF QueriesInv
  <2>2. CASE UNCHANGED <<approvals, created>>
    BY <2>2 DEF QueriesInv, Listed
  <2>3. ASSUME \/ \E u \in Users, list \in Lists : StartWalk(u, list)
               \/ Count \/ FetchTrail \/ FetchInbox \/ AnswerInbox
        PROVE  UNCHANGED <<approvals, created>>
    BY <2>3 DEF StartWalk, Count, FetchTrail, FetchInbox, AnswerInbox, vars
  <2> QED
    BY <2>1, <2>2, <2>3 DEF NextQueries, queryVars
<1>5. WalkInv'
  BY <1>2, <1>3, <1>4, WalkNext DEF QueriesInv, ReviewInv
<1> QED
  BY <1>2, <1>3, <1>4, <1>5 DEF QueriesInv

LEMMA QueriesInvariant == SpecQueries => []QueriesInv
BY QueriesInit, QueriesNext, PTL DEF SpecQueries

\* The list of pending approvals is drawn from the records there are: each
\* stands in the order of creation once, behind the earlier ones of its rule.
THEOREM ListsAreWellFormed == SpecQueries => []TypeOKQueries
<1>1. ASSUME QueriesInv PROVE TypeOKQueries
  <2>1. \A k \in DOMAIN created : /\ created[k] = <<created[k][1], created[k][2]>>
                                  /\ created[k][1] \in Rules /\ created[k][2] \in Nat
                                  /\ created[k][2] \in DOMAIN approvals[created[k][1]]
    BY <1>1, ElementOfSeq DEF QueriesInv, Listed
  <2>2. {created[k] : k \in DOMAIN created} =
          UNION {{<<r, i>> : i \in DOMAIN approvals[r]} : r \in Rules}
    BY <1>1, <2>1 DEF QueriesInv, Listed
  <2>3. ASSUME NEW j \in DOMAIN created, NEW k \in DOMAIN created, j # k
        PROVE  created[j] # created[k]
    <3>1. j \in Int /\ k \in Int
      BY <1>1 DEF QueriesInv, Listed
    <3>2. j < k \/ k < j
      BY <2>3, <3>1
    <3>3. created[j][2] \in Int /\ created[k][2] \in Int
      BY <2>1
    <3> QED
      BY <1>1, <3>2, <3>3 DEF QueriesInv, Listed
  <2>4. /\ walk.step \in {"idle", "count", "fetch", "answer", "done"}
        /\ walk # NoWalk => walk.list \in Lists /\ walk.page \in Nat \ {0}
    BY <1>1 DEF QueriesInv, Walking, NoWalk
  <2> QED
    BY <1>1, <2>2, <2>3, <2>4 DEF TypeOKQueries, QueriesInv, Listed
<1> QED
  BY <1>1, QueriesInvariant, PTL

\* An answer of get_pending_approvals never shows a pending record beside a
\* rule that is a draft or in force.
THEOREM AnswersAgree == SpecQueries => []ItemsAgree
BY QueriesInvariant, PTL DEF QueriesInv

\* Whoever reads a list to its end misses no more of the rows that were there
\* all the time than left it meanwhile or came between a count and its page.
THEOREM PagingMissesOnlyMoved == SpecQueries => []WalkMissesOnlyMoved
<1>1. ASSUME QueriesInv PROVE WalkMissesOnlyMoved
  <2> SUFFICES ASSUME walk.step = "done" PROVE Cardinality(Missing(walk)) <= walk.left + walk.late
    BY DEF WalkMissesOnlyMoved, Missing
  <2>1. walk # NoWalk
    BY DEF NoWalk
  <2> QED
    BY <1>1, <2>1 DEF QueriesInv, WalkInv, Accounted
<1> QED
  BY <1>1, QueriesInvariant, PTL

\* A list that loses no row while it is read, and gets none between a count
\* and its page, is read whole, whatever else comes in.
THEOREM QuietListsAreReadWhole ==
  SpecQueries =>
    [](walk.step = "done" /\ walk.left = 0 /\ walk.late = 0 =>
         walk.first \cap Selected(walk.list) \subseteq walk.seen)
<1>1. ASSUME QueriesInv, walk.step = "done", walk.left = 0, walk.late = 0
      PROVE  walk.first \cap Selected(walk.list) \subseteq walk.seen
  <2>1. walk # NoWalk /\ walk.list \in Lists
    BY <1>1 DEF QueriesInv, Walking, NoWalk
  <2>2. Cardinality(Missing(walk)) <= 0
    BY <1>1, <2>1 DEF QueriesInv, WalkInv, Accounted
  <2>3. PICK N \in Nat : Selected(walk.list) \in SUBSET (1..N)
    BY <1>1, <2>1, PlacesNumbered DEF QueriesInv, ReviewInv, Numbered
  <2>4. IsFiniteSet(Missing(walk)) /\ Cardinality(Missing(walk)) \in Nat
    BY <2>3, FiniteList DEF Missing
  <2>5. Cardinality(Missing(walk)) = 0
    BY <2>2, <2>4
  <2>6. Missing(walk) = {}
    BY <2>4, <2>5, FS_EmptySet
  <2> QED
    BY <2>6 DEF Missing
<1> QED
  BY <1>1, QueriesInvariant, PTL
=============================================================================
