--------------------------- MODULE ReviewQueries ---------------------------
(***************************************************************************)
(* The two lists of the review a client reads page by page while the       *)
(* review goes on: the pending records of a user (get_pending_approvals)   *)
(* and the audit rows of a rule (get_logs).  A request is two SELECTs,     *)
(* first the number of rows and then one page of them, and every SELECT    *)
(* sees what is committed when it runs.  The newest row comes first, so a  *)
(* new one moves all others back and one that leaves moves those behind it *)
(* forward, under the feet of the client.                                  *)
(***************************************************************************)
EXTENDS ApprovalWorkflow

CONSTANT PerPage      \* the parameter per_page

ASSUME PerPageAssumption == PerPage \in Nat \ {0}

VARIABLES
  created,   \* <<rule, index>> of every approval record, in the order of created_at
  walk       \* the client: which list and page it reads and what it has got

queryVars == <<status, is_active, workload, submitted_at, approved_at,
               approvals, audit, today, created, walk>>

Lists == [of : {"inbox"}, user : Users] \cup [of : {"trail"}, rule : Rules]
NoWalk == [step |-> "idle"]

-----------------------------------------------------------------------------
\* What the queries select

Record(e) == approvals[e[1]][e[2]]

\* Mutant of InInbox: an approver sees every record of that role's rules.
InInbox_AnyOpen(u, e) == Record(e).status = "pending"
\* The WHERE clause of get_pending_approvals.
InInbox(u, e) == /\ Record(e).status = "pending"
                 /\ Record(e).approver_id = u \/ RoleOf[u] = "admin"

\* The rows a query selects, by their places in the order of created_at or of
\* timestamp (get_rule_audit_history asks for the rows of one rule).
Selected(list) ==
  IF list.of = "inbox" THEN {k \in DOMAIN created : InInbox(list.user, created[k])}
                       ELSE DOMAIN audit[list.rule]

\* The position of a row, counted from 1: both lists are ordered descending.
Rank(rows, k) == Cardinality({j \in rows : j >= k})

\* Mutant of Page: the offset counts pages from zero.
Page_ZeroBased(rows, p) ==
  {k \in rows : p * PerPage < Rank(rows, k) /\ Rank(rows, k) <= (p + 1) * PerPage}
\* OFFSET (page - 1) * per_page LIMIT per_page
Page(rows, p) ==
  {k \in rows : (p - 1) * PerPage < Rank(rows, k) /\ Rank(rows, k) <= p * PerPage}

-----------------------------------------------------------------------------
\* The client asks for one page after the other until the latest total says
\* that there is no further one.

InitQueries == Init /\ created = << >> /\ walk = NoWalk

\* get_current_user admits the reader of either list.
StartWalk(u, list) ==
  /\ walk = NoWalk
  /\ Authenticated(u)
  /\ list.of = "inbox" => list.user = u
  /\ walk' = [step |-> "count", list |-> list, page |-> 1, total |-> 0,
              rows |-> {}, seen |-> {}, first |-> {}, left |-> 0, late |-> 0]
  /\ UNCHANGED <<vars, created>>

Count ==
  /\ walk.step = "count"
  /\ walk' = [walk EXCEPT !.step = "fetch", !.late = 0,
                          !.total = Cardinality(Selected(walk.list))]
  /\ UNCHANGED <<vars, created>>

\* The page is answered; the client turns it or is done.
Turned(w) == IF w.page * PerPage < w.total
               THEN [w EXCEPT !.step = "count", !.page = @ + 1]
               ELSE [w EXCEPT !.step = "done"]

Fetched(rows) ==
  [walk EXCEPT !.seen = @ \cup Page(rows, walk.page),
               !.first = IF walk.page = 1 THEN rows ELSE @,
               !.left = IF walk.page = 1 THEN 0 ELSE @]

FetchTrail ==
  /\ walk.step = "fetch" /\ walk.list.of = "trail"
  /\ walk' = Turned(Fetched(Selected(walk.list)))
  /\ UNCHANGED <<vars, created>>

\* A record comes with its rule (joinedload), in the same statement.
FetchInbox ==
  /\ walk.step = "fetch" /\ walk.list.of = "inbox"
  /\ LET rows == Selected(walk.list) IN
     walk' = [Fetched(rows) EXCEPT
                !.step = "answer",
                !.rows = {[id |-> k, rule_status |-> status[created[k][1]]] :
                            k \in Page(rows, walk.page)}]
  /\ UNCHANGED <<vars, created>>

\* Mutant of AnswerInbox: the second SELECT refreshes the rules.
AnswerInbox_Refreshes ==
  /\ walk.step = "answer"
  /\ walk' = [Turned(walk) EXCEPT
                !.rows = {[row EXCEPT !.rule_status = status[created[row.id][1]]] : row \in @}]
  /\ UNCHANGED <<vars, created>>

\* The handler selects each rule once more, but the session has it already
\* and keeps the attributes it loaded.
AnswerInbox ==
  /\ walk.step = "answer"
  /\ walk' = Turned(walk)
  /\ UNCHANGED <<vars, created>>

-----------------------------------------------------------------------------
\* The review goes on.  left counts the rows that left the list since its
\* first page was read, late the rows that came between a count and its page.

\* Mutant of NewRecords: the second record of a submission is created first.
NewRecords_Reversed(r) ==
  [k \in 1..(Len(approvals'[r]) - Len(approvals[r])) |-> <<r, Len(approvals'[r]) + 1 - k>>]
\* The records a submission adds, in the order of their creation.
NewRecords(r) ==
  [k \in 1..(Len(approvals'[r]) - Len(approvals[r])) |-> <<r, Len(approvals[r]) + k>>]

Watched(list) ==
  LET before == Selected(list)
      after  == Selected(list)'
  IN  [walk EXCEPT
         !.left = @ + Cardinality(before \ after),
         !.late = IF walk.step = "fetch" THEN @ + Cardinality(after \ before) ELSE @]

Review ==
  /\ Next
  /\ \/ /\ \A r \in Rules : NewRecords(r) = << >>
        /\ UNCHANGED created
     \/ \E r \in Rules : NewRecords(r) # << >> /\ created' = created \o NewRecords(r)
  /\ \/ /\ walk.step \in {"idle", "done"}
        /\ UNCHANGED walk
     \/ /\ walk.step \notin {"idle", "done"}
        /\ \E list \in Lists : list = walk.list /\ walk' = Watched(list)

NextQueries ==
  \/ Review
  \/ \E u \in Users, list \in Lists : StartWalk(u, list)
  \/ Count \/ FetchTrail \/ FetchInbox \/ AnswerInbox

SpecQueries == InitQueries /\ [][NextQueries]_queryVars

-----------------------------------------------------------------------------
\* Properties

\* Every record stands in the list once, where its creation put it.
TypeOKQueries ==
  /\ {created[k] : k \in DOMAIN created} =
       UNION {{<<r, i>> : i \in DOMAIN approvals[r]} : r \in Rules}
  /\ \A j, k \in DOMAIN created : j # k => created[j] # created[k]
  /\ \A j, k \in DOMAIN created :
       created[j][1] = created[k][1] /\ j < k => created[j][2] < created[k][2]
  /\ walk.step \in {"idle", "count", "fetch", "answer", "done"}
  /\ walk # NoWalk => walk.list \in Lists /\ walk.page \in Nat \ {0}

\* The list of get_pending_approvals and the guards of approve and reject
\* agree: whoever finds a record there may decide it, and an open record that
\* has an approver is found by an active user.
OpenRecordsReachSomeone ==
  \A r \in Rules : \A i \in DOMAIN approvals[r] :
    /\ \A u \in Users : InInbox(u, <<r, i>>) => MayDecide(u, approvals[r][i])
    /\ approvals[r][i].status = "pending" /\ approvals[r][i].approver_id # Unassigned =>
         \E u \in Users : Authenticated(u) /\ InInbox(u, <<r, i>>)

\* An answer never puts a pending record next to a rule in force or a draft,
\* although the handler reads the rule after the record and the record may be
\* decided in between.
ItemsAgree ==
  walk.step \in {"count", "fetch", "answer", "done"} =>
    \A row \in walk.rows : row.rule_status \notin {"draft", "active"}

\* Whoever reads a list to its end misses a row that was there all the time
\* only if another row left the list meanwhile, or came between the count and
\* the page it belongs to, and no more rows than did so.
WalkMissesOnlyMoved ==
  walk.step = "done" =>
    Cardinality((walk.first \cap Selected(walk.list)) \ walk.seen)
      <= walk.left + walk.late
=============================================================================
