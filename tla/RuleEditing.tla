---------------------------- MODULE RuleEditing ----------------------------
(***************************************************************************)
(* Editing, archiving and counting rules (FirewallRuleService, the routes  *)
(* /rules and /stats/dashboard) as several requests of one process do it   *)
(* at the same time.  A request waits for a connection of the pool, reads, *)
(* changes its copy of the rule and commits, which gives the connection    *)
(* back; update_rule and archive_rule then want one again to refresh their *)
(* copy.  A wait that lasts too long ends in an error, which may come      *)
(* after the commit.  Every statement is a point where others go on: the   *)
(* engine, its pool and the sessions of database.py are asynchronous.      *)
(*                                                                         *)
(* The session is the one of ReplicatedApproval: nothing is written before *)
(* the commit, and only the attributes that differ from what was loaded.   *)
(* get_current_user looks the caller up with an engine of its own, before  *)
(* the handler begins, and takes no connection of this pool.               *)
(*                                                                         *)
(* Three columns stand for all that a caller can ask for: one an edit may  *)
(* set, one it shares with archive_rule, and the status, which the schema  *)
(* of an edit does not have.  Left out is updated_at, the date of the last *)
(* write, which every commit sets whatever it was asked for.  All rules    *)
(* have one name, so that the unique index on name and landing zone keeps  *)
(* their zones apart.                                                      *)
(***************************************************************************)
EXTENDS Integers, FiniteSets

CONSTANTS
  Rules,      \* primary keys of firewall_rules
  NoRule,     \* an id that is not there
  Requests,   \* requests served at the same time
  Zones,      \* landing zones
  Start,      \* the zone each rule is in at first
  Outcomes,   \* statuses the review gives to rules
  Edits,      \* bodies of PUT /rules/{id} that are sent
  Unset,      \* a field the body of an edit leaves out, or has as null
  MaxSize     \* bound: the connections the rest of the process leaves

Statuses == Outcomes \cup {"archived"}
Row == [landing_zone : Zones, status : Statuses, is_active : BOOLEAN]
Columns == {"landing_zone", "status", "is_active"}

\* FirewallRuleUpdate, and what archive_rule assigns.
Edit == [landing_zone : Zones \cup {Unset}, status : {Unset},
         is_active : BOOLEAN \cup {Unset}]
Archiving == [landing_zone |-> Unset, status |-> "archived", is_active |-> FALSE]
Patches == Edits \cup {Archiving}

ASSUME EditingAssumption ==
  /\ Edits \subseteq Edit
  /\ Start \in [Rules -> Zones]
  /\ \A r, s \in Rules : r # s => Start[r] # Start[s]
  /\ MaxSize \in Nat \ {0}
  /\ IsFiniteSet(Rules) /\ IsFiniteSet(Requests)
  /\ NoRule \notin Rules
  /\ Unset \notin Zones /\ Unset \notin Statuses /\ Unset \notin BOOLEAN

VARIABLES
  row,    \* the table firewall_rules
  size,   \* connections the pool may open: pool_size and max_overflow
  free,   \* connections nobody holds
  req     \* each request: the point its handler has reached, and its copies

evars == <<row, size, free, req>>

Idle == [at |-> "idle"]
Becomes(q, request) == req' = [req EXCEPT ![q] = request]

\* Requests between a SELECT and the commit, or the close, that follows it.
Holding(q) == req[q].at \in {"commit", "done"}
\* Requests whose next statement needs a connection.
Waiting(q) == req[q].at \in {"load", "refresh", "count"}

Take == free > 0 /\ free' = free - 1
Release == free' = free + 1

Init ==
  /\ row \in [Rules -> Row]
  /\ \A r \in Rules : /\ row[r].landing_zone = Start[r]
                       /\ row[r].status # "archived" /\ row[r].is_active
  /\ size \in 1..MaxSize /\ free = size
  /\ req = [q \in Requests |-> Idle]

-----------------------------------------------------------------------------
\* update_rule and archive_rule

\* Mutant of Assigns: fields left out are set to null.
Assigns_Null(patch, c) == TRUE
\* Mutant of Assigns: a field that is false is taken for one left out.
Assigns_Truthy(patch, c) ==
  patch[c] # Unset /\ (c = "is_active" => patch[c] # FALSE)
\* Whether the field reaches the rule: "value is not None".
Assigns(patch, c) == patch[c] # Unset

Send(q, r, patch) ==
  /\ req[q] = Idle
  /\ Becomes(q, [at |-> "load", rule |-> r, patch |-> patch])
  /\ UNCHANGED <<row, size, free>>

\* ValueError: the connection is taken and given back.
NotFound(q) ==
  /\ req[q].at = "load" /\ req[q].rule \notin Rules
  /\ free > 0
  /\ Becomes(q, Idle)
  /\ UNCHANGED <<row, size, free>>

Load(q) ==
  /\ req[q].at = "load" /\ req[q].rule \in Rules
  /\ Take
  /\ Becomes(q, [at |-> "commit", rule |-> req[q].rule, patch |-> req[q].patch,
                 loaded |-> row[req[q].rule], hidden |-> {}])
  /\ UNCHANGED <<row, size>>

\* Mutant of Written: the whole copy is written.
Written_WholeCopy(q) ==
  LET Value(c) == IF Assigns(req[q].patch, c) THEN req[q].patch[c] ELSE req[q].loaded[c]
  IN  [landing_zone |-> Value("landing_zone"), status |-> Value("status"),
       is_active |-> Value("is_active")]
\* The row after the UPDATE of the attributes that changed.
Written(q) ==
  LET Changed(c) == Assigns(req[q].patch, c) /\ req[q].patch[c] # req[q].loaded[c]
      Value(c) == IF Changed(c) THEN req[q].patch[c] ELSE row[req[q].rule][c]
  IN  [landing_zone |-> Value("landing_zone"), status |-> Value("status"),
       is_active |-> Value("is_active")]

\* The unique index on name and landing zone.
Clashes(r, new) ==
  \E s \in Rules \ {r} : row[s].landing_zone = new.landing_zone

\* hidden is not in the code: the columns a request asked for that others have
\* changed since it read them.
Overtaken(q, r, new) ==
  IF req[q].at \in {"commit", "refresh"} /\ req[q].rule = r
    THEN [req[q] EXCEPT !.hidden = @ \cup {c \in Columns : /\ req[q].patch[c] # Unset
                                                          /\ new[c] # row[r][c]}]
    ELSE req[q]

\* Mutant of Refused: the connection of a failed commit is not given back.
Refused_Keeps(q) ==
  /\ Clashes(req[q].rule, Written(q))
  /\ Becomes(q, Idle)
  /\ UNCHANGED <<row, free>>
\* The IntegrityError leaves the handler; get_db rolls back and closes.
Refused(q) ==
  /\ Clashes(req[q].rule, Written(q))
  /\ Becomes(q, Idle)
  /\ Release
  /\ UNCHANGED row

\* Mutant of Accepted: the refresh takes another connection before that of the
\* commit is given back.
Accepted_Keeps(q) ==
  LET r == req[q].rule
      new == Written(q)
      saved == [at |-> "refresh", rule |-> r, patch |-> req[q].patch,
                hidden |-> req[q].hidden]
  IN  /\ ~Clashes(r, new)
      /\ UNCHANGED free
      /\ row' = [row EXCEPT ![r] = new]
      /\ req' = [p \in Requests |-> IF p = q THEN saved ELSE Overtaken(p, r, new)]
Accepted(q) ==
  LET r == req[q].rule
      new == Written(q)
      saved == [at |-> "refresh", rule |-> r, patch |-> req[q].patch,
                hidden |-> req[q].hidden]
  IN  /\ ~Clashes(r, new)
      /\ Release
      /\ row' = [row EXCEPT ![r] = new]
      /\ req' = [p \in Requests |-> IF p = q THEN saved ELSE Overtaken(p, r, new)]

Commit(q) ==
  /\ req[q].at = "commit"
  /\ Refused(q) \/ Accepted(q)
  /\ UNCHANGED size

\* The refreshed copy is what the service returns.
Refresh(q) ==
  /\ req[q].at = "refresh"
  /\ Take
  /\ Becomes(q, [at |-> "done"])
  /\ UNCHANGED <<row, size>>

-----------------------------------------------------------------------------
\* get_dashboard_stats and get_statistics: several SELECTs on one connection,
\* which holds it as long; the counts are left out.

AskStatistics(q) ==
  /\ req[q] = Idle
  /\ Becomes(q, [at |-> "count"])
  /\ UNCHANGED <<row, size, free>>

Count(q) ==
  /\ req[q].at = "count"
  /\ Take
  /\ Becomes(q, [at |-> "done"])
  /\ UNCHANGED <<row, size>>

-----------------------------------------------------------------------------
\* get_db closes the session when the handler has returned.
Close(q) ==
  /\ req[q].at = "done"
  /\ Release
  /\ Becomes(q, Idle)
  /\ UNCHANGED <<row, size>>

\* An exception or a lost connection between two statements: rolled back.
Abort(q) ==
  /\ Holding(q)
  /\ Release
  /\ Becomes(q, Idle)
  /\ UNCHANGED <<row, size>>

\* The pool stays empty for too long: TimeoutError, answered with 500.
TimeOut(q) ==
  /\ Waiting(q) /\ free = 0
  /\ Becomes(q, Idle)
  /\ UNCHANGED <<row, size, free>>

\* approve, reject or the sweep gives the rule a status.  Here it is the commit
\* only, by another replica or on a connection that size does not count: how
\* the review comes to its outcome is the subject of ApprovalWorkflow and
\* ReplicatedApproval.
Review(r, outcome) ==
  /\ row[r].status # outcome
  /\ LET new == [row[r] EXCEPT !.status = outcome]
     IN  /\ row' = [row EXCEPT ![r] = new]
         /\ req' = [q \in Requests |-> Overtaken(q, r, new)]
  /\ UNCHANGED <<size, free>>

Connect(q) == NotFound(q) \/ Load(q) \/ Refresh(q) \/ Count(q)
Proceed(q) == Commit(q) \/ Close(q)

Next ==
  \/ \E q \in Requests :
       \/ \E r \in Rules \cup {NoRule}, patch \in Patches : Send(q, r, patch)
       \/ AskStatistics(q)
       \/ Connect(q) \/ Proceed(q) \/ Abort(q) \/ TimeOut(q)
  \/ \E r \in Rules, outcome \in Outcomes : Review(r, outcome)

\* The process runs its handlers, and its pool serves those who wait in the
\* order they came, so that nobody is passed over for ever.  Clients and
\* reviewers do as they like, and no wait need last until it is given up.
Fairness == \A q \in Requests : WF_evars(Proceed(q)) /\ SF_evars(Connect(q))

Spec == Init /\ [][Next]_evars /\ Fairness

-----------------------------------------------------------------------------
\* Properties

Short == [at : {"idle", "count", "done"}]
Loading == [at : {"load"}, rule : Rules \cup {NoRule}, patch : Patches]
Committing == [at : {"commit"}, rule : Rules, patch : Patches, loaded : Row,
               hidden : SUBSET Columns]
Refreshing == [at : {"refresh"}, rule : Rules, patch : Patches, hidden : SUBSET Columns]

TypeOK ==
  /\ row \in [Rules -> Row]
  /\ size \in 1..MaxSize /\ free \in 0..size
  /\ req \in [Requests -> Short \cup Loading \cup Committing \cup Refreshing]

\* However edits, archivings and decisions overlap, a commit changes only
\* columns its own request named, and to what it named: the copy it read, old
\* as it may be, overwrites nothing, and a status changes by an archiving or a
\* step of the review.  So an edit that is repeated after an
\* error disturbs no other column.
WritesAreNamed ==
  [][\A r \in Rules, c \in Columns : row'[r][c] # row[r][c] =>
       \/ c = "status" /\ Review(r, row'[r].status)
       \/ \E q \in Requests : /\ req[q].at = "commit" /\ req[q].rule = r
                              /\ req'[q].at = "refresh"
                              /\ row'[r][c] = req[q].patch[c]]_evars

\* The rule that update_rule or archive_rule is about to read back and return
\* has every field the caller asked for, unless somebody else changed that
\* field since the rule was first read: also where the field was not written,
\* because the copy had its value already.
OnlyOthersHideAnEdit ==
  \A q \in Requests : req[q].at = "refresh" =>
    \A c \in Columns :
      req[q].patch[c] # Unset /\ row[req[q].rule][c] # req[q].patch[c]
        => c \in req[q].hidden

\* Every way out of a handler gives its connection back, and no request holds
\* one while it waits for one.
PoolIsConserved == free + Cardinality({q \in Requests : Holding(q)}) = size

\* Every request is answered, however small the pool, and although its handler
\* needs a connection twice: none waits for those that wait for it.
EveryRequestEnds == \A q \in Requests : req[q] # Idle ~> req[q] = Idle
=============================================================================
