------------------------- MODULE RuleEditingProofs -------------------------
(* Proofs about RuleEditing, for every set of rules, requests, edits and     *)
(* outcomes and every size of the pool.                                      *)
EXTENDS RuleEditing, FiniteSetTheorems, TLAPS

-----------------------------------------------------------------------------
\* What a commit writes is a row again.
LEMMA WrittenType ==
  ASSUME TypeOK, NEW q \in Requests, req[q].at = "commit"
  PROVE  /\ req[q] \in Committing
         /\ Written(q) \in Row
<1>1. req[q] \in Committing
  BY DEF TypeOK, Short, Loading, Committing, Refreshing
<1>2. row[req[q].rule] \in Row /\ req[q].patch \in Patches
  BY <1>1 DEF TypeOK, Committing
<1>3. req[q].patch \in Edit \/ req[q].patch = Archiving
  BY <1>2, EditingAssumption DEF Patches
<1> DEFINE patch == req[q].patch
           before == row[req[q].rule]
           Value(c) == IF Assigns(patch, c) /\ patch[c] # req[q].loaded[c]
                         THEN patch[c] ELSE before[c]
<1>4. before.landing_zone \in Zones /\ before.status \in Statuses /\ before.is_active \in BOOLEAN
  BY <1>2 DEF Row
<1>5. /\ patch.landing_zone \in Zones \cup {Unset}
      /\ patch.status \in Statuses \cup {Unset}
      /\ patch.is_active \in BOOLEAN \cup {Unset}
  <2>1. CASE patch \in Edit
    BY <2>1 DEF Edit
  <2>2. CASE patch = Archiving
    <3>1. patch.landing_zone = Unset /\ patch.status = "archived"
      BY <2>2 DEF Archiving
    <3>2. patch.is_active = FALSE
      BY <2>2 DEF Archiving
    <3> QED
      BY <3>1, <3>2, Zenon DEF Statuses
  <2> QED
    BY <1>3, <2>1, <2>2
<1>6. Value("landing_zone") \in Zones /\ Value("status") \in Statuses
  BY <1>4, <1>5 DEF Assigns
<1>7. Value("is_active") \in BOOLEAN
  <2>1. CASE Assigns(patch, "is_active") /\ patch["is_active"] # req[q].loaded["is_active"]
    BY <1>5, <2>1, Zenon DEF Assigns
  <2>2. CASE ~(Assigns(patch, "is_active") /\ patch["is_active"] # req[q].loaded["is_active"])
    BY <1>4, <2>2, Zenon
  <2> QED
    BY <2>1, <2>2
<1>8. Written(q) = [landing_zone |-> Value("landing_zone"), status |-> Value("status"),
                    is_active |-> Value("is_active")]
  BY DEF Written
<1> HIDE DEF Value
<1>9. Written(q) \in Row
  BY <1>6, <1>7, <1>8 DEF Row
<1> QED
  BY <1>1, <1>9

\* Other requests keep their shape when a row is changed under them.
LEMMA OvertakenType ==
  ASSUME TypeOK, NEW q \in Requests, NEW r, NEW new
  PROVE  /\ Overtaken(q, r, new) \in Short \cup Loading \cup Committing \cup Refreshing
         /\ Overtaken(q, r, new).at = req[q].at
<1>1. req[q] \in Short \cup Loading \cup Committing \cup Refreshing
  BY DEF TypeOK
<1> DEFINE more == {c \in Columns : req[q].patch[c] # Unset /\ new[c] # row[r][c]}
<1>2. more \subseteq Columns
  OBVIOUS
<1> HIDE DEF more
<1>3. CASE req[q].at = "commit"
  <2>1. req[q] \in Committing
    BY <1>1, <1>3 DEF Short, Loading, Committing, Refreshing
  <2>2. req[q].hidden \cup more \in SUBSET Columns
    BY <2>1, <1>2 DEF Committing
  <2>3. [req[q] EXCEPT !.hidden = @ \cup more] \in Committing
    BY <2>1, <2>2 DEF Committing
  <2> QED
    BY <2>1, <2>3, <1>3 DEF Overtaken, more, Committing
<1>4. CASE req[q].at = "refresh"
  <2>1. req[q] \in Refreshing
    BY <1>1, <1>4 DEF Short, Loading, Committing, Refreshing
  <2>2. req[q].hidden \cup more \in SUBSET Columns
    BY <2>1, <1>2 DEF Refreshing
  <2>3. [req[q] EXCEPT !.hidden = @ \cup more] \in Refreshing
    BY <2>1, <2>2 DEF Refreshing
  <2> QED
    BY <2>1, <2>3, <1>4 DEF Overtaken, more, Refreshing
<1>5. CASE req[q].at \notin {"commit", "refresh"}
  BY <1>1, <1>5 DEF Overtaken
<1> QED
  BY <1>3, <1>4, <1>5

-----------------------------------------------------------------------------
\* The pool

Holders == {q \in Requests : Holding(q)}
Requested == Short \cup Loading \cup Committing \cup Refreshing
IInv == TypeOK /\ PoolIsConserved

\* A request that takes a connection was no holder, and one that gives one back
\* was: the pool does not run below nothing, nor above its size.
LEMMA PoolKept ==
  ASSUME IInv, NEW q \in Requests, size' = size,
         \A p \in Requests : p # q => (Holding(p)' <=> Holding(p)),
         \/ Holding(q)' /\ ~Holding(q) /\ Take
         \/ ~Holding(q)' /\ Holding(q) /\ Release
         \/ (Holding(q)' <=> Holding(q)) /\ free' = free
  PROVE  PoolIsConserved' /\ free' \in 0..size'
<1>1. /\ IsFiniteSet(Holders) /\ IsFiniteSet(Holders \cup {q}) /\ IsFiniteSet(Holders \ {q})
      /\ Cardinality(Holders) \in Nat
      /\ Cardinality(Holders \ {q}) \in Nat
      /\ Cardinality(Holders \cup {q}) \in Nat
  BY EditingAssumption, FS_Subset, FS_AddElement, FS_RemoveElement, FS_CardinalityType DEF Holders
<1>2. free \in Nat /\ size \in Nat /\ free + Cardinality(Holders) = size
  BY EditingAssumption DEF IInv, TypeOK, PoolIsConserved, Holders
<1>3. SUFFICES free' \in Nat /\ free' + Cardinality(Holders') = size
  <2>1. Cardinality(Holders') \in Nat
    BY EditingAssumption, FS_Subset, FS_CardinalityType DEF Holders
  <2>2. PoolIsConserved'
    BY <1>3 DEF PoolIsConserved, Holders
  <2> QED
    BY <2>1, <2>2, <1>2, <1>3
<1>4. CASE Holding(q)' /\ ~Holding(q) /\ Take
  <2>1. Holders' = Holders \cup {q} /\ q \notin Holders
    BY <1>4 DEF Holders
  <2>2. Cardinality(Holders \cup {q}) = Cardinality(Holders) + 1
    BY <1>1, <2>1, FS_AddElement
  <2> QED
    BY <1>1, <1>2, <1>4, <2>1, <2>2 DEF Take
<1>5. CASE ~Holding(q)' /\ Holding(q) /\ Release
  <2>1. Holders' = Holders \ {q} /\ q \in Holders
    BY <1>5 DEF Holders
  <2>2. Cardinality(Holders \ {q}) = Cardinality(Holders) - 1
    BY <1>1, <2>1, FS_RemoveElement
  <2> QED
    BY <1>1, <1>2, <1>5, <2>1, <2>2 DEF Release
<1>6. CASE (Holding(q)' <=> Holding(q)) /\ free' = free
  <2>1. Holders' = Holders
    BY <1>6 DEF Holders
  <2> QED
    BY <1>2, <1>6, <2>1
<1> QED
  BY <1>4, <1>5, <1>6

\* What follows when one request moves to another point of its handler.
LEMMA Moved ==
  ASSUME IInv, NEW q \in Requests, NEW new \in Requested, Becomes(q, new),
         row' \in [Rules -> Row], size' = size,
         \/ new.at \in {"commit", "done"} /\ ~Holding(q) /\ Take
         \/ new.at \notin {"commit", "done"} /\ Holding(q) /\ Release
         \/ new.at \notin {"commit", "done"} /\ ~Holding(q) /\ free' = free
  PROVE  IInv'
<1>1. req \in [Requests -> Requested]
  BY DEF IInv, TypeOK, Requested
<1>2. req' \in [Requests -> Requested] /\ req'[q] = new
  BY <1>1 DEF Becomes
<1>3. \A p \in Requests : p # q => req'[p] = req[p]
  BY <1>1 DEF Becomes
<1>4. PoolIsConserved' /\ free' \in 0..size'
  <2>1. \A p \in Requests : p # q => (Holding(p)' <=> Holding(p))
    BY <1>3 DEF Holding
  <2>2. Holding(q)' <=> new.at \in {"commit", "done"}
    BY <1>2 DEF Holding
  <2> QED
    BY <2>1, <2>2, PoolKept
<1> QED
  BY <1>2, <1>4 DEF IInv, TypeOK, Requested

-----------------------------------------------------------------------------
\* Type correctness and the pool

LEMMA InitInv == Init => IInv
<1> SUFFICES ASSUME Init PROVE IInv
  OBVIOUS
<1>1. Idle \in Short
  BY DEF Idle, Short
<1>2. TypeOK
  BY <1>1, EditingAssumption DEF Init, TypeOK
<1>3. Holders = {}
  BY DEF Init, Idle, Holders, Holding
<1> QED
  BY <1>2, <1>3, FS_EmptySet, EditingAssumption DEF Init, IInv, PoolIsConserved, Holders

\* A commit that the database accepts.
LEMMA AcceptedInv ==
  ASSUME IInv, NEW q \in Requests, req[q].at = "commit", Accepted(q), size' = size
  PROVE  IInv'
<1> DEFINE r == req[q].rule
           new == Written(q)
           saved == [at |-> "refresh", rule |-> r, patch |-> req[q].patch,
                     hidden |-> req[q].hidden]
<1>1. req[q] \in Committing /\ new \in Row
  BY WrittenType DEF IInv
<1>2. saved \in Refreshing /\ r \in Rules
  BY <1>1 DEF Committing, Refreshing
<1>3. row' \in [Rules -> Row]
  BY <1>1, <1>2 DEF Accepted, IInv, TypeOK
<1>4. \A p \in Requests : req'[p] = IF p = q THEN saved ELSE Overtaken(p, r, new)
  BY DEF Accepted
<1>5. \A p \in Requests : Overtaken(p, r, new) \in Requested /\ Overtaken(p, r, new).at = req[p].at
  BY OvertakenType DEF Requested, IInv
<1>6. req' \in [Requests -> Requested]
  BY <1>2, <1>4, <1>5 DEF Accepted, Requested
<1>7. PoolIsConserved' /\ free' \in 0..size'
  <2>1. \A p \in Requests : p # q => (Holding(p)' <=> Holding(p))
    BY <1>4, <1>5 DEF Holding
  <2>2. ~Holding(q)' /\ Holding(q)
    BY <1>4 DEF Holding
  <2> QED
    BY <2>1, <2>2, PoolKept DEF Accepted
<1> QED
  BY <1>3, <1>6, <1>7 DEF IInv, TypeOK, Requested

LEMMA ReviewInv ==
  ASSUME IInv, NEW r \in Rules, NEW outcome \in Outcomes, Review(r, outcome)
  PROVE  IInv'
<1> DEFINE new == [row[r] EXCEPT !.status = outcome]
<1>1. new \in Row
  BY DEF IInv, TypeOK, Row, Statuses
<1>2. row' \in [Rules -> Row]
  BY <1>1 DEF Review, IInv, TypeOK
<1>3. \A p \in Requests : req'[p] = Overtaken(p, r, new)
  BY DEF Review
<1>4. \A p \in Requests : Overtaken(p, r, new) \in Requested /\ Overtaken(p, r, new).at = req[p].at
  BY OvertakenType DEF Requested, IInv
<1>5. req' \in [Requests -> Requested]
  BY <1>3, <1>4 DEF Review
<1>6. Holders' = Holders
  BY <1>3, <1>4 DEF Holders, Holding
<1>7. PoolIsConserved'
  BY <1>6 DEF Review, IInv, PoolIsConserved, Holders
<1> QED
  BY <1>2, <1>5, <1>7 DEF IInv, TypeOK, Requested, Review

LEMMA NextInv == IInv /\ [Next]_evars => IInv'
<1> SUFFICES ASSUME IInv, [Next]_evars PROVE IInv'
  OBVIOUS
<1> USE DEF IInv
<1>0. row \in [Rules -> Row] /\ req \in [Requests -> Requested] /\ Idle \in Requested
  BY DEF TypeOK, Requested, Idle, Short
<1>1. ASSUME NEW q \in Requests, NEW r \in Rules \cup {NoRule}, NEW patch \in Patches,
             Send(q, r, patch)
      PROVE  IInv'
  <2>1. [at |-> "load", rule |-> r, patch |-> patch] \in Loading
    BY DEF Loading
  <2> QED
    BY <1>0, <1>1, <2>1, Moved DEF Send, Holding, Idle, Requested
<1>2. ASSUME NEW q \in Requests, AskStatistics(q) PROVE IInv'
  <2>1. [at |-> "count"] \in Short
    BY DEF Short
  <2> QED
    BY <1>0, <1>2, <2>1, Moved DEF AskStatistics, Holding, Idle, Requested
<1>3. ASSUME NEW q \in Requests, NotFound(q) PROVE IInv'
  BY <1>0, <1>3, Moved DEF NotFound, Holding, Idle
<1>4. ASSUME NEW q \in Requests, Load(q) PROVE IInv'
  <2>1. req[q] \in Loading
    BY <1>0, <1>4 DEF Load, Requested, Short, Loading, Committing, Refreshing
  <2>2. [at |-> "commit", rule |-> req[q].rule, patch |-> req[q].patch,
         loaded |-> row[req[q].rule], hidden |-> {}] \in Committing
    BY <1>0, <1>4, <2>1 DEF Load, Loading, Committing
  <2> QED
    BY <1>0, <1>4, <2>2, Moved DEF Load, Holding, Requested
<1>5. ASSUME NEW q \in Requests, Refresh(q) \/ Count(q) PROVE IInv'
  <2>1. [at |-> "done"] \in Short
    BY DEF Short
  <2> QED
    BY <1>0, <1>5, <2>1, Moved DEF Refresh, Count, Holding, Requested
<1>6. ASSUME NEW q \in Requests, Commit(q) PROVE IInv'
  <2>1. CASE Refused(q)
    BY <1>0, <1>6, <2>1, Moved DEF Commit, Refused, Holding, Idle
  <2>2. CASE Accepted(q)
    BY <1>6, <2>2, AcceptedInv DEF Commit
  <2> QED
    BY <1>6, <2>1, <2>2 DEF Commit
<1>7. ASSUME NEW q \in Requests, Close(q) \/ Abort(q) PROVE IInv'
  BY <1>0, <1>7, Moved DEF Close, Abort, Holding, Idle
<1>8. ASSUME NEW q \in Requests, TimeOut(q) PROVE IInv'
  BY <1>0, <1>8, Moved DEF TimeOut, Waiting, Holding, Idle
<1>9. ASSUME NEW r \in Rules, NEW outcome \in Outcomes, Review(r, outcome) PROVE IInv'
  BY <1>9, ReviewInv
<1>10. CASE UNCHANGED evars
  BY <1>10 DEF evars, TypeOK, PoolIsConserved, Holding
<1> QED
  BY <1>1, <1>2, <1>3, <1>4, <1>5, <1>6, <1>7, <1>8, <1>9, <1>10 DEF Next, Connect, Proceed

\* The types, for every set of rules, requests and edits and every pool.
THEOREM TypeCorrect == Spec => []TypeOK
<1>1. IInv => TypeOK
  BY DEF IInv
<1> QED
  BY <1>1, InitInv, NextInv, PTL DEF Spec

\* No way through update_rule, archive_rule or the statistics loses a
\* connection of the pool or returns one twice.
THEOREM PoolConserved == Spec => []PoolIsConserved
<1>1. IInv => PoolIsConserved
  BY DEF IInv
<1> QED
  BY <1>1, InitInv, NextInv, PTL DEF Spec

-----------------------------------------------------------------------------
\* What a commit writes

\* WritesAreNamed holds of every step: a commit writes no column but those its
\* request named.
THEOREM WritesNamed == Spec => WritesAreNamed
<1> DEFINE Named(r, c) ==
      \/ c = "status" /\ Review(r, row'[r].status)
      \/ \E q \in Requests : /\ req[q].at = "commit" /\ req[q].rule = r
                             /\ req'[q].at = "refresh"
                             /\ row'[r][c] = req[q].patch[c]
           A == \A r \in Rules, c \in Columns : row'[r][c] # row[r][c] => Named(r, c)
<1>1. IInv /\ [Next]_evars => [A]_evars
  <2> SUFFICES ASSUME IInv, Next, NEW r \in Rules, NEW c \in Columns, row'[r][c] # row[r][c]
               PROVE  Named(r, c)
    OBVIOUS
  <2>0. row \in [Rules -> Row]
    BY DEF IInv, TypeOK
  <2>1. ASSUME NEW q \in Requests, Commit(q), Accepted(q) PROVE Named(r, c)
    <3>1. /\ req[q] \in Committing /\ req[q].rule \in Rules
      BY <2>1, WrittenType DEF Commit, IInv, Committing
    <3>2. req'[q].at = "refresh" /\ row' = [row EXCEPT ![req[q].rule] = Written(q)]
      BY <2>1 DEF Accepted
    <3>3. req[q].rule = r /\ row'[r] = Written(q)
      BY <2>0, <3>1, <3>2
    <3>4. Written(q)[c] = req[q].patch[c] \/ Written(q)[c] = row[r][c]
      BY <3>3 DEF Written, Columns
    <3> QED
      BY <2>1, <3>2, <3>3, <3>4 DEF Commit
  <2>2. ASSUME NEW s \in Rules, NEW outcome \in Outcomes, Review(s, outcome)
        PROVE  Named(r, c)
    <3>1. row' = [row EXCEPT ![s] = [row[s] EXCEPT !.status = outcome]]
      BY <2>2 DEF Review
    <3>2. s = r /\ row'[r] = [row[r] EXCEPT !.status = outcome]
      BY <2>0, <3>1
    <3>3. row[r] \in Row
      BY <2>0
    <3>4. c = "status" /\ row'[r].status = outcome
      BY <3>2, <3>3 DEF Columns, Row
    <3> QED
      BY <2>2, <3>2, <3>4
  <2> QED
    BY <2>1, <2>2 DEF Next, Send, AskStatistics, Connect, NotFound, Load, Refresh, Count,
         Proceed, Commit, Refused, Close, Abort, TimeOut
<1>2. WritesAreNamed <=> [][A]_evars
  BY PTL DEF WritesAreNamed
<1> QED
  BY <1>1, <1>2, InitInv, NextInv, PTL DEF Spec

-----------------------------------------------------------------------------
\* What update_rule returns

\* Until the commit: what others changed in the columns it asks for; after it,
\* what is missing of these columns.
Hides(q) ==
  /\ req[q].at = "commit" => \A c \in Columns :
       req[q].patch[c] # Unset /\ row[req[q].rule][c] # req[q].loaded[c]
         => c \in req[q].hidden
  /\ req[q].at = "refresh" => \A c \in Columns :
       req[q].patch[c] # Unset /\ row[req[q].rule][c] # req[q].patch[c]
         => c \in req[q].hidden

HInv == IInv /\ \A q \in Requests : Hides(q)

\* A row changed by somebody else.
LEMMA OvertakenHides ==
  ASSUME HInv, NEW q \in Requests, NEW r \in Rules, NEW new,
         row' = [row EXCEPT ![r] = new], req'[q] = Overtaken(q, r, new)
  PROVE  Hides(q)'
<1>1. row \in [Rules -> Row] /\ req[q] \in Requested /\ Hides(q)
  BY DEF HInv, IInv, TypeOK, Requested
<1> DEFINE more == {c \in Columns : req[q].patch[c] # Unset /\ new[c] # row[r][c]}
<1>2. CASE req[q].at \in {"commit", "refresh"} /\ req[q].rule = r
  <2>1. req[q] \in Committing \cup Refreshing
    BY <1>1, <1>2 DEF Requested, Short, Loading, Committing, Refreshing
  <2>2. req'[q] = [req[q] EXCEPT !.hidden = @ \cup more]
    BY <1>2 DEF Overtaken
  <2>3. /\ req'[q].at = req[q].at /\ req'[q].rule = r
        /\ req'[q].patch = req[q].patch
        /\ req'[q].hidden = req[q].hidden \cup more
        /\ req[q].at = "commit" => req'[q].loaded = req[q].loaded
    BY <1>2, <2>1, <2>2 DEF Committing, Refreshing
  <2>4. row'[r] = new
    BY <1>1
  <2> QED
    BY <1>1, <1>2, <2>3, <2>4 DEF Hides
<1>3. CASE req[q].at \in {"commit", "refresh"} /\ req[q].rule # r
  <2>1. req'[q] = req[q] /\ req[q].rule \in Rules
    BY <1>1, <1>3 DEF Overtaken, Requested, Short, Loading, Committing, Refreshing
  <2>2. row'[req[q].rule] = row[req[q].rule]
    BY <1>1, <1>3, <2>1
  <2> QED
    BY <1>1, <2>1, <2>2 DEF Hides
<1>4. CASE req[q].at \notin {"commit", "refresh"}
  BY <1>4 DEF Overtaken, Hides
<1> QED
  BY <1>2, <1>3, <1>4

\* The request's own commit.
LEMMA AcceptedHides ==
  ASSUME HInv, NEW q \in Requests, req[q].at = "commit", Accepted(q)
  PROVE  Hides(q)'
<1>1. req[q] \in Committing /\ req[q].rule \in Rules /\ Hides(q)
  BY WrittenType DEF HInv, IInv, Committing
<1>2. /\ row'[req[q].rule] = Written(q)
      /\ req'[q] = [at |-> "refresh", rule |-> req[q].rule, patch |-> req[q].patch,
                    hidden |-> req[q].hidden]
  BY <1>1 DEF Accepted, HInv, IInv, TypeOK
<1>3. ASSUME NEW c \in Columns, req[q].patch[c] # Unset, Written(q)[c] # req[q].patch[c]
      PROVE  c \in req[q].hidden
  <2>1. Written(q)[c] = IF req[q].patch[c] # Unset /\ req[q].patch[c] # req[q].loaded[c]
                          THEN req[q].patch[c] ELSE row[req[q].rule][c]
    BY DEF Written, Assigns, Columns
  <2>2. req[q].patch[c] = req[q].loaded[c] /\ row[req[q].rule][c] # req[q].loaded[c]
    BY <1>3, <2>1
  <2> QED
    BY <1>1, <1>3, <2>2 DEF Hides
<1> QED
  BY <1>2, <1>3 DEF Hides

\* A rule that update_rule returns lacks a field of the edit only where somebody
\* else changed that field, for every number of requests at the same time.
THEOREM EditsAreReturned == Spec => []OnlyOthersHideAnEdit
<1>1. Init => HInv
  BY InitInv DEF Init, HInv, Hides, Idle
<1>2. HInv /\ [Next]_evars => HInv'
  <2> SUFFICES ASSUME HInv, [Next]_evars, NEW p \in Requests PROVE Hides(p)'
    BY NextInv DEF HInv
  <2>0. row \in [Rules -> Row] /\ req \in [Requests -> Requested] /\ Hides(p)
    BY DEF HInv, IInv, TypeOK, Requested
  <2>1. ASSUME NEW q \in Requests, NEW new, Becomes(q, new), row' = row,
               new.at \notin {"commit", "refresh"}
        PROVE  Hides(p)'
    <3>1. CASE p = q
      BY <2>0, <2>1, <3>1 DEF Becomes, Hides
    <3>2. CASE p # q
      BY <2>0, <2>1, <3>2 DEF Becomes, Hides
    <3> QED
      BY <3>1, <3>2
  <2>2. ASSUME NEW q \in Requests, Load(q) PROVE Hides(p)'
    <3>1. req'[q] = [at |-> "commit", rule |-> req[q].rule, patch |-> req[q].patch,
                     loaded |-> row[req[q].rule], hidden |-> {}]
      BY <2>0, <2>2 DEF Load, Becomes
    <3>2. CASE p = q
      BY <2>2, <3>1, <3>2 DEF Load, Hides
    <3>3. CASE p # q
      BY <2>0, <2>2, <3>3 DEF Load, Becomes, Hides
    <3> QED
      BY <3>2, <3>3
  <2>3. ASSUME NEW q \in Requests, Commit(q), Accepted(q) PROVE Hides(p)'
    <3>1. CASE p = q
      BY <2>3, <3>1, AcceptedHides DEF Commit
    <3>2. CASE p # q
      <4>1. req[q].rule \in Rules
        BY <2>3, WrittenType DEF Commit, HInv, IInv, Committing
      <4>2. /\ row' = [row EXCEPT ![req[q].rule] = Written(q)]
            /\ req'[p] = Overtaken(p, req[q].rule, Written(q))
        BY <2>3, <3>2 DEF Accepted
      <4> QED
        BY <4>1, <4>2, OvertakenHides
    <3> QED
      BY <3>1, <3>2
  <2>4. ASSUME NEW r \in Rules, NEW outcome \in Outcomes, Review(r, outcome)
        PROVE  Hides(p)'
    <3>1. /\ row' = [row EXCEPT ![r] = [row[r] EXCEPT !.status = outcome]]
          /\ req'[p] = Overtaken(p, r, [row[r] EXCEPT !.status = outcome])
      BY <2>4 DEF Review
    <3> QED
      BY <3>1, OvertakenHides
  <2>5. ASSUME NEW q \in Requests,
               \/ \E r \in Rules \cup {NoRule}, patch \in Patches : Send(q, r, patch)
               \/ AskStatistics(q) \/ NotFound(q) \/ Refresh(q) \/ Count(q)
               \/ (Commit(q) /\ Refused(q)) \/ Close(q) \/ Abort(q) \/ TimeOut(q)
        PROVE  Hides(p)'
    BY <2>1, <2>5 DEF Send, AskStatistics, NotFound, Refresh, Count, Commit, Refused,
         Close, Abort, TimeOut, Idle
  <2>6. CASE UNCHANGED evars
    BY <2>0, <2>6 DEF evars, Hides
  <2> QED
    BY <2>2, <2>3, <2>4, <2>5, <2>6 DEF Next, Connect, Proceed, Commit
<1>3. HInv => OnlyOthersHideAnEdit
  BY DEF HInv, Hides, OnlyOthersHideAnEdit
<1> QED
  BY <1>1, <1>2, <1>3, PTL DEF Spec
=============================================================================
