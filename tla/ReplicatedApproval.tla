------------------------- MODULE ReplicatedApproval -------------------------
(***************************************************************************)
(* The handlers of ApprovalWorkflow when several backend processes serve   *)
(* them (kubernetes/deployment.yaml runs two replicas): one step for each  *)
(* SELECT and one for the commit, with the steps of other requests in      *)
(* between.                                                                *)
(*                                                                         *)
(* What the steps rest on:                                                 *)
(*   - the session has autoflush=False and nothing flushes by hand, so a   *)
(*     handler writes at its commit only, all at once;                     *)
(*   - PostgreSQL's default isolation: each SELECT sees what is committed; *)
(*   - an object keeps the values it was first loaded with, and a commit   *)
(*     writes only the attributes that differ from them;                   *)
(*   - _version is not a version_id_col: no UPDATE is conditional.         *)
(* update_rule is left out: it writes no column the review reads, but the  *)
(* workload, which is fixed here.                                          *)
(***************************************************************************)
EXTENDS ApprovalWorkflow

CONSTANTS
  Sessions,   \* requests served at the same time
  Overlap     \* whether two of them may be about the same rule

ASSUME OverlapAssumption == Overlap \in BOOLEAN

VARIABLE req   \* each session's request: what its handler has read so far

rvars == <<vars, req>>

Idle == [op |-> "idle"]

\* The rules a session is working on.
Touched(s) == CASE req[s].op = "idle"  -> {}
                [] req[s].op = "sweep" -> req[s].todo
                [] OTHER               -> {req[s].rule}

Free(s, rules) ==
  /\ req[s] = Idle
  /\ Overlap \/ \A t \in Sessions \ {s} : Touched(t) \cap rules = {}

Becomes(s, request) == req' = [req EXCEPT ![s] = request]

RInit == Init /\ req = [s \in Sessions |-> Idle]

\* A status is written if it differs from the one the rule was loaded with.
WriteStatus(r, loaded, new) ==
  status' = IF loaded = new THEN status ELSE [status EXCEPT ![r] = new]

WriteEntry(r, action, loaded, new, by) ==
  audit' = [audit EXCEPT ![r] = Append(@,
              [action |-> action, old |-> loaded, new |-> new, by |-> by])]

-----------------------------------------------------------------------------
\* submit_for_approval

ReadForSubmit(s, u, r) ==
  /\ Free(s, {r})
  /\ Authenticated(u)
  /\ status[r] \in {"draft", "rejected"}
  /\ Len(approvals[r]) < Len(get_required_approvers) * MaxRounds
  /\ \E a \in Approvers(r, SECURITY_ROLE), b \in Approvers(r, WORKLOAD_ROLE) :
       Becomes(s, [op |-> "submit", rule |-> r, loaded |-> status[r],
                   round |-> <<NewRecord(SECURITY_ROLE, a),
                               NewRecord(WORKLOAD_ROLE, b)>>])
  /\ UNCHANGED vars

\* Mutants of CommitSubmit: the new round replaces the records there are; a
\* resubmission is not audited.
CommitSubmit_Replaces(s) ==
  /\ req[s].op = "submit"
  /\ LET r == req[s].rule IN
     /\ WriteStatus(r, req[s].loaded, "pending_approval")
     /\ submitted_at' = [submitted_at EXCEPT ![r] = today]
     /\ approvals' = [approvals EXCEPT ![r] = req[s].round]
     /\ WriteEntry(r, "submit", req[s].loaded, "pending_approval", "user")
  /\ Becomes(s, Idle)
  /\ UNCHANGED <<is_active, workload, approved_at, today>>
CommitSubmit_AuditsFirst(s) ==
  /\ req[s].op = "submit"
  /\ LET r == req[s].rule IN
     /\ WriteStatus(r, req[s].loaded, "pending_approval")
     /\ submitted_at' = [submitted_at EXCEPT ![r] = today]
     /\ approvals' = [approvals EXCEPT ![r] = @ \o req[s].round]
     /\ \/ /\ approvals[r] = << >>
           /\ WriteEntry(r, "submit", req[s].loaded, "pending_approval", "user")
        \/ /\ approvals[r] # << >>
           /\ UNCHANGED audit
  /\ Becomes(s, Idle)
  /\ UNCHANGED <<is_active, workload, approved_at, today>>

CommitSubmit(s) ==
  /\ req[s].op = "submit"
  /\ LET r == req[s].rule IN
     /\ WriteStatus(r, req[s].loaded, "pending_approval")
     /\ submitted_at' = [submitted_at EXCEPT ![r] = today]
     /\ approvals' = [approvals EXCEPT ![r] = @ \o req[s].round]
     /\ WriteEntry(r, "submit", req[s].loaded, "pending_approval", "user")
  /\ Becomes(s, Idle)
  /\ UNCHANGED <<is_active, workload, approved_at, today>>

-----------------------------------------------------------------------------
\* approve and reject

ReadRecord(s, u, r, i, op) ==
  /\ Free(s, {r})
  /\ OpenTo(u, r, i)
  /\ Becomes(s, [op |-> op, at |-> "record", rule |-> r, record |-> i])
  /\ UNCHANGED vars

\* Mutant of ReadAllRecords: only the record under decision is looked at.
ReadAllRecords_OwnOnly(s) ==
  /\ req[s].op = "approve" /\ req[s].at = "record"
  /\ Becomes(s, [op |-> "approve", at |-> "all_records",
                 rule |-> req[s].rule, record |-> req[s].record,
                 complete |-> TRUE])
  /\ UNCHANGED vars

\* approve only.  The record under decision is already approved in memory.
ReadAllRecords(s) ==
  /\ req[s].op = "approve" /\ req[s].at = "record"
  /\ LET seen == [approvals[req[s].rule] EXCEPT
                    ![req[s].record].status = "approved"]
     IN  Becomes(s, [op |-> "approve", at |-> "all_records",
                     rule |-> req[s].rule, record |-> req[s].record,
                     complete |-> AllApproved(seen)])
  /\ UNCHANGED vars

ReadRule(s) ==
  /\ \/ req[s].op = "approve" /\ req[s].at = "all_records"
     \/ req[s].op = "reject" /\ req[s].at = "record"
  /\ Becomes(s, [op |-> req[s].op, at |-> "rule",
                 rule |-> req[s].rule, record |-> req[s].record,
                 decides |-> req[s].op = "reject" \/ req[s].complete,
                 loaded |-> status[req[s].rule]])
  /\ UNCHANGED vars

CommitDecision(s, op, outcome, new) ==
  /\ req[s].op = op /\ req[s].at = "rule"
  /\ LET r == req[s].rule IN
     /\ approvals' = [approvals EXCEPT ![r][req[s].record].status = outcome]
     /\ \/ /\ req[s].decides
           /\ WriteStatus(r, req[s].loaded, new)
           /\ approved_at' = [approved_at EXCEPT ![r] = today]
           /\ WriteEntry(r, op, req[s].loaded, new, "user")
        \/ /\ ~req[s].decides
           /\ UNCHANGED <<status, approved_at, audit>>
  /\ Becomes(s, Idle)
  /\ UNCHANGED <<is_active, workload, submitted_at, today>>

CommitApprove(s) == CommitDecision(s, "approve", "approved", "active")
CommitReject(s) == CommitDecision(s, "reject", "rejected", "rejected")

-----------------------------------------------------------------------------
\* archive_rule

ReadForArchive(s, u, r) ==
  /\ Free(s, {r})
  /\ MayArchive(u)
  /\ Becomes(s, [op |-> "archive", rule |-> r, loaded |-> status[r]])
  /\ UNCHANGED vars

CommitArchive(s) ==
  /\ req[s].op = "archive"
  /\ LET r == req[s].rule IN
     /\ WriteStatus(r, req[s].loaded, "archived")
     /\ is_active' = [is_active EXCEPT ![r] = FALSE]
  /\ Becomes(s, Idle)
  /\ UNCHANGED <<workload, submitted_at, approved_at, approvals, audit, today>>

-----------------------------------------------------------------------------
\* check_auto_approve: the rules are selected once, then each one's open
\* records are read and its changes committed by log_action.

SelectOverdue(s) ==
  /\ Overdue # {}
  /\ Free(s, Overdue)
  /\ Becomes(s, [op |-> "sweep", at |-> "rules", todo |-> Overdue])
  /\ UNCHANGED vars

ReadPending(s, r) ==
  /\ req[s].op = "sweep" /\ req[s].at = "rules" /\ r \in req[s].todo
  /\ Becomes(s, [op |-> "sweep", at |-> "records", todo |-> req[s].todo, rule |-> r,
                 open |-> {i \in DOMAIN approvals[r] :
                             approvals[r][i].status = "pending"}])
  /\ UNCHANGED vars

\* Mutant of CommitSweep: activations by the system are not audited.
CommitSweep_Unaudited(s) ==
  /\ req[s].op = "sweep" /\ req[s].at = "records"
  /\ LET r == req[s].rule IN
     /\ approvals' = [approvals EXCEPT ![r] =
          [i \in DOMAIN @ |-> IF i \in req[s].open
                                THEN [@[i] EXCEPT !.status = "approved"]
                                ELSE @[i]]]
     /\ WriteStatus(r, "pending_approval", "active")
     /\ approved_at' = [approved_at EXCEPT ![r] = today]
  /\ Becomes(s, Idle)
  /\ UNCHANGED <<is_active, workload, submitted_at, audit, today>>

CommitSweep(s) ==
  /\ req[s].op = "sweep" /\ req[s].at = "records"
  /\ LET r == req[s].rule
         left == req[s].todo \ {r}
     IN /\ approvals' = [approvals EXCEPT ![r] =
             [i \in DOMAIN @ |-> IF i \in req[s].open
                                   THEN [@[i] EXCEPT !.status = "approved"]
                                   ELSE @[i]]]
        /\ WriteStatus(r, "pending_approval", "active")
        /\ approved_at' = [approved_at EXCEPT ![r] = today]
        /\ WriteEntry(r, "approve", "pending_approval", "active", "system")
        /\ Becomes(s, IF left = {} THEN Idle
                      ELSE [op |-> "sweep", at |-> "rules", todo |-> left])
  /\ UNCHANGED <<is_active, workload, submitted_at, today>>

-----------------------------------------------------------------------------
\* The process dies or the connection drops before the commit: get_db rolls
\* back, and nothing the request did is stored.
Abort(s) ==
  /\ req[s] # Idle
  /\ Becomes(s, Idle)
  /\ UNCHANGED vars

\* A request is far shorter than a day.
Midnight ==
  /\ \A s \in Sessions : req[s] = Idle
  /\ NextDay
  /\ UNCHANGED req

RNext ==
  \/ \E s \in Sessions :
       \/ \E u \in Users, r \in Rules :
            \/ ReadForSubmit(s, u, r)
            \/ \E i \in DOMAIN approvals[r], op \in {"approve", "reject"} :
                 ReadRecord(s, u, r, i, op)
            \/ ReadForArchive(s, u, r)
       \/ ReadAllRecords(s) \/ ReadRule(s)
       \/ SelectOverdue(s)
       \/ \E r \in Rules : ReadPending(s, r)
       \/ CommitSubmit(s) \/ CommitApprove(s) \/ CommitReject(s)
       \/ CommitArchive(s) \/ CommitSweep(s)
       \/ Abort(s)
  \/ Midnight

RSpec == RInit /\ [][RNext]_rvars

-----------------------------------------------------------------------------
\* Properties

\* If no two requests for one rule overlap, the replicas behave as one
\* process that runs every handler in a single step.
HandlersAreAtomic == Spec

\* Overlapping requests cannot store half a submission: the records of a rule
\* are two for each submission in its audit trail, however often it is
\* submitted at the same time.
SubmissionsAreWhole ==
  \A r \in Rules :
    Len(approvals[r]) = Len(get_required_approvers) *
      Cardinality({k \in DOMAIN audit[r] : audit[r][k].action = "submit"})

\* A decision may overwrite another one, but never brings back a record that
\* was decided, and no commit loses a record of a concurrent submission.
NoRecordReopens ==
  [][\A r \in Rules : \A i \in DOMAIN approvals[r] :
       /\ i \in DOMAIN approvals'[r]
       /\ approvals[r][i].status # "pending" =>
            approvals'[r][i].status # "pending"]_rvars

\* A status reached through the review always has an audit row that says so,
\* even when a commit skips the write because the status it loaded is stale.
StatusIsAudited ==
  \A r \in Rules : status[r] \in {"pending_approval", "active", "rejected"} =>
    \/ audit[r] = << >>
    \/ \E k \in DOMAIN audit[r] : audit[r][k].new = status[r]
=============================================================================
