# Firewall rule portal: TLA+ models, checks and proofs

The portal keeps firewall rules in PostgreSQL and puts every rule through a
review: somebody submits it, a security stakeholder and a workload stakeholder
decide, and the rule goes into force or back to its author. A FastAPI backend
(two replicas, `src/kubernetes/deployment.yaml`) holds all the logic; an Angular
frontend calls it. This directory models that logic in TLA+, checks it with TLC
and proves the central facts with TLAPS. `PROJECT.json` maps every definition to
the lines it stands for.

## 1. Inventory

| Component | State | Operations | Interacts with |
|---|---|---|---|
| Approval workflow (`services/approval_service.py`, `routers/approvals.py`) | `firewall_rules.status`, dates; `approval_records` | submit, approve, reject, auto-approve sweep; two queries | writes rules, records and, through the audit service, audit rows in one session |
| Firewall rules (`services/firewall_service.py`, `routers/firewalls.py`) | `firewall_rules` | create, update, archive; list, get, collections, statistics | changes the status and the workload that the review reads |
| Audit (`services/audit_service.py`) | `audit_logs` | `log_action`; paged queries | `log_action` commits the caller's session, so it is the commit point of the review |
| Startup (`main.py`, `scripts/seed_data.py`, `alembic/`) | tables, first users, sample data | lifespan handler, migration, seed script | races with itself in other replicas, with seed jobs and with sign-ins |
| Sign-in (`routers/auth.py`, `auth/auth.py`) | `users`; tokens in the browser | login, refresh, me; role checks | registers users; decides who may call the rest |
| Sessions (`database.py`) | pool, one session per request | get, commit, roll back, close | everything above; each waits for a connection |
| Statistics and export | none | queries | reads rules |
| Frontend session | local storage, state in memory | login, logout, guards, interceptors | sign-in routes |
| Frontend pages | list shown, filters, page, dialogs | load, filter, page, decide, archive | rules and approvals routes |
| Celery tasks, middleware, logging, deployment files | none of their own | | |

What is hard here:

* two replicas and no locks: `SELECT` and commit of one request interleave with
  those of another, and no `UPDATE` is conditional on the version column;
* `log_action` commits in the middle of a handler, and once per rule in the sweep;
* records of earlier rounds stay and are counted by later ones; an archiving or a
  rejection leaves the open records open;
* startup, migration, seeding and first sign-ins all insert users by
  look-then-insert;
* an edit needs a connection of the pool twice, and a wait that lasts too long is an error
  after the commit, so that callers repeat what was already done;
* the page asks, submits and shows in any order, and a lost answer looks like a failure.

What makes each component correct: a rule is in force only when nobody is left to
decide and both roles agreed or the waiting time has passed; decisions stick; every
change of status by the review is in the audit trail, and the rows of the trail
chain; half a submission, or half an activation, is never stored; a replica that
serves requests has tables and users, every person has one account, and replicas
that start together do not keep each other from starting. The line of each hazard
is in `PROJECT.json`, with the properties about it.

## 2. Plan

Done, in this order:

1. `ApprovalWorkflow`: the review and the rule operations it depends on, one
   atomic action per handler.
2. `RuleLifecycle`, `LifecycleRefinement`: what the review promises of a rule, and
   that 1 implements it.
3. `ReplicatedApproval`: the same handlers statement by statement in several
   sessions; it implements 1 where requests for one rule do not overlap.
4. `ApprovalWorkflowProofs`: the invariants, action properties and the refinement
   of 1 and 2 for all values of the constants.
5. `Provisioning`: startup, migration, seed script and sign-in.
6. `ReviewQueries`, `ReviewQueriesProofs`: the pending list and the audit trail, read page by
   page while the review goes on.
7. `RulesPage`, `RulesPageProofs`: the rule list of the frontend, with answers in any order.

8. `RuleEditing`, `RuleEditingProofs`: edits, archivings and statistics on one connection pool.
9. Tokens in `Provisioning`; the contents of the form in `RulesPage`.
10. `ProvisioningProofs`, `AuditProofs`, `ReplicaProofs`: the invariants of 5, of the audit trail of 1,
    and the step simulation of 3 by 1 for disjoint requests.
11. `ReviewQueriesProofs` again: what a walk through the pages misses, and what an answer shows.
    `ReplicatedClaimsProofs`: what the review promises carried over to disjoint requests, and that the two
    races need an overlap. In `ProvisioningProofs`: signing in during development.

Nothing more is planned; section 7 says why the rest is left out.

Abstract specifications: `RuleLifecycle` for the review; `ApprovalWorkflow` itself is the
abstract specification of `ReplicatedApproval`.

## 3. Modules and how they correspond to the code

**`ApprovalWorkflow`.** Variables are columns: `status`, `is_active`, `workload`,
`submitted_at`, `approved_at` of each rule, its `approval_records` in order of
creation, its audit rows (what, status before, status after, by user or by the
system), and `today`. Actions are the handlers, with router and service together:
`submit_for_approval(u, r)`, `approve(u, r, i)`, `reject(u, r, i)`,
`check_auto_approve(done)`, `update_rule`, `archive_rule`, and `NextDay`. The sweep
takes the set it completed, because it commits rule by rule and may die in between.
A handler that raises changes nothing, so its error paths are the absence of a step.

**`RuleLifecycle`.** Per rule: its phase, whether a decision is open, whether anybody
ever rejected it. `LifecycleRefinement` gives the mapping.

**`ReplicatedApproval`** extends `ApprovalWorkflow` with `req`, what each session's handler
has read so far. One action per `SELECT` and one per commit. `Overlap` says whether two
requests may be about one rule. `Abort` is a crash or an exception before the commit.

**`ApprovalClaims`, `ReplicatedClaims`** state what documents, comments and messages of the
repository say and the code does not do.

**`Provisioning`.** `schema`, `users` (rows in commit order), `tags`, `samples`, and one
program counter per replica, seed job and sign-in. The lifespan handler is `Start`,
`FindTables`, `CreateTables`, then `LookForUser` and `AddUser` for each default user;
`seed_data.py` is `LookForAnyUser`, `AddSeedUsers`, `AddTags`, `AddSampleRule`; the sign-in is
`LookUpAccount` and `AddAccount`. `Taken` is the unique index. A browser that is in holds an access token, which
may `Expire`, and a refresh token; `Call` is `get_current_user` on any serving replica and
`Refresh` is `/auth/refresh`. Both look the subject of the token up again and answer 401 if it leads to no
account; `Resolves` says when they do not.

**`ReviewQueries`** extends `ApprovalWorkflow` with `created`, all records in the order of their
creation, and `walk`, a client that turns pages until the total says there are no more. A list (the
pending approvals of a user, the trail of a rule) is the set of places its WHERE clause selects;
its ORDER BY, newest first, is the `Rank` of a place, and a `Page` is what OFFSET and LIMIT cut out by rank.
`Count` and the fetches are the two statements of a query; `AnswerInbox` is the loop that selects
each rule once more. `left` and `late` count what moved under the client's feet.

**`RulesPage`.** The fields of `RulesComponent`, the requests in flight, and `rows`, how many rules
the server has for each setting of the filters. Others change `rows`: `OthersCreate` adds a rule to the
setting without filters and to any of the others, `OthersEdit` is an `update_rule` that takes a rule out of some
settings and puts it into others. `Load` is `loadRules` with `getRules`,
which throws for a filter that names a status, an action or a category: the select gives it
a string, and a string has no `join`. The server answers in two statements, `Count` and the fetch, and
edits fit between them; the fetch and the delivery are one step, `Answer`, because the table is only a number of rows here.
`Fail`, `Created` and `NotCreated` are the other callbacks. Two variables are not in the code: `blind`, a page was turned while the pager
still belonged to another answer, and `left`, how many rules edits have taken out of the setting since it was
chosen. `draft` is what the form holds of the rule being created, by
submission; any success answer wipes the form, also what was typed after the request was sent.

**`RuleEditing`.** `row` is the table, `free` the connections nobody holds, `req` how far each request is
and which copy it has. `Load`, `Commit` and `Refresh` are the statements of `update_rule` and
`archive_rule`; `Written` is the UPDATE of the attributes that differ from the copy; `Clashes` is the unique
index; `Close`, `Refused` and `Abort` are the ways out of `get_db`; `TimeOut` is the pool's.
`Review` is the status commit of the approval service between those statements; the connections of its request
are another replica's, or not counted. `updated_at` is left out: every edit writes it, whatever
it names.
`Count` stands for the dashboard, which keeps one connection for all its SELECTs. `hidden` is not in the
code: what others changed under a request.

Modules named `MC...` only give values to constants.

### Where the models draw the line

* The services are written against a synchronous `Session`, which is how the type
  annotations declare it, while `get_db` yields an `AsyncSession` whose calls are
  never awaited, and `get_db_session` builds an async engine on a synchronous
  driver. The models follow the services as written: `autoflush=False`,
  `expire_on_commit=False`, PostgreSQL's READ COMMITTED, an object keeps the values it was
  first loaded with, a commit writes the attributes that differ from them.
* `create_rule` passes two keyword arguments that are not columns
  (`required_approval_level`, `created_by`) and raises `TypeError` before it writes. Rules
  therefore come from fixtures and the seed script: the initial states have drafts and
  active rules.
* Every statement of a handler is a point where other requests go on: engine, pool and sessions of
  `database.py` are asynchronous. That is the most that can interleave; the services, which lack the
  `await`s, could only do less.
* After `update_rule` has committed, its route builds a `FirewallRuleResponse` from
  attributes the rule does not have, so the HTTP answer fails (`routers/firewalls.py:209`).
  `OnlyOthersHideAnEdit` is about what the service returns.
* A workload of `""` behaves as none. `approved_by` and `record.approved_at` are not
  mapped columns and are left out.
* An error while the response is built comes after the commit and undoes nothing.
* `get_current_user` reads the user in a session of its own; users do not change after
  they are registered, so that read commutes with everything.
* `check_auto_approve` has no caller in the repository. It is modelled as an operation
  that may run at any time.
* `create_rule` and `list_rules` of the backend fail in the ORM, and the frontend calls `/api`
  where the backend serves `/api/v1`. `RulesPage` therefore takes the server as its declared
  interface: it counts, fetches a page and answers, or fails. Rules come and leave in between as
  `create_rule` and `update_rule` make them.
* `ReviewQueries` takes creation times as distinct and in the order of the commits: ties, and clocks of
  replicas that differ, are ignored.
* Tokens are modelled in `Provisioning` only, as good or expired; their encoding is taken as right. In the
  other modules a caller is a registered user, active or not.
* The decorators of the frontend's components lack a closing brace (`rules.component.ts:269`). `RulesPage` models the
  class below the decorator.

## 4. What is checked

| Run | Question | Bounds |
|---|---|---|
| `review` | Do records, status, audit rows and dates stay consistent over rounds of review? | 1 rule, 4 users (admin, one of each stakeholder, reviewer), 2 rounds, days 0..2, one day of waiting |
| `replicas_disjoint` | Are handlers atomic while requests for one rule do not meet, and do they implement the life cycle? | 2 sessions, 2 rules, so a sweep can stop between two rules |
| `replicas_overlap` | What survives when they do meet? | 2 symmetric sessions, 1 rule, one round or two that overlap, no waiting time |
| `provisioning` | Do starts, seed jobs and sign-ins get along, and does a token keep its account? | 2 replicas, 2 jobs, 2 browsers, 1 newcomer, 2 crashes |
| `review_queries` | What does a client find that pages through a list while it changes? | 1 rule, 2 users, 2 rounds, pages of one row |
| `rules_page` | When do table, pager, message and form of the rule list tell the truth? | 3 settings, 3 rules, pages of two, 3 requests, 2 submissions, one rule leaving the settings it was in |
| `rule_editing` | What do edits that overlap write and return, and does the pool serve everybody? | 2 rules that can move to one zone, 2 requests, 2 edits and the archiving, a pool of 1 or 2 |
| `claim_archive`, `claim_resubmit`, `race_decide`, `race_approve`, `dev_login` | Counterexamples to statements of the repository, section 6 | the smallest instance that shows each |

Why the bounds are enough. A rule's review depends on other rules only through the
sweep, which treats them one by one: one rule gives every history of a rule, two give
every way a sweep can be cut. Two rounds let records of an earlier round meet a later
one; a third adds only more of the same kind of old records. Two sessions are
what a lost update needs. With one day of waiting, days 0 to 2 contain a submission that is
too young, one that is just due, and one that is overdue. In `provisioning`, two of
each actor give every pair of racing inserts, and a second crash lets a crash hit what
a first one left behind. Two rounds fill a list with four records, enough for a page
to be skipped and for one to be repeated. In `rules_page`, three requests are a change of filter
and two turns of the page, in any order of answers; three rules make the last page of a list
shorter than the others, and one rule that leaves can empty it; two submissions are a rule that is sent twice. In `rule_editing`, a pool of one
makes both requests wait for the connection of the other, and one of two makes every pair of
statements overlap; the edits share one column with each other and with the archiving, and both rules can
want the same zone. Its reviews have one outcome, which an archiving and a later decision change to and fro: the
theorems about it hold for every set of outcomes. The larger state spaces have 85 thousand (`review`) to 1.6 million states
(`rules_page`). The proofs of section 5 remove the bounds from every safety property.

Fairness. The review has none: people need not decide, and nothing schedules the
sweep, so no liveness property of the review would be honest. `Provisioning` assumes weak
fairness of each replica's start only: the orchestrator restarts it
(`restart: unless-stopped`, a `Deployment`), and the event loop runs its handler. Jobs and
people are not fair. `EventuallyServing` needs crashes to be finitely many, which
`MaxCrashes` provides. `RulesPage` assumes weak fairness of the server's count and of the answers: a browser ends
every request with a response or an error. Users are not fair. `RuleEditing` assumes weak
fairness of a handler that can go on, and strong fairness of a request that waits: the queue of
SQLAlchemy's pool is first in, first out, so a connection that comes back again and again
reaches everyone who waits. No timeout is assumed to happen: `EveryRequestEnds` is not owed to
waits that are given up.

The properties, and what each would catch:

* `ActiveIsSettled`, `PendingHasWork`: no open record on a rule in force; a rule under
  review that nobody rejected is never stuck without a record to decide.
* `ActivatedByBothRoles`, `UsersCannotOverrule`: activation by users takes an approval of
  each role and no rejection, ever; only the sweep passes over a rejection.
* `AutoApprovalWaits`: the sweep never activates a rule before its time.
* `AuditChains`, `RowsAreAudited`: each audit row starts where the one before it ended,
  unless an archiving, which leaves no row, lies in between; records and rows agree.
* `ActiveNeverReopens`, `DecisionsAreFinal`: what no step may do.
* `ArchiveEndsByDecision`: no operation restores an archived rule (section 6). The only way out is a decision on
  a record the archiving left open; it uses the record up, names the new status, and leaves the rule switched off.
* `SubmissionsAreWhole`, `StatusIsAudited`, `NoRecordReopens`: what overlapping requests keep.
* `HandlersAreAtomic`: requests that do not meet at a rule behave as the handlers in one step.
* `OneAccountPerSubject`, `ServingIsProvisioned`, `SeedingIsExclusive`, `NextTryGetsIn`,
  `EventuallyServing`: look-then-insert by many actors is saved by the unique index, at
  the price of failed attempts that succeed when repeated.
* `TokensResolve`: a token leads to exactly one account for as long as it is used, whatever
  starts, jobs and other sign-ins have added since.
* `WritesAreNamed`, `OnlyOthersHideAnEdit`: a commit changes only what its request named, however old its
  copy; a field missing from the returned rule was changed by somebody else in between.
* `PoolIsConserved`, `EveryRequestEnds`: every way out gives the connection back, and a request that
  needs one twice does not hold the first while it waits for the second.
* `OpenRecordsReachSomeone`, `ItemsAgree`, `WalkMissesOnlyMoved`: who finds a record may decide it;
  an item never shows a pending record next to a rule in force, although the rule is selected again
  after the record; paging misses no more rows than left the list or slipped in between count and page.
* `TableMatchesControls`: once the latest request is answered and no answer came after it, the table is what
  the controls say; `LoadingEnds`: an indicator of loading ends.
* `RowsAreReachable`, `EmptyMeansNone`: on a table that answers the latest request and a page that was not turned
  blindly, the pager is missing, or "No rules found" is shown, only where the rules that have *left* the setting since
  explain it.
* `CreatedRuleLeavesForm`: once the page is told that a rule exists, the form no longer holds it, so that
  only a lost or late answer can lead to a second one.

Each property has a mutant in `PROJECT.json`: a small change of the code's definition
that breaks it.

## 5. What is proved

`ApprovalWorkflowProofs` proves, for all sets of rules, users and workloads and all bounds:

* `TypeCorrect`, `ActiveSettled`, `PendingDecidable` from the inductive invariant `ReviewInv`;
* `ActiveStays`, `ArchiveStays`, `DecisionsStay`, `VetoStands`: the action properties. For `ArchiveStays`
  (`ArchiveEndsByDecision`), `DecisionShelves` is the one kind of step that can touch an archived rule's records;
* `WorkflowImplementsLifecycle`: every step is a step or a stutter of `RuleLifecycle`.

`ReviewQueriesProofs` proves `PendingListIsRight` from `RecordsFit`: the approver of a record, if it
has one, is active and has the record's role, because submissions choose it so and nothing
changes it. `ListsAreWellFormed` (`TypeOKQueries`) says that the list holds every record exactly once, the earlier
ones of a rule first; a step of the review adds two records or none (`RecordsGrow`). With these two it proves,
from the inductive invariant `QueriesInv`:

* `AnswersAgree` (`ItemsAgree`): the page takes record and rule from one statement, and the loop that
  selects the rule again gets the copy the session has. When they are read, a pending record rules out
  a rule in force (`ActiveIsSettled`) and a draft, which has no records (`DraftsAreNew`).
* `PagingMissesOnlyMoved` (`WalkMissesOnlyMoved`). `WalkInv` is about the rows that stood in the list all
  the time and that the client has not got: among the rows the pages so far cover they are at most `left`,
  and once there is no further page to ask for, at most `left + late`. Rows that come push the
  others back, behind what is covered (`ComingPushesBack`); each row that leaves moves one up, into it
  (`LeavingMovesUp`, `MissedAfterMove`); the next page adds what it covers to what was seen (`PageFollows`),
  and of a list counted no longer than the pages only late rows are behind them (`BehindTheTop`). That a finite list has a last row
  comes from the well-foundedness of the naturals (`LeastElement`), because induction is out of reach.
* `QuietListsAreReadWhole`: hence a list that loses no row, and gets none between a count and its page, is read whole.

`RulesPageProofs` proves all safety properties of `RulesPage` for every page size and every bound
(`PageTypeCorrect`, `TableIsCurrent`, `RowsStayReachable`, `EmptyIsTrue`). The invariant has two parts.
`PageInv`: a request with the latest number, and a table that answers it, were asked for with the
controls as they are; no setting finds more rules than the one without filters. `Paged`:
the pager belongs to the table, and unless a page was turned blindly, the list reaches the page of the controls
once the `left` rules that edits took out of it are added again: the list on the server, the one counted for the latest
request, and the one of its answer. `PagesBounds` is the arithmetic:
the number of pages is the quotient rounded up.

`ReviewInv` is `TypeOK`, `NeverCancelled`, `ActiveIsSettled` and `PendingHasWork`. The last
two need each other and the second: approving the last open record must activate the
rule, which it does only if every other record is approved, and that follows from there
being no open, no rejected and no cancelled one. `NeverCancelled` is the strengthening: the enum has
`cancelled`, no handler writes it, and if one did, `approve` would leave the rule pending for
ever. The proof has one lemma per handler about the records it leaves
(`DecidedRecords`, `SubmittedRecords`, `SweptRecords`), one step per action, and the temporal
theorems follow by PTL. The assumptions are the ones on the constants in
`ApprovalWorkflow`.

`AuditProofs` adds what needs the history (`AuditInv`, one part per property):

* `History`: records, rows and status of a rule tell the same story: the rows chain up, and the last one
  is what the status is, or the rule was archived since. It gives `HistoryIsWhole` (`AuditChains`).
* `Counts`: how many records and rejections a rule has is counted by its rows, with
  `NothingIsHalfStored` (`RowsAreAudited`). The set of rows of one kind grows by one element or none; `CountsNext`
  says so handler by handler.
* `Waited`: the last row of the system is as late as the waiting time asks (`SweepIsPatient`).
* `Round`: the last two records of a rule are one per role, and while it is under review or in force neither is
  rejected. With `ReviewInv` a rule in force has none open or cancelled either, so both are approved
  (`BothRolesApprove`).

`ReplicaProofs`, about requests in any number of sessions:

* `SubmissionsStayWhole`, `RecordsStayDecided`, `StatusesAreAudited` hold whether requests overlap or not.
  The last one needs `SignedInv`: not only the status, but also each status a request *remembers*, is in
  the trail, because a commit that finds its value unchanged writes nothing.
* `DisjointRequestsAreAtomic` proves `HandlersAreAtomic` where requests do not meet: `AtomicInv` says that
  what each request knows is still true (`Knows`), because no other request is about its rule
  (`Apart`); hence each commit is the whole handler of `ApprovalWorkflow`, and reading is a stutter.

`ReplicatedClaimsProofs` draws the conclusions. While requests for one rule do not overlap, several
replicas keep the life cycle (`DisjointRequestsKeepLifecycle`) and everything else proved of one process
(`DisjointRequestsKeepReview`). And what `race_approve` and `race_decide` find (section 6) needs the overlap: without it the last
approval activates the rule (`OnlyOverlapStrandsARule`) and no decision is overwritten
(`OnlyOverlapDecidesTwice`), for any number of sessions.

`ProvisioningProofs` proves every invariant of `Provisioning` for any number of replicas, jobs and browsers:
`TypeCorrect`, `AccountsAreUnique`, `ServingReplicasAreProvisioned`, `TokensLeadToAccounts`,
`RefusedGetInNext` (in production only: section 6, `dev_login`) and `SeedingHasOneOwner`. The invariant is
`Provisioned` (a replica at its n-th user finds the ones before it, and nobody deletes users), `Accounted` (a
session that is in, or was refused because it was too late, has its account) and `Seeded` (one job
past its first commit, because that commit adds a subject only one can add).
`MockUserNeverGetsIn` says that what `dev_login` finds is no accident: in development nobody is ever
in. The invariant is `LockedOut`: a replica that takes the request has the default users, one of which has the
mock user's subject under another address, and nothing adds the address that is looked up.

`RuleEditingProofs` proves `TypeCorrect`, `PoolConserved`, `WritesNamed` and `EditsAreReturned` for any
number of rules, requests, edits and connections. The strengthening is `Hides`: a column a request
asked for and does not find in the table as it left or found it is one that others changed. `RulesPageProofs` also
proves `FormForgets`, for any number of submissions.

Only model-checked: liveness (`EventuallyServing`, `LoadingEnds`, `EveryRequestEnds`), which is out of the
prover's reach, and the counterexamples of section 6. The assumptions are those of the modules about
their constants.

## 6. Where code and documents disagree

With a run:

* `claim_archive`: a record left open by an archiving brings the rule back
  (`approval_service.py:140`; the page says "cannot be undone", `rule-detail.component.ts:248`).
* `claim_resubmit`: after one rejection no round of approvals activates the rule
  (`approval_service.py:154`; `admin-guide.md:58`).
* `race_decide`: two overlapping decisions on one record both succeed (`approval_service.py:140`).
* `race_approve`: two approvers at the same time, and the activation is lost: the rule
  waits with nothing left to approve (`approval_service.py:154`).
* `dev_login`: the mock user of development can never be created (`routers/auth.py:55`).

Seen while modelling, without a run of their own:

* Rules can be edited and archived in any status (`firewall_service.py:196`), where
  `admin-guide.md:46-47` and `:88` allow it for drafts and rejected rules.
* `update_rule`, `archive_rule` build an `AuditLog` and never add it to the session
  (`firewall_service.py:207`, `:236`).
* The fallback search for an approver filters the list that was already found wanting
  (`approval_service.py:95-100`).
* No operation restores an archived rule, where `admin-guide.md:51` calls a deleted rule "Soft-deleted
  (recoverable)" and `:97` says it "can be restored within 30 days". `ArchiveEndsByDecision` says what does bring one
  back: only a decision on a record left open, and the rule stays switched off.
* A request writes only what differs from what it loaded, so a status others changed meanwhile can be kept. A
  late rejection that loaded the rule as rejected leaves it pending if it was resubmitted before the commit, while the
  audit row says rejected (`approval_service.py:216-231`). Without an overlap this cannot happen (`DisjointRequestsAreAtomic`).
* Two overlapping submissions of one rule both pass the status check and create two
  rounds of records (`approval_service.py:67-68`).
* The sweep reads its list once; a rule that is rejected and resubmitted while the
  sweep runs is activated at once (`approval_service.py:302`).
* After a crash between its commits, and on any database a replica has started on, the
  seed script says "already seeded" and adds nothing (`seed_data.py:23-25`).
* Choosing a status or an action in the rule list loads for ever and sends nothing
  (`firewall.service.ts:16-17`), where `admin-guide.md:75` and `:77` describe the filters.
* An answer overwrites the table whatever it was asked for (`rules.component.ts:326-327`): one that comes late shows the
  rules of another setting or page than the controls do, and nothing loads them again. `TableMatchesControls` is only
  about the answer to the latest request.
* The page can end past the end of its list: it says "No rules found" (`rules.component.ts:79`) while there are
  some, and without pager the only way back is another filter. Two ways lead there: a Next after a change of filter and
  before its answer, and an edit of somebody else that takes rules out of the setting (`firewall_service.py:196-202`)
  after the pages were counted. `RowsAreReachable` and `EmptyMeansNone` say that there is no third: a
  page that was not turned blindly is one the list reaches if the rules that left are added again.
* The frontend calls `/api` (`environment.ts:3`), the backend serves `/api/v1` (`main.py:194-198`).
* Where a replica's `create_all` came first, `alembic upgrade head` fails for good.

## 7. Not modelled

* Counts and CSV text of statistics and export, and the backend's rule list: queries that change nothing and
  whose results no other step uses. The list and the creation of rules raise before they do anything
  (section 3).
* Validation in `schemas.py`, token encoding, error wording, request ids, logging: each is a function of one
  request. Celery tasks: stubs nobody calls.
* The frontend's session. `main.ts:25-31` bootstraps without interceptors and its routes have no guards; the core service posts to
  `/api/v1/auth/login` and reads `res.token`, while the backend serves `/auth/login-azure` and
  answers `access_token` (`core/services/auth.service.ts:30-36`). A model would be of an exchange that
  never takes place.
* The approvals page and the page of one rule: their decisions, submissions and queries go to routes the backend does
  not have (`shared/approval.service.ts:21`, `:25`, `:29`), so nothing they do reaches the review. The components under
  `features/` are not routed.
* Tables no handler writes (collections, firewalls, workloads) and columns none writes (version, soft delete).
* Terraform and Kubernetes files, taken over only as number of replicas, restart policy and
  order of start.
