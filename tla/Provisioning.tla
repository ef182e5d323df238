---------------------------- MODULE Provisioning ----------------------------
(***************************************************************************)
(* How the database gets its tables and its first users.  Nobody           *)
(* coordinates the actors that do it: every replica of the backend runs    *)
(* the lifespan handler of main.py when it starts, jobs run the migrations *)
(* and seed_data.py, and the sign-in route registers whoever is not known  *)
(* yet.  Each of them looks first and inserts later; the unique index on   *)
(* users.oidc_sub is all that stands between them.  A replica that fails   *)
(* to start, or dies, is started again by its orchestrator.                *)
(***************************************************************************)
EXTENDS Naturals, Sequences, FiniteSets

CONSTANTS
  Replicas,    \* backend processes
  Jobs,        \* runs of the migration and seed container
  Sessions,    \* browsers that sign in
  Newcomers,   \* subjects of the identity provider nobody has seen yet
  DevLogin,    \* settings.DEBUG is set and AZURE_CLIENT_ID is not
  MaxCrashes   \* how often a replica or a job may die (bound of the model)

ASSUME DevLoginAssumption == DevLogin \in BOOLEAN
ASSUME MaxCrashesAssumption == MaxCrashes \in Nat

Account(sub, email) == [sub |-> sub, email |-> email]

\* The users of the lifespan handler, in the order it adds them.
DefaultUsers == <<Account("dev-sub-001", "admin@example.com"),
                  Account("security-sub-001", "security@example.com"),
                  Account("workload-sub-001", "workload@example.com")>>

\* The users of seed_data.py, added in one transaction.
SeedUsers == <<Account("dev-sub-001", "admin@example.com"),
               Account("dev-sub-002", "security@example.com"),
               Account("dev-sub-003", "workload@example.com")>>

\* Who signs in: the mock user, or a subject the identity provider vouches
\* for, whose token has no e-mail claim and who is stored with a made-up one.
MockUser == Account("dev-sub-001", "dev@example.com")
Visitors == IF DevLogin THEN {MockUser}
                        ELSE {Account(sub, "none") : sub \in Newcomers}
Stored(u) == IF u.email = "none" THEN Account(u.sub, "azure.external") ELSE u

VARIABLES
  schema,    \* "none", "created" by create_all or "migrated" by alembic
  users,     \* the rows of the table users, in the order they were committed
  tags,      \* whether the sample tags are committed
  samples,   \* how many sample rules are committed
  replica,   \* each replica's progress
  job,       \* each job's progress
  session,   \* each browser's sign-in request, and whether the access token it
             \* got is still good; its refresh token lives as long as the session
  crashes

vars == <<schema, users, tags, samples, replica, job, session, crashes>>

Down == [step |-> "down"]
Serving == [step |-> "serving"]
Idle == [step |-> "idle"]

HasSubject(sub) == \E n \in DOMAIN users : users[n].sub = sub
HasEmail(email) == \E n \in DOMAIN users : users[n].email = email

\* The unique index: a commit that repeats a subject raises IntegrityError.
\* Mutant: no index.
Taken_Never(sub) == FALSE
Taken(sub) == HasSubject(sub)

Init ==
  /\ schema = "none"
  /\ users = << >>
  /\ tags = FALSE
  /\ samples = 0
  /\ replica = [r \in Replicas |-> Down]
  /\ job = [j \in Jobs |-> "new"]
  /\ session = [s \in Sessions |-> Idle]
  /\ crashes = 0

-----------------------------------------------------------------------------
\* A replica starts: init_db, then the default users one after the other.

Enters(r, state) == replica' = [replica EXCEPT ![r] = state]

Start(r) ==
  /\ replica[r] = Down
  /\ Enters(r, [step |-> "init_db"])
  /\ UNCHANGED <<schema, users, tags, samples, job, session, crashes>>

\* create_all looks which tables are missing ...
FindTables(r) ==
  /\ replica[r].step = "init_db"
  /\ Enters(r, IF schema = "none" THEN [step |-> "create_all"]
                                  ELSE [step |-> "look", user |-> 1])
  /\ UNCHANGED <<schema, users, tags, samples, job, session, crashes>>

\* ... and creates them, which fails if another process did so meanwhile.
CreateTables(r) ==
  /\ replica[r].step = "create_all"
  /\ \/ /\ schema = "none"
        /\ schema' = "created"
        /\ Enters(r, [step |-> "look", user |-> 1])
     \/ /\ schema # "none"
        /\ Enters(r, Down)
        /\ UNCHANGED schema
  /\ UNCHANGED <<users, tags, samples, job, session, crashes>>

\* Mutant of After: one user too many.
After_OffByOne(k) == IF k > Len(DefaultUsers) THEN Serving
                     ELSE [step |-> "look", user |-> k + 1]
After(k) == IF k = Len(DefaultUsers) THEN Serving
                                     ELSE [step |-> "look", user |-> k + 1]

\* Mutants of LookForUser: the user is looked up by e-mail address; the
\* lookup is left out.
LookForUser_ByEmail(r) ==
  /\ replica[r].step = "look"
  /\ LET k == replica[r].user IN
     Enters(r, IF HasEmail(DefaultUsers[k].email) THEN After(k)
               ELSE [step |-> "add", user |-> k])
  /\ UNCHANGED <<schema, users, tags, samples, job, session, crashes>>
LookForUser_Skipped(r) ==
  /\ replica[r].step = "look"
  /\ Enters(r, [step |-> "add", user |-> replica[r].user])
  /\ UNCHANGED <<schema, users, tags, samples, job, session, crashes>>

LookForUser(r) ==
  /\ replica[r].step = "look"
  /\ LET k == replica[r].user IN
     Enters(r, IF HasSubject(DefaultUsers[k].sub) THEN After(k)
               ELSE [step |-> "add", user |-> k])
  /\ UNCHANGED <<schema, users, tags, samples, job, session, crashes>>

\* The commit of one default user.  An IntegrityError ends the start.
AddUser(r) ==
  /\ replica[r].step = "add"
  /\ LET k == replica[r].user IN
     \/ /\ ~Taken(DefaultUsers[k].sub)
        /\ users' = Append(users, DefaultUsers[k])
        /\ Enters(r, After(k))
     \/ /\ Taken(DefaultUsers[k].sub)
        /\ Enters(r, Down)
        /\ UNCHANGED users
  /\ UNCHANGED <<schema, tags, samples, job, session, crashes>>

Boot(r) == \/ Start(r) \/ FindTables(r) \/ CreateTables(r)
           \/ LookForUser(r) \/ AddUser(r)

\* The requests of a replica die with it.
CrashReplica(r) ==
  /\ crashes < MaxCrashes
  /\ crashes' = crashes + 1
  /\ replica[r] # Down
  /\ Enters(r, Down)
  /\ session' = [s \in Sessions |->
       IF session[s].step = "add" /\ session[s].replica = r THEN Idle ELSE session[s]]
  /\ UNCHANGED <<schema, users, tags, samples, job>>

-----------------------------------------------------------------------------
\* A job: alembic upgrade head, then seed_data.py, which commits three times.

Reaches(j, step) == job' = [job EXCEPT ![j] = step]

\* The migration creates the tables, which fails, without a trace, where
\* create_all was first, and is skipped where alembic has done it.
Upgrade ==
  /\ schema # "created"
  /\ schema' = "migrated"

Migrate(j) ==
  /\ job[j] = "new"
  /\ Upgrade
  /\ Reaches(j, "look")
  /\ UNCHANGED <<users, tags, samples, replica, session, crashes>>

\* README.md also has operators run the script alone, on any schema.
RunScript(j) ==
  /\ job[j] = "new"
  /\ schema # "none"
  /\ Reaches(j, "look")
  /\ UNCHANGED <<schema, users, tags, samples, replica, session, crashes>>

LookForAnyUser(j) ==
  /\ job[j] = "look"
  /\ Reaches(j, IF users = << >> THEN "users" ELSE "skipped")
  /\ UNCHANGED <<schema, users, tags, samples, replica, session, crashes>>

\* Mutant of AddSeedUsers: users that exist are merged instead of refused.
AddSeedUsers_Merge(j) ==
  /\ job[j] = "users"
  /\ users' = users \o SelectSeq(SeedUsers, LAMBDA u : ~Taken(u.sub))
  /\ Reaches(j, "tags")
  /\ UNCHANGED <<schema, tags, samples, replica, session, crashes>>

AddSeedUsers(j) ==
  /\ job[j] = "users"
  /\ \/ /\ \A n \in DOMAIN SeedUsers : ~Taken(SeedUsers[n].sub)
        /\ users' = users \o SeedUsers
        /\ Reaches(j, "tags")
     \/ /\ \E n \in DOMAIN SeedUsers : Taken(SeedUsers[n].sub)
        /\ Reaches(j, "new")
        /\ UNCHANGED users
  /\ UNCHANGED <<schema, tags, samples, replica, session, crashes>>

\* Tag names are unique too, so a second set would be refused.
AddTags(j) ==
  /\ job[j] = "tags"
  /\ ~tags
  /\ tags' = TRUE
  /\ Reaches(j, "rule")
  /\ UNCHANGED <<schema, users, samples, replica, session, crashes>>

AddSampleRule(j) ==
  /\ job[j] = "rule"
  /\ samples' = samples + 1
  /\ Reaches(j, "done")
  /\ UNCHANGED <<schema, users, tags, replica, session, crashes>>

\* A job that dies is run again by hand.
CrashJob(j) ==
  /\ crashes < MaxCrashes
  /\ crashes' = crashes + 1
  /\ job[j] \in {"look", "users", "tags", "rule"}
  /\ Reaches(j, "new")
  /\ UNCHANGED <<schema, users, tags, samples, replica, session>>

-----------------------------------------------------------------------------
\* login_azure: the mock user is looked up by e-mail address, everybody else
\* by subject; whoever is not found is added.  The tokens name the subject of the
\* account, and are made when it is committed.

Becomes(s, request) == session' = [session EXCEPT ![s] = request]

\* Mutant of Known: everybody is looked up by e-mail address.
Known_ByEmail(u) == HasEmail(u.email)
Known(u) == IF DevLogin THEN HasEmail(u.email) ELSE HasSubject(u.sub)

SignedIn(u) == [step |-> "in", user |-> u, access |-> TRUE]

LookUpAccount(s, r, u) ==
  /\ session[s] = Idle
  /\ replica[r] = Serving
  /\ Becomes(s, IF Known(u) THEN SignedIn(u)
                            ELSE [step |-> "add", user |-> u, replica |-> r])
  /\ UNCHANGED <<schema, users, tags, samples, replica, job, crashes>>

AddAccount(s) ==
  /\ session[s].step = "add"
  /\ LET u == session[s].user IN
     \/ /\ ~Taken(u.sub)
        /\ users' = Append(users, Stored(u))
        /\ Becomes(s, SignedIn(u))
     \/ /\ Taken(u.sub)
        /\ Becomes(s, [step |-> "refused", user |-> u])
        /\ UNCHANGED users
  /\ UNCHANGED <<schema, tags, samples, replica, job, crashes>>

\* The account of a token: scalar_one_or_none raises where there are two.
Resolves(u) == Cardinality({n \in DOMAIN users : users[n].sub = u.sub}) = 1

Answered(s, good) == Becomes(s, IF Resolves(session[s].user) THEN good
                                ELSE [step |-> "rejected", user |-> session[s].user])

\* Any route behind get_current_user, such as /auth/me.
Call(s, r) ==
  /\ session[s].step = "in" /\ session[s].access
  /\ replica[r] = Serving
  /\ Answered(s, session[s])
  /\ UNCHANGED <<schema, users, tags, samples, replica, job, crashes>>

\* ACCESS_TOKEN_EXPIRE_MINUTES have passed.
Expire(s) ==
  /\ session[s].step = "in" /\ session[s].access
  /\ Becomes(s, [session[s] EXCEPT !.access = FALSE])
  /\ UNCHANGED <<schema, users, tags, samples, replica, job, crashes>>

\* /auth/refresh, with the refresh token, whenever the browser likes.
Refresh(s, r) ==
  /\ session[s].step = "in"
  /\ replica[r] = Serving
  /\ Answered(s, SignedIn(session[s].user))
  /\ UNCHANGED <<schema, users, tags, samples, replica, job, crashes>>

SignOut(s) ==
  /\ session[s].step \in {"in", "refused", "rejected"}
  /\ Becomes(s, Idle)
  /\ UNCHANGED <<schema, users, tags, samples, replica, job, crashes>>

-----------------------------------------------------------------------------
Next ==
  \/ \E r \in Replicas : Boot(r) \/ CrashReplica(r)
  \/ \E j \in Jobs : \/ Migrate(j) \/ RunScript(j) \/ LookForAnyUser(j)
                     \/ AddSeedUsers(j) \/ AddTags(j) \/ AddSampleRule(j)
                     \/ CrashJob(j)
  \/ \E s \in Sessions :
       \/ \E r \in Replicas, u \in Visitors : LookUpAccount(s, r, u)
       \/ \E r \in Replicas : Call(s, r) \/ Refresh(s, r)
       \/ AddAccount(s) \/ Expire(s) \/ SignOut(s)

\* The orchestrator restarts a replica and the event loop runs its lifespan
\* handler (restart: unless-stopped, or a Deployment).  Jobs are run by hand
\* and people sign in when they like: nothing is assumed of them.
Spec == Init /\ [][Next]_vars /\ \A r \in Replicas : WF_vars(Boot(r))

-----------------------------------------------------------------------------
\* Properties

\* The accounts that any of the three ways can make.
Accounts == {DefaultUsers[k] : k \in DOMAIN DefaultUsers}
            \cup {SeedUsers[k] : k \in DOMAIN SeedUsers}
            \cup {Stored(u) : u \in Visitors}

TypeOK ==
  /\ schema \in {"none", "created", "migrated"}
  /\ \A n \in DOMAIN users : users[n] \in Accounts
  /\ tags \in BOOLEAN
  /\ samples \in Nat
  /\ replica \in [Replicas ->
       {Down, Serving, [step |-> "init_db"], [step |-> "create_all"]}
       \cup [step : {"look", "add"}, user : DOMAIN DefaultUsers]]
  /\ job \in [Jobs -> {"new", "look", "users", "tags", "rule", "done", "skipped"}]
  /\ session \in [Sessions ->
       {Idle} \cup [step : {"in"}, user : Visitors, access : BOOLEAN]
              \cup [step : {"refused", "rejected"}, user : Visitors]
              \cup [step : {"add"}, user : Visitors, replica : Replicas]]
  /\ crashes \in 0..MaxCrashes

\* However starts, seed jobs and sign-ins race, a subject has one account:
\* two would make every later scalar_one_or_none on it raise.
OneAccountPerSubject ==
  \A m, n \in DOMAIN users : users[m].sub = users[n].sub => m = n

\* A replica that takes requests finds the tables and all three default
\* users, whoever created them.
ServingIsProvisioned ==
  \A r \in Replicas : replica[r] = Serving =>
    /\ schema # "none"
    /\ \A k \in DOMAIN DefaultUsers : HasSubject(DefaultUsers[k].sub)

\* The commit of the seed users is the lock of the seed script: one job at
\* most gets past it, ever, so that its tags are never refused half way and
\* the sample rule is there once.
SeedingIsExclusive ==
  /\ Cardinality({j \in Jobs : job[j] \in {"tags", "rule"}}) <= 1
  /\ \A j \in Jobs : job[j] = "tags" => ~tags
  /\ samples <= 1

\* A token is good for its lifetime: whoever made the account, and whatever
\* starts, seeds or signs in since, it leads to one account on every replica, so
\* that no route answers "User not found" to somebody who has signed in.
TokensResolve ==
  \A s \in Sessions : /\ session[s].step # "rejected"
                      /\ session[s].step = "in" => Resolves(session[s].user)

\* A sign-in that is refused lost a race against another one for the same
\* account: the next try finds it.
NextTryGetsIn ==
  \A s \in Sessions : session[s].step = "refused" => Known(session[s].user)

\* What routers/auth.py:37 says of development: a mock user is created if there
\* is none, so that signing in works.
DevLoginSucceeds ==
  DevLogin => \A s \in Sessions : session[s].step # "refused"

\* Replicas may knock each other out while they start, but not for ever.
EventuallyServing == \A r \in Replicas : <>[](replica[r] = Serving)
=============================================================================
