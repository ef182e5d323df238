------------------------- MODULE ProvisioningProofs -------------------------
(* Proofs about Provisioning, for every number of replicas, jobs, browsers   *)
(* and newcomers and every bound on the crashes.                             *)
EXTENDS Provisioning, FiniteSetTheorems, SequenceTheorems, TLAPS

-----------------------------------------------------------------------------
\* The table of users

UsersInv == users \in Seq(Accounts) /\ OneAccountPerSubject

\* No account is ever taken away.
UsersGrow == \A sub : HasSubject(sub) => HasSubject(sub)'

LEMMA UserList ==
  ASSUME UsersInv
  PROVE  /\ Len(users) \in Nat /\ DOMAIN users = 1..Len(users)
         /\ \A n \in 1..Len(users) : users[n] \in Accounts
BY LenProperties, ElementOfSeq DEF UsersInv

\* What a commit of one account does to the table.
LEMMA AccountAdded ==
  ASSUME UsersInv, NEW a \in Accounts, ~Taken(a.sub), users' = Append(users, a)
  PROVE  UsersInv' /\ UsersGrow /\ HasSubject(a.sub)'
<1>1. /\ Len(users) \in Nat /\ DOMAIN users = 1..Len(users)
      /\ users' \in Seq(Accounts) /\ Len(users') = Len(users) + 1
      /\ \A n \in 1..Len(users) : users'[n] = users[n]
      /\ users'[Len(users) + 1] = a
  BY UserList, AppendProperties DEF UsersInv
<1>2. DOMAIN users' = 1..Len(users) + 1
  BY <1>1, LenProperties
<1>3. \A n \in DOMAIN users' : n \in DOMAIN users \/ n = Len(users) + 1
  BY <1>1, <1>2
<1>4. \A n \in DOMAIN users : n \in DOMAIN users' /\ n # Len(users) + 1 /\ users[n].sub # a.sub
  BY <1>1, <1>2 DEF Taken, HasSubject
<1>5. OneAccountPerSubject'
  BY <1>1, <1>3, <1>4 DEF UsersInv, OneAccountPerSubject
<1>7. UsersGrow
  BY <1>1, <1>4 DEF UsersGrow, HasSubject
<1>8. HasSubject(a.sub)'
  <2>1. Len(users) + 1 \in DOMAIN users'
    BY <1>1, <1>2
  <2> QED
    BY <1>1, <2>1 DEF HasSubject
<1> QED
  BY <1>1, <1>5, <1>7, <1>8 DEF UsersInv

\* The commit of the seed users, one more of which only they bring.
Marker == "dev-sub-002"

LEMMA SeedsAdded ==
  ASSUME UsersInv, \A n \in DOMAIN SeedUsers : ~Taken(SeedUsers[n].sub),
         users' = users \o SeedUsers
  PROVE  UsersInv' /\ UsersGrow /\ HasSubject(Marker)' /\ ~HasSubject(Marker)
<1>1. /\ SeedUsers \in Seq(Accounts) /\ Len(SeedUsers) = 3 /\ DOMAIN SeedUsers = 1..3
      /\ SeedUsers[1].sub = "dev-sub-001" /\ SeedUsers[2].sub = Marker
      /\ SeedUsers[3].sub = "dev-sub-003"
  BY DEF SeedUsers, Account, Accounts, Marker
<1>2. /\ Len(users) \in Nat /\ DOMAIN users = 1..Len(users)
      /\ users' \in Seq(Accounts) /\ Len(users') = Len(users) + 3
      /\ \A n \in 1..Len(users) + 3 :
           users'[n] = IF n <= Len(users) THEN users[n] ELSE SeedUsers[n - Len(users)]
  <2>1. users \in Seq(Accounts)
    BY DEF UsersInv
  <2>2. /\ users' \in Seq(Accounts) /\ Len(users') = Len(users) + Len(SeedUsers)
        /\ \A n \in 1..Len(users) + Len(SeedUsers) :
             users'[n] = IF n <= Len(users) THEN users[n] ELSE SeedUsers[n - Len(users)]
    BY <1>1, <2>1, ConcatProperties
  <2> QED
    BY <1>1, <2>2, UserList
<1>3. DOMAIN users' = 1..Len(users) + 3
  BY <1>2, LenProperties
<1>4. \A n \in DOMAIN users : n \in DOMAIN users' /\ users'[n] = users[n]
  BY <1>2, <1>3
<1>5. \A n \in DOMAIN users' \ DOMAIN users :
         /\ n - Len(users) \in 1..3
         /\ users'[n] = SeedUsers[n - Len(users)]
  BY <1>2, <1>3
<1>6. \A n \in DOMAIN users, k \in 1..3 : users[n].sub # SeedUsers[k].sub
  BY <1>1 DEF Taken, HasSubject
<1>7. \A k, l \in 1..3 : SeedUsers[k].sub = SeedUsers[l].sub => k = l
  BY <1>1 DEF Marker
<1>8. OneAccountPerSubject'
  <2> SUFFICES ASSUME NEW m \in DOMAIN users', NEW n \in DOMAIN users',
                      users'[m].sub = users'[n].sub
               PROVE  m = n
    BY DEF OneAccountPerSubject
  <2>1. CASE m \in DOMAIN users /\ n \in DOMAIN users
    BY <1>4, <2>1 DEF UsersInv, OneAccountPerSubject
  <2>2. CASE m \notin DOMAIN users /\ n \notin DOMAIN users
    <3>1. PICK k \in 1..3 : k = m - Len(users) /\ users'[m] = SeedUsers[k]
      BY <1>5, <2>2
    <3>2. PICK l \in 1..3 : l = n - Len(users) /\ users'[n] = SeedUsers[l]
      BY <1>5, <2>2
    <3>3. SeedUsers[k].sub = SeedUsers[l].sub
      BY <3>1, <3>2
    <3>4. k = l
      BY <1>7, <3>3
    <3> QED
      BY <1>2, <1>3, <3>1, <3>2, <3>4
  <2>3. CASE m \in DOMAIN users /\ n \notin DOMAIN users
    BY <1>4, <1>5, <1>6, <2>3
  <2>4. CASE m \notin DOMAIN users /\ n \in DOMAIN users
    BY <1>4, <1>5, <1>6, <2>4
  <2> QED
    BY <2>1, <2>2, <2>3, <2>4
<1>9. UsersGrow
  BY <1>4 DEF UsersGrow, HasSubject
<1>10. HasSubject(Marker)'
  <2>1. Len(users) + 2 \in DOMAIN users' \ DOMAIN users /\ (Len(users) + 2) - Len(users) = 2
    BY <1>2, <1>3
  <2> QED
    BY <1>1, <1>5, <2>1 DEF HasSubject
<1>11. ~HasSubject(Marker)
  BY <1>1 DEF Taken
<1> QED
  BY <1>2, <1>8, <1>9, <1>10, <1>11 DEF UsersInv

-----------------------------------------------------------------------------
\* The accounts that can be made

LEMMA DefaultAccounts ==
  /\ Len(DefaultUsers) = 3 /\ DOMAIN DefaultUsers = 1..3
  /\ \A k \in DOMAIN DefaultUsers : DefaultUsers[k] \in Accounts
BY DEF DefaultUsers, Accounts

LEMMA VisitorAccounts ==
  ASSUME NEW u \in Visitors
  PROVE  Stored(u) \in Accounts /\ Stored(u).sub = u.sub
BY DEF Accounts, Stored, Account

\* Whoever is found, by the subject or by the mock user's e-mail address, has an
\* account of that subject.
LEMMA KnownHasSubject ==
  ASSUME UsersInv, NEW u \in Visitors, Known(u)
  PROVE  HasSubject(u.sub)
<1>1. CASE DevLogin = FALSE
  BY <1>1 DEF Known
<1>2. CASE DevLogin = TRUE
  <2>1. u = MockUser /\ Visitors = {MockUser}
    BY <1>2 DEF Visitors
  <2>2. PICK n \in DOMAIN users : users[n].email = "dev@example.com"
    BY <1>2, <2>1 DEF Known, HasEmail, MockUser, Account
  <2>3. users[n] \in Accounts
    BY UserList
  <2>4. \A k \in DOMAIN DefaultUsers : DefaultUsers[k].email # "dev@example.com"
    BY DefaultAccounts DEF DefaultUsers, Account
  <2>5. \A k \in DOMAIN SeedUsers : SeedUsers[k].email # "dev@example.com"
    BY DEF SeedUsers, Account
  <2>6. users[n] = Stored(MockUser)
    BY <2>1, <2>2, <2>3, <2>4, <2>5 DEF Accounts
  <2>7. users[n].sub = u.sub
    BY <2>1, <2>6, VisitorAccounts
  <2> QED
    BY <2>7 DEF HasSubject
<1> QED
  BY <1>1, <1>2, DevLoginAssumption

-----------------------------------------------------------------------------
\* Every step of every actor

\* The steps that leave the table of users alone.
Looking ==
  \/ \E r \in Replicas : \/ Start(r) \/ FindTables(r) \/ CreateTables(r)
                         \/ LookForUser(r) \/ CrashReplica(r)
  \/ \E j \in Jobs : \/ Migrate(j) \/ RunScript(j) \/ LookForAnyUser(j)
                     \/ AddTags(j) \/ AddSampleRule(j) \/ CrashJob(j)
  \/ \E s \in Sessions :
       \/ \E r \in Replicas, u \in Visitors : LookUpAccount(s, r, u)
       \/ \E r \in Replicas : Call(s, r) \/ Refresh(s, r)
       \/ Expire(s) \/ SignOut(s)

LEMMA Steps ==
  ASSUME [Next]_vars
  PROVE  \/ Looking \/ UNCHANGED vars
         \/ \E r \in Replicas : AddUser(r)
         \/ \E j \in Jobs : AddSeedUsers(j)
         \/ \E s \in Sessions : AddAccount(s)
BY DEF Next, Looking, Boot

LEMMA UsersNext ==
  ASSUME TypeOK, UsersInv, [Next]_vars
  PROVE  UsersInv' /\ UsersGrow
<1>1. ASSUME users' = users PROVE UsersInv' /\ UsersGrow
  BY <1>1 DEF UsersInv, OneAccountPerSubject, UsersGrow, HasSubject
<1>2. CASE Looking
  <2>1. users' = users
    BY <1>2 DEF Looking, Start, FindTables, CreateTables, LookForUser, CrashReplica, Migrate,
       RunScript, LookForAnyUser, AddTags, AddSampleRule, CrashJob, LookUpAccount, Call,
       Refresh, Expire, SignOut
  <2> QED
    BY <1>1, <2>1
<1>3. ASSUME NEW r \in Replicas, AddUser(r) PROVE UsersInv' /\ UsersGrow
  <2>1. replica[r].user \in DOMAIN DefaultUsers
    BY <1>3 DEF TypeOK, AddUser, Down, Serving
  <2>2. DefaultUsers[replica[r].user] \in Accounts
    BY <2>1, DefaultAccounts
  <2> QED
    BY <1>1, <1>3, <2>2, AccountAdded DEF AddUser
<1>4. ASSUME NEW j \in Jobs, AddSeedUsers(j) PROVE UsersInv' /\ UsersGrow
  BY <1>1, <1>4, SeedsAdded DEF AddSeedUsers
<1>5. ASSUME NEW s \in Sessions, AddAccount(s) PROVE UsersInv' /\ UsersGrow
  <2>1. session[s].user \in Visitors
    BY <1>5 DEF TypeOK, AddAccount, Idle
  <2>2. Stored(session[s].user) \in Accounts /\ Stored(session[s].user).sub = session[s].user.sub
    BY <2>1, VisitorAccounts
  <2> QED
    BY <1>1, <1>5, <2>2, AccountAdded DEF AddAccount
<1> QED
  BY <1>1, <1>2, <1>3, <1>4, <1>5, Steps DEF vars

-----------------------------------------------------------------------------
\* Type correctness

ReplicaStates == {Down, Serving, [step |-> "init_db"], [step |-> "create_all"]}
                 \cup [step : {"look", "add"}, user : DOMAIN DefaultUsers]
JobStates == {"new", "look", "users", "tags", "rule", "done", "skipped"}
SessionStates == {Idle} \cup [step : {"in"}, user : Visitors, access : BOOLEAN]
                        \cup [step : {"refused", "rejected"}, user : Visitors]
                        \cup [step : {"add"}, user : Visitors, replica : Replicas]

\* The types of everything but the users.
Progress ==
  /\ schema \in {"none", "created", "migrated"}
  /\ tags \in BOOLEAN /\ samples \in Nat /\ crashes \in 0..MaxCrashes
  /\ replica \in [Replicas -> ReplicaStates]
  /\ job \in [Jobs -> JobStates]
  /\ session \in [Sessions -> SessionStates]

LEMMA TypeParts ==
  ASSUME UsersInv PROVE TypeOK <=> Progress
BY UserList DEF TypeOK, Progress, ReplicaStates, JobStates, SessionStates

LEMMA AfterType ==
  ASSUME NEW k \in DOMAIN DefaultUsers
  PROVE  After(k) \in ReplicaStates
<1>1. CASE k = 3
  BY <1>1, DefaultAccounts DEF After, ReplicaStates
<1>2. CASE k # 3
  <2>1. k + 1 \in DOMAIN DefaultUsers
    BY <1>2, DefaultAccounts
  <2> QED
    BY <1>2, <2>1, DefaultAccounts DEF After, ReplicaStates
<1> QED
  BY <1>1, <1>2

\* A replica's step that enters a state it may be in.
LEMMA BootTypes ==
  ASSUME Progress, NEW r \in Replicas, Boot(r)
  PROVE  Progress'
<1>1. UNCHANGED <<tags, samples, job, session, crashes>>
  BY DEF Boot, Start, FindTables, CreateTables, LookForUser, AddUser
<1>2. schema' \in {"none", "created", "migrated"}
  BY DEF Progress, Boot, Start, FindTables, CreateTables, LookForUser, AddUser
<1>3. \E state \in ReplicaStates : Enters(r, state)
  <2>1. /\ [step |-> "init_db"] \in ReplicaStates /\ [step |-> "create_all"] \in ReplicaStates
        /\ [step |-> "look", user |-> 1] \in ReplicaStates /\ Down \in ReplicaStates
    BY DefaultAccounts DEF ReplicaStates
  <2>2. replica[r].step \in {"look", "add"} =>
          /\ replica[r].user \in DOMAIN DefaultUsers
          /\ After(replica[r].user) \in ReplicaStates
          /\ [step |-> "add", user |-> replica[r].user] \in ReplicaStates
    <3>1. replica[r] \in ReplicaStates
      BY DEF Progress
    <3>2. replica[r].step \in {"look", "add"} => replica[r].user \in DOMAIN DefaultUsers
      BY <3>1 DEF ReplicaStates, Down, Serving
    <3> QED
      BY <3>2, AfterType DEF ReplicaStates
  <2>3. CASE Start(r) \/ FindTables(r) \/ CreateTables(r)
    BY <2>1, <2>3 DEF Start, FindTables, CreateTables
  <2>4. CASE LookForUser(r) \/ AddUser(r)
    BY <2>1, <2>2, <2>4 DEF LookForUser, AddUser
  <2> QED
    BY <2>3, <2>4 DEF Boot
<1>4. replica' \in [Replicas -> ReplicaStates]
  BY <1>3 DEF Progress, Enters
<1> QED
  BY <1>1, <1>2, <1>4 DEF Progress

LEMMA JobTypes ==
  ASSUME Progress, NEW j \in Jobs,
         \/ Migrate(j) \/ RunScript(j) \/ LookForAnyUser(j) \/ AddSeedUsers(j)
         \/ AddTags(j) \/ AddSampleRule(j) \/ CrashJob(j)
  PROVE  Progress'
<1>1. UNCHANGED <<replica, session>>
  BY DEF Migrate, RunScript, LookForAnyUser, AddSeedUsers, AddTags, AddSampleRule, CrashJob
<1>2. schema' \in {"none", "created", "migrated"}
  BY DEF Progress, Migrate, Upgrade, RunScript, LookForAnyUser, AddSeedUsers, AddTags,
     AddSampleRule, CrashJob
<1>3. tags' \in BOOLEAN
  BY Zenon DEF Progress, Migrate, RunScript, LookForAnyUser, AddSeedUsers, AddTags,
     AddSampleRule, CrashJob
<1>4. samples' \in Nat /\ crashes' \in 0..MaxCrashes
  BY MaxCrashesAssumption DEF Progress, Migrate, RunScript, LookForAnyUser, AddSeedUsers,
     AddTags, AddSampleRule, CrashJob
<1>5. \E step \in JobStates : Reaches(j, step)
  BY DEF Migrate, RunScript, LookForAnyUser, AddSeedUsers, AddTags, AddSampleRule, CrashJob,
     JobStates
<1>6. job' \in [Jobs -> JobStates]
  BY <1>5 DEF Progress, Reaches
<1> QED
  BY <1>1, <1>2, <1>3, <1>4, <1>6 DEF Progress

LEMMA SessionTypes ==
  ASSUME Progress, NEW s \in Sessions,
         \/ \E r \in Replicas, u \in Visitors : LookUpAccount(s, r, u)
         \/ \E r \in Replicas : Call(s, r) \/ Refresh(s, r)
         \/ AddAccount(s) \/ Expire(s) \/ SignOut(s)
  PROVE  Progress'
<1>1. UNCHANGED <<schema, tags, samples, replica, job, crashes>>
  BY DEF LookUpAccount, Call, Refresh, AddAccount, Expire, SignOut
<1>2. session[s] \in SessionStates /\ Idle \in SessionStates
  BY DEF Progress, SessionStates
<1>3. \A u \in Visitors : SignedIn(u) \in SessionStates
  BY DEF SignedIn, SessionStates
<1>4. session[s].step \in {"in", "add"} => session[s].user \in Visitors
  BY <1>2 DEF SessionStates, Idle
<1>5. \E state \in SessionStates : Becomes(s, state)
  <2>1. CASE \E r \in Replicas, u \in Visitors : LookUpAccount(s, r, u)
    <3>1. PICK r \in Replicas, u \in Visitors : LookUpAccount(s, r, u)
      BY <2>1
    <3>2. [step |-> "add", user |-> u, replica |-> r] \in SessionStates
      BY DEF SessionStates
    <3> QED
      BY <1>3, <3>1, <3>2 DEF LookUpAccount
  <2>2. ASSUME NEW r \in Replicas, Call(s, r) \/ Refresh(s, r)
        PROVE  \E state \in SessionStates : Becomes(s, state)
    <3>1. /\ session[s].user \in Visitors
          /\ [step |-> "rejected", user |-> session[s].user] \in SessionStates
      BY <1>4, <2>2 DEF Call, Refresh, SessionStates
    <3> QED
      BY <1>2, <1>3, <2>2, <3>1 DEF Call, Refresh, Answered
  <2>3. CASE AddAccount(s)
    <3>1. /\ session[s].user \in Visitors
          /\ [step |-> "refused", user |-> session[s].user] \in SessionStates
      BY <1>4, <2>3 DEF AddAccount, SessionStates
    <3> QED
      BY <1>3, <2>3, <3>1 DEF AddAccount
  <2>4. CASE Expire(s)
    <3>1. session[s] \in [step : {"in"}, user : Visitors, access : BOOLEAN]
      BY <1>2, <2>4 DEF Expire, SessionStates, Idle
    <3>2. [session[s] EXCEPT !.access = FALSE]
            \in [step : {"in"}, user : Visitors, access : BOOLEAN]
      BY <3>1
    <3> QED
      BY <2>4, <3>2 DEF Expire, SessionStates
  <2>5. CASE SignOut(s)
    BY <1>2, <2>5 DEF SignOut
  <2> QED
    BY <2>1, <2>2, <2>3, <2>4, <2>5
<1>6. session' \in [Sessions -> SessionStates]
  BY <1>5 DEF Progress, Becomes
<1> QED
  BY <1>1, <1>6 DEF Progress

LEMMA CrashTypes ==
  ASSUME Progress, NEW r \in Replicas, CrashReplica(r)
  PROVE  Progress'
<1>1. Down \in ReplicaStates /\ Idle \in SessionStates
  BY DEF ReplicaStates, SessionStates
<1>2. replica' \in [Replicas -> ReplicaStates] /\ session' \in [Sessions -> SessionStates]
  BY <1>1 DEF CrashReplica, Enters, Progress
<1>3. crashes' \in 0..MaxCrashes
  BY MaxCrashesAssumption DEF CrashReplica, Progress
<1> QED
  BY <1>2, <1>3 DEF CrashReplica, Progress

TypeInv == UsersInv /\ Progress

LEMMA TypeInit == Init => TypeInv
<1> SUFFICES ASSUME Init PROVE TypeInv
  OBVIOUS
<1>1. UsersInv
  BY EmptySeq DEF Init, UsersInv, OneAccountPerSubject
<1>2. /\ schema \in {"none", "created", "migrated"} /\ samples \in Nat
      /\ crashes \in 0..MaxCrashes
      /\ replica \in [Replicas -> ReplicaStates] /\ job \in [Jobs -> JobStates]
      /\ session \in [Sessions -> SessionStates]
  BY MaxCrashesAssumption DEF Init, ReplicaStates, JobStates, SessionStates
<1>3. tags \in BOOLEAN
  BY Zenon DEF Init
<1> QED
  BY <1>1, <1>2, <1>3 DEF TypeInv, Progress

LEMMA TypeNext == TypeInv /\ [Next]_vars => TypeInv' /\ UsersGrow
<1> SUFFICES ASSUME TypeInv, [Next]_vars PROVE TypeInv' /\ UsersGrow
  OBVIOUS
<1>1. UsersInv' /\ UsersGrow
  BY TypeParts, UsersNext DEF TypeInv
<1>2. ASSUME UNCHANGED vars PROVE Progress'
  BY <1>2 DEF vars, TypeInv, Progress
<1>3. ASSUME Next PROVE Progress'
  BY <1>3, BootTypes, CrashTypes, JobTypes, SessionTypes DEF Next, TypeInv
<1> QED
  BY <1>1, <1>2, <1>3 DEF TypeInv

LEMMA TypeInvariant == Spec => []TypeInv
BY TypeInit, TypeNext, PTL DEF Spec

\* Everything keeps its type, and every account was made in one of the three ways.
THEOREM TypeCorrect == Spec => []TypeOK
<1>1. TypeInv => TypeOK
  BY TypeParts DEF TypeInv
<1> QED
  BY <1>1, TypeInvariant, PTL

\* However starts, seed jobs and sign-ins race, a subject has one account.
THEOREM AccountsAreUnique == Spec => []OneAccountPerSubject
<1>1. TypeInv => OneAccountPerSubject
  BY DEF TypeInv, UsersInv
<1> QED
  BY <1>1, TypeInvariant, PTL

-----------------------------------------------------------------------------
\* Provisioning and signing in

\* The first n default users have their accounts.
Added(n) == \A k \in DOMAIN DefaultUsers : k <= n => HasSubject(DefaultUsers[k].sub)

\* How far a replica that starts has got: it has seen or added the users before
\* the one it is at.
Provisioned ==
  \A r \in Replicas :
    /\ replica[r].step \in {"look", "add"} => schema # "none" /\ Added(replica[r].user - 1)
    /\ replica[r] = Serving => schema # "none" /\ Added(3)

\* Whoever has a token, or was refused one, has an account.
Accounted ==
  \A s \in Sessions : /\ session[s].step \in {"in", "refused"} => HasSubject(session[s].user.sub)
                      /\ session[s].step # "rejected"

\* What the users after number k say of the replica that goes on after it.
LEMMA AfterAdded ==
  ASSUME NEW k \in DOMAIN DefaultUsers, NEW r \in Replicas, replica'[r] = After(k),
         Added(k)', (schema # "none")'
  PROVE  /\ replica'[r].step \in {"look", "add"} =>
              (schema # "none")' /\ Added(replica[r].user - 1)'
         /\ replica'[r] = Serving => (schema # "none")' /\ Added(3)'
<1>1. k \in 1..3 /\ (k + 1) - 1 = k
  BY DefaultAccounts
<1>2. CASE k = 3
  BY <1>2, DefaultAccounts DEF After, Serving
<1>3. CASE k # 3
  <2>1. replica'[r] = [step |-> "look", user |-> k + 1]
    BY <1>1, <1>3, DefaultAccounts DEF After
  <2>2. replica'[r].user = k + 1 /\ replica'[r] # Serving
    BY <2>1 DEF Serving
  <2> QED
    BY <1>1, <2>2
<1> QED
  BY <1>2, <1>3

LEMMA ProvisionedNext ==
  ASSUME TypeInv, Provisioned, [Next]_vars
  PROVE  Provisioned'
<1>1. /\ UsersGrow
      /\ replica \in [Replicas -> ReplicaStates]
      /\ schema # "none" => schema' # "none"
  <2>1. schema # "none" => schema' # "none"
    BY DEF Next, Boot, Start, FindTables, CreateTables, LookForUser, AddUser, CrashReplica,
       Migrate, Upgrade, RunScript, LookForAnyUser, AddSeedUsers, AddTags, AddSampleRule,
       CrashJob, LookUpAccount, Call, Refresh, AddAccount, Expire, SignOut, vars
  <2> QED
    BY <2>1, TypeNext DEF TypeInv, Progress
<1>2. \A n : Added(n) => Added(n)'
  BY <1>1 DEF Added, UsersGrow
<1>3. SUFFICES ASSUME NEW r \in Replicas
               PROVE  /\ replica'[r].step \in {"look", "add"} =>
                           (schema # "none")' /\ Added(replica[r].user - 1)'
                      /\ replica'[r] = Serving => (schema # "none")' /\ Added(3)'
  BY DEF Provisioned
<1>4. CASE replica'[r] = replica[r]
  BY <1>1, <1>2, <1>4 DEF Provisioned
<1>5. CASE replica'[r] = Down \/ replica'[r] = [step |-> "init_db"]
           \/ replica'[r] = [step |-> "create_all"]
  BY <1>5 DEF Down, Serving
<1>6. CASE replica'[r] = [step |-> "look", user |-> 1] /\ schema' # "none"
  <2>1. replica'[r].user - 1 = 0 /\ replica'[r] # Serving
    BY <1>6 DEF Serving
  <2>2. Added(0)'
    BY DefaultAccounts DEF Added
  <2> QED
    BY <1>6, <2>1, <2>2
<1> PICK k : k = replica[r].user
  OBVIOUS
<1>7. replica[r].step \in {"look", "add"} =>
        k \in DOMAIN DefaultUsers /\ k \in 1..3 /\ schema' # "none" /\ Added(k - 1)'
  <2>1. replica[r].step \in {"look", "add"} => replica[r].user \in DOMAIN DefaultUsers
    BY <1>1 DEF ReplicaStates, Down, Serving
  <2> QED
    BY <1>1, <1>2, <2>1, DefaultAccounts DEF Provisioned
<1>8. ASSUME replica[r].step \in {"look", "add"}, HasSubject(DefaultUsers[k].sub)'
      PROVE  Added(k)'
  BY <1>7, <1>8, DefaultAccounts DEF Added
<1>9. CASE LookForUser(r)
  <2>1. CASE HasSubject(DefaultUsers[k].sub)
    <3>1. replica'[r] = After(k) /\ replica[r].step = "look"
      BY <1>1, <1>9, <2>1 DEF LookForUser, Enters
    <3>2. HasSubject(DefaultUsers[k].sub)'
      BY <1>1, <2>1 DEF UsersGrow
    <3>3. Added(k)'
      BY <1>8, <3>1, <3>2
    <3> QED
      BY <1>7, <3>1, <3>3, AfterAdded
  <2>2. CASE ~HasSubject(DefaultUsers[k].sub)
    <3>1. replica'[r] = [step |-> "add", user |-> k] /\ replica[r].step = "look"
      BY <1>1, <1>9, <2>2 DEF LookForUser, Enters
    <3>2. replica'[r].user = k /\ replica'[r] # Serving
      BY <3>1 DEF Serving
    <3> QED
      BY <1>7, <3>1, <3>2
  <2> QED
    BY <2>1, <2>2
<1>10. CASE AddUser(r)
  <2>1. CASE Enters(r, Down)
    BY <1>1, <1>5, <2>1 DEF Enters
  <2>2. CASE /\ ~Taken(DefaultUsers[k].sub)
             /\ users' = Append(users, DefaultUsers[k])
             /\ Enters(r, After(k))
    <3>1. replica'[r] = After(k) /\ replica[r].step = "add"
      BY <1>1, <1>10, <2>2 DEF AddUser, Enters
    <3>2. HasSubject(DefaultUsers[k].sub)'
      BY <1>7, <2>2, <3>1, DefaultAccounts, AccountAdded DEF TypeInv
    <3>3. Added(k)'
      BY <1>8, <3>1, <3>2
    <3> QED
      BY <1>7, <3>1, <3>3, AfterAdded
  <2> QED
    BY <1>10, <2>1, <2>2 DEF AddUser
<1>11. CASE Start(r) \/ FindTables(r) \/ CreateTables(r) \/ CrashReplica(r)
  <2>1. \/ replica'[r] = Down \/ replica'[r] = [step |-> "init_db"]
        \/ replica'[r] = [step |-> "create_all"]
        \/ replica'[r] = [step |-> "look", user |-> 1] /\ schema' # "none"
    BY <1>1, <1>11 DEF Start, FindTables, CreateTables, CrashReplica, Enters
  <2> QED
    BY <2>1, <1>5, <1>6
<1>12. CASE \E p \in Replicas : p # r /\ (Boot(p) \/ CrashReplica(p))
  BY <1>1, <1>4, <1>12 DEF Boot, Start, FindTables, CreateTables, LookForUser, AddUser,
     CrashReplica, Enters
<1>13. CASE UNCHANGED replica
  BY <1>4, <1>13
<1> QED
  BY <1>9, <1>10, <1>11, <1>12, <1>13 DEF Next, Boot, Migrate, RunScript, LookForAnyUser,
     AddSeedUsers, AddTags, AddSampleRule, CrashJob, LookUpAccount, Call, Refresh, AddAccount,
     Expire, SignOut, vars

LEMMA AccountedNext ==
  ASSUME TypeInv, Accounted, [Next]_vars
  PROVE  Accounted'
<1>1. UsersGrow /\ session \in [Sessions -> SessionStates]
  BY TypeNext DEF TypeInv, Progress
<1>2. SUFFICES ASSUME NEW s \in Sessions
               PROVE  /\ session'[s].step \in {"in", "refused"} =>
                           HasSubject(session[s].user.sub)'
                      /\ session'[s].step # "rejected"
  BY DEF Accounted
<1> PICK v : v = session[s].user
  OBVIOUS
<1>4. CASE session'[s] = Idle \/ session'[s].step = "add"
  BY <1>4 DEF Idle
<1>5. ASSUME NEW u, session'[s].step \in {"in", "refused"}, session'[s].user = u,
             HasSubject(u.sub)'
      PROVE  /\ session'[s].step \in {"in", "refused"} => HasSubject(session[s].user.sub)'
             /\ session'[s].step # "rejected"
  BY <1>5
<1>6. \A u : HasSubject(u.sub) => HasSubject(u.sub)'
  BY <1>1 DEF UsersGrow
<1>3. CASE session'[s] = session[s]
  <2>1. CASE session[s].step \in {"in", "refused"}
    <3>1. HasSubject(v.sub)'
      BY <1>6, <2>1 DEF Accounted
    <3> QED
      BY <1>3, <1>5, <2>1, <3>1
  <2>2. CASE session[s].step \notin {"in", "refused"}
    BY <1>3, <2>2 DEF Accounted
  <2> QED
    BY <2>1, <2>2
<1>7. ASSUME NEW r \in Replicas, NEW u \in Visitors, LookUpAccount(s, r, u)
      PROVE  /\ session'[s].step \in {"in", "refused"} => HasSubject(session[s].user.sub)'
             /\ session'[s].step # "rejected"
  <2>1. CASE Known(u)
    <3>1. session'[s].step = "in" /\ session'[s].user = u
      BY <1>1, <1>7, <2>1 DEF LookUpAccount, Becomes, SignedIn
    <3>2. HasSubject(u.sub)'
      BY <1>6, <2>1, KnownHasSubject DEF TypeInv
    <3> QED
      BY <1>5, <3>1, <3>2
  <2>2. CASE ~Known(u)
    BY <1>1, <1>4, <1>7, <2>2 DEF LookUpAccount, Becomes
  <2> QED
    BY <2>1, <2>2
<1>8. CASE AddAccount(s)
  <2>1. v \in Visitors
    BY <1>1, <1>8 DEF AddAccount, SessionStates, Idle
  <2>2. CASE /\ ~Taken(v.sub) /\ users' = Append(users, Stored(v)) /\ Becomes(s, SignedIn(v))
    <3>1. session'[s].step = "in" /\ session'[s].user = v
      BY <1>1, <2>2 DEF Becomes, SignedIn
    <3>2. HasSubject(v.sub)'
      BY <2>1, <2>2, VisitorAccounts, AccountAdded DEF TypeInv
    <3> QED
      BY <1>5, <3>1, <3>2
  <2>3. CASE Taken(v.sub) /\ Becomes(s, [step |-> "refused", user |-> v])
    <3>1. session'[s].step = "refused" /\ session'[s].user = v
      BY <1>1, <2>3 DEF Becomes
    <3>2. HasSubject(v.sub)'
      BY <1>6, <2>3 DEF Taken
    <3> QED
      BY <1>5, <3>1, <3>2
  <2> QED
    BY <1>8, <2>2, <2>3 DEF AddAccount
<1>9. session[s].step = "in" => Resolves(v) /\ HasSubject(v.sub)'
  <2> SUFFICES ASSUME session[s].step = "in" PROVE Resolves(v) /\ HasSubject(v.sub)'
    OBVIOUS
  <2>1. HasSubject(v.sub)
    BY DEF Accounted
  <2>2. PICK n \in DOMAIN users : users[n].sub = v.sub
    BY <2>1 DEF HasSubject
  <2>3. {m \in DOMAIN users : users[m].sub = v.sub} = {n}
    BY <2>2 DEF TypeInv, UsersInv, OneAccountPerSubject
  <2> QED
    BY <1>6, <2>1, <2>3, FS_Singleton DEF Resolves
<1>10. ASSUME NEW r \in Replicas, Call(s, r) \/ Refresh(s, r)
       PROVE  /\ session'[s].step \in {"in", "refused"} => HasSubject(session[s].user.sub)'
              /\ session'[s].step # "rejected"
  <2>1. CASE Call(s, r)
    BY <1>1, <1>3, <1>9, <2>1 DEF Call, Answered, Becomes
  <2>2. CASE Refresh(s, r)
    <3>1. session'[s].step = "in" /\ session'[s].user = v
      BY <1>1, <1>9, <2>2 DEF Refresh, Answered, Becomes, SignedIn
    <3> QED
      BY <1>5, <1>9, <2>2, <3>1 DEF Refresh
  <2> QED
    BY <1>10, <2>1, <2>2
<1>11. CASE Expire(s)
  <2>1. session[s] \in [step : {"in"}, user : Visitors, access : BOOLEAN]
    BY <1>1, <1>11 DEF Expire, SessionStates, Idle
  <2>2. session'[s] = [session[s] EXCEPT !.access = FALSE]
    BY <1>1, <1>11 DEF Expire, Becomes
  <2>3. session'[s].step = "in" /\ session'[s].user = v
    BY <2>1, <2>2
  <2> QED
    BY <1>5, <1>9, <1>11, <2>3 DEF Expire
<1>12. CASE SignOut(s) \/ \E r \in Replicas : CrashReplica(r)
  BY <1>1, <1>3, <1>4, <1>12 DEF SignOut, CrashReplica, Becomes
<1>13. CASE \E t \in Sessions :
             /\ t # s
             /\ \/ \E r \in Replicas, u \in Visitors : LookUpAccount(t, r, u)
                \/ \E r \in Replicas : Call(t, r) \/ Refresh(t, r)
                \/ AddAccount(t) \/ Expire(t) \/ SignOut(t)
  BY <1>1, <1>3, <1>13 DEF LookUpAccount, Call, Refresh, Answered, AddAccount, Expire,
     SignOut, Becomes
<1>14. CASE UNCHANGED session
  BY <1>3, <1>14
<1> QED
  BY <1>7, <1>8, <1>10, <1>11, <1>12, <1>13, <1>14 DEF Next, Boot, Start, FindTables,
     CreateTables, LookForUser, AddUser, Migrate, RunScript, LookForAnyUser, AddSeedUsers,
     AddTags, AddSampleRule, CrashJob, vars

-----------------------------------------------------------------------------
\* Seeding

\* A job that got past the commit of the seed users has left their mark, and so
\* have tags and sample rules; nobody else gets past it then.
Seeded ==
  /\ \A j \in Jobs : job[j] \in {"tags", "rule"} => HasSubject(Marker)
  /\ tags = TRUE => HasSubject(Marker)
  /\ samples # 0 => HasSubject(Marker)
  /\ \A i, j \in Jobs : job[i] \in {"tags", "rule"} /\ job[j] \in {"tags", "rule"} => i = j
  /\ \A j \in Jobs : job[j] = "tags" => tags # TRUE
  /\ \A j \in Jobs : job[j] \in {"tags", "rule"} => samples = 0
  /\ samples <= 1

LEMMA SeededNext ==
  ASSUME TypeInv, Seeded, [Next]_vars
  PROVE  Seeded'
<1>1. /\ HasSubject(Marker) => HasSubject(Marker)'
      /\ job \in [Jobs -> JobStates] /\ samples \in Nat
  BY TypeNext DEF UsersGrow, TypeInv, Progress
<1>2. ASSUME UNCHANGED <<tags, samples, job>> PROVE Seeded'
  BY <1>1, <1>2 DEF Seeded
<1>3. ASSUME NEW j \in Jobs, NEW step, step \notin {"tags", "rule"}, Reaches(j, step),
             UNCHANGED <<tags, samples>>
      PROVE  Seeded'
  <2>1. \A i \in Jobs : job'[i] \in {"tags", "rule"} => job'[i] = job[i]
    BY <1>1, <1>3 DEF Reaches
  <2> QED
    BY <1>1, <1>3, <2>1 DEF Seeded
<1>4. ASSUME NEW j \in Jobs, AddSeedUsers(j) PROVE Seeded'
  <2>1. CASE Reaches(j, "new")
    BY <1>3, <1>4, <2>1 DEF AddSeedUsers
  <2>2. CASE /\ \A n \in DOMAIN SeedUsers : ~Taken(SeedUsers[n].sub)
             /\ users' = users \o SeedUsers
             /\ Reaches(j, "tags")
    <3>1. HasSubject(Marker)' /\ ~HasSubject(Marker)
      BY <2>2, SeedsAdded DEF TypeInv
    <3>2. /\ \A i \in Jobs : job[i] \notin {"tags", "rule"}
          /\ tags # TRUE /\ samples = 0
      BY <3>1 DEF Seeded
    <3>3. UNCHANGED <<tags, samples>> /\ \A i \in Jobs : job'[i] \in {"tags", "rule"} => i = j
      BY <1>1, <1>4, <2>2, <3>2 DEF AddSeedUsers, Reaches
    <3> QED
      BY <3>1, <3>2, <3>3 DEF Seeded
  <2> QED
    BY <1>4, <2>1, <2>2 DEF AddSeedUsers
<1>5. ASSUME NEW j \in Jobs, AddTags(j) PROVE Seeded'
  <2>1. /\ job[j] = "tags" /\ job' = [job EXCEPT ![j] = "rule"]
        /\ samples' = samples
    BY <1>5 DEF AddTags, Reaches
  <2>2. \A i \in Jobs : job'[i] \in {"tags", "rule"} => i = j /\ job'[i] = "rule"
    BY <1>1, <2>1 DEF Seeded
  <2>3. HasSubject(Marker) /\ samples = 0
    BY <2>1 DEF Seeded
  <2>4. HasSubject(Marker)' /\ samples' = 0
    BY <1>1, <2>1, <2>3
  <2>5. \A i \in Jobs : job'[i] # "tags"
    BY <2>2
  <2>6. \A i, k \in Jobs : job'[i] \in {"tags", "rule"} /\ job'[k] \in {"tags", "rule"} => i = k
    BY <2>2
  <2>7. samples' <= 1
    BY <2>4
  <2> QED
    BY <2>4, <2>5, <2>6, <2>7, Zenon DEF Seeded
<1>6. ASSUME NEW j \in Jobs, AddSampleRule(j) PROVE Seeded'
  <2>1. /\ job[j] = "rule" /\ job' = [job EXCEPT ![j] = "done"]
        /\ samples' = samples + 1 /\ tags' = tags
    BY <1>6 DEF AddSampleRule, Reaches
  <2>2. \A i \in Jobs : job'[i] \notin {"tags", "rule"} /\ job'[i] # "tags"
    BY <1>1, <2>1 DEF Seeded
  <2>3. HasSubject(Marker)'
    BY <1>1, <2>1 DEF Seeded
  <2>4. samples' <= 1
    BY <2>1 DEF Seeded
  <2> QED
    BY <2>2, <2>3, <2>4, Zenon DEF Seeded
<1>7. ASSUME NEW j \in Jobs,
             Migrate(j) \/ RunScript(j) \/ LookForAnyUser(j) \/ CrashJob(j)
      PROVE  Seeded'
  BY <1>3, <1>7 DEF Migrate, RunScript, LookForAnyUser, CrashJob
<1> QED
  BY <1>2, <1>4, <1>5, <1>6, <1>7 DEF Next, Boot, Start, FindTables, CreateTables, LookForUser,
     AddUser, CrashReplica, LookUpAccount, Call, Refresh, AddAccount, Expire, SignOut, vars

-----------------------------------------------------------------------------
\* The theorems

PInv == TypeInv /\ Provisioned /\ Accounted /\ Seeded

LEMMA Invariant == Spec => []PInv
<1>1. Init => PInv
  <2> SUFFICES ASSUME Init PROVE PInv
    OBVIOUS
  <2>1. Provisioned /\ Accounted
    BY DEF Init, Provisioned, Accounted, Down, Serving, Idle
  <2>2. tags # TRUE
    BY Zenon DEF Init
  <2>3. Seeded
    BY <2>2 DEF Init, Seeded
  <2> QED
    BY <2>1, <2>3, TypeInit DEF PInv
<1>2. PInv /\ [Next]_vars => PInv'
  BY TypeNext, ProvisionedNext, AccountedNext, SeededNext DEF PInv
<1> QED
  BY <1>1, <1>2, PTL DEF Spec

\* A replica that takes requests has tables and all default users, however many
\* replicas and jobs there are and whichever of them die.
THEOREM ServingReplicasAreProvisioned == Spec => []ServingIsProvisioned
<1>1. PInv => ServingIsProvisioned
  BY DefaultAccounts DEF PInv, Provisioned, Added, ServingIsProvisioned
<1> QED
  BY <1>1, Invariant, PTL

\* Every token leads to one account, for ever.
THEOREM TokensLeadToAccounts == Spec => []TokensResolve
<1>1. ASSUME PInv PROVE TokensResolve
  <2> SUFFICES ASSUME NEW s \in Sessions, session[s].step = "in"
               PROVE  Resolves(session[s].user)
    BY <1>1 DEF TokensResolve, PInv, Accounted
  <2>1. PICK n \in DOMAIN users : users[n].sub = session[s].user.sub
    BY <1>1 DEF PInv, Accounted, HasSubject
  <2>2. {m \in DOMAIN users : users[m].sub = session[s].user.sub} = {n}
    BY <1>1, <2>1 DEF PInv, TypeInv, UsersInv, OneAccountPerSubject
  <2> QED
    BY <2>2, FS_Singleton DEF Resolves
<1> QED
  BY <1>1, Invariant, PTL

\* In production a sign-in that lost the race for its account finds it next time.
THEOREM RefusedGetInNext == ~DevLogin /\ Spec => []NextTryGetsIn
<1> SUFFICES ASSUME ~DevLogin PROVE Spec => []NextTryGetsIn
  OBVIOUS
<1>1. PInv => NextTryGetsIn
  BY DEF PInv, Accounted, NextTryGetsIn, Known
<1> QED
  BY <1>1, Invariant, PTL

\* One seed job at most is past its first commit, for every number of jobs.
THEOREM SeedingHasOneOwner == Spec => []SeedingIsExclusive
<1>1. ASSUME PInv PROVE SeedingIsExclusive
  <2> DEFINE Past == {j \in Jobs : job[j] \in {"tags", "rule"}}
  <2>1. \A i, j \in Past : i = j
    BY <1>1 DEF PInv, Seeded
  <2>2. Cardinality(Past) <= 1
    <3>1. CASE Past = {}
      BY <3>1, FS_EmptySet
    <3>2. ASSUME NEW j \in Past PROVE Cardinality(Past) <= 1
      <4>1. Past = {j}
        BY <2>1
      <4>2. Cardinality({j}) <= 1
        BY FS_Singleton
      <4> HIDE DEF Past
      <4> QED
        BY <4>1, <4>2
    <3> QED
      BY <3>1, <3>2
  <2>3. \A j \in Jobs : job[j] = "tags" => ~tags
    BY <1>1, Zenon DEF PInv, Seeded, TypeInv, Progress
  <2>4. samples <= 1
    BY <1>1 DEF PInv, Seeded
  <2> QED
    BY <2>2, <2>3, <2>4 DEF SeedingIsExclusive
<1> QED
  BY <1>1, Invariant, PTL
-----------------------------------------------------------------------------
\* Signing in during development

\* The e-mail address by which the mock user is looked up.
Mail == "dev@example.com"

\* The subject of the mock user has an account, under another address, before
\* anybody looks the mock user up, so that nobody ever adds that address.
LockedOut ==
  /\ ~HasEmail(Mail)
  /\ \A s \in Sessions : /\ session[s].step = "add" => HasSubject("dev-sub-001")
                         /\ session[s].step # "in"

LEMMA OtherMails ==
  /\ \A k \in DOMAIN DefaultUsers : DefaultUsers[k].email # Mail
  /\ \A k \in DOMAIN SeedUsers : SeedUsers[k].email # Mail
BY DEF DefaultUsers, SeedUsers, Account, Mail

\* Neither a start nor the seed script adds the address.
LEMMA MailStaysAway ==
  ASSUME TypeInv, ~HasEmail(Mail),
         \/ \E k \in DOMAIN DefaultUsers : users' = Append(users, DefaultUsers[k])
         \/ users' = users \o SeedUsers
  PROVE  ~HasEmail(Mail)'
<1>1. users \in Seq(Accounts) /\ Len(users) \in Nat /\ DOMAIN users = 1..Len(users)
  BY UserList DEF TypeInv, UsersInv
<1>2. \A n \in 1..Len(users) : users[n].email # Mail
  BY <1>1 DEF HasEmail
<1>3. CASE \E k \in DOMAIN DefaultUsers : users' = Append(users, DefaultUsers[k])
  <2>1. PICK k \in DOMAIN DefaultUsers : users' = Append(users, DefaultUsers[k])
    BY <1>3
  <2>2. /\ users' \in Seq(Accounts) /\ Len(users') = Len(users) + 1
        /\ \A n \in 1..Len(users) : users'[n] = users[n]
        /\ users'[Len(users) + 1] = DefaultUsers[k]
    BY <1>1, <2>1, DefaultAccounts, AppendProperties
  <2>3. DOMAIN users' = 1..Len(users) + 1
    BY <1>1, <2>2, LenProperties
  <2>4. \A n \in DOMAIN users' : n \in 1..Len(users) \/ n = Len(users) + 1
    BY <1>1, <2>3
  <2>5. \A n \in DOMAIN users' : users'[n].email # Mail
    BY <1>2, <2>2, <2>4, OtherMails
  <2> QED
    BY <2>5 DEF HasEmail
<1>4. CASE users' = users \o SeedUsers
  <2>1. SeedUsers \in Seq(Accounts) /\ Len(SeedUsers) = 3 /\ DOMAIN SeedUsers = 1..3
    BY DEF SeedUsers, Account, Accounts
  <2>2. /\ users' \in Seq(Accounts) /\ Len(users') = Len(users) + Len(SeedUsers)
        /\ \A n \in 1..Len(users) + Len(SeedUsers) :
             users'[n] = IF n <= Len(users) THEN users[n] ELSE SeedUsers[n - Len(users)]
    BY <1>1, <1>4, <2>1, ConcatProperties
  <2>3. DOMAIN users' = 1..Len(users) + 3
    BY <1>1, <2>1, <2>2, LenProperties
  <2>4. ASSUME NEW n \in DOMAIN users' PROVE users'[n].email # Mail
    <3>1. CASE n <= Len(users)
      BY <1>1, <1>2, <2>1, <2>2, <2>3, <3>1
    <3>2. CASE ~(n <= Len(users))
      <4>1. n - Len(users) \in DOMAIN SeedUsers /\ users'[n] = SeedUsers[n - Len(users)]
        BY <1>1, <2>1, <2>2, <2>3, <3>2
      <4> QED
        BY <4>1, OtherMails
    <3> QED
      BY <3>1, <3>2
  <2> QED
    BY <2>4 DEF HasEmail
<1> QED
  BY <1>3, <1>4

LEMMA LockedOutNext ==
  ASSUME DevLogin, PInv, LockedOut, [Next]_vars
  PROVE  LockedOut'
<1>1. /\ UsersGrow /\ TypeInv /\ TypeInv'
      /\ session \in [Sessions -> SessionStates]
      /\ replica \in [Replicas -> ReplicaStates]
  BY TypeNext DEF PInv, TypeInv, Progress
<1>2. Visitors = {MockUser} /\ MockUser.email = Mail /\ MockUser.sub = "dev-sub-001"
  BY DEF Visitors, MockUser, Account, Mail
<1>3. \A s \in Sessions : session[s].step = "add" => Taken(session[s].user.sub)
  <2> SUFFICES ASSUME NEW s \in Sessions, session[s].step = "add"
               PROVE  Taken(session[s].user.sub)
    OBVIOUS
  <2>1. session[s] \in SessionStates
    BY <1>1
  <2>2. session[s].user = MockUser
    BY <1>2, <2>1 DEF SessionStates, Idle
  <2> QED
    BY <1>2, <2>2 DEF LockedOut, Taken
<1>4. HasSubject("dev-sub-001") => HasSubject("dev-sub-001")'
  BY <1>1 DEF UsersGrow
<1>5. ~HasEmail(Mail)'
  <2>1. CASE users' = users
    BY <2>1 DEF LockedOut, HasEmail
  <2>2. ASSUME NEW r \in Replicas, AddUser(r) PROVE ~HasEmail(Mail)'
    <3>1. replica[r] \in ReplicaStates /\ replica[r].step = "add"
      BY <1>1, <2>2 DEF AddUser
    <3>2. replica[r].user \in DOMAIN DefaultUsers
      BY <3>1 DEF ReplicaStates, Down, Serving
    <3> QED
      BY <1>1, <2>1, <2>2, <3>2, MailStaysAway DEF AddUser, LockedOut
  <2>3. ASSUME NEW j \in Jobs, AddSeedUsers(j) PROVE ~HasEmail(Mail)'
    BY <1>1, <2>1, <2>3, MailStaysAway DEF AddSeedUsers, LockedOut
  <2>4. ASSUME NEW s \in Sessions, AddAccount(s) PROVE ~HasEmail(Mail)'
    BY <1>3, <2>1, <2>4 DEF AddAccount
  <2>5. CASE Looking
    <3>1. users' = users
      BY <2>5 DEF Looking, Start, FindTables, CreateTables, LookForUser, CrashReplica, Migrate,
         RunScript, LookForAnyUser, AddTags, AddSampleRule, CrashJob, LookUpAccount, Call,
         Refresh, Expire, SignOut
    <3> QED
      BY <2>1, <3>1
  <2> QED
    BY <2>1, <2>2, <2>3, <2>4, <2>5, Steps DEF vars
<1>6. ASSUME NEW s \in Sessions
      PROVE  /\ session'[s].step = "add" => HasSubject("dev-sub-001")'
             /\ session'[s].step # "in"
  <2>1. CASE session'[s] = session[s]
    BY <1>4, <2>1 DEF LockedOut
  <2>2. CASE session'[s] = Idle
    BY <2>2 DEF Idle
  <2>3. ASSUME NEW r \in Replicas, NEW u \in Visitors, LookUpAccount(s, r, u)
        PROVE  /\ session'[s].step = "add" => HasSubject("dev-sub-001")'
               /\ session'[s].step # "in"
    <3>1. u.email = Mail
      BY <1>2
    <3>2. ~Known(u)
      BY <3>1 DEF Known, LockedOut
    <3>3. session'[s].step = "add"
      BY <1>1, <2>3, <3>2 DEF LookUpAccount, Becomes
    <3>4. Added(3)
      BY <2>3 DEF LookUpAccount, PInv, Provisioned
    <3>5. HasSubject("dev-sub-001")
      <4>1. DefaultUsers[1].sub = "dev-sub-001"
        BY DEF DefaultUsers, Account
      <4> QED
        BY <3>4, <4>1, DefaultAccounts DEF Added
    <3> QED
      BY <1>4, <3>3, <3>5
  <2>4. CASE AddAccount(s)
    <3>1. session'[s] = [step |-> "refused", user |-> session[s].user]
      BY <1>1, <1>3, <2>4 DEF AddAccount, Becomes
    <3> QED
      BY <3>1
  <2>5. CASE Expire(s) \/ \E r \in Replicas : Call(s, r) \/ Refresh(s, r)
    BY <2>5 DEF LockedOut, Expire, Call, Refresh
  <2>6. CASE SignOut(s) \/ \E r \in Replicas : CrashReplica(r)
    <3>1. session'[s] = Idle \/ session'[s] = session[s]
      BY <1>1, <2>6 DEF SignOut, CrashReplica, Becomes
    <3> QED
      BY <2>1, <2>2, <3>1
  <2>7. CASE \E t \in Sessions :
               /\ t # s
               /\ \/ \E r \in Replicas, u \in Visitors : LookUpAccount(t, r, u)
                  \/ \E r \in Replicas : Call(t, r) \/ Refresh(t, r)
                  \/ AddAccount(t) \/ Expire(t) \/ SignOut(t)
    <3>1. session'[s] = session[s]
      BY <1>1, <2>7 DEF LookUpAccount, Call, Refresh, Answered, AddAccount, Expire, SignOut,
         Becomes
    <3> QED
      BY <2>1, <3>1
  <2>8. CASE UNCHANGED session
    BY <2>1, <2>8
  <2> QED
    BY <2>3, <2>4, <2>5, <2>6, <2>7, <2>8 DEF Next, Boot, Start, FindTables, CreateTables,
       LookForUser, AddUser, Migrate, RunScript, LookForAnyUser, AddSeedUsers, AddTags,
       AddSampleRule, CrashJob, vars
<1> QED
  BY <1>5, <1>6 DEF LockedOut

NobodyGetsIn == \A s \in Sessions : session[s].step # "in"

\* In development nobody can sign in at all, on any number of replicas and
\* whichever of them start, race or die: the run that refutes DevLoginSucceeds
\* shows no accident.
THEOREM MockUserNeverGetsIn == DevLogin /\ Spec => []NobodyGetsIn
<1> SUFFICES ASSUME DevLogin PROVE Spec => []NobodyGetsIn
  OBVIOUS
<1>1. Init => LockedOut
  BY DEF Init, LockedOut, HasEmail, Idle
<1>2. PInv /\ LockedOut /\ [Next]_vars => LockedOut'
  BY LockedOutNext
<1>3. LockedOut => NobodyGetsIn
  BY DEF LockedOut, NobodyGetsIn
<1> QED
  BY <1>1, <1>2, <1>3, Invariant, PTL DEF Spec
=============================================================================
