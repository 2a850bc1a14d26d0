------------------------------- MODULE Signup -------------------------------
(***************************************************************************)
(* How users come to the exchange (services/auth_service.py): an admin     *)
(* creates invites, a signup takes one use of an invite, inserts the user  *)
(* and its account and moves the starting grant there from the house       *)
(* account (ledger_service.get_house_account), in one transaction of       *)
(* Database; the answer, with the user's tokens, follows the commit.  The  *)
(* first admin comes from scripts/create_admin.py.                         *)
(*                                                                         *)
(* The unique columns of a user are rows of their own, keyed by the value: *)
(* an INSERT waits for another transaction that has inserted the same      *)
(* value and fails once that has committed.  The house account's owner_id  *)
(* is NULL, so no key keeps a second one out: a house is keyed by the      *)
(* signup that creates it.  Passwords are always the right ones.           *)
(***************************************************************************)
EXTENDS Database, FiniteSets

CONSTANTS UserIds,       \* one per signup, and per admin
          AdminIds,      \* the ids the script creates
          Emails, Names,
          Codes,         \* the codes of invites, never drawn twice
          Dated,         \* those that end at some time; the others never do
          Applications,  \* user id -> what may be asked for under it
          MaxUses,       \* code -> the uses its invite may be created for
          Grant,         \* settings.starting_balance_cents
          MaxRestarts,   \* bound on restarts of the process
          NoJob

ASSUME AdminIdsAssumption == AdminIds \subseteq UserIds
ASSUME DatedAssumption == Dated \subseteq Codes
ASSUME ApplicationsAssumption ==
    Applications \in [UserIds -> SUBSET [email : Emails, name : Names, code : Codes]]
ASSUME MaxUsesAssumption == MaxUses \in [Codes -> SUBSET (Nat \ {0})]
ASSUME GrantAssumption == Grant \in Nat
ASSUME UserIdsAssumption == IsFiniteSet(UserIds)
ASSUME ThreadsAssumption == IsFiniteSet(Threads)
ASSUME MaxRestartsAssumption == MaxRestarts \in Nat
ASSUME NoRowAssumption ==
    /\ NoRow \notin UserIds \cup Int
    /\ NoRow \notin [email : Emails, name : Names, role : {"user", "admin"}]
    /\ NoRow \notin [house : UserIds, code : Codes]
    /\ NoRow \notin [max : Nat, uses : Nat]

VARIABLES at,          \* thread -> where its request is
          job,         \* thread -> what the request is about
          requested,   \* the user ids asked for so far
          expired,     \* the codes whose time is over
          tokens,      \* the users who were given tokens
          restarts     \* how often the process has been restarted

vars == <<dbVars, at, job, requested, expired, tokens, restarts>>

\* The keys of the rows.
InviteRow(code) == <<"invite", code>>
EmailRow(email) == <<"email", email>>
NameRow(name) == <<"name", name>>
UserRow(id) == <<"user", id>>
AccountRow(id) == <<"account", id>>
HouseRow(id) == <<"house", id>>
EntriesRow(id) == <<"entries", id>>     \* the ledger entries of a signup's grant

Rows == {InviteRow(c) : c \in Codes} \cup {EmailRow(e) : e \in Emails}
        \cup {NameRow(n) : n \in Names}
        \cup UNION {{UserRow(i), AccountRow(i), HouseRow(i), EntriesRow(i)} : i \in UserIds}

Exists(row) == table[row] # NoRow

Houses == {id \in UserIds : Exists(HouseRow(id))}
----------------------------------------------------------------------------
Init ==
    /\ InitDatabase([row \in Rows |-> NoRow])
    /\ at = [t \in Threads |-> "idle"]
    /\ job = [t \in Threads |-> NoJob]
    /\ requested = {}
    /\ expired = {}
    /\ tokens = {}
    /\ restarts = 0

Go(t, step) == at' = [at EXCEPT ![t] = step]

Do(t, work) == job' = [job EXCEPT ![t] = work]

\* The request is over, without a commit.
EndRequest(t) ==
    /\ Rollback(t)
    /\ Go(t, "idle")
    /\ Do(t, NoJob)
    /\ UNCHANGED <<requested, expired, tokens, restarts>>

\* The session changes rows and locks keys, and the request goes on.
Proceed(t, rows, keys, step) ==
    /\ Load(t, rows)
    /\ Lock(t, keys)
    /\ Go(t, step)
    /\ UNCHANGED <<table, share, requested, expired, tokens, restarts>>

\* The transaction commits with these last rows, and the request goes on.
CommitAndGo(t, rows, step) ==
    /\ Commit(t, rows)
    /\ Go(t, step)
    /\ UNCHANGED <<job, requested, expired, tokens, restarts>>

BeginRequest(t, step, work) ==
    /\ at[t] = "idle"
    /\ Go(t, step)
    /\ Do(t, work)
    /\ UNCHANGED <<dbVars, expired, tokens, restarts>>
----------------------------------------------------------------------------
(***************************************************************************)
(* signup.                                                                 *)
(***************************************************************************)
BeginSignup(t, id, application) ==
    /\ id \in UserIds \ (AdminIds \cup requested)
    /\ requested' = requested \cup {id}
    /\ BeginRequest(t, "invite", [kind |-> "signup", user |-> id, asks |-> application])

Usable(code) ==
    /\ code \notin expired
    /\ table[InviteRow(code)].uses < table[InviteRow(code)].max

\* Mutant: the invite is read without its lock.
LockInviteUnlocked(t) ==
    LET code == job[t].asks.code
        key == InviteRow(code)
    IN  /\ at[t] = "invite"
        /\ IF ~Exists(key) \/ ~Usable(code)
           THEN EndRequest(t)
           ELSE /\ Proceed(t, Only(key, table[key]), {}, "existing")
                /\ UNCHANGED job

\* _get_valid_invite: what it finds is still so at the commit, but for the time.
LockInvite(t) ==
    LET code == job[t].asks.code
        key == InviteRow(code)
    IN  /\ at[t] = "invite"
        /\ Exists(key) => CanLock(t, key)
        /\ IF ~Exists(key) \/ ~Usable(code)
           THEN EndRequest(t)
           ELSE /\ Proceed(t, Only(key, table[key]), {key}, "existing")
                /\ UNCHANGED job

\* The answers differ (one user found: 409, two: 500), the outcome does not.
CheckExisting(t) ==
    /\ at[t] = "existing"
    /\ IF Exists(EmailRow(job[t].asks.email)) \/ Exists(NameRow(job[t].asks.name))
       THEN EndRequest(t)
       ELSE /\ Go(t, "email")
            /\ UNCHANGED <<dbVars, job, requested, expired, tokens, restarts>>

\* Mutant: the email column is not unique.
InsertEmailTwice(t) ==
    LET key == EmailRow(job[t].asks.email)
    IN  /\ at[t] = "email"
        /\ CanLock(t, key)
        /\ Proceed(t, Only(key, job[t].user), {key}, "name")
        /\ UNCHANGED job

\* The INSERT of the user enters the email's index, then the name's.
InsertEmail(t) ==
    LET key == EmailRow(job[t].asks.email)
    IN  /\ at[t] = "email"
        /\ CanLock(t, key)
        /\ IF Exists(key)
           THEN EndRequest(t)
           ELSE /\ Proceed(t, Only(key, job[t].user), {key}, "name")
                /\ UNCHANGED job

\* Mutant: the role has no default.
NewUserWithoutRole(t, role) ==
    Only(UserRow(job[t].user),
         [email |-> job[t].asks.email, name |-> job[t].asks.name, role |-> NoRow])
    ++ Only(AccountRow(job[t].user), 0)

NewUser(t, role) ==
    Only(UserRow(job[t].user),
         [email |-> job[t].asks.email, name |-> job[t].asks.name, role |-> role])
    ++ Only(AccountRow(job[t].user), 0)

UsedOnceMore(invite) == [max |-> invite.max, uses |-> invite.uses + 1]

\* The account and the use of the invite need no other row.
InsertUser(t) ==
    LET id == job[t].user
        key == NameRow(job[t].asks.name)
        invite == InviteRow(job[t].asks.code)
    IN  /\ at[t] = "name"
        /\ job[t].kind = "signup"
        /\ CanLock(t, key)
        /\ IF Exists(key)
           THEN EndRequest(t)
           ELSE /\ Proceed(t, Only(key, id) ++ NewUser(t, "user")
                                ++ Only(invite, UsedOnceMore(Row(t, invite))),
                           {key, UserRow(id), AccountRow(id)}, "house")
                /\ UNCHANGED job

Use(t, house) ==
    Do(t, [kind |-> "signup", user |-> job[t].user, code |-> job[t].asks.code, house |-> house])

\* Mutant: a new house account whatever there is.
FindHouseNever(t) ==
    LET own == HouseRow(job[t].user)
    IN  /\ at[t] = "house"
        /\ Proceed(t, Only(own, 0), {own}, "grant")
        /\ Use(t, job[t].user)

\* get_house_account: none is locked; with two, scalar_one_or_none raises.
FindHouse(t) ==
    LET own == HouseRow(job[t].user)
    IN  /\ at[t] = "house"
        /\ \/ /\ Houses = {}
              /\ Proceed(t, Only(own, 0), {own}, "grant")
              /\ Use(t, job[t].user)
           \/ \E id \in Houses :
                 /\ Houses = {id}
                 /\ Proceed(t, Only(HouseRow(id), table[HouseRow(id)]), {}, "grant")
                 /\ Use(t, id)
           \/ /\ Cardinality(Houses) > 1
              /\ EndRequest(t)

\* Mutant: the house account is credited like the user's.
PostGrantToBoth(t) ==
    LET id == job[t].user
        house == HouseRow(job[t].house)
    IN  /\ at[t] = "grant"
        /\ CanLock(t, house)
        /\ CommitAndGo(t, Only(house, Row(t, house) + Grant)
                            ++ Only(AccountRow(id), Row(t, AccountRow(id)) + Grant)
                            ++ Only(EntriesRow(id), [house |-> job[t].house, code |-> job[t].code]),
                       "answer")

\* Mutant: the commit is forgotten.
PostGrantUncommitted(t) ==
    /\ at[t] = "grant"
    /\ CanLock(t, HouseRow(job[t].house))
    /\ Rollback(t)
    /\ Go(t, "answer")
    /\ UNCHANGED <<job, requested, expired, tokens, restarts>>

\* post_entry_group and the commit; the house's balance is the one loaded before.
PostGrant(t) ==
    LET id == job[t].user
        house == HouseRow(job[t].house)
    IN  /\ at[t] = "grant"
        /\ CanLock(t, house)
        /\ CommitAndGo(t, Only(house, Row(t, house) - Grant)
                            ++ Only(AccountRow(id), Row(t, AccountRow(id)) + Grant)
                            ++ Only(EntriesRow(id), [house |-> job[t].house, code |-> job[t].code]),
                       "answer")

\* The client is sent its tokens.
Answer(t) ==
    /\ at[t] = "answer"
    /\ tokens' = tokens \cup {job[t].user}
    /\ Go(t, "idle")
    /\ Do(t, NoJob)
    /\ UNCHANGED <<dbVars, requested, expired, restarts>>

Login(id) ==
    /\ Exists(UserRow(id))
    /\ tokens' = tokens \cup {id}
    /\ UNCHANGED <<dbVars, at, job, requested, expired, restarts>>
----------------------------------------------------------------------------
(***************************************************************************)
(* create_invite, check_invite and the script that makes the first admin.  *)
(***************************************************************************)
\* An admin's request, by its token (require_admin).
BeginInvite(t) ==
    /\ \E id \in tokens : Exists(UserRow(id)) /\ table[UserRow(id)].role = "admin"
    /\ BeginRequest(t, "code", [kind |-> "invite"])
    /\ UNCHANGED requested

\* When no code is left nothing is created (a bound of the model).
CreateInvite(t) ==
    LET free == {code \in Codes : ~Exists(InviteRow(code))}
    IN  /\ at[t] = "code"
        /\ \/ \E code \in free : \E max \in MaxUses[code] :
                 /\ Commit(t, Only(InviteRow(code), [max |-> max, uses |-> 0]))
                 /\ Go(t, "idle")
                 /\ Do(t, NoJob)
                 /\ UNCHANGED <<requested, expired, tokens, restarts>>
           \/ free = {} /\ EndRequest(t)

\* An invite's time may be over at any moment.
Expire(code) ==
    /\ code \in Dated
    /\ Exists(InviteRow(code))
    /\ code \notin expired
    /\ expired' = expired \cup {code}
    /\ UNCHANGED <<dbVars, at, job, requested, tokens, restarts>>

BeginCheck(t, code) ==
    /\ BeginRequest(t, "check", [kind |-> "check", code |-> code])
    /\ UNCHANGED requested

\* Mutant: the session is not closed.
CheckInviteKeepsLock(t) ==
    LET key == InviteRow(job[t].code)
    IN  /\ at[t] = "check"
        /\ Exists(key) => CanLock(t, key)
        /\ Lock(t, {key})
        /\ Go(t, "idle")
        /\ Do(t, NoJob)
        /\ UNCHANGED <<table, session, share, requested, expired, tokens, restarts>>

\* The lock is taken to look and given back with the session.
CheckInvite(t) ==
    LET key == InviteRow(job[t].code)
    IN  /\ at[t] = "check"
        /\ Exists(key) => CanLock(t, key)
        /\ EndRequest(t)

\* The script may be run again, and again after a crash; an id stands for what the
\* run that inserts the user draws.  A run that finds the email only creates an
\* invite.
BeginAdmin(t, id, application) ==
    /\ id \in AdminIds
    /\ BeginRequest(t, IF Exists(EmailRow(application.email)) THEN "code" ELSE "email",
                    [kind |-> "admin", user |-> id, asks |-> application])
    /\ UNCHANGED requested

\* The script commits the admin before it creates the invite.
InsertAdmin(t) ==
    LET key == NameRow(job[t].asks.name)
    IN  /\ at[t] = "name"
        /\ job[t].kind = "admin"
        /\ CanLock(t, key)
        /\ IF Exists(key)
           THEN EndRequest(t)
           ELSE CommitAndGo(t, Only(key, job[t].user) ++ NewUser(t, "admin"), "code")
----------------------------------------------------------------------------
\* The process dies and starts again: its transactions are rolled back.
Restart ==
    /\ restarts < MaxRestarts
    /\ restarts' = restarts + 1
    /\ at' = [t \in Threads |-> "idle"]
    /\ job' = [t \in Threads |-> NoJob]
    /\ lock' = [row \in DOMAIN lock |-> NoThread]
    /\ share' = [row \in DOMAIN share |-> {}]
    /\ session' = [t \in Threads |-> <<>>]
    /\ UNCHANGED <<table, requested, expired, tokens>>

\* A thread goes on with the request it has.
Step(t) ==
    \/ LockInvite(t) \/ CheckExisting(t) \/ InsertEmail(t) \/ InsertUser(t)
    \/ FindHouse(t) \/ PostGrant(t) \/ Answer(t)
    \/ CreateInvite(t) \/ CheckInvite(t) \/ InsertAdmin(t)

Begin(t) ==
    \/ \E id \in UserIds : \E application \in Applications[id] :
          BeginSignup(t, id, application) \/ BeginAdmin(t, id, application)
    \/ BeginInvite(t)
    \/ \E code \in Codes : BeginCheck(t, code)

Next ==
    \/ \E t \in Threads : Begin(t) \/ Step(t)
    \/ \E code \in Codes : Expire(code)
    \/ \E id \in UserIds : Login(id)
    \/ Restart

Spec == Init /\ [][Next]_vars

\* The row a thread asks for next.
Needs(t) ==
    CASE at[t] = "invite" -> {InviteRow(job[t].asks.code)}
      [] at[t] = "check"  -> {InviteRow(job[t].code)}
      [] at[t] = "email"  -> {EmailRow(job[t].asks.email)}
      [] at[t] = "name"   -> {NameRow(job[t].asks.name)}
      [] at[t] = "grant"  -> {HouseRow(job[t].house)}
      [] OTHER            -> {}

\* ENABLED Step(t), said without evaluating the step.
CanGoOn(t) == at[t] # "idle" /\ \A row \in Needs(t) : CanLock(t, row)

Moves(t) == at[t] # "idle" /\ at'[t] # at[t]

\* SF_vars(Step(t)) for every thread: it is scheduled, and Postgres serves the
\* waiters of a row in turn.
FairSpec == Spec /\ \A t \in Threads : []<>CanGoOn(t) => []<><<Moves(t)>>_vars
----------------------------------------------------------------------------
(***************************************************************************)
(* Type correctness.                                                       *)
(***************************************************************************)
RowType(row) ==
    CASE row[1] = "invite"  -> [max : Nat, uses : Nat]
      [] row[1] = "user"    -> [email : Emails, name : Names, role : {"user", "admin"}]
      [] row[1] = "entries" -> [house : UserIds, code : Codes]
      [] row[1] \in {"account", "house"} -> Int
      [] OTHER              -> UserIds

Applying == [kind : {"signup", "admin"}, user : UserIds,
             asks : [email : Emails, name : Names, code : Codes]]

\* Every row, committed or in a session, has its type, and what a thread works on
\* is what its place needs.
TypeOK ==
    /\ DOMAIN table = Rows
    /\ \A row \in Rows : table[row] = NoRow \/ table[row] \in RowType(row)
    /\ \A t \in Threads : /\ DOMAIN session[t] \subseteq Rows
                          /\ \A row \in DOMAIN session[t] : session[t][row] \in RowType(row)
    /\ lock \in [Rows -> Threads \cup {NoThread}]
    /\ share = [row \in Rows |-> {}]
    /\ \A t \in Threads :
          \/ at[t] = "idle" /\ job[t] = NoJob
          \/ at[t] \in {"invite", "existing", "email", "name", "house"} /\ job[t] \in Applying
          \/ /\ at[t] \in {"grant", "answer"}
             /\ job[t] \in [kind : {"signup"}, user : UserIds, code : Codes, house : UserIds]
          \/ at[t] = "check" /\ job[t] \in [kind : {"check"}, code : Codes]
          \/ at[t] = "code" /\ job[t] \in Applying \cup [kind : {"invite"}]
    /\ requested \subseteq UserIds /\ expired \subseteq Codes /\ tokens \subseteq UserIds
    /\ restarts \in 0..MaxRestarts
----------------------------------------------------------------------------
(***************************************************************************)
(* What holds however signups interleave, fail or crash.                   *)
(***************************************************************************)
JoinedWith(code) == {id \in UserIds : /\ Exists(EntriesRow(id))
                                     /\ table[EntriesRow(id)].code = code}

\* An invite counts exactly the users who came with it, and never more than it
\* was created for, whatever signups meet at its last use (_get_valid_invite).
InviteUsesCounted ==
    \A code \in Codes :
        /\ ~Exists(InviteRow(code)) => JoinedWith(code) = {}
        /\ Exists(InviteRow(code)) =>
              /\ table[InviteRow(code)].uses = Cardinality(JoinedWith(code))
              /\ table[InviteRow(code)].uses <= table[InviteRow(code)].max

\* A user is there with its email, its name, its account and, unless the script
\* made it, the whole grant and its ledger entries, or nothing of it is; no two
\* users share an email or a name (signup, create_admin).
UsersWhole ==
    \A id \in UserIds :
        /\ Exists(UserRow(id)) <=> \E e \in Emails : table[EmailRow(e)] = id
        /\ Exists(AccountRow(id)) <=> Exists(UserRow(id))
        /\ Exists(EntriesRow(id)) <=> Exists(UserRow(id)) /\ table[UserRow(id)].role = "user"
        /\ Exists(HouseRow(id)) => Exists(EntriesRow(id)) /\ table[EntriesRow(id)].house = id
        /\ Exists(UserRow(id)) =>
              /\ table[EmailRow(table[UserRow(id)].email)] = id
              /\ table[NameRow(table[UserRow(id)].name)] = id
              /\ table[AccountRow(id)] = IF Exists(EntriesRow(id)) THEN Grant ELSE 0

\* Nothing makes the house account unique, and once there are two no signup
\* succeeds (get_house_account).  Signups that all look before the first of
\* them commits create one each: never more than there are threads.
HousesBounded == Cardinality(Houses) <= Cardinality(Threads)

\* A house account owes something once a grant was paid from it, and never more
\* than its ledger entries say: two grants that loaded the same balance may owe
\* one, but no grant is taken that the ledger does not show (post_entry_group).
HouseWithinLedger ==
    \A house \in Houses :
        LET paid == {id \in UserIds : /\ Exists(EntriesRow(id))
                                     /\ table[EntriesRow(id)].house = house}
        IN  table[HouseRow(house)] \in -(Grant * Cardinality(paid))..-Grant

\* Whoever was given tokens is a user: no answer precedes the commit, and no
\* restart takes back what a client was told (_tokens_for).
TokensAreForUsers == \A id \in tokens : Exists(UserRow(id))

\* Every request ends: invites, then emails, then names, then the house are
\* locked in one order, so no two signups wait for each other.
SignupsEnd == \A t \in Threads : at[t] # "idle" ~> at[t] = "idle"
============================================================================
