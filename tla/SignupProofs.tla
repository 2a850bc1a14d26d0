---------------------------- MODULE SignupProofs ----------------------------
(***************************************************************************)
(* Theorems about Signup, for any threads, users, invites and requests.    *)
(***************************************************************************)
EXTENDS Signup, FiniteSetTheorems, TLAPS

\* A signup before its commit; one that holds its invite; one that has used it.
Signing(t) ==
    /\ at[t] \in {"invite", "existing", "email", "name", "house", "grant"}
    /\ job[t].kind = "signup"

Holding(t) == Signing(t) /\ at[t] # "invite"

Using(t) == Holding(t) /\ at[t] \in {"house", "grant"}

CodeOf(t) == IF at[t] = "grant" THEN job[t].code ELSE job[t].asks.code

InviteOf(t) == InviteRow(CodeOf(t))

UserOf(t) == UserRow(job[t].user)

\* What a thread works on is what its place needs.
Placed(t) ==
    /\ at[t] \in {"invite", "existing", "email", "name", "house"} => job[t] \in Applying
    /\ at[t] \in {"invite", "existing", "house"} => job[t].kind = "signup"
    /\ at[t] \in {"grant", "answer"} =>
          job[t] \in [kind : {"signup"}, user : UserIds, code : Codes, house : UserIds]

\* A session has no invite but the one it holds, and no ledger entries.
Clean(t) ==
    /\ \A code \in Codes :
          InviteRow(code) \in DOMAIN session[t] => Holding(t) /\ CodeOf(t) = code
    /\ \A id \in UserIds : EntriesRow(id) \notin DOMAIN session[t]
    /\ \A id \in UserIds :
          UserRow(id) \in DOMAIN session[t] => session[t][UserRow(id)] # NoRow

\* Between its check and the commit nobody else changes the invite, and what the
\* session writes to it is one use more.
Held(t) ==
    Holding(t) =>
        /\ Exists(InviteOf(t))
        /\ table[InviteOf(t)].uses < table[InviteOf(t)].max
        /\ lock[InviteOf(t)] = t
        /\ InviteOf(t) \in DOMAIN session[t]
        /\ session[t][InviteOf(t)] =
              IF Using(t) THEN UsedOnceMore(table[InviteOf(t)]) ELSE table[InviteOf(t)]

\* Its user is in the session once it is inserted.
Inserted(t) == Using(t) => UserOf(t) \in DOMAIN session[t] /\ lock[UserOf(t)] = t

Fresh(t) == Signing(t) => job[t].user \in requested /\ ~Exists(EntriesRow(job[t].user))

Distinct(t, u) == t # u /\ Signing(t) /\ Signing(u) => job[t].user # job[u].user

Told(t) == at[t] = "answer" => Exists(UserOf(t))

Typed ==
    /\ DOMAIN table = Rows /\ DOMAIN lock = Rows
    /\ DOMAIN session = Threads /\ DOMAIN at = Threads /\ DOMAIN job = Threads
    /\ \A code \in Codes : Exists(InviteRow(code)) => table[InviteRow(code)] \in [max : Nat, uses : Nat]
    /\ \A id \in UserIds : Exists(EntriesRow(id)) => id \in requested
    /\ tokens \subseteq UserIds

IInv ==
    /\ Typed
    /\ InviteUsesCounted
    /\ TokensAreForUsers
    /\ \A t \in Threads : /\ Placed(t) /\ Clean(t) /\ Held(t) /\ Inserted(t)
                          /\ Fresh(t) /\ Told(t)
    /\ \A t, u \in Threads : Distinct(t, u)
----------------------------------------------------------------------------
\* Rows of two kinds, or of two keys, are different.
LEMMA RowsDiffer ==
    /\ \A c, d : InviteRow(c) = InviteRow(d) => c = d
    /\ \A c, d : UserRow(c) = UserRow(d) => c = d
    /\ \A c, d : EntriesRow(c) = EntriesRow(d) => c = d
    /\ \A c, d : /\ InviteRow(c) \notin {EmailRow(d), NameRow(d), UserRow(d), AccountRow(d),
                                         HouseRow(d), EntriesRow(d)}
                 /\ UserRow(c) \notin {EmailRow(d), NameRow(d), InviteRow(d), AccountRow(d),
                                       HouseRow(d), EntriesRow(d)}
                 /\ EntriesRow(c) \notin {EmailRow(d), NameRow(d), InviteRow(d), AccountRow(d),
                                          HouseRow(d), UserRow(d)}
BY DEF InviteRow, UserRow, EntriesRow, EmailRow, NameRow, AccountRow, HouseRow

LEMMA RowsOf ==
    /\ \A code \in Codes : InviteRow(code) \in Rows
    /\ \A id \in UserIds : UserRow(id) \in Rows /\ EntriesRow(id) \in Rows
BY DEF Rows

LEMMA Initially == Init => IInv
<1> SUFFICES ASSUME Init PROVE IInv
    OBVIOUS
<1>1. /\ DOMAIN table = Rows /\ DOMAIN lock = Rows
      /\ \A row \in Rows : table[row] = NoRow
      /\ \A t \in Threads : session[t] = <<>> /\ at[t] = "idle"
    BY DEF Init, InitDatabase
<1>2. Typed
    BY <1>1, RowsOf DEF Init, InitDatabase, Typed, Exists
<1>3. InviteUsesCounted
    BY <1>1, RowsOf DEF InviteUsesCounted, JoinedWith, Exists
<1> QED
    BY <1>1, <1>2, <1>3 DEF Init, IInv, TokensAreForUsers, Placed, Clean, Held, Inserted, Fresh, Told, Distinct,
       Holding, Using, Signing
----------------------------------------------------------------------------
\* What a step of another thread leaves this one.
LeavesAlone(u) ==
    /\ at'[u] = at[u] /\ job'[u] = job[u] /\ session'[u] = session[u]
    /\ Holding(u) => /\ lock'[InviteOf(u)] = lock[InviteOf(u)]
                     /\ table'[InviteOf(u)] = table[InviteOf(u)]
    /\ Using(u) => lock'[UserOf(u)] = lock[UserOf(u)]
    /\ Signing(u) => ~Exists(EntriesRow(job[u].user))'

Grows ==
    /\ requested \subseteq requested'
    /\ \A id \in UserIds : Exists(UserRow(id)) => Exists(UserRow(id))'

\* A thread a step leaves alone keeps its part of the invariant.
LEMMA LeftAlone ==
    ASSUME IInv, NEW u \in Threads, LeavesAlone(u), Grows
    PROVE  /\ Placed(u)' /\ Clean(u)' /\ Held(u)' /\ Inserted(u)' /\ Fresh(u)' /\ Told(u)'
           /\ Signing(u)' = Signing(u)
<1>1. /\ Signing(u)' = Signing(u) /\ Holding(u)' = Holding(u) /\ Using(u)' = Using(u)
      /\ CodeOf(u)' = CodeOf(u) /\ InviteOf(u)' = InviteOf(u) /\ UserOf(u)' = UserOf(u)
    BY DEF LeavesAlone, Signing, Holding, Using, CodeOf, InviteOf, UserOf, InviteRow, UserRow
<1>2. Placed(u)'
    BY DEF IInv, LeavesAlone, Placed
<1>3. Clean(u)'
    BY <1>1 DEF IInv, LeavesAlone, Clean, InviteRow, EntriesRow, UserRow
<1>4. Held(u)'
  <2>1. CASE Holding(u)
    <3>1. Held(u) /\ table'[InviteOf(u)] = table[InviteOf(u)] /\ session'[u] = session[u]
          /\ lock'[InviteOf(u)] = u
        BY <2>1 DEF IInv, LeavesAlone, Held
    <3>2. Exists(InviteOf(u))'
        BY <1>1, <2>1, <3>1 DEF Held, Exists
    <3> HIDE DEF Using, Holding, InviteOf
    <3> QED BY <1>1, <2>1, <3>1, <3>2 DEF Held
  <2>2. CASE ~Holding(u)
      BY <1>1, <2>2 DEF Held
  <2> QED BY <2>1, <2>2
<1>5. Inserted(u)'
    BY <1>1 DEF IInv, LeavesAlone, Inserted
<1>6. Fresh(u)'
    BY <1>1 DEF IInv, LeavesAlone, Grows, Fresh
<1>7. Told(u)'
  <2>1. CASE at[u] = "answer"
    <3>1. job[u].user \in UserIds /\ Exists(UserOf(u))
        BY <2>1 DEF IInv, Placed, Told
    <3> QED BY <1>1, <3>1 DEF Grows, LeavesAlone, Told, UserOf
  <2>2. CASE at[u] # "answer"
      BY <2>2 DEF LeavesAlone, Told
  <2> QED BY <2>1, <2>2
<1> QED BY <1>1, <1>2, <1>3, <1>4, <1>5, <1>6, <1>7

Own(t) == Placed(t) /\ Clean(t) /\ Held(t) /\ Inserted(t) /\ Fresh(t) /\ Told(t)

\* A step of one thread keeps the invariant if it keeps that thread's part and what
\* is common, and leaves the others alone.
LEMMA OneThread ==
    ASSUME IInv, NEW t \in Threads, Typed', InviteUsesCounted', TokensAreForUsers',
           Own(t)', Grows, \A u \in Threads \ {t} : LeavesAlone(u),
           Signing(t)' => \/ Signing(t) /\ job'[t].user = job[t].user
                          \/ job'[t].user \notin requested
    PROVE  IInv'
<1>1. \A u \in Threads : Own(u)'
    BY LeftAlone DEF Own
<1>2. ASSUME NEW u \in Threads, NEW v \in Threads PROVE Distinct(u, v)'
  <2>1. Distinct(u, v)
      BY DEF IInv
  <2>2. ASSUME NEW w \in Threads, w # t PROVE (Signing(w)' => Signing(w) /\ job[w].user \in requested)
                                               /\ job'[w] = job[w]
      BY <2>2, LeftAlone DEF LeavesAlone, IInv, Fresh
  <2>3. CASE u # t /\ v # t
      BY <2>1, <2>2, <2>3 DEF Distinct
  <2>4. CASE u = t /\ v # t
      BY <2>1, <2>2, <2>4 DEF Distinct
  <2>5. CASE u # t /\ v = t
      BY <2>1, <2>2, <2>5 DEF Distinct
  <2>6. CASE u = t /\ v = t
      BY <2>6 DEF Distinct
  <2> QED BY <2>3, <2>4, <2>5, <2>6
<1> QED BY <1>1, <1>2 DEF IInv, Own

\* What a step that writes no row leaves as it was.
LEMMA NothingWritten ==
    ASSUME IInv, UNCHANGED table, requested \subseteq requested'
    PROVE  /\ Grows /\ InviteUsesCounted'
           /\ \A code \in Codes : Exists(InviteRow(code))' => table'[InviteRow(code)] \in [max : Nat, uses : Nat]
           /\ \A id \in UserIds : Exists(EntriesRow(id))' => id \in requested'
           /\ tokens' = tokens => TokensAreForUsers'
<1>1. \A row : Exists(row)' = Exists(row)
    BY DEF Exists
<1>2. \A code \in Codes : JoinedWith(code)' = JoinedWith(code)
    BY <1>1 DEF JoinedWith, EntriesRow
<1> QED BY <1>1, <1>2 DEF IInv, Typed, Grows, InviteUsesCounted, TokensAreForUsers, InviteRow, UserRow, EntriesRow

LEMMA BeginSignupStep ==
    ASSUME IInv, NEW t \in Threads, NEW id \in UserIds, NEW application \in Applications[id],
           BeginSignup(t, id, application)
    PROVE  IInv'
<1>1. /\ at' = [at EXCEPT ![t] = "invite"]
      /\ job' = [job EXCEPT ![t] = [kind |-> "signup", user |-> id, asks |-> application]]
      /\ requested' = requested \cup {id} /\ id \notin requested /\ at[t] = "idle"
      /\ UNCHANGED <<table, session, lock, share, expired, tokens, restarts>>
    BY DEF BeginSignup, BeginRequest, Go, Do, dbVars
<1>2. application \in [email : Emails, name : Names, code : Codes]
    BY ApplicationsAssumption
<1>3. at'[t] = "invite" /\ job'[t] = [kind |-> "signup", user |-> id, asks |-> application]
    BY <1>1 DEF IInv, Typed
<1>4. Typed' /\ TokensAreForUsers' /\ InviteUsesCounted' /\ Grows
  <2>1. requested \subseteq requested'
      BY <1>1
  <2> QED BY <1>1, <2>1, NothingWritten DEF IInv, Typed
<1>5. Own(t)'
  <2>1. ~Holding(t)' /\ ~Using(t)' /\ ~Holding(t)
      BY <1>1, <1>3 DEF Holding, Using, Signing
  <2>2. Placed(t)' /\ Told(t)'
      BY <1>2, <1>3 DEF Placed, Told, Applying
  <2>3. Clean(t)'
      BY <1>1, <2>1 DEF Clean, IInv, InviteRow, EntriesRow, UserRow
  <2>4. Fresh(t)'
      BY <1>1, <1>3 DEF Fresh, IInv, Typed, Exists, EntriesRow
  <2> QED BY <2>1, <2>2, <2>3, <2>4 DEF Own, Held, Inserted
<1>6. \A u \in Threads \ {t} : LeavesAlone(u)
    BY <1>1 DEF LeavesAlone, IInv, Typed, Fresh, Exists, EntriesRow
<1> QED BY <1>1, <1>3, <1>4, <1>5, <1>6, OneThread
----------------------------------------------------------------------------
(***************************************************************************)
(* Steps that write nothing.                                               *)
(***************************************************************************)
LEMMA EndRequestStep ==
    ASSUME IInv, NEW t \in Threads, EndRequest(t)
    PROVE  IInv'
<1>1. /\ at' = [at EXCEPT ![t] = "idle"] /\ job' = [job EXCEPT ![t] = NoJob]
      /\ session' = [session EXCEPT ![t] = <<>>]
      /\ lock' = [row \in DOMAIN lock |-> IF lock[row] = t THEN NoThread ELSE lock[row]]
      /\ UNCHANGED <<table, requested, tokens>>
    BY DEF EndRequest, Rollback, Release, Go, Do
<1>2. at'[t] = "idle" /\ session'[t] = <<>>
    BY <1>1 DEF IInv, Typed
<1>3. Grows /\ InviteUsesCounted' /\ TokensAreForUsers' /\ Typed'
    BY <1>1, NothingWritten DEF IInv, Typed
<1>4. Own(t)' /\ ~Signing(t)'
    BY <1>2 DEF Own, Placed, Clean, Held, Inserted, Fresh, Told, Holding, Using, Signing
<1>5. ASSUME NEW u \in Threads \ {t} PROVE LeavesAlone(u)
  <2>1. Placed(u) /\ Held(u) /\ Inserted(u) /\ Fresh(u)
      BY DEF IInv
  <2>2. Holding(u) => InviteOf(u) \in Rows /\ lock[InviteOf(u)] = u
      BY <2>1, RowsOf DEF Placed, Held, Holding, Signing, InviteOf, CodeOf, Applying
  <2>3. Using(u) => UserOf(u) \in Rows /\ lock[UserOf(u)] = u
      BY <2>1, RowsOf DEF Placed, Inserted, Using, Holding, Signing, UserOf, Applying
  <2>4. Signing(u) => ~Exists(EntriesRow(job[u].user))'
      BY <1>1, <2>1 DEF Fresh, Exists, EntriesRow
  <2> QED BY <1>1, <2>2, <2>3, <2>4 DEF LeavesAlone, IInv, Typed
<1> QED BY <1>3, <1>4, <1>5, OneThread

LEMMA Proceeded ==
    ASSUME IInv, NEW t \in Threads, NEW rows, NEW keys, NEW step, Proceed(t, rows, keys, step)
    PROVE  /\ at' = [at EXCEPT ![t] = step] /\ at'[t] = step
           /\ DOMAIN lock' = Rows
           /\ \A row \in Rows : lock'[row] = IF row \in keys THEN t ELSE lock[row]
           /\ session' = [session EXCEPT ![t] = rows ++ session[t]]
           /\ DOMAIN session'[t] = DOMAIN rows \cup DOMAIN session[t]
           /\ \A row : row \in DOMAIN rows => session'[t][row] = rows[row]
           /\ \A row : row \in DOMAIN session[t] /\ row \notin DOMAIN rows =>
                  session'[t][row] = session[t][row]
           /\ UNCHANGED <<table, requested, tokens>>
BY DEF Proceed, Load, Lock, Go, ++, IInv, Typed

\* A step that takes locks keeps the invariant if it keeps its thread's part of it
\* and the locks are not those another relies on.
LEMMA ProceedStep ==
    ASSUME IInv, NEW t \in Threads, NEW rows, NEW keys, NEW step, Proceed(t, rows, keys, step),
           DOMAIN job' = Threads, Own(t)',
           Signing(t)' => Signing(t) /\ job'[t].user = job[t].user,
           \A u \in Threads \ {t} : /\ job'[u] = job[u]
                                    /\ Holding(u) => InviteOf(u) \notin keys
                                    /\ Using(u) => UserOf(u) \notin keys
    PROVE  IInv'
<1>1. /\ at' = [at EXCEPT ![t] = step]
      /\ DOMAIN lock' = Rows
      /\ \A row \in Rows : lock'[row] = IF row \in keys THEN t ELSE lock[row]
      /\ session' = [session EXCEPT ![t] = rows ++ session[t]]
      /\ UNCHANGED <<table, requested, tokens>>
    BY Proceeded
<1>2. Grows /\ InviteUsesCounted' /\ TokensAreForUsers' /\ Typed'
    BY <1>1, NothingWritten DEF IInv, Typed
<1>3. ASSUME NEW u \in Threads \ {t} PROVE LeavesAlone(u)
  <2>1. Placed(u) /\ Held(u) /\ Inserted(u) /\ Fresh(u)
      BY DEF IInv
  <2>2. Holding(u) => InviteOf(u) \in Rows
      BY <2>1, RowsOf DEF Placed, Holding, Signing, InviteOf, CodeOf, Applying
  <2>3. Using(u) => UserOf(u) \in Rows
      BY <2>1, RowsOf DEF Placed, Using, Holding, Signing, UserOf, Applying
  <2>4. Signing(u) => ~Exists(EntriesRow(job[u].user))'
      BY <1>1, <2>1 DEF Fresh, Exists, EntriesRow
  <2> QED BY <1>1, <2>2, <2>3, <2>4 DEF LeavesAlone, IInv, Typed
<1> QED BY <1>2, <1>3, OneThread
LEMMA LockInviteStep ==
    ASSUME IInv, NEW t \in Threads, LockInvite(t)
    PROVE  IInv'
<1> DEFINE code == job[t].asks.code
           key == InviteRow(code)
<1>1. CASE EndRequest(t)
    BY <1>1, EndRequestStep
<1>2. CASE ~EndRequest(t)
  <2>1. /\ at[t] = "invite" /\ Exists(key) /\ Usable(code) /\ CanLock(t, key)
        /\ Proceed(t, Only(key, table[key]), {key}, "existing") /\ job' = job
      BY <1>2 DEF LockInvite
  <2>2. job[t] \in Applying /\ job[t].kind = "signup" /\ code \in Codes /\ key \in Rows
      BY <2>1, RowsOf DEF IInv, Placed, Applying
  <2>3. Signing(t) /\ ~Holding(t) /\ Signing(t)' /\ Holding(t)' /\ ~Using(t)'
      BY <2>1, <2>2, Proceeded DEF Signing, Holding, Using
  <2>4. at'[t] = "existing" /\ InviteOf(t)' = key /\ CodeOf(t)' = code
      BY <2>1, Proceeded DEF InviteOf, CodeOf, InviteRow
  <2>5. DOMAIN Only(key, table[key]) = {key} /\ Only(key, table[key])[key] = table[key]
      BY DEF Only
  <2>6. /\ DOMAIN session'[t] = {key} \cup DOMAIN session[t] /\ session'[t][key] = table[key]
        /\ \A row : row \in DOMAIN session[t] /\ row # key => session'[t][row] = session[t][row]
        /\ table' = table /\ lock'[key] = t /\ requested' = requested
      BY <2>1, <2>2, <2>5, Proceeded
  <2>7. Clean(t)'
    <3>1. \A c \in Codes : InviteRow(c) \in DOMAIN session'[t] => c = code
        BY <2>3, <2>6, RowsDiffer DEF IInv, Clean
    <3>2. \A id \in UserIds : UserRow(id) # key /\ EntriesRow(id) # key
        BY RowsDiffer
    <3> QED BY <2>3, <2>4, <2>6, <3>1, <3>2 DEF IInv, Clean, InviteRow, EntriesRow, UserRow
  <2>8. Held(t)'
      BY <2>1, <2>3, <2>4, <2>6 DEF Held, Exists, Usable
  <2>9. Placed(t)' /\ Inserted(t)' /\ Told(t)' /\ Fresh(t)'
      BY <2>1, <2>2, <2>3, <2>4, <2>6 DEF Placed, Inserted, Told, Fresh, IInv, Exists, EntriesRow
  <2>10. ASSUME NEW u \in Threads \ {t}
         PROVE  (Holding(u) => InviteOf(u) \notin {key}) /\ (Using(u) => UserOf(u) \notin {key})
      BY <2>1, NoThreadAssumption, RowsDiffer DEF IInv, Held, CanLock, UserOf
  <2>11. DOMAIN job' = Threads
      BY <2>1 DEF IInv, Typed
  <2> QED BY <2>1, <2>3, <2>7, <2>8, <2>9, <2>10, <2>11, ProceedStep DEF Own
<1> QED BY <1>1, <1>2

LEMMA CheckExistingStep ==
    ASSUME IInv, NEW t \in Threads, CheckExisting(t)
    PROVE  IInv'
<1>1. CASE EndRequest(t)
    BY <1>1, EndRequestStep
<1>2. CASE ~EndRequest(t)
  <2>1. /\ at[t] = "existing" /\ at' = [at EXCEPT ![t] = "email"]
        /\ UNCHANGED <<table, session, lock, job, requested, tokens>>
      BY <1>2 DEF CheckExisting, Go, dbVars
  <2>2. at'[t] = "email"
      BY <2>1 DEF IInv, Typed
  <2>3. Signing(t) /\ Holding(t) /\ ~Using(t) /\ Signing(t)' /\ Holding(t)' /\ ~Using(t)'
      BY <2>1, <2>2 DEF Signing, Holding, Using, IInv, Placed
  <2>4. CodeOf(t)' = CodeOf(t) /\ InviteOf(t)' = InviteOf(t)
      BY <2>1, <2>2 DEF CodeOf, InviteOf, InviteRow
  <2>5. Typed' /\ Grows /\ InviteUsesCounted' /\ TokensAreForUsers'
      BY <2>1, NothingWritten DEF IInv, Typed
  <2>6. Held(t)'
    <3> HIDE DEF InviteOf, Holding, Using
    <3>1. Held(t) /\ (Exists(InviteOf(t)) => Exists(InviteOf(t))')
        BY <2>1, <2>4 DEF IInv, Exists
    <3> QED BY <2>1, <2>3, <2>4, <3>1 DEF Held
  <2>7. Own(t)'
      BY <2>1, <2>2, <2>3, <2>4, <2>6
         DEF Own, Placed, Clean, Inserted, Fresh, Told, IInv, Exists, InviteRow, EntriesRow, UserRow
  <2>8. \A u \in Threads \ {t} : LeavesAlone(u)
      BY <2>1 DEF LeavesAlone, IInv, Typed, Fresh, Exists, EntriesRow
  <2> QED BY <2>1, <2>3, <2>5, <2>7, <2>8, OneThread
<1> QED BY <1>1, <1>2

\* A signup that goes on with other rows than its invite still holds it.
LEMMA StillHolding ==
    ASSUME IInv, NEW t \in Threads, NEW rows, NEW keys, NEW step, Proceed(t, rows, keys, step),
           Holding(t), ~Using(t), ~Using(t)', InviteOf(t)' = InviteOf(t), InviteOf(t) \notin DOMAIN rows
    PROVE  Held(t)'
<1>1. Held(t) /\ InviteOf(t) \in Rows
    BY RowsOf DEF IInv, Placed, Holding, Using, Signing, InviteOf, CodeOf, Applying
<1>2. /\ lock'[InviteOf(t)] = t /\ table' = table /\ InviteOf(t) \in DOMAIN session'[t]
      /\ session'[t][InviteOf(t)] = session[t][InviteOf(t)]
    BY <1>1, Proceeded DEF Held
<1>3. Exists(InviteOf(t))'
    BY <1>1, <1>2 DEF Held, Exists
<1> QED BY <1>1, <1>2, <1>3 DEF Held

LEMMA InsertEmailStep ==
    ASSUME IInv, NEW t \in Threads, InsertEmail(t)
    PROVE  IInv'
<1> DEFINE key == EmailRow(job[t].asks.email)
           rows == Only(key, job[t].user)
<1>1. CASE EndRequest(t)
    BY <1>1, EndRequestStep
<1>2. CASE ~EndRequest(t)
  <2>1. at[t] = "email" /\ Proceed(t, rows, {key}, "name") /\ job' = job
      BY <1>2 DEF InsertEmail
  <2>2. DOMAIN rows = {key}
      BY DEF Only
  <2>3. /\ at'[t] = "name" /\ DOMAIN session'[t] = {key} \cup DOMAIN session[t]
        /\ \A row : row \in DOMAIN session[t] /\ row # key => session'[t][row] = session[t][row]
        /\ table' = table /\ requested' = requested
    <3> HIDE DEF rows, key
    <3> QED BY <2>1, <2>2, Proceeded
  <2>4. /\ Signing(t)' = Signing(t) /\ Holding(t)' = Holding(t) /\ ~Using(t) /\ ~Using(t)'
        /\ CodeOf(t)' = CodeOf(t) /\ InviteOf(t)' = InviteOf(t)
      BY <2>1, <2>3 DEF Signing, Holding, Using, CodeOf, InviteOf, InviteRow
  <2>5. \A c : InviteRow(c) # key /\ UserRow(c) # key /\ EntriesRow(c) # key
      BY RowsDiffer
  <2>6. Held(t)'
    <3>1. CASE Holding(t)
        BY <2>1, <2>2, <2>4, <2>5, <3>1, StillHolding DEF InviteOf
    <3> QED BY <2>4, <3>1 DEF Held
  <2>7. Clean(t)'
      BY <2>3, <2>4, <2>5 DEF IInv, Clean, InviteRow, EntriesRow, UserRow
  <2>8. Placed(t)' /\ Inserted(t)' /\ Told(t)' /\ Fresh(t)'
      BY <2>1, <2>3, <2>4 DEF Placed, Inserted, Told, Fresh, IInv, Exists, EntriesRow
  <2>9. ASSUME NEW u \in Threads \ {t}
        PROVE  (Holding(u) => InviteOf(u) \notin {key}) /\ (Using(u) => UserOf(u) \notin {key})
      BY <2>5 DEF UserOf, InviteOf
  <2>10. DOMAIN job' = Threads
      BY <2>1 DEF IInv, Typed
  <2> QED BY <2>1, <2>4, <2>6, <2>7, <2>8, <2>9, <2>10, ProceedStep DEF Own
<1> QED BY <1>1, <1>2
LEMMA InsertUserStep ==
    ASSUME IInv, NEW t \in Threads, InsertUser(t)
    PROVE  IInv'
<1> DEFINE id == job[t].user
           key == NameRow(job[t].asks.name)
           code == job[t].asks.code
           invite == InviteRow(code)
           user == [email |-> job[t].asks.email, name |-> job[t].asks.name, role |-> "user"]
           keys == {key, UserRow(id), AccountRow(id)}
           rows == Only(key, id) ++ NewUser(t, "user") ++ Only(invite, UsedOnceMore(Row(t, invite)))
<1>1. CASE EndRequest(t)
    BY <1>1, EndRequestStep
<1>2. CASE ~EndRequest(t)
  <2>1. at[t] = "name" /\ job[t].kind = "signup" /\ Proceed(t, rows, keys, "house") /\ job' = job
      BY <1>2 DEF InsertUser
  <2>2. /\ job[t] \in Applying /\ id \in UserIds /\ code \in Codes
        /\ user \in [email : Emails, name : Names, role : {"user", "admin"}]
      BY <2>1 DEF IInv, Placed, Applying
  <2>3. /\ Signing(t) /\ Holding(t) /\ ~Using(t)
        /\ InviteOf(t) = invite /\ CodeOf(t) = code /\ UserOf(t) = UserRow(id)
      BY <2>1 DEF Signing, Holding, Using, InviteOf, CodeOf, UserOf
  <2>4. /\ invite \notin keys /\ UserRow(id) # key /\ UserRow(id) # invite
        /\ \A c : EntriesRow(c) \notin keys \cup {invite}
        /\ \A c : UserRow(c) \in keys \cup {invite} => c = id
        /\ \A c : InviteRow(c) \in keys \cup {invite} => c = code
      BY RowsDiffer
  <2>5. /\ DOMAIN rows = keys \cup {invite} /\ rows[UserRow(id)] = user
        /\ rows[invite] = UsedOnceMore(Row(t, invite))
    <3> HIDE DEF key, invite, user
    <3>1. /\ DOMAIN NewUser(t, "user") = {UserRow(id), AccountRow(id)}
          /\ NewUser(t, "user")[UserRow(id)] = user
        BY DEF NewUser, Only, ++, user
    <3>2. DOMAIN Only(key, id) = {key} /\ DOMAIN Only(invite, UsedOnceMore(Row(t, invite))) = {invite}
          /\ Only(invite, UsedOnceMore(Row(t, invite)))[invite] = UsedOnceMore(Row(t, invite))
        BY DEF Only
    <3> QED BY <2>4, <3>1, <3>2 DEF ++
  <2> HIDE DEF rows, keys, key, invite, user
  <2>6. /\ at'[t] = "house" /\ DOMAIN session'[t] = keys \cup {invite} \cup DOMAIN session[t]
        /\ session'[t][UserRow(id)] = user /\ session'[t][invite] = UsedOnceMore(Row(t, invite))
        /\ \A row : row \in DOMAIN session[t] /\ row \notin keys \cup {invite} =>
               session'[t][row] = session[t][row]
        /\ \A row \in Rows : lock'[row] = IF row \in keys THEN t ELSE lock[row]
        /\ table' = table /\ requested' = requested
      BY <2>1, <2>5, Proceeded DEF keys
  <2>7. /\ Signing(t)' /\ Holding(t)' /\ Using(t)'
        /\ InviteOf(t)' = invite /\ CodeOf(t)' = code /\ UserOf(t)' = UserRow(id)
      BY <2>1, <2>6 DEF Signing, Holding, Using, InviteOf, CodeOf, UserOf, invite, InviteRow, UserRow
  <2>8. Held(t)'
    <3>1. Held(t) /\ invite \in Rows
        BY <2>2, RowsOf DEF IInv, invite
    <3>2. Row(t, invite) = table[invite]
        BY <2>3, <3>1 DEF Held, Row, Loaded
    <3>3. table'[invite] = table[invite] /\ table[invite] # NoRow /\ lock'[invite] = t
        BY <2>3, <2>4, <2>6, <3>1 DEF Held, Exists
    <3>4. table[invite].uses < table[invite].max
        BY <2>3, <3>1 DEF Held
    <3>5. invite \in DOMAIN session'[t] /\ session'[t][invite] = UsedOnceMore(table'[invite])
        BY <2>6, <3>2, <3>3
    <3> QED BY <2>7, <3>3, <3>4, <3>5 DEF Held, Exists, UsedOnceMore
  <2>9. Inserted(t)'
      BY <2>2, <2>6, <2>7, RowsOf DEF Inserted, keys
  <2>10. Clean(t)'
    <3>1. user # NoRow
        BY <2>2, NoRowAssumption
    <3>2. \A c \in UserIds : UserRow(c) \in DOMAIN session'[t] => session'[t][UserRow(c)] # NoRow
        BY <2>4, <2>6, <3>1 DEF IInv, Clean
    <3>3. \A c \in Codes : InviteRow(c) \in DOMAIN session'[t] => c = code
        BY <2>3, <2>4, <2>6 DEF IInv, Clean
    <3>4. \A c \in UserIds : EntriesRow(c) \notin DOMAIN session'[t]
        BY <2>4, <2>6 DEF IInv, Clean
    <3> QED BY <2>7, <3>2, <3>3, <3>4 DEF Clean, InviteRow, EntriesRow, UserRow
  <2>11. Placed(t)' /\ Told(t)' /\ Fresh(t)'
      BY <2>1, <2>2, <2>3, <2>6 DEF Placed, Told, Fresh, IInv, Exists, EntriesRow
  <2>12. ASSUME NEW u \in Threads \ {t}
         PROVE  (Holding(u) => InviteOf(u) \notin keys) /\ (Using(u) => UserOf(u) \notin keys)
    <3>1. Holding(u) => InviteOf(u) \notin keys
        BY RowsDiffer DEF keys, key, InviteOf
    <3>2. Using(u) => job[u].user # id
        BY <2>3 DEF IInv, Distinct, Using, Holding
    <3> QED BY <2>4, <3>1, <3>2 DEF UserOf
  <2>13. DOMAIN job' = Threads
      BY <2>1 DEF IInv, Typed
  <2> QED BY <2>1, <2>3, <2>8, <2>9, <2>10, <2>11, <2>12, <2>13, ProceedStep DEF Own
<1> QED BY <1>1, <1>2

LEMMA FoundHouse ==
    ASSUME IInv, NEW t \in Threads, at[t] = "house", NEW house \in UserIds, Use(t, house),
           NEW rows, DOMAIN rows = {HouseRow(house)}, NEW keys \in SUBSET {HouseRow(house)},
           Proceed(t, rows, keys, "grant")
    PROVE  IInv'
<1> DEFINE id == job[t].user
           code == job[t].asks.code
<1>1. job[t] \in Applying /\ job[t].kind = "signup" /\ id \in UserIds /\ code \in Codes
    BY DEF IInv, Placed, Applying
<1>2. /\ job' = [job EXCEPT ![t] = [kind |-> "signup", user |-> id, code |-> code, house |-> house]]
      /\ DOMAIN job' = Threads
      /\ job'[t] = [kind |-> "signup", user |-> id, code |-> code, house |-> house]
    BY DEF Use, Do, IInv, Typed
<1>3. \A c : InviteRow(c) # HouseRow(house) /\ UserRow(c) # HouseRow(house) /\ EntriesRow(c) # HouseRow(house)
    BY RowsDiffer
<1>4. /\ at'[t] = "grant" /\ DOMAIN session'[t] = {HouseRow(house)} \cup DOMAIN session[t]
      /\ \A row : row \in DOMAIN session[t] /\ row # HouseRow(house) =>
             session'[t][row] = session[t][row]
      /\ \A row \in Rows : lock'[row] = IF row \in keys THEN t ELSE lock[row]
      /\ table' = table /\ requested' = requested
    BY Proceeded
<1>5. /\ Signing(t) /\ Holding(t) /\ Using(t)
      /\ InviteOf(t) = InviteRow(code) /\ CodeOf(t) = code /\ UserOf(t) = UserRow(id)
    BY <1>1 DEF Signing, Holding, Using, InviteOf, CodeOf, UserOf
<1>6. /\ Signing(t)' /\ Holding(t)' /\ Using(t)'
      /\ InviteOf(t)' = InviteRow(code) /\ CodeOf(t)' = code /\ UserOf(t)' = UserRow(id)
    BY <1>2, <1>4 DEF Signing, Holding, Using, InviteOf, CodeOf, UserOf, InviteRow, UserRow
<1>7. Held(t)'
  <2>1. Held(t) /\ InviteRow(code) \in Rows /\ InviteRow(code) # HouseRow(house)
      BY <1>1, <1>3, RowsOf DEF IInv
  <2> DEFINE invite == InviteRow(code)
  <2>2. /\ table'[invite] # NoRow /\ table'[invite].uses < table'[invite].max
        /\ lock'[invite] = t /\ invite \in DOMAIN session'[t]
        /\ session'[t][invite] = UsedOnceMore(table'[invite])
      BY <1>3, <1>4, <1>5, <2>1 DEF Held, Exists
  <2> HIDE DEF invite, code
  <2> QED BY <1>6, <2>2 DEF Held, Exists, UsedOnceMore, invite
<1>8. Inserted(t)'
    BY <1>1, <1>3, <1>4, <1>5, <1>6, RowsOf DEF IInv, Inserted
<1>9. Clean(t)'
    BY <1>3, <1>4, <1>5, <1>6 DEF IInv, Clean, InviteRow, EntriesRow, UserRow
<1>10. Placed(t)' /\ Told(t)' /\ Fresh(t)'
    BY <1>1, <1>2, <1>4, <1>5 DEF Placed, Told, Fresh, IInv, Exists, EntriesRow
<1>11. ASSUME NEW u \in Threads \ {t}
       PROVE  /\ job'[u] = job[u]
              /\ (Holding(u) => InviteOf(u) \notin keys) /\ (Using(u) => UserOf(u) \notin keys)
    BY <1>2, <1>3 DEF UserOf, InviteOf
<1> QED BY <1>2, <1>5, <1>7, <1>8, <1>9, <1>10, <1>11, ProceedStep DEF Own

LEMMA FindHouseStep ==
    ASSUME IInv, NEW t \in Threads, FindHouse(t)
    PROVE  IInv'
<1> DEFINE own == HouseRow(job[t].user)
<1>1. CASE EndRequest(t)
    BY <1>1, EndRequestStep
<1>2. CASE ~EndRequest(t)
  <2>1. at[t] = "house" /\ job[t].user \in UserIds
      BY DEF FindHouse, IInv, Placed, Applying
  <2>2. CASE Proceed(t, Only(own, 0), {own}, "grant") /\ Use(t, job[t].user)
    <3>1. DOMAIN Only(own, 0) = {own}
        BY DEF Only
    <3> QED BY <2>1, <2>2, <3>1, FoundHouse
  <2>3. ASSUME NEW id \in Houses,
               Proceed(t, Only(HouseRow(id), table[HouseRow(id)]), {}, "grant"), Use(t, id)
        PROVE  IInv'
    <3>1. DOMAIN Only(HouseRow(id), table[HouseRow(id)]) = {HouseRow(id)} /\ id \in UserIds
        BY DEF Only, Houses
    <3> QED BY <2>1, <2>3, <3>1, FoundHouse
  <2> QED BY <1>2, <2>2, <2>3 DEF FindHouse
<1> QED BY <1>1, <1>2
----------------------------------------------------------------------------
(***************************************************************************)
(* Steps that commit.                                                      *)
(***************************************************************************)
LEMMA Committed ==
    ASSUME IInv, NEW t \in Threads, NEW rows, Commit(t, rows)
    PROVE  /\ DOMAIN table' = Rows /\ DOMAIN lock' = Rows
           /\ \A row \in Rows :
                  table'[row] = IF row \in DOMAIN rows THEN rows[row]
                                ELSE IF row \in DOMAIN session[t] /\ lock[row] = t
                                THEN session[t][row] ELSE table[row]
           /\ session' = [session EXCEPT ![t] = <<>>] /\ session'[t] = <<>>
           /\ \A row \in Rows : lock'[row] = IF lock[row] = t THEN NoThread ELSE lock[row]
BY DEF Commit, Release, ++, IInv, Typed

\* The users who were there are there, unless the last rows say otherwise.
LEMMA UsersStay ==
    ASSUME IInv, NEW t \in Threads, NEW rows, Commit(t, rows), requested \subseteq requested',
           \A id \in UserIds : UserRow(id) \in DOMAIN rows => rows[UserRow(id)] # NoRow
    PROVE  Grows
<1> SUFFICES ASSUME NEW id \in UserIds, Exists(UserRow(id)) PROVE table'[UserRow(id)] # NoRow
    BY DEF Grows, Exists, UserRow
<1>1. UserRow(id) \in DOMAIN session[t] => session[t][UserRow(id)] # NoRow
    BY DEF IInv, Clean
<1> QED BY <1>1, RowsOf, Committed DEF Exists

\* A commit leaves alone the threads that work for others and hold other invites.
LEMMA CommitLeavesAlone ==
    ASSUME IInv, NEW t \in Threads, NEW rows, Commit(t, rows),
           NEW u \in Threads, u # t, at'[u] = at[u], job'[u] = job[u],
           Holding(u) => InviteOf(u) \notin DOMAIN rows,
           Signing(u) => EntriesRow(job[u].user) \notin DOMAIN rows
    PROVE  LeavesAlone(u)
<1>1. Placed(u) /\ Held(u) /\ Inserted(u) /\ Fresh(u) /\ Clean(t)
    BY DEF IInv
<1>2. /\ Holding(u) => /\ lock'[InviteOf(u)] = lock[InviteOf(u)]
                       /\ table'[InviteOf(u)] = table[InviteOf(u)]
      /\ Using(u) => lock'[UserOf(u)] = lock[UserOf(u)]
      /\ Signing(u) => ~Exists(EntriesRow(job[u].user))'
  <2>1. Holding(u) => InviteOf(u) \in Rows /\ lock[InviteOf(u)] = u
      BY <1>1, RowsOf DEF Placed, Held, Holding, Signing, InviteOf, CodeOf, Applying
  <2>2. Using(u) => UserOf(u) \in Rows /\ lock[UserOf(u)] = u
      BY <1>1, RowsOf DEF Placed, Inserted, Using, Holding, Signing, UserOf, Applying
  <2>3. Signing(u) => /\ EntriesRow(job[u].user) \in Rows /\ table[EntriesRow(job[u].user)] = NoRow
                      /\ EntriesRow(job[u].user) \notin DOMAIN session[t]
      BY <1>1, RowsOf DEF Placed, Fresh, Clean, Signing, Applying, Exists
  <2>4. Signing(u) => table'[EntriesRow(job[u].user)] = NoRow
      BY <2>3, Committed
  <2> QED BY <2>1, <2>2, <2>4, Committed DEF Exists, EntriesRow
<1> QED BY <1>2, Committed DEF LeavesAlone, IInv, Typed
\* A commit that brings no ledger entries and holds no invite changes no count.
LEMMA NoUseCommitted ==
    ASSUME IInv, NEW t \in Threads, NEW rows, Commit(t, rows), ~Holding(t),
           \A id \in UserIds : EntriesRow(id) \notin DOMAIN rows
    PROVE  /\ \A id \in UserIds : table'[EntriesRow(id)] = table[EntriesRow(id)]
           /\ \A code \in Codes : InviteRow(code) \notin DOMAIN rows =>
                  table'[InviteRow(code)] = table[InviteRow(code)]
           /\ \A code : JoinedWith(code)' = JoinedWith(code)
<1>1. Clean(t)
    BY DEF IInv
<1>2. \A id \in UserIds : table'[EntriesRow(id)] = table[EntriesRow(id)]
    BY <1>1, RowsOf, Committed DEF Clean
<1>3. \A code \in Codes : InviteRow(code) \notin DOMAIN rows =>
          table'[InviteRow(code)] = table[InviteRow(code)]
    BY <1>1, RowsOf, Committed DEF Clean
<1> QED BY <1>2, <1>3 DEF JoinedWith, Exists, EntriesRow

LEMMA CreateInviteStep ==
    ASSUME IInv, NEW t \in Threads, CreateInvite(t)
    PROVE  IInv'
<1>1. CASE EndRequest(t)
    BY <1>1, EndRequestStep
<1>2. ASSUME NEW code \in Codes, NEW max \in MaxUses[code], ~Exists(InviteRow(code)), at[t] = "code",
             Commit(t, Only(InviteRow(code), [max |-> max, uses |-> 0])),
             Go(t, "idle"), Do(t, NoJob), UNCHANGED <<requested, tokens>>
      PROVE  IInv'
  <2> DEFINE invite == [max |-> max, uses |-> 0]
             rows == Only(InviteRow(code), invite)
  <2>1. DOMAIN rows = {InviteRow(code)} /\ rows[InviteRow(code)] = invite
      BY DEF Only
  <2>2. max \in Nat \ {0}
      BY MaxUsesAssumption
  <2>3. Commit(t, rows)
      BY <1>2
  <2>4. /\ at' = [at EXCEPT ![t] = "idle"] /\ job' = [job EXCEPT ![t] = NoJob] /\ at'[t] = "idle"
        /\ ~Holding(t) /\ ~Signing(t)'
      BY <1>2 DEF Go, Do, Holding, Signing, IInv, Typed
  <2> HIDE DEF rows
  <2>5. \A c : EntriesRow(c) \notin DOMAIN rows /\ UserRow(c) \notin DOMAIN rows
      BY <2>1, RowsDiffer
  <2>6. Grows
      BY <1>2, <2>3, <2>5, UsersStay
  <2>7. /\ \A id \in UserIds : table'[EntriesRow(id)] = table[EntriesRow(id)]
        /\ \A c \in Codes : c # code => table'[InviteRow(c)] = table[InviteRow(c)]
        /\ \A c : JoinedWith(c)' = JoinedWith(c)
        /\ table'[InviteRow(code)] = invite
      BY <2>1, <2>3, <2>4, <2>5, RowsDiffer, RowsOf, NoUseCommitted, Committed
  <2>8. InviteUsesCounted'
    <3>1. JoinedWith(code) = {}
        BY <1>2 DEF IInv, InviteUsesCounted
    <3>2. Cardinality(JoinedWith(code)) = 0
        BY <3>1, FS_EmptySet
    <3>3. ASSUME NEW c \in Codes
          PROVE  /\ table'[InviteRow(c)] = NoRow => JoinedWith(c)' = {}
                 /\ table'[InviteRow(c)] # NoRow =>
                       /\ table'[InviteRow(c)].uses = Cardinality(JoinedWith(c)')
                       /\ table'[InviteRow(c)].uses <= table'[InviteRow(c)].max
      <4>1. CASE c = code
          BY <2>2, <2>7, <3>1, <3>2, <4>1
      <4>2. CASE c # code
          BY <2>7, <4>2 DEF IInv, InviteUsesCounted, Exists
      <4> QED BY <4>1, <4>2
    <3> QED BY <3>3 DEF InviteUsesCounted, Exists, InviteRow
  <2>9. Typed'
    <3>1. \A c \in Codes : table'[InviteRow(c)] # NoRow => table'[InviteRow(c)] \in [max : Nat, uses : Nat]
        BY <2>2, <2>7 DEF IInv, Typed, Exists
    <3>2. \A id \in UserIds : table'[EntriesRow(id)] # NoRow => id \in requested'
        BY <1>2, <2>7 DEF IInv, Typed, Exists
    <3> QED BY <1>2, <2>3, <2>4, <3>1, <3>2, Committed DEF IInv, Typed, Exists, InviteRow, EntriesRow
  <2>10. TokensAreForUsers'
      BY <1>2, <2>6 DEF Grows, TokensAreForUsers, IInv, Typed
  <2>11. Own(t)'
      BY <2>3, <2>4, Committed DEF Own, Placed, Clean, Held, Inserted, Fresh, Told, Holding, Using, Signing
  <2>12. ASSUME NEW u \in Threads \ {t} PROVE LeavesAlone(u)
    <3>1. Holding(u) => InviteOf(u) # InviteRow(code)
        BY <1>2 DEF IInv, Held
    <3> QED BY <2>1, <2>3, <2>4, <2>5, <3>1, CommitLeavesAlone
  <2> QED BY <2>4, <2>6, <2>8, <2>9, <2>10, <2>11, <2>12, OneThread
<1> QED BY <1>1, <1>2 DEF CreateInvite

LEMMA InsertAdminStep ==
    ASSUME IInv, NEW t \in Threads, InsertAdmin(t)
    PROVE  IInv'
<1> DEFINE id == job[t].user
           key == NameRow(job[t].asks.name)
           user == [email |-> job[t].asks.email, name |-> job[t].asks.name, role |-> "admin"]
           rows == Only(key, id) ++ NewUser(t, "admin")
<1>1. CASE EndRequest(t)
    BY <1>1, EndRequestStep
<1>2. CASE ~EndRequest(t)
  <2>1. /\ at[t] = "name" /\ job[t].kind = "admin" /\ Commit(t, rows)
        /\ at' = [at EXCEPT ![t] = "code"] /\ UNCHANGED <<job, requested, tokens>>
      BY <1>2 DEF InsertAdmin, CommitAndGo, Go
  <2>2. user \in [email : Emails, name : Names, role : {"user", "admin"}]
      BY <2>1 DEF IInv, Placed, Applying
  <2>3. DOMAIN rows = {key, UserRow(id), AccountRow(id)} /\ rows[UserRow(id)] = user
    <3>1. UserRow(id) # key
        BY RowsDiffer
    <3> HIDE DEF key, user
    <3>2. /\ DOMAIN NewUser(t, "admin") = {UserRow(id), AccountRow(id)}
          /\ NewUser(t, "admin")[UserRow(id)] = user
        BY DEF NewUser, Only, ++, user
    <3>3. DOMAIN Only(key, id) = {key}
        BY DEF Only
    <3> QED BY <3>1, <3>2, <3>3 DEF ++
  <2>4. \A c : /\ EntriesRow(c) \notin DOMAIN rows /\ InviteRow(c) \notin DOMAIN rows
               /\ UserRow(c) \in DOMAIN rows => rows[UserRow(c)] = user
      BY <2>3, RowsDiffer
  <2>5. at'[t] = "code" /\ ~Holding(t) /\ ~Signing(t)'
      BY <2>1 DEF IInv, Typed, Holding, Signing
  <2>6. user # NoRow
      BY <2>2, NoRowAssumption
  <2> HIDE DEF rows, user
  <2>7. Grows
      BY <2>1, <2>4, <2>6, UsersStay
  <2>8. /\ \A x \in UserIds : table'[EntriesRow(x)] = table[EntriesRow(x)]
        /\ \A c \in Codes : table'[InviteRow(c)] = table[InviteRow(c)]
        /\ \A c : JoinedWith(c)' = JoinedWith(c)
      BY <2>1, <2>4, <2>5, NoUseCommitted
  <2>9. InviteUsesCounted'
      BY <2>8 DEF IInv, InviteUsesCounted, Exists, InviteRow
  <2>10. Typed'
      BY <2>1, <2>8, Committed DEF IInv, Typed, Exists, InviteRow, EntriesRow
  <2>11. TokensAreForUsers'
      BY <2>1, <2>7 DEF Grows, TokensAreForUsers, IInv, Typed
  <2>12. Own(t)'
      BY <2>1, <2>5, Committed DEF Own, Placed, Clean, Held, Inserted, Fresh, Told, Holding, Using, Signing
  <2>13. \A u \in Threads \ {t} : LeavesAlone(u)
      BY <2>1, <2>4, CommitLeavesAlone DEF InviteOf
  <2> QED BY <2>5, <2>7, <2>9, <2>10, <2>11, <2>12, <2>13, OneThread
<1> QED BY <1>1, <1>2
LEMMA PostGrantStep ==
    ASSUME IInv, NEW t \in Threads, PostGrant(t)
    PROVE  IInv'
<1> DEFINE id == job[t].user
           code == job[t].code
           house == HouseRow(job[t].house)
           entries == [house |-> job[t].house, code |-> code]
           rows == Only(house, Row(t, house) - Grant)
                   ++ Only(AccountRow(id), Row(t, AccountRow(id)) + Grant)
                   ++ Only(EntriesRow(id), entries)
           invite == InviteRow(code)
<1>1. /\ at[t] = "grant" /\ Commit(t, rows) /\ at' = [at EXCEPT ![t] = "answer"]
      /\ UNCHANGED <<job, requested, tokens>>
    BY DEF PostGrant, CommitAndGo, Go
<1>2. /\ job[t] \in [kind : {"signup"}, user : UserIds, code : Codes, house : UserIds]
      /\ id \in UserIds /\ code \in Codes /\ entries \in [house : UserIds, code : Codes]
    BY <1>1 DEF IInv, Placed
<1>3. DOMAIN rows = {house, AccountRow(id), EntriesRow(id)} /\ rows[EntriesRow(id)] = entries
  <2>1. EntriesRow(id) # house /\ EntriesRow(id) # AccountRow(id)
      BY RowsDiffer
  <2> HIDE DEF house, entries
  <2> QED BY <2>1 DEF Only, ++
<1>4. \A c : /\ UserRow(c) \notin DOMAIN rows /\ InviteRow(c) \notin DOMAIN rows
             /\ EntriesRow(c) \in DOMAIN rows => c = id
    BY <1>3, RowsDiffer
<1>5. entries # NoRow
    BY <1>2, NoRowAssumption
<1>6. /\ Signing(t) /\ Holding(t) /\ Using(t)
      /\ CodeOf(t) = code /\ InviteOf(t) = invite /\ UserOf(t) = UserRow(id)
    BY <1>1, <1>2 DEF Signing, Holding, Using, CodeOf, InviteOf, UserOf
<1> HIDE DEF rows, entries
<1>7. at'[t] = "answer" /\ ~Signing(t)'
    BY <1>1 DEF Signing, IInv, Typed
<1>8. Grows
    BY <1>1, <1>4, UsersStay
<1>9. /\ table'[EntriesRow(id)] = entries
      /\ \A c \in UserIds : c # id => table'[EntriesRow(c)] = table[EntriesRow(c)]
    BY <1>1, <1>2, <1>3, <1>4, RowsOf, Committed DEF IInv, Clean
<1>10. /\ table'[invite] = UsedOnceMore(table[invite])
       /\ table[invite] # NoRow /\ table[invite].uses < table[invite].max
       /\ \A c \in Codes : c # code => table'[InviteRow(c)] = table[InviteRow(c)]
  <2>1. Held(t) /\ Clean(t)
      BY DEF IInv
  <2>2. \A c \in Codes : c # code => InviteRow(c) \notin DOMAIN session[t]
      BY <1>6, <2>1 DEF Clean
  <2> QED BY <1>1, <1>2, <1>4, <1>6, <2>1, <2>2, RowsOf, Committed DEF Held, Exists
<1>11. table[invite] \in [max : Nat, uses : Nat]
    BY <1>2, <1>10 DEF IInv, Typed, Exists
<1>12. /\ table'[invite] \in [max : Nat, uses : Nat] /\ table'[invite] # NoRow
       /\ table'[invite].uses = table[invite].uses + 1 /\ table'[invite].max = table[invite].max
  <2>1. table'[invite] = [max |-> table[invite].max, uses |-> table[invite].uses + 1]
      BY <1>10 DEF UsedOnceMore
  <2> QED BY <1>11, <2>1, NoRowAssumption
<1>13. \A c : IF c = code THEN id \notin JoinedWith(c) /\ JoinedWith(c)' = JoinedWith(c) \cup {id}
                          ELSE JoinedWith(c)' = JoinedWith(c)
  <2>1. table[EntriesRow(id)] = NoRow
      BY <1>2, <1>6 DEF IInv, Fresh, Exists
  <2>2. \A c : JoinedWith(c) = {x \in UserIds : /\ table[EntriesRow(x)] # NoRow
                                                /\ table[EntriesRow(x)].code = c}
      BY DEF JoinedWith, Exists
  <2>3. \A c : JoinedWith(c)' = {x \in UserIds : /\ table'[EntriesRow(x)] # NoRow
                                                 /\ table'[EntriesRow(x)].code = c}
      BY DEF JoinedWith, Exists, EntriesRow
  <2>4. entries.code = code
      BY DEF entries
  <2> HIDE DEF id, code
  <2> TAKE c
  <2>5. CASE c = code
    <3>1. id \notin JoinedWith(c)
        BY <2>1, <2>2
    <3>2. ASSUME NEW x PROVE x \in JoinedWith(c)' <=> x \in JoinedWith(c) \/ x = id
        BY <1>2, <1>5, <1>9, <2>2, <2>3, <2>4, <2>5
    <3> QED BY <2>5, <3>1, <3>2
  <2>6. CASE c # code
    <3>1. ASSUME NEW x PROVE x \in JoinedWith(c)' <=> x \in JoinedWith(c)
        BY <1>2, <1>5, <1>9, <2>1, <2>2, <2>3, <2>4, <2>6
    <3> QED BY <2>6, <3>1
  <2> QED BY <2>5, <2>6
<1>14. InviteUsesCounted'
  <2>1. table[invite].uses = Cardinality(JoinedWith(code)) /\ table[invite].uses <= table[invite].max
      BY <1>2, <1>10 DEF IInv, InviteUsesCounted, Exists
  <2>2. \A c : c = code => Cardinality(JoinedWith(c)') = Cardinality(JoinedWith(c)) + 1
    <3>1. \A c : IsFiniteSet(JoinedWith(c))
        BY UserIdsAssumption, FS_Subset DEF JoinedWith
    <3> QED BY <1>13, <3>1, FS_AddElement
  <2>3. ASSUME NEW c \in Codes
        PROVE  /\ table'[InviteRow(c)] = NoRow => JoinedWith(c)' = {}
               /\ table'[InviteRow(c)] # NoRow =>
                     /\ table'[InviteRow(c)].uses = Cardinality(JoinedWith(c)')
                     /\ table'[InviteRow(c)].uses <= table'[InviteRow(c)].max
    <3>1. CASE c = code
      <4>1. /\ table'[InviteRow(c)].uses = Cardinality(JoinedWith(c)) + 1
            /\ table'[InviteRow(c)] # NoRow
            /\ table'[InviteRow(c)].uses <= table'[InviteRow(c)].max
          BY <1>10, <1>11, <1>12, <2>1, <3>1
      <4> QED BY <2>2, <3>1, <4>1
    <3>2. CASE c # code
        BY <1>10, <1>13, <3>2 DEF IInv, InviteUsesCounted, Exists
    <3> QED BY <3>1, <3>2
  <2> QED BY <2>3 DEF InviteUsesCounted, Exists, InviteRow
<1>15. Typed'
  <2>1. \A c \in Codes : table'[InviteRow(c)] # NoRow => table'[InviteRow(c)] \in [max : Nat, uses : Nat]
      BY <1>10, <1>12 DEF IInv, Typed, Exists
  <2>2. \A x \in UserIds : table'[EntriesRow(x)] # NoRow => x \in requested'
      BY <1>1, <1>6, <1>9 DEF IInv, Typed, Fresh, Exists
  <2> QED BY <1>1, <2>1, <2>2, Committed DEF IInv, Typed, Exists, InviteRow, EntriesRow
<1>16. TokensAreForUsers'
    BY <1>1, <1>8 DEF Grows, TokensAreForUsers, IInv, Typed
<1>17. Own(t)'
  <2>1. UserRow(id) \in DOMAIN session[t] /\ lock[UserRow(id)] = t /\ session[t][UserRow(id)] # NoRow
      BY <1>2, <1>6 DEF IInv, Inserted, Clean
  <2>2. table'[UserRow(id)] # NoRow
      BY <1>1, <1>2, <1>4, <2>1, RowsOf, Committed
  <2>3. Told(t)'
      BY <1>1, <2>2 DEF Told, Exists, UserOf, UserRow
  <2> QED BY <1>1, <1>2, <1>7, <2>3, Committed
          DEF Own, Placed, Clean, Held, Inserted, Fresh, Holding, Using
<1>18. ASSUME NEW u \in Threads \ {t} PROVE LeavesAlone(u)
  <2>1. Signing(u) => job[u].user # id
      BY <1>6 DEF IInv, Distinct
  <2> QED BY <1>1, <1>4, <2>1, CommitLeavesAlone DEF InviteOf
<1> QED BY <1>7, <1>8, <1>14, <1>15, <1>16, <1>17, <1>18, OneThread
----------------------------------------------------------------------------
(***************************************************************************)
(* The other steps.                                                        *)
(***************************************************************************)
LEMMA AnswerStep ==
    ASSUME IInv, NEW t \in Threads, Answer(t)
    PROVE  IInv'
<1>1. /\ at[t] = "answer" /\ tokens' = tokens \cup {job[t].user}
      /\ at' = [at EXCEPT ![t] = "idle"] /\ job' = [job EXCEPT ![t] = NoJob]
      /\ UNCHANGED <<table, session, lock, requested>>
    BY DEF Answer, Go, Do, dbVars
<1>2. job[t].user \in UserIds /\ Exists(UserRow(job[t].user)) /\ ~Holding(t)
    BY <1>1 DEF IInv, Placed, Told, UserOf, Holding, Signing
<1>3. at'[t] = "idle" /\ ~Signing(t)'
    BY <1>1 DEF IInv, Typed, Signing
<1>4. Grows /\ InviteUsesCounted' /\ Typed'
    BY <1>1, <1>2, NothingWritten DEF IInv, Typed
<1>5. TokensAreForUsers'
    BY <1>1, <1>2 DEF IInv, TokensAreForUsers, Exists, UserRow
<1>6. Own(t)'
    BY <1>1, <1>2, <1>3 DEF IInv, Own, Placed, Clean, Held, Inserted, Fresh, Told, Holding, Using,
       InviteRow, EntriesRow, UserRow
<1>7. \A u \in Threads \ {t} : LeavesAlone(u)
    BY <1>1 DEF LeavesAlone, IInv, Typed, Fresh, Exists, EntriesRow
<1> QED BY <1>3, <1>4, <1>5, <1>6, <1>7, OneThread

\* A request that begins and is no signup.
LEMMA BeginStep ==
    ASSUME IInv, NEW t \in Threads, NEW step \in {"code", "email", "check"}, NEW work,
           work.kind # "signup", step = "email" => work \in Applying,
           BeginRequest(t, step, work), UNCHANGED requested
    PROVE  IInv'
<1>1. /\ at[t] = "idle" /\ at' = [at EXCEPT ![t] = step] /\ job' = [job EXCEPT ![t] = work]
      /\ UNCHANGED <<table, session, lock, requested, tokens>>
    BY DEF BeginRequest, Go, Do, dbVars
<1>2. /\ at'[t] = step /\ job'[t] = work
      /\ ~Signing(t)' /\ ~Holding(t)
    BY <1>1 DEF IInv, Typed, Signing, Holding
<1>3. Grows /\ InviteUsesCounted' /\ TokensAreForUsers' /\ Typed'
    BY <1>1, NothingWritten DEF IInv, Typed
<1>4. Own(t)'
    BY <1>1, <1>2 DEF IInv, Own, Placed, Clean, Held, Inserted, Fresh, Told, Holding, Using,
       InviteRow, EntriesRow, UserRow
<1>5. \A u \in Threads \ {t} : LeavesAlone(u)
    BY <1>1 DEF LeavesAlone, IInv, Typed, Fresh, Exists, EntriesRow
<1> QED BY <1>2, <1>3, <1>4, <1>5, OneThread

\* No thread moves: an invite's time ends, or a user logs in.
LEMMA NobodyMoves ==
    ASSUME IInv, UNCHANGED <<dbVars, at, job, requested>>,
           \A id \in tokens' : id \in UserIds /\ Exists(UserRow(id))
    PROVE  IInv'
<1>1. UNCHANGED <<table, session, lock, at, job, requested>>
    BY DEF dbVars
<1>2. Typed' /\ InviteUsesCounted' /\ TokensAreForUsers' /\ Grows
    BY <1>1, NothingWritten DEF IInv, Typed, TokensAreForUsers, Exists, UserRow
<1>3. \A u \in Threads : LeavesAlone(u)
    BY <1>1 DEF LeavesAlone, IInv, Fresh, Exists, EntriesRow
<1>4. \A u \in Threads : Own(u)' /\ Signing(u)' = Signing(u)
    BY <1>2, <1>3, LeftAlone DEF Own
<1> QED BY <1>1, <1>2, <1>4 DEF IInv, Own, Distinct

LEMMA RestartStep ==
    ASSUME IInv, Restart
    PROVE  IInv'
<1>1. /\ at' = [t \in Threads |-> "idle"] /\ job' = [t \in Threads |-> NoJob]
      /\ lock' = [row \in DOMAIN lock |-> NoThread] /\ session' = [t \in Threads |-> <<>>]
      /\ UNCHANGED <<table, requested, tokens>>
    BY DEF Restart
<1>2. Typed' /\ InviteUsesCounted' /\ TokensAreForUsers'
    BY <1>1, NothingWritten DEF IInv, Typed
<1>3. \A t \in Threads : Own(t)' /\ ~Signing(t)'
    BY <1>1 DEF Own, Placed, Clean, Held, Inserted, Fresh, Told, Holding, Using, Signing
<1> QED BY <1>2, <1>3 DEF IInv, Own, Distinct
----------------------------------------------------------------------------
LEMMA EveryStep == IInv /\ [Next]_vars => IInv'
<1> SUFFICES ASSUME IInv, [Next]_vars PROVE IInv'
    OBVIOUS
<1>1. ASSUME NEW t \in Threads, Step(t) PROVE IInv'
    BY <1>1, LockInviteStep, CheckExistingStep, InsertEmailStep, InsertUserStep, FindHouseStep,
       PostGrantStep, AnswerStep, CreateInviteStep, InsertAdminStep, EndRequestStep
       DEF Step, CheckInvite
<1>2. ASSUME NEW t \in Threads, Begin(t) PROVE IInv'
  <2>1. ASSUME NEW id \in UserIds, NEW application \in Applications[id], BeginAdmin(t, id, application)
        PROVE  IInv'
    <3> DEFINE work == [kind |-> "admin", user |-> id, asks |-> application]
    <3>1. application \in [email : Emails, name : Names, code : Codes]
        BY ApplicationsAssumption
    <3>2. work \in Applying /\ work.kind # "signup"
        BY <3>1 DEF Applying
    <3>3. \E step \in {"code", "email"} : BeginRequest(t, step, work) /\ UNCHANGED requested
        BY <2>1 DEF BeginAdmin
    <3> HIDE DEF work
    <3> QED BY <3>2, <3>3, BeginStep
  <2>2. ASSUME BeginInvite(t) PROVE IInv'
      BY <2>2, BeginStep DEF BeginInvite
  <2>3. ASSUME NEW code \in Codes, BeginCheck(t, code) PROVE IInv'
      BY <2>3, BeginStep DEF BeginCheck
  <2> QED BY <1>2, <2>1, <2>2, <2>3, BeginSignupStep DEF Begin
<1>3. ASSUME NEW code \in Codes, Expire(code) PROVE IInv'
    BY <1>3, NobodyMoves DEF Expire, IInv, Typed, TokensAreForUsers
<1>4. ASSUME NEW id \in UserIds, Login(id) PROVE IInv'
    BY <1>4, NobodyMoves DEF Login, IInv, Typed, TokensAreForUsers
<1>5. CASE UNCHANGED vars
    BY <1>5, NobodyMoves DEF vars, IInv, Typed, TokensAreForUsers
<1> QED BY <1>1, <1>2, <1>3, <1>4, <1>5, RestartStep DEF Next

LEMMA Always == Spec => []IInv
<1> QED BY Initially, EveryStep, PTL DEF Spec

\* Whatever signups and restarts do, an invite counts exactly the users who came
\* with it and no more than it was created for (_get_valid_invite).
THEOREM InviteUses == Spec => []InviteUsesCounted
<1>1. IInv => InviteUsesCounted
    BY DEF IInv
<1> QED BY <1>1, Always, PTL

\* No client is told of a user that is not committed, or that a restart takes back
\* (_tokens_for).
THEOREM TokensForUsers == Spec => []TokensAreForUsers
<1>1. IInv => TokensAreForUsers
    BY DEF IInv
<1> QED BY <1>1, Always, PTL
----------------------------------------------------------------------------
\* The email and the name a request asks for, and the rows of its user.
AskedEmail(t) == IF at[t] = "grant" THEN session[t][UserOf(t)].email ELSE job[t].asks.email

AskedName(t) == IF at[t] = "grant" THEN session[t][UserOf(t)].name ELSE job[t].asks.name

EmailOf(t) == EmailRow(AskedEmail(t))

NameOf(t) == NameRow(AskedName(t))

AccountOf(t) == AccountRow(job[t].user)

HouseOf(t) == HouseRow(job[t].house)

PaidFrom(house) == {id \in UserIds : /\ Exists(EntriesRow(id))
                                     /\ table[EntriesRow(id)].house = house}

Founding(t) == at[t] = "grant" /\ job[t].house = job[t].user

\* What a session has inserted is not committed yet and locked, and nothing else is
\* in it than the rows its place has brought.
CarriesEmail(t) ==
    at[t] \in {"name", "house", "grant"} =>
        /\ EmailOf(t) \in DOMAIN session[t] /\ session[t][EmailOf(t)] = job[t].user
        /\ lock[EmailOf(t)] = t /\ ~Exists(EmailOf(t))

CarriesUser(t) ==
    at[t] \in {"house", "grant"} =>
        /\ NameOf(t) \in DOMAIN session[t] /\ session[t][NameOf(t)] = job[t].user
        /\ lock[NameOf(t)] = t /\ ~Exists(NameOf(t))
        /\ AccountOf(t) \in DOMAIN session[t] /\ session[t][AccountOf(t)] = 0
        /\ UserOf(t) \in DOMAIN session[t]
        /\ session[t][UserOf(t)] = [email |-> AskedEmail(t), name |-> AskedName(t), role |-> "user"]

\* The house it has found is committed, unless it is its own, and its balance is
\* covered by the grants paid since.
CarriesHouse(t) ==
    at[t] = "grant" =>
        /\ HouseOf(t) \in DOMAIN session[t]
        /\ session[t][HouseOf(t)] \in -(Grant * Cardinality(PaidFrom(job[t].house)))..0
        /\ Founding(t) \/ Exists(HouseOf(t))

CarriesNoMore(t) ==
    DOMAIN session[t] \subseteq
        (IF Holding(t) THEN {InviteOf(t)} ELSE {})
        \cup (IF at[t] \in {"name", "house", "grant"} THEN {EmailOf(t)} ELSE {})
        \cup (IF at[t] \in {"house", "grant"} THEN {NameOf(t), UserOf(t), AccountOf(t)} ELSE {})
        \cup (IF at[t] = "grant" THEN {HouseOf(t)} ELSE {})

\* Only the script makes users with these ids.
AdminsApart(t) ==
    at[t] \in {"email", "name"} /\ job[t].kind = "admin" => job[t].user \in AdminIds

Carries(t) ==
    CarriesEmail(t) /\ CarriesUser(t) /\ CarriesHouse(t) /\ CarriesNoMore(t) /\ AdminsApart(t)

Founders == {t \in Threads : Founding(t)}

\* While there is no house account any thread may found one, and then no more do.
WInv ==
    /\ UsersWhole
    /\ HouseWithinLedger
    /\ requested \cap AdminIds = {}
    /\ Cardinality(Houses) + Cardinality(Founders) <= Cardinality(Threads)
    /\ \A t \in Threads : Carries(t)
----------------------------------------------------------------------------
(***************************************************************************)
(* Types.                                                                  *)
(***************************************************************************)
\* The rows RowsDiffer leaves out, and what each kind of row holds.
LEMMA OtherRowsDiffer ==
    /\ \A c, d : EmailRow(c) = EmailRow(d) => c = d
    /\ \A c, d : NameRow(c) = NameRow(d) => c = d
    /\ \A c, d : AccountRow(c) = AccountRow(d) => c = d
    /\ \A c, d : HouseRow(c) = HouseRow(d) => c = d
    /\ \A c, d : /\ EmailRow(c) \notin {NameRow(d), AccountRow(d), HouseRow(d)}
                 /\ NameRow(c) \notin {AccountRow(d), HouseRow(d)}
                 /\ AccountRow(c) # HouseRow(d)
BY DEF EmailRow, NameRow, AccountRow, HouseRow

LEMMA OtherRowsOf ==
    /\ \A email \in Emails : EmailRow(email) \in Rows
    /\ \A name \in Names : NameRow(name) \in Rows
    /\ \A id \in UserIds : AccountRow(id) \in Rows /\ HouseRow(id) \in Rows
BY DEF Rows

LEMMA RowTypes ==
    /\ \A c : RowType(InviteRow(c)) = [max : Nat, uses : Nat]
    /\ \A c : RowType(UserRow(c)) = [email : Emails, name : Names, role : {"user", "admin"}]
    /\ \A c : RowType(EntriesRow(c)) = [house : UserIds, code : Codes]
    /\ \A c : RowType(AccountRow(c)) = Int /\ RowType(HouseRow(c)) = Int
    /\ \A c : RowType(EmailRow(c)) = UserIds /\ RowType(NameRow(c)) = UserIds
BY DEF RowType, InviteRow, UserRow, EntriesRow, AccountRow, HouseRow, EmailRow, NameRow

\* What TypeOK says of a thread's place.
Fits(t) ==
    \/ at[t] = "idle" /\ job[t] = NoJob
    \/ at[t] \in {"invite", "existing", "email", "name", "house"} /\ job[t] \in Applying
    \/ /\ at[t] \in {"grant", "answer"}
       /\ job[t] \in [kind : {"signup"}, user : UserIds, code : Codes, house : UserIds]
    \/ at[t] = "check" /\ job[t] \in [kind : {"check"}, code : Codes]
    \/ at[t] = "code" /\ job[t] \in Applying \cup [kind : {"invite"}]

SessionTyped(t) ==
    /\ DOMAIN session[t] \subseteq Rows
    /\ \A row \in DOMAIN session[t] : session[t][row] \in RowType(row)

\* A step of one thread keeps the types if what it writes has them.
LEMMA TypeKept ==
    ASSUME TypeOK, NEW t \in Threads,
           DOMAIN table' = Rows, \A row \in Rows : table'[row] = NoRow \/ table'[row] \in RowType(row),
           \A u \in Threads \ {t} : at'[u] = at[u] /\ job'[u] = job[u] /\ session'[u] = session[u],
           SessionTyped(t)', Fits(t)', lock' \in [Rows -> Threads \cup {NoThread}],
           share' = [row \in Rows |-> {}],
           requested' \subseteq UserIds, expired' \subseteq Codes, tokens' \subseteq UserIds,
           restarts' \in 0..MaxRestarts
    PROVE  TypeOK'
<1>1. \A row : RowType(row)' = RowType(row)
    BY DEF RowType
<1>2. \A u \in Threads : Fits(u)' /\ SessionTyped(u)'
  <2>1. \A u \in Threads : Fits(u) /\ SessionTyped(u)
      BY DEF TypeOK, Fits, SessionTyped
  <2>2. \A u \in Threads \ {t} : Fits(u)'
      BY <2>1 DEF Fits
  <2>3. \A u \in Threads \ {t} : SessionTyped(u)'
      BY <1>1, <2>1 DEF SessionTyped
  <2> QED BY <2>2, <2>3
<1>3. \A u \in Threads : /\ DOMAIN session'[u] \subseteq Rows
                         /\ \A row \in DOMAIN session'[u] : session'[u][row] \in RowType(row)
    BY <1>1, <1>2 DEF SessionTyped
<1>4. \A u \in Threads : Fits(u)'
    BY <1>2
<1> QED BY <1>1, <1>3, <1>4 DEF TypeOK, Fits

LEMMA TypesInitially == Init => TypeOK
<1> SUFFICES ASSUME Init PROVE TypeOK
    OBVIOUS
<1>1. /\ table = [row \in Rows |-> NoRow] /\ session = [t \in Threads |-> <<>>]
      /\ lock = [row \in Rows |-> NoThread] /\ share = [row \in Rows |-> {}]
    BY DEF Init, InitDatabase
<1>2. ASSUME NEW t \in Threads PROVE DOMAIN session[t] = {}
  <2>1. session[t] = <<>>
      BY <1>1
  <2> QED BY <2>1
<1> QED BY <1>1, <1>2, MaxRestartsAssumption DEF Init, TypeOK

LEMMA NothingLoaded ==
    ASSUME NEW t, session'[t] = <<>>
    PROVE  SessionTyped(t)'
<1>1. DOMAIN session'[t] = {}
    OBVIOUS
<1> QED BY <1>1 DEF SessionTyped

\* What a rolled-back request leaves.
LEMMA Ended ==
    ASSUME IInv, TypeOK, NEW t \in Threads, EndRequest(t)
    PROVE  /\ table' = table /\ session' = [session EXCEPT ![t] = <<>>] /\ session'[t] = <<>>
           /\ at' = [at EXCEPT ![t] = "idle"] /\ job' = [job EXCEPT ![t] = NoJob]
           /\ at'[t] = "idle" /\ job'[t] = NoJob
           /\ lock' = [row \in Rows |-> IF lock[row] = t THEN NoThread ELSE lock[row]]
           /\ share' = [row \in Rows |-> {}]
           /\ UNCHANGED <<requested, expired, tokens, restarts>>
<1>1. DOMAIN share = Rows /\ \A row \in Rows : share[row] = {}
    BY DEF TypeOK
<1>2. share' = [row \in Rows |-> {}]
    BY <1>1 DEF EndRequest, Rollback, Release
<1> QED BY <1>2 DEF EndRequest, Rollback, Release, Go, Do, IInv, Typed

LEMMA EndRequestTypes ==
    ASSUME IInv, TypeOK, NEW t \in Threads, EndRequest(t)
    PROVE  TypeOK'
<1>1. Fits(t)'
    BY Ended DEF Fits
<1>2. SessionTyped(t)'
    BY Ended, NothingLoaded
<1>3. lock' \in [Rows -> Threads \cup {NoThread}]
    BY Ended DEF TypeOK
<1> QED BY <1>1, <1>2, <1>3, Ended, TypeKept DEF TypeOK, IInv, Typed

RowsTyped(rows) ==
    /\ DOMAIN rows \subseteq Rows
    /\ \A row \in DOMAIN rows : rows[row] \in RowType(row)

LEMMA OneTyped ==
    ASSUME NEW key \in Rows, NEW value \in RowType(key)
    PROVE  RowsTyped(Only(key, value))
BY DEF RowsTyped, Only

LEMMA BothTyped ==
    ASSUME NEW rows, NEW others, RowsTyped(rows), RowsTyped(others)
    PROVE  RowsTyped(rows ++ others)
BY DEF RowsTyped, ++

LEMMA ProceedTypes ==
    ASSUME IInv, TypeOK, NEW t \in Threads, NEW rows, NEW keys, NEW step, Proceed(t, rows, keys, step),
           RowsTyped(rows), Fits(t)', \A u \in Threads \ {t} : job'[u] = job[u]
    PROVE  TypeOK'
<1>1. SessionTyped(t)'
  <2>1. \A row \in DOMAIN session'[t] : row \in Rows /\ session'[t][row] \in RowType(row)
      BY Proceeded DEF TypeOK, RowsTyped
  <2> QED BY <2>1 DEF SessionTyped, RowType
<1>2. lock' \in [Rows -> Threads \cup {NoThread}]
  <2>1. DOMAIN lock' = Rows /\ \A row \in Rows : lock'[row] \in Threads \cup {NoThread}
      BY Proceeded DEF TypeOK
  <2>2. lock' = [row \in Rows |-> IF row \in keys THEN t ELSE lock[row]]
      BY DEF Proceed, Lock, IInv, Typed
  <2> QED BY <2>1, <2>2
<1>3. \A u \in Threads \ {t} : at'[u] = at[u] /\ job'[u] = job[u] /\ session'[u] = session[u]
    BY Proceeded DEF IInv, Typed
<1>4. UNCHANGED <<table, share, requested, expired, tokens, restarts>>
    BY DEF Proceed
<1> QED BY <1>1, <1>2, <1>3, <1>4, TypeKept DEF TypeOK

LEMMA CommitTypes ==
    ASSUME IInv, TypeOK, NEW t \in Threads, NEW rows, Commit(t, rows), RowsTyped(rows), Fits(t)',
           \A u \in Threads \ {t} : at'[u] = at[u] /\ job'[u] = job[u],
           UNCHANGED <<requested, expired, tokens, restarts>>
    PROVE  TypeOK'
<1>1. \A row \in Rows : table'[row] = NoRow \/ table'[row] \in RowType(row)
  <2>1. SessionTyped(t) /\ \A row \in Rows : table[row] = NoRow \/ table[row] \in RowType(row)
      BY DEF TypeOK, SessionTyped
  <2> QED BY <2>1, Committed DEF RowsTyped, SessionTyped
<1>2. SessionTyped(t)'
    BY Committed, NothingLoaded
<1>3. lock' \in [Rows -> Threads \cup {NoThread}]
  <2>1. lock' = [row \in Rows |-> IF lock[row] = t THEN NoThread ELSE lock[row]]
      BY DEF Commit, Release, IInv, Typed
  <2> QED BY <2>1 DEF TypeOK
<1>4. share' = [row \in Rows |-> {}]
    BY DEF Commit, Release, TypeOK
<1>5. \A u \in Threads \ {t} : at'[u] = at[u] /\ job'[u] = job[u] /\ session'[u] = session[u]
    BY Committed DEF IInv, Typed
<1> QED BY <1>1, <1>2, <1>3, <1>4, <1>5, Committed, TypeKept DEF TypeOK

\* No row and no lock changes.
LEMMA PlaceTypes ==
    ASSUME IInv, TypeOK, NEW t \in Threads, UNCHANGED <<dbVars, restarts>>, Fits(t)',
           \A u \in Threads \ {t} : at'[u] = at[u] /\ job'[u] = job[u],
           requested' \subseteq UserIds, expired' \subseteq Codes, tokens' \subseteq UserIds
    PROVE  TypeOK'
<1>1. UNCHANGED <<table, session, lock, share>>
    BY DEF dbVars
<1>2. SessionTyped(t)'
    BY <1>1 DEF TypeOK, SessionTyped, RowType
<1> QED BY <1>1, <1>2, TypeKept DEF TypeOK

LEMMA NewUserTyped ==
    ASSUME NEW t, job[t] \in Applying, NEW role \in {"user", "admin"}
    PROVE  RowsTyped(NewUser(t, role))
<1> DEFINE id == job[t].user
           user == [email |-> job[t].asks.email, name |-> job[t].asks.name, role |-> role]
<1>1. id \in UserIds /\ user \in RowType(UserRow(id)) /\ 0 \in RowType(AccountRow(id))
  <2>1. id \in UserIds /\ job[t].asks \in [email : Emails, name : Names, code : Codes]
      BY DEF Applying
  <2>2. user \in [email : Emails, name : Names, role : {"user", "admin"}]
      BY <2>1
  <2> HIDE DEF user, id
  <2>3. /\ RowType(UserRow(id)) = [email : Emails, name : Names, role : {"user", "admin"}]
        /\ RowType(AccountRow(id)) = Int
      BY RowTypes
  <2>4. 0 \in Int
      OBVIOUS
  <2> QED BY <2>1, <2>2, <2>3, <2>4
<1>2. RowsTyped(Only(UserRow(id), user)) /\ RowsTyped(Only(AccountRow(id), 0))
    BY <1>1, OneTyped, RowsOf, OtherRowsOf
<1> HIDE DEF user, id
<1>3. RowsTyped(Only(UserRow(id), user) ++ Only(AccountRow(id), 0))
    BY <1>2, BothTyped
<1> QED BY <1>3 DEF NewUser, user, id

LEMMA SignupTypes ==
    ASSUME IInv, TypeOK, NEW t \in Threads,
           \/ LockInvite(t) \/ CheckExisting(t) \/ InsertEmail(t) \/ InsertUser(t) \/ FindHouse(t)
    PROVE  TypeOK'
<1>1. CASE EndRequest(t)
    BY <1>1, EndRequestTypes
<1> DEFINE id == job[t].user
           asks == job[t].asks
<1>2. at[t] \in {"invite", "existing", "email", "name", "house"} => 
          /\ job[t] \in Applying /\ id \in UserIds
          /\ asks.email \in Emails /\ asks.name \in Names /\ asks.code \in Codes
    BY DEF IInv, Placed, Applying
<1>3. ASSUME job' = job, NEW step \in {"existing", "name", "house"}, at[t] \in {"invite", "email", "name"},
             NEW rows, NEW keys, Proceed(t, rows, keys, step), RowsTyped(rows)
      PROVE  TypeOK'
  <2>1. Fits(t)'
      BY <1>2, <1>3, Proceeded DEF Fits
  <2> QED BY <1>3, <2>1, ProceedTypes
<1>4. CASE LockInvite(t) /\ ~EndRequest(t)
  <2> DEFINE key == InviteRow(asks.code)
  <2>1. at[t] = "invite" /\ Exists(key) /\ Proceed(t, Only(key, table[key]), {key}, "existing") /\ job' = job
      BY <1>4 DEF LockInvite
  <2>2. key \in Rows /\ table[key] \in RowType(key)
      BY <1>2, <2>1, RowsOf DEF TypeOK, Exists
  <2> QED BY <1>3, <2>1, <2>2, OneTyped
<1>5. CASE CheckExisting(t) /\ ~EndRequest(t)
  <2>1. /\ at[t] = "existing" /\ at' = [at EXCEPT ![t] = "email"] /\ UNCHANGED <<dbVars, restarts>>
        /\ UNCHANGED <<job, requested, expired, tokens>>
      BY <1>5 DEF CheckExisting, Go
  <2>2. Fits(t)' /\ \A u \in Threads \ {t} : at'[u] = at[u]
      BY <1>2, <2>1 DEF Fits, IInv, Typed
  <2> QED BY <2>1, <2>2, PlaceTypes DEF TypeOK
<1>6. CASE InsertEmail(t) /\ ~EndRequest(t)
  <2> DEFINE key == EmailRow(asks.email)
  <2>1. at[t] = "email" /\ Proceed(t, Only(key, id), {key}, "name") /\ job' = job
      BY <1>6 DEF InsertEmail
  <2>2. key \in Rows /\ id \in RowType(key)
      BY <1>2, <2>1, OtherRowsOf, RowTypes
  <2> QED BY <1>3, <2>1, <2>2, OneTyped
<1>7. CASE InsertUser(t) /\ ~EndRequest(t)
  <2> DEFINE key == NameRow(asks.name)
             invite == InviteRow(asks.code)
             keys == {key, UserRow(id), AccountRow(id)}
             rows == Only(key, id) ++ NewUser(t, "user") ++ Only(invite, UsedOnceMore(Row(t, invite)))
  <2>1. at[t] = "name" /\ job[t].kind = "signup" /\ Proceed(t, rows, keys, "house") /\ job' = job
      BY <1>7 DEF InsertUser
  <2>2. key \in Rows /\ id \in RowType(key)
      BY <1>2, <2>1, OtherRowsOf, RowTypes
  <2>3. invite \in Rows /\ UsedOnceMore(Row(t, invite)) \in RowType(invite)
    <3>1. Holding(t) /\ InviteOf(t) = invite
        BY <2>1 DEF Holding, Signing, InviteOf, CodeOf
    <3>2. invite \in DOMAIN session[t]
        BY <3>1 DEF IInv, Held
    <3>3. Row(t, invite) \in RowType(invite) /\ RowType(invite) = [max : Nat, uses : Nat]
        BY <3>2, RowTypes DEF TypeOK, Row, Loaded
    <3>4. UsedOnceMore(Row(t, invite)) \in [max : Nat, uses : Nat]
        BY <3>3 DEF UsedOnceMore
    <3> QED BY <1>2, <2>1, <3>3, <3>4, RowsOf
  <2>4. RowsTyped(NewUser(t, "user"))
      BY <1>2, <2>1, NewUserTyped
  <2> HIDE DEF key, invite, id
  <2> QED BY <1>3, <2>1, <2>2, <2>3, <2>4, OneTyped, BothTyped
<1>8. CASE FindHouse(t) /\ ~EndRequest(t)
  <2>1. at[t] = "house"
      BY <1>8 DEF FindHouse
  <2>2. ASSUME NEW house \in UserIds, NEW keys, NEW balance \in Int,
               Proceed(t, Only(HouseRow(house), balance), keys, "grant"), Use(t, house)
        PROVE  TypeOK'
    <3>1. /\ job' = [job EXCEPT ![t] = [kind |-> "signup", user |-> id, code |-> asks.code, house |-> house]]
          /\ DOMAIN job = Threads
        BY <2>2 DEF Use, Do, IInv, Typed
    <3>2. Fits(t)' /\ \A u \in Threads \ {t} : job'[u] = job[u]
        BY <1>2, <2>1, <2>2, <3>1, Proceeded DEF Fits
    <3>3. RowsTyped(Only(HouseRow(house), balance))
        BY <2>2, OneTyped, OtherRowsOf, RowTypes
    <3> QED BY <2>2, <3>2, <3>3, ProceedTypes
  <2>3. \A house \in Houses : table[HouseRow(house)] \in Int /\ house \in UserIds
      BY OtherRowsOf, RowTypes DEF TypeOK, Houses, Exists
  <2> QED BY <1>2, <1>8, <2>1, <2>2, <2>3 DEF FindHouse
<1> QED BY <1>1, <1>4, <1>5, <1>6, <1>7, <1>8

LEMMA PostGrantTypes ==
    ASSUME IInv, TypeOK, WInv, NEW t \in Threads, PostGrant(t)
    PROVE  TypeOK'
<1> DEFINE id == job[t].user
           house == HouseRow(job[t].house)
           account == AccountRow(id)
           entries == [house |-> job[t].house, code |-> job[t].code]
           owed == Row(t, house) - Grant
           paid == Row(t, account) + Grant
           rows == Only(house, owed) ++ Only(account, paid) ++ Only(EntriesRow(id), entries)
<1>1. /\ at[t] = "grant" /\ Commit(t, rows) /\ at' = [at EXCEPT ![t] = "answer"]
      /\ UNCHANGED <<job, requested, expired, tokens, restarts>>
    BY DEF PostGrant, CommitAndGo, Go
<1>2. /\ job[t] \in [kind : {"signup"}, user : UserIds, code : Codes, house : UserIds]
      /\ id \in UserIds /\ entries \in [house : UserIds, code : Codes]
    BY <1>1 DEF IInv, Placed
<1>3. Fits(t)' /\ \A u \in Threads \ {t} : at'[u] = at[u] /\ job'[u] = job[u]
    BY <1>1, <1>2 DEF Fits, IInv, Typed
<1>4. house \in Rows /\ account \in Rows /\ EntriesRow(id) \in Rows
    BY <1>2, RowsOf, OtherRowsOf
<1>5. RowType(house) = Int /\ RowType(account) = Int /\ entries \in RowType(EntriesRow(id))
    BY <1>2, RowTypes
<1>6. Row(t, house) \in Int /\ Row(t, account) \in Int
  <2>1. Loaded(t, house) /\ Loaded(t, account)
      BY <1>1 DEF WInv, Carries, CarriesUser, CarriesHouse, AccountOf, HouseOf, Loaded
  <2> QED BY <1>4, <1>5, <2>1 DEF TypeOK, Row, Loaded
<1>7. owed \in Int /\ paid \in Int
    BY <1>6, GrantAssumption
<1> HIDE DEF house, account, id, entries, owed, paid
<1>8. RowsTyped(rows)
    BY <1>4, <1>5, <1>7, OneTyped, BothTyped
<1> HIDE DEF rows
<1> QED BY <1>1, <1>3, <1>8, CommitTypes

LEMMA CreateInviteTypes ==
    ASSUME IInv, TypeOK, NEW t \in Threads, CreateInvite(t)
    PROVE  TypeOK'
<1>1. CASE EndRequest(t)
    BY <1>1, EndRequestTypes
<1>2. ASSUME NEW code \in Codes, NEW max \in MaxUses[code],
             Commit(t, Only(InviteRow(code), [max |-> max, uses |-> 0])),
             Go(t, "idle"), Do(t, NoJob), UNCHANGED <<requested, expired, tokens, restarts>>
      PROVE  TypeOK'
  <2>1. InviteRow(code) \in Rows /\ [max |-> max, uses |-> 0] \in RowType(InviteRow(code))
      BY RowsOf, RowTypes, MaxUsesAssumption
  <2>2. Fits(t)' /\ \A u \in Threads \ {t} : at'[u] = at[u] /\ job'[u] = job[u]
      BY <1>2 DEF Go, Do, Fits, IInv, Typed
  <2> DEFINE rows == Only(InviteRow(code), [max |-> max, uses |-> 0])
  <2>3. RowsTyped(rows) /\ Commit(t, rows)
      BY <1>2, <2>1, OneTyped
  <2> HIDE DEF rows
  <2> QED BY <1>2, <2>2, <2>3, CommitTypes
<1> QED BY <1>1, <1>2 DEF CreateInvite

LEMMA InsertAdminTypes ==
    ASSUME IInv, TypeOK, NEW t \in Threads, InsertAdmin(t)
    PROVE  TypeOK'
<1> DEFINE key == NameRow(job[t].asks.name)
           rows == Only(key, job[t].user) ++ NewUser(t, "admin")
<1>1. CASE EndRequest(t)
    BY <1>1, EndRequestTypes
<1>2. CASE ~EndRequest(t)
  <2>1. /\ at[t] = "name" /\ Commit(t, rows)
        /\ at' = [at EXCEPT ![t] = "code"] /\ UNCHANGED <<job, requested, expired, tokens, restarts>>
      BY <1>2 DEF InsertAdmin, CommitAndGo, Go
  <2>2. job[t] \in Applying
      BY <2>1 DEF IInv, Placed
  <2>3. key \in Rows /\ job[t].user \in RowType(key)
      BY <2>2, OtherRowsOf, RowTypes DEF Applying
  <2>4. RowsTyped(NewUser(t, "admin"))
      BY <2>2, NewUserTyped
  <2>5. Fits(t)' /\ \A u \in Threads \ {t} : at'[u] = at[u]
      BY <2>1, <2>2 DEF Fits, IInv, Typed
  <2> HIDE DEF key
  <2>6. RowsTyped(rows)
      BY <2>3, <2>4, OneTyped, BothTyped
  <2> HIDE DEF rows
  <2> QED BY <2>1, <2>5, <2>6, CommitTypes
<1> QED BY <1>1, <1>2

\* A request that begins.
LEMMA BeginTypes ==
    ASSUME IInv, TypeOK, NEW t \in Threads, NEW step, NEW work, BeginRequest(t, step, work),
           requested' \subseteq UserIds,
           \/ step \in {"invite", "email", "code"} /\ work \in Applying
           \/ step = "code" /\ work \in [kind : {"invite"}]
           \/ step = "check" /\ work \in [kind : {"check"}, code : Codes]
    PROVE  TypeOK'
<1>1. /\ at' = [at EXCEPT ![t] = step] /\ job' = [job EXCEPT ![t] = work]
      /\ UNCHANGED <<dbVars, expired, tokens, restarts>>
    BY DEF BeginRequest, Go, Do
<1>2. Fits(t)' /\ \A u \in Threads \ {t} : at'[u] = at[u] /\ job'[u] = job[u]
    BY <1>1 DEF Fits, IInv, Typed
<1> QED BY <1>1, <1>2, PlaceTypes DEF TypeOK

LEMMA AnswerTypes ==
    ASSUME IInv, TypeOK, NEW t \in Threads, Answer(t)
    PROVE  TypeOK'
<1>1. /\ at[t] = "answer" /\ tokens' = tokens \cup {job[t].user}
      /\ at' = [at EXCEPT ![t] = "idle"] /\ job' = [job EXCEPT ![t] = NoJob]
      /\ UNCHANGED <<dbVars, requested, expired, restarts>>
    BY DEF Answer, Go, Do
<1>2. tokens' \subseteq UserIds
    BY <1>1 DEF IInv, Placed, TypeOK
<1>3. Fits(t)' /\ \A u \in Threads \ {t} : at'[u] = at[u] /\ job'[u] = job[u]
    BY <1>1 DEF Fits, IInv, Typed
<1> QED BY <1>1, <1>2, <1>3, PlaceTypes DEF TypeOK

LEMMA NobodyTypes ==
    ASSUME TypeOK, UNCHANGED <<dbVars, at, job, requested, restarts>>,
           expired' \subseteq Codes, tokens' \subseteq UserIds
    PROVE  TypeOK'
<1>1. UNCHANGED <<table, session, lock, share>>
    BY DEF dbVars
<1> QED BY <1>1 DEF TypeOK, RowType

LEMMA RestartTypes ==
    ASSUME IInv, TypeOK, Restart
    PROVE  TypeOK'
<1>1. /\ at' = [t \in Threads |-> "idle"] /\ job' = [t \in Threads |-> NoJob]
      /\ lock' = [row \in Rows |-> NoThread] /\ share' = [row \in Rows |-> {}]
      /\ session' = [t \in Threads |-> <<>>] /\ restarts' = restarts + 1 /\ restarts < MaxRestarts
      /\ UNCHANGED <<table, requested, expired, tokens>>
    BY DEF Restart, IInv, Typed, TypeOK
<1>2. ASSUME NEW t \in Threads
      PROVE  /\ DOMAIN session'[t] \subseteq Rows
             /\ \A row \in DOMAIN session'[t] : session'[t][row] \in RowType(row)'
  <2>1. session'[t] = <<>>
      BY <1>1
  <2>2. DOMAIN session'[t] = {}
      BY <2>1
  <2> QED BY <2>2
<1>3. restarts' \in 0..MaxRestarts
    BY <1>1, MaxRestartsAssumption DEF TypeOK
<1> QED BY <1>1, <1>2, <1>3 DEF TypeOK, RowType
----------------------------------------------------------------------------
(***************************************************************************)
(* What users, houses and sessions rely on.                                *)
(***************************************************************************)
\* The rows a unique column of the users has.
UniqueRows == {EmailRow(email) : email \in Emails} \cup {NameRow(name) : name \in Names}

LEMMA AskedTyped ==
    ASSUME IInv, TypeOK, WInv, NEW t \in Threads
    PROVE  /\ at[t] \in {"invite", "existing", "email", "name", "house", "grant"} =>
                 AskedEmail(t) \in Emails /\ AskedName(t) \in Names /\ job[t].user \in UserIds
           /\ at[t] \in {"name", "house", "grant"} => EmailOf(t) \in UniqueRows
           /\ at[t] \in {"house", "grant"} => NameOf(t) \in UniqueRows
<1>1. CASE at[t] = "grant"
  <2>1. UserOf(t) \in DOMAIN session[t] /\ job[t].user \in UserIds
      BY <1>1 DEF WInv, Carries, CarriesUser, IInv, Placed
  <2>2. session[t][UserOf(t)] \in [email : Emails, name : Names, role : {"user", "admin"}]
      BY <2>1, RowTypes DEF TypeOK, UserOf
  <2>3. AskedEmail(t) \in Emails /\ AskedName(t) \in Names
      BY <1>1, <2>2 DEF AskedEmail, AskedName
  <2> QED BY <2>1, <2>3 DEF EmailOf, NameOf, UniqueRows
<1>2. CASE at[t] \in {"invite", "existing", "email", "name", "house"}
  <2>1. job[t] \in Applying
      BY <1>2 DEF IInv, Placed
  <2>2. job[t].user \in UserIds /\ job[t].asks \in [email : Emails, name : Names, code : Codes]
      BY <2>1 DEF Applying
  <2>3. AskedEmail(t) \in Emails /\ AskedName(t) \in Names
      BY <1>2, <2>2 DEF AskedEmail, AskedName
  <2> QED BY <2>2, <2>3 DEF EmailOf, NameOf, UniqueRows
<1> QED BY <1>1, <1>2

LEMMA PaidFinite ==
    \A house : IsFiniteSet(PaidFrom(house)) /\ Cardinality(PaidFrom(house)) \in Nat
BY UserIdsAssumption, FS_Subset, FS_CardinalityType DEF PaidFrom

\* With more grants paid a balance may be lower.
LEMMA LowerBound ==
    ASSUME NEW few \in Nat, NEW more \in Nat, few <= more
    PROVE  /\ Grant * few \in Nat /\ Grant * few <= Grant * more
           /\ Grant * (few + 1) = Grant * few + Grant
<1>1. Grant \in Nat
    BY GrantAssumption
<1>2. PICK rest \in Nat : more = few + rest
  <2>1. more - few \in Nat /\ more = few + (more - few)
      OBVIOUS
  <2> QED BY <2>1
<1>3. Grant * more = Grant * few + Grant * rest
    BY <1>1, <1>2
<1>4. Grant * few \in Nat /\ Grant * rest \in Nat
    BY <1>1
<1>5. Grant * (few + 1) = Grant * few + Grant
    BY <1>1
<1> QED BY <1>3, <1>4, <1>5

LEMMA MorePaid ==
    ASSUME NEW few, NEW more, IsFiniteSet(more), few \subseteq more, NEW balance,
           balance \in -(Grant * Cardinality(few))..0
    PROVE  balance \in -(Grant * Cardinality(more))..0
<1> DEFINE n == Cardinality(few)
           m == Cardinality(more)
<1>1. n \in Nat /\ m \in Nat /\ n <= m
    BY FS_Subset, FS_CardinalityType
<1> HIDE DEF n, m
<1>2. Grant * n <= Grant * m /\ Grant * n \in Nat /\ Grant * m \in Nat
    BY <1>1, LowerBound
<1>3. balance \in -(Grant * n)..0
    BY DEF n
<1> DEFINE low == Grant * n
           lower == Grant * m
<1>4. low \in Nat /\ lower \in Nat /\ low <= lower /\ balance \in -low..0
    BY <1>2, <1>3
<1> HIDE DEF low, lower
<1>5. balance \in -lower..0
    BY <1>4
<1> QED BY <1>5 DEF lower, m

\* A thread a step leaves alone carries what it carried.
LEMMA OthersCarry ==
    ASSUME IInv, TypeOK, WInv, NEW u \in Threads,
           at'[u] = at[u], job'[u] = job[u], session'[u] = session[u],
           \A row \in UniqueRows : lock[row] = u => lock'[row] = u /\ table'[row] = table[row],
           \A id \in UserIds : /\ Exists(HouseRow(id)) => table'[HouseRow(id)] # NoRow
                               /\ PaidFrom(id) \subseteq PaidFrom(id)'
    PROVE  Carries(u)' /\ Founding(u)' = Founding(u)
<1>1. /\ UserOf(u)' = UserOf(u) /\ AskedEmail(u)' = AskedEmail(u) /\ AskedName(u)' = AskedName(u)
      /\ AccountOf(u)' = AccountOf(u) /\ HouseOf(u)' = HouseOf(u)
      /\ Holding(u)' = Holding(u) /\ InviteOf(u)' = InviteOf(u) /\ Founding(u)' = Founding(u)
    BY DEF UserOf, AskedEmail, AskedName, AccountOf, HouseOf, Holding, Signing, InviteOf, CodeOf, Founding,
       UserRow, AccountRow, HouseRow, InviteRow
<1>2. EmailOf(u)' = EmailOf(u) /\ NameOf(u)' = NameOf(u)
    BY <1>1 DEF EmailOf, NameOf, EmailRow, NameRow
<1>3. Carries(u)
    BY DEF WInv
<1>4. CarriesEmail(u)' /\ CarriesUser(u)'
  <2>1. at[u] \in {"name", "house", "grant"} => table'[EmailOf(u)] = NoRow /\ lock'[EmailOf(u)] = u
      BY <1>3, AskedTyped DEF Carries, CarriesEmail, Exists
  <2>2. at[u] \in {"house", "grant"} => table'[NameOf(u)] = NoRow /\ lock'[NameOf(u)] = u
      BY <1>3, AskedTyped DEF Carries, CarriesUser, Exists
  <2>3. CarriesEmail(u)'
      BY <1>1, <1>2, <1>3, <2>1 DEF Carries, CarriesEmail, Exists
  <2>4. CarriesUser(u)'
      BY <1>1, <1>2, <1>3, <2>2 DEF Carries, CarriesUser, Exists
  <2> QED BY <2>3, <2>4
<1>5. CarriesHouse(u)'
  <2>1. CASE at[u] = "grant"
    <3>1. PICK house \in UserIds : job[u].house = house /\ job'[u].house = house
        BY <2>1 DEF IInv, Placed
    <3>2. /\ PaidFrom(house) \subseteq PaidFrom(house)' /\ IsFiniteSet(PaidFrom(house)')
        BY <3>1, UserIdsAssumption, FS_Subset DEF PaidFrom
    <3>3. /\ HouseOf(u) \in DOMAIN session[u]
          /\ session[u][HouseOf(u)] \in -(Grant * Cardinality(PaidFrom(house)))..0
          /\ Founding(u) \/ Exists(HouseOf(u))
        BY <1>3, <2>1, <3>1 DEF Carries, CarriesHouse
    <3>4. session[u][HouseOf(u)] \in -(Grant * Cardinality(PaidFrom(house)'))..0
        BY <3>2, <3>3, MorePaid
    <3>5. Founding(u) \/ table'[HouseOf(u)] # NoRow
        BY <3>1, <3>3 DEF HouseOf
    <3>6. (PaidFrom(job[u].house))' = PaidFrom(house)'
        BY <3>1 DEF PaidFrom, EntriesRow, Exists
    <3> QED BY <1>1, <2>1, <3>1, <3>3, <3>4, <3>5, <3>6 DEF CarriesHouse, Exists
  <2>2. CASE at[u] # "grant"
      BY <2>2 DEF CarriesHouse
  <2> QED BY <2>1, <2>2
<1>6. CarriesNoMore(u)' /\ AdminsApart(u)'
    BY <1>1, <1>2, <1>3 DEF Carries, CarriesNoMore, AdminsApart
<1> QED BY <1>1, <1>4, <1>5, <1>6 DEF Carries

\* A step that writes no row.
LEMMA NothingWhole ==
    ASSUME IInv, TypeOK, WInv, NEW t \in Threads, table' = table, requested' \cap AdminIds = {},
           \A u \in Threads \ {t} :
               /\ at'[u] = at[u] /\ job'[u] = job[u] /\ session'[u] = session[u]
               /\ \A row \in UniqueRows : lock[row] = u => lock'[row] = u,
           Carries(t)', Founding(t)' => Founding(t) \/ Houses = {}
    PROVE  WInv'
<1>1. \A id : Exists(HouseRow(id))' = Exists(HouseRow(id)) /\ PaidFrom(id)' = PaidFrom(id)
    BY DEF Exists, PaidFrom, HouseRow, EntriesRow
<1>2. \A u \in Threads \ {t} : Carries(u)' /\ Founding(u)' = Founding(u)
    BY <1>1, OthersCarry DEF Exists
<1>3. UsersWhole'
    BY DEF WInv, UsersWhole, Exists, UserRow, EmailRow, NameRow, AccountRow, HouseRow, EntriesRow
<1>4. Houses' = Houses
    BY <1>1 DEF Houses
<1>5. HouseWithinLedger'
    BY <1>4 DEF WInv, HouseWithinLedger, Exists, HouseRow, EntriesRow
<1>6. Cardinality(Houses') + Cardinality(Founders') <= Cardinality(Threads)
  <2>1. IsFiniteSet(Threads) /\ Founders \subseteq Threads /\ Founders' \subseteq Threads
      BY ThreadsAssumption DEF Founders
  <2>2. IsFiniteSet(Houses)
      BY UserIdsAssumption, FS_Subset DEF Houses
  <2>3. /\ Cardinality(Houses) \in Nat /\ Cardinality(Threads) \in Nat
        /\ Cardinality(Founders') \in Nat /\ Cardinality(Founders') <= Cardinality(Threads)
        /\ IsFiniteSet(Founders) /\ Cardinality(Founders) \in Nat
      BY <2>1, <2>2, FS_Subset, FS_CardinalityType
  <2>4. CASE Houses = {}
      BY <1>4, <2>3, <2>4, FS_EmptySet
  <2>5. CASE Founding(t)' => Founding(t)
    <3>1. Founders' \subseteq Founders
        BY <1>2, <2>5 DEF Founders
    <3>2. Cardinality(Founders') <= Cardinality(Founders)
        BY <2>3, <3>1, FS_Subset
    <3> QED BY <1>4, <2>3, <3>2 DEF WInv
  <2> QED BY <2>4, <2>5
<1> QED BY <1>2, <1>3, <1>5, <1>6 DEF WInv

LEMMA WholeInitially == Init => WInv
<1> SUFFICES ASSUME Init PROVE WInv
    OBVIOUS
<1>1. /\ \A row \in Rows : table[row] = NoRow
      /\ \A t \in Threads : session[t] = <<>> /\ at[t] = "idle"
      /\ requested = {}
    BY DEF Init, InitDatabase
<1>2. \A row \in Rows : ~Exists(row)
    BY <1>1 DEF Exists
<1>3. UsersWhole
    BY <1>1, <1>2, RowsOf, OtherRowsOf, NoRowAssumption DEF UsersWhole
<1>4. Houses = {} /\ Founders = {}
    BY <1>1, <1>2, OtherRowsOf DEF Houses, Founders, Founding
<1>5. HouseWithinLedger
    BY <1>4 DEF HouseWithinLedger
<1>6. Cardinality(Houses) + Cardinality(Founders) <= Cardinality(Threads)
    BY <1>4, FS_EmptySet, ThreadsAssumption, FS_CardinalityType
<1>7. ASSUME NEW t \in Threads PROVE Carries(t)
  <2>1. session[t] = <<>> /\ at[t] = "idle"
      BY <1>1
  <2>2. DOMAIN session[t] = {}
      BY <2>1
  <2> QED BY <2>1, <2>2
          DEF Carries, CarriesEmail, CarriesUser, CarriesHouse, CarriesNoMore, AdminsApart
<1> QED BY <1>1, <1>3, <1>5, <1>6, <1>7 DEF WInv
----------------------------------------------------------------------------
\* A thread with nothing in its session carries nothing.
LEMMA NothingCarried ==
    ASSUME NEW t, DOMAIN session'[t] = {}, at'[t] \notin {"name", "house", "grant"}, AdminsApart(t)'
    PROVE  Carries(t)' /\ ~Founding(t)'
BY DEF Carries, CarriesEmail, CarriesUser, CarriesHouse, CarriesNoMore, Founding

LEMMA EndRequestWhole ==
    ASSUME IInv, TypeOK, WInv, NEW t \in Threads, EndRequest(t)
    PROVE  WInv'
<1>1. DOMAIN session'[t] = {} /\ at'[t] = "idle"
  <2>1. session'[t] = <<>>
      BY Ended
  <2> QED BY <2>1, Ended
<1>2. Carries(t)' /\ ~Founding(t)'
    BY <1>1, NothingCarried DEF AdminsApart
<1>3. \A row \in UniqueRows : row \in Rows
    BY OtherRowsOf DEF UniqueRows
<1>4. ASSUME NEW u \in Threads \ {t}
      PROVE  /\ at'[u] = at[u] /\ job'[u] = job[u] /\ session'[u] = session[u]
             /\ \A row \in UniqueRows : lock[row] = u => lock'[row] = u
    BY <1>3, Ended DEF IInv, Typed
<1> QED BY <1>2, <1>4, Ended, NothingWhole DEF WInv

\* A request that goes on with more rows and locks.
LEMMA ProceedWhole ==
    ASSUME IInv, TypeOK, WInv, NEW t \in Threads, NEW rows, NEW keys, NEW step, Proceed(t, rows, keys, step),
           \A row \in UniqueRows : row \in keys => CanLock(t, row),
           \A u \in Threads \ {t} : job'[u] = job[u],
           Carries(t)', Founding(t)' => Houses = {}
    PROVE  WInv'
<1>1. \A row \in UniqueRows : row \in Rows
    BY OtherRowsOf DEF UniqueRows
<1>2. ASSUME NEW u \in Threads \ {t}
      PROVE  /\ at'[u] = at[u] /\ job'[u] = job[u] /\ session'[u] = session[u]
             /\ \A row \in UniqueRows : lock[row] = u => lock'[row] = u
  <2>1. at'[u] = at[u] /\ session'[u] = session[u]
      BY Proceeded DEF IInv, Typed
  <2> QED BY <1>1, <2>1, NoThreadAssumption, Proceeded DEF CanLock
<1>3. table' = table /\ requested' = requested
    BY Proceeded
<1> QED BY <1>2, <1>3, NothingWhole DEF WInv

LEMMA LockInviteWhole ==
    ASSUME IInv, TypeOK, WInv, NEW t \in Threads, LockInvite(t)
    PROVE  WInv'
<1> DEFINE key == InviteRow(job[t].asks.code)
           rows == Only(key, table[key])
<1>1. CASE EndRequest(t)
    BY <1>1, EndRequestWhole
<1>2. CASE ~EndRequest(t)
  <2>1. at[t] = "invite" /\ Proceed(t, rows, {key}, "existing") /\ job' = job
      BY <1>2 DEF LockInvite
  <2>2. DOMAIN rows = {key} /\ \A row \in UniqueRows : row \notin {key}
      BY RowsDiffer DEF Only, UniqueRows
  <2>3. DOMAIN session[t] = {}
      BY <2>1 DEF WInv, Carries, CarriesNoMore, Holding
  <2> HIDE DEF rows
  <2>4. at'[t] = "existing" /\ DOMAIN session'[t] = {key}
      BY <2>1, <2>2, <2>3, Proceeded
  <2>5. Holding(t)' /\ InviteOf(t)' = key
      BY <2>1, <2>4 DEF Holding, Signing, InviteOf, CodeOf, InviteRow, IInv, Placed
  <2>6. Carries(t)' /\ ~Founding(t)'
      BY <2>4, <2>5
         DEF Carries, CarriesEmail, CarriesUser, CarriesHouse, CarriesNoMore, AdminsApart, Founding
  <2> QED BY <2>1, <2>2, <2>6, ProceedWhole
<1> QED BY <1>1, <1>2

LEMMA CheckExistingWhole ==
    ASSUME IInv, TypeOK, WInv, NEW t \in Threads, CheckExisting(t)
    PROVE  WInv'
<1>1. CASE EndRequest(t)
    BY <1>1, EndRequestWhole
<1>2. CASE ~EndRequest(t)
  <2>1. /\ at[t] = "existing" /\ at' = [at EXCEPT ![t] = "email"]
        /\ UNCHANGED <<table, session, lock, job, requested>>
      BY <1>2 DEF CheckExisting, Go, dbVars
  <2>2. at'[t] = "email" /\ \A u \in Threads \ {t} : at'[u] = at[u]
      BY <2>1 DEF IInv, Typed
  <2>3. Holding(t) /\ Holding(t)' /\ InviteOf(t)' = InviteOf(t) /\ job[t].kind = "signup"
      BY <2>1, <2>2 DEF Holding, Signing, InviteOf, CodeOf, InviteRow, IInv, Placed
  <2>4. Carries(t)' /\ ~Founding(t)'
    <3>1. DOMAIN session[t] \subseteq {InviteOf(t)}
        BY <2>1, <2>3 DEF WInv, Carries, CarriesNoMore
    <3>2. DOMAIN session'[t] \subseteq {InviteOf(t)'}
        BY <2>1, <2>3, <3>1
    <3>3. CarriesNoMore(t)'
        BY <2>2, <2>3, <3>2 DEF CarriesNoMore
    <3> QED BY <2>1, <2>2, <2>3, <3>3
            DEF Carries, CarriesEmail, CarriesUser, CarriesHouse, AdminsApart, Founding
  <2> QED BY <2>1, <2>2, <2>4, NothingWhole DEF WInv
<1> QED BY <1>1, <1>2

LEMMA InsertEmailWhole ==
    ASSUME IInv, TypeOK, WInv, NEW t \in Threads, InsertEmail(t)
    PROVE  WInv'
<1> DEFINE key == EmailRow(job[t].asks.email)
           rows == Only(key, job[t].user)
<1>1. CASE EndRequest(t)
    BY <1>1, EndRequestWhole
<1>2. CASE ~EndRequest(t)
  <2>1. /\ at[t] = "email" /\ CanLock(t, key) /\ ~Exists(key)
        /\ Proceed(t, rows, {key}, "name") /\ job' = job
      BY <1>2 DEF InsertEmail
  <2>2. DOMAIN rows = {key} /\ rows[key] = job[t].user
      BY DEF Only
  <2>3. key \in Rows
      BY <2>1, OtherRowsOf DEF IInv, Placed, Applying
  <2>4. DOMAIN session[t] \subseteq (IF Holding(t) THEN {InviteOf(t)} ELSE {})
      BY <2>1 DEF WInv, Carries, CarriesNoMore
  <2> HIDE DEF rows, key
  <2>5. /\ at'[t] = "name" /\ DOMAIN session'[t] = {key} \cup DOMAIN session[t]
        /\ session'[t][key] = job[t].user /\ lock'[key] = t /\ table' = table
      BY <2>1, <2>2, <2>3, Proceeded
  <2>6. Holding(t)' = Holding(t) /\ InviteOf(t)' = InviteOf(t) /\ EmailOf(t)' = key
      BY <2>1, <2>5 DEF Holding, Signing, InviteOf, CodeOf, InviteRow, EmailOf, AskedEmail, key, EmailRow
  <2>7. CarriesEmail(t)'
      BY <2>1, <2>5, <2>6 DEF CarriesEmail, Exists
  <2>8. CarriesNoMore(t)'
    <3> HIDE DEF InviteOf, Holding
    <3>1. DOMAIN session'[t] \subseteq (IF Holding(t)' THEN {InviteOf(t)'} ELSE {}) \cup {EmailOf(t)'}
        BY <2>4, <2>5, <2>6
    <3> QED BY <2>5, <3>1 DEF CarriesNoMore
  <2>9. Carries(t)' /\ ~Founding(t)'
      BY <2>1, <2>5, <2>7, <2>8
         DEF WInv, Carries, CarriesUser, CarriesHouse, AdminsApart, Founding
  <2>10. \A row \in UniqueRows : row \in {key} => CanLock(t, row)
      BY <2>1
  <2> QED BY <2>1, <2>9, <2>10, ProceedWhole
<1> QED BY <1>1, <1>2

LEMMA InsertUserWhole ==
    ASSUME IInv, TypeOK, WInv, NEW t \in Threads, InsertUser(t)
    PROVE  WInv'
<1> DEFINE id == job[t].user
           email == job[t].asks.email
           name == job[t].asks.name
           key == NameRow(name)
           invite == InviteRow(job[t].asks.code)
           user == [email |-> email, name |-> name, role |-> "user"]
           used == UsedOnceMore(Row(t, invite))
           keys == {key, UserRow(id), AccountRow(id)}
           rows == Only(key, id) ++ NewUser(t, "user") ++ Only(invite, used)
<1>1. CASE EndRequest(t)
    BY <1>1, EndRequestWhole
<1>2. CASE ~EndRequest(t)
  <2>1. /\ at[t] = "name" /\ job[t].kind = "signup" /\ CanLock(t, key) /\ ~Exists(key)
        /\ Proceed(t, rows, keys, "house") /\ job' = job
      BY <1>2 DEF InsertUser
  <2>2. /\ key \in Rows /\ EmailRow(email) \in Rows
        /\ \A row \in UniqueRows : row \notin {UserRow(id), AccountRow(id), invite}
        /\ EmailRow(email) \in UniqueRows /\ EmailRow(email) # key
        /\ key \notin {UserRow(id), AccountRow(id), invite} /\ UserRow(id) # AccountRow(id)
        /\ invite \notin {UserRow(id), AccountRow(id)}
    <3>1. email \in Emails /\ name \in Names
        BY <2>1 DEF IInv, Placed, Applying
    <3>2. key \in Rows /\ EmailRow(email) \in Rows /\ EmailRow(email) \in UniqueRows
        BY <3>1, OtherRowsOf DEF UniqueRows
    <3>3. \A row \in UniqueRows : row \notin {UserRow(id), AccountRow(id), invite}
        BY RowsDiffer, OtherRowsDiffer DEF UniqueRows
    <3>4. /\ EmailRow(email) # key /\ key \notin {UserRow(id), AccountRow(id), invite}
          /\ UserRow(id) # AccountRow(id) /\ invite \notin {UserRow(id), AccountRow(id)}
        BY RowsDiffer, OtherRowsDiffer
    <3> QED BY <3>2, <3>3, <3>4
  <2>3. /\ DOMAIN rows = keys \cup {invite} /\ rows[key] = id
        /\ rows[UserRow(id)] = user /\ rows[AccountRow(id)] = 0
    <3>1. /\ DOMAIN NewUser(t, "user") = {UserRow(id), AccountRow(id)}
          /\ NewUser(t, "user")[UserRow(id)] = user /\ NewUser(t, "user")[AccountRow(id)] = 0
      <4> DEFINE row == UserRow(id)
                 account == AccountRow(id)
      <4>1. NewUser(t, "user") = Only(row, user) ++ Only(account, 0) /\ row # account
          BY <2>2 DEF NewUser
      <4> HIDE DEF row, account, user
      <4>2. /\ DOMAIN (Only(row, user) ++ Only(account, 0)) = {row, account}
            /\ (Only(row, user) ++ Only(account, 0))[row] = user
            /\ (Only(row, user) ++ Only(account, 0))[account] = 0
          BY <4>1 DEF Only, ++
      <4> QED BY <4>1, <4>2 DEF row, account
    <3> DEFINE new == NewUser(t, "user")
    <3> HIDE DEF new, key, invite, used, user, id
    <3>2. DOMAIN Only(key, id) = {key} /\ Only(key, id)[key] = id /\ DOMAIN Only(invite, used) = {invite}
        BY DEF Only
    <3>3. \A row : row \in DOMAIN new => key # row
        BY <2>2, <3>1 DEF new
    <3>4. /\ DOMAIN (Only(key, id) ++ new ++ Only(invite, used)) = {key} \cup DOMAIN new \cup {invite}
          /\ (Only(key, id) ++ new ++ Only(invite, used))[key] = id
          /\ \A row \in DOMAIN new : (Only(key, id) ++ new ++ Only(invite, used))[row] = new[row]
        BY <3>2, <3>3 DEF ++
    <3> QED BY <3>1, <3>4 DEF new
  <2>4. /\ DOMAIN session[t] \subseteq {InviteOf(t), EmailOf(t)} /\ EmailOf(t) \in DOMAIN session[t]
        /\ session[t][EmailOf(t)] = id /\ lock[EmailOf(t)] = t /\ ~Exists(EmailOf(t))
      BY <2>1 DEF WInv, Carries, CarriesNoMore, CarriesEmail
  <2>5. InviteOf(t) = invite /\ EmailOf(t) = EmailRow(email)
      BY <2>1 DEF InviteOf, CodeOf, EmailOf, AskedEmail
  <2> HIDE DEF rows
  <2>6. /\ at'[t] = "house" /\ DOMAIN session'[t] \subseteq keys \cup {invite, EmailRow(email)}
        /\ keys \cup {EmailRow(email)} \subseteq DOMAIN session'[t]
        /\ session'[t][key] = id /\ session'[t][UserRow(id)] = user /\ session'[t][AccountRow(id)] = 0
        /\ session'[t][EmailRow(email)] = id
        /\ lock'[key] = t /\ lock'[EmailRow(email)] = t /\ table' = table
      BY <2>1, <2>2, <2>3, <2>4, <2>5, Proceeded
  <2>7. /\ Holding(t)' /\ InviteOf(t)' = invite /\ EmailOf(t)' = EmailRow(email) /\ NameOf(t)' = key
        /\ UserOf(t)' = UserRow(id) /\ AccountOf(t)' = AccountRow(id)
        /\ AskedEmail(t)' = email /\ AskedName(t)' = name
      BY <2>1, <2>6 DEF Holding, Signing, InviteOf, CodeOf, InviteRow, EmailOf, NameOf, AskedEmail,
         AskedName, UserOf, AccountOf, EmailRow, NameRow, UserRow, AccountRow
  <2>8. table'[key] = NoRow /\ table'[EmailRow(email)] = NoRow
      BY <2>1, <2>4, <2>5, <2>6 DEF Exists
  <2>9. job'[t].user = id /\ job'[t].kind # "admin"
      BY <2>1
  <2> HIDE DEF key, invite, user, id, email, name
  <2>10. CarriesEmail(t)'
      BY <2>6, <2>7, <2>8, <2>9 DEF CarriesEmail, Exists
  <2>11. CarriesUser(t)'
      BY <2>6, <2>7, <2>8, <2>9 DEF CarriesUser, Exists, user
  <2>12. CarriesNoMore(t)'
      BY <2>6, <2>7 DEF CarriesNoMore
  <2>13. Carries(t)' /\ ~Founding(t)'
      BY <2>6, <2>9, <2>10, <2>11, <2>12 DEF Carries, CarriesHouse, AdminsApart, Founding
  <2>14. \A row \in UniqueRows : row \in keys => CanLock(t, row)
      BY <2>1, <2>2
  <2> HIDE DEF keys
  <2> QED BY <2>1, <2>13, <2>14, ProceedWhole
<1> QED BY <1>1, <1>2

LEMMA FoundHouseWhole ==
    ASSUME IInv, TypeOK, WInv, NEW t \in Threads, at[t] = "house", NEW house \in UserIds, Use(t, house),
           NEW balance, balance \in -(Grant * Cardinality(PaidFrom(house)))..0,
           NEW keys \in SUBSET {HouseRow(house)},
           Proceed(t, Only(HouseRow(house), balance), keys, "grant"),
           IF Exists(HouseRow(house)) THEN house # job[t].user ELSE Houses = {} /\ house = job[t].user
    PROVE  WInv'
<1> DEFINE id == job[t].user
           email == job[t].asks.email
           name == job[t].asks.name
           own == HouseRow(house)
           user == [email |-> email, name |-> name, role |-> "user"]
           rows == Only(own, balance)
<1>1. /\ DOMAIN rows = {own} /\ rows[own] = balance
      /\ \A row \in UniqueRows : row # own
      /\ \A c : UserRow(c) # own /\ AccountRow(c) # own /\ InviteRow(c) # own
    BY RowsDiffer, OtherRowsDiffer DEF Only, UniqueRows
<1>2. job[t] \in Applying /\ job[t].kind = "signup" /\ id \in UserIds
    BY DEF IInv, Placed, Applying
<1>3. /\ job' = [job EXCEPT ![t] = [kind |-> "signup", user |-> id, code |-> job[t].asks.code, house |-> house]]
      /\ job'[t] = [kind |-> "signup", user |-> id, code |-> job[t].asks.code, house |-> house]
      /\ \A u \in Threads \ {t} : job'[u] = job[u]
    BY DEF Use, Do, IInv, Typed
<1>4. /\ at'[t] = "grant" /\ DOMAIN session'[t] = {own} \cup DOMAIN session[t]
      /\ session'[t][own] = balance /\ table' = table
      /\ \A row : row \in DOMAIN session[t] /\ row # own => session'[t][row] = session[t][row]
      /\ \A row \in Rows : row # own => lock'[row] = lock[row]
  <2> HIDE DEF rows, own
  <2> QED BY <1>1, Proceeded DEF own, rows
<1>5. /\ Holding(t) /\ EmailOf(t) = EmailRow(email) /\ NameOf(t) = NameRow(name)
      /\ UserOf(t) = UserRow(id) /\ AccountOf(t) = AccountRow(id) /\ InviteOf(t) = InviteRow(job[t].asks.code)
      /\ AskedEmail(t) = email /\ AskedName(t) = name
    BY <1>2 DEF Holding, Signing, EmailOf, NameOf, UserOf, AccountOf, InviteOf, CodeOf, AskedEmail, AskedName
<1>6. /\ EmailRow(email) \in UniqueRows /\ NameRow(name) \in UniqueRows
      /\ EmailRow(email) \in Rows /\ NameRow(name) \in Rows
    BY <1>5, AskedTyped, OtherRowsOf
<1>7. /\ EmailRow(email) \in DOMAIN session[t] /\ session[t][EmailRow(email)] = id
      /\ lock[EmailRow(email)] = t /\ table[EmailRow(email)] = NoRow
      /\ NameRow(name) \in DOMAIN session[t] /\ session[t][NameRow(name)] = id
      /\ lock[NameRow(name)] = t /\ table[NameRow(name)] = NoRow
      /\ AccountRow(id) \in DOMAIN session[t] /\ session[t][AccountRow(id)] = 0
      /\ UserRow(id) \in DOMAIN session[t] /\ session[t][UserRow(id)] = user
      /\ DOMAIN session[t] \subseteq
             {InviteRow(job[t].asks.code), EmailRow(email), NameRow(name), UserRow(id), AccountRow(id)}
    BY <1>5 DEF WInv, Carries, CarriesEmail, CarriesUser, CarriesNoMore, Exists
<1>8. session'[t][UserRow(id)] = user
    BY <1>1, <1>4, <1>7
<1>9. /\ Holding(t)' /\ UserOf(t)' = UserRow(id) /\ AccountOf(t)' = AccountRow(id) /\ HouseOf(t)' = own
      /\ InviteOf(t)' = InviteRow(job[t].asks.code)
    BY <1>3, <1>4
       DEF Holding, Signing, UserOf, AccountOf, InviteOf, CodeOf, HouseOf, UserRow, AccountRow, InviteRow, HouseRow
<1>10. AskedEmail(t)' = email /\ AskedName(t)' = name
  <2>1. AskedEmail(t)' = session'[t][UserOf(t)'].email /\ AskedName(t)' = session'[t][UserOf(t)'].name
      BY <1>4 DEF AskedEmail, AskedName
  <2> QED BY <1>8, <1>9, <2>1
<1>11. EmailOf(t)' = EmailRow(email) /\ NameOf(t)' = NameRow(name)
    BY <1>10 DEF EmailOf, NameOf, EmailRow, NameRow
<1>12. CarriesEmail(t)'
    BY <1>1, <1>3, <1>4, <1>6, <1>7, <1>11 DEF CarriesEmail, Exists
<1>13. CarriesUser(t)'
  <2>1. /\ NameRow(name) \in DOMAIN session'[t] /\ session'[t][NameRow(name)] = id
        /\ lock'[NameRow(name)] = t /\ table'[NameRow(name)] = NoRow
        /\ AccountRow(id) \in DOMAIN session'[t] /\ session'[t][AccountRow(id)] = 0
        /\ UserRow(id) \in DOMAIN session'[t] /\ job'[t].user = id
      BY <1>1, <1>3, <1>4, <1>6, <1>7
  <2> HIDE DEF email, name, id
  <2> QED BY <1>8, <1>9, <1>10, <1>11, <2>1 DEF CarriesUser, Exists
<1>14. CarriesHouse(t)'
  <2>1. PaidFrom(house)' = PaidFrom(house) /\ job'[t].house = house /\ job'[t].user = id
      BY <1>3, <1>4 DEF PaidFrom, Exists, EntriesRow
  <2>2. session'[t][HouseOf(t)'] \in -(Grant * Cardinality(PaidFrom(house)'))..0
      BY <1>4, <1>9, <2>1
  <2>3. (PaidFrom(job[t].house))' = PaidFrom(house)'
      BY <2>1 DEF PaidFrom, Exists, EntriesRow
  <2>4. Founding(t)' \/ table'[own] # NoRow
      BY <1>4, <2>1 DEF Founding, Exists
  <2> HIDE DEF own
  <2> QED BY <1>4, <1>9, <2>2, <2>3, <2>4 DEF CarriesHouse, Exists
<1>15. CarriesNoMore(t)'
  <2> HIDE DEF own, id, email, name
  <2> QED BY <1>4, <1>7, <1>9, <1>11 DEF CarriesNoMore
<1>16. Carries(t)' /\ (Founding(t)' => Houses = {})
  <2>1. AdminsApart(t)'
      BY <1>4 DEF AdminsApart
  <2>2. Founding(t)' => house = id
      BY <1>3 DEF Founding
  <2> QED BY <1>12, <1>13, <1>14, <1>15, <2>1, <2>2 DEF Carries
<1>17. \A row \in UniqueRows : row \in keys => CanLock(t, row)
    BY <1>1
<1> HIDE DEF rows
<1> QED BY <1>3, <1>16, <1>17, ProceedWhole DEF rows

LEMMA FindHouseWhole ==
    ASSUME IInv, TypeOK, WInv, NEW t \in Threads, FindHouse(t)
    PROVE  WInv'
<1> DEFINE id == job[t].user
<1>1. CASE EndRequest(t)
    BY <1>1, EndRequestWhole
<1>2. CASE ~EndRequest(t)
  <2>1. at[t] = "house" /\ id \in UserIds /\ job[t].kind = "signup"
      BY DEF FindHouse, IInv, Placed, Applying
  <2>2. CASE Houses = {} /\ Proceed(t, Only(HouseRow(id), 0), {HouseRow(id)}, "grant") /\ Use(t, id)
    <3>1. ~Exists(HouseRow(id))
        BY <2>1, <2>2 DEF Houses
    <3>2. 0 \in -(Grant * Cardinality(PaidFrom(id)))..0
      <4>1. PICK n \in Nat : n = Cardinality(PaidFrom(id))
          BY PaidFinite
      <4>2. Grant * n \in Nat
          BY GrantAssumption
      <4>3. 0 \in -(Grant * n)..0
          BY <4>2
      <4> QED BY <4>1, <4>3
    <3> HIDE DEF id
    <3> QED BY <2>1, <2>2, <3>1, <3>2, FoundHouseWhole DEF id
  <2>3. ASSUME NEW house \in Houses, Use(t, house),
               Proceed(t, Only(HouseRow(house), table[HouseRow(house)]), {}, "grant")
        PROVE  WInv'
    <3>1. house \in UserIds /\ Exists(HouseRow(house))
        BY DEF Houses
    <3>2. house # id
        BY <2>1, <3>1 DEF WInv, UsersWhole, IInv, Fresh, Signing
    <3> DEFINE balance == table[HouseRow(house)]
    <3>3. balance \in -(Grant * Cardinality(PaidFrom(house)))..-Grant
        BY DEF WInv, HouseWithinLedger, PaidFrom
    <3>4. balance \in -(Grant * Cardinality(PaidFrom(house)))..0
      <4>1. PICK n \in Nat : n = Cardinality(PaidFrom(house))
          BY PaidFinite
      <4>2. Grant * n \in Nat /\ Grant \in Nat /\ balance \in -(Grant * n)..-Grant
          BY <3>3, <4>1, GrantAssumption
      <4> HIDE DEF balance
      <4>3. balance \in -(Grant * n)..0
          BY <4>2
      <4> QED BY <4>1, <4>3
    <3> HIDE DEF balance, id
    <3> QED BY <2>1, <2>3, <3>1, <3>2, <3>4, FoundHouseWhole DEF balance, id
  <2> QED BY <1>2, <2>2, <2>3 DEF FindHouse
<1> QED BY <1>1, <1>2
----------------------------------------------------------------------------
\* What UsersWhole says of a user, in a table.
WholeIn(rows, id) ==
    /\ rows[UserRow(id)] # NoRow <=> \E email \in Emails : rows[EmailRow(email)] = id
    /\ rows[AccountRow(id)] # NoRow <=> rows[UserRow(id)] # NoRow
    /\ rows[EntriesRow(id)] # NoRow <=> rows[UserRow(id)] # NoRow /\ rows[UserRow(id)].role = "user"
    /\ rows[HouseRow(id)] # NoRow => rows[EntriesRow(id)] # NoRow /\ rows[EntriesRow(id)].house = id
    /\ rows[UserRow(id)] # NoRow =>
          /\ rows[EmailRow(rows[UserRow(id)].email)] = id
          /\ rows[NameRow(rows[UserRow(id)].name)] = id
          /\ rows[AccountRow(id)] = IF rows[EntriesRow(id)] # NoRow THEN Grant ELSE 0

LEMMA WholeIsIn ==
    /\ UsersWhole <=> \A id \in UserIds : WholeIn(table, id)
    /\ UsersWhole' <=> \A id \in UserIds : WholeIn(table', id)
<1>1. UsersWhole <=> \A id \in UserIds : WholeIn(table, id)
    BY DEF UsersWhole, WholeIn, Exists
<1>2. UsersWhole' <=> \A id \in UserIds : WholeIn(table', id)
    BY DEF UsersWhole, WholeIn, Exists, UserRow, EmailRow, NameRow, AccountRow, HouseRow, EntriesRow
<1> QED BY <1>1, <1>2

\* The user a commit brings, with its email and its name, is whole.
LEMMA UserAdded ==
    ASSUME TypeOK, UsersWhole, NEW id \in UserIds, NEW email \in Emails, NEW name \in Names,
           NEW role \in {"user", "admin"},
           table[EmailRow(email)] = NoRow, table'[EmailRow(email)] = id,
           table[NameRow(name)] = NoRow, table'[NameRow(name)] = id,
           table'[UserRow(id)] = [email |-> email, name |-> name, role |-> role],
           \A other \in Emails \ {email} : table'[EmailRow(other)] = table[EmailRow(other)],
           \A other \in Names \ {name} : table'[NameRow(other)] = table[NameRow(other)],
           \A other \in UserIds \ {id} :
               /\ table'[UserRow(other)] = table[UserRow(other)]
               /\ table'[AccountRow(other)] = table[AccountRow(other)]
               /\ table'[EntriesRow(other)] = table[EntriesRow(other)]
               /\ table'[HouseRow(other)] # NoRow => table[HouseRow(other)] # NoRow,
           table'[AccountRow(id)] = (IF role = "user" THEN Grant ELSE 0),
           table'[EntriesRow(id)] # NoRow <=> role = "user",
           table'[HouseRow(id)] # NoRow => role = "user" /\ table'[EntriesRow(id)].house = id
    PROVE  UsersWhole'
<1> DEFINE user == [email |-> email, name |-> name, role |-> role]
<1>1. /\ user # NoRow /\ NoRow \notin UserIds /\ NoRow \notin Int /\ Grant \in Int
      /\ user.email = email /\ user.name = name /\ user.role = role
    BY NoRowAssumption, GrantAssumption
<1> HIDE DEF user
<1>2. table'[UserRow(id)] = user
    BY DEF user
<1>3. WholeIn(table', id)
  <2>1. /\ table'[UserRow(id)].email = email /\ table'[UserRow(id)].name = name
        /\ table'[UserRow(id)].role = role /\ table'[UserRow(id)] # NoRow
      BY <1>1, <1>2
  <2>2. table'[AccountRow(id)] # NoRow
      BY <1>1
  <2>3. table'[AccountRow(id)] = IF table'[EntriesRow(id)] # NoRow THEN Grant ELSE 0
      OBVIOUS
  <2> QED BY <2>1, <2>2, <2>3 DEF WholeIn
<1>4. ASSUME NEW x \in UserIds \ {id} PROVE WholeIn(table', x)
  <2>1. WholeIn(table, x)
      BY WholeIsIn
  <2>2. table[UserRow(x)] # NoRow => table[UserRow(x)].email \in Emails /\ table[UserRow(x)].name \in Names
    <3>1. table[UserRow(x)] # NoRow => table[UserRow(x)] \in [email : Emails, name : Names, role : {"user", "admin"}]
        BY RowsOf, RowTypes DEF TypeOK
    <3> QED BY <3>1
  <2>3. \A e \in Emails : table[EmailRow(e)] = x <=> table'[EmailRow(e)] = x
      BY <1>1
  <2>4. \A n \in Names : table[NameRow(n)] = x <=> table'[NameRow(n)] = x
      BY <1>1
  <2>5. (\E e \in Emails : table[EmailRow(e)] = x) <=> (\E e \in Emails : table'[EmailRow(e)] = x)
      BY <2>3
  <2>6. /\ table'[UserRow(x)] = table[UserRow(x)] /\ table'[AccountRow(x)] = table[AccountRow(x)]
        /\ table'[EntriesRow(x)] = table[EntriesRow(x)]
        /\ table'[HouseRow(x)] # NoRow => table[HouseRow(x)] # NoRow
      OBVIOUS
  <2>7. table[UserRow(x)] # NoRow => /\ table'[EmailRow(table[UserRow(x)].email)] = x
                                     /\ table'[NameRow(table[UserRow(x)].name)] = x
      BY <2>1, <2>2, <2>3, <2>4 DEF WholeIn
  <2> QED BY <2>1, <2>5, <2>6, <2>7 DEF WholeIn
<1>5. \A x \in UserIds : WholeIn(table', x)
    BY <1>3, <1>4
<1> QED BY <1>5, WholeIsIn

\* No grant is posted.
LEMMA LedgerStays ==
    ASSUME WInv, \A id \in UserIds : /\ table'[HouseRow(id)] = table[HouseRow(id)]
                                     /\ table'[EntriesRow(id)] = table[EntriesRow(id)]
    PROVE  HouseWithinLedger' /\ Houses' = Houses /\ \A id : PaidFrom(id)' = PaidFrom(id)
<1>1. \A id : PaidFrom(id)' = PaidFrom(id)
    BY DEF PaidFrom, Exists, EntriesRow
<1>2. Houses' = Houses
    BY DEF Houses, Exists, HouseRow
<1>3. \A house \in Houses : /\ house \in UserIds
                            /\ table[HouseRow(house)] \in -(Grant * Cardinality(PaidFrom(house)))..-Grant
    BY DEF WInv, HouseWithinLedger, PaidFrom, Houses
<1>4. \A house \in Houses' : table'[HouseRow(house)] \in -(Grant * Cardinality(PaidFrom(house)'))..-Grant
    BY <1>1, <1>2, <1>3
<1>5. HouseWithinLedger'
    BY <1>4 DEF HouseWithinLedger, PaidFrom, Exists, HouseRow, EntriesRow
<1> QED BY <1>1, <1>2, <1>5

LEMMA HousesFinite ==
    /\ IsFiniteSet(Houses) /\ IsFiniteSet(Founders) /\ IsFiniteSet(Threads)
    /\ Cardinality(Houses) \in Nat /\ Cardinality(Founders) \in Nat /\ Cardinality(Threads) \in Nat
<1>1. IsFiniteSet(Houses) /\ IsFiniteSet(Founders)
    BY UserIdsAssumption, ThreadsAssumption, FS_Subset DEF Houses, Founders
<1> QED BY <1>1, ThreadsAssumption, FS_CardinalityType

LEMMA NoneFounded ==
    ASSUME WInv, Houses' = Houses, Founders' \subseteq Founders
    PROVE  Cardinality(Houses') + Cardinality(Founders') <= Cardinality(Threads)
<1>1. Cardinality(Founders') <= Cardinality(Founders) /\ Cardinality(Founders') \in Nat
    BY HousesFinite, FS_Subset, FS_CardinalityType
<1> QED BY <1>1, HousesFinite DEF WInv

\* What a commit writes of the rows the others rely on.
LEMMA CommitCarry ==
    ASSUME IInv, TypeOK, WInv, NEW t \in Threads, NEW rows, Commit(t, rows),
           NEW u \in Threads, u # t, at'[u] = at[u], job'[u] = job[u],
           \A row \in UniqueRows : row \in DOMAIN rows => CanLock(t, row),
           \A id \in UserIds : /\ HouseRow(id) \in DOMAIN rows => rows[HouseRow(id)] # NoRow
                               /\ EntriesRow(id) \in DOMAIN rows => ~Exists(EntriesRow(id))
    PROVE  Carries(u)' /\ Founding(u)' = Founding(u)
<1>1. session'[u] = session[u]
    BY Committed DEF IInv, Typed
<1>2. \A row \in UniqueRows : row \in Rows
    BY OtherRowsOf DEF UniqueRows
<1>3. \A row \in UniqueRows : lock[row] = u => lock'[row] = u /\ table'[row] = table[row]
    BY <1>2, NoThreadAssumption, Committed DEF CanLock
<1>4. ASSUME NEW id \in UserIds
      PROVE  /\ Exists(HouseRow(id)) => table'[HouseRow(id)] # NoRow
             /\ Exists(EntriesRow(id)) => table'[EntriesRow(id)] = table[EntriesRow(id)]
  <2>1. HouseRow(id) \in DOMAIN session[t] => session[t][HouseRow(id)] # NoRow
    <3>1. HouseRow(id) \in DOMAIN session[t] => session[t][HouseRow(id)] \in Int
        BY RowTypes DEF TypeOK
    <3> QED BY <3>1, NoRowAssumption
  <2>2. EntriesRow(id) \notin DOMAIN session[t]
      BY DEF IInv, Clean
  <2> QED BY <2>1, <2>2, RowsOf, OtherRowsOf, Committed DEF Exists
<1>5. \A id \in UserIds : PaidFrom(id) \subseteq PaidFrom(id)'
    BY <1>4 DEF PaidFrom, Exists, EntriesRow
<1> QED BY <1>1, <1>3, <1>4, <1>5, OthersCarry

LEMMA CreateInviteWhole ==
    ASSUME IInv, TypeOK, WInv, NEW t \in Threads, CreateInvite(t)
    PROVE  WInv'
<1>1. CASE EndRequest(t)
    BY <1>1, EndRequestWhole
<1>2. ASSUME NEW code \in Codes, NEW max \in MaxUses[code], at[t] = "code",
             Commit(t, Only(InviteRow(code), [max |-> max, uses |-> 0])),
             Go(t, "idle"), Do(t, NoJob), UNCHANGED <<requested, tokens>>
      PROVE  WInv'
  <2> DEFINE rows == Only(InviteRow(code), [max |-> max, uses |-> 0])
  <2>1. DOMAIN rows = {InviteRow(code)} /\ Commit(t, rows)
      BY <1>2 DEF Only
  <2> HIDE DEF rows
  <2>2. DOMAIN session[t] = {}
      BY <1>2 DEF WInv, Carries, CarriesNoMore, Holding, Signing
  <2>3. \A row \in Rows : row # InviteRow(code) => table'[row] = table[row]
      BY <2>1, <2>2, Committed
  <2>4. /\ \A c : /\ UserRow(c) # InviteRow(code) /\ EmailRow(c) # InviteRow(code)
                  /\ NameRow(c) # InviteRow(code) /\ AccountRow(c) # InviteRow(code)
                  /\ HouseRow(c) # InviteRow(code) /\ EntriesRow(c) # InviteRow(code)
        /\ \A row \in UniqueRows : row # InviteRow(code)
      BY RowsDiffer DEF UniqueRows
  <2>5. /\ \A id \in UserIds : /\ table'[UserRow(id)] = table[UserRow(id)]
                               /\ table'[AccountRow(id)] = table[AccountRow(id)]
                               /\ table'[HouseRow(id)] = table[HouseRow(id)]
                               /\ table'[EntriesRow(id)] = table[EntriesRow(id)]
        /\ \A e \in Emails : table'[EmailRow(e)] = table[EmailRow(e)]
        /\ \A n \in Names : table'[NameRow(n)] = table[NameRow(n)]
      BY <2>3, <2>4, RowsOf, OtherRowsOf
  <2>6. UsersWhole'
    <3>1. \A id \in UserIds : table[UserRow(id)] # NoRow =>
              table[UserRow(id)].email \in Emails /\ table[UserRow(id)].name \in Names
      <4>1. \A id \in UserIds : table[UserRow(id)] # NoRow =>
                table[UserRow(id)] \in [email : Emails, name : Names, role : {"user", "admin"}]
          BY RowsOf, RowTypes DEF TypeOK
      <4> QED BY <4>1
    <3>2. ASSUME NEW id \in UserIds PROVE WholeIn(table', id)
      <4>1. WholeIn(table, id)
          BY WholeIsIn DEF WInv
      <4> QED BY <2>5, <3>1, <4>1 DEF WholeIn
    <3> QED BY <3>2, WholeIsIn
  <2>7. at'[t] = "idle" /\ \A u \in Threads \ {t} : at'[u] = at[u] /\ job'[u] = job[u]
      BY <1>2 DEF Go, Do, IInv, Typed
  <2>8. \A u \in Threads \ {t} : Carries(u)' /\ Founding(u)' = Founding(u)
      BY <2>1, <2>4, <2>7, CommitCarry
  <2>9. Carries(t)' /\ ~Founding(t)'
    <3>1. session'[t] = <<>>
        BY <2>1, Committed
    <3>2. DOMAIN session'[t] = {}
        BY <3>1
    <3> QED BY <2>7, <3>2, NothingCarried DEF AdminsApart
  <2>10. Founders' \subseteq Founders
      BY <2>8, <2>9 DEF Founders
  <2>11. HouseWithinLedger' /\ Houses' = Houses
      BY <2>5, LedgerStays
  <2>12. Cardinality(Houses') + Cardinality(Founders') <= Cardinality(Threads)
      BY <2>10, <2>11, NoneFounded
  <2> QED BY <1>2, <2>6, <2>8, <2>9, <2>11, <2>12 DEF WInv
<1> QED BY <1>1, <1>2 DEF CreateInvite

LEMMA InsertAdminWhole ==
    ASSUME IInv, TypeOK, WInv, NEW t \in Threads, InsertAdmin(t)
    PROVE  WInv'
<1> DEFINE id == job[t].user
           email == job[t].asks.email
           name == job[t].asks.name
           key == NameRow(name)
           user == [email |-> email, name |-> name, role |-> "admin"]
           rows == Only(key, id) ++ NewUser(t, "admin")
<1>1. CASE EndRequest(t)
    BY <1>1, EndRequestWhole
<1>2. CASE ~EndRequest(t)
  <2>1. /\ at[t] = "name" /\ job[t].kind = "admin" /\ CanLock(t, key) /\ ~Exists(key) /\ Commit(t, rows)
        /\ at' = [at EXCEPT ![t] = "code"] /\ UNCHANGED <<job, requested, tokens>>
      BY <1>2 DEF InsertAdmin, CommitAndGo, Go
  <2>2. /\ id \in UserIds /\ id \in AdminIds /\ email \in Emails /\ name \in Names
        /\ id \notin requested
      BY <2>1 DEF IInv, Placed, Applying, WInv, Carries, AdminsApart
  <2>3. /\ DOMAIN rows = {key, UserRow(id), AccountRow(id)} /\ rows[key] = id
        /\ rows[UserRow(id)] = user /\ rows[AccountRow(id)] = 0
    <3> DEFINE row == UserRow(id)
               account == AccountRow(id)
    <3>1. NewUser(t, "admin") = Only(row, user) ++ Only(account, 0) /\ row # account /\ key \notin {row, account}
        BY RowsDiffer, OtherRowsDiffer DEF NewUser
    <3> HIDE DEF row, account, user, key
    <3>2. /\ DOMAIN (Only(row, user) ++ Only(account, 0)) = {row, account}
          /\ (Only(row, user) ++ Only(account, 0))[row] = user
          /\ (Only(row, user) ++ Only(account, 0))[account] = 0
        BY <3>1 DEF Only, ++
    <3> DEFINE new == Only(row, user) ++ Only(account, 0)
    <3> HIDE DEF new
    <3>3. /\ DOMAIN (Only(key, id) ++ new) = {key, row, account}
          /\ (Only(key, id) ++ new)[key] = id /\ (Only(key, id) ++ new)[row] = user
          /\ (Only(key, id) ++ new)[account] = 0
        BY <3>1, <3>2 DEF Only, ++, new
    <3> QED BY <3>1, <3>3 DEF row, account, new
  <2>4. /\ DOMAIN session[t] \subseteq {EmailRow(email)} /\ EmailRow(email) \in DOMAIN session[t]
        /\ session[t][EmailRow(email)] = id /\ lock[EmailRow(email)] = t /\ table[EmailRow(email)] = NoRow
      BY <2>1 DEF WInv, Carries, CarriesNoMore, CarriesEmail, EmailOf, AskedEmail, Holding, Signing, Exists
  <2> HIDE DEF rows
  <2>5. \A row \in Rows : table'[row] = IF row \in {key, UserRow(id), AccountRow(id)} THEN rows[row]
                                        ELSE IF row = EmailRow(email) THEN id ELSE table[row]
      BY <2>1, <2>3, <2>4, Committed
  <2>6. /\ table'[EmailRow(email)] = id /\ table'[key] = id /\ table[key] = NoRow
        /\ table'[UserRow(id)] = user /\ table'[AccountRow(id)] = 0
        /\ \A other \in Emails \ {email} : table'[EmailRow(other)] = table[EmailRow(other)]
        /\ \A other \in Names \ {name} : table'[NameRow(other)] = table[NameRow(other)]
        /\ \A other \in UserIds \ {id} : /\ table'[UserRow(other)] = table[UserRow(other)]
                                         /\ table'[AccountRow(other)] = table[AccountRow(other)]
        /\ \A other \in UserIds : /\ table'[EntriesRow(other)] = table[EntriesRow(other)]
                                  /\ table'[HouseRow(other)] = table[HouseRow(other)]
    <3>1. /\ \A c : EmailRow(c) \notin {key, UserRow(id), AccountRow(id)} /\ NameRow(c) # EmailRow(email)
          /\ \A c : NameRow(c) \notin {UserRow(id), AccountRow(id), EmailRow(email)}
          /\ \A c : UserRow(c) \notin {key, AccountRow(id), EmailRow(email)}
          /\ \A c : AccountRow(c) \notin {key, UserRow(id), EmailRow(email)}
          /\ \A c : EntriesRow(c) \notin {key, UserRow(id), AccountRow(id), EmailRow(email)}
          /\ \A c : HouseRow(c) \notin {key, UserRow(id), AccountRow(id), EmailRow(email)}
        BY RowsDiffer, OtherRowsDiffer
    <3>2. /\ table'[EmailRow(email)] = id /\ table'[key] = id /\ table[key] = NoRow
          /\ table'[UserRow(id)] = user /\ table'[AccountRow(id)] = 0
        BY <2>1, <2>2, <2>3, <2>5, <3>1, RowsOf, OtherRowsOf DEF Exists
    <3>3. /\ \A other \in Emails \ {email} : EmailRow(other) # EmailRow(email)
          /\ \A other \in Names \ {name} : NameRow(other) # key
          /\ \A other \in UserIds \ {id} : UserRow(other) # UserRow(id) /\ AccountRow(other) # AccountRow(id)
        BY RowsDiffer, OtherRowsDiffer
    <3> HIDE DEF key
    <3>4. /\ \A other \in Emails \ {email} : table'[EmailRow(other)] = table[EmailRow(other)]
          /\ \A other \in Names \ {name} : table'[NameRow(other)] = table[NameRow(other)]
        BY <2>5, <3>1, <3>3, OtherRowsOf
    <3>5. \A other \in UserIds \ {id} : /\ table'[UserRow(other)] = table[UserRow(other)]
                                        /\ table'[AccountRow(other)] = table[AccountRow(other)]
        BY <2>5, <3>1, <3>3, RowsOf, OtherRowsOf
    <3>6. \A other \in UserIds : /\ table'[EntriesRow(other)] = table[EntriesRow(other)]
                                 /\ table'[HouseRow(other)] = table[HouseRow(other)]
        BY <2>5, <3>1, RowsOf, OtherRowsOf
    <3> QED BY <3>2, <3>4, <3>5, <3>6
  <2>7. UsersWhole'
    <3>1. table[EntriesRow(id)] = NoRow
        BY <2>2 DEF IInv, Typed, Exists
    <3>2. table[HouseRow(id)] = NoRow
        BY <2>2, <3>1 DEF WInv, UsersWhole, Exists
    <3>3. table[EmailRow(email)] = NoRow /\ UsersWhole
        BY <2>4 DEF WInv
    <3> HIDE DEF email, name, id, user
    <3> QED BY <2>2, <2>6, <3>1, <3>2, <3>3, UserAdded DEF user, key
  <2>8. at'[t] = "code" /\ \A u \in Threads \ {t} : at'[u] = at[u] /\ job'[u] = job[u]
      BY <2>1 DEF IInv, Typed
  <2>9. ASSUME NEW u \in Threads \ {t} PROVE Carries(u)' /\ Founding(u)' = Founding(u)
    <3>1. \A row \in UniqueRows : row \in DOMAIN rows => CanLock(t, row)
        BY <2>1, <2>3, RowsDiffer, OtherRowsDiffer DEF UniqueRows
    <3>2. \A c : HouseRow(c) \notin DOMAIN rows /\ EntriesRow(c) \notin DOMAIN rows
        BY <2>3, RowsDiffer, OtherRowsDiffer
    <3> QED BY <2>1, <2>8, <3>1, <3>2, CommitCarry
  <2>10. Carries(t)' /\ ~Founding(t)'
    <3>1. session'[t] = <<>>
        BY <2>1, Committed
    <3>2. DOMAIN session'[t] = {}
        BY <3>1
    <3> QED BY <2>8, <3>2, NothingCarried DEF AdminsApart
  <2>11. Founders' \subseteq Founders
      BY <2>9, <2>10 DEF Founders
  <2>12. HouseWithinLedger' /\ Houses' = Houses
      BY <2>6, LedgerStays
  <2>13. Cardinality(Houses') + Cardinality(Founders') <= Cardinality(Threads)
      BY <2>11, <2>12, NoneFounded
  <2> QED BY <2>1, <2>7, <2>9, <2>10, <2>12, <2>13 DEF WInv
<1> QED BY <1>1, <1>2

LEMMA PostGrantWhole ==
    ASSUME IInv, TypeOK, WInv, NEW t \in Threads, PostGrant(t)
    PROVE  WInv'
<1>0. PICK id \in UserIds, h \in UserIds : id = job[t].user /\ h = job[t].house
    BY DEF PostGrant, IInv, Placed
<1> DEFINE house == HouseRow(h)
           account == AccountRow(id)
           entries == [house |-> h, code |-> job[t].code]
           owed == Row(t, house) - Grant
           paid == Row(t, account) + Grant
           rows == Only(house, owed) ++ Only(account, paid) ++ Only(EntriesRow(id), entries)
           email == AskedEmail(t)
           name == AskedName(t)
           user == [email |-> email, name |-> name, role |-> "user"]
           invite == InviteOf(t)
<1>1. /\ at[t] = "grant" /\ CanLock(t, house) /\ Commit(t, rows) /\ at' = [at EXCEPT ![t] = "answer"]
      /\ UNCHANGED <<job, requested, tokens>>
    BY <1>0 DEF PostGrant, CommitAndGo, Go
<1>2. /\ id \in UserIds /\ h \in UserIds /\ job[t].code \in Codes /\ job[t].kind = "signup"
      /\ email \in Emails /\ name \in Names /\ Holding(t)
      /\ entries # NoRow /\ entries.house = h
    BY <1>0, <1>1, AskedTyped, NoRowAssumption DEF IInv, Placed, Holding, Signing
<1>3. /\ EmailRow(email) \in DOMAIN session[t] /\ session[t][EmailRow(email)] = id
      /\ lock[EmailRow(email)] = t /\ table[EmailRow(email)] = NoRow
      /\ NameRow(name) \in DOMAIN session[t] /\ session[t][NameRow(name)] = id
      /\ lock[NameRow(name)] = t /\ table[NameRow(name)] = NoRow
      /\ account \in DOMAIN session[t] /\ session[t][account] = 0
      /\ UserRow(id) \in DOMAIN session[t] /\ session[t][UserRow(id)] = user /\ lock[UserRow(id)] = t
      /\ house \in DOMAIN session[t]
      /\ session[t][house] \in -(Grant * Cardinality(PaidFrom(h)))..0
      /\ h = id \/ table[house] # NoRow
      /\ DOMAIN session[t] \subseteq
             {invite, EmailRow(email), NameRow(name), UserRow(id), account, house}
  <2>1. CarriesEmail(t) /\ CarriesUser(t) /\ CarriesHouse(t) /\ CarriesNoMore(t)
      BY DEF WInv, Carries
  <2>2. Using(t)
      BY <1>1, <1>2 DEF Using
  <2>3. Inserted(t)
      BY DEF IInv
  <2> QED BY <1>0, <1>1, <1>2, <2>1, <2>2, <2>3 DEF CarriesEmail, CarriesUser, CarriesHouse, CarriesNoMore,
             EmailOf, NameOf, UserOf, AccountOf, HouseOf, Founding, Exists, Inserted
<1>4. table[EntriesRow(id)] = NoRow /\ table[HouseRow(id)] = NoRow
  <2>1. table[EntriesRow(id)] = NoRow
      BY <1>0, <1>1, <1>2 DEF IInv, Fresh, Signing, Exists
  <2> QED BY <1>2, <2>1 DEF WInv, UsersWhole, Exists
<1>5. PICK n \in Nat : n = Cardinality(PaidFrom(h))
    BY PaidFinite
<1>6. /\ owed \in -(Grant * (n + 1))..-Grant /\ owed \in Int /\ owed # NoRow /\ paid = Grant
  <2> DEFINE balance == session[t][house]
             low == Grant * n
  <2>1. low \in Nat /\ Grant * (n + 1) = low + Grant /\ Grant \in Nat
      BY LowerBound, GrantAssumption
  <2>2. balance \in -low..0 /\ owed = balance - Grant /\ paid = 0 + Grant
      BY <1>3, <1>5 DEF Row, Loaded
  <2> HIDE DEF balance, low, owed, paid
  <2>3. owed \in -(low + Grant)..-Grant /\ owed \in Int /\ paid = Grant
      BY <2>1, <2>2
  <2> QED BY <2>1, <2>3, NoRowAssumption
<1>7. /\ DOMAIN rows = {house, account, EntriesRow(id)} /\ rows[house] = owed /\ rows[account] = paid
      /\ rows[EntriesRow(id)] = entries
  <2> DEFINE book == EntriesRow(id)
  <2>1. house # account /\ book \notin {house, account}
      BY RowsDiffer, OtherRowsDiffer
  <2> HIDE DEF house, account, book, entries, owed, paid
  <2>2. /\ DOMAIN (Only(house, owed) ++ Only(account, paid)) = {house, account}
        /\ (Only(house, owed) ++ Only(account, paid))[house] = owed
        /\ (Only(house, owed) ++ Only(account, paid))[account] = paid
      BY <2>1 DEF Only, ++
  <2> DEFINE both == Only(house, owed) ++ Only(account, paid)
  <2>3. DOMAIN both = {house, account} /\ both[house] = owed /\ both[account] = paid
      BY <2>2
  <2> HIDE DEF both
  <2>4. /\ DOMAIN (both ++ Only(book, entries)) = {house, account, book}
        /\ (both ++ Only(book, entries))[house] = owed /\ (both ++ Only(book, entries))[account] = paid
        /\ (both ++ Only(book, entries))[book] = entries
      BY <2>1, <2>3 DEF Only, ++
  <2> QED BY <2>4 DEF both, book
<1> DEFINE last == {house, account, EntriesRow(id)}
           kept == {EmailRow(email), NameRow(name), UserRow(id)}
<1>8. /\ \A c : /\ EmailRow(c) \notin last \cup {invite} /\ NameRow(c) \notin last \cup {invite}
                /\ UserRow(c) \notin last \cup {invite}
                /\ AccountRow(c) \notin kept \cup {invite, house, EntriesRow(id)}
                /\ HouseRow(c) \notin kept \cup {invite, account, EntriesRow(id)}
                /\ EntriesRow(c) \notin kept \cup {invite, house, account}
                /\ EmailRow(c) \notin {NameRow(name), UserRow(id)}
                /\ NameRow(c) \notin {EmailRow(email), UserRow(id)}
                /\ UserRow(c) \notin {EmailRow(email), NameRow(name)}
      /\ \A c \in Emails \ {email} : EmailRow(c) # EmailRow(email)
      /\ \A c \in Names \ {name} : NameRow(c) # NameRow(name)
      /\ \A c \in UserIds \ {id} : /\ UserRow(c) # UserRow(id) /\ AccountRow(c) # account
                                   /\ EntriesRow(c) # EntriesRow(id)
      /\ \A c \in UserIds \ {h} : HouseRow(c) # house
    BY RowsDiffer, OtherRowsDiffer DEF InviteOf
<1> HIDE DEF rows, invite
<1>9. \A row \in Rows :
          table'[row] = IF row \in last THEN rows[row]
                        ELSE IF row \in DOMAIN session[t] /\ lock[row] = t
                        THEN session[t][row] ELSE table[row]
    BY <1>1, <1>7, Committed
<1>10. table'[house] = owed /\ table'[account] = Grant /\ table'[EntriesRow(id)] = entries
    BY <1>2, <1>6, <1>7, <1>9, RowsOf, OtherRowsOf
<1>11. /\ table'[EmailRow(email)] = id /\ table'[NameRow(name)] = id /\ table'[UserRow(id)] = user
    BY <1>2, <1>3, <1>8, <1>9, RowsOf, OtherRowsOf
<1> DEFINE brought == kept \cup {invite, account, house}
<1>12. \A row \in Rows : row \notin last \cup brought => table'[row] = table[row]
    BY <1>3, <1>9
<1>13. /\ \A other \in Emails \ {email} : EmailRow(other) \notin last \cup brought
       /\ \A other \in Names \ {name} : NameRow(other) \notin last \cup brought
       /\ \A other \in UserIds \ {id} : /\ UserRow(other) \notin last \cup brought
                                        /\ AccountRow(other) \notin last \cup brought
                                        /\ EntriesRow(other) \notin last \cup brought
       /\ \A other \in UserIds \ {h} : HouseRow(other) \notin last \cup brought
    BY <1>8
<1> HIDE DEF last, brought, kept
<1>14. /\ \A other \in Emails \ {email} : table'[EmailRow(other)] = table[EmailRow(other)]
       /\ \A other \in Names \ {name} : table'[NameRow(other)] = table[NameRow(other)]
       /\ \A other \in UserIds \ {id} : /\ table'[UserRow(other)] = table[UserRow(other)]
                                        /\ table'[AccountRow(other)] = table[AccountRow(other)]
                                        /\ table'[EntriesRow(other)] = table[EntriesRow(other)]
       /\ \A other \in UserIds \ {h} : table'[HouseRow(other)] = table[HouseRow(other)]
  <2>1. \A other \in Emails \ {email} : table'[EmailRow(other)] = table[EmailRow(other)]
      BY <1>12, <1>13, OtherRowsOf
  <2>2. \A other \in Names \ {name} : table'[NameRow(other)] = table[NameRow(other)]
      BY <1>12, <1>13, OtherRowsOf
  <2>3. \A other \in UserIds \ {id} : /\ table'[UserRow(other)] = table[UserRow(other)]
                                      /\ table'[AccountRow(other)] = table[AccountRow(other)]
                                      /\ table'[EntriesRow(other)] = table[EntriesRow(other)]
      BY <1>12, <1>13, RowsOf, OtherRowsOf
  <2>4. \A other \in UserIds \ {h} : table'[HouseRow(other)] = table[HouseRow(other)]
      BY <1>12, <1>13, OtherRowsOf
  <2> QED BY <2>1, <2>2, <2>3, <2>4
<1>15. UsersWhole'
  <2>1. UsersWhole /\ table[EmailRow(email)] = NoRow /\ table[NameRow(name)] = NoRow
      BY <1>3 DEF WInv
  <2>2. \A other \in UserIds \ {id} : table'[HouseRow(other)] # NoRow => table[HouseRow(other)] # NoRow
      BY <1>3, <1>14
  <2>3. table'[HouseRow(id)] # NoRow => table'[EntriesRow(id)].house = id
      BY <1>2, <1>4, <1>10, <1>14
  <2> HIDE DEF email, name, entries, owed
  <2>4. table'[EntriesRow(id)] # NoRow
      BY <1>2, <1>10
  <2>5. table'[AccountRow(id)] = Grant
      BY <1>10
  <2> HIDE DEF account, house
  <2> QED BY <1>2, <1>11, <1>14, <2>1, <2>2, <2>3, <2>4, <2>5, UserAdded DEF user
<1>16. /\ PaidFrom(h)' = PaidFrom(h) \cup {id} /\ id \notin PaidFrom(h)
       /\ \A x \in UserIds \ {h} : PaidFrom(x)' = PaidFrom(x)
  <2>1. \A x : /\ PaidFrom(x) = {y \in UserIds : table[EntriesRow(y)] # NoRow /\ table[EntriesRow(y)].house = x}
               /\ PaidFrom(x)' = {y \in UserIds : table'[EntriesRow(y)] # NoRow /\ table'[EntriesRow(y)].house = x}
      BY DEF PaidFrom, Exists, EntriesRow
  <2> HIDE DEF entries
  <2>2. id \notin PaidFrom(h)
      BY <1>4, <2>1
  <2>3. ASSUME NEW x, NEW y \in UserIds
        PROVE  y \in PaidFrom(x)' <=> y \in PaidFrom(x) \/ (y = id /\ x = h)
      BY <1>2, <1>4, <1>10, <1>14, <2>1
  <2>4. \A x : PaidFrom(x) \subseteq UserIds /\ PaidFrom(x)' \subseteq UserIds
      BY <2>1
  <2>5. PaidFrom(h)' = PaidFrom(h) \cup {id}
      BY <2>3, <2>4
  <2>6. ASSUME NEW x \in UserIds \ {h} PROVE PaidFrom(x)' = PaidFrom(x)
      BY <2>3, <2>4
  <2> QED BY <2>2, <2>5, <2>6
<1>17. HouseWithinLedger'
  <2>1. Cardinality(PaidFrom(h)') = n + 1
      BY <1>5, <1>16, PaidFinite, FS_AddElement
  <2>2. ASSUME NEW x \in UserIds, table'[HouseRow(x)] # NoRow
        PROVE  table'[HouseRow(x)] \in -(Grant * Cardinality(PaidFrom(x)'))..-Grant
    <3>1. CASE x = h
      <4> HIDE DEF owed
      <4> QED BY <1>6, <1>10, <2>1, <3>1
    <3>2. CASE x # h
      <4>1. x \in Houses
          BY <1>14, <2>2, <3>2 DEF Houses, Exists
      <4>2. table[HouseRow(x)] \in -(Grant * Cardinality(PaidFrom(x)))..-Grant
          BY <4>1 DEF WInv, HouseWithinLedger, PaidFrom
      <4> QED BY <1>14, <1>16, <3>2, <4>2
    <3> QED BY <3>1, <3>2
  <2> QED BY <2>2 DEF HouseWithinLedger, PaidFrom, Houses, Exists, HouseRow, EntriesRow
<1>18. at'[t] = "answer" /\ \A u \in Threads \ {t} : at'[u] = at[u] /\ job'[u] = job[u]
    BY <1>1 DEF IInv, Typed
<1>19. ASSUME NEW u \in Threads \ {t} PROVE Carries(u)' /\ Founding(u)' = Founding(u)
  <2>1. \A row \in UniqueRows : row \notin DOMAIN rows
      BY <1>7, RowsDiffer, OtherRowsDiffer DEF UniqueRows
  <2>2. \A c \in UserIds : /\ HouseRow(c) \in DOMAIN rows => rows[HouseRow(c)] # NoRow
                           /\ EntriesRow(c) \in DOMAIN rows => ~Exists(EntriesRow(c))
    <3>1. \A c : /\ HouseRow(c) \in DOMAIN rows => HouseRow(c) = house
                 /\ EntriesRow(c) \in DOMAIN rows => EntriesRow(c) = EntriesRow(id)
        BY <1>7, RowsDiffer, OtherRowsDiffer
    <3> QED BY <1>4, <1>6, <1>7, <3>1 DEF Exists
  <2>3. \A row \in UniqueRows : row \in DOMAIN rows => CanLock(t, row)
      BY <2>1
  <2>4. u \in Threads /\ u # t /\ at'[u] = at[u] /\ job'[u] = job[u] /\ Commit(t, rows)
      BY <1>1, <1>18
  <2> QED BY <2>2, <2>3, <2>4, CommitCarry
<1>20. Carries(t)' /\ ~Founding(t)'
  <2>1. session'[t] = <<>>
      BY <1>1, Committed
  <2>2. DOMAIN session'[t] = {}
      BY <2>1
  <2> QED BY <1>18, <2>2, NothingCarried DEF AdminsApart
<1>21. Cardinality(Houses') + Cardinality(Founders') <= Cardinality(Threads)
  <2>1. Founders' = Founders \ {t}
      BY <1>19, <1>20 DEF Founders
  <2>2. /\ Houses = {x \in UserIds : table[HouseRow(x)] # NoRow}
        /\ Houses' = {x \in UserIds : table'[HouseRow(x)] # NoRow}
      BY DEF Houses, Exists, HouseRow
  <2>3. Houses' \subseteq Houses \cup {h}
      BY <1>14, <2>2
  <2>4. CASE h = id
    <3>1. t \in Founders
        BY <1>0, <1>1, <2>4 DEF Founders, Founding
    <3>2. Cardinality(Founders') = Cardinality(Founders) - 1
        BY <2>1, <3>1, HousesFinite, FS_RemoveElement
    <3>3. /\ IsFiniteSet(Houses \cup {h})
          /\ Cardinality(Houses \cup {h}) \in {Cardinality(Houses), Cardinality(Houses) + 1}
        BY HousesFinite, FS_AddElement
    <3>4. /\ Cardinality(Houses') <= Cardinality(Houses \cup {h}) /\ Cardinality(Houses') \in Nat
          /\ Cardinality(Houses \cup {h}) \in Nat
        BY <2>3, <3>3, FS_Subset, FS_CardinalityType
    <3> QED BY <3>2, <3>3, <3>4, HousesFinite DEF WInv
  <2>5. CASE h # id
    <3>1. Houses' = Houses
        BY <1>3, <1>6, <1>10, <1>14, <2>2, <2>3, <2>5
    <3> QED BY <2>1, <3>1, NoneFounded
  <2> QED BY <2>4, <2>5
<1> QED BY <1>1, <1>15, <1>17, <1>19, <1>20, <1>21 DEF WInv
----------------------------------------------------------------------------
LEMMA AnswerWhole ==
    ASSUME IInv, TypeOK, WInv, NEW t \in Threads, Answer(t)
    PROVE  WInv'
<1>1. /\ at[t] = "answer" /\ at' = [at EXCEPT ![t] = "idle"] /\ job' = [job EXCEPT ![t] = NoJob]
      /\ UNCHANGED <<table, session, lock, requested>>
    BY DEF Answer, Go, Do, dbVars
<1>2. at'[t] = "idle" /\ \A u \in Threads \ {t} : at'[u] = at[u] /\ job'[u] = job[u]
    BY <1>1 DEF IInv, Typed
<1>3. DOMAIN session'[t] = {}
    BY <1>1 DEF WInv, Carries, CarriesNoMore, Holding, Signing
<1>4. Carries(t)' /\ ~Founding(t)'
    BY <1>2, <1>3, NothingCarried DEF AdminsApart
<1> QED BY <1>1, <1>2, <1>4, NothingWhole DEF WInv

LEMMA BeginWhole ==
    ASSUME IInv, TypeOK, WInv, NEW t \in Threads, NEW step \in {"invite", "email", "code", "check"},
           NEW work, BeginRequest(t, step, work), requested' \cap AdminIds = {},
           step = "email" /\ work.kind = "admin" => work.user \in AdminIds
    PROVE  WInv'
<1>1. /\ at[t] = "idle" /\ at' = [at EXCEPT ![t] = step] /\ job' = [job EXCEPT ![t] = work]
      /\ UNCHANGED <<table, session, lock>>
    BY DEF BeginRequest, Go, Do, dbVars
<1>2. /\ at'[t] = step /\ job'[t] = work
      /\ \A u \in Threads \ {t} : at'[u] = at[u] /\ job'[u] = job[u]
    BY <1>1 DEF IInv, Typed
<1>3. DOMAIN session'[t] = {}
    BY <1>1 DEF WInv, Carries, CarriesNoMore, Holding, Signing
<1>4. AdminsApart(t)'
    BY <1>2 DEF AdminsApart
<1>5. Carries(t)' /\ ~Founding(t)'
    BY <1>2, <1>3, <1>4, NothingCarried
<1> QED BY <1>1, <1>2, <1>5, NothingWhole

LEMMA NobodyWhole ==
    ASSUME IInv, TypeOK, WInv, UNCHANGED <<dbVars, at, job, requested>>
    PROVE  WInv'
<1>1. UNCHANGED <<table, session, lock, at, job, requested>>
    BY DEF dbVars
<1>2. \A u \in Threads : Carries(u)' /\ Founding(u)' = Founding(u)
  <2>1. \A id : PaidFrom(id)' = PaidFrom(id)
      BY <1>1 DEF PaidFrom, Exists, EntriesRow
  <2> QED BY <1>1, <2>1, OthersCarry DEF Exists
<1>3. HouseWithinLedger' /\ Houses' = Houses
    BY <1>1, LedgerStays
<1>4. UsersWhole'
    BY <1>1, WholeIsIn DEF WInv
<1>5. Founders' = Founders
    BY <1>2 DEF Founders
<1> QED BY <1>1, <1>2, <1>3, <1>4, <1>5 DEF WInv

LEMMA RestartWhole ==
    ASSUME IInv, TypeOK, WInv, Restart
    PROVE  WInv'
<1>1. /\ at' = [t \in Threads |-> "idle"] /\ session' = [t \in Threads |-> <<>>]
      /\ UNCHANGED <<table, requested>>
    BY DEF Restart
<1>2. ASSUME NEW t \in Threads PROVE Carries(t)' /\ ~Founding(t)'
  <2>1. session'[t] = <<>> /\ at'[t] = "idle"
      BY <1>1
  <2>2. DOMAIN session'[t] = {}
      BY <2>1
  <2> QED BY <2>1, <2>2, NothingCarried DEF AdminsApart
<1>3. HouseWithinLedger' /\ Houses' = Houses
    BY <1>1, LedgerStays
<1>4. UsersWhole'
    BY <1>1, WholeIsIn DEF WInv
<1>5. Founders' \subseteq Founders
    BY <1>2 DEF Founders
<1>6. Cardinality(Houses') + Cardinality(Founders') <= Cardinality(Threads)
    BY <1>3, <1>5, NoneFounded
<1> QED BY <1>1, <1>2, <1>3, <1>4, <1>6 DEF WInv

LEMMA EveryStepTyped == IInv /\ TypeOK /\ WInv /\ [Next]_vars => TypeOK'
<1> SUFFICES ASSUME IInv, TypeOK, WInv, [Next]_vars PROVE TypeOK'
    OBVIOUS
<1>1. ASSUME NEW t \in Threads, Step(t) PROVE TypeOK'
    BY <1>1, SignupTypes, PostGrantTypes, AnswerTypes, CreateInviteTypes, InsertAdminTypes, EndRequestTypes
       DEF Step, CheckInvite
<1>2. ASSUME NEW t \in Threads, Begin(t) PROVE TypeOK'
  <2>1. ASSUME NEW id \in UserIds, NEW application \in Applications[id],
               BeginSignup(t, id, application) \/ BeginAdmin(t, id, application)
        PROVE  TypeOK'
    <3>1. application \in [email : Emails, name : Names, code : Codes]
        BY ApplicationsAssumption
    <3>2. PICK kind \in {"signup", "admin"}, step \in {"invite", "email", "code"} :
              /\ BeginRequest(t, step, [kind |-> kind, user |-> id, asks |-> application])
              /\ requested' \subseteq UserIds
        BY <2>1 DEF BeginSignup, BeginAdmin, TypeOK
    <3> DEFINE work == [kind |-> kind, user |-> id, asks |-> application]
    <3>3. work \in Applying
        BY <3>1 DEF Applying
    <3> HIDE DEF work
    <3> QED BY <3>2, <3>3, BeginTypes DEF work
  <2>2. ASSUME BeginInvite(t) PROVE TypeOK'
      BY <2>2, BeginTypes DEF BeginInvite, TypeOK
  <2>3. ASSUME NEW code \in Codes, BeginCheck(t, code) PROVE TypeOK'
      BY <2>3, BeginTypes DEF BeginCheck, TypeOK
  <2> QED BY <1>2, <2>1, <2>2, <2>3 DEF Begin
<1>3. ASSUME NEW code \in Codes, Expire(code) PROVE TypeOK'
    BY <1>3, NobodyTypes DEF Expire, TypeOK
<1>4. ASSUME NEW id \in UserIds, Login(id) PROVE TypeOK'
    BY <1>4, NobodyTypes DEF Login, TypeOK
<1>5. CASE UNCHANGED vars
    BY <1>5, NobodyTypes DEF vars, TypeOK
<1> QED BY <1>1, <1>2, <1>3, <1>4, <1>5, RestartTypes DEF Next

LEMMA EveryStepWhole == IInv /\ TypeOK /\ WInv /\ [Next]_vars => WInv'
<1> SUFFICES ASSUME IInv, TypeOK, WInv, [Next]_vars PROVE WInv'
    OBVIOUS
<1>1. ASSUME NEW t \in Threads, Step(t) PROVE WInv'
    BY <1>1, LockInviteWhole, CheckExistingWhole, InsertEmailWhole, InsertUserWhole, FindHouseWhole,
       PostGrantWhole, AnswerWhole, CreateInviteWhole, InsertAdminWhole, EndRequestWhole
       DEF Step, CheckInvite
<1>2. ASSUME NEW t \in Threads, Begin(t) PROVE WInv'
  <2>1. ASSUME NEW id \in UserIds, NEW application \in Applications[id], BeginSignup(t, id, application)
        PROVE  WInv'
      BY <2>1, BeginWhole DEF BeginSignup, WInv
  <2>2. ASSUME NEW id \in UserIds, NEW application \in Applications[id], BeginAdmin(t, id, application)
        PROVE  WInv'
      BY <2>2, BeginWhole DEF BeginAdmin, WInv
  <2>3. ASSUME BeginInvite(t) PROVE WInv'
      BY <2>3, BeginWhole DEF BeginInvite, WInv
  <2>4. ASSUME NEW code \in Codes, BeginCheck(t, code) PROVE WInv'
      BY <2>4, BeginWhole DEF BeginCheck, WInv
  <2> QED BY <1>2, <2>1, <2>2, <2>3, <2>4 DEF Begin
<1>3. ASSUME NEW code \in Codes, Expire(code) PROVE WInv'
    BY <1>3, NobodyWhole DEF Expire
<1>4. ASSUME NEW id \in UserIds, Login(id) PROVE WInv'
    BY <1>4, NobodyWhole DEF Login
<1>5. CASE UNCHANGED vars
    BY <1>5, NobodyWhole DEF vars
<1> QED BY <1>1, <1>2, <1>3, <1>4, <1>5, RestartWhole DEF Next

LEMMA AlwaysWhole == Spec => [](IInv /\ TypeOK /\ WInv)
<1>1. IInv /\ TypeOK /\ WInv /\ [Next]_vars => (IInv /\ TypeOK /\ WInv)'
    BY EveryStep, EveryStepTyped, EveryStepWhole
<1> QED BY <1>1, Initially, TypesInitially, WholeInitially, PTL DEF Spec

\* Every row of the accounts' tables and every request keeps its type.
THEOREM TypeCorrect == Spec => []TypeOK
<1> QED BY AlwaysWhole, PTL

\* A user is committed with its email, its name, its account and its grant, or not
\* at all, whatever other signups commit between its steps (signup, create_admin).
THEOREM WholeUsers == Spec => []UsersWhole
<1>1. WInv => UsersWhole
    BY DEF WInv
<1> QED BY <1>1, AlwaysWhole, PTL

\* There are never more house accounts than threads that sign users up
\* (get_house_account).
THEOREM BoundedHouses == Spec => []HousesBounded
<1>1. WInv => HousesBounded
    BY HousesFinite DEF WInv, HousesBounded
<1> QED BY <1>1, AlwaysWhole, PTL

\* No house account owes more than the ledger shows, or less than a grant
\* (post_entry_group).
THEOREM HouseInLedger == Spec => []HouseWithinLedger
<1>1. WInv => HouseWithinLedger
    BY DEF WInv
<1> QED BY <1>1, AlwaysWhole, PTL
=============================================================================
