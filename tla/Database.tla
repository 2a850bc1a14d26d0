------------------------------ MODULE Database ------------------------------
(***************************************************************************)
(* Postgres under READ COMMITTED as the services use it through SQLAlchemy *)
(* sessions (db/session.py), one transaction per request.  External code:  *)
(* what is here is what the services rely on.                              *)
(*                                                                         *)
(* A session remembers every row it has loaded and does not read it again: *)
(* a later SELECT ... FOR UPDATE takes the row's lock and keeps the values *)
(* loaded before.  What a session changes is seen by others when it        *)
(* commits; until then it holds the locks of the rows it writes.  A row    *)
(* inserted and not committed is invisible to others, who wait only when   *)
(* they insert the same key.                                               *)
(***************************************************************************)
EXTENDS Integers

CONSTANTS Threads,     \* the threads requests run in
          NoThread,    \* a lock nobody holds
          NoRow        \* no row with this key

ASSUME NoThreadAssumption == NoThread \notin Threads

VARIABLES table,       \* key -> the committed row, NoRow if none
          session,     \* thread -> the rows it has loaded or inserted
          lock,        \* key -> the thread holding the row FOR UPDATE
          share        \* key -> the threads holding it FOR KEY SHARE

dbVars == <<table, session, lock, share>>

\* One row, and the rows of both, as functions from keys to rows; the first wins.
Only(key, value) == [row \in {key} |-> value]

rows ++ others ==
    [row \in DOMAIN rows \cup DOMAIN others |-> IF row \in DOMAIN rows THEN rows[row] ELSE others[row]]

InitDatabase(rows) ==
    /\ table = rows
    /\ session = [t \in Threads |-> <<>>]
    /\ lock = [row \in DOMAIN rows |-> NoThread]
    /\ share = [row \in DOMAIN rows |-> {}]

Loaded(t, row) == row \in DOMAIN session[t]

\* A row as this session has it.
Row(t, row) == IF Loaded(t, row) THEN session[t][row] ELSE table[row]

\* FOR UPDATE excludes the other holders of either lock.
CanLock(t, row) == lock[row] \in {t, NoThread} /\ share[row] \subseteq {t}

\* A foreign key takes FOR KEY SHARE on the row it refers to.
CanShare(t, row) == lock[row] \in {t, NoThread}

Holders(t, row) == ({lock[row]} \ {t, NoThread}) \cup (share[row] \ {t})

\* The session loads or changes these rows (a function from keys to rows).
Load(t, rows) == session' = [session EXCEPT ![t] = rows ++ @]

Lock(t, rows) ==
    lock' = [row \in DOMAIN lock |-> IF row \in rows THEN t ELSE lock[row]]

\* The end of a transaction: every lock is released, every row forgotten.
Release(t) ==
    /\ lock' = [row \in DOMAIN lock |-> IF lock[row] = t THEN NoThread ELSE lock[row]]
    /\ share' = [row \in DOMAIN share |-> share[row] \ {t}]
    /\ session' = [session EXCEPT ![t] = <<>>]

\* Commit with these last changes; only locked rows have been written.
Commit(t, rows) ==
    LET final == rows ++ session[t]
    IN  /\ table' = [row \in DOMAIN table |->
                        IF row \in DOMAIN final /\ (lock[row] = t \/ row \in DOMAIN rows)
                        THEN final[row] ELSE table[row]]
        /\ Release(t)

Rollback(t) == Release(t) /\ UNCHANGED table
============================================================================
