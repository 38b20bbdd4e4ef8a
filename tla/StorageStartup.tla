--------------------------- MODULE StorageStartup ---------------------------
(***************************************************************************)
(* How a process gets its store (storage_factory.py): the connection, the  *)
(* migrations under an advisory lock (database_migrations.py,              *)
(* schema_bootstrap.py), the import of the JSON store (data_store.py), and *)
(* the refusal or the emergency JSON store when one of them raises.        *)
(*                                                                         *)
(* One action is one statement other processes can come between.  The      *)
(* migrations of a process are one transaction; the lock belongs to its    *)
(* session, is released before that transaction commits, and stays with    *)
(* the session when the transaction was aborted.                           *)
(***************************************************************************)
EXTENDS Integers, FiniteSets

CONSTANTS
    Replicas,           \* processes of the web service
    Nobody,             \* no holder of the lock
    Latest,             \* LATEST_SCHEMA_VERSION of the newest release
    FallbackAllowed     \* DATABASE_FALLBACK_ALLOWED

ASSUME StartupAssumption ==
    Latest \in Nat \ {0} /\ FallbackAllowed \in BOOLEAN
ASSUME NobodyAssumption == Nobody \notin Replicas

VARIABLES
    db,         \* what is committed: ledger, tables, the marker of the import
    lock,       \* the session that has the migration lock
    starts,     \* per replica, its release and how far create_runtime_store is
    files,      \* replicas whose JSON store holds data
    down,       \* the database cannot be reached
    troubles    \* crashes, failed statements, timeouts and outages left: a bound of
                \* the exploration, not of the code

startupVars == <<db, lock, starts, files, down, troubles>>

-----------------------------------------------------------------------------

Versions == 1..Latest

\* Table 0 is what the constructor of the store creates; table v comes with
\* migration v.
Expected(n) == 0..n

Start == [pc : {"down", "waiting", "reading", "migrating", "unlocking", "committing",
                "importing", "marking", "failed", "rejected", "postgres", "json", "refused"},
          release : Versions, seen : SUBSET Versions, mine : SUBSET Versions,
          lost : BOOLEAN]   \* observer: its migrations are gone, and it takes them for made
At(r, pc) == r \in DOMAIN starts /\ starts[r].pc = pc
Goto(r, pc) == starts' = [starts EXCEPT ![r].pc = pc]
\* The transaction is rolled back.
Abort(r, pc) == starts' = [starts EXCEPT ![r].pc = pc, ![r].mine = {}]
Trouble == troubles > 0 /\ troubles' = troubles - 1

Highest(versions) == CHOOSE v \in versions : \A u \in versions : u <= v

\* fleet: the replicas of the deployment; budget: its troubles.
StartupInit(fleet, budget) ==
    /\ db = [ledger |-> {}, tables |-> {}, marker |-> FALSE]
    /\ lock = Nobody
    /\ starts = [r \in fleet |-> [pc |-> "down", release |-> 1, seen |-> {}, mine |-> {},
                                  lost |-> FALSE]]
    /\ files = {}
    /\ down = FALSE
    /\ troubles = budget

\* PostgresDataStore(): the pool, and the core tables, outside the lock.
Connect(r) ==
    /\ At(r, "down")
    /\ IF down
       THEN Goto(r, "failed") /\ UNCHANGED db
       ELSE /\ starts' = [starts EXCEPT ![r].pc = "waiting", ![r].lost = FALSE]
            /\ db' = [db EXCEPT !.tables = @ \cup Expected(0)]
    /\ UNCHANGED <<lock, files, down, troubles>>

Acquire(r) ==
    /\ At(r, "waiting") /\ lock = Nobody
    /\ lock' = r
    /\ Goto(r, "reading")
    /\ UNCHANGED <<db, files, down, troubles>>

\* migration_lock_timeout: the holder took longer than the time allowed.
TimeOut(r) ==
    /\ At(r, "waiting") /\ lock # Nobody
    /\ Trouble
    /\ Goto(r, "rejected")
    /\ UNCHANGED <<db, lock, files, down>>

\* database_schema_ahead
Ahead(versions, n) == \E v \in versions : v > n

\* A rejection is raised by the program, in a transaction that still works: the
\* lock is released.
ReadLedger(r) ==
    /\ At(r, "reading")
    /\ IF Ahead(db.ledger, starts[r].release)
       THEN Abort(r, "rejected") /\ lock' = Nobody
       ELSE /\ starts' = [starts EXCEPT ![r].pc = "migrating", ![r].seen = db.ledger]
            /\ UNCHANGED lock
    /\ UNCHANGED <<db, files, down, troubles>>

Missing(r) == (1..starts[r].release) \ (starts[r].seen \cup starts[r].mine)
NextVersion(r) == CHOOSE v \in Missing(r) : \A u \in Missing(r) : v <= u

\* Version 1 bootstraps every component of the release over other connections,
\* which commit at once; later versions stay in the transaction.
Bootstrapped(r, v) == IF v = 1 THEN db.tables \cup Expected(starts[r].release) ELSE db.tables

\* The row of the ledger waits for a transaction that has one with the same key.
Migrate(r) ==
    /\ At(r, "migrating") /\ Missing(r) # {}
    /\ LET v == NextVersion(r) IN
       /\ v \notin db.ledger
       /\ \A q \in DOMAIN starts \ {r} : v \notin starts[q].mine
       /\ db' = [db EXCEPT !.tables = Bootstrapped(r, v)]
       /\ starts' = [starts EXCEPT ![r].mine = @ \cup {v}]
    /\ UNCHANGED <<lock, files, down, troubles>>

\* ... and violates the key if that transaction committed (on a new database the
\* creation of the ledger does): this transaction is aborted, and the unlock in it
\* fails.
Collide(r) ==
    /\ At(r, "migrating") /\ Missing(r) # {} /\ NextVersion(r) \in db.ledger
    /\ Abort(r, "failed")
    /\ UNCHANGED <<db, lock, files, down, troubles>>

\* validate_schema_contract()
Valid(r) == Expected(starts[r].release) \subseteq db.tables \cup starts[r].mine

Validate(r) ==
    /\ At(r, "migrating") /\ Missing(r) = {}
    /\ IF Valid(r)
       THEN Goto(r, "unlocking") /\ UNCHANGED lock
       ELSE Abort(r, "rejected") /\ lock' = Nobody
    /\ UNCHANGED <<db, files, down, troubles>>

Unlock(r) ==
    /\ At(r, "unlocking")
    /\ lock' = Nobody
    /\ Goto(r, "committing")
    /\ UNCHANGED <<db, files, down, troubles>>

\* A failed unlock is swallowed.  It has aborted the transaction, whose commit then
\* rolls back without an error, and the start goes on as if it had migrated.  The
\* session lives on in the pool with the lock, or is gone with it.
UnlockFails(r) ==
    /\ At(r, "unlocking")
    /\ Trouble
    /\ starts' = [starts EXCEPT ![r].pc = "importing", ![r].mine = {},
                                ![r].lost = starts[r].mine # {}]
    /\ lock' \in {r, Nobody}
    /\ UNCHANGED <<db, files, down>>

\* The pool ends a session when it is an hour old.
Recycle(r) ==
    /\ At(r, "postgres") /\ lock = r
    /\ lock' = Nobody
    /\ UNCHANGED <<db, starts, files, down, troubles>>

\* Mutant: the row of the ledger is not inserted.
Committed_NoRow(r) == [db EXCEPT !.tables = @ \cup starts[r].mine]
Committed(r) ==
    [db EXCEPT !.ledger = @ \cup starts[r].mine, !.tables = @ \cup starts[r].mine]
Commit(r) ==
    /\ At(r, "committing")
    /\ db' = Committed(r)
    /\ Abort(r, "importing")
    /\ UNCHANGED <<lock, files, down, troubles>>

\* migrate_json(): without a file, or once the marker is there, nothing.
ImportJson(r) ==
    /\ At(r, "importing")
    /\ Goto(r, IF r \in files /\ ~db.marker THEN "marking" ELSE "postgres")
    /\ UNCHANGED <<db, lock, files, down, troubles>>
\* The marker goes in last; a marker that came meanwhile violates its key.
Mark(r) ==
    /\ At(r, "marking")
    /\ IF db.marker
       THEN Goto(r, "failed") /\ UNCHANGED db
       ELSE Goto(r, "postgres") /\ db' = [db EXCEPT !.marker = TRUE]
    /\ UNCHANGED <<lock, files, down, troubles>>

\* _close_postgres(): the session ends, and its lock with it.
Closed(r) == IF lock = r THEN Nobody ELSE lock

\* SchemaMigrationError: the startup is refused.
Refuse(r) ==
    /\ At(r, "rejected")
    /\ lock' = Closed(r)
    /\ Goto(r, "refused")
    /\ UNCHANGED <<db, files, down, troubles>>
\* Anything else: the JSON store if it is allowed.
FallBack(r) ==
    /\ At(r, "failed")
    /\ lock' = Closed(r)
    /\ Goto(r, IF FallbackAllowed THEN "json" ELSE "refused")
    /\ UNCHANGED <<db, files, down, troubles>>

\* A statement raises, or the commit does, done or not.
Fault(r) ==
    /\ \E pc \in {"waiting", "reading", "migrating", "committing", "importing", "marking"} : At(r, pc)
    /\ Trouble
    /\ \/ UNCHANGED db
       \/ At(r, "committing") /\ db' = Committed(r)
       \/ At(r, "marking") /\ ~db.marker /\ db' = [db EXCEPT !.marker = TRUE]
    /\ Abort(r, "failed")
    /\ UNCHANGED <<lock, files, down>>

Crash(r) ==
    /\ r \in DOMAIN starts /\ ~At(r, "down") /\ ~At(r, "refused")
    /\ Trouble
    /\ Abort(r, "down")
    /\ lock' = Closed(r)
    /\ UNCHANGED <<db, files, down>>

\* The platform starts the process again, a failed one by itself, the same or a
\* newer release; a replacement has no file.
Restart(r) ==
    /\ At(r, "refused")
    /\ Goto(r, "down")
    /\ UNCHANGED <<db, lock, files, down, troubles>>
Deploy(r) ==
    /\ \E pc \in {"postgres", "json", "refused"} : At(r, pc)
    /\ starts[r].release < Latest
    /\ \E n \in (starts[r].release + 1)..Latest :
        starts' = [starts EXCEPT ![r].pc = "down", ![r].release = n]
    /\ files' \in {files, files \ {r}}
    /\ lock' = Closed(r)
    /\ UNCHANGED <<db, down, troubles>>

\* A user's message is stored by a process that fell back.
Serve(r) ==
    /\ At(r, "json") /\ r \notin files
    /\ files' = files \cup {r}
    /\ UNCHANGED <<db, lock, starts, down, troubles>>

Outage ==
    /\ ~down /\ Trouble
    /\ down' = TRUE
    /\ UNCHANGED <<db, lock, starts, files>>
Recovery ==
    /\ down
    /\ down' = FALSE
    /\ UNCHANGED <<db, lock, starts, files, troubles>>

StartStep(r) ==
    \/ Connect(r) \/ Acquire(r) \/ TimeOut(r) \/ ReadLedger(r) \/ Migrate(r) \/ Collide(r)
    \/ Validate(r) \/ Unlock(r) \/ Commit(r) \/ ImportJson(r) \/ Mark(r)
    \/ Refuse(r) \/ FallBack(r) \/ Restart(r) \/ Recycle(r)

StartupNext ==
    \/ \E r \in Replicas :
        StartStep(r) \/ UnlockFails(r) \/ Fault(r) \/ Crash(r) \/ Deploy(r) \/ Serve(r)
    \/ Outage \/ Recovery

\* A process that starts goes on, the platform restarts the refused, an outage ends,
\* and the pool of one that serves replaces its sessions.
StartupFairness ==
    /\ \A r \in Replicas : SF_startupVars(StartStep(r))
    /\ WF_startupVars(Recovery)

-----------------------------------------------------------------------------
(* Properties *)

StartupTypeOK ==
    /\ db \in [ledger : SUBSET Versions, tables : SUBSET (0..Latest), marker : BOOLEAN]
    /\ lock \in Replicas \cup {Nobody}
    /\ \A r \in DOMAIN starts : r \in Replicas /\ starts[r] \in Start
    /\ files \subseteq Replicas
    /\ down \in BOOLEAN
    /\ troubles \in Nat

\* A process that serves from PostgreSQL finds every table of its release, whatever
\* raced, crashed or was rolled back before, unless its own migrations were rolled
\* back by an unlock that failed and was swallowed.
ServesItsSchema ==
    \A r \in DOMAIN starts :
        At(r, "postgres") /\ ~starts[r].lost =>
            Expected(starts[r].release) \subseteq db.tables /\ 1..starts[r].release \subseteq db.ledger

\* Every process gets a store in the end, unless the database is ahead of its
\* release: a lock nobody gives back, or a loser that loses again, would stop it.
Serving(r) ==
    \/ At(r, "postgres") \/ At(r, "json")
    \/ r \in DOMAIN starts /\ Ahead(db.ledger, starts[r].release)

=============================================================================
