----------------------------- MODULE AuthStores -----------------------------
(***************************************************************************)
(* The persistent credential stores: the SQLite file with its migrations   *)
(* (smiths-sip auth/sqlite_store.rs), which also keeps call records and    *)
(* key/value rows, and the webhook store with its circuit breaker          *)
(* (auth/http_store.rs).                                                   *)
(*                                                                         *)
(* Several connections may open one file: [auth.sqlite] and                *)
(* [storage.sqlite] usually name the same path, and an administrator's     *)
(* tool a third time.  SQLite itself is external: a transaction works on a *)
(* private copy, holds the file's only write lock, and becomes the file on *)
(* commit; a crash loses it.  A hash is represented by its password.       *)
(***************************************************************************)
EXTENDS Integers, FiniteSets

CONSTANTS
    Openers,    \* connections
    Accounts,   \* (realm, username) pairs
    Passwords,  \* their passwords
    Rows,       \* keys of the cdr and kv tables
    MaxWrites,  \* bound: statements
    MaxCrashes, \* bound: crashes
    Lookers,    \* lookups of the webhook store under way
    Retries, Threshold, Cooldown

ASSUME AuthStoresAssumption ==
    /\ {MaxWrites, MaxCrashes, Retries} \subseteq Nat
    /\ {Threshold, Cooldown} \subseteq Nat \ {0} /\ "none" \notin Passwords
    /\ "nobody" \notin Openers

VARIABLES
    disk,     \* the file: version, tables and rows
    txn,      \* the open write transaction
    conn,     \* each connection
    known,    \* the password each account was last provisioned with
    stored,   \* the rows last written
    writes, crashes

sqliteVars == <<disk, txn, conn, known, stored, writes, crashes>>

CurrentSchema == 3
Absent == [password |-> "none", ha1_md5 |-> "none", ha1_sha256 |-> "none"]
NoTxn == [by |-> "nobody"]
Unopened == [phase |-> "closed"]

(* The tables each version's migration adds: v3 turns the password column  *)
(* of `users` into the two hashes.                                         *)
TablesOf(v) == {t \in {1, 2, 3} : t <= v}

SqliteInit ==
    /\ disk = [version |-> 0, tables |-> {}, users |-> [a \in Accounts |-> Absent],
               rows |-> [r \in Rows |-> 0]]
    /\ txn = NoTxn /\ conn = [o \in Openers |-> Unopened]
    /\ known = [a \in Accounts |-> "none"] /\ stored = [r \in Rows |-> 0]
    /\ writes = 0 /\ crashes = 0

(* The file an earlier, or a newer, engine left. *)
FindFile(v, a, p) ==
    /\ disk.version = 0 /\ writes = 0 /\ crashes = 0
    /\ \A o \in Openers : conn[o].phase = "closed"
    /\ disk' = [disk EXCEPT !.version = v, !.tables = TablesOf(v),
                            !.users[a] = IF v <= 2 THEN [Absent EXCEPT !.password = p]
                                         ELSE [password |-> "none", ha1_md5 |-> p, ha1_sha256 |-> p]]
    /\ known' = [known EXCEPT ![a] = p]
    /\ writes' = 1
    /\ UNCHANGED <<txn, conn, stored, crashes>>

-----------------------------------------------------------------------------
(* open and the start of MigrationRunner::run; SchemaTooNew is refused. *)
Open(o) ==
    /\ conn[o].phase = "closed" /\ disk.version <= CurrentSchema
    /\ conn' = [conn EXCEPT ![o] = [phase |-> "migrating", done |-> disk.version]]
    /\ UNCHANGED <<disk, txn, known, stored, writes, crashes>>

Hashed(users) ==
    [a \in Accounts |-> [password |-> "none", ha1_md5 |-> users[a].password,
                         ha1_sha256 |-> users[a].password]]

(* apply_migration. *)
Migrated(target, d) ==
    [d EXCEPT !.tables = @ \cup {target},
              !.users = IF target = 3 THEN Hashed(@) ELSE @]

BeginMigrationMut(o) ==
    LET target == conn[o].done + 1
    IN  /\ conn[o].phase = "migrating" /\ target <= CurrentSchema /\ txn = NoTxn
        /\ target \notin disk.tables
        /\ disk' = Migrated(target, disk)
        /\ txn' = [by |-> o, copy |-> disk']
        /\ UNCHANGED <<conn, known, stored, writes, crashes>>

(* One migration in one transaction.  The version was read before the lock *)
(* was taken: a step another connection has run meanwhile fails on its own *)
(* tables, and the connection is not opened.                               *)
BeginMigration(o) ==
    LET target == conn[o].done + 1
    IN  /\ conn[o].phase = "migrating" /\ target <= CurrentSchema /\ txn = NoTxn
        /\ IF target \in disk.tables
           THEN conn' = [conn EXCEPT ![o] = Unopened] /\ UNCHANGED txn
           ELSE txn' = [by |-> o, copy |-> Migrated(target, disk)] /\ UNCHANGED conn
        /\ UNCHANGED <<disk, known, stored, writes, crashes>>

(* Another connection holds the write lock past the busy timeout. *)
Busy(o) ==
    /\ conn[o].phase = "migrating" /\ conn[o].done < CurrentSchema
    /\ txn.by \notin {"nobody", o}
    /\ conn' = [conn EXCEPT ![o] = Unopened]
    /\ UNCHANGED <<disk, txn, known, stored, writes, crashes>>

(* The version is written in the same transaction, then it commits. *)
CommitMigration(o) ==
    /\ txn.by = o /\ conn[o].phase = "migrating"
    /\ disk' = [txn.copy EXCEPT !.version = conn[o].done + 1]
    /\ conn' = [conn EXCEPT ![o].done = @ + 1]
    /\ txn' = NoTxn
    /\ UNCHANGED <<known, stored, writes, crashes>>

Opened(o) ==
    /\ conn[o].phase = "migrating" /\ conn[o].done = CurrentSchema
    /\ conn' = [conn EXCEPT ![o].phase = "open"]
    /\ UNCHANGED <<disk, txn, known, stored, writes, crashes>>

Writing(o) == conn[o].phase = "open" /\ txn = NoTxn /\ writes < MaxWrites

(* upsert_user and upsert_user_ha1: both hashes, in one transaction. *)
UpsertUser(o, a, p) ==
    /\ Writing(o)
    /\ disk' = [disk EXCEPT !.users[a] = [password |-> "none", ha1_md5 |-> p, ha1_sha256 |-> p]]
    /\ known' = [known EXCEPT ![a] = p]
    /\ writes' = writes + 1
    /\ UNCHANGED <<txn, conn, stored, crashes>>

DeleteUser(o, a) ==
    /\ Writing(o)
    /\ disk' = [disk EXCEPT !.users[a] = Absent]
    /\ known' = [known EXCEPT ![a] = "none"]
    /\ writes' = writes + 1
    /\ UNCHANGED <<txn, conn, stored, crashes>>

(* CdrStore::record and KvStore::put upsert; delete and truncate remove. *)
PutRow(o, r) ==
    /\ Writing(o)
    /\ disk' = [disk EXCEPT !.rows[r] = writes + 1]
    /\ stored' = [stored EXCEPT ![r] = writes + 1]
    /\ writes' = writes + 1
    /\ UNCHANGED <<txn, conn, known, crashes>>

RemoveRows(o, rs) ==
    /\ Writing(o)
    /\ disk' = [disk EXCEPT !.rows = [r \in Rows |-> IF r \in rs THEN 0 ELSE @[r]]]
    /\ stored' = [r \in Rows |-> IF r \in rs THEN 0 ELSE stored[r]]
    /\ writes' = writes + 1
    /\ UNCHANGED <<txn, conn, known, crashes>>

(* The process dies; the journal undoes the open transaction. *)
CrashStore ==
    /\ crashes < MaxCrashes
    /\ txn' = NoTxn /\ conn' = [o \in Openers |-> Unopened]
    /\ crashes' = crashes + 1
    /\ UNCHANGED <<disk, known, stored, writes>>

SqliteNext ==
    \/ CrashStore
    \/ \E v \in 1 .. CurrentSchema + 1, a \in Accounts, p \in Passwords : FindFile(v, a, p)
    \/ \E o \in Openers :
         \/ Open(o) \/ BeginMigration(o) \/ Busy(o) \/ CommitMigration(o) \/ Opened(o)
         \/ \E a \in Accounts, p \in Passwords : UpsertUser(o, a, p)
         \/ \E a \in Accounts : DeleteUser(o, a)
         \/ \E r \in Rows : PutRow(o, r) \/ RemoveRows(o, {r}) \/ RemoveRows(o, Rows)

(* lookup_for: the hash of the algorithm the challenge named. *)
LookupFor(a, algorithm) ==
    IF algorithm = "MD5" THEN disk.users[a].ha1_md5 ELSE disk.users[a].ha1_sha256

-----------------------------------------------------------------------------
VARIABLES
    failures,  \* consecutive_failures, up to the threshold
    tripped,   \* 0 closed, else one more than the seconds since it tripped
    looker,    \* each lookup
    healthy    \* whether the webhook answers

breakerVars == <<failures, tripped, looker, healthy>>

BreakerInit ==
    /\ failures = 0 /\ tripped = 0 /\ healthy = TRUE
    /\ looker = [l \in Lookers |-> [step |-> "idle", attempt |-> 0]]

(* gate: closed, or cooled down; an open breaker answers None in both modes. *)
Gate(l) ==
    /\ looker[l].step = "idle" /\ (tripped = 0 \/ tripped > Cooldown)
    /\ looker' = [looker EXCEPT ![l] = [step |-> "post", attempt |-> 0]]
    /\ UNCHANGED <<failures, tripped, healthy>>

(* post: an accept or a deny, or an error that is retried. *)
PostAnswers(l) ==
    /\ looker[l].step = "post" /\ healthy
    /\ looker' = [looker EXCEPT ![l].step = "succeeded"]
    /\ UNCHANGED <<failures, tripped, healthy>>

PostFails(l) ==
    /\ looker[l].step = "post" /\ ~healthy
    /\ looker' = [looker EXCEPT ![l] = IF @.attempt < Retries THEN [@ EXCEPT !.attempt = @ + 1]
                                       ELSE [@ EXCEPT !.step = "failed"]]
    /\ UNCHANGED <<failures, tripped, healthy>>

(* record_success: two stores. *)
ResetFailures(l) ==
    /\ looker[l].step = "succeeded"
    /\ failures' = 0
    /\ looker' = [looker EXCEPT ![l].step = "closing"]
    /\ UNCHANGED <<tripped, healthy>>

CloseBreakerMut(l) ==
    /\ looker[l].step = "closing"
    /\ looker' = [looker EXCEPT ![l].step = "idle"]
    /\ UNCHANGED <<failures, tripped, healthy>>

CloseBreaker(l) ==
    /\ looker[l].step = "closing"
    /\ tripped' = 0
    /\ looker' = [looker EXCEPT ![l].step = "idle"]
    /\ UNCHANGED <<failures, healthy>>

(* record_failure: the count, then the trip. *)
CountFailure(l) ==
    /\ looker[l].step = "failed"
    /\ failures' = IF failures < Threshold THEN failures + 1 ELSE failures
    /\ looker' = [looker EXCEPT ![l].step = IF failures + 1 >= Threshold THEN "tripping" ELSE "idle"]
    /\ UNCHANGED <<tripped, healthy>>

TripBreaker(l) ==
    /\ looker[l].step = "tripping"
    /\ tripped' = 1
    /\ looker' = [looker EXCEPT ![l].step = "idle"]
    /\ UNCHANGED <<failures, healthy>>

CoolDown ==
    /\ tripped \in 1 .. Cooldown
    /\ tripped' = tripped + 1
    /\ UNCHANGED <<failures, looker, healthy>>

WebhookChanges ==
    /\ healthy' = ~healthy
    /\ UNCHANGED <<failures, tripped, looker>>

LookerSteps(l) ==
    \/ Gate(l) \/ PostAnswers(l) \/ PostFails(l) \/ ResetFailures(l) \/ CloseBreaker(l)
    \/ CountFailure(l) \/ TripBreaker(l)

BreakerNext == CoolDown \/ WebhookChanges \/ \E l \in Lookers : LookerSteps(l)

-----------------------------------------------------------------------------
(* Whatever crashed in the middle of a migration, and whoever migrated the *)
(* file at the same time, the file's tables are those of its version and   *)
(* every account answers with its last password for both algorithms, which *)
(* is no longer there in plaintext; no row is lost (MigrationRunner::run,  *)
(* upsert_user_ha1, lookup_for).                                           *)
UsersSurvive ==
    /\ disk.tables = TablesOf(disk.version) \/ disk.version > CurrentSchema
    /\ disk.rows = stored
    /\ \A a \in Accounts :
         IF disk.version < 3
         THEN disk.users[a].password = known[a]
         ELSE /\ disk.users[a].password = "none"
              /\ \A algorithm \in {"MD5", "SHA-256"} : LookupFor(a, algorithm) = known[a]

(* After an outage ends the breaker closes for good, whatever the order in *)
(* which late failures and first successes store its two words             *)
(* (gate, record_success, record_failure).                                 *)
BreakerRecovers == <>[]healthy => <>[](tripped = 0)
=============================================================================
