------------------------------- MODULE Storage -------------------------------
(***************************************************************************)
(* The encrypted store (crates/core-storage): a SQLite table of sealed     *)
(* rows, any number of connections to the file, plain operations and one   *)
(* StoreTransaction per connection.  SQLite itself is external and         *)
(* modelled from how the code uses it: BEGIN IMMEDIATE takes the only      *)
(* write lock, a statement may fail alone or end the transaction it runs   *)
(* in, COMMIT may fail on either side of the commit point, ROLLBACK may    *)
(* fail and leave the transaction open, and recovery after a crash         *)
(* discards what was not committed.                                        *)
(*                                                                         *)
(* Cryptography is symbolic: distinct names have distinct hashes, and a    *)
(* sealed value opens only under the name it was sealed for.  An action's  *)
(* parameter res is what the call answers.                                 *)
(***************************************************************************)
EXTENDS Naturals, FiniteSets, Functions

CONSTANTS
    Conns,         \* connections, each the EncryptedStore of one process
    Names,         \* record names
    Values,        \* record contents
    NamespaceOf,   \* [Names -> namespaces]: up to and including the first ':'
    NotFound,      \* the answers of a get that returns no value
    Decryption,
    None,          \* no value and no name
    MaxDamage      \* bound: how often the file is damaged

ASSUME StorageAssumption ==
    /\ IsFiniteSet(Conns)
    /\ MaxDamage \in Nat
    /\ Names \subseteq DOMAIN NamespaceOf
    /\ None \notin Names

Invalid == "TransactionStateInvalid"
Ok == "Ok"
Err == "Db"
Busy == "SQLITE_BUSY"
ASSUME ErrorsAreNotValues ==
    NotFound # Decryption /\ {NotFound, Decryption} \cap Values = {}

VARIABLES
    rows,      \* the committed table: storage key -> [ek, v]
    conn,      \* each connection: up, open (not autocommit), handle, table
    damages    \* how often the file was damaged

svars == <<rows, conn, damages>>

-----------------------------------------------------------------------------
(* Names, sealing and row operations.                                      *)

NoTable == [k \in {} |-> <<>>]

StorageKey(n) == <<NamespaceOf[n], n>>

Seal(n, value) == [under |-> n, msg |-> value]

Garbage == [under |-> None, msg |-> None]

Unseal(n, ct) == IF ct.under = n THEN ct.msg ELSE Decryption

EncryptKeyName(n) == [name |-> n]

BadName == [name |-> Decryption]

\* An existing row keeps its encrypted name: only v is updated.
PutRow(t, n, value) ==
    LET k == StorageKey(n)
        ek == IF k \in DOMAIN t THEN t[k].ek ELSE EncryptKeyName(n)
    IN  [j \in DOMAIN t \cup {k} |->
            IF j = k THEN [ek |-> ek, v |-> Seal(n, value)] ELSE t[j]]

GetRow(t, n) ==
    LET k == StorageKey(n)
    IN  IF k \in DOMAIN t THEN Unseal(n, t[k].v) ELSE NotFound

DeleteRow(t, n) == Restrict(t, DOMAIN t \ {StorageKey(n)})

\* One name that cannot be read fails the whole list.
ListRows(t, namespace) ==
    LET names == {t[k].ek.name : k \in {j \in DOMAIN t : j[1] = namespace}}
    IN  IF Decryption \in names THEN {Decryption} ELSE names

-----------------------------------------------------------------------------
(* SQLite.                                                                 *)

Closed == [up |-> FALSE, open |-> FALSE, handle |-> FALSE, table |-> NoTable]
Idle == [up |-> TRUE, open |-> FALSE, handle |-> FALSE, table |-> NoTable]
Abandoned(t) == [up |-> TRUE, open |-> TRUE, handle |-> FALSE, table |-> t]

\* No other connection holds the write lock.
LockFree(c) == \A d \in Conns \ {c} : ~conn[d].open

\* What the connection reads: its own transaction, or what is committed.
View(c) == IF conn[c].open THEN conn[c].table ELSE rows

\* ROLLBACK of c's transaction: done, or refused before it ran.
RolledBack(c) ==
    \/ conn' = [conn EXCEPT ![c] = Idle]
    \/ conn' = [conn EXCEPT ![c] = Abandoned(conn[c].table)]

\* Calls through the store need the borrow that a live handle holds.
Callable(c) == conn[c].up /\ ~conn[c].handle

-----------------------------------------------------------------------------
(* EncryptedStore.                                                         *)

\* init: pragmas and CREATE TABLE IF NOT EXISTS, which need the write lock.
Open(c) ==
    /\ ~conn[c].up
    /\ LockFree(c)
    /\ conn' = [conn EXCEPT ![c] = Idle]
    /\ UNCHANGED <<rows, damages>>

\* ensure_no_open_transaction finds a transaction that was not rolled back:
\* it retries the rollback and refuses the call, whatever it was.
Refuse(c) ==
    /\ Callable(c)
    /\ conn[c].open
    /\ RolledBack(c)
    /\ UNCHANGED <<rows, damages>>

EnsureNoOpenTransaction(c) == Callable(c) /\ ~conn[c].open

\* A statement in autocommit mode leaves table: applied, failed on either side
\* of its own commit point, or kept off by another writer.
Autocommit(c, table, res) ==
    /\ UNCHANGED <<conn, damages>>
    /\ \/ res = Ok /\ LockFree(c) /\ rows' = table
       \/ res = Err /\ LockFree(c) /\ rows' \in {rows, table}
       \/ res = Busy /\ ~LockFree(c) /\ UNCHANGED rows

\* Mutant: without the check a put is absorbed into a transaction left open.
PutAbsorbed(c, n, value, res) ==
    /\ Callable(c)
    /\ \/ ~conn[c].open /\ Autocommit(c, PutRow(rows, n, value), res)
       \/ /\ conn[c].open /\ res = Ok
          /\ conn' = [conn EXCEPT ![c].table = PutRow(@, n, value)]
          /\ UNCHANGED <<rows, damages>>

Put(c, n, value, res) ==
    /\ EnsureNoOpenTransaction(c)
    /\ Autocommit(c, PutRow(rows, n, value), res)

Delete(c, n, res) ==
    /\ EnsureNoOpenTransaction(c)
    /\ Autocommit(c, DeleteRow(rows, n), res)

\* Mutant: without the check a get reads the transaction left open.
GetAbandoned(c, n, res) ==
    /\ Callable(c)
    /\ res = GetRow(View(c), n)
    /\ UNCHANGED svars

Get(c, n, res) ==
    /\ EnsureNoOpenTransaction(c)
    /\ res = GetRow(rows, n)
    /\ UNCHANGED svars

ListKeysWithPrefix(c, namespace, res) ==
    /\ EnsureNoOpenTransaction(c)
    /\ res = ListRows(rows, namespace)
    /\ UNCHANGED svars

\* Mutant: no write lock is taken, so that what a transaction checked may change
\* before it writes.
BeginDeferred(c, res) ==
    /\ EnsureNoOpenTransaction(c)
    /\ res = Ok
    /\ conn' = [conn EXCEPT ![c] = [up |-> TRUE, open |-> TRUE,
                                    handle |-> TRUE, table |-> rows]]
    /\ UNCHANGED <<rows, damages>>

\* transaction(): BEGIN IMMEDIATE, or SQLITE_BUSY and nothing happens.
Begin(c, res) ==
    /\ EnsureNoOpenTransaction(c)
    /\ \/ /\ res = Ok /\ LockFree(c)
          /\ conn' = [conn EXCEPT ![c] = [up |-> TRUE, open |-> TRUE,
                                          handle |-> TRUE, table |-> rows]]
       \/ res = Busy /\ ~LockFree(c) /\ UNCHANGED conn
    /\ UNCHANGED <<rows, damages>>

-----------------------------------------------------------------------------
(* StoreTransaction.                                                       *)

EnsureActive(c) == conn[c].open

\* A write through the handle.
TxStatement(c, table, res) ==
    /\ res = Ok
    /\ conn' = [conn EXCEPT ![c].table = table]
    /\ UNCHANGED <<rows, damages>>

\* Mutant: without ensure_active a write after SQLite ended the transaction is
\* committed on its own.
TxPutUnchecked(c, n, value, res) ==
    /\ conn[c].handle
    /\ IF conn[c].open
       THEN TxStatement(c, PutRow(conn[c].table, n, value), res)
       ELSE Autocommit(c, PutRow(rows, n, value), res)

TxPut(c, n, value, res) ==
    /\ conn[c].handle
    /\ EnsureActive(c)
    /\ TxStatement(c, PutRow(conn[c].table, n, value), res)

TxDelete(c, n, res) ==
    /\ conn[c].handle
    /\ EnsureActive(c)
    /\ TxStatement(c, DeleteRow(conn[c].table, n), res)

TxGet(c, n, res) ==
    /\ conn[c].handle
    /\ EnsureActive(c)
    /\ res = GetRow(conn[c].table, n)
    /\ UNCHANGED svars

\* A statement of the transaction fails: alone, or ending the transaction.
TxFails(c) ==
    /\ conn[c].handle /\ conn[c].open
    /\ \/ UNCHANGED conn
       \/ conn' = [conn EXCEPT ![c] = [Idle EXCEPT !.handle = TRUE]]
    /\ UNCHANGED <<rows, damages>>

\* COMMIT: completed, or failed after the commit point; failed before it, and
\* then rolled back as the handle drops; failed with the transaction over.
Commit(c, res) ==
    /\ conn[c].handle
    /\ UNCHANGED damages
    /\ \/ /\ res \in {Ok, Err} /\ conn[c].open
          /\ rows' = conn[c].table
          /\ conn' = [conn EXCEPT ![c] = Idle]
       \/ res = Err /\ conn[c].open /\ RolledBack(c) /\ UNCHANGED rows
       \/ /\ res = Err /\ ~conn[c].open
          /\ conn' = [conn EXCEPT ![c] = Idle]
          /\ UNCHANGED rows

\* rollback(), or dropping the handle.
Rollback(c) ==
    /\ conn[c].handle
    /\ IF conn[c].open THEN RolledBack(c) ELSE conn' = [conn EXCEPT ![c] = Idle]
    /\ UNCHANGED <<rows, damages>>

-----------------------------------------------------------------------------
(* The environment.                                                        *)

\* The process dies; recovery rolls back what was not committed.
Crash(c) ==
    /\ conn[c].up
    /\ conn' = [conn EXCEPT ![c] = Closed]
    /\ UNCHANGED <<rows, damages>>

\* It dies inside COMMIT: before the commit point or after it.
CrashInCommit(c) ==
    /\ conn[c].handle /\ conn[c].open
    /\ rows' \in {rows, conn[c].table}
    /\ conn' = [conn EXCEPT ![c] = Closed]
    /\ UNCHANGED damages

\* The file is damaged: a row's name or value is overwritten.
Damage(n, row) ==
    /\ damages < MaxDamage
    /\ \A c \in Conns : ~conn[c].open
    /\ StorageKey(n) \in DOMAIN rows
    /\ rows' = [rows EXCEPT ![StorageKey(n)] = row]
    /\ damages' = damages + 1
    /\ UNCHANGED conn

StorageInit ==
    /\ rows = NoTable
    /\ conn = [c \in Conns |-> Closed]
    /\ damages = 0

\* What a reader of the file finds under each name.
Contents == [n \in Names |-> GetRow(rows, n)]

=============================================================================
