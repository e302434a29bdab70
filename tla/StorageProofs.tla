--------------------------- MODULE StorageProofs ---------------------------
(***************************************************************************)
(* The answers of the encrypted store are true for any number of           *)
(* connections, records, failures, crashes and damaged rows.               *)
(***************************************************************************)
EXTENDS StorageHistory, TLAPS

Keys == {StorageKey(n) : n \in Names}
Sealed == [under: Names, msg: Values] \cup {Garbage}
Row == [ek: [name: Names \cup {Decryption}], v: Sealed]
Tables == UNION {[D -> Row] : D \in SUBSET Keys}

\* A row's encrypted name is its own, or cannot be read.
Named(t) ==
    \A n \in Names : StorageKey(n) \in DOMAIN t =>
        t[StorageKey(n)].ek.name \in {n, Decryption}

Connection == [up: BOOLEAN, open: BOOLEAN, handle: BOOLEAN, table: Tables]

StoreType ==
    /\ rows \in Tables /\ Named(rows)
    /\ conn \in [Conns -> Connection]
    /\ \A c \in Conns : Named(conn[c].table)

\* The write lock: one transaction at a time, and handles of live processes.
OneWriter ==
    /\ \A c, d \in Conns : conn[c].open /\ conn[d].open => c = d
    /\ \A c \in Conns : conn[c].open \/ conn[c].handle => conn[c].up

HistoryType ==
    /\ DOMAIN told = Names
    /\ DOMAIN intended = Conns
    /\ \A c \in Conns : /\ DOMAIN intended[c] \subseteq Names
                        /\ ~conn[c].handle => DOMAIN intended[c] = {}

\* What an open handle reads: its own writes over what is committed.
HandleView ==
    \A c \in Conns : conn[c].open /\ conn[c].handle =>
        \A n \in Names :
            GetRow(conn[c].table, n) =
                IF n \in DOMAIN intended[c] THEN intended[c][n] ELSE GetRow(rows, n)

\* The inductive invariant.
StoreInv == StoreType /\ OneWriter /\ HistoryType /\ HandleView /\ AckedIsStored

-----------------------------------------------------------------------------
(* Tables.                                                                 *)

\* Distinct names have distinct storage keys.
LEMMA KeyInjective ==
    ASSUME NEW m \in Names, NEW n \in Names, StorageKey(m) = StorageKey(n)
    PROVE  m = n
  BY DEF StorageKey

\* What the elements of Tables are.
LEMMA TableFacts ==
    ASSUME NEW t \in Tables
    PROVE  /\ DOMAIN t \subseteq Keys
           /\ \A k \in DOMAIN t : t[k] \in Row
           /\ t = [k \in DOMAIN t |-> t[k]]
  BY DEF Tables

\* And which functions are.
LEMMA IsTable ==
    ASSUME NEW D \in SUBSET Keys, NEW t \in [D -> Row]
    PROVE  t \in Tables
  BY DEF Tables

\* The empty table is a table.
LEMMA NoTableIsTable == NoTable \in Tables /\ Named(NoTable) /\ DOMAIN NoTable = {}
<1>1. NoTable \in [{} -> Row]
  BY DEF NoTable
<1> QED
  BY <1>1, IsTable DEF Named, NoTable

\* A put leaves a table.
LEMMA PutTable ==
    ASSUME NEW t \in Tables, Named(t), NEW n \in Names, NEW v \in Values
    PROVE  PutRow(t, n, v) \in Tables /\ Named(PutRow(t, n, v))
<1> DEFINE k == StorageKey(n)
           ek == IF k \in DOMAIN t THEN t[k].ek ELSE EncryptKeyName(n)
           row == [ek |-> ek, v |-> Seal(n, v)]
           p == [j \in DOMAIN t \cup {k} |-> IF j = k THEN row ELSE t[j]]
<1>1. p = PutRow(t, n, v)
  BY DEF PutRow
<1>2. DOMAIN t \subseteq Keys /\ k \in Keys /\ \A j \in DOMAIN t : t[j] \in Row
  BY TableFacts DEF Keys
<1>3. ek \in [name: {n, Decryption}]
  BY <1>2 DEF EncryptKeyName, Named, Row
<1>4. row \in Row /\ row.ek = ek
  BY <1>3 DEF Row, Seal, Sealed
<1> HIDE DEF row, ek
<1>5. p \in [DOMAIN t \cup {k} -> Row]
  BY <1>2, <1>4
<1>6. p \in Tables
  BY <1>2, <1>5, IsTable
<1>7. ASSUME NEW m \in Names, StorageKey(m) \in DOMAIN p
      PROVE  p[StorageKey(m)].ek.name \in {m, Decryption}
  <2>1. CASE m = n
    BY <1>3, <1>4, <2>1
  <2>2. CASE m # n
    BY <1>7, <2>2, KeyInjective DEF Named
  <2> QED
    BY <2>1, <2>2
<1> QED
  BY <1>1, <1>6, <1>7 DEF Named

\* What is read after a put: the value under its own name, nothing else changed.
LEMMA PutGet ==
    ASSUME NEW t, NEW n \in Names, NEW v, NEW m \in Names
    PROVE  GetRow(PutRow(t, n, v), m) = IF m = n THEN v ELSE GetRow(t, m)
<1>1. CASE m = n
  BY <1>1 DEF GetRow, PutRow, Unseal, Seal
<1>2. CASE m # n
  BY <1>2, KeyInjective DEF GetRow, PutRow
<1> QED
  BY <1>1, <1>2

\* A delete leaves a table.
LEMMA DeleteTable ==
    ASSUME NEW t \in Tables, Named(t), NEW n \in Names
    PROVE  DeleteRow(t, n) \in Tables /\ Named(DeleteRow(t, n))
<1> DEFINE D == DOMAIN t \ {StorageKey(n)}
<1>1. DeleteRow(t, n) = [j \in D |-> t[j]]
  BY DEF DeleteRow, Restrict
<1>2. D \in SUBSET Keys /\ [j \in D |-> t[j]] \in [D -> Row]
  BY TableFacts
<1> QED
  BY <1>1, <1>2, IsTable DEF Named

\* What is read after a delete.
LEMMA DeleteGet ==
    ASSUME NEW t, NEW n \in Names, NEW m \in Names
    PROVE  GetRow(DeleteRow(t, n), m) = IF m = n THEN NotFound ELSE GetRow(t, m)
<1>1. CASE m = n
  BY <1>1 DEF GetRow, DeleteRow, Restrict
<1>2. CASE m # n
  BY <1>2, KeyInjective DEF GetRow, DeleteRow, Restrict
<1> QED
  BY <1>1, <1>2

\* A row that is there never reads as missing.
LEMMA PresentIsFound ==
    ASSUME NEW t \in Tables, NEW n \in Names
    PROVE  StorageKey(n) \in DOMAIN t <=> GetRow(t, n) # NotFound
<1>1. ASSUME StorageKey(n) \in DOMAIN t PROVE GetRow(t, n) # NotFound
  <2>1. t[StorageKey(n)].v \in Sealed
    BY <1>1, TableFacts DEF Row
  <2>2. CASE t[StorageKey(n)].v.under = n
    BY <1>1, <2>1, <2>2, StorageAssumption, ErrorsAreNotValues
       DEF GetRow, Unseal, Sealed, Garbage
  <2>3. CASE t[StorageKey(n)].v.under # n
    BY <1>1, <2>3, ErrorsAreNotValues DEF GetRow, Unseal
  <2> QED
    BY <2>2, <2>3
<1> QED
  BY <1>1 DEF GetRow
-----------------------------------------------------------------------------
(* The steps, one lemma for the steps that change the same things.         *)

\* The connections that calls leave behind are connections.
LEMMA ConnectionTypes ==
    /\ Idle \in Connection /\ Closed \in Connection
    /\ [Idle EXCEPT !.handle = TRUE] \in Connection
    /\ Named(Idle.table) /\ Named(Closed.table)
    /\ \A t \in Tables : Abandoned(t) \in Connection
  BY NoTableIsTable DEF Idle, Closed, Abandoned, Connection

\* The initial states.
LEMMA InitStore == HistoryInit => StoreInv
<1> SUFFICES ASSUME HistoryInit PROVE StoreInv
  OBVIOUS
<1> USE DEF HistoryInit, StorageInit
<1>1. StoreType
  BY ConnectionTypes, NoTableIsTable DEF StoreType
<1>2. OneWriter
  BY DEF OneWriter, Closed
<1>3. HistoryType
  BY NoTableIsTable DEF HistoryType
<1>4. HandleView
  BY DEF HandleView, Closed
<1>5. AckedIsStored
  BY NoTableIsTable DEF AckedIsStored, Contents, GetRow
<1> QED
  BY <1>1, <1>2, <1>3, <1>4, <1>5 DEF StoreInv

\* Calls that only change their own connection: opening, a refusal, a failed
\* statement, BEGIN.
LEMMA OwnConnectionKeeps ==
    ASSUME StoreInv, NEW c \in Conns, UNCHANGED <<rows, told, intended>>,
           \/ Open(c) \/ Refuse(c) \/ TxFails(c)
           \/ \E res \in {Ok, Err, Busy} : Begin(c, res)
    PROVE  StoreInv'
<1> USE DEF StoreInv
<1>1. PICK r \in Connection :
        /\ conn' = [conn EXCEPT ![c] = r]
        /\ Named(r.table)
        /\ r.open => LockFree(c) /\ r.up
        /\ r.handle => r.up
        /\ r.handle /\ r.open =>
             \/ r.table = rows /\ ~conn[c].handle
             \/ r.table = conn[c].table /\ conn[c].open /\ conn[c].handle
        /\ conn[c].handle => r.handle
  <2> USE ConnectionTypes DEF StoreType, OneWriter
  <2>1. CASE Open(c)
    BY <2>1 DEF Open, Idle, Connection
  <2>2. CASE Refuse(c)
    <3>1. LockFree(c) /\ ~conn[c].handle /\ conn[c].table \in Tables
      BY <2>2 DEF Refuse, LockFree, Callable, Connection
    <3>2. PICK r \in {Idle, Abandoned(conn[c].table)} : conn' = [conn EXCEPT ![c] = r]
      BY <2>2 DEF Refuse, RolledBack
    <3> QED
      BY <3>1, <3>2 DEF Idle, Abandoned
  <2>3. CASE TxFails(c)
    <3>1. LockFree(c)
      BY <2>3 DEF TxFails, LockFree
    <3>2. CASE UNCHANGED conn
      BY <2>3, <3>1, <3>2 DEF TxFails
    <3>3. CASE conn' = [conn EXCEPT ![c] = [Idle EXCEPT !.handle = TRUE]]
      BY <2>3, <3>3 DEF Idle
    <3> QED
      BY <2>3, <3>2, <3>3 DEF TxFails
  <2>4. CASE \E res \in {Ok, Err, Busy} : Begin(c, res)
    <3> DEFINE b == [up |-> TRUE, open |-> TRUE, handle |-> TRUE, table |-> rows]
    <3>1. ~conn[c].handle /\ ~conn[c].open /\ conn[c] \in Connection
      BY <2>4 DEF Begin, EnsureNoOpenTransaction, Callable
    <3>2. b \in Connection
      BY DEF Connection
    <3>3. \/ UNCHANGED conn
          \/ LockFree(c) /\ conn' = [conn EXCEPT ![c] = b]
      BY <2>4 DEF Begin
    <3>4. CASE UNCHANGED conn
      BY <3>1, <3>4
    <3>5. CASE LockFree(c) /\ conn' = [conn EXCEPT ![c] = b]
      BY <3>1, <3>2, <3>5
    <3> QED
      BY <3>3, <3>4, <3>5
  <2> QED
    BY <2>1, <2>2, <2>3, <2>4
<1>2. StoreType'
  BY <1>1 DEF StoreType
<1>3. OneWriter'
  BY <1>1 DEF OneWriter, StoreType, LockFree
<1>4. HistoryType'
  BY <1>1 DEF HistoryType, StoreType
<1>5. HandleView'
  <2> SUFFICES ASSUME NEW d \in Conns, conn'[d].open, conn'[d].handle, NEW n \in Names
               PROVE  GetRow(conn'[d].table, n) =
                        IF n \in DOMAIN intended[d] THEN intended[d][n]
                        ELSE GetRow(rows, n)
    BY DEF HandleView
  <2>1. CASE d # c
    BY <1>1, <2>1 DEF HandleView, StoreType
  <2>2. CASE d = c
    BY <1>1, <2>2 DEF HandleView, StoreType, HistoryType
  <2> QED
    BY <2>1, <2>2
<1>6. AckedIsStored'
  BY DEF AckedIsStored, Contents
<1> QED
  BY <1>2, <1>3, <1>4, <1>5, <1>6

\* How a handle ends: what is left of the connection, and what is committed.
HandleEnds(c, op, res) ==
    /\ \E r \in {Idle, Closed, Abandoned(conn[c].table)} :
          /\ conn' = [conn EXCEPT ![c] = r]
          /\ r.open => conn[c].open
    /\ \/ UNCHANGED rows /\ ~(op = "commit" /\ res = Ok)
       \/ rows' = conn[c].table /\ conn[c].open /\ conn[c].handle /\ op = "commit"

\* rollback, commit and both kinds of death end the handle.
LEMMA EndingsEnd ==
    ASSUME StoreInv, NEW c \in Conns
    PROVE  /\ Rollback(c) => HandleEnds(c, "rollback", Ok)
           /\ Crash(c) => HandleEnds(c, "crash", Ok)
           /\ CrashInCommit(c) => HandleEnds(c, "commit", Err)
           /\ \A res \in {Ok, Err, Busy} : Commit(c, res) => HandleEnds(c, "commit", res)
<1> USE DEF HandleEnds, Idle, Closed, Abandoned
<1>1. Rollback(c) => HandleEnds(c, "rollback", Ok)
  BY DEF Rollback, RolledBack
<1>2. Crash(c) => HandleEnds(c, "crash", Ok)
  BY DEF Crash
<1>3. CrashInCommit(c) => HandleEnds(c, "commit", Err)
  BY DEF CrashInCommit, Ok, Err
<1>4. ASSUME NEW res \in {Ok, Err, Busy}, Commit(c, res)
      PROVE  HandleEnds(c, "commit", res)
  BY <1>4 DEF Commit, RolledBack, Ok, Err
<1> QED
  BY <1>1, <1>2, <1>3, <1>4

\* What the store holds after a handle ended.
LEMMA EndedContents ==
    ASSUME StoreInv, NEW c \in Conns, NEW op, NEW res, HandleEnds(c, op, res),
           NEW n \in Names
    PROVE  \/ UNCHANGED rows /\ ~(op = "commit" /\ res = Ok)
           \/ /\ op = "commit"
              /\ GetRow(rows', n) =
                    IF n \in DOMAIN intended[c] THEN intended[c][n] ELSE GetRow(rows, n)
  BY DEF HandleEnds, StoreInv, HandleView

\* The end of a handle keeps the invariant.
LEMMA EndKeeps ==
    ASSUME StoreInv, NEW c \in Conns, NEW op \in {"rollback", "crash", "commit"},
           NEW res, HandleEnds(c, op, res), Ended(op, c, res)
    PROVE  StoreInv'
<1> USE DEF StoreInv
<1>1. PICK r \in {Idle, Closed, Abandoned(conn[c].table)} :
        /\ conn' = [conn EXCEPT ![c] = r]
        /\ r.open => conn[c].open
  BY DEF HandleEnds
<1>2. r \in Connection /\ Named(r.table) /\ ~r.handle /\ (r.open => r.up)
  <2>1. conn[c].table \in Tables /\ Named(conn[c].table)
    BY DEF StoreType, Connection
  <2>2. CASE r = Idle
    <3>1. Idle.handle = FALSE /\ Idle.open = FALSE
      BY DEF Idle
    <3> QED
      BY <2>2, <3>1, ConnectionTypes
  <2>3. CASE r = Closed
    <3>1. Closed.handle = FALSE /\ Closed.open = FALSE
      BY DEF Closed
    <3> QED
      BY <2>3, <3>1, ConnectionTypes
  <2>4. CASE r = Abandoned(conn[c].table)
    BY <2>1, <2>4, ConnectionTypes DEF Abandoned
  <2> QED
    BY <2>2, <2>3, <2>4
<1>3. rows' \in Tables /\ Named(rows')
  BY DEF HandleEnds, StoreType, Connection
<1>4. StoreType'
  BY <1>1, <1>2, <1>3 DEF StoreType
<1>5. OneWriter'
  BY <1>1, <1>2 DEF OneWriter, StoreType
<1>6. HistoryType'
  BY <1>1, <1>2, NoTableIsTable DEF HistoryType, StoreType, Ended
<1>7. HandleView'
  <2> SUFFICES ASSUME NEW d \in Conns, conn'[d].open, conn'[d].handle, NEW n \in Names
               PROVE  GetRow(conn'[d].table, n) =
                        IF n \in DOMAIN intended'[d] THEN intended'[d][n]
                        ELSE GetRow(rows', n)
    BY DEF HandleView
  <2>1. d # c /\ conn'[d] = conn[d]
    BY <1>1, <1>2 DEF StoreType
  <2>2. UNCHANGED rows
    BY <2>1 DEF HandleEnds, OneWriter
  <2>3. intended'[d] = intended[d]
    BY <2>1 DEF Ended, HistoryType
  <2> QED
    BY <2>1, <2>2, <2>3 DEF HandleView
<1>8. AckedIsStored'
  <2> SUFFICES ASSUME NEW n \in Names PROVE GetRow(rows', n) \in told'[n]
    BY DEF AckedIsStored, Contents
  <2>1. GetRow(rows, n) \in told[n]
    BY DEF AckedIsStored, Contents
  <2>2. told'[n] = IF n \notin DOMAIN intended[c] \/ op \in {"rollback", "crash"} THEN told[n]
                   ELSE IF res = Ok THEN {intended[c][n]} ELSE told[n] \cup {intended[c][n]}
    BY DEF Ended
  <2> QED
    BY <2>1, <2>2, EndedContents
<1> QED
  BY <1>4, <1>5, <1>6, <1>7, <1>8

\* A plain put or delete: the table it may leave, and what is read from it.
PlainWrite(c, n, value, res) ==
    \E t \in Tables :
        /\ Named(t)
        /\ \A m \in Names : GetRow(t, m) = IF m = n THEN value ELSE GetRow(rows, m)
        /\ EnsureNoOpenTransaction(c)
        /\ Autocommit(c, t, res)

\* A put is one.
LEMMA PutIsPlain ==
    ASSUME StoreInv, NEW c, NEW n \in Names, NEW v \in Values, NEW res, Put(c, n, v, res)
    PROVE  PlainWrite(c, n, v, res)
  BY PutTable, PutGet DEF PlainWrite, Put, StoreInv, StoreType

\* So is a delete, of the value NotFound.
LEMMA DeleteIsPlain ==
    ASSUME StoreInv, NEW c, NEW n \in Names, NEW res, Delete(c, n, res)
    PROVE  PlainWrite(c, n, NotFound, res)
  BY DeleteTable, DeleteGet DEF PlainWrite, Delete, StoreInv, StoreType

\* A plain write keeps the invariant.
LEMMA PlainKeeps ==
    ASSUME StoreInv, NEW c \in Conns, NEW n \in Names, NEW value,
           NEW res \in {Ok, Err, Busy}, PlainWrite(c, n, value, res),
           Wrote("write", c, n, value, res)
    PROVE  StoreInv'
<1> USE DEF StoreInv
<1>1. PICK t \in Tables :
        /\ Named(t)
        /\ \A m \in Names : GetRow(t, m) = IF m = n THEN value ELSE GetRow(rows, m)
        /\ EnsureNoOpenTransaction(c)
        /\ Autocommit(c, t, res)
  BY DEF PlainWrite
<1>2. UNCHANGED <<conn, intended>>
  BY <1>1 DEF Autocommit, Wrote
<1>3. StoreType'
  BY <1>1, <1>2 DEF StoreType, Autocommit
<1>4. OneWriter' /\ HistoryType'
  BY <1>2 DEF OneWriter, HistoryType, Wrote
<1>5. HandleView'
  <2>1. CASE LockFree(c)
    <3>1. \A d \in Conns : ~conn[d].open
      BY <1>1, <2>1 DEF LockFree, EnsureNoOpenTransaction
    <3> QED
      BY <1>2, <3>1 DEF HandleView
  <2>2. CASE ~LockFree(c)
    BY <1>1, <1>2, <2>2 DEF Autocommit, HandleView
  <2> QED
    BY <2>1, <2>2
<1>6. AckedIsStored'
  <2> SUFFICES ASSUME NEW m \in Names PROVE GetRow(rows', m) \in told'[m]
    BY DEF AckedIsStored, Contents
  <2>1. GetRow(rows, m) \in told[m]
    BY DEF AckedIsStored, Contents
  <2>2. CASE m # n
    BY <1>1, <2>1, <2>2 DEF Autocommit, Wrote, HistoryType
  <2>3. CASE m = n
    <3>1. told'[n] = CASE res = Ok -> {value} [] res = Err -> told[n] \cup {value}
                       [] OTHER -> told[n]
      BY DEF Wrote, HistoryType
    <3>2. CASE res = Ok
      BY <1>1, <2>3, <3>1, <3>2 DEF Autocommit, Ok, Err, Busy
    <3>3. CASE res = Err
      BY <1>1, <2>1, <2>3, <3>1, <3>3 DEF Autocommit, Ok, Err, Busy
    <3>4. CASE res = Busy
      BY <1>1, <2>1, <2>3, <3>1, <3>4 DEF Autocommit, Ok, Err, Busy
    <3> QED
      BY <3>2, <3>3, <3>4
  <2> QED
    BY <2>2, <2>3
<1> QED
  BY <1>3, <1>4, <1>5, <1>6

\* A write through the handle: the table of the transaction afterwards.
HandleWrite(c, n, value) ==
    \E t \in Tables :
        /\ Named(t)
        /\ \A m \in Names : GetRow(t, m) = IF m = n THEN value ELSE GetRow(conn[c].table, m)
        /\ conn[c].handle /\ conn[c].open
        /\ conn' = [conn EXCEPT ![c].table = t]
        /\ UNCHANGED <<rows, damages>>

\* Both writes of StoreTransaction are of this kind.
LEMMA TxWritesAre ==
    ASSUME StoreInv, NEW c \in Conns, NEW n \in Names, NEW res
    PROVE  /\ \A v \in Values : TxPut(c, n, v, res) => HandleWrite(c, n, v)
           /\ TxDelete(c, n, res) => HandleWrite(c, n, NotFound)
<1>1. conn[c].table \in Tables /\ Named(conn[c].table)
  BY DEF StoreInv, StoreType, Connection
<1>2. ASSUME NEW v \in Values, TxPut(c, n, v, res) PROVE HandleWrite(c, n, v)
  <2>1. /\ PutRow(conn[c].table, n, v) \in Tables /\ Named(PutRow(conn[c].table, n, v))
        /\ \A m \in Names : GetRow(PutRow(conn[c].table, n, v), m) =
                             IF m = n THEN v ELSE GetRow(conn[c].table, m)
    BY <1>1, PutTable, PutGet
  <2> QED
    BY <1>2, <2>1 DEF HandleWrite, TxPut, TxStatement, EnsureActive
<1>3. ASSUME TxDelete(c, n, res) PROVE HandleWrite(c, n, NotFound)
  BY <1>1, <1>3, DeleteTable, DeleteGet DEF HandleWrite, TxDelete, TxStatement, EnsureActive
<1> QED
  BY <1>2, <1>3

\* A write through the handle keeps the invariant.
LEMMA TxKeeps ==
    ASSUME StoreInv, NEW c \in Conns, NEW n \in Names, NEW value, NEW res,
           HandleWrite(c, n, value), TxWrote("tx_write", c, n, value, res)
    PROVE  StoreInv'
<1> USE DEF StoreInv
<1>1. PICK t \in Tables :
        /\ Named(t)
        /\ \A m \in Names : GetRow(t, m) = IF m = n THEN value ELSE GetRow(conn[c].table, m)
        /\ conn[c].handle /\ conn[c].open
        /\ conn' = [conn EXCEPT ![c].table = t]
        /\ UNCHANGED <<rows, damages>>
  BY DEF HandleWrite
<1>2. /\ conn' \in [Conns -> Connection]
      /\ \A d \in Conns : /\ conn'[d].open = conn[d].open
                          /\ conn'[d].handle = conn[d].handle
                          /\ conn'[d].up = conn[d].up
                          /\ conn'[d].table = IF d = c THEN t ELSE conn[d].table
  BY <1>1 DEF StoreType, Connection
<1>3. StoreType' /\ OneWriter'
  BY <1>1, <1>2 DEF StoreType, OneWriter
<1>4. /\ UNCHANGED told
      /\ DOMAIN intended' = Conns
      /\ \A d \in Conns \ {c} : intended'[d] = intended[d]
      /\ DOMAIN intended'[c] = DOMAIN intended[c] \cup {n}
      /\ \A m \in DOMAIN intended[c] \cup {n} :
            intended'[c][m] = IF m = n THEN value ELSE intended[c][m]
  BY DEF TxWrote, HistoryType
<1>5. HistoryType'
  BY <1>1, <1>2, <1>4 DEF HistoryType
<1>6. HandleView'
  <2> SUFFICES ASSUME NEW d \in Conns, conn'[d].open, conn'[d].handle, NEW m \in Names
               PROVE  GetRow(conn'[d].table, m) =
                        IF m \in DOMAIN intended'[d] THEN intended'[d][m]
                        ELSE GetRow(rows', m)
    BY DEF HandleView
  <2>1. CASE d # c
    BY <1>1, <1>2, <1>4, <2>1 DEF HandleView
  <2>2. CASE d = c
    BY <1>1, <1>2, <1>4, <2>2 DEF HandleView
  <2> QED
    BY <2>1, <2>2
<1>7. AckedIsStored'
  BY <1>1, <1>4 DEF AckedIsStored, Contents
<1> QED
  BY <1>3, <1>5, <1>6, <1>7

\* Damage keeps the invariant: the row reads as an error, or as something
\* that is sealed under its own name somewhere in the file.
LEMMA DamageKeeps ==
    ASSUME StoreInv, NEW n \in Names, StorageKey(n) \in DOMAIN rows,
           NEW row \in DamagedRows(rows[StorageKey(n)]), Damage(n, row), Lost(n)
    PROVE  StoreInv'
<1> USE DEF StoreInv
<1> DEFINE k == StorageKey(n)
<1>1. /\ rows[k] \in Row /\ rows[k].ek.name \in {n, Decryption}
      /\ \A j \in DOMAIN rows : rows[j] \in Row
  BY TableFacts DEF StoreType, Named
<1>2. /\ row \in Row
      /\ row.ek.name \in {n, Decryption}
      /\ row.v = rows[k].v \/ row.v = Garbage \/ \E j \in DOMAIN rows : row.v = rows[j].v
  BY <1>1 DEF DamagedRows, Row, Sealed, BadName
<1>3. /\ rows' = [rows EXCEPT ![k] = row] /\ UNCHANGED <<conn, intended>>
      /\ \A c \in Conns : ~conn[c].open
  BY DEF Damage, Lost
<1>4. rows' \in Tables /\ Named(rows')
  <2>1. PICK D \in SUBSET Keys : rows \in [D -> Row]
    BY DEF StoreType, Tables
  <2>2. rows' \in [D -> Row]
    BY <1>2, <1>3, <2>1
  <2>3. Named(rows')
    BY <1>2, <1>3, KeyInjective DEF Named, StoreType
  <2> QED
    BY <2>2, <2>3, IsTable
<1>5. StoreType' /\ OneWriter' /\ HistoryType' /\ HandleView'
  BY <1>3, <1>4 DEF StoreType, OneWriter, HistoryType, HandleView, Lost
<1>6. AckedIsStored'
  <2> SUFFICES ASSUME NEW m \in Names PROVE GetRow(rows', m) \in told'[m]
    BY DEF AckedIsStored, Contents
  <2>1. CASE m # n
    <3>1. GetRow(rows', m) = GetRow(rows, m)
      BY <1>3, <2>1, KeyInjective DEF GetRow
    <3> QED
      BY <2>1, <3>1 DEF Lost, HistoryType, AckedIsStored, Contents
  <2>2. CASE m = n
    <3>1. told'[n] = told[n] \cup {Decryption} \cup SealedFor(n)
      BY DEF Lost, HistoryType
    <3>2. GetRow(rows', n) = Unseal(n, row.v)
      BY <1>3 DEF GetRow
    <3>3. CASE row.v.under = n
      <4>1. \E j \in DOMAIN rows : row.v = rows[j].v
        BY <1>2, <3>3, StorageAssumption DEF Garbage
      <4> QED
        BY <2>2, <3>1, <3>2, <3>3, <4>1 DEF SealedFor, Unseal
    <3>4. CASE row.v.under # n
      BY <2>2, <3>1, <3>2, <3>4 DEF Unseal
    <3> QED
      BY <3>3, <3>4
  <2> QED
    BY <2>1, <2>2
<1> QED
  BY <1>5, <1>6

\* A call that leaves the store and the histories of writes alone.
LEMMA QuietKeeps ==
    ASSUME StoreInv, UNCHANGED <<svars, told, intended>>
    PROVE  StoreInv'
  BY DEF StoreInv, svars, StoreType, OneWriter, HistoryType, HandleView,
         AckedIsStored, Contents

\* Every call keeps the invariant.
LEMMA CallsKeep == ASSUME StoreInv, NEW c \in Conns, Calls(c) PROVE StoreInv'
<1>1. CASE \/ Open(c) /\ Nothing("open", c, None, Ok)
           \/ Refuse(c) /\ Nothing("refused", c, None, Invalid)
           \/ TxFails(c) /\ Nothing("tx_error", c, None, Err)
           \/ \E res \in {Ok, Err, Busy} : Begin(c, res) /\ Nothing("begin", c, None, res)
  <2>1. UNCHANGED <<rows, told, intended>>
    BY <1>1 DEF Nothing, Open, Refuse, TxFails, Begin
  <2> QED
    BY <1>1, <2>1, OwnConnectionKeeps
<1>2. CASE \/ Rollback(c) /\ Ended("rollback", c, Ok)
           \/ Crash(c) /\ Ended("crash", c, Ok)
           \/ CrashInCommit(c) /\ Ended("commit", c, Err)
           \/ \E res \in {Ok, Err, Busy} : Commit(c, res) /\ Ended("commit", c, res)
  BY <1>2, EndingsEnd, EndKeeps
<1>3. CASE \E res \in {Ok, Err, Busy}, n \in Names :
              \/ Delete(c, n, res) /\ Wrote("write", c, n, NotFound, res)
              \/ \E v \in Values : Put(c, n, v, res) /\ Wrote("write", c, n, v, res)
  BY <1>3, DeleteIsPlain, PutIsPlain, PlainKeeps
<1>4. CASE \E res \in {Ok, Err, Busy}, n \in Names :
              \/ TxDelete(c, n, res) /\ TxWrote("tx_write", c, n, NotFound, res)
              \/ \E v \in Values : TxPut(c, n, v, res) /\ TxWrote("tx_write", c, n, v, res)
  BY <1>4, TxWritesAre, TxKeeps
<1>5. CASE \/ \E n \in Names, res \in Values \cup {NotFound, Decryption} :
                \/ Get(c, n, res) /\ Nothing("get", c, n, res)
                \/ TxGet(c, n, res) /\ Nothing("tx_get", c, n, res)
           \/ \E ns \in Namespaces, res \in SUBSET Names \cup {{Decryption}} :
                ListKeysWithPrefix(c, ns, res) /\ Nothing("list", c, ns, res)
  BY <1>5, QuietKeeps DEF Get, TxGet, ListKeysWithPrefix, Nothing
<1> QED
  BY <1>1, <1>2, <1>3, <1>4, <1>5 DEF Calls

\* Every step keeps the invariant.
LEMMA StepStore == StoreInv /\ [HistoryNext]_hvars => StoreInv'
<1> SUFFICES ASSUME StoreInv, [HistoryNext]_hvars PROVE StoreInv'
  OBVIOUS
<1>1. CASE \E c \in Conns : Calls(c)
  BY <1>1, CallsKeep
<1>2. CASE \E n \in {m \in Names : StorageKey(m) \in DOMAIN rows} :
             \E row \in DamagedRows(rows[StorageKey(n)]) : Damage(n, row) /\ Lost(n)
  BY <1>2, DamageKeeps
<1>3. CASE UNCHANGED hvars
  BY <1>3, QuietKeeps DEF hvars
<1> QED
  BY <1>1, <1>2, <1>3 DEF HistoryNext

-----------------------------------------------------------------------------
\* AckedIsStored for every execution: an acknowledged write is neither lost
\* nor absorbed into a transaction that is discarded, and what was refused or
\* rolled back never appears.
THEOREM AckedIsStoredHolds == HistorySpec => []AckedIsStored
<1>1. StoreInv => AckedIsStored
  BY DEF StoreInv
<1> QED
  BY <1>1, InitStore, StepStore, PTL DEF HistorySpec

\* A list names exactly the records of the namespace, if every name is readable.
LEMMA ListIsTrue ==
    ASSUME NEW t \in Tables, Named(t), NEW ns, ListRows(t, ns) # {Decryption},
           NEW n \in Names
    PROVE  n \in ListRows(t, ns) <=> NamespaceOf[n] = ns /\ GetRow(t, n) # NotFound
<1> DEFINE In == {j \in DOMAIN t : j[1] = ns}
           names == {t[k].ek.name : k \in In}
<1>1. Decryption \notin names /\ ListRows(t, ns) = names
  BY DEF ListRows
<1>2. ASSUME NEW k \in In
      PROVE  \E m \in Names : k = StorageKey(m) /\ NamespaceOf[m] = ns /\ t[k].ek.name = m
  <2>1. PICK m \in Names : k = StorageKey(m)
    BY TableFacts DEF Keys
  <2>2. NamespaceOf[m] = ns
    BY <2>1 DEF StorageKey
  <2>3. t[k].ek.name = m
    BY <1>1, <2>1 DEF Named
  <2> QED
    BY <2>1, <2>2, <2>3
<1>3. ASSUME n \in names PROVE StorageKey(n) \in DOMAIN t /\ NamespaceOf[n] = ns
  BY <1>2, <1>3
<1>4. ASSUME StorageKey(n) \in DOMAIN t, NamespaceOf[n] = ns PROVE n \in names
  <2>1. StorageKey(n) \in In
    BY <1>4 DEF StorageKey
  <2> QED
    BY <1>2, <2>1, KeyInjective
<1> QED
  BY <1>1, <1>3, <1>4, PresentIsFound

\* The initial answer reports no read.
LEMMA InitReads == HistoryInit => ReadsAreTrue
  BY DEF HistoryInit, ReadsAreTrue

\* Whatever is answered is true when it is answered.
LEMMA StepReads == StoreInv /\ ReadsAreTrue /\ [HistoryNext]_hvars => ReadsAreTrue'
<1> SUFFICES ASSUME StoreInv, ReadsAreTrue, [HistoryNext]_hvars PROVE ReadsAreTrue'
  OBVIOUS
<1> USE DEF StoreInv
<1>1. ASSUME NEW c \in Conns, NEW n \in Names, NEW res,
             Get(c, n, res), Nothing("get", c, n, res)
      PROVE  ReadsAreTrue'
  <2>1. res \in told'[n]
    BY <1>1 DEF Get, Nothing, AckedIsStored, Contents
  <2> QED
    BY <1>1, <2>1 DEF ReadsAreTrue, Nothing, Answered
<1>2. ASSUME NEW c \in Conns, NEW n \in Names, NEW res,
             TxGet(c, n, res), Nothing("tx_get", c, n, res)
      PROVE  ReadsAreTrue'
  <2>1. IF n \in DOMAIN intended'[c] THEN res = intended'[c][n] ELSE res \in told'[n]
    BY <1>2 DEF TxGet, EnsureActive, HandleView, Nothing, AckedIsStored, Contents
  <2> QED
    BY <1>2, <2>1 DEF ReadsAreTrue, Nothing, Answered
<1>3. ASSUME NEW c \in Conns, NEW ns, NEW res,
             ListKeysWithPrefix(c, ns, res), Nothing("list", c, ns, res)
      PROVE  ReadsAreTrue'
  <2>1. ASSUME res # {Decryption}, NEW n \in Names
        PROVE  /\ n \in res => NamespaceOf[n] = ns /\ told[n] # {NotFound}
               /\ NamespaceOf[n] = ns /\ NotFound \notin told[n] => n \in res
    <3>1. n \in res <=> NamespaceOf[n] = ns /\ GetRow(rows, n) # NotFound
      BY <1>3, <2>1, ListIsTrue DEF ListKeysWithPrefix, StoreType
    <3>2. GetRow(rows, n) \in told[n]
      BY DEF AckedIsStored, Contents
    <3> QED
      BY <3>1, <3>2
  <2>2. answer' = [op |-> "list", conn |-> c, name |-> ns, res |-> res] /\ UNCHANGED told
    BY <1>3 DEF Nothing, Answered
  <2> QED
    BY <2>1, <2>2 DEF ReadsAreTrue
<1>4. ASSUME NEW c, NEW n, NEW res,
             NEW op \in {"open", "refused", "tx_error", "rollback", "crash", "commit",
                         "begin", "write", "tx_write"},
             Answered(op, c, n, res)
      PROVE  ReadsAreTrue'
  BY <1>4 DEF ReadsAreTrue, Answered
<1>5. ASSUME NEW c \in Conns, Calls(c) PROVE ReadsAreTrue'
  BY <1>1, <1>2, <1>3, <1>4, <1>5 DEF Calls, Nothing, Ended, Wrote, TxWrote
<1>6. CASE UNCHANGED hvars
  BY <1>6 DEF hvars, svars, ReadsAreTrue
<1> QED
  BY <1>4, <1>5, <1>6 DEF HistoryNext, Lost

\* ReadsAreTrue for every execution.
THEOREM ReadsAreTrueHolds == HistorySpec => []ReadsAreTrue
  BY InitStore, StepStore, InitReads, StepReads, PTL DEF HistorySpec

\* A change of the table is one write, or all the writes of one transaction.
LEMMA StepAllOrNothing ==
    ASSUME StoreInv, HistoryNext
    PROVE  \/ Contents' = Contents
           \/ /\ answer'.op = "write"
              /\ \A n \in Names \ {answer'.name} : Contents'[n] = Contents[n]
           \/ /\ answer'.op = "commit"
              /\ LET w == intended[answer'.conn]
                 IN  Contents' = [n \in Names |->
                                    IF n \in DOMAIN w THEN w[n] ELSE Contents[n]]
<1> DEFINE Goal ==
        \/ Contents' = Contents
        \/ /\ answer'.op = "write"
           /\ \A n \in Names \ {answer'.name} : Contents'[n] = Contents[n]
        \/ /\ answer'.op = "commit"
           /\ LET w == intended[answer'.conn]
              IN  Contents' = [n \in Names |->
                                 IF n \in DOMAIN w THEN w[n] ELSE Contents[n]]
<1>1. UNCHANGED rows => Goal
  BY DEF Contents
<1>2. ASSUME NEW c \in Conns, NEW n \in Names, NEW value, NEW res,
             PlainWrite(c, n, value, res), Wrote("write", c, n, value, res)
      PROVE  Goal
  <2>1. answer'.op = "write" /\ answer'.name = n
    BY <1>2 DEF Wrote, Answered
  <2>2. \A m \in Names \ {n} : GetRow(rows', m) = GetRow(rows, m)
    BY <1>2 DEF PlainWrite, Autocommit
  <2> QED
    BY <2>1, <2>2 DEF Contents
<1>3. ASSUME NEW c \in Conns, NEW op, NEW res, HandleEnds(c, op, res), Ended(op, c, res)
      PROVE  Goal
  <2>1. CASE UNCHANGED rows
    BY <1>1, <2>1
  <2>2. CASE rows' # rows
    <3>1. /\ op = "commit"
          /\ \A n \in Names : GetRow(rows', n) =
                IF n \in DOMAIN intended[c] THEN intended[c][n] ELSE GetRow(rows, n)
      BY <1>3, <2>2 DEF HandleEnds, StoreInv, HandleView
    <3>2. answer'.op = "commit" /\ answer'.conn = c
      BY <1>3, <3>1 DEF Ended, Answered
    <3> QED
      BY <3>1, <3>2 DEF Contents
  <2> QED
    BY <2>1, <2>2
<1>4. ASSUME NEW n \in Names, NEW row, Damage(n, row), Lost(n) PROVE Goal
  <2>1. answer'.op = "write" /\ answer'.name = n
    BY <1>4 DEF Lost, Answered
  <2>2. \A m \in Names \ {n} : GetRow(rows', m) = GetRow(rows, m)
    BY <1>4, KeyInjective DEF Damage, GetRow
  <2> QED
    BY <2>1, <2>2 DEF Contents
<1> HIDE DEF Goal
<1>5. ASSUME NEW c \in Conns, Calls(c) PROVE Goal
  <2>1. CASE \/ Rollback(c) /\ Ended("rollback", c, Ok)
             \/ Crash(c) /\ Ended("crash", c, Ok)
             \/ CrashInCommit(c) /\ Ended("commit", c, Err)
             \/ \E res \in {Ok, Err, Busy} : Commit(c, res) /\ Ended("commit", c, res)
    BY <1>3, <2>1, EndingsEnd
  <2>2. CASE \E res \in {Ok, Err, Busy}, n \in Names :
                \/ Delete(c, n, res) /\ Wrote("write", c, n, NotFound, res)
                \/ \E v \in Values : Put(c, n, v, res) /\ Wrote("write", c, n, v, res)
    BY <1>2, <2>2, DeleteIsPlain, PutIsPlain
  <2>3. CASE \/ Open(c) \/ Refuse(c) \/ TxFails(c)
             \/ \E res \in {Ok, Err, Busy} : Begin(c, res)
    BY <1>1, <2>3 DEF Open, Refuse, TxFails, Begin
  <2>4. CASE \E res \in {Ok, Err, Busy}, n \in Names :
                \/ TxDelete(c, n, res)
                \/ \E v \in Values : TxPut(c, n, v, res)
    BY <1>1, <2>4 DEF TxDelete, TxPut, TxStatement
  <2>5. CASE \/ \E n \in Names, res \in Values \cup {NotFound, Decryption} :
                  Get(c, n, res) \/ TxGet(c, n, res)
             \/ \E ns \in Namespaces, res \in SUBSET Names \cup {{Decryption}} :
                  ListKeysWithPrefix(c, ns, res)
    BY <1>1, <2>5 DEF Get, TxGet, ListKeysWithPrefix, svars
  <2> QED
    BY <1>5, <2>1, <2>2, <2>3, <2>4, <2>5 DEF Calls
<1>6. Goal
  BY <1>4, <1>5 DEF HistoryNext
<1> QED
  BY <1>6 DEF Goal

\* AllOrNothing for every execution: no part of a transaction is ever seen.
THEOREM AllOrNothingHolds == HistorySpec => AllOrNothing
<1> DEFINE Step ==
        \/ Contents' = Contents
        \/ /\ answer'.op = "write"
           /\ \A n \in Names \ {answer'.name} : Contents'[n] = Contents[n]
        \/ /\ answer'.op = "commit"
           /\ LET w == intended[answer'.conn]
              IN  Contents' = [n \in Names |->
                                 IF n \in DOMAIN w THEN w[n] ELSE Contents[n]]
<1>1. StoreInv /\ [HistoryNext]_hvars => [Step]_hvars
  BY StepAllOrNothing
<1>2. AllOrNothing <=> [][Step]_hvars
  BY DEF AllOrNothing
<1> HIDE DEF Step
<1> QED
  BY <1>1, <1>2, InitStore, StepStore, PTL DEF HistorySpec
=============================================================================
