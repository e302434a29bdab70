--------------------------- MODULE DurableProofs ---------------------------
(***************************************************************************)
(* write_conditional is one atomic conditional write, and what durable     *)
(* sessions release over it is released once and kept, for any number of   *)
(* processes, sessions, transitions, failures and crashes.                 *)
(***************************************************************************)
EXTENDS Durable, SequenceTheorems, TLAPS

Phases == {"idle", "begin", "check", "write", "commit", "drop"}

\* The transaction is open.
Working == {"check", "write", "commit"}

\* How many writes of the batch are in the transaction.
Done(w) == IF w.phase = "check" THEN 0 ELSE IF w.phase = "write" THEN w.at - 1 ELSE 2

\* What one write makes of a record.
Result(x, old) ==
    IF x.action.kind = "Put" THEN x.action.value
    ELSE IF x.action.kind = "Delete" THEN NotFound ELSE old

Partial(w, base, n) ==
    LET old == GetRow(base, n)
    IN  IF n = SessionName
        THEN IF Done(w) >= 1 THEN Result(w.writes[1], old) ELSE old
        ELSE IF Done(w) >= 2 THEN Result(w.writes[2], old) ELSE old

\* The transaction holds the writes made so far over what is committed, and
\* what was checked still holds there.
Faithful(w, t, base) ==
    /\ w.phase \in Working => \A n \in Names : GetRow(t, n) = Partial(w, base, n)
    /\ w.phase \in {"write", "commit"} =>
         \A i \in 1..2 :
            CheckPrecondition(GetRow(base, w.writes[i].name), w.writes[i].expect) = Ok

\* A batch: the session record, then one record beside it.
IsBatch(writes) ==
    /\ writes = <<writes[1], writes[2]>>
    /\ writes[1].name = SessionName /\ writes[2].name = SideName
    /\ \A i \in 1..2 : writes[i].action.kind \in {"Put", "Delete", "Check"}

WcOK(w) ==
    /\ DOMAIN w = {"phase", "at", "writes", "kind", "next", "res"}
    /\ w.phase \in Phases
    /\ w.phase # "idle" => IsBatch(w.writes) /\ w.at \in 1..2
    /\ w.phase \in {"begin", "check"} => w.at = 1
    /\ w.phase \in Working \cup {"begin"} => w.res = None
    /\ w.phase = "drop" => w.res \in {"conflict", "side_conflict", "not_committed"}

ConnOK(r) ==
    /\ DOMAIN r = {"up", "open", "handle", "table"}
    /\ r.open \in BOOLEAN /\ r.handle \in BOOLEAN
    /\ r.open \/ r.handle => r.up

\* The lock and the handle go with the phase.
PhaseOK(w, r) ==
    /\ w.phase \in Working => r.open /\ r.handle
    /\ r.handle => w.phase \in Working \cup {"drop"}

\* The inductive invariant of write_conditional.
WriteInv ==
    /\ DOMAIN conn = Conns /\ DOMAIN wc = Conns
    /\ \A c, d \in Conns : conn[c].open /\ conn[d].open => c = d
    /\ \A c \in Conns :
          /\ ConnOK(conn[c]) /\ WcOK(wc[c]) /\ PhaseOK(wc[c], conn[c])
          /\ Faithful(wc[c], conn[c].table, rows)

-----------------------------------------------------------------------------
(* Rows and batches.                                                       *)

\* What is read after a put.
LEMMA PutGet ==
    ASSUME NEW t, NEW n \in Names, NEW v, NEW m \in Names
    PROVE  GetRow(PutRow(t, n, v), m) = IF m = n THEN v ELSE GetRow(t, m)
<1>1. CASE m = n
  BY <1>1 DEF GetRow, PutRow, Unseal, Seal
<1>2. CASE m # n
  BY <1>2 DEF GetRow, PutRow, StorageKey
<1> QED
  BY <1>1, <1>2

\* What is read after a delete.
LEMMA DeleteGet ==
    ASSUME NEW t, NEW n \in Names, NEW m \in Names
    PROVE  GetRow(DeleteRow(t, n), m) = IF m = n THEN NotFound ELSE GetRow(t, m)
<1>1. CASE m = n
  BY <1>1 DEF GetRow, DeleteRow, Restrict
<1>2. CASE m # n
  BY <1>2 DEF GetRow, DeleteRow, Restrict, StorageKey
<1> QED
  BY <1>1, <1>2

\* What is read after the session's row was damaged.
LEMMA DamageGet ==
    ASSUME FileDamaged, NEW m \in Names
    PROVE  GetRow(rows', m) = IF m = SessionName THEN Decryption ELSE GetRow(rows, m)
<1> DEFINE k == StorageKey(SessionName)
           row == [ek |-> EncryptKeyName(SessionName), v |-> Garbage]
<1>1. rows' = [rows EXCEPT ![k] = row] /\ k \in DOMAIN rows
  BY DEF FileDamaged, Damage
<1>2. SessionName \in Names /\ SessionName # None
  BY DurableAssumption, StorageAssumption
<1>3. row.v.under = None
  BY DEF Garbage
<1>4. CASE m = SessionName
  BY <1>1, <1>2, <1>3, <1>4 DEF GetRow, Unseal
<1>5. CASE m # SessionName
  BY <1>1, <1>5 DEF GetRow, StorageKey
<1> QED
  BY <1>4, <1>5

\* A pair of sequences of one element.
LEMMA PairConcat ==
    ASSUME NEW a, NEW b
    PROVE  <<a>> \o <<b>> = <<a, b>>
<1> DEFINE S == {a, b} x == <<a>> y == <<b>> z == <<a, b>>
<1>1. x \in Seq(S) /\ y \in Seq(S) /\ z \in Seq(S)
  OBVIOUS
<1>2. Len(x) = 1 /\ Len(y) = 1 /\ Len(z) = 2
  OBVIOUS
<1>3. x[1] = a /\ y[1] = b /\ z[1] = a /\ z[2] = b
  OBVIOUS
<1> HIDE DEF S, x, y, z
<1>4. Len(x \o y) = 2 /\ x \o y \in Seq(S) /\ \A i \in 1..2 : (x \o y)[i] = z[i]
  BY <1>1, <1>2, <1>3, ConcatProperties
<1>5. x \o y = z
  BY <1>1, <1>2, <1>4, SeqEqual
<1> QED
  BY <1>5 DEF x, y, z

\* What SideWrite::new and batch accept beside the session is one other record.
LEMMA AcceptedSide ==
    ASSUME NEW read, NEW value, NEW side \in SideWrites(read, value), NEW session,
           ~SideRefused(session, side), session.name = SessionName,
           session.action.kind = "Put"
    PROVE  IsBatch(Batch(session, side)) /\ Batch(session, side)[1] = session
<1>1. PICK w : side = <<w>> /\ w.name = SideName /\ w.action.kind \in {"Put", "Check"}
  <2> DEFINE s1 == Write(SideName, IF read = NotFound THEN Absent ELSE Exactly(read),
                         DoPut(value))
             s2 == Write(SideName, Absent, DoCheck)
             s3 == Write(SessionName, Unconditional, DoPut(value))
             s4 == Write(SideName, Absent, DoPut(value))
  <2>1. side \in {<<s1>>, <<s2>>, <<s3>>, <<s4, s2>>}
    BY DEF SideWrites
  <2>2. /\ s1.name = SideName /\ s2.name = SideName /\ s3.name = SessionName
        /\ s4.name = SideName
        /\ s1.action.kind = "Put" /\ s2.action.kind = "Check"
    BY DEF Write, DoPut, DoCheck
  <2> HIDE DEF s1, s2, s3, s4
  <2>3. side # <<s3>>
    BY <2>2 DEF SideRefused
  <2>4. side # <<s4, s2>>
    BY <2>2 DEF SideRefused
  <2> QED
    BY <2>1, <2>2, <2>3, <2>4
<1>2. Batch(session, side) = <<session, w>>
  BY <1>1, PairConcat DEF Batch
<1> QED
  BY <1>1, <1>2 DEF IsBatch

-----------------------------------------------------------------------------
(* write_conditional: the steps.                                           *)

\* One process and its connection move; the rest stay.
OnlyMoves(c) ==
    /\ DOMAIN conn' = Conns /\ DOMAIN wc' = Conns
    /\ \A d \in Conns \ {c} : conn'[d] = conn[d] /\ wc'[d] = wc[d]

\* A step of one process keeps the invariant if it keeps it of that process, and
\* only changes the table while no other process has a transaction.
LEMMA WriteFrame ==
    ASSUME WriteInv, NEW c \in Conns, OnlyMoves(c),
           ConnOK(conn'[c]), WcOK(wc'[c]), PhaseOK(wc'[c], conn'[c]),
           Faithful(wc'[c], conn'[c].table, rows'),
           conn'[c].open => conn[c].open \/ LockFree(c),
           rows' = rows \/ LockFree(c)
    PROVE  WriteInv'
<1>1. ASSUME NEW d \in Conns, d # c
      PROVE  /\ ConnOK(conn'[d]) /\ WcOK(wc'[d]) /\ PhaseOK(wc'[d], conn'[d])
             /\ Faithful(wc'[d], conn'[d].table, rows')
  <2>1. conn'[d] = conn[d] /\ wc'[d] = wc[d]
    BY <1>1 DEF OnlyMoves
  <2>2. ConnOK(conn[d]) /\ WcOK(wc[d]) /\ PhaseOK(wc[d], conn[d])
        /\ Faithful(wc[d], conn[d].table, rows)
    BY DEF WriteInv
  <2>3. CASE rows' = rows
    BY <2>1, <2>2, <2>3
  <2>4. CASE LockFree(c)
    BY <1>1, <2>1, <2>2, <2>4 DEF LockFree, PhaseOK, Faithful, Working
  <2> QED
    BY <2>3, <2>4
<1>2. ASSUME NEW d \in Conns, NEW e \in Conns, conn'[d].open, conn'[e].open
      PROVE  d = e
  BY <1>2 DEF WriteInv, OnlyMoves, LockFree
<1>3. \A d \in Conns :
          /\ ConnOK(conn'[d]) /\ WcOK(wc'[d]) /\ PhaseOK(wc'[d], conn'[d])
          /\ Faithful(wc'[d], conn'[d].table, rows')
  BY <1>1
<1> QED
  BY <1>2, <1>3 DEF WriteInv, OnlyMoves

\* A batch is submitted.
LEMMA SubmitWrites ==
    ASSUME WriteInv, NEW c \in Conns, NEW kind, NEW writes, NEW next, IsBatch(writes),
           Ready(c), Start(c, kind, writes, next), UNCHANGED svars
    PROVE  WriteInv'
<1>1. wc[c].phase = "idle" /\ ConnOK(conn[c]) /\ PhaseOK(wc[c], conn[c])
  BY DEF WriteInv, Ready
<1>2. OnlyMoves(c) /\ conn'[c] = conn[c]
  BY DEF OnlyMoves, Start, svars, WriteInv
<1>3. wc'[c] = [phase |-> "begin", at |-> 1, writes |-> writes, kind |-> kind,
                next |-> next, res |-> None]
  BY DEF Start, WriteInv
<1>4. WcOK(wc'[c])
  BY <1>3 DEF WcOK, Phases, Working
<1>5. PhaseOK(wc'[c], conn'[c]) /\ Faithful(wc'[c], conn'[c].table, rows')
  BY <1>1, <1>2, <1>3 DEF PhaseOK, Faithful, Working
<1> QED
  BY <1>1, <1>2, <1>4, <1>5, WriteFrame DEF svars

\* A batch is over: its process has no handle any more.
LEMMA EndWrites ==
    ASSUME WriteInv, NEW c \in Conns, OnlyMoves(c), wc'[c] = NoBatch,
           ConnOK(conn'[c]), ~conn'[c].handle,
           conn'[c].open => conn[c].open, rows' = rows \/ conn[c].open
    PROVE  WriteInv'
<1>1. WcOK(wc'[c])
  BY DEF NoBatch, WcOK, Phases, Working
<1>2. PhaseOK(wc'[c], conn'[c]) /\ Faithful(wc'[c], conn'[c].table, rows')
  BY DEF NoBatch, PhaseOK, Faithful, Working
<1>3. conn[c].open => LockFree(c)
  BY DEF WriteInv, LockFree
<1> QED
  BY <1>1, <1>2, <1>3, WriteFrame

\* The connections that calls leave behind.
LEMMA ConnectionShapes ==
    /\ ConnOK(Idle) /\ ConnOK(Closed) /\ ConnOK([Idle EXCEPT !.handle = TRUE])
    /\ \A t : ConnOK(Abandoned(t))
    /\ ~Idle.open /\ ~Closed.open /\ ~[Idle EXCEPT !.handle = TRUE].open
    /\ ~Idle.handle /\ ~Closed.handle /\ \A t : ~Abandoned(t).handle
  BY DEF ConnOK, Idle, Closed, Abandoned

\* A rollback leaves no handle, and the transaction only if it was there.
LEMMA RollbackLeaves ==
    ASSUME WriteInv, NEW c \in Conns, RolledBack(c)
    PROVE  /\ ConnOK(conn'[c]) /\ ~conn'[c].handle
           /\ DOMAIN conn' = Conns /\ \A d \in Conns \ {c} : conn'[d] = conn[d]
<1>1. CASE conn' = [conn EXCEPT ![c] = Idle]
  BY <1>1, ConnectionShapes DEF WriteInv
<1>2. CASE conn' = [conn EXCEPT ![c] = Abandoned(conn[c].table)]
  BY <1>2, ConnectionShapes DEF WriteInv
<1> QED
  BY <1>1, <1>2 DEF RolledBack

\* The outcome of a batch leaves no batch.
LEMMA FinishMoves ==
    ASSUME WriteInv, NEW c \in Conns, NEW res, Finish(c, res)
    PROVE  /\ wc'[c] = NoBatch /\ DOMAIN wc' = Conns
           /\ \A d \in Conns \ {c} : wc'[d] = wc[d]
  BY DEF Finish, WriteInv

\* BEGIN, or the batch ends before it began.
LEMMA BeginWrites ==
    ASSUME WriteInv, NEW c \in Conns, WcBegin(c)
    PROVE  WriteInv'
<1>0. ConnOK(conn[c]) /\ WcOK(wc[c]) /\ PhaseOK(wc[c], conn[c]) /\ wc[c].phase = "begin"
      /\ ~conn[c].handle /\ DOMAIN conn = Conns /\ DOMAIN wc = Conns
  BY DEF WriteInv, WcBegin, PhaseOK, Working
<1>1. CASE Begin(c, Ok) /\ wc' = [wc EXCEPT ![c].phase = "check"]
  <2> DEFINE r == [up |-> TRUE, open |-> TRUE, handle |-> TRUE, table |-> rows]
  <2>1. LockFree(c) /\ conn' = [conn EXCEPT ![c] = r] /\ rows' = rows
    BY <1>1 DEF Begin, Ok, Busy
  <2>2. OnlyMoves(c) /\ conn'[c] = r /\ wc'[c] = [wc[c] EXCEPT !.phase = "check"]
    BY <1>0, <1>1, <2>1 DEF OnlyMoves
  <2>3. ConnOK(r) /\ r.open /\ r.handle /\ r.table = rows
    BY DEF ConnOK
  <2> HIDE DEF r
  <2>4. WcOK(wc'[c]) /\ PhaseOK(wc'[c], conn'[c]) /\ wc'[c].phase = "check"
    BY <1>0, <2>2, <2>3 DEF WcOK, PhaseOK, Phases, Working
  <2>5. Faithful(wc'[c], conn'[c].table, rows')
    BY <2>1, <2>2, <2>3, <2>4 DEF Faithful, Partial, Done
  <2> QED
    BY <2>1, <2>2, <2>3, <2>4, <2>5, WriteFrame
<1>2. CASE Begin(c, Busy) /\ Finish(c, "not_committed")
  <2>1. UNCHANGED <<rows, conn>>
    BY <1>2 DEF Begin, Ok, Busy
  <2> QED
    BY <1>0, <1>2, <2>1, FinishMoves, EndWrites DEF OnlyMoves
<1>3. CASE Refuse(c) /\ Finish(c, "not_committed")
  BY <1>0, <1>3, RollbackLeaves, FinishMoves, EndWrites DEF OnlyMoves, Refuse
<1> QED
  BY <1>1, <1>2, <1>3 DEF WcBegin

\* The checks.
LEMMA CheckWrites ==
    ASSUME WriteInv, NEW c \in Conns, WcCheck(c)
    PROVE  /\ WriteInv' /\ UNCHANGED svars
           /\ \/ wc' = [wc EXCEPT ![c].phase = "write"]
              \/ /\ \E res \in {"conflict", "side_conflict"} : Drop(c, res)
                 /\ ~HoldsIn(Contents, wc[c].writes)
<1> DEFINE w == wc[c]
           t == conn[c].table
           failing == {i \in DOMAIN w.writes :
                         CheckPrecondition(GetRow(t, w.writes[i].name),
                                           w.writes[i].expect) # Ok}
<1>0. /\ ConnOK(conn[c]) /\ WcOK(w) /\ PhaseOK(w, conn[c]) /\ Faithful(w, t, rows)
      /\ w.phase = "check" /\ conn[c].handle /\ conn[c].open
      /\ DOMAIN conn = Conns /\ DOMAIN wc = Conns
  BY DEF WriteInv, WcCheck, PhaseOK, Working
<1>1. IsBatch(w.writes) /\ DOMAIN w.writes = 1..2
  BY <1>0 DEF WcOK, IsBatch
<1>2. UNCHANGED svars
  BY <1>1 DEF WcCheck, TxGet
<1>3. OnlyMoves(c) /\ conn' = conn /\ rows' = rows
  <2>1. IF failing = {} THEN wc' = [wc EXCEPT ![c].phase = "write"]
        ELSE Drop(c, IF 1 \in failing THEN "conflict" ELSE "side_conflict")
    BY DEF WcCheck
  <2> QED
    BY <1>0, <1>2, <2>1 DEF OnlyMoves, svars, Drop
<1>4. \A n \in Names : GetRow(t, n) = GetRow(rows, n)
  BY <1>0 DEF Faithful, Working, Partial, Done
<1>5. \A i \in 1..2 : w.writes[i].name \in Names
  BY <1>1, DurableAssumption DEF IsBatch
<1>6. CASE failing = {}
  <2>1. wc' = [wc EXCEPT ![c].phase = "write"]
    BY <1>6 DEF WcCheck
  <2>2. wc'[c] = [w EXCEPT !.phase = "write"]
    BY <1>0, <2>1
  <2>3. WcOK(wc'[c]) /\ PhaseOK(wc'[c], conn'[c]) /\ wc'[c].phase = "write"
        /\ wc'[c].writes = w.writes /\ wc'[c].at = 1
    BY <1>0, <1>3, <2>2 DEF WcOK, PhaseOK, Phases, Working
  <2>4. \A i \in 1..2 : CheckPrecondition(GetRow(rows, w.writes[i].name),
                                          w.writes[i].expect) = Ok
    BY <1>1, <1>4, <1>5, <1>6
  <2>5. Faithful(wc'[c], conn'[c].table, rows')
    BY <1>3, <1>4, <2>3, <2>4 DEF Faithful, Partial, Done
  <2> QED
    BY <1>0, <1>2, <1>3, <2>1, <2>3, <2>5, WriteFrame
<1>7. CASE failing # {}
  <2>1. PICK res \in {"conflict", "side_conflict"} : Drop(c, res)
    BY <1>7 DEF WcCheck
  <2>2. wc'[c] = [w EXCEPT !.phase = "drop", !.res = res]
    BY <1>0, <2>1 DEF Drop
  <2>3. WcOK(wc'[c]) /\ PhaseOK(wc'[c], conn'[c]) /\ wc'[c].phase = "drop"
    BY <1>0, <1>3, <2>2 DEF WcOK, PhaseOK, Phases, Working
  <2>4. Faithful(wc'[c], conn'[c].table, rows')
    BY <2>3 DEF Faithful, Working
  <2>5. ~HoldsIn(Contents, w.writes)
    BY <1>1, <1>4, <1>5, <1>7 DEF HoldsIn, Contents
  <2> QED
    BY <1>0, <1>2, <1>3, <2>1, <2>3, <2>4, <2>5, WriteFrame
<1> QED
  BY <1>6, <1>7

\* One write of the batch goes into the transaction.
LEMMA OneWrite ==
    ASSUME WriteInv, NEW c \in Conns, WcWrite(c)
    PROVE  /\ WriteInv' /\ rows' = rows
           /\ \/ wc' = [wc EXCEPT ![c].phase = "commit"]
              \/ wc' = [wc EXCEPT ![c].at = @ + 1]
<1> DEFINE w == wc[c]
           t == conn[c].table
           x == w.writes[w.at]
<1>0. /\ ConnOK(conn[c]) /\ WcOK(w) /\ PhaseOK(w, conn[c]) /\ Faithful(w, t, rows)
      /\ w.phase = "write" /\ conn[c].handle /\ conn[c].open
      /\ DOMAIN conn = Conns /\ DOMAIN wc = Conns
  BY DEF WriteInv, WcWrite, PhaseOK, Working
<1>1. IsBatch(w.writes) /\ w.at \in 1..2 /\ Len(w.writes) = 2
  BY <1>0 DEF WcOK, IsBatch
<1>2. /\ x.action.kind \in {"Put", "Delete", "Check"}
      /\ x.name \in Names /\ SessionName # SideName /\ Names = {SessionName, SideName}
      /\ x.name = IF w.at = 1 THEN SessionName ELSE SideName
  BY <1>1, DurableAssumption DEF IsBatch
<1>3. /\ rows' = rows /\ DOMAIN conn' = Conns
      /\ \A d \in Conns \ {c} : conn'[d] = conn[d]
      /\ ConnOK(conn'[c]) /\ conn'[c].open /\ conn'[c].handle
      /\ \A n \in Names : GetRow(conn'[c].table, n) =
            IF n = x.name THEN Result(x, GetRow(t, n)) ELSE GetRow(t, n)
  <2>1. CASE x.action.kind = "Put"
    <3>1. /\ rows' = rows
          /\ conn' = [conn EXCEPT ![c].table = PutRow(t, x.name, x.action.value)]
      BY <2>1 DEF WcWrite, TxPut, TxStatement
    <3>2. conn'[c] = [conn[c] EXCEPT !.table = PutRow(t, x.name, x.action.value)]
      BY <1>0, <3>1
    <3>3. conn'[c].table = PutRow(t, x.name, x.action.value)
      BY <1>0, <3>2 DEF ConnOK
    <3>4. \A n \in Names : GetRow(conn'[c].table, n) =
             IF n = x.name THEN x.action.value ELSE GetRow(t, n)
      <4> DEFINE v == x.action.value
                 nm == x.name
      <4>1. nm \in Names /\ conn'[c].table = PutRow(t, nm, v)
        BY <1>2, <3>3
      <4> HIDE DEF v, nm
      <4>2. \A n \in Names : GetRow(PutRow(t, nm, v), n) = IF n = nm THEN v ELSE GetRow(t, n)
        BY <4>1, PutGet
      <4> QED
        BY <4>1, <4>2 DEF v, nm
    <3> QED
      BY <1>0, <2>1, <3>1, <3>2, <3>4 DEF ConnOK, Result
  <2>2. CASE x.action.kind = "Delete"
    <3>1. /\ rows' = rows
          /\ conn' = [conn EXCEPT ![c].table = DeleteRow(t, x.name)]
      BY <2>2 DEF WcWrite, TxDelete, TxStatement
    <3>2. conn'[c] = [conn[c] EXCEPT !.table = DeleteRow(t, x.name)]
      BY <1>0, <3>1
    <3>3. conn'[c].table = DeleteRow(t, x.name)
      BY <1>0, <3>2 DEF ConnOK
    <3>4. \A n \in Names : GetRow(conn'[c].table, n) =
             IF n = x.name THEN NotFound ELSE GetRow(t, n)
      BY <1>2, <3>3, DeleteGet
    <3> QED
      BY <1>0, <2>2, <3>1, <3>2, <3>4 DEF ConnOK, Result
  <2>3. CASE x.action.kind = "Check"
    <3>1. UNCHANGED svars
      BY <2>3 DEF WcWrite
    <3> QED
      BY <1>0, <2>3, <3>1 DEF svars, Result
  <2> QED
    BY <1>2, <2>1, <2>2, <2>3
<1>4. CASE w.at = 2
  <2>1. wc' = [wc EXCEPT ![c].phase = "commit"]
    BY <1>1, <1>4 DEF WcWrite
  <2>2. wc'[c] = [w EXCEPT !.phase = "commit"] /\ OnlyMoves(c)
    BY <1>0, <1>3, <2>1 DEF OnlyMoves
  <2>3. /\ WcOK(wc'[c]) /\ PhaseOK(wc'[c], conn'[c]) /\ wc'[c].phase = "commit"
        /\ wc'[c].writes = w.writes
    BY <1>0, <1>3, <2>2 DEF WcOK, PhaseOK, Phases, Working
  <2>4. \A n \in Names : GetRow(t, n) = IF n = SessionName
             THEN Result(w.writes[1], GetRow(rows, n)) ELSE GetRow(rows, n)
    BY <1>0, <1>4 DEF Faithful, Working, Partial, Done
  <2>5. Faithful(wc'[c], conn'[c].table, rows')
    BY <1>0, <1>2, <1>3, <1>4, <2>3, <2>4 DEF Faithful, Working, Partial, Done
  <2> QED
    BY <1>0, <1>3, <2>1, <2>2, <2>3, <2>5, WriteFrame
<1>5. CASE w.at = 1
  <2>1. wc' = [wc EXCEPT ![c].at = @ + 1]
    BY <1>1, <1>5 DEF WcWrite
  <2>2. wc'[c] = [w EXCEPT !.at = 2] /\ OnlyMoves(c)
    BY <1>0, <1>3, <1>5, <2>1 DEF OnlyMoves
  <2>3. /\ WcOK(wc'[c]) /\ PhaseOK(wc'[c], conn'[c]) /\ wc'[c].phase = "write"
        /\ wc'[c].writes = w.writes /\ wc'[c].at = 2
    BY <1>0, <1>3, <2>2 DEF WcOK, PhaseOK, Phases, Working
  <2>4. \A n \in Names : GetRow(t, n) = GetRow(rows, n)
    BY <1>0, <1>5 DEF Faithful, Working, Partial, Done
  <2>5. Faithful(wc'[c], conn'[c].table, rows')
    BY <1>0, <1>2, <1>3, <1>5, <2>3, <2>4 DEF Faithful, Working, Partial, Done
  <2> QED
    BY <1>0, <1>3, <2>1, <2>2, <2>3, <2>5, WriteFrame
<1> QED
  BY <1>1, <1>4, <1>5

\* A statement fails.
LEMMA ErrorWrites ==
    ASSUME WriteInv, NEW c \in Conns, WcError(c)
    PROVE  WriteInv'
<1>0. /\ ConnOK(conn[c]) /\ WcOK(wc[c]) /\ wc[c].phase \in {"check", "write"}
      /\ DOMAIN conn = Conns /\ DOMAIN wc = Conns /\ conn[c].open
  BY DEF WriteInv, WcError, TxFails
<1>1. /\ ConnOK(conn'[c]) /\ rows' = rows /\ DOMAIN conn' = Conns
      /\ \A d \in Conns \ {c} : conn'[d] = conn[d]
  BY <1>0, ConnectionShapes DEF WcError, TxFails
<1>2. wc'[c] = [wc[c] EXCEPT !.phase = "drop", !.res = "not_committed"] /\ OnlyMoves(c)
  BY <1>0, <1>1 DEF WcError, Drop, OnlyMoves
<1>3. WcOK(wc'[c]) /\ wc'[c].phase = "drop"
  BY <1>0, <1>2 DEF WcOK, Phases, Working
<1>4. PhaseOK(wc'[c], conn'[c]) /\ Faithful(wc'[c], conn'[c].table, rows')
  BY <1>3 DEF PhaseOK, Faithful, Working
<1> QED
  BY <1>0, <1>1, <1>2, <1>3, <1>4, WriteFrame

\* The transaction committed: the table is the batch applied to what it was.
Applied(c) ==
    /\ wc[c].phase = "commit"
    /\ HoldsIn(Contents, wc[c].writes)
    /\ Contents' = ApplyTo(Contents, wc[c].writes)

\* Partial results of a whole batch are its application.
LEMMA CommittedIsApplied ==
    ASSUME WriteInv, NEW c \in Conns, wc[c].phase = "commit", rows' = conn[c].table
    PROVE  Applied(c)
<1> DEFINE w == wc[c]
           b == wc[c].writes
<1>0. Faithful(w, conn[c].table, rows) /\ WcOK(w)
  BY DEF WriteInv
<1>1. IsBatch(b) /\ DOMAIN b = 1..2
  BY <1>0 DEF WcOK, IsBatch
<1>2. /\ SessionName # SideName /\ Names = {SessionName, SideName}
      /\ \A i \in 1..2 : b[i].name \in Names
  BY <1>1, DurableAssumption DEF IsBatch
<1>3. HoldsIn(Contents, b)
  BY <1>0, <1>1, <1>2 DEF HoldsIn, Contents, Faithful
<1>4. ASSUME NEW n \in Names
      PROVE  GetRow(rows', n) = ApplyTo(Contents, b)[n]
  <2> DEFINE i == IF n = SessionName THEN 1 ELSE 2
             puts == {k \in DOMAIN b : b[k].name = n /\ b[k].action.kind # "Check"}
  <2>1. GetRow(rows', n) = Result(b[i], GetRow(rows, n))
    BY <1>0, <1>2 DEF Faithful, Working, Partial, Done
  <2>2. \A k \in 1..2 : b[k].name = n => k = i
    BY <1>1, <1>2 DEF IsBatch
  <2>3. b[i].name = n
    BY <1>1, <1>2 DEF IsBatch
  <2>4. Contents[n] = GetRow(rows, n)
    BY DEF Contents
  <2>5. CASE b[i].action.kind = "Check"
    <3>1. puts = {}
      BY <1>1, <2>2, <2>5
    <3> QED
      BY <2>1, <2>4, <2>5, <3>1 DEF ApplyTo, Result
  <2>6. CASE b[i].action.kind # "Check"
    <3>1. puts = {i}
      BY <1>1, <2>2, <2>3, <2>6
    <3>2. (CHOOSE k \in puts : \A j \in puts : j <= k) = i
      BY <3>1
    <3>3. ApplyTo(Contents, b)[n] =
            IF b[i].action.kind = "Put" THEN b[i].action.value ELSE NotFound
      <4> DEFINE last == CHOOSE k \in puts : \A j \in puts : j <= k
      <4>1. ApplyTo(Contents, b)[n] =
              IF puts = {} THEN Contents[n]
              ELSE IF b[last].action.kind = "Put" THEN b[last].action.value ELSE NotFound
        BY DEF ApplyTo
      <4>2. puts # {} /\ last = i
        BY <3>1, <3>2
      <4> HIDE DEF puts, last
      <4> QED
        BY <4>1, <4>2
    <3>4. b[i].action.kind \in {"Put", "Delete"}
      BY <1>1, <2>6 DEF IsBatch
    <3> QED
      BY <2>1, <3>3, <3>4 DEF Result
  <2> QED
    BY <2>5, <2>6
<1>5. Contents' = ApplyTo(Contents, b)
  BY <1>4 DEF Contents, ApplyTo
<1> QED
  BY <1>3, <1>5 DEF Applied

\* The transaction is dropped, with the result known.
LEMMA DropWrites ==
    ASSUME WriteInv, NEW c \in Conns, WcDrop(c)
    PROVE  WriteInv' /\ rows' = rows
<1>0. conn[c].handle /\ DOMAIN conn = Conns /\ rows' = rows /\ Finish(c, wc[c].res)
  BY DEF WcDrop, Rollback, WriteInv
<1>1. CASE conn[c].open
  BY <1>0, <1>1, RollbackLeaves, FinishMoves, EndWrites DEF OnlyMoves, WcDrop, Rollback
<1>2. CASE ~conn[c].open
  <2>1. conn' = [conn EXCEPT ![c] = Idle]
    BY <1>2 DEF WcDrop, Rollback
  <2> QED
    BY <1>0, <2>1, ConnectionShapes, FinishMoves, EndWrites DEF OnlyMoves
<1> QED
  BY <1>0, <1>1, <1>2

\* COMMIT: the batch took effect whole, or not at all and that is not told.
LEMMA CommitWrites ==
    ASSUME WriteInv, NEW c \in Conns, WcCommit(c)
    PROVE  /\ WriteInv'
           /\ \/ Finish(c, "ok") /\ Applied(c)
              \/ Finish(c, "unknown") /\ (Applied(c) \/ rows' = rows)
<1>0. /\ wc[c].phase = "commit" /\ conn[c].open /\ conn[c].handle
      /\ DOMAIN conn = Conns
  BY DEF WriteInv, WcCommit, PhaseOK, Working
<1>1. PICK res \in {"ok", "unknown"} :
        Finish(c, res) /\ Commit(c, IF res = "ok" THEN Ok ELSE Err)
  BY DEF WcCommit
<1>2. CASE rows' = conn[c].table /\ conn' = [conn EXCEPT ![c] = Idle]
  <2>1. WriteInv'
    BY <1>0, <1>1, <1>2, ConnectionShapes, FinishMoves, EndWrites DEF OnlyMoves
  <2> QED
    BY <1>0, <1>1, <1>2, <2>1, CommittedIsApplied
<1>3. CASE res = "unknown" /\ RolledBack(c) /\ rows' = rows
  <2>1. WriteInv'
    BY <1>0, <1>1, <1>3, RollbackLeaves, FinishMoves, EndWrites DEF OnlyMoves
  <2> QED
    BY <1>1, <1>3, <2>1
<1> QED
  BY <1>0, <1>1, <1>2, <1>3 DEF Commit, Ok, Err

\* The process dies, in COMMIT or elsewhere.
LEMMA DieWrites ==
    ASSUME WriteInv, NEW c \in Conns, ProcessDies(c)
    PROVE  /\ WriteInv' /\ OnlyMoves(c) /\ wc'[c] = NoBatch
           /\ rows' = rows \/ Applied(c)
<1>0. /\ DOMAIN conn = Conns /\ conn' = [conn EXCEPT ![c] = Closed]
      /\ wc' = [wc EXCEPT ![c] = NoBatch] /\ DOMAIN wc = Conns
  BY DEF ProcessDies, Crash, CrashInCommit, WriteInv
<1>1. OnlyMoves(c) /\ wc'[c] = NoBatch /\ conn'[c] = Closed
  BY <1>0 DEF OnlyMoves
<1>2. rows' = rows \/ (wc[c].phase = "commit" /\ conn[c].open /\ rows' = conn[c].table)
  BY DEF ProcessDies, Crash, CrashInCommit
<1>3. rows' = rows \/ Applied(c)
  BY <1>2, CommittedIsApplied
<1>4. WriteInv'
  BY <1>1, <1>2, ConnectionShapes, EndWrites
<1> QED
  BY <1>1, <1>3, <1>4

\* A step that starts or moves no batch, and changes the table only while nobody
\* has a transaction.
LEMMA OtherWrites ==
    ASSUME WriteInv, wc' = wc,
           \/ UNCHANGED svars
           \/ \E c \in Conns : Acknowledge(c) \/ Blocked(c) \/ ProcessOpens(c)
           \/ FileDamaged
    PROVE  WriteInv'
<1>1. CASE UNCHANGED svars
  BY <1>1 DEF svars, WriteInv
<1>2. CASE conn' = conn /\ \A d \in Conns : ~conn[d].open
  BY <1>2 DEF WriteInv, Faithful, PhaseOK, Working
<1>3. ASSUME NEW c \in Conns, Acknowledge(c)
      PROVE  WriteInv'
  <2>1. conn' = conn /\ ~conn[c].open
    BY <1>3 DEF Acknowledge, Delete, EnsureNoOpenTransaction, Autocommit
  <2>2. CASE rows' = rows
    BY <2>1, <2>2 DEF WriteInv
  <2>3. CASE LockFree(c)
    BY <1>2, <2>1, <2>3 DEF LockFree
  <2> QED
    BY <1>3, <2>2, <2>3 DEF Acknowledge, Delete, Autocommit
<1>4. ASSUME NEW c \in Conns, Blocked(c) \/ ProcessOpens(c)
      PROVE  WriteInv'
  <2>1. /\ rows' = rows /\ DOMAIN conn' = Conns /\ ConnOK(conn'[c]) /\ ~conn'[c].handle
        /\ \A d \in Conns \ {c} : conn'[d] = conn[d]
        /\ conn'[c].open => conn[c].open \/ LockFree(c)
    BY <1>4, RollbackLeaves, ConnectionShapes
       DEF Blocked, Refuse, ProcessOpens, Open, WriteInv
  <2>2. OnlyMoves(c) /\ wc'[c] = wc[c]
    BY <2>1 DEF OnlyMoves, WriteInv
  <2>3. wc[c].phase \notin Working /\ WcOK(wc[c])
    BY <1>4 DEF Blocked, Ready, ProcessOpens, Open, WriteInv, PhaseOK, ConnOK,
               Working
  <2>4. PhaseOK(wc'[c], conn'[c]) /\ Faithful(wc'[c], conn'[c].table, rows')
    BY <2>1, <2>2, <2>3 DEF PhaseOK, Faithful, Working
  <2> QED
    BY <2>1, <2>2, <2>3, <2>4, WriteFrame
<1>5. CASE FileDamaged
  BY <1>2, <1>5 DEF FileDamaged, Damage
<1> QED
  BY <1>1, <1>3, <1>4, <1>5

\* The operations submit batches.
LEMMA OperationsSubmit ==
    ASSUME NEW c \in Conns,
           \/ Create(c) \/ Remove(c)
           \/ \E t \in staged[c] :
                \E side \in SideWrites(Contents[SideName], SideOf(t.rec)) :
                    CommitWith(c, t, side) \/ PromoteWith(c, t, side)
    PROVE  /\ UNCHANGED svars /\ Ready(c)
           /\ \/ UNCHANGED wc
              \/ \E kind, writes, next : IsBatch(writes) /\ Start(c, kind, writes, next)
<1>1. CASE Create(c)
  <2> DEFINE rec == Rec(established + 1, "Initiator", <<>>)
             x == Write(SessionName, Absent, DoPut(rec))
             y == Write(SideName, Absent, DoPut(SideOf(rec)))
             next == [rec |-> rec, status |-> "Active", prov |-> FALSE]
  <2>1. /\ x.name = SessionName /\ y.name = SideName
        /\ x.action.kind = "Put" /\ y.action.kind = "Put"
    BY DEF Write, DoPut
  <2>2. Start(c, "create", Batch(x, <<y>>), next) /\ UNCHANGED svars /\ Ready(c)
    BY <1>1 DEF Create
  <2> HIDE DEF x, y, next
  <2>3. Batch(x, <<y>>) = <<x, y>>
    BY PairConcat DEF Batch
  <2>4. IsBatch(Batch(x, <<y>>))
    BY <2>1, <2>3 DEF IsBatch
  <2> QED
    BY <2>2, <2>4
<1>2. CASE Remove(c)
  <2> DEFINE x == Write(SessionName, Exactly(inst[c].rec), DoDelete)
             y == Write(SideName, Unconditional, DoDelete)
  <2>1. /\ x.name = SessionName /\ y.name = SideName
        /\ x.action.kind = "Delete" /\ y.action.kind = "Delete"
    BY DEF Write, DoDelete
  <2>2. Start(c, "remove", <<x, y>>, None) /\ UNCHANGED svars /\ Ready(c)
    BY <1>2 DEF Remove
  <2> HIDE DEF x, y
  <2>3. IsBatch(<<x, y>>)
    BY <2>1 DEF IsBatch
  <2> QED
    BY <2>2, <2>3
<1>3. ASSUME NEW t \in staged[c],
             NEW side \in SideWrites(Contents[SideName], SideOf(t.rec)),
             CommitWith(c, t, side)
      PROVE  /\ UNCHANGED svars /\ Ready(c)
             /\ \/ UNCHANGED wc
                \/ \E kind, writes, next : IsBatch(writes) /\ Start(c, kind, writes, next)
  <2> DEFINE x == Write(SessionName, Predecessor(inst[c].rec), DoPut(t.rec))
  <2>1. x.name = SessionName /\ x.action.kind = "Put"
    BY DEF Write, DoPut
  <2>2. /\ UNCHANGED svars /\ Ready(c)
        /\ UNCHANGED wc \/ (~SideRefused(x, side) /\ Start(c, "commit", Batch(x, side), t))
    BY <1>3 DEF CommitWith
  <2> HIDE DEF x
  <2> QED
    BY <2>1, <2>2, AcceptedSide
<1>4. ASSUME NEW t \in staged[c],
             NEW side \in SideWrites(Contents[SideName], SideOf(t.rec)),
             PromoteWith(c, t, side)
      PROVE  /\ UNCHANGED svars /\ Ready(c)
             /\ \/ UNCHANGED wc
                \/ \E kind, writes, next : IsBatch(writes) /\ Start(c, kind, writes, next)
  <2> DEFINE x == Write(SessionName, Absent, DoPut(t.rec))
  <2>1. x.name = SessionName /\ x.action.kind = "Put"
    BY DEF Write, DoPut
  <2>2. /\ UNCHANGED svars /\ Ready(c)
        /\ UNCHANGED wc \/ (~SideRefused(x, side) /\ Start(c, "promote", Batch(x, side), t))
    BY <1>4 DEF PromoteWith
  <2> HIDE DEF x
  <2> QED
    BY <2>1, <2>2, AcceptedSide
<1> QED
  BY <1>1, <1>2, <1>3, <1>4

\* The initial states.
LEMMA InitWrites == Init => WriteInv
<1> SUFFICES ASSUME Init PROVE WriteInv
  OBVIOUS
<1>1. WcOK(NoBatch) /\ PhaseOK(NoBatch, Closed)
  BY DEF WcOK, PhaseOK, NoBatch, Closed, Phases, Working
<1>2. \A base : Faithful(NoBatch, Closed.table, base)
  BY DEF Faithful, NoBatch, Working
<1> QED
  BY <1>1, <1>2, ConnectionShapes DEF Init, StorageInit, WriteInv

\* Every step keeps the invariant of write_conditional.
LEMMA NextWrites == WriteInv /\ [Next]_dvars => WriteInv'
<1> SUFFICES ASSUME WriteInv, [Next]_dvars PROVE WriteInv'
  OBVIOUS
<1>1. ASSUME NEW c \in Conns,
             \/ Create(c) \/ Remove(c)
             \/ \E t \in staged[c] :
                  \E side \in SideWrites(Contents[SideName], SideOf(t.rec)) :
                      CommitWith(c, t, side) \/ PromoteWith(c, t, side)
      PROVE  WriteInv'
  BY <1>1, OperationsSubmit, SubmitWrites, OtherWrites
<1>2. ASSUME NEW c \in Conns,
             \/ WcBegin(c) \/ WcCheck(c) \/ WcWrite(c) \/ WcError(c)
             \/ WcDrop(c) \/ WcCommit(c) \/ ProcessDies(c)
      PROVE  WriteInv'
  BY <1>2, BeginWrites, CheckWrites, OneWrite, ErrorWrites, DropWrites, CommitWrites,
     DieWrites
<1>3. ASSUME NEW c \in Conns,
             NewProvisional(c) \/ Load(c) \/ \E m \in Messages : Stage(c, m)
      PROVE  WriteInv'
  BY <1>3, OtherWrites DEF NewProvisional, Load, Stage, Get
<1>4. ASSUME NEW c \in Conns, Acknowledge(c) \/ Blocked(c) \/ ProcessOpens(c)
      PROVE  WriteInv'
  BY <1>4, OtherWrites DEF Acknowledge, Blocked, ProcessOpens
<1>5. CASE FileDamaged
  BY <1>5, OtherWrites DEF FileDamaged
<1>6. CASE UNCHANGED dvars
  BY <1>6, OtherWrites DEF dvars
<1> QED
  BY <1>1, <1>2, <1>3, <1>4, <1>5, <1>6 DEF Next

-----------------------------------------------------------------------------
(* write_conditional implements one conditional write.                     *)

\* What the abstract store knows of a batch.
Standing(w) ==
    CASE w.phase = "idle" -> "none"
      [] w.res \in {"conflict", "side_conflict"} -> "conflict"
      [] OTHER -> "running"

Batches == [c \in Conns |-> wc[c].writes]
Standings == [c \in Conns |-> Standing(wc[c])]

\* The abstract actions, over the state they are instantiated with.
LEMMA AbstractSteps ==
    ASSUME NEW c \in Conns
    PROVE  /\ \A how : Promise!Ends(c, how) <=>
                /\ Standings' = [Standings EXCEPT ![c] = how]
                /\ \A d \in Conns \ {c} : Batches'[d] = Batches[d]
           /\ Promise!Submit(c) <=>
                /\ Standings[c] # "running" /\ Promise!Ends(c, "running")
                /\ UNCHANGED Contents
           /\ Promise!Write(c) <=>
                /\ Standings[c] = "running" /\ HoldsIn(Contents, Batches[c])
                /\ Contents' = ApplyTo(Contents, Batches[c])
                /\ Promise!Ends(c, "none")
           /\ Promise!Conflict(c) <=>
                /\ Standings[c] = "running" /\ ~HoldsIn(Contents, Batches[c])
                /\ Promise!Ends(c, "conflict") /\ UNCHANGED Contents
           /\ Promise!Leave(c) <=> Promise!Ends(c, "none") /\ UNCHANGED Contents
  BY DEF Promise!Ends, Promise!Submit, Promise!Write, Promise!Conflict, Promise!Leave,
         Standings, Standing, Batches

\* The batch of one process moves on.
LEMMA StandingMoves ==
    ASSUME NEW c \in Conns, \A d \in Conns \ {c} : wc'[d] = wc[d],
           NEW how, Standing(wc'[c]) = how
    PROVE  Promise!Ends(c, how)
<1>1. Standings' = [Standings EXCEPT ![c] = how]
  BY DEF Standings
<1>2. \A d \in Conns \ {c} : Batches'[d] = Batches[d]
  BY DEF Batches
<1> QED
  BY <1>1, <1>2, AbstractSteps

\* A step that the abstract store does not see.
LEMMA Unseen ==
    ASSUME UNCHANGED rows,
           \A c \in Conns : wc'[c].writes = wc[c].writes /\ Standing(wc'[c]) = Standing(wc[c])
    PROVE  UNCHANGED Promise!vars
<1>1. UNCHANGED <<Contents, Batches, Standings>>
  BY DEF Contents, Batches, Standings
<1> QED
  BY <1>1 DEF Promise!vars, Batches, Standings, Standing

\* A batch that is over stands for nothing.
LEMMA FinishLeaves ==
    ASSUME WriteInv, NEW c \in Conns, wc'[c] = NoBatch,
           \A d \in Conns \ {c} : wc'[d] = wc[d]
    PROVE  /\ rows' = rows => Promise!Leave(c)
           /\ Applied(c) => Promise!Write(c)
<1>0. Standing(wc'[c]) = "none"
  BY DurableAssumption DEF Standing, NoBatch
<1>1. Promise!Ends(c, "none")
  BY <1>0, StandingMoves
<1>2. rows' = rows => UNCHANGED Contents
  BY DEF Contents
<1>3. Applied(c) => Standings[c] = "running" /\ Batches[c] = wc[c].writes
  BY DurableAssumption DEF Applied, Standings, Standing, Batches, WriteInv, WcOK, Working
<1> QED
  BY <1>1, <1>2, <1>3, AbstractSteps DEF Applied

\* Every step of write_conditional, and of what is around it, is a step of the
\* abstract store or is not seen there.
LEMMA NextPromise == WriteInv /\ [Next]_dvars => [Promise!Next]_(Promise!vars)
<1> SUFFICES ASSUME WriteInv, [Next]_dvars PROVE Promise!Next \/ UNCHANGED Promise!vars
  OBVIOUS
<1> DEFINE Goal == Promise!Next \/ UNCHANGED Promise!vars
<1>0. \A c \in Conns :
        Promise!Submit(c) \/ Promise!Write(c) \/ Promise!Conflict(c) \/ Promise!Leave(c) => Goal
  BY DEF Promise!Next
<1>a. ASSUME wc' = wc, rows' = rows
      PROVE  Goal
  BY <1>a, Unseen
<1> SUFFICES Goal
  OBVIOUS
<1> HIDE DEF Goal
<1>1. ASSUME NEW c \in Conns,
             \/ Create(c) \/ Remove(c)
             \/ \E t \in staged[c] :
                  \E side \in SideWrites(Contents[SideName], SideOf(t.rec)) :
                      CommitWith(c, t, side) \/ PromoteWith(c, t, side)
      PROVE  Goal
  <2>1. UNCHANGED svars /\ Ready(c)
    BY <1>1, OperationsSubmit
  <2>2. CASE UNCHANGED wc
    BY <1>a, <2>1, <2>2 DEF svars
  <2>3. ASSUME NEW kind, NEW writes, NEW next, Start(c, kind, writes, next)
        PROVE  Promise!Submit(c)
    <3>1. /\ \A d \in Conns \ {c} : wc'[d] = wc[d]
          /\ wc'[c].phase = "begin" /\ wc'[c].res = None
      BY <2>3 DEF Start, WriteInv
    <3>2. Standing(wc'[c]) = "running"
      BY <3>1, DurableAssumption DEF Standing
    <3>3. Standings[c] # "running"
      BY <2>1 DEF Standings, Standing, Ready
    <3>4. UNCHANGED Contents
      BY <2>1 DEF Contents, svars
    <3> QED
      BY <3>1, <3>2, <3>3, <3>4, StandingMoves, AbstractSteps
  <2> QED
    BY <1>0, <1>1, <2>2, <2>3, OperationsSubmit
<1>2. ASSUME NEW c \in Conns, WcBegin(c)
      PROVE  Goal
  <2>1. rows' = rows
    BY <1>2 DEF WcBegin, Begin, Refuse
  <2>2. CASE wc' = [wc EXCEPT ![c].phase = "check"]
    <3>1. wc[c].phase = "begin" /\ WcOK(wc[c]) /\ DOMAIN wc = Conns
      BY <1>2 DEF WcBegin, WriteInv
    <3>2. wc'[c] = [wc[c] EXCEPT !.phase = "check"] /\ \A d \in Conns \ {c} : wc'[d] = wc[d]
      BY <2>2, <3>1
    <3>3. wc'[c].writes = wc[c].writes /\ Standing(wc'[c]) = Standing(wc[c])
      BY <3>1, <3>2 DEF WcOK, Standing
    <3> QED
      BY <2>1, <3>2, <3>3, Unseen DEF Goal
  <2>3. CASE Finish(c, "not_committed")
    BY <1>0, <2>1, <2>3, FinishMoves, FinishLeaves
  <2> QED
    BY <1>2, <2>2, <2>3 DEF WcBegin
<1>3. ASSUME NEW c \in Conns, WcCheck(c)
      PROVE  Goal
  <2>0. UNCHANGED svars /\ wc[c].phase = "check" /\ WcOK(wc[c]) /\ DOMAIN wc = Conns
    BY <1>3, CheckWrites DEF WcCheck, WriteInv
  <2>1. CASE wc' = [wc EXCEPT ![c].phase = "write"]
    <3>1. wc'[c] = [wc[c] EXCEPT !.phase = "write"] /\ \A d \in Conns \ {c} : wc'[d] = wc[d]
      BY <2>0, <2>1
    <3>2. wc'[c].writes = wc[c].writes /\ Standing(wc'[c]) = Standing(wc[c])
      BY <2>0, <3>1 DEF WcOK, Standing
    <3> QED
      BY <2>0, <3>1, <3>2, Unseen DEF Goal, svars
  <2>2. ASSUME NEW res \in {"conflict", "side_conflict"}, Drop(c, res),
               ~HoldsIn(Contents, wc[c].writes)
        PROVE  Promise!Conflict(c)
    <3>1. /\ wc'[c] = [wc[c] EXCEPT !.phase = "drop", !.res = res]
          /\ \A d \in Conns \ {c} : wc'[d] = wc[d]
      BY <2>0, <2>2 DEF Drop
    <3>2. Standing(wc'[c]) = "conflict"
      BY <2>0, <3>1 DEF WcOK, Standing
    <3>3. Standings[c] = "running" /\ Batches[c] = wc[c].writes
      BY <2>0, DurableAssumption DEF Standings, Standing, Batches, WcOK, Working
    <3>4. UNCHANGED Contents
      BY <2>0 DEF Contents, svars
    <3> QED
      BY <2>2, <3>1, <3>2, <3>3, <3>4, StandingMoves, AbstractSteps
  <2> QED
    BY <1>0, <1>3, <2>1, <2>2, CheckWrites
<1>4. ASSUME NEW c \in Conns, WcWrite(c)
      PROVE  Goal
  <2>0. rows' = rows /\ wc[c].phase = "write" /\ WcOK(wc[c]) /\ DOMAIN wc = Conns
    BY <1>4, OneWrite DEF WcWrite, WriteInv
  <2>1. CASE wc' = [wc EXCEPT ![c].phase = "commit"]
    <3>1. wc'[c] = [wc[c] EXCEPT !.phase = "commit"] /\ \A d \in Conns \ {c} : wc'[d] = wc[d]
      BY <2>0, <2>1
    <3>2. wc'[c].writes = wc[c].writes /\ Standing(wc'[c]) = Standing(wc[c])
      BY <2>0, <3>1 DEF WcOK, Standing
    <3> QED
      BY <2>0, <3>1, <3>2, Unseen DEF Goal
  <2>2. CASE wc' = [wc EXCEPT ![c].at = @ + 1]
    <3>1. wc'[c] = [wc[c] EXCEPT !.at = @ + 1] /\ \A d \in Conns \ {c} : wc'[d] = wc[d]
      BY <2>0, <2>2
    <3>2. wc'[c].writes = wc[c].writes /\ Standing(wc'[c]) = Standing(wc[c])
      BY <2>0, <3>1 DEF WcOK, Standing
    <3> QED
      BY <2>0, <3>1, <3>2, Unseen DEF Goal
  <2> QED
    BY <1>4, <2>1, <2>2, OneWrite
<1>5. ASSUME NEW c \in Conns, WcError(c)
      PROVE  Goal
  <2>0. /\ rows' = rows /\ wc[c].phase \in {"check", "write"} /\ WcOK(wc[c])
        /\ DOMAIN wc = Conns
    BY <1>5 DEF WcError, TxFails, WriteInv
  <2>1. /\ wc'[c] = [wc[c] EXCEPT !.phase = "drop", !.res = "not_committed"]
        /\ \A d \in Conns \ {c} : wc'[d] = wc[d]
    BY <1>5, <2>0 DEF WcError, Drop
  <2>2. wc'[c].writes = wc[c].writes /\ Standing(wc'[c]) = Standing(wc[c])
    BY <2>0, <2>1, DurableAssumption DEF WcOK, Standing, Working
  <2> QED
    BY <2>0, <2>1, <2>2, Unseen DEF Goal
<1>6. ASSUME NEW c \in Conns, WcDrop(c) \/ WcCommit(c) \/ ProcessDies(c)
      PROVE  Goal
  <2>1. CASE WcDrop(c)
    BY <1>0, <2>1, DropWrites, FinishMoves, FinishLeaves DEF WcDrop
  <2>2. CASE WcCommit(c)
    BY <1>0, <2>2, CommitWrites, FinishMoves, FinishLeaves
  <2>3. CASE ProcessDies(c)
    BY <1>0, <2>3, DieWrites, FinishLeaves DEF OnlyMoves
  <2> QED
    BY <1>6, <2>1, <2>2, <2>3
<1>7. ASSUME NEW c \in Conns,
             \/ NewProvisional(c) \/ Load(c) \/ Blocked(c) \/ ProcessOpens(c)
             \/ \E m \in Messages : Stage(c, m)
      PROVE  Goal
  BY <1>7, <1>a DEF NewProvisional, Load, Stage, Get, Blocked, Refuse, ProcessOpens, Open, svars
<1>8. ASSUME UNCHANGED wc, NEW n \in Names, GetRow(rows', n) \in {NotFound, Decryption},
             \A m \in Names \ {n} : GetRow(rows', m) = GetRow(rows, m)
      PROVE  Goal
  <2>1. /\ Contents'[n] \in {NotFound, Decryption}
        /\ \A m \in Names \ {n} : Contents'[m] = Contents[m]
        /\ DOMAIN Contents' = Names
    BY <1>8 DEF Contents
  <2>2. UNCHANGED <<Batches, Standings>>
    BY <1>8 DEF Batches, Standings
  <2>3. Promise!Other
    BY <2>1, <2>2 DEF Promise!Other, Batches, Standings, Standing
  <2> QED
    BY <2>3 DEF Promise!Next, Goal
<1>9. ASSUME NEW c \in Conns, Acknowledge(c)
      PROVE  Goal
  <2>1. UNCHANGED wc /\ (rows' = rows \/ rows' = DeleteRow(rows, SideName))
    BY <1>9 DEF Acknowledge, Delete, Autocommit
  <2>2. SideName \in Names
    BY DurableAssumption
  <2> QED
    BY <1>8, <1>a, <2>1, <2>2, DeleteGet
<1>10. CASE FileDamaged
  BY <1>8, <1>10, DamageGet, DurableAssumption DEF FileDamaged
<1>11. CASE UNCHANGED dvars
  BY <1>11, <1>a DEF dvars, svars
<1> QED
  BY <1>1, <1>2, <1>3, <1>4, <1>5, <1>6, <1>7, <1>9, <1>10, <1>11 DEF Next

\* write_conditional (durable.rs) is one atomic conditional write: whatever the
\* interleaving of processes, failures and crashes, a batch takes effect whole, at
\* one moment, where all its preconditions hold, and a conflict is reported only
\* where one does not.
THEOREM WriteConditionalIsAtomic == Spec => ImplementsCheckpointStore
<1>1. Init => Promise!Init
  <2> SUFFICES ASSUME Init PROVE Promise!Init
    OBVIOUS
  <2>1. DOMAIN Contents = Names
    BY DEF Contents
  <2>2. \A c \in Conns : Standings[c] = "none"
    BY DurableAssumption DEF Init, NoBatch, Standings, Standing
  <2> QED
    BY <2>1, <2>2 DEF Promise!Init, Standings, Standing
<1>2. WriteInv /\ [Next]_dvars => WriteInv'
  BY NextWrites
<1>3. WriteInv /\ [Next]_dvars => [Promise!Next]_(Promise!vars)
  BY NextPromise
<1> QED
  BY <1>1, <1>2, <1>3, InitWrites, PTL DEF Spec, ImplementsCheckpointStore, Promise!Spec

-----------------------------------------------------------------------------
(* Durable sessions.                                                       *)

Stored == GetRow(rows, SessionName)
Readable(v) == v \notin {NotFound, Decryption}

\* A record's generation counts its outputs.
Record(r) == r \in Records /\ r.generation = Len(r.outs)

\* q is r and one output more.
Follows(q, r) ==
    /\ q.sid = r.sid /\ q.generation = r.generation + 1
    /\ SubSeq(q.outs, 1, r.generation) = r.outs

Transitions == [rec: Records, base: Nat, mine: BOOLEAN]

\* A transition the session i staged: what follows i, while i stays as it is.
TransitionOK(t, i) ==
    /\ t \in Transitions /\ Record(t.rec)
    /\ t.mine => /\ i # None /\ t.base <= i.rec.generation
                 /\ t.base = i.rec.generation => Follows(t.rec, i.rec)

SessionOK(i) ==
    i # None => i \in Sessions /\ Record(i.rec) /\ (i.prov => i.rec.generation = 0)

\* What each operation submitted, while the session it submitted it for waits.
BatchOK(w, i, st) ==
    LET x == w.writes[1]
    IN  /\ w.kind \in {"commit", "create", "promote", "remove"}
        /\ w.kind = "commit" =>
             /\ i # None /\ ~i.prov /\ Record(w.next.rec) /\ Follows(w.next.rec, i.rec)
             /\ x.expect = Predecessor(i.rec) /\ x.action = DoPut(w.next.rec)
        /\ w.kind = "create" =>
             /\ i = None /\ SessionOK(w.next) /\ w.next # None /\ ~w.next.prov
             /\ x.expect = Absent /\ x.action = DoPut(w.next.rec)
        /\ w.kind = "promote" =>
             /\ i # None /\ i.prov /\ Record(w.next.rec) /\ Follows(w.next.rec, i.rec)
             /\ x.expect = Absent /\ x.action = DoPut(w.next.rec)
        /\ w.kind = "remove" => i # None /\ ~i.prov /\ st = {} /\ x.action = DoDelete

\* One process: its session, what it staged and its batch.
ProcessOK(i, st, w) ==
    /\ SessionOK(i)
    /\ \A t \in st : TransitionOK(t, i)
    /\ w.phase # "idle" => BatchOK(w, i, st)

\* The session s is not stored yet: it is being created, or it is provisional.
Owns(i, w, s) ==
    \/ w.phase # "idle" /\ w.kind = "create" /\ w.next.rec.sid = s
    \/ i # None /\ i.prov /\ i.rec.sid = s

\* A session not stored yet belongs to one process, and nothing of it is out.
Private ==
    \A c \in Conns, s \in Nat : Owns(inst[c], wc[c], s) =>
        /\ s <= established
        /\ Readable(Stored) => Stored.sid # s
        /\ \A x \in released : x.rec.sid # s
        /\ \A d \in Conns : Owns(inst[d], wc[d], s) => d = c

Known ==
    /\ established \in Nat
    /\ Readable(Stored) => Record(Stored) /\ Stored.sid <= established
    /\ \A x \in released : Record(x.rec) /\ x.rec.sid <= established

\* What was released is in the stored history of its session.
Kept ==
    Readable(Stored) =>
        \A x \in released : x.rec.sid = Stored.sid =>
            /\ x.rec.generation <= Stored.generation
            /\ SubSeq(Stored.outs, 1, x.rec.generation) = x.rec.outs

\* The inductive invariant of durable sessions.
SessionInv ==
    /\ DOMAIN inst = Conns /\ DOMAIN staged = Conns
    /\ \A c \in Conns : ProcessOK(inst[c], staged[c], wc[c])
    /\ Known /\ Private /\ Kept /\ OneOutputPerGeneration

\* The session, the transitions and the batch of one process change.
OnlySession(c) ==
    /\ DOMAIN inst' = Conns /\ DOMAIN staged' = Conns
    /\ \A d \in Conns \ {c} : inst'[d] = inst[d] /\ staged'[d] = staged[d] /\ wc'[d] = wc[d]

\* A step of one process that releases nothing and stores nothing new.
LEMMA QuietStep ==
    ASSUME SessionInv, NEW c \in Conns, OnlySession(c),
           ProcessOK(inst'[c], staged'[c], wc'[c]),
           \A s \in Nat : Owns(inst'[c], wc'[c], s) => Owns(inst[c], wc[c], s),
           UNCHANGED <<established, released>>,
           Readable(Stored') => Stored' = Stored
    PROVE  SessionInv'
<1>1. \A d \in Conns, s \in Nat : Owns(inst'[d], wc'[d], s) => Owns(inst[d], wc[d], s)
  BY DEF OnlySession
<1>2. Private'
  BY <1>1 DEF SessionInv, Private
<1>3. Known' /\ Kept'
  BY DEF SessionInv, Known, Kept
<1>4. OneOutputPerGeneration'
  BY DEF SessionInv, OneOutputPerGeneration
<1>5. \A d \in Conns : ProcessOK(inst'[d], staged'[d], wc'[d])
  BY DEF SessionInv, OnlySession
<1> QED
  BY <1>2, <1>3, <1>4, <1>5 DEF SessionInv, OnlySession

\* A session is derived: its identifier is new.
LEMMA NewSession ==
    ASSUME SessionInv, NEW c \in Conns, OnlySession(c),
           ProcessOK(inst'[c], staged'[c], wc'[c]),
           \A s \in Nat : Owns(inst'[c], wc'[c], s) => s = established + 1,
           established' = established + 1, released' = released, Stored' = Stored
    PROVE  SessionInv'
<1>0. established \in Nat
  BY DEF SessionInv, Known
<1>1. Known' /\ Kept'
  BY <1>0 DEF SessionInv, Known, Kept, Record, Records
<1>2. OneOutputPerGeneration'
  BY DEF SessionInv, OneOutputPerGeneration
<1>3. \A d \in Conns : ProcessOK(inst'[d], staged'[d], wc'[d])
  BY DEF SessionInv, OnlySession
<1>4. ASSUME NEW d \in Conns, NEW s \in Nat, Owns(inst'[d], wc'[d], s)
      PROVE  /\ s <= established'
             /\ Readable(Stored') => Stored'.sid # s
             /\ \A x \in released' : x.rec.sid # s
             /\ \A e \in Conns : Owns(inst'[e], wc'[e], s) => e = d
  <2>1. CASE d = c
    <3>1. s = established + 1
      BY <1>4, <2>1
    <3>2. \A e \in Conns \ {c} : ~Owns(inst'[e], wc'[e], s)
      BY <1>0, <3>1 DEF OnlySession, SessionInv, Private
    <3> QED
      BY <1>0, <2>1, <3>1, <3>2 DEF SessionInv, Known, Record, Records
  <2>2. CASE d # c
    <3>1. Owns(inst[d], wc[d], s)
      BY <1>4, <2>2 DEF OnlySession
    <3>2. s <= established
      BY <3>1 DEF SessionInv, Private
    <3>3. ~Owns(inst'[c], wc'[c], s)
      BY <1>0, <3>2
    <3> QED
      BY <1>0, <3>1, <3>2, <3>3 DEF OnlySession, SessionInv, Private
  <2> QED
    BY <2>1, <2>2
<1>5. Private'
  BY <1>4 DEF Private
<1> QED
  BY <1>1, <1>2, <1>3, <1>5 DEF SessionInv, OnlySession

\* A prefix of a prefix.
LEMMA PrefixOfPrefix ==
    ASSUME NEW S, NEW q \in Seq(S), NEW g \in 0..Len(q), NEW k \in 0..g
    PROVE  SubSeq(SubSeq(q, 1, g), 1, k) = SubSeq(q, 1, k)
  OBVIOUS

\* A record is stored that follows the stored one, or begins a session that the
\* process owned; its output may be released with it.
LEMMA StoreStep ==
    ASSUME SessionInv, NEW c \in Conns, OnlySession(c),
           ProcessOK(inst'[c], staged'[c], wc'[c]),
           \A s \in Nat : ~Owns(inst'[c], wc'[c], s),
           NEW q, Record(q), Stored' = q, established' = established,
           \/ Readable(Stored) /\ Follows(q, Stored)
           \/ Owns(inst[c], wc[c], q.sid),
           released' \in {released, released \cup {[by |-> c, rec |-> q]}}
    PROVE  SessionInv'
<1> DEFINE new == [by |-> c, rec |-> q]
<1>0. /\ established \in Nat /\ q.sid \in Nat /\ q.generation \in Nat
      /\ q.outs \in Seq(Messages) /\ q.generation = Len(q.outs)
      /\ \A x \in released : Record(x.rec) /\ x.rec.sid <= established
      /\ new.rec = q
  BY DEF SessionInv, Known, Record, Records
<1>1. q.sid <= established
  BY <1>0 DEF SessionInv, Known, Private, Follows
<1>2. \A x \in released : x.rec.sid = q.sid =>
        x.rec.generation < q.generation /\ SubSeq(q.outs, 1, x.rec.generation) = x.rec.outs
  <2>1. CASE Owns(inst[c], wc[c], q.sid)
    BY <1>0, <2>1 DEF SessionInv, Private
  <2>2. CASE Readable(Stored) /\ Follows(q, Stored)
    <3> SUFFICES ASSUME NEW x \in released, x.rec.sid = q.sid
                 PROVE  /\ x.rec.generation < q.generation
                        /\ SubSeq(q.outs, 1, x.rec.generation) = x.rec.outs
      OBVIOUS
    <3> DEFINE k == x.rec.generation
               g == Stored.generation
    <3>1. Record(Stored) /\ x.rec.sid = Stored.sid
      BY <2>2 DEF SessionInv, Known, Follows
    <3>2. k <= g /\ SubSeq(Stored.outs, 1, k) = x.rec.outs
      BY <2>2, <3>1 DEF SessionInv, Kept
    <3>3. k \in Nat /\ g \in Nat /\ q.generation = g + 1 /\ SubSeq(q.outs, 1, g) = Stored.outs
      BY <1>0, <2>2, <3>1 DEF Record, Records, Follows
    <3>4. SubSeq(SubSeq(q.outs, 1, g), 1, k) = SubSeq(q.outs, 1, k)
      BY <1>0, <3>2, <3>3, PrefixOfPrefix
    <3> QED
      BY <3>2, <3>3, <3>4
  <2> QED
    BY <2>1, <2>2
<1>3. \A x \in released' : x \in released \/ x = new
  OBVIOUS
<1> HIDE DEF new
<1>4. Known'
  BY <1>0, <1>1, <1>3 DEF Known
<1>5. Kept'
  <2>1. SubSeq(q.outs, 1, q.generation) = q.outs
    BY <1>0
  <2> QED
    BY <1>0, <1>2, <1>3, <2>1 DEF Kept, Record, Records
<1>6. OneOutputPerGeneration'
  <2> SUFFICES ASSUME NEW x \in released', NEW y \in released',
                      x.rec.sid = y.rec.sid, x.rec.generation = y.rec.generation
               PROVE  x = y
    BY DEF OneOutputPerGeneration
  <2>1. CASE x \in released /\ y \in released
    BY <2>1 DEF SessionInv, OneOutputPerGeneration
  <2>2. CASE x = new /\ y \in released
    BY <1>0, <1>2, <2>2 DEF Record, Records
  <2>3. CASE y = new /\ x \in released
    BY <1>0, <1>2, <2>3 DEF Record, Records
  <2> QED
    BY <1>3, <2>1, <2>2, <2>3
<1>7. Private'
  <2> SUFFICES ASSUME NEW d \in Conns, NEW s \in Nat, Owns(inst'[d], wc'[d], s)
               PROVE  /\ s <= established'
                      /\ Readable(Stored') => Stored'.sid # s
                      /\ \A x \in released' : x.rec.sid # s
                      /\ \A e \in Conns : Owns(inst'[e], wc'[e], s) => e = d
    BY DEF Private
  <2>1. d # c
    OBVIOUS
  <2>2. Owns(inst[d], wc[d], s)
    BY <2>1 DEF OnlySession
  <2>3. /\ s <= established /\ (Readable(Stored) => Stored.sid # s)
        /\ \A x \in released : x.rec.sid # s
        /\ \A e \in Conns : Owns(inst[e], wc[e], s) => e = d
    BY <2>2 DEF SessionInv, Private
  <2>4. q.sid # s
    BY <2>1, <2>3 DEF Follows
  <2>5. \A e \in Conns : Owns(inst'[e], wc'[e], s) => e = d
    BY <2>3 DEF OnlySession
  <2> QED
    BY <1>0, <1>3, <2>3, <2>4, <2>5
<1>8. \A d \in Conns : ProcessOK(inst'[d], staged'[d], wc'[d])
  BY DEF SessionInv, OnlySession
<1> QED
  BY <1>4, <1>5, <1>6, <1>7, <1>8 DEF SessionInv, OnlySession

\* The outcome of a batch, for the process that submitted it: it owns no session
\* afterwards that is not stored.
LEMMA FinishSession ==
    ASSUME SessionInv, DOMAIN wc = Conns, NEW c \in Conns, wc[c].phase # "idle",
           NEW res, Finish(c, res)
    PROVE  /\ OnlySession(c) /\ established' = established
           /\ ProcessOK(inst'[c], staged'[c], wc'[c])
           /\ \A s \in Nat : ~Owns(inst'[c], wc'[c], s)
           /\ released' = IF res = "ok" /\ wc[c].kind \in {"commit", "promote"}
                          THEN released \cup {[by |-> c, rec |-> wc[c].next.rec]}
                          ELSE released
<1> DEFINE w == wc[c]
           i == inst[c]
           s == wc[c].next
<1>0. /\ SessionOK(i) /\ \A t \in staged[c] : TransitionOK(t, i)
      /\ BatchOK(w, i, staged[c])
      /\ DOMAIN inst = Conns /\ DOMAIN staged = Conns
  BY DEF SessionInv, ProcessOK
<1>1. /\ wc' = [wc EXCEPT ![c] = NoBatch] /\ established' = established
      /\ released' = IF res = "ok" /\ w.kind \in {"commit", "promote"}
                     THEN released \cup {[by |-> c, rec |-> s.rec]} ELSE released
  BY DEF Finish
<1>2. wc'[c].phase = "idle" /\ \A d \in Conns \ {c} : wc'[d] = wc[d]
  BY <1>1 DEF NoBatch
<1>3. ASSUME NEW j, NEW st,
             inst' = [inst EXCEPT ![c] = j] \/ (inst' = inst /\ j = i),
             staged' = [staged EXCEPT ![c] = st] \/ (staged' = staged /\ st = staged[c]),
             SessionOK(j), j # None => ~j.prov, \A t \in st : TransitionOK(t, j)
      PROVE  /\ OnlySession(c) /\ ProcessOK(inst'[c], staged'[c], wc'[c])
             /\ \A x \in Nat : ~Owns(inst'[c], wc'[c], x)
  <2>1. inst'[c] = j /\ staged'[c] = st
    BY <1>0, <1>3
  <2>2. OnlySession(c)
    BY <1>0, <1>2, <1>3 DEF OnlySession
  <2> QED
    BY <1>2, <1>3, <2>1, <2>2 DEF ProcessOK, Owns
<1>4. CASE w.kind = "commit"
  <2>1. /\ i # None /\ ~i.prov /\ Record(s.rec) /\ Follows(s.rec, i.rec)
        /\ i \in Sessions /\ Record(i.rec)
    BY <1>0, <1>4 DEF BatchOK, SessionOK
  <2>2. staged' = [staged EXCEPT ![c] = staged[c] \ {s}]
    BY <1>4 DEF Finish
  <2>3. CASE res = "ok"
    <3> DEFINE j == [i EXCEPT !.rec = s.rec]
    <3>1. inst' = [inst EXCEPT ![c] = j]
      BY <1>4, <2>3 DEF Finish
    <3>2. j \in Sessions /\ j.rec = s.rec /\ j.prov = i.prov
      BY <2>1 DEF Sessions, Record
    <3> HIDE DEF j
    <3>3. j # None
      BY <3>2, NoSession
    <3>4. SessionOK(j)
      BY <2>1, <3>2 DEF SessionOK
    <3>5. \A t \in staged[c] \ {s} : TransitionOK(t, j)
      BY <1>0, <2>1, <3>2, <3>3 DEF TransitionOK, Transitions, Follows, Record, Records
    <3> QED
      BY <1>1, <1>3, <2>1, <2>2, <3>1, <3>2, <3>4, <3>5
  <2>4. ASSUME NEW status \in {"Active", "Conflicted", "Unresolved"},
               inst' = [inst EXCEPT ![c].status = status]
        PROVE  /\ OnlySession(c) /\ ProcessOK(inst'[c], staged'[c], wc'[c])
               /\ \A x \in Nat : ~Owns(inst'[c], wc'[c], x)
    <3> DEFINE j == [i EXCEPT !.status = status]
    <3>1. inst' = [inst EXCEPT ![c] = j]
      BY <2>4
    <3>2. j \in Sessions /\ j.rec = i.rec /\ j.prov = i.prov
      BY <2>1 DEF Sessions
    <3> HIDE DEF j
    <3>3. j # None
      BY <3>2, NoSession
    <3>4. SessionOK(j)
      BY <2>1, <3>2 DEF SessionOK
    <3>5. \A t \in staged[c] \ {s} : TransitionOK(t, j)
      BY <1>0, <2>1, <3>2, <3>3 DEF TransitionOK
    <3> QED
      BY <1>3, <2>1, <2>2, <3>1, <3>2, <3>4, <3>5
  <2>5. CASE inst' = inst
    BY <1>0, <1>1, <1>3, <2>1, <2>2, <2>5
  <2> QED
    <3>1. \/ res = "ok" \/ inst' = inst
          \/ inst' = [inst EXCEPT ![c].status = "Conflicted"]
          \/ inst' = [inst EXCEPT ![c].status = "Unresolved"]
      BY <1>4 DEF Finish
    <3> QED
      BY <1>1, <2>3, <2>4, <2>5, <3>1
<1>5. CASE w.kind = "create"
  <2>1. i = None /\ SessionOK(s) /\ s # None /\ ~s.prov
    BY <1>0, <1>5 DEF BatchOK
  <2>2. staged' = staged /\ inst' = IF res = "ok" THEN [inst EXCEPT ![c] = s] ELSE inst
    BY <1>5 DEF Finish
  <2>3. \A t \in staged[c] : TransitionOK(t, s)
    BY <1>0, <2>1 DEF TransitionOK
  <2> QED
    BY <1>0, <1>1, <1>3, <2>1, <2>2, <2>3
<1>6. CASE w.kind = "promote"
  <2> DEFINE j == [rec |-> s.rec, status |-> "Active", prov |-> FALSE]
  <2>1. Record(s.rec)
    BY <1>0, <1>6 DEF BatchOK
  <2>2. /\ staged' = [staged EXCEPT ![c] = {}]
        /\ inst' = [inst EXCEPT ![c] = IF res = "ok" THEN j ELSE None]
    BY <1>6 DEF Finish
  <2>3. j \in Sessions /\ j.rec = s.rec /\ j.prov = FALSE
    BY <2>1 DEF Sessions, Record
  <2> HIDE DEF j
  <2>4. SessionOK(j) /\ SessionOK(None)
    BY <2>1, <2>3 DEF SessionOK
  <2>5. inst'[c] \in {j, None} /\ staged'[c] = {}
    BY <1>0, <2>2
  <2>6. OnlySession(c)
    BY <1>0, <1>2, <2>2 DEF OnlySession
  <2>7. /\ ProcessOK(inst'[c], staged'[c], wc'[c])
        /\ \A x \in Nat : ~Owns(inst'[c], wc'[c], x)
    BY <1>2, <2>3, <2>4, <2>5 DEF ProcessOK, Owns
  <2> QED
    BY <1>1, <2>6, <2>7
<1>7. CASE w.kind = "remove"
  <2>1. staged[c] = {}
    BY <1>0, <1>7 DEF BatchOK
  <2>2. staged' = staged /\ inst' = [inst EXCEPT ![c] = None]
    BY <1>7 DEF Finish
  <2>3. SessionOK(None)
    BY DEF SessionOK
  <2> QED
    BY <1>1, <1>3, <2>1, <2>2, <2>3
<1> QED
  BY <1>0, <1>4, <1>5, <1>6, <1>7 DEF BatchOK

\* What the committed batch did to the session record.
LEMMA AppliedSession ==
    ASSUME WriteInv, SessionInv, NEW c \in Conns, Applied(c)
    PROVE  LET w == wc[c]
               q == w.next.rec
           IN  \/ w.kind = "remove" /\ Stored' = NotFound
               \/ /\ w.kind \in {"commit", "create", "promote"} /\ Stored' = q /\ Record(q)
                  /\ \/ w.kind = "commit" /\ Readable(Stored) /\ Follows(q, Stored)
                     \/ Owns(inst[c], w, q.sid)
<1> DEFINE w == wc[c]
           x == wc[c].writes[1]
           q == wc[c].next.rec
<1>0. IsBatch(w.writes) /\ DOMAIN w.writes = 1..2 /\ w.phase = "commit"
  BY DEF WriteInv, WcOK, Applied, IsBatch
<1>1. BatchOK(w, inst[c], staged[c])
  BY <1>0 DEF SessionInv, ProcessOK
<1>2. SessionName \in Names /\ SideName # SessionName /\ x.name = SessionName
  BY <1>0, DurableAssumption DEF IsBatch
<1>3. CheckPrecondition(Stored, x.expect) = Ok
  BY <1>0, <1>2 DEF Applied, HoldsIn, Contents, Stored
<1>4. Stored' = Contents'[SessionName]
  BY <1>2 DEF Contents, Stored
<1>5. ASSUME x.action.kind # "Check"
      PROVE  Stored' = IF x.action.kind = "Put" THEN x.action.value ELSE NotFound
  <2> DEFINE puts == {k \in DOMAIN w.writes :
                        w.writes[k].name = SessionName /\ w.writes[k].action.kind # "Check"}
             last == CHOOSE k \in puts : \A j \in puts : j <= k
  <2>1. puts = {1}
    BY <1>0, <1>2, <1>5 DEF IsBatch
  <2>2. last = 1
    BY <2>1
  <2>3. ApplyTo(Contents, w.writes)[SessionName] =
          IF puts = {} THEN Contents[SessionName]
          ELSE IF w.writes[last].action.kind = "Put"
               THEN w.writes[last].action.value ELSE NotFound
    BY <1>2 DEF ApplyTo
  <2> HIDE DEF puts, last
  <2> QED
    BY <1>4, <2>1, <2>2, <2>3 DEF Applied
<1>6. CASE w.kind = "remove"
  <2>1. x.action = DoDelete
    BY <1>1, <1>6 DEF BatchOK
  <2> QED
    BY <1>5, <1>6, <2>1 DEF DoDelete
<1>7. CASE w.kind \in {"commit", "create", "promote"}
  <2>1. x.action = DoPut(q)
    BY <1>1, <1>7 DEF BatchOK
  <2>2. Stored' = q
    BY <1>5, <2>1 DEF DoPut
  <2>3. CASE w.kind = "commit"
    <3>1. x.expect = Predecessor(inst[c].rec) /\ Record(q) /\ Follows(q, inst[c].rec)
      BY <1>1, <2>3 DEF BatchOK
    <3>2. Readable(Stored) /\ Stored = inst[c].rec
      BY <1>3, <3>1 DEF CheckPrecondition, Predecessor, Readable, Ok
    <3> QED
      BY <2>2, <2>3, <3>1, <3>2
  <2>4. CASE w.kind = "create"
    BY <1>0, <1>1, <2>2, <2>4 DEF BatchOK, SessionOK, Owns
  <2>5. CASE w.kind = "promote"
    BY <1>0, <1>1, <2>2, <2>5 DEF BatchOK, Follows, Owns
  <2> QED
    BY <1>7, <2>3, <2>4, <2>5
<1> QED
  BY <1>1, <1>6, <1>7 DEF BatchOK

\* A process is done with its batch: committed, failed or dead.
LEMMA EndSession ==
    ASSUME WriteInv, SessionInv, NEW c \in Conns, OnlySession(c), established' = established,
           ProcessOK(inst'[c], staged'[c], wc'[c]),
           \A s \in Nat : ~Owns(inst'[c], wc'[c], s),
           \/ released' = released /\ (rows' = rows \/ Applied(c))
           \/ /\ Applied(c)
              /\ released' = IF wc[c].kind \in {"commit", "promote"}
                             THEN released \cup {[by |-> c, rec |-> wc[c].next.rec]}
                             ELSE released
    PROVE  SessionInv'
<1>1. CASE rows' = rows /\ released' = released
  <2>1. Stored' = Stored
    BY <1>1 DEF Stored
  <2> QED
    BY <1>1, <2>1, QuietStep
<1>2. CASE Applied(c)
  <2> DEFINE q == wc[c].next.rec
  <2>1. CASE wc[c].kind = "remove" /\ Stored' = NotFound
    BY <2>1, QuietStep DEF Readable
  <2>2. CASE /\ wc[c].kind \in {"commit", "create", "promote"} /\ Stored' = q /\ Record(q)
             /\ \/ wc[c].kind = "commit" /\ Readable(Stored) /\ Follows(q, Stored)
                \/ Owns(inst[c], wc[c], q.sid)
    <3>1. released' \in {released, released \cup {[by |-> c, rec |-> q]}}
      OBVIOUS
    <3> HIDE DEF q
    <3> QED
      BY <2>2, <3>1, StoreStep
  <2> QED
    BY <1>2, <2>1, <2>2, AppliedSession
<1> QED
  BY <1>1, <1>2

\* The steps of write_conditional.
LEMMA WritesKeepSession ==
    ASSUME WriteInv, SessionInv, NEW c \in Conns,
           \/ WcBegin(c) \/ WcCheck(c) \/ WcWrite(c) \/ WcError(c)
           \/ WcDrop(c) \/ WcCommit(c) \/ ProcessDies(c)
    PROVE  SessionInv'
<1>0. DOMAIN wc = Conns /\ WcOK(wc[c]) /\ DOMAIN inst = Conns /\ DOMAIN staged = Conns
      /\ ProcessOK(inst[c], staged[c], wc[c])
  BY DEF WriteInv, SessionInv
<1>1. ASSUME wc[c].phase # "idle", NEW w, UNCHANGED local, UNCHANGED rows,
             wc' = [wc EXCEPT ![c] = w], w.phase # "idle",
             w.kind = wc[c].kind, w.next = wc[c].next, w.writes = wc[c].writes
      PROVE  SessionInv'
  <2>1. OnlySession(c) /\ inst'[c] = inst[c] /\ staged'[c] = staged[c] /\ wc'[c] = w
    BY <1>0, <1>1 DEF OnlySession, local
  <2>2. ProcessOK(inst'[c], staged'[c], wc'[c])
    BY <1>0, <1>1, <2>1 DEF ProcessOK, BatchOK
  <2>3. \A s \in Nat : Owns(inst'[c], wc'[c], s) => Owns(inst[c], wc[c], s)
    BY <1>1, <2>1 DEF Owns
  <2>4. Stored' = Stored /\ UNCHANGED <<established, released>>
    BY <1>1 DEF Stored, local
  <2> QED
    BY <2>1, <2>2, <2>3, <2>4, QuietStep
<1>2. ASSUME wc[c].phase # "idle", NEW res, Finish(c, res),
             (rows' = rows /\ res # "ok") \/ Applied(c)
      PROVE  SessionInv'
  BY <1>0, <1>2, FinishSession, EndSession
<1>3. CASE WcBegin(c)
  <2>1. wc[c].phase = "begin" /\ rows' = rows
    BY <1>3 DEF WcBegin, Begin, Refuse
  <2>2. CASE wc' = [wc EXCEPT ![c].phase = "check"] /\ UNCHANGED local
    <3> DEFINE w == [wc[c] EXCEPT !.phase = "check"]
    <3>1. wc' = [wc EXCEPT ![c] = w]
      BY <2>2
    <3>2. /\ w.phase = "check" /\ w.kind = wc[c].kind /\ w.next = wc[c].next
          /\ w.writes = wc[c].writes
      BY <1>0 DEF WcOK
    <3> HIDE DEF w
    <3> QED
      BY <1>1, <2>1, <2>2, <3>1, <3>2
  <2>3. CASE Finish(c, "not_committed")
    BY <1>2, <2>1, <2>3
  <2> QED
    BY <1>3, <2>2, <2>3 DEF WcBegin
<1>4. CASE WcCheck(c) \/ WcError(c) \/ WcWrite(c)
  <2>1. wc[c].phase # "idle" /\ UNCHANGED local /\ UNCHANGED rows
    BY <1>4, CheckWrites, OneWrite DEF WcCheck, WcError, WcWrite, TxFails, svars
  <2>2. \/ \E res : Drop(c, res)
        \/ \E phase \in Phases \ {"idle"} : wc' = [wc EXCEPT ![c].phase = phase]
        \/ wc' = [wc EXCEPT ![c].at = @ + 1]
    BY <1>4, CheckWrites, OneWrite DEF WcError, Phases
  <2>3. ASSUME NEW res, Drop(c, res)
        PROVE  SessionInv'
    <3> DEFINE w == [wc[c] EXCEPT !.phase = "drop", !.res = res]
    <3>1. wc' = [wc EXCEPT ![c] = w]
      BY <2>3 DEF Drop
    <3>2. /\ w.phase = "drop" /\ w.kind = wc[c].kind /\ w.next = wc[c].next
          /\ w.writes = wc[c].writes
      BY <1>0 DEF WcOK
    <3> HIDE DEF w
    <3> QED
      BY <1>1, <2>1, <3>1, <3>2
  <2>4. ASSUME NEW phase \in Phases \ {"idle"}, wc' = [wc EXCEPT ![c].phase = phase]
        PROVE  SessionInv'
    <3> DEFINE w == [wc[c] EXCEPT !.phase = phase]
    <3>1. wc' = [wc EXCEPT ![c] = w]
      BY <2>4
    <3>2. /\ w.phase # "idle" /\ w.kind = wc[c].kind /\ w.next = wc[c].next
          /\ w.writes = wc[c].writes
      BY <1>0, <2>4 DEF WcOK
    <3> HIDE DEF w
    <3> QED
      BY <1>1, <2>1, <3>1, <3>2
  <2>5. CASE wc' = [wc EXCEPT ![c].at = @ + 1]
    <3> DEFINE w == [wc[c] EXCEPT !.at = @ + 1]
    <3>1. wc' = [wc EXCEPT ![c] = w]
      BY <2>5
    <3>2. /\ w.phase # "idle" /\ w.kind = wc[c].kind /\ w.next = wc[c].next
          /\ w.writes = wc[c].writes
      BY <1>0, <2>1 DEF WcOK
    <3> HIDE DEF w
    <3> QED
      BY <1>1, <2>1, <3>1, <3>2
  <2> QED
    BY <2>2, <2>3, <2>4, <2>5
<1>5. CASE WcDrop(c)
  <2>1. wc[c].phase = "drop" /\ wc[c].res # "ok" /\ rows' = rows /\ Finish(c, wc[c].res)
    BY <1>0, <1>5, DropWrites DEF WcDrop, WcOK
  <2> QED
    BY <1>2, <2>1
<1>6. CASE WcCommit(c)
  BY <1>2, <1>6, CommitWrites DEF WcCommit
<1>7. CASE ProcessDies(c)
  <2>1. /\ wc'[c] = NoBatch /\ (rows' = rows \/ Applied(c)) /\ OnlyMoves(c)
        /\ inst' = [inst EXCEPT ![c] = None] /\ staged' = [staged EXCEPT ![c] = {}]
        /\ UNCHANGED <<established, released>>
    BY <1>7, DieWrites DEF ProcessDies
  <2>2. OnlySession(c) /\ inst'[c] = None /\ staged'[c] = {}
    BY <1>0, <2>1 DEF OnlySession, OnlyMoves
  <2>3. ProcessOK(inst'[c], staged'[c], wc'[c]) /\ \A s \in Nat : ~Owns(inst'[c], wc'[c], s)
    BY <2>1, <2>2 DEF ProcessOK, SessionOK, Owns, NoBatch
  <2> QED
    BY <2>1, <2>2, <2>3, EndSession
<1> QED
  BY <1>3, <1>4, <1>5, <1>6, <1>7

\* A step that leaves the sessions alone, and the record or takes it away.
LEMMA LeaveSession ==
    ASSUME SessionInv, UNCHANGED local, wc' = wc, Readable(Stored') => Stored' = Stored
    PROVE  SessionInv'
<1>1. UNCHANGED <<inst, staged, established, released>>
  BY DEF local
<1>2. Known' /\ Kept' /\ Private'
  BY <1>1 DEF SessionInv, Known, Kept, Private
<1>3. OneOutputPerGeneration'
  BY <1>1 DEF SessionInv, OneOutputPerGeneration
<1> QED
  BY <1>1, <1>2, <1>3 DEF SessionInv

\* A process that has no batch submits one for its session.
LEMMA SubmitSession ==
    ASSUME WriteInv, SessionInv, NEW c \in Conns, NEW kind, NEW writes, NEW next,
           Start(c, kind, writes, next), UNCHANGED <<rows, local>>, kind # "create",
           \A w : w.kind = kind /\ w.writes = writes /\ w.next = next =>
                    BatchOK(w, inst[c], staged[c])
    PROVE  SessionInv'
<1>0. /\ DOMAIN wc = Conns /\ DOMAIN inst = Conns /\ DOMAIN staged = Conns
      /\ ProcessOK(inst[c], staged[c], wc[c])
  BY DEF WriteInv, SessionInv
<1>1. /\ UNCHANGED <<inst, staged, established, released>> /\ Stored' = Stored
      /\ OnlySession(c)
  BY <1>0 DEF local, Stored, OnlySession, Start
<1>2. wc'[c].kind = kind /\ wc'[c].writes = writes /\ wc'[c].next = next
  BY <1>0 DEF Start
<1>3. ProcessOK(inst'[c], staged'[c], wc'[c])
  BY <1>0, <1>1, <1>2 DEF ProcessOK
<1>4. \A s \in Nat : Owns(inst'[c], wc'[c], s) => Owns(inst[c], wc[c], s)
  BY <1>1, <1>2 DEF Owns
<1> QED
  BY <1>1, <1>3, <1>4, QuietStep

\* A new record.
LEMMA NewRecord ==
    ASSUME NEW sid \in Nat, NEW role \in {"Initiator", "Responder"},
           NEW outs \in Seq(Messages)
    PROVE  /\ Record(Rec(sid, role, outs)) /\ Rec(sid, role, outs).sid = sid
           /\ Rec(sid, role, outs).generation = Len(outs) /\ Rec(sid, role, outs).outs = outs
  BY DEF Record, Records, Rec

\* The record of a session that has not moved.
LEMMA FirstRecord ==
    ASSUME NEW n \in Nat, NEW role \in {"Initiator", "Responder"}
    PROVE  /\ Record(Rec(n + 1, role, <<>>)) /\ Rec(n + 1, role, <<>>).sid = n + 1
           /\ Rec(n + 1, role, <<>>).generation = 0
<1> DEFINE e == <<>>
<1>1. e \in Seq(Messages) /\ Len(e) = 0 /\ n + 1 \in Nat
  OBVIOUS
<1> HIDE DEF e
<1>2. /\ Record(Rec(n + 1, role, e)) /\ Rec(n + 1, role, e).sid = n + 1
      /\ Rec(n + 1, role, e).generation = 0
  BY <1>1 DEF Record, Records, Rec
<1> QED
  BY <1>2 DEF e

\* create_with.
LEMMA CreateSession ==
    ASSUME WriteInv, SessionInv, NEW c \in Conns, Create(c)
    PROVE  SessionInv'
<1> DEFINE rec == Rec(established + 1, "Initiator", <<>>)
           x == Write(SessionName, Absent, DoPut(rec))
           y == Write(SideName, Absent, DoPut(SideOf(rec)))
           next == [rec |-> rec, status |-> "Active", prov |-> FALSE]
<1>0. /\ DOMAIN wc = Conns /\ DOMAIN inst = Conns /\ DOMAIN staged = Conns
      /\ ProcessOK(inst[c], staged[c], wc[c]) /\ established \in Nat
  BY DEF WriteInv, SessionInv, Known
<1>1. /\ Start(c, "create", Batch(x, <<y>>), next) /\ inst[c] = None
      /\ wc[c].phase = "idle"
      /\ established' = established + 1 /\ UNCHANGED <<svars, inst, staged, released>>
  BY DEF Create, Ready
<1>2. x.expect = Absent /\ x.action = DoPut(rec)
  BY DEF Write
<1>3. Record(rec) /\ rec.sid = established + 1
  BY <1>0, FirstRecord
<1>4. next \in Sessions /\ next.rec = rec /\ next.prov = FALSE
  BY <1>3 DEF Sessions, Record
<1> HIDE DEF x, y, rec, next
<1>5. next # None /\ SessionOK(next)
  BY <1>3, <1>4, NoSession DEF SessionOK
<1>6. Batch(x, <<y>>)[1] = x
  BY PairConcat DEF Batch
<1>7. /\ wc'[c].kind = "create" /\ wc'[c].writes = Batch(x, <<y>>) /\ wc'[c].next = next
      /\ wc'[c].phase = "begin" /\ \A d \in Conns \ {c} : wc'[d] = wc[d]
  BY <1>0, <1>1 DEF Start
<1>8. BatchOK(wc'[c], inst'[c], staged'[c])
  BY <1>1, <1>2, <1>4, <1>5, <1>6, <1>7 DEF BatchOK
<1>9. ProcessOK(inst'[c], staged'[c], wc'[c]) /\ OnlySession(c)
  BY <1>0, <1>1, <1>7, <1>8 DEF ProcessOK, OnlySession
<1>10. \A s \in Nat : Owns(inst'[c], wc'[c], s) => s = established + 1
  BY <1>1, <1>3, <1>4, <1>7 DEF Owns
<1>11. Stored' = Stored
  BY <1>1 DEF svars, Stored
<1> QED
  BY <1>1, <1>9, <1>10, <1>11, NewSession

\* ProvisionalSession::new.
LEMMA ProvisionalSession ==
    ASSUME WriteInv, SessionInv, NEW c \in Conns, NewProvisional(c)
    PROVE  SessionInv'
<1> DEFINE rec == Rec(established + 1, "Responder", <<>>)
           i == [rec |-> rec, status |-> "Active", prov |-> TRUE]
<1>0. /\ DOMAIN wc = Conns /\ DOMAIN inst = Conns /\ DOMAIN staged = Conns
      /\ ProcessOK(inst[c], staged[c], wc[c]) /\ established \in Nat
  BY DEF WriteInv, SessionInv, Known
<1>1. /\ inst[c] = None /\ wc[c].phase = "idle" /\ inst' = [inst EXCEPT ![c] = i]
      /\ established' = established + 1 /\ UNCHANGED <<svars, wc, staged, released>>
  BY DEF NewProvisional, Ready
<1>2. Record(rec) /\ rec.sid = established + 1 /\ rec.generation = 0
  BY <1>0, FirstRecord
<1>3. i \in Sessions /\ i.rec = rec
  BY <1>2 DEF Sessions, Record
<1> HIDE DEF rec, i
<1>4. inst'[c] = i /\ OnlySession(c)
  BY <1>0, <1>1 DEF OnlySession
<1>5. SessionOK(i)
  BY <1>2, <1>3 DEF SessionOK
<1>6. \A t \in staged[c] : TransitionOK(t, i)
  BY <1>0, <1>1 DEF ProcessOK, TransitionOK
<1>7. ProcessOK(inst'[c], staged'[c], wc'[c])
  BY <1>1, <1>4, <1>5, <1>6 DEF ProcessOK
<1>8. \A s \in Nat : Owns(inst'[c], wc'[c], s) => s = established + 1
  BY <1>1, <1>2, <1>3, <1>4 DEF Owns
<1>9. Stored' = Stored
  BY <1>1 DEF svars, Stored
<1> QED
  BY <1>1, <1>4, <1>7, <1>8, <1>9, NewSession

\* A transition of an instance that is gone fits any session.
LEMMA DisownedFit ==
    ASSUME NEW ts, NEW i, NEW j, \A t \in ts : TransitionOK(t, i)
    PROVE  \A t \in Disowned(ts) : TransitionOK(t, j)
<1> SUFFICES ASSUME NEW t \in ts
             PROVE  TransitionOK([t EXCEPT !.mine = FALSE], j)
  BY DEF Disowned
<1> DEFINE u == [t EXCEPT !.mine = FALSE]
<1>1. t \in Transitions /\ Record(t.rec)
  BY DEF TransitionOK
<1>2. u \in Transitions /\ u.rec = t.rec /\ u.mine = FALSE
  BY <1>1 DEF Transitions
<1> HIDE DEF u
<1>3. TransitionOK(u, j)
  BY <1>1, <1>2 DEF TransitionOK
<1> QED
  BY <1>3 DEF u

\* load.
LEMMA LoadSession ==
    ASSUME WriteInv, SessionInv, NEW c \in Conns, Load(c)
    PROVE  SessionInv'
<1> DEFINE s == [rec |-> Stored, status |-> "Active", prov |-> FALSE]
<1>0. /\ DOMAIN wc = Conns /\ DOMAIN inst = Conns /\ DOMAIN staged = Conns
      /\ ProcessOK(inst[c], staged[c], wc[c])
  BY DEF WriteInv, SessionInv
<1>1. /\ wc[c].phase = "idle" /\ UNCHANGED <<svars, wc, established, released>>
      /\ inst' = [inst EXCEPT ![c] = IF Readable(Stored) THEN s ELSE None]
      /\ staged' = [staged EXCEPT ![c] = Disowned(@)]
  BY DEF Load, Ready, Get, Readable, Stored
<1>2. Readable(Stored) => SessionOK(s) /\ ~s.prov
  <2> SUFFICES ASSUME Readable(Stored) PROVE SessionOK(s) /\ ~s.prov
    OBVIOUS
  <2>1. Record(Stored)
    BY DEF SessionInv, Known
  <2>2. s \in Sessions /\ s.rec = Stored /\ s.prov = FALSE
    BY <2>1 DEF Sessions, Record
  <2> HIDE DEF s
  <2> QED
    BY <2>1, <2>2 DEF SessionOK
<1> HIDE DEF s
<1>3. /\ inst'[c] = IF Readable(Stored) THEN s ELSE None
      /\ staged'[c] = Disowned(staged[c]) /\ OnlySession(c)
  BY <1>0, <1>1 DEF OnlySession
<1>4. SessionOK(inst'[c]) /\ (inst'[c] # None => ~inst'[c].prov)
  BY <1>2, <1>3 DEF SessionOK
<1>5. \A t \in staged'[c] : TransitionOK(t, inst'[c])
  <2>1. \A t \in staged[c] : TransitionOK(t, inst[c])
    BY <1>0 DEF ProcessOK
  <2> QED
    BY <1>3, <2>1, DisownedFit
<1>6. ProcessOK(inst'[c], staged'[c], wc'[c])
  BY <1>1, <1>4, <1>5 DEF ProcessOK
<1>7. \A x \in Nat : Owns(inst'[c], wc'[c], x) => Owns(inst[c], wc[c], x)
  BY <1>1, <1>4 DEF Owns
<1>8. Stored' = Stored
  BY <1>1 DEF svars, Stored
<1> QED
  BY <1>1, <1>3, <1>6, <1>7, <1>8, QuietStep

\* stage_encrypt, stage_decrypt, stage_first_decrypt.
LEMMA StageSession ==
    ASSUME WriteInv, SessionInv, NEW c \in Conns, NEW m \in Messages, Stage(c, m)
    PROVE  SessionInv'
<1> DEFINE r == inst[c].rec
           o == Append(r.outs, m)
           q == Rec(r.sid, r.role, o)
           t == [rec |-> q, base |-> r.generation, mine |-> TRUE]
<1>0. /\ DOMAIN wc = Conns /\ DOMAIN inst = Conns /\ DOMAIN staged = Conns
      /\ ProcessOK(inst[c], staged[c], wc[c])
  BY DEF WriteInv, SessionInv
<1>1. /\ wc[c].phase = "idle" /\ inst[c] # None
      /\ UNCHANGED <<svars, wc, inst, established, released>>
      /\ staged' = [staged EXCEPT ![c] = @ \cup {t}]
  BY DEF Stage, Ready
<1>2. Record(r)
  BY <1>0, <1>1 DEF ProcessOK, SessionOK
<1>3. /\ r.outs \in Seq(Messages) /\ Len(r.outs) = r.generation /\ r.generation \in Nat
      /\ r.sid \in Nat /\ r.role \in {"Initiator", "Responder"}
  BY <1>2 DEF Record, Records
<1>4. /\ o \in Seq(Messages) /\ Len(o) = r.generation + 1
      /\ SubSeq(o, 1, r.generation) = r.outs
  BY <1>3
<1> HIDE DEF o
<1>5. Record(q) /\ q.sid = r.sid /\ q.generation = r.generation + 1 /\ q.outs = o
  BY <1>3, <1>4, NewRecord
<1> HIDE DEF q
<1>6. Follows(q, r)
  BY <1>4, <1>5 DEF Follows
<1>7. t \in Transitions /\ t.rec = q /\ t.base = r.generation
  BY <1>3, <1>5 DEF Transitions, Record
<1> HIDE DEF t
<1>8. TransitionOK(t, inst[c])
  BY <1>1, <1>3, <1>5, <1>6, <1>7 DEF TransitionOK
<1>9. OnlySession(c) /\ staged'[c] = staged[c] \cup {t}
  BY <1>0, <1>1 DEF OnlySession
<1>10. ProcessOK(inst'[c], staged'[c], wc'[c])
  BY <1>0, <1>1, <1>8, <1>9 DEF ProcessOK
<1>11. Stored' = Stored
  BY <1>1 DEF svars, Stored
<1> QED
  BY <1>1, <1>9, <1>10, <1>11, QuietStep

\* commit_with.
LEMMA CommitSession ==
    ASSUME WriteInv, SessionInv, NEW c \in Conns, NEW t \in staged[c],
           NEW side \in SideWrites(Contents[SideName], SideOf(t.rec)),
           CommitWith(c, t, side)
    PROVE  SessionInv'
<1> DEFINE i == inst[c]
           x == Write(SessionName, Predecessor(i.rec), DoPut(t.rec))
<1>0. /\ DOMAIN wc = Conns /\ DOMAIN inst = Conns /\ DOMAIN staged = Conns
      /\ ProcessOK(inst[c], staged[c], wc[c])
  BY DEF WriteInv, SessionInv
<1>1. /\ wc[c].phase = "idle" /\ i # None /\ ~i.prov
      /\ UNCHANGED <<rows, inst, established, released>>
  BY DEF CommitWith, Ready, svars
<1>2. Stored' = Stored
  BY <1>1 DEF Stored
<1>3. CASE staged' = [staged EXCEPT ![c] = @ \ {t}] /\ UNCHANGED wc
  <2>1. OnlySession(c) /\ staged'[c] = staged[c] \ {t}
    BY <1>0, <1>1, <1>3 DEF OnlySession
  <2>2. ProcessOK(inst'[c], staged'[c], wc'[c])
    BY <1>0, <1>1, <1>3, <2>1 DEF ProcessOK
  <2> QED
    BY <1>1, <1>2, <1>3, <2>1, <2>2, QuietStep
<1>4. CASE /\ Fresh(c, t) /\ ~SideRefused(x, side) /\ UNCHANGED staged
           /\ Start(c, "commit", Batch(x, side), t)
  <2>1. Record(t.rec) /\ Follows(t.rec, i.rec)
    BY <1>0, <1>4 DEF ProcessOK, TransitionOK, Fresh
  <2>2. /\ x.name = SessionName /\ x.action.kind = "Put"
        /\ x.expect = Predecessor(i.rec) /\ x.action = DoPut(t.rec)
    BY DEF Write, DoPut
  <2> HIDE DEF x
  <2>3. Batch(x, side)[1] = x
    BY <1>4, <2>2, AcceptedSide
  <2>4. ASSUME NEW w, w.kind = "commit", w.writes = Batch(x, side), w.next = t
        PROVE  BatchOK(w, inst[c], staged[c])
    BY <1>1, <2>1, <2>2, <2>3, <2>4 DEF BatchOK
  <2>5. UNCHANGED <<rows, local>>
    BY <1>1, <1>4 DEF local
  <2> QED
    BY <1>4, <2>4, <2>5, SubmitSession
<1> QED
  BY <1>3, <1>4 DEF CommitWith

\* promote_with.
LEMMA PromoteSession ==
    ASSUME WriteInv, SessionInv, NEW c \in Conns, NEW t \in staged[c],
           NEW side \in SideWrites(Contents[SideName], SideOf(t.rec)),
           PromoteWith(c, t, side)
    PROVE  SessionInv'
<1> DEFINE i == inst[c]
           x == Write(SessionName, Absent, DoPut(t.rec))
<1>0. /\ DOMAIN wc = Conns /\ DOMAIN inst = Conns /\ DOMAIN staged = Conns
      /\ ProcessOK(inst[c], staged[c], wc[c])
  BY DEF WriteInv, SessionInv
<1>1. /\ wc[c].phase = "idle" /\ i # None /\ i.prov
      /\ UNCHANGED <<rows, established, released>>
  BY DEF PromoteWith, Ready, svars
<1>2. Stored' = Stored
  BY <1>1 DEF Stored
<1>3. CASE /\ inst' = [inst EXCEPT ![c] = None] /\ UNCHANGED wc
           /\ staged' = [staged EXCEPT ![c] = Disowned(@ \ {t})]
  <2>1. OnlySession(c) /\ staged'[c] = Disowned(staged[c] \ {t}) /\ inst'[c] = None
    BY <1>0, <1>3 DEF OnlySession
  <2>2. \A u \in staged[c] \ {t} : TransitionOK(u, inst[c])
    BY <1>0 DEF ProcessOK
  <2>3. \A u \in staged'[c] : TransitionOK(u, None)
    BY <2>1, <2>2, DisownedFit
  <2>4. ProcessOK(inst'[c], staged'[c], wc'[c])
    BY <1>1, <1>3, <2>1, <2>3 DEF ProcessOK, SessionOK
  <2>5. \A s \in Nat : ~Owns(inst'[c], wc'[c], s)
    BY <1>1, <1>3, <2>1 DEF Owns
  <2> QED
    BY <1>1, <1>2, <2>1, <2>4, <2>5, QuietStep
<1>4. CASE /\ t.mine /\ t.base = 0 /\ ~SideRefused(x, side) /\ UNCHANGED <<inst, staged>>
           /\ Start(c, "promote", Batch(x, side), t)
  <2>1. Record(t.rec) /\ Follows(t.rec, i.rec)
    BY <1>0, <1>1, <1>4 DEF ProcessOK, TransitionOK, SessionOK
  <2>2. /\ x.name = SessionName /\ x.action.kind = "Put"
        /\ x.expect = Absent /\ x.action = DoPut(t.rec)
    BY DEF Write, DoPut
  <2> HIDE DEF x
  <2>3. Batch(x, side)[1] = x
    BY <1>4, <2>2, AcceptedSide
  <2>4. ASSUME NEW w, w.kind = "promote", w.writes = Batch(x, side), w.next = t
        PROVE  BatchOK(w, inst[c], staged[c])
    BY <1>1, <2>1, <2>2, <2>3, <2>4 DEF BatchOK
  <2>5. UNCHANGED <<rows, local>>
    BY <1>1, <1>4 DEF local
  <2> QED
    BY <1>4, <2>4, <2>5, SubmitSession
<1> QED
  BY <1>3, <1>4 DEF PromoteWith

\* remove_session.
LEMMA RemoveSession ==
    ASSUME WriteInv, SessionInv, NEW c \in Conns, Remove(c)
    PROVE  SessionInv'
<1> DEFINE x == Write(SessionName, Exactly(inst[c].rec), DoDelete)
           y == Write(SideName, Unconditional, DoDelete)
<1>1. /\ inst[c] # None /\ ~inst[c].prov /\ staged[c] = {} /\ UNCHANGED <<rows, local>>
      /\ Start(c, "remove", <<x, y>>, None)
  BY DEF Remove, svars
<1>2. x.action = DoDelete
  BY DEF Write
<1> HIDE DEF x, y
<1>3. ASSUME NEW w, w.kind = "remove", w.writes = <<x, y>>
      PROVE  BatchOK(w, inst[c], staged[c])
  BY <1>1, <1>2, <1>3 DEF BatchOK
<1> QED
  BY <1>1, <1>3, SubmitSession

\* Every step keeps the invariant.
LEMMA NextSession == WriteInv /\ SessionInv /\ [Next]_dvars => SessionInv'
<1> SUFFICES ASSUME WriteInv, SessionInv, [Next]_dvars PROVE SessionInv'
  OBVIOUS
<1>1. ASSUME UNCHANGED <<wc, local>>, rows' = rows
      PROVE  SessionInv'
  BY <1>1, LeaveSession DEF Stored
<1>2. ASSUME NEW c \in Conns, Blocked(c) \/ ProcessOpens(c)
      PROVE  SessionInv'
  BY <1>1, <1>2 DEF Blocked, Refuse, ProcessOpens, Open
<1>3. ASSUME NEW c \in Conns, Acknowledge(c)
      PROVE  SessionInv'
  <2>1. UNCHANGED <<wc, local>> /\ (rows' = rows \/ rows' = DeleteRow(rows, SideName))
    BY <1>3 DEF Acknowledge, Delete, Autocommit
  <2>2. Stored' = Stored
    BY <2>1, DeleteGet, DurableAssumption DEF Stored
  <2> QED
    BY <2>1, <2>2, LeaveSession
<1>4. CASE FileDamaged
  <2>1. Stored' = Decryption
    BY <1>4, DamageGet, DurableAssumption DEF Stored
  <2> QED
    BY <1>4, <2>1, LeaveSession DEF FileDamaged, Readable
<1>5. CASE UNCHANGED dvars
  BY <1>1, <1>5 DEF dvars, svars, local
<1> QED
  BY <1>2, <1>3, <1>4, <1>5, WritesKeepSession, CreateSession, ProvisionalSession,
     LoadSession, StageSession, CommitSession, PromoteSession, RemoveSession DEF Next

\* The initial states.
LEMMA InitSession == Init => SessionInv
<1> SUFFICES ASSUME Init PROVE SessionInv
  OBVIOUS
<1>1. Stored = NotFound
  BY DEF Init, StorageInit, Stored, GetRow, NoTable
<1>2. ProcessOK(None, {}, NoBatch) /\ \A s \in Nat : ~Owns(None, NoBatch, s)
  BY DEF ProcessOK, SessionOK, Owns, NoBatch
<1>3. Known /\ Kept /\ OneOutputPerGeneration
  BY <1>1 DEF Init, Known, Kept, OneOutputPerGeneration, Readable
<1>4. Private
  BY <1>2 DEF Private, Init
<1> QED
  BY <1>2, <1>3, <1>4 DEF Init, SessionInv

\* The inductive invariant of the whole.
LEMMA DurableInvariant == Spec => [](WriteInv /\ SessionInv)
<1>1. Init => WriteInv /\ SessionInv
  BY InitWrites, InitSession
<1>2. WriteInv /\ SessionInv /\ [Next]_dvars => WriteInv' /\ SessionInv'
  BY NextWrites, NextSession
<1> QED
  BY <1>1, <1>2, PTL DEF Spec

\* commit_with and promote_with (durable.rs) never hand two callers outputs of
\* one generation of a session, whatever was staged, reloaded, lost, removed or
\* repeated, by any number of processes.
THEOREM OneOutputPerGenerationHolds == Spec => []OneOutputPerGeneration
<1>1. SessionInv => OneOutputPerGeneration
  BY DEF SessionInv
<1> QED
  BY <1>1, DurableInvariant, PTL

\* What commit_with and promote_with handed out is a prefix of the history stored
\* for its session, as long as that is stored and readable.
THEOREM ReleasedIsKeptHolds == Spec => []ReleasedIsKept
<1>1. SessionInv => ReleasedIsKept
  <2>1. Contents[SessionName] = Stored
    BY DurableAssumption DEF Contents, Stored
  <2> QED
    BY <2>1 DEF SessionInv, Kept, Readable, ReleasedIsKept
<1> QED
  BY <1>1, DurableInvariant, PTL
====
