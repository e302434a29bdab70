------------------------------- MODULE Durable -------------------------------
(***************************************************************************)
(* Durable sessions (core-protocol/src/durable.rs) over the encrypted      *)
(* store: every process has one connection, at most one DurableSession (or *)
(* ProvisionalSession) for the one peer, the transitions it staged, and at *)
(* most one write_conditional in progress, which is a sequence of calls of *)
(* Storage.                                                                *)
(*                                                                         *)
(* A session record is the session it belongs to, the role, the generation *)
(* and the outputs its ratchet went through; comparing digests is          *)
(* comparing records.  Every record under the session's name was written   *)
(* by this code for these two identities, so it decodes, unless the file   *)
(* is damaged.  The side write of a transition names what it produced.     *)
(***************************************************************************)
EXTENDS Storage, Sequences

CONSTANTS
    SessionName,    \* the name session_storage_key gives the peer
    SideName,       \* the record written beside the checkpoint
    Messages,       \* what may be encrypted or decrypted
    MaxGeneration,  \* u64::MAX
    MaxSessions,    \* bound: sessions ever established with the peer
    MaxStaged       \* bound: transitions staged and not consumed, of all processes

ASSUME DurableAssumption ==
    /\ Names = {SessionName, SideName}
    /\ SessionName # SideName
    /\ MaxGeneration \in Nat /\ MaxSessions \in Nat /\ MaxStaged \in Nat
    /\ None \notin {"conflict", "side_conflict"}

VARIABLES
    inst,         \* the session each process holds: record, status, provisional
    staged,       \* the transitions each process staged and did not consume
    wc,           \* the write_conditional of each process
    established,  \* how many sessions were derived so far
    released      \* history: the outputs handed to a caller

dvars == <<svars, inst, staged, wc, established, released>>
local == <<inst, staged, established, released>>

-----------------------------------------------------------------------------
(* Records and batches.                                                    *)

Records == [sid: Nat, role: {"Initiator", "Responder"}, generation: Nat, outs: Seq(Messages)]

\* DurableSession, or ProvisionalSession (prov).
Sessions == [rec: Records, status: {"Active", "Conflicted", "Unresolved"}, prov: BOOLEAN]
ASSUME NoSession == None \notin Sessions

Rec(sid, role, outs) ==
    [sid |-> sid, role |-> role, generation |-> Len(outs), outs |-> outs]

\* The side record a transition to rec writes.
SideOf(rec) == [sid |-> rec.sid, generation |-> rec.generation]

Absent == [kind |-> "Absent"]
Exactly(value) == [kind |-> "Exactly", value |-> value]
Predecessor(rec) == [kind |-> "Predecessor", value |-> rec]
Unconditional == [kind |-> "Any"]

DoPut(value) == [kind |-> "Put", value |-> value]
DoDelete == [kind |-> "Delete"]
DoCheck == [kind |-> "Check"]

Write(n, expect, action) == [name |-> n, expect |-> expect, action |-> action]

\* Mutant: any record of the right role passes for the predecessor.
CheckRoleOnly(current, expect) ==
    CASE expect.kind = "Any" -> Ok
      [] expect.kind = "Absent" -> IF current = NotFound THEN Ok ELSE "RecordExists"
      [] current \in {NotFound, Decryption} -> "RecordMissing"
      [] expect.kind = "Exactly" -> IF current = expect.value THEN Ok ELSE "RecordChanged"
      [] OTHER -> IF current.role = expect.value.role THEN Ok ELSE "RoleMismatch"

\* Why the record found does not satisfy what is expected of it, or Ok.
CheckPrecondition(current, expect) ==
    CASE expect.kind = "Any" -> Ok
      [] expect.kind = "Absent" -> IF current = NotFound THEN Ok ELSE "RecordExists"
      [] OTHER ->
           CASE current = NotFound -> "RecordMissing"
             [] current = Decryption -> "StoredRecordUnreadable"
             [] OTHER ->
                  IF expect.kind = "Exactly"
                  THEN IF current = expect.value THEN Ok ELSE "RecordChanged"
                  ELSE CASE current.role # expect.value.role -> "RoleMismatch"
                         [] current.generation # expect.value.generation ->
                              "GenerationMismatch"
                         [] current # expect.value -> "Superseded"
                         [] OTHER -> Ok

\* SideWrite::new refuses session names; batch refuses a name given twice.
SideRefused(session, side) ==
    \/ \E i \in DOMAIN side : side[i].name = SessionName
    \/ \E i, j \in DOMAIN side : i # j /\ side[i].name = side[j].name

Batch(session, side) == <<session>> \o side

\* insert or replace, by what the caller read; or require_absent.
SideWrites(read, value) ==
    {<<Write(SideName, IF read = NotFound THEN Absent ELSE Exactly(read), DoPut(value))>>,
     <<Write(SideName, Absent, DoCheck)>>,
     <<Write(SessionName, Unconditional, DoPut(value))>>,
     <<Write(SideName, Absent, DoPut(value)), Write(SideName, Absent, DoCheck)>>}

-----------------------------------------------------------------------------
(* write_conditional, one call of the store at a time.                     *)

NoBatch == [phase |-> "idle", at |-> 0, writes |-> <<>>, kind |-> None,
            next |-> None, res |-> None]

Start(c, kind, writes, next) ==
    wc' = [wc EXCEPT ![c] = [phase |-> "begin", at |-> 1, writes |-> writes,
                             kind |-> kind, next |-> next, res |-> None]]

\* A result other than Ok is final, but the transaction is dropped first.
Drop(c, res) == wc' = [wc EXCEPT ![c].phase = "drop", ![c].res = res]

\* What the operation that submitted the batch does with the outcome.
Finish(c, res) ==
    LET w == wc[c]
        s == w.next
    IN  /\ wc' = [wc EXCEPT ![c] = NoBatch]
        /\ UNCHANGED established
        /\ CASE w.kind = "commit" ->
                  /\ staged' = [staged EXCEPT ![c] = @ \ {s}]
                  /\ inst' = CASE res = "ok" ->
                                    [inst EXCEPT ![c].rec = s.rec]
                               [] res = "conflict" ->
                                    [inst EXCEPT ![c].status = "Conflicted"]
                               [] res = "unknown" ->
                                    [inst EXCEPT ![c].status = "Unresolved"]
                               [] OTHER -> inst
             [] w.kind = "create" ->
                  /\ inst' = IF res = "ok" THEN [inst EXCEPT ![c] = s] ELSE inst
                  /\ UNCHANGED staged
             [] w.kind = "promote" ->
                  /\ inst' = [inst EXCEPT ![c] =
                                IF res = "ok"
                                THEN [rec |-> s.rec, status |-> "Active", prov |-> FALSE]
                                ELSE None]
                  /\ staged' = [staged EXCEPT ![c] = {}]
             [] w.kind = "remove" ->
                  /\ inst' = [inst EXCEPT ![c] = None]
                  /\ UNCHANGED staged
        /\ released' = IF res = "ok" /\ w.kind \in {"commit", "promote"}
                       THEN released \cup {[by |-> c, rec |-> s.rec]} ELSE released

WcBegin(c) ==
    /\ wc[c].phase = "begin"
    /\ \/ /\ Begin(c, Ok)
          /\ wc' = [wc EXCEPT ![c].phase = "check"]
          /\ UNCHANGED local
       \/ Begin(c, Busy) /\ Finish(c, "not_committed")
       \/ Refuse(c) /\ Finish(c, "not_committed")

\* The gets and their checks, in order: the transaction holds the write lock,
\* so nothing happens between them.
WcCheck(c) ==
    LET writes == wc[c].writes
        found(i) == GetRow(conn[c].table, writes[i].name)
        failing == {i \in DOMAIN writes : CheckPrecondition(found(i), writes[i].expect) # Ok}
    IN  /\ wc[c].phase = "check"
        /\ \A i \in DOMAIN writes : TxGet(c, writes[i].name, found(i))
        /\ UNCHANGED local
        /\ IF failing = {}
           THEN wc' = [wc EXCEPT ![c].phase = "write"]
           ELSE Drop(c, IF 1 \in failing THEN "conflict" ELSE "side_conflict")

WcWrite(c) ==
    LET w == wc[c].writes[wc[c].at]
    IN  /\ wc[c].phase = "write"
        /\ CASE w.action.kind = "Put" -> TxPut(c, w.name, w.action.value, Ok)
             [] w.action.kind = "Delete" -> TxDelete(c, w.name, Ok)
             [] OTHER -> UNCHANGED svars
        /\ UNCHANGED local
        /\ wc' = IF wc[c].at = Len(wc[c].writes)
                 THEN [wc EXCEPT ![c].phase = "commit"]
                 ELSE [wc EXCEPT ![c].at = @ + 1]

\* A get, put or delete fails, and may end the transaction.
WcError(c) ==
    /\ wc[c].phase \in {"check", "write"}
    /\ TxFails(c)
    /\ Drop(c, "not_committed")
    /\ UNCHANGED local

WcDrop(c) ==
    /\ wc[c].phase = "drop"
    /\ Rollback(c)
    /\ Finish(c, wc[c].res)

WcCommit(c) ==
    /\ wc[c].phase = "commit"
    /\ \/ Commit(c, Ok) /\ Finish(c, "ok")
       \/ Commit(c, Err) /\ Finish(c, "unknown")

-----------------------------------------------------------------------------
(* DurableSession and ProvisionalSession.                                  *)

\* Between calls.
Ready(c) == conn[c].up /\ wc[c].phase = "idle"

\* A session just derived from a handshake: create_with stores it.
Create(c) ==
    LET rec == Rec(established + 1, "Initiator", <<>>)
    IN  /\ Ready(c) /\ inst[c] = None
        /\ established < MaxSessions
        /\ established' = established + 1
        /\ Start(c, "create",
                 Batch(Write(SessionName, Absent, DoPut(rec)),
                       <<Write(SideName, Absent, DoPut(SideOf(rec)))>>),
                 [rec |-> rec, status |-> "Active", prov |-> FALSE])
        /\ UNCHANGED <<svars, inst, staged, released>>

\* ProvisionalSession::new: nothing is stored.
NewProvisional(c) ==
    /\ Ready(c) /\ inst[c] = None
    /\ established < MaxSessions
    /\ established' = established + 1
    /\ inst' = [inst EXCEPT ![c] = [rec |-> Rec(established + 1, "Responder", <<>>),
                                    status |-> "Active", prov |-> TRUE]]
    /\ UNCHANGED <<svars, wc, staged, released>>

\* Transitions of an instance that is gone: they stay with the caller.
Disowned(ts) == {[t EXCEPT !.mine = FALSE] : t \in ts}

\* load: a new instance of what is stored.
Load(c) ==
    LET found == GetRow(rows, SessionName)
    IN  /\ Ready(c)
        /\ Get(c, SessionName, found)
        /\ inst' = [inst EXCEPT ![c] =
                      IF found \in {NotFound, Decryption} THEN None
                      ELSE [rec |-> found, status |-> "Active", prov |-> FALSE]]
        /\ staged' = [staged EXCEPT ![c] = Disowned(@)]
        /\ UNCHANGED <<wc, established, released>>

\* stage_encrypt, stage_decrypt and stage_first_decrypt, on a copy of the
\* ratchet.  Dropping a transition is never committing it.
Stage(c, m) ==
    /\ Ready(c) /\ inst[c] # None
    /\ inst[c].status = "Active"
    /\ inst[c].rec.generation < MaxGeneration
    /\ Cardinality(UNION {staged[d] \X {d} : d \in Conns}) < MaxStaged
    /\ LET r == inst[c].rec
       IN  staged' = [staged EXCEPT ![c] = @ \cup
                        {[rec |-> Rec(r.sid, r.role, Append(r.outs, m)),
                          base |-> r.generation, mine |-> TRUE]}]
    /\ UNCHANGED <<svars, wc, inst, established, released>>

\* Mutant: only the instance is compared, not the state it was staged from.
FreshAnyState(c, t) == t.mine

\* Staged by this instance, in its present state.
Fresh(c, t) == t.mine /\ t.base = inst[c].rec.generation

\* commit_with: refused, or submitted as one batch.
CommitWith(c, t, side) ==
    LET session == Write(SessionName, Predecessor(inst[c].rec), DoPut(t.rec))
    IN  /\ Ready(c) /\ inst[c] # None /\ ~inst[c].prov
        /\ IF inst[c].status = "Active" /\ Fresh(c, t) /\ ~SideRefused(session, side)
           THEN Start(c, "commit", Batch(session, side), t) /\ UNCHANGED staged
           ELSE staged' = [staged EXCEPT ![c] = @ \ {t}] /\ UNCHANGED wc
        /\ UNCHANGED <<svars, inst, established, released>>

\* promote_with consumes the provisional session.
PromoteWith(c, t, side) ==
    LET session == Write(SessionName, Absent, DoPut(t.rec))
    IN  /\ Ready(c) /\ inst[c] # None /\ inst[c].prov
        /\ IF t.mine /\ t.base = 0 /\ ~SideRefused(session, side)
           THEN Start(c, "promote", Batch(session, side), t) /\ UNCHANGED <<inst, staged>>
           ELSE /\ inst' = [inst EXCEPT ![c] = None]
                /\ staged' = [staged EXCEPT ![c] = Disowned(@ \ {t})]
                /\ UNCHANGED wc
        /\ UNCHANGED <<svars, established, released>>

\* remove_session: the record held, and what belongs to it.
Remove(c) ==
    /\ Ready(c) /\ inst[c] # None /\ ~inst[c].prov /\ staged[c] = {}
    /\ inst[c].status = "Active"
    /\ Start(c, "remove",
             <<Write(SessionName, Exactly(inst[c].rec), DoDelete),
               Write(SideName, Unconditional, DoDelete)>>, None)
    /\ UNCHANGED <<svars, local>>

\* Another user of the store deletes the side record, as an acknowledgement does.
Acknowledge(c) ==
    /\ Ready(c)
    /\ \E res \in {Ok, Err, Busy} : Delete(c, SideName, res)
    /\ UNCHANGED <<wc, local>>

\* A call that only finds a transaction left open.
Blocked(c) ==
    /\ Ready(c)
    /\ Refuse(c)
    /\ UNCHANGED <<wc, local>>

ProcessOpens(c) == Open(c) /\ UNCHANGED <<wc, local>>

ProcessDies(c) ==
    /\ Crash(c) \/ (wc[c].phase = "commit" /\ CrashInCommit(c))
    /\ inst' = [inst EXCEPT ![c] = None]
    /\ staged' = [staged EXCEPT ![c] = {}]
    /\ wc' = [wc EXCEPT ![c] = NoBatch]
    /\ UNCHANGED <<established, released>>

FileDamaged ==
    /\ Damage(SessionName, [ek |-> EncryptKeyName(SessionName), v |-> Garbage])
    /\ UNCHANGED <<wc, local>>

Init ==
    /\ StorageInit
    /\ inst = [c \in Conns |-> None]
    /\ staged = [c \in Conns |-> {}]
    /\ wc = [c \in Conns |-> NoBatch]
    /\ established = 0
    /\ released = {}

Next ==
    \/ \E c \in Conns :
        \/ WcBegin(c) \/ WcCheck(c) \/ WcWrite(c) \/ WcError(c) \/ WcDrop(c) \/ WcCommit(c)
        \/ Create(c) \/ NewProvisional(c) \/ Load(c) \/ Remove(c) \/ Acknowledge(c) \/ Blocked(c)
        \/ ProcessOpens(c) \/ ProcessDies(c)
        \/ \E m \in Messages : Stage(c, m)
        \/ \E t \in staged[c] :
            \E side \in SideWrites(Contents[SideName], SideOf(t.rec)) :
                CommitWith(c, t, side) \/ PromoteWith(c, t, side)
    \/ FileDamaged

Spec == Init /\ [][Next]_dvars

-----------------------------------------------------------------------------
(* Properties.                                                             *)

\* No two callers are handed outputs of one generation of a session: a ratchet
\* position is used once, whatever was staged, reloaded, lost or repeated.
OneOutputPerGeneration ==
    \A x, y \in released :
        x.rec.sid = y.rec.sid /\ x.rec.generation = y.rec.generation => x = y

\* What was handed out is in the stored history of its session for as long as
\* the session is stored and readable: state is never taken back.
ReleasedIsKept ==
    LET stored == Contents[SessionName]
    IN  stored \notin {NotFound, Decryption} =>
          \A x \in released :
             x.rec.sid = stored.sid =>
                /\ x.rec.generation <= stored.generation
                /\ SubSeq(stored.outs, 1, x.rec.generation) = x.rec.outs

HoldsIn(t, b) == \A i \in DOMAIN b : CheckPrecondition(t[b[i].name], b[i].expect) = Ok

\* Every write of the batch, in order.
ApplyTo(t, b) ==
    LET puts(n) == {i \in DOMAIN b : b[i].name = n /\ b[i].action.kind # "Check"}
    IN  [n \in Names |->
           IF puts(n) = {} THEN t[n]
           ELSE LET i == CHOOSE i \in puts(n) : \A j \in puts(n) : j <= i
                IN  IF b[i].action.kind = "Put" THEN b[i].action.value ELSE NotFound]

Promise == INSTANCE CheckpointStore WITH
    Clients <- Conns,
    Holds <- HoldsIn,
    Apply <- ApplyTo,
    table <- Contents,
    batch <- [c \in Conns |-> wc[c].writes],
    result <- [c \in Conns |->
                 CASE wc[c].phase = "idle" -> "none"
                   [] wc[c].res \in {"conflict", "side_conflict"} -> "conflict"
                   [] OTHER -> "running"],
    Gone <- {NotFound, Decryption}

\* The steps of write_conditional make up one atomic conditional write: it takes
\* effect whole, at one moment, and only if every precondition holds then; a
\* conflict is reported only if one does not.
ImplementsCheckpointStore == Promise!Spec
=============================================================================
