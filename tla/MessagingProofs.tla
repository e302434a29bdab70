-------------------------- MODULE MessagingProofs --------------------------
(***************************************************************************)
(* Proofs about module Messaging, for every set of instances, peers,       *)
(* handles (colliding ones included), logical messages and handshakes, and *)
(* every bound: its type and safety invariants, what its steps may do, and *)
(* that it implements Lifecycle.                                           *)
(*                                                                         *)
(* The argument has three layers.  What an operation read earlier          *)
(* constrains the values it carries (OpInv).  With that, every step has    *)
(* one of eleven effects on the records the properties are about           *)
(* (StepEffect).  Each invariant is then preserved by each effect, and     *)
(* each effect on the store is one step of the life cycle of one message,  *)
(* or none; it advances a session by one message or takes away one that    *)
(* owes nothing; and it leaves in place what recover looks for.            *)
(***************************************************************************)
EXTENDS Messaging, FiniteSetTheorems, TLAPS

-----------------------------------------------------------------------------
(* Types.                                                                  *)

\* What an operation in progress carries at each of its steps.
OpShape(o) ==
    /\ o.pc # "idle" => o.h \in Handle
    /\ o.pc \in {"provisional", "retire", "retire_commit", "promote",
                 "receive_commit", "send", "send_commit", "remove"} =>
          o.peer \in Peer
    /\ o.pc \in {"provisional", "retire", "retire_commit"} =>
          o.hs \in Handshakes
    /\ o.pc \in {"first", "promote"} => o.hs \in Handshakes /\ o.msg \in Msg
    /\ o.pc \in {"receive", "receive_commit"} => o.msg \in Msg
    /\ o.pc \in {"send", "send_commit"} => o.cid \in Cid
    /\ o.pc \in {"retire_commit", "receive_commit", "send_commit", "remove"} =>
          o.base \in Session

TypeInv == TypeOK /\ \A i \in Instance : OpShape(op[i])

-----------------------------------------------------------------------------
(* Updates of set-valued and of nested functions.                          *)

\* Adding to one set of a family of sets.
LEMMA AddType ==
    ASSUME NEW D, NEW S, NEW f \in [D -> SUBSET S], NEW d \in D, NEW x \in S
    PROVE  [f EXCEPT ![d] = @ \cup {x}] \in [D -> SUBSET S]
  OBVIOUS

\* Removing from one set of a family of sets.
LEMMA DropType ==
    ASSUME NEW D, NEW S, NEW f \in [D -> SUBSET S], NEW d \in D, NEW x
    PROVE  [f EXCEPT ![d] = @ \ {x}] \in [D -> SUBSET S]
  OBVIOUS

\* Replacing one record of a family of families.
LEMMA NestType ==
    ASSUME NEW D, NEW E, NEW S, NEW f \in [D -> [E -> S]],
           NEW d \in D, NEW e \in E, NEW x \in S
    PROVE  [f EXCEPT ![d][e] = x] \in [D -> [E -> S]]
  OBVIOUS

-----------------------------------------------------------------------------
(* Type correctness.                                                       *)

\* The idle operation is well typed.
LEMMA IdleType == Idle \in OpRecord /\ OpShape(Idle)
  BY DEF Idle, OpRecord, OpShape, Step

\* A step that only moves instance i to the operation state new.
LEMMA GotoType ==
    ASSUME TypeInv, NEW i \in Instance, NEW new \in OpRecord, OpShape(new),
           Goto(i, new), UNCHANGED <<store, unresolved, history>>
    PROVE  TypeInv'
  BY DEF TypeInv, TypeOK, Goto, store, history

\* An instance that returns leaves everything but its operation as it was.
LEMMA ReturnType ==
    ASSUME TypeInv, NEW i \in Instance, Return(i)
    PROVE  TypeInv'
  BY IdleType, GotoType DEF Return

\* The operation states stay typed when one instance returns.
LEMMA ReturnOpType ==
    ASSUME TypeInv, NEW i \in Instance, Goto(i, Idle)
    PROVE  op' \in [Instance -> OpRecord] /\ \A j \in Instance : OpShape(op'[j])
  BY IdleType DEF TypeInv, TypeOK, Goto

\* What an unknown outcome leaves in the unresolved map.
LEMMA RememberType ==
    ASSUME TypeInv, NEW i \in Instance, NEW h \in Handle,
           NEW kind \in {"create", "promote", "send", "receive"},
           NEW p \in Peer, NEW c \in Cid \cup {None}, NEW m \in Msg \cup {None},
           NEW legacy \in BOOLEAN, NEW out \in Outcome,
           Remember(i, h, out, kind, p, c, m, legacy)
    PROVE  unresolved' \in [Instance -> [Handle -> PendingRecord \cup {None}]]
<1>1. Pending(kind, p, c, m, legacy, Applied(out)) \in PendingRecord
  BY DEF Pending, PendingRecord, Applied
<1> QED
  BY <1>1 DEF TypeInv, TypeOK, Remember

\* A loaded session is a session record, its handle names a peer.
LEMMA LoadType ==
    ASSUME TypeInv, NEW h \in Handle, Load(h) # None
    PROVE  Load(h) \in Session /\ handles[h] \in Peer
  BY DEF TypeInv, TypeOK, Load

\* The initial states are well typed.
LEMMA InitType == Init => TypeInv
<1> SUFFICES ASSUME Init PROVE TypeInv
  OBVIOUS
<1>1. PICK old \in SUBSET LegacyPeer :
        /\ session = [p \in Peer |->
                        IF p \in old THEN LegacySession(p) ELSE None]
        /\ handles = [h \in Handle |->
                        IF \E p \in old : HandleOf[p] = h
                        THEN CHOOSE p \in old : HandleOf[p] = h ELSE None]
        /\ promoted = {LegacySession(p).sid : p \in old}
  BY DEF Init
<1>2. old \subseteq Peer
  BY ConstantsAssumption
<1>3. \A p \in Peer : LegacySession(p) \in Session /\ LegacySession(p).sid \in Sid
  BY DEF LegacySession, Session, Sid, Role
<1>4. session \in [Peer -> Session \cup {None}] /\ promoted \in SUBSET Sid
  BY <1>1, <1>2, <1>3
<1>5. handles \in [Handle -> Peer \cup {None}]
  BY <1>1, <1>2
<1> QED
  BY <1>4, <1>5, IdleType DEF Init, TypeInv, TypeOK

\* create_session keeps the types.
LEMMA CreateSessionType ==
    ASSUME TypeInv, NEW i \in Instance, NEW p \in Peer, CreateSession(i, p)
    PROVE  TypeInv'
<1> DEFINE h == HandleOf[p]
           sid == [role |-> "initiator", peer |-> p, n |-> nextOut, prekey |-> 0]
           s0 == [sid |-> sid, sent |-> 0, rcvd |-> {}]
<1>1. h \in Handle
  BY ConstantsAssumption
<1>2. sid \in Sid /\ s0 \in Session
  BY DEF TypeInv, TypeOK, Sid, Session, Role
<1>3. PICK out \in Outcome :
        /\ IF Applied(out)
           THEN /\ session' = [session EXCEPT ![p] = s0]
                /\ handles' = [handles EXCEPT ![h] = p]
                /\ hsout' = [hsout EXCEPT ![p] = sid]
           ELSE UNCHANGED <<session, handles, hsout>>
        /\ unresolved' = [unresolved EXCEPT ![i][h] =
              IF out = "ok" THEN None
              ELSE Pending("create", p, None, None, FALSE, Applied(out))]
  BY DEF CreateSession
<1> HIDE DEF h, sid, s0
<1>4. Pending("create", p, None, None, FALSE, Applied(out)) \in PendingRecord
  BY DEF Pending, PendingRecord, Applied
<1>5. unresolved' \in [Instance -> [Handle -> PendingRecord \cup {None}]]
  BY <1>1, <1>3, <1>4 DEF TypeInv, TypeOK
<1>6. /\ session' \in [Peer -> Session \cup {None}]
      /\ handles' \in [Handle -> Peer \cup {None}]
      /\ hsout' \in [Peer -> Sid \cup {None}]
  BY <1>1, <1>2, <1>3 DEF TypeInv, TypeOK
<1>7. /\ nextOut' \in Nat
      /\ UNCHANGED <<hsin, outbox, sendid, inbox, seen, prekey, op,
                     sentLog, acked, promoted>>
  BY DEF TypeInv, TypeOK, CreateSession
<1> QED
  BY <1>5, <1>6, <1>7 DEF TypeInv, TypeOK

\* The promotion of a handshake keeps the types.
LEMMA PromoteType ==
    ASSUME TypeInv, NEW i \in Instance, Promote(i)
    PROVE  TypeInv'
<1> DEFINE h == op[i].h
           p == op[i].peer
           m == op[i].msg
           hs == op[i].hs
           s1 == [sid |-> hs, sent |-> 0, rcvd |-> {m.k}]
<1>1. /\ h \in Handle /\ p \in Peer /\ m \in Msg /\ hs \in Handshakes
      /\ op[i] \in OpRecord /\ op[i].pc = "promote"
  BY DEF Promote, TypeInv, TypeOK, OpShape
<1>2. hs \in Sid /\ m.k \in 1..MaxIn
  BY <1>1, ConstantsAssumption DEF Msg
<1>3. s1 \in Session
  BY <1>2 DEF Session
<1>4. CASE Goto(i, [op[i] EXCEPT !.pc = "receive"])
             /\ UNCHANGED <<store, unresolved, history>>
  <2>1. /\ [op[i] EXCEPT !.pc = "receive"] \in OpRecord
        /\ OpShape([op[i] EXCEPT !.pc = "receive"])
    BY <1>1 DEF OpRecord, OpShape, Step
  <2> QED
    BY <1>4, <2>1, GotoType
<1>5. CASE Return(i)
  BY <1>5, ReturnType
<1>6. ASSUME NEW out \in Outcome,
             /\ IF Applied(out)
                THEN /\ session' = [session EXCEPT ![p] = s1]
                     /\ handles' = [handles EXCEPT ![h] = p]
                     /\ hsin' = [hsin EXCEPT ![h] = None]
                     /\ inbox' = [inbox EXCEPT ![p] = @ \cup {m}]
                     /\ prekey' = prekey + 1
                     /\ promoted' = promoted \cup {hs}
                ELSE UNCHANGED <<session, handles, hsin, inbox, prekey, promoted>>
             /\ Remember(i, h, out, "promote", p, None, m, FALSE),
             Goto(i, Idle),
             UNCHANGED <<hsout, outbox, sendid, seen, nextOut, sentLog, acked>>
      PROVE  TypeInv'
  <2> HIDE DEF s1, h, p, m, hs
  <2>1. unresolved' \in [Instance -> [Handle -> PendingRecord \cup {None}]]
    BY <1>1, <1>6, RememberType
  <2>2. op' \in [Instance -> OpRecord] /\ \A j \in Instance : OpShape(op'[j])
    BY <1>6, ReturnOpType
  <2>3. /\ session' \in [Peer -> Session \cup {None}]
        /\ handles' \in [Handle -> Peer \cup {None}]
        /\ hsin' \in [Handle -> Handshakes \cup {None}]
    BY <1>1, <1>3, <1>6 DEF TypeInv, TypeOK, Applied
  <2>4. prekey' \in Nat /\ promoted' \in SUBSET Sid
    BY <1>2, <1>6 DEF TypeInv, TypeOK, Applied
  <2>5. inbox \in [Peer -> SUBSET Msg]
    BY DEF TypeInv, TypeOK
  <2>6. [inbox EXCEPT ![p] = @ \cup {m}] \in [Peer -> SUBSET Msg]
    BY <1>1, <2>5, AddType
  <2>7. inbox' \in [Peer -> SUBSET Msg]
    BY <1>6, <2>5, <2>6
  <2> QED
    BY <1>6, <2>1, <2>2, <2>3, <2>4, <2>7 DEF TypeInv, TypeOK
<1> QED
  BY <1>4, <1>5, <1>6 DEF Promote

\* The transaction of receive keeps the types.
LEMMA ReceiveCommitType ==
    ASSUME TypeInv, NEW i \in Instance, ReceiveCommit(i)
    PROVE  TypeInv'
<1> DEFINE h == op[i].h
           p == op[i].peer
           m == op[i].msg
           b == op[i].base
           s1 == [b EXCEPT !.rcvd = @ \cup {m.k}]
           leg == IsLegacyUnconfirmed(b)
<1>1. h \in Handle /\ p \in Peer /\ m \in Msg /\ b \in Session
  BY DEF ReceiveCommit, TypeInv, TypeOK, OpShape
<1>2. s1 \in Session
  BY <1>1 DEF Session, Msg
<1>3. leg \in BOOLEAN
  BY DEF IsLegacyUnconfirmed
<1>4. CASE Return(i)
  BY <1>4, ReturnType
<1>5. ASSUME NEW out \in Outcome,
             /\ IF Applied(out)
                THEN /\ session' = [session EXCEPT ![p] = s1]
                     /\ inbox' = [inbox EXCEPT ![p] = @ \cup {m}]
                ELSE UNCHANGED <<session, inbox>>
             /\ Remember(i, h, out, "receive", p, None, m, leg),
             Goto(i, Idle),
             UNCHANGED <<handles, hsout, hsin, outbox, sendid, seen, prekey,
                         history>>
      PROVE  TypeInv'
  <2> HIDE DEF s1, h, p, m, b, leg
  <2>1. unresolved' \in [Instance -> [Handle -> PendingRecord \cup {None}]]
    BY <1>1, <1>3, <1>5, RememberType
  <2>2. op' \in [Instance -> OpRecord] /\ \A j \in Instance : OpShape(op'[j])
    BY <1>5, ReturnOpType
  <2>3. session' \in [Peer -> Session \cup {None}]
    BY <1>1, <1>2, <1>5 DEF TypeInv, TypeOK, Applied
  <2>4. inbox \in [Peer -> SUBSET Msg]
    BY DEF TypeInv, TypeOK
  <2>5. [inbox EXCEPT ![p] = @ \cup {m}] \in [Peer -> SUBSET Msg]
    BY <1>1, <2>4, AddType
  <2>6. inbox' \in [Peer -> SUBSET Msg]
    BY <1>5, <2>4, <2>5
  <2> QED
    BY <1>5, <2>1, <2>2, <2>3, <2>6 DEF TypeInv, TypeOK, history
<1> QED
  BY <1>4, <1>5 DEF ReceiveCommit, Decrypted

\* The transaction of send keeps the types.
LEMMA SendCommitType ==
    ASSUME TypeInv, NEW i \in Instance, SendCommit(i)
    PROVE  TypeInv'
<1> DEFINE h == op[i].h
           p == op[i].peer
           c == op[i].cid
           b == op[i].base
           w == StagedWire(i)
           s1 == [b EXCEPT !.sent = @ + 1]
           r == [wire |-> w, abandoned |-> FALSE]
<1>1. h \in Handle /\ p \in Peer /\ c \in Cid /\ b \in Session
  BY DEF SendCommit, TypeInv, TypeOK, OpShape
<1>2. /\ s1 \in Session
      /\ b.sid \in Sid
      /\ b.sent \in Nat
  BY <1>1 DEF Session
<1>3. w \in Wire
  BY <1>1, <1>2 DEF StagedWire, Wire
<1>4. CASE Return(i)
  BY <1>4, ReturnType
<1>5. ASSUME NEW out \in Outcome,
             /\ IF Applied(out)
                THEN /\ session' = [session EXCEPT ![b.sid.peer] = s1]
                     /\ outbox' = [outbox EXCEPT ![p] = @ \cup {w}]
                     /\ sendid' = [sendid EXCEPT ![p][c] = r]
                     /\ sentLog' = sentLog \cup {w}
                ELSE UNCHANGED <<session, outbox, sendid, sentLog>>
             /\ Remember(i, h, out, "send", p, c, None, FALSE),
             Goto(i, Idle),
             UNCHANGED <<handles, hsout, hsin, inbox, seen, prekey,
                         nextOut, acked, promoted>>
      PROVE  TypeInv'
  <2>0. r \in SendRecord
    BY <1>3 DEF SendRecord
  <2> HIDE DEF s1, h, p, c, b, w, r
  <2>1. unresolved' \in [Instance -> [Handle -> PendingRecord \cup {None}]]
    BY <1>1, <1>5, RememberType
  <2>2. op' \in [Instance -> OpRecord] /\ \A j \in Instance : OpShape(op'[j])
    BY <1>5, ReturnOpType
  <2>3. /\ session' \in [Peer -> Session \cup {None}]
        /\ sentLog' \in SUBSET Wire
    BY <1>1, <1>2, <1>3, <1>5 DEF TypeInv, TypeOK, Applied
  <2>4. /\ outbox \in [Peer -> SUBSET Wire]
        /\ sendid \in [Peer -> [Cid -> SendRecord \cup {None}]]
    BY DEF TypeInv, TypeOK
  <2>5. [outbox EXCEPT ![p] = @ \cup {w}] \in [Peer -> SUBSET Wire]
    BY <1>1, <1>3, <2>4, AddType
  <2>6. [sendid EXCEPT ![p][c] = r]
          \in [Peer -> [Cid -> SendRecord \cup {None}]]
    BY <1>1, <2>0, <2>4, NestType
  <2>7. /\ outbox' \in [Peer -> SUBSET Wire]
        /\ sendid' \in [Peer -> [Cid -> SendRecord \cup {None}]]
    BY <1>5, <2>4, <2>5, <2>6
  <2> QED
    BY <1>5, <2>1, <2>2, <2>3, <2>7 DEF TypeInv, TypeOK
<1> QED
  BY <1>4, <1>5 DEF SendCommit

\* acknowledge_incoming keeps the types.
LEMMA AcknowledgeIncomingType ==
    ASSUME TypeInv, NEW i \in Instance, NEW h \in Handle, NEW m \in Msg,
           AcknowledgeIncoming(i, h, m)
    PROVE  TypeInv'
<1>1. handles[h] \in Peer
  BY DEF AcknowledgeIncoming, TypeInv, TypeOK
<1>2. inbox \in [Peer -> SUBSET Msg] /\ seen \in [Peer -> SUBSET Msg]
  BY DEF TypeInv, TypeOK
<1>3. [inbox EXCEPT ![handles[h]] = @ \ {m}] \in [Peer -> SUBSET Msg]
  BY <1>1, <1>2, DropType
<1>4. [seen EXCEPT ![handles[h]] = @ \cup {m}] \in [Peer -> SUBSET Msg]
  BY <1>1, <1>2, AddType
<1> QED
  BY <1>3, <1>4 DEF AcknowledgeIncoming, TypeInv, TypeOK, history

\* acknowledge_outgoing keeps the types.
LEMMA AcknowledgeOutgoingType ==
    ASSUME TypeInv, NEW i \in Instance, NEW h \in Handle, NEW w \in Wire,
           AcknowledgeOutgoing(i, h, w)
    PROVE  TypeInv'
<1>1. handles[h] \in Peer
  BY DEF AcknowledgeOutgoing, TypeInv, TypeOK
<1>2. outbox \in [Peer -> SUBSET Wire]
  BY DEF TypeInv, TypeOK
<1>3. [outbox EXCEPT ![handles[h]] = @ \ {w}] \in [Peer -> SUBSET Wire]
  BY <1>1, <1>2, DropType
<1> QED
  BY <1>3 DEF AcknowledgeOutgoing, TypeInv, TypeOK

\* abandon_outgoing keeps the types.
LEMMA AbandonOutgoingType ==
    ASSUME TypeInv, NEW i \in Instance, NEW h \in Handle, NEW w \in Wire,
           AbandonOutgoing(i, h, w)
    PROVE  TypeInv'
<1> DEFINE r == [wire |-> w, abandoned |-> TRUE]
           T == SendRecord \cup {None}
<1>1. handles[h] \in Peer /\ w.cid \in Cid /\ r \in T
  BY DEF AbandonOutgoing, TypeInv, TypeOK, Wire, SendRecord
<1>2. outbox \in [Peer -> SUBSET Wire] /\ sendid \in [Peer -> [Cid -> T]]
  BY DEF TypeInv, TypeOK
<1>3. [outbox EXCEPT ![handles[h]] = @ \ {w}] \in [Peer -> SUBSET Wire]
  BY <1>1, <1>2, DropType
<1>4. sendid' = [sendid EXCEPT ![handles[h]][w.cid] = r]
  BY DEF AbandonOutgoing
<1> HIDE DEF T, r
<1>5. [sendid EXCEPT ![handles[h]][w.cid] = r] \in [Peer -> [Cid -> T]]
  BY <1>1, <1>2, NestType
<1> QED
  BY <1>3, <1>4, <1>5 DEF AbandonOutgoing, TypeInv, TypeOK, history, T

\* Every message offered is a message of a session.
LEMMA IncomingType == TypeInv => Incoming \subseteq Msg
  BY ConstantsAssumption DEF TypeInv, TypeOK, Incoming, Msg, Session

\* The steps that read the store and carry on, or give up.
LEMMA ReadStepType ==
    ASSUME TypeInv, NEW i \in Instance,
           \/ \E hs \in Handshakes : ProvisionalBegin(i, hs)
           \/ \E h \in Handle, m \in Incoming : ReceiveBegin(i, h, m)
           \/ \E h \in Handle, c \in Cid : SendBegin(i, h, c)
           \/ \E h \in Handle : RemoveBegin(i, h) \/ RecoverBegin(i, h)
           \/ RetireLoad(i) \/ FirstStage(i) \/ ReceiveStage(i)
           \/ SendStage(i) \/ RecoverSeen(i)
    PROVE  TypeInv'
<1> USE DEF OpRecord, OpShape, Step
<1>0. op[i] \in OpRecord /\ OpShape(op[i])
  BY DEF TypeInv, TypeOK
<1>1. ASSUME NEW hs \in Handshakes, ProvisionalBegin(i, hs) PROVE TypeInv'
  <2> DEFINE new == [Idle EXCEPT !.pc = "provisional", !.hs = hs,
                            !.peer = hs.peer, !.h = HandleOf[hs.peer]]
  <2>1. hs.peer \in Peer /\ HandleOf[hs.peer] \in Handle
    BY ConstantsAssumption DEF Sid
  <2>2. new \in OpRecord /\ OpShape(new)
    BY <2>1 DEF Idle
  <2> QED
    BY <1>1, <2>2, GotoType DEF ProvisionalBegin
<1>2. ASSUME NEW h \in Handle, NEW m \in Incoming, ReceiveBegin(i, h, m)
      PROVE  TypeInv'
  <2> DEFINE first == handles[h] = None /\ hsin[h] # None
             new == [Idle EXCEPT !.pc = IF first THEN "first" ELSE "receive",
                            !.h = h, !.msg = m,
                            !.hs = IF first THEN hsin[h] ELSE None]
  <2>1. m \in Msg /\ hsin[h] \in Handshakes \cup {None}
    BY IncomingType DEF TypeInv, TypeOK
  <2>2. new \in OpRecord /\ OpShape(new)
    BY <2>1 DEF Idle
  <2> QED
    BY <1>2, <2>2, GotoType DEF ReceiveBegin
<1>3. ASSUME NEW h \in Handle, NEW c \in Cid, SendBegin(i, h, c)
      PROVE  TypeInv'
  <2> DEFINE new == [Idle EXCEPT !.pc = "send", !.h = h, !.peer = handles[h],
                                 !.cid = c]
  <2>1. handles[h] \in Peer
    BY <1>3 DEF SendBegin, TypeInv, TypeOK
  <2>2. new \in OpRecord /\ OpShape(new)
    BY <2>1 DEF Idle
  <2> QED
    BY <1>3, <2>2, GotoType DEF SendBegin
<1>4. ASSUME NEW h \in Handle, RemoveBegin(i, h) PROVE TypeInv'
  <2> DEFINE new == [Idle EXCEPT !.pc = "remove", !.h = h, !.peer = handles[h],
                                 !.base = Load(h)]
  <2>1. handles[h] \in Peer /\ Load(h) \in Session
    BY <1>4, LoadType DEF RemoveBegin
  <2>2. new \in OpRecord /\ OpShape(new)
    BY <2>1 DEF Idle
  <2> QED
    BY <1>4, <2>2, GotoType DEF RemoveBegin
<1>5. ASSUME NEW h \in Handle, RecoverBegin(i, h) PROVE TypeInv'
  <2> DEFINE u == unresolved[i][h]
             pc == IF u.kind \in {"send", "create"} THEN "recover_load"
                                                    ELSE "recover_seen"
             f == \/ u.kind = "send" /\ sendid[u.peer][u.cid] # None
                  \/ u.kind = "create" /\ handles[h] # None
                  \/ u.kind \in {"receive", "promote"} /\ u.msg \in inbox[u.peer]
             new == [Idle EXCEPT !.pc = pc, !.h = h, !.found = f]
  <2>1. f \in BOOLEAN
    OBVIOUS
  <2>2. pc \in {"recover_load", "recover_seen"}
    OBVIOUS
  <2>3. Goto(i, new) /\ UNCHANGED <<store, unresolved, history>>
    BY <1>5 DEF RecoverBegin
  <2> HIDE DEF f, pc
  <2>4. new \in OpRecord /\ OpShape(new)
    BY <2>1, <2>2 DEF Idle
  <2> QED
    BY <2>3, <2>4, GotoType
<1>6. CASE RetireLoad(i)
  <2> DEFINE h == op[i].h
             new == [op[i] EXCEPT !.pc = "retire_commit", !.base = Load(h),
                                  !.peer = handles[h]]
  <2>1. h \in Handle /\ op[i].hs \in Handshakes
    BY <1>0, <1>6 DEF RetireLoad
  <2>2. ASSUME Load(h) # None PROVE new \in OpRecord /\ OpShape(new)
    <3>1. handles[h] \in Peer /\ Load(h) \in Session
      BY <2>1, <2>2, LoadType
    <3> QED
      BY <1>0, <2>1, <3>1
  <2> QED
    BY <1>6, <2>2, GotoType, ReturnType DEF RetireLoad
<1>7. CASE FirstStage(i)
  <2> DEFINE new1 == [op[i] EXCEPT !.pc = "receive"]
             new2 == [op[i] EXCEPT !.pc = "promote", !.peer = op[i].hs.peer]
  <2>1. op[i].h \in Handle /\ op[i].hs \in Handshakes /\ op[i].msg \in Msg
    BY <1>0, <1>7 DEF FirstStage
  <2>2. op[i].hs.peer \in Peer
    BY <2>1, ConstantsAssumption DEF Sid
  <2>3. new1 \in OpRecord /\ OpShape(new1)
    BY <1>0, <2>1
  <2>4. new2 \in OpRecord /\ OpShape(new2)
    BY <1>0, <2>1, <2>2
  <2> QED
    BY <1>7, <2>3, <2>4, GotoType, ReturnType DEF FirstStage
<1>8. CASE ReceiveStage(i)
  <2> DEFINE h == op[i].h
             new == [op[i] EXCEPT !.pc = "receive_commit", !.base = Load(h),
                                  !.peer = handles[h], !.hs = None]
  <2>1. h \in Handle /\ op[i].msg \in Msg
    BY <1>0, <1>8 DEF ReceiveStage
  <2>2. ASSUME Load(h) # None PROVE new \in OpRecord /\ OpShape(new)
    <3>1. handles[h] \in Peer /\ Load(h) \in Session
      BY <2>1, <2>2, LoadType
    <3> QED
      BY <1>0, <2>1, <3>1
  <2> QED
    BY <1>8, <2>2, GotoType, ReturnType DEF ReceiveStage
<1>9. CASE SendStage(i)
  <2> DEFINE h == op[i].h
             new == [op[i] EXCEPT !.pc = "send_commit", !.base = Load(h)]
  <2>1. h \in Handle /\ op[i].cid \in Cid /\ op[i].peer \in Peer
    BY <1>0, <1>9 DEF SendStage
  <2>2. ASSUME Load(h) # None PROVE new \in OpRecord /\ OpShape(new)
    BY <1>0, <2>1, <2>2, LoadType
  <2> QED
    BY <1>9, <2>2, GotoType, ReturnType DEF SendStage
<1>10. CASE RecoverSeen(i)
  <2> DEFINE u == unresolved[i][op[i].h]
             f == op[i].found \/ u.msg \in seen[u.peer]
             new == [op[i] EXCEPT !.pc = "recover_load", !.found = f]
  <2>1. f \in BOOLEAN
    OBVIOUS
  <2>2. op[i].h \in Handle
    BY <1>0, <1>10 DEF RecoverSeen
  <2>3. Goto(i, new) /\ UNCHANGED <<store, unresolved, history>>
    BY <1>0, <1>10 DEF RecoverSeen
  <2> HIDE DEF f
  <2>4. \A b \in BOOLEAN :
          LET n == [op[i] EXCEPT !.pc = "recover_load", !.found = b]
          IN  n \in OpRecord /\ OpShape(n)
    BY <1>0, <2>2
  <2>5. new \in OpRecord /\ OpShape(new)
    BY <2>1, <2>4 DEF OpShape
  <2> QED
    BY <2>3, <2>5, GotoType
<1> QED
  BY <1>1, <1>2, <1>3, <1>4, <1>5, <1>6, <1>7, <1>8, <1>9, <1>10

\* The transactions that delete or put records without an unresolved mark.
LEMMA WriteStepType ==
    ASSUME TypeInv, NEW i \in Instance,
           \/ ProvisionalRecord(i) \/ RetireCommit(i) \/ RemoveCommit(i)
           \/ EstablishPrekeys(i) \/ Crash(i)
    PROVE  TypeInv'
<1>0. op[i] \in OpRecord /\ OpShape(op[i])
  BY DEF TypeInv, TypeOK
<1>1. CASE ProvisionalRecord(i)
  <2> DEFINE h == op[i].h
             new == [op[i] EXCEPT !.pc = "retire"]
  <2>1. h \in Handle /\ op[i].hs \in Handshakes /\ op[i].peer \in Peer
    BY <1>0, <1>1 DEF ProvisionalRecord, OpShape
  <2>2. new \in OpRecord /\ OpShape(new)
    BY <1>0, <2>1 DEF OpRecord, OpShape, Step
  <2>3. CASE Goto(i, new) /\ UNCHANGED <<store, unresolved, history>>
    BY <2>2, <2>3, GotoType
  <2>4. CASE Return(i)
    BY <2>4, ReturnType
  <2>5. CASE /\ hsin' = [hsin EXCEPT ![h] = op[i].hs]
             /\ Goto(i, Idle)
             /\ UNCHANGED <<session, handles, hsout, outbox, sendid, inbox, seen,
                            prekey, unresolved, history>>
    BY <2>1, <2>5, ReturnOpType DEF TypeInv, TypeOK, history
  <2> QED
    BY <1>1, <2>3, <2>4, <2>5 DEF ProvisionalRecord
<1>2. CASE RetireCommit(i)
  <2>1. op[i].hs \in Handshakes
    BY <1>0, <1>2 DEF RetireCommit, OpShape
  <2>2. CASE Return(i)
    BY <2>2, ReturnType
  <2>3. CASE ~Return(i)
    BY <1>2, <2>1, <2>3, ReturnOpType DEF RetireCommit, TypeInv, TypeOK, history
  <2> QED
    BY <2>2, <2>3
<1>3. CASE RemoveCommit(i)
  <2>1. CASE Return(i)
    BY <2>1, ReturnType
  <2>2. CASE ~Return(i)
    BY <1>3, <2>2, ReturnOpType DEF RemoveCommit, TypeInv, TypeOK, history
  <2> QED
    BY <2>1, <2>2
<1>4. CASE EstablishPrekeys(i)
  BY <1>4 DEF EstablishPrekeys, TypeInv, TypeOK, history
<1>5. CASE Crash(i)
  BY <1>5, ReturnOpType DEF Crash, TypeInv, TypeOK, store, history
<1> QED
  BY <1>1, <1>2, <1>3, <1>4, <1>5

\* The last read of recover keeps the types.
LEMMA RecoverLoadType ==
    ASSUME TypeInv, NEW i \in Instance, RecoverLoad(i)
    PROVE  TypeInv'
<1>1. CASE Return(i)
  BY <1>1, ReturnType
<1>2. ASSUME NEW c \in BOOLEAN, Resolve(i, c) PROVE TypeInv'
  <2> DEFINE h == op[i].h
             new == [Idle EXCEPT !.pc = "recovered", !.h = h, !.found = c,
                                 !.pend = unresolved[i][h]]
  <2>1. h \in Handle
    BY DEF RecoverLoad, TypeInv, TypeOK, OpShape
  <2>2. unresolved[i][h] \in PendingRecord \cup {None}
    BY <2>1 DEF TypeInv, TypeOK
  <2>3. new \in OpRecord /\ OpShape(new)
    BY <2>1, <2>2 DEF Idle, OpRecord, OpShape, Step
  <2>4. op' = [op EXCEPT ![i] = new]
    BY <1>2 DEF Resolve, Goto
  <2> HIDE DEF new, h
  <2>5. op' \in [Instance -> OpRecord] /\ \A j \in Instance : OpShape(op'[j])
    BY <2>3, <2>4 DEF TypeInv, TypeOK
  <2>6. unresolved' \in [Instance -> [Handle -> PendingRecord \cup {None}]]
    BY <1>2 DEF Resolve, TypeInv, TypeOK
  <2> QED
    BY <1>2, <2>5, <2>6 DEF Resolve, TypeInv, TypeOK, store, history
<1>3. op[i].found \in BOOLEAN
  BY DEF TypeInv, TypeOK, OpRecord
<1> QED
  BY <1>1, <1>2, <1>3 DEF RecoverLoad

\* Every step keeps the types.
LEMMA NextType == TypeInv /\ [Next]_vars => TypeInv'
<1> SUFFICES ASSUME TypeInv, [Next]_vars PROVE TypeInv'
  OBVIOUS
<1>1. CASE UNCHANGED vars
  BY <1>1 DEF vars, TypeInv, TypeOK, store, history
<1>2. ASSUME NEW i \in Instance,
             \/ RecoverReturn(i) \/ NotCommitted(i)
      PROVE  TypeInv'
  BY <1>2, ReturnType DEF RecoverReturn, NotCommitted
<1>3. ASSUME NEW i \in Instance, NEW h \in Handle, NEW p \in Peer,
             NEW w \in outbox[p],
             AcknowledgeOutgoing(i, h, w) \/ AbandonOutgoing(i, h, w)
      PROVE  TypeInv'
  <2>1. w \in Wire
    BY DEF TypeInv, TypeOK
  <2> QED
    BY <1>3, <2>1, AcknowledgeOutgoingType, AbandonOutgoingType
<1>4. ASSUME NEW i \in Instance, NEW h \in Handle, NEW p \in Peer,
             NEW m \in inbox[p], AcknowledgeIncoming(i, h, m)
      PROVE  TypeInv'
  <2>1. m \in Msg
    BY DEF TypeInv, TypeOK
  <2> QED
    BY <1>4, <2>1, AcknowledgeIncomingType
<1> QED
  BY <1>1, <1>2, <1>3, <1>4, CreateSessionType, ReadStepType, WriteStepType,
     PromoteType, ReceiveCommitType, SendCommitType, RecoverLoadType
     DEF Next

\* Type correctness: under any interleaving of instances, crashes and unknown
\* outcomes, every namespace of the store holds only well-formed records of
\* its own kind.
THEOREM TypeCorrect == Spec => []TypeOK
<1>1. Init => TypeInv
  BY InitType
<1>2. TypeInv /\ [Next]_vars => TypeInv'
  BY NextType
<1>3. TypeInv => TypeOK
  BY DEF TypeInv
<1> QED
  BY <1>1, <1>2, <1>3, PTL DEF Spec

-----------------------------------------------------------------------------
(* What operations, and records, say of each other.                        *)

\* What the earlier reads of an operation established and no step of another
\* instance can undo, since it is about the values they returned.
OpFacts(o) ==
    /\ o.pc \in {"provisional", "retire", "promote"} => o.peer = o.hs.peer
    /\ o.pc \in {"provisional", "retire", "retire_commit", "first", "promote"} =>
          o.h = HandleOf[o.hs.peer]
    /\ o.pc \in {"retire_commit", "receive_commit", "send", "send_commit",
                 "remove"} => o.h = HandleOf[o.peer]
    /\ o.pc = "promote" => o.msg.sid = o.hs
    /\ o.pc = "receive_commit" => Authenticates(o.msg, o.base)
    /\ o.pc = "send_commit" =>
          CanEncrypt(o.base) /\ HandleOf[o.base.sid.peer] = o.h
    /\ o.pc \in {"remove", "retire_commit"} => ~HasReceived(o.base)

\* A provisional handshake lies under the handle of its peer.
HsinInv == \A h \in Handle : hsin[h] # None => HandleOf[hsin[h].peer] = h

OpInv == HsinInv /\ \A i \in Instance : OpFacts(op[i])

\* A session is stored under its own peer, and its ephemeral key was drawn.
SessionInv ==
    \A p \in Peer : session[p] # None =>
        /\ session[p].sid.peer = p
        /\ session[p].sid.role = "initiator" => session[p].sid.n < nextOut

\* The session a removal was decided on is still the one held only if nothing
\* was sent on it since, so its peer still has no pending message: sending
\* advances the session, and a session that comes later is another one.
Removing(o) ==
    LET s == session[o.peer] IN
    /\ o.base.sid.role = "initiator" => o.base.sid.n < nextOut
    /\ s # None /\ s.sid = o.base.sid /\ ~HasReceived(s) => o.base.sent <= s.sent
    /\ s = o.base => outbox[o.peer] = {}

RemovalInv ==
    \A i \in Instance : op[i].pc \in {"remove", "retire_commit"} => Removing(op[i])

\* A wire was encrypted at an earlier position of its session.  A responder
\* session that encrypted had received, so it is still there; an initiator
\* session may be gone, but its ephemeral key is not drawn again.
WireInv ==
    \A w \in sentLog :
        /\ \A p \in Peer : session[p] # None /\ session[p].sid = w.sid =>
              w.pos < session[p].sent
        /\ w.sid.role = "initiator" => w.sid.n < nextOut
        /\ w.sid.role = "responder" =>
              /\ session[w.sid.peer] # None
              /\ session[w.sid.peer].sid = w.sid
              /\ HasReceived(session[w.sid.peer])

\* The send-id record of a logical message keeps its wire for good, and the
\* wire is pending, acknowledged or abandoned, exactly one of them.
SendIdInv ==
    /\ \A w \in sentLog :
          sendid[w.peer][w.cid] # None /\ sendid[w.peer][w.cid].wire = w
    /\ \A p \in Peer : \A w \in outbox[p] :
          w \in sentLog /\ w.peer = p /\ w \notin acked
    /\ acked \subseteq sentLog
    /\ \A p \in Peer, c \in Cid : sendid[p][c] # None =>
          LET w == sendid[p][c].wire IN
          /\ w.peer = p /\ w.cid = c /\ w \in sentLog
          /\ sendid[p][c].abandoned => w \notin acked \cup outbox[p]
          /\ ~sendid[p][c].abandoned => w \in acked \cup outbox[p]

\* A recorded message was decrypted by the session held, and nothing else was.
InboxInv ==
    \A p \in Peer :
        /\ inbox[p] \cap seen[p] = {}
        /\ \A m \in inbox[p] \cup seen[p] :
              session[p] # None /\ m.sid = session[p].sid /\ m.k \in session[p].rcvd
        /\ session[p] # None => \A k \in session[p].rcvd :
              [sid |-> session[p].sid, k |-> k] \in inbox[p] \cup seen[p]

\* A prekey version that made a session is below the current one.
PrekeyInv == prekey > 0 /\ \A s \in promoted : s.prekey < prekey

-----------------------------------------------------------------------------
(* The effects of a step.                                                  *)

Nothing ==
    UNCHANGED <<session, handles, hsout, outbox, sendid, inbox, seen, prekey,
                history>>

KeyDrawn ==
    /\ nextOut' = nextOut + 1
    /\ UNCHANGED <<session, handles, hsout, outbox, sendid, inbox, seen, prekey,
                   sentLog, acked, promoted>>

Created(p) ==
    LET sid == [role |-> "initiator", peer |-> p, n |-> nextOut, prekey |-> 0]
    IN  /\ session[p] = None /\ handles[HandleOf[p]] = None /\ hsout[p] = None
        /\ session' = [session EXCEPT ![p] =
                         [sid |-> sid, sent |-> 0, rcvd |-> {}]]
        /\ handles' = [handles EXCEPT ![HandleOf[p]] = p]
        /\ hsout' = [hsout EXCEPT ![p] = sid]
        /\ nextOut' = nextOut + 1
        /\ UNCHANGED <<outbox, sendid, inbox, seen, prekey, sentLog, acked,
                       promoted>>

Gone(p) ==
    /\ session[p] # None /\ ~HasReceived(session[p]) /\ outbox[p] = {}
    /\ session' = [session EXCEPT ![p] = None]
    /\ handles' = [handles EXCEPT ![HandleOf[p]] = None]
    /\ hsout' = [hsout EXCEPT ![p] = None]
    /\ UNCHANGED <<outbox, sendid, inbox, seen, prekey, history>>

Promoted(p, hs, m) ==
    /\ hs.peer = p /\ m.sid = hs /\ Answerable(hs)
    /\ session[p] = None /\ handles[HandleOf[p]] = None
    /\ m \notin inbox[p] \cup seen[p]
    /\ session' = [session EXCEPT ![p] =
                     [sid |-> hs, sent |-> 0, rcvd |-> {m.k}]]
    /\ handles' = [handles EXCEPT ![HandleOf[p]] = p]
    /\ inbox' = [inbox EXCEPT ![p] = @ \cup {m}]
    /\ prekey' = prekey + 1
    /\ promoted' = promoted \cup {hs}
    /\ UNCHANGED <<hsout, outbox, sendid, seen, nextOut, sentLog, acked>>

Received(p, s, m) ==
    /\ session[p] = s /\ Authenticates(m, s) /\ m \notin inbox[p] \cup seen[p]
    /\ session' = [session EXCEPT ![p] = [s EXCEPT !.rcvd = @ \cup {m.k}]]
    /\ inbox' = [inbox EXCEPT ![p] = @ \cup {m}]
    /\ UNCHANGED <<handles, hsout, outbox, sendid, seen, prekey, history>>

Sent(p, s, w) ==
    /\ session[s.sid.peer] = s /\ CanEncrypt(s)
    /\ HandleOf[s.sid.peer] = HandleOf[p]
    /\ w.sid = s.sid /\ w.pos = s.sent /\ w.peer = p
    /\ sendid[p][w.cid] = None
    /\ session' = [session EXCEPT ![s.sid.peer] = [s EXCEPT !.sent = @ + 1]]
    /\ outbox' = [outbox EXCEPT ![p] = @ \cup {w}]
    /\ sendid' = [sendid EXCEPT ![p][w.cid] = [wire |-> w, abandoned |-> FALSE]]
    /\ sentLog' = sentLog \cup {w}
    /\ UNCHANGED <<handles, hsout, inbox, seen, prekey, nextOut, acked, promoted>>

Acknowledged(p, w) ==
    /\ w \in outbox[p]
    /\ outbox' = [outbox EXCEPT ![p] = @ \ {w}]
    /\ acked' = acked \cup {w}
    /\ UNCHANGED <<session, handles, hsout, sendid, inbox, seen, prekey,
                   nextOut, sentLog, promoted>>

Abandoned(p, w) ==
    /\ w \in outbox[p]
    /\ outbox' = [outbox EXCEPT ![p] = @ \ {w}]
    /\ sendid' = [sendid EXCEPT ![p][w.cid] = [wire |-> w, abandoned |-> TRUE]]
    /\ UNCHANGED <<session, handles, hsout, inbox, seen, prekey, history>>

Delivered(p, m) ==
    /\ m \in inbox[p]
    /\ inbox' = [inbox EXCEPT ![p] = @ \ {m}]
    /\ seen' = [seen EXCEPT ![p] = @ \cup {m}]
    /\ UNCHANGED <<session, handles, hsout, outbox, sendid, prekey, history>>

PrekeysReplaced ==
    /\ prekey' = prekey + 1
    /\ UNCHANGED <<session, handles, hsout, outbox, sendid, inbox, seen, history>>

Effect ==
    \/ Nothing \/ KeyDrawn \/ PrekeysReplaced
    \/ \E p \in Peer :
          \/ Created(p) \/ Gone(p)
          \/ \E hs \in Handshakes, m \in Msg : Promoted(p, hs, m)
          \/ \E s \in Session, m \in Msg : Received(p, s, m)
          \/ \E s \in Session, w \in Wire : Sent(p, s, w)
          \/ \E w \in Wire : Acknowledged(p, w) \/ Abandoned(p, w)
          \/ \E m \in Msg : Delivered(p, m)

-----------------------------------------------------------------------------
(* Every step has one of the effects.                                      *)

\* The steps that write no record the properties are about.
LEMMA QuietEffect ==
    ASSUME NEW i \in Instance,
           \/ \E hs \in Handshakes : ProvisionalBegin(i, hs)
           \/ \E h \in Handle, m \in Incoming : ReceiveBegin(i, h, m)
           \/ \E h \in Handle, c \in Cid : SendBegin(i, h, c)
           \/ \E h \in Handle : RemoveBegin(i, h) \/ RecoverBegin(i, h)
           \/ RetireLoad(i) \/ FirstStage(i) \/ ReceiveStage(i)
           \/ SendStage(i) \/ RecoverSeen(i) \/ ProvisionalRecord(i)
           \/ RecoverLoad(i) \/ RecoverReturn(i) \/ NotCommitted(i) \/ Crash(i)
    PROVE  Nothing
<1> USE DEF Nothing, Return, store, history
<1>1. ASSUME NEW hs \in Handshakes, ProvisionalBegin(i, hs) PROVE Nothing
  BY <1>1 DEF ProvisionalBegin
<1>2. ASSUME NEW h \in Handle, NEW m \in Incoming, ReceiveBegin(i, h, m)
      PROVE  Nothing
  BY <1>2 DEF ReceiveBegin
<1>3. ASSUME NEW h \in Handle, NEW c \in Cid, SendBegin(i, h, c) PROVE Nothing
  BY <1>3 DEF SendBegin
<1>4. ASSUME NEW h \in Handle, RemoveBegin(i, h) \/ RecoverBegin(i, h)
      PROVE  Nothing
  BY <1>4 DEF RemoveBegin, RecoverBegin
<1>5. CASE RetireLoad(i) \/ FirstStage(i) \/ ReceiveStage(i)
  BY <1>5 DEF RetireLoad, FirstStage, ReceiveStage
<1>6. CASE SendStage(i) \/ RecoverSeen(i) \/ ProvisionalRecord(i)
  BY <1>6 DEF SendStage, RecoverSeen, ProvisionalRecord
<1>7. CASE RecoverLoad(i) \/ RecoverReturn(i) \/ NotCommitted(i) \/ Crash(i)
  BY <1>7 DEF RecoverLoad, Resolve, RecoverReturn, NotCommitted, Crash
<1> QED
  BY <1>1, <1>2, <1>3, <1>4, <1>5, <1>6, <1>7

\* create_session as an effect: a session that was absent appears.
LEMMA CreateEffect ==
    ASSUME NEW i \in Instance, NEW p \in Peer, CreateSession(i, p)
    PROVE  KeyDrawn \/ Created(p)
  BY DEF CreateSession, KeyDrawn, Created

\* retire_legacy as an effect: a session with nothing received or sent goes.
LEMMA RetireEffect ==
    ASSUME TypeInv, OpInv, RemovalInv, NEW i \in Instance, RetireCommit(i)
    PROVE  Nothing \/ Gone(op[i].peer)
<1>1. /\ op[i].peer \in Peer /\ op[i].base \in Session
      /\ op[i].h = HandleOf[op[i].peer] /\ ~HasReceived(op[i].base)
  BY DEF RetireCommit, TypeInv, OpShape, OpInv, OpFacts
<1>2. /\ op[i].base # None
      /\ session[op[i].peer] = op[i].base => outbox[op[i].peer] = {}
  BY <1>1, ConstantsAssumption DEF RemovalInv, Removing, RetireCommit, RemoveCommit
<1>3. CASE Return(i)
  BY <1>3 DEF Return, Nothing, store, history
<1>4. CASE ~Return(i)
  <2>1. hsout[op[i].peer] = None /\ UNCHANGED hsout
    BY <1>4 DEF RetireCommit
  <2>2. hsout' = [hsout EXCEPT ![op[i].peer] = None]
    BY <1>1, <2>1 DEF TypeInv, TypeOK
  <2> QED
    BY <1>1, <1>2, <1>4, <2>2 DEF RetireCommit, HoldsRecord, Gone
<1> QED
  BY <1>3, <1>4

\* remove_session as an effect: a session that received nothing goes.
LEMMA RemoveEffect ==
    ASSUME TypeInv, OpInv, RemovalInv, NEW i \in Instance, RemoveCommit(i)
    PROVE  Nothing \/ Gone(op[i].peer)
<1>1. /\ op[i].peer \in Peer /\ op[i].base \in Session
      /\ op[i].h = HandleOf[op[i].peer] /\ ~HasReceived(op[i].base)
  BY DEF RemoveCommit, TypeInv, OpShape, OpInv, OpFacts
<1>2. /\ op[i].base # None
      /\ session[op[i].peer] = op[i].base => outbox[op[i].peer] = {}
  BY <1>1, ConstantsAssumption DEF RemovalInv, Removing, RetireCommit, RemoveCommit
<1>3. CASE Return(i)
  BY <1>3 DEF Return, Nothing, store, history
<1>4. CASE ~Return(i)
  BY <1>1, <1>2, <1>4 DEF RemoveCommit, HoldsRecord, Gone
<1> QED
  BY <1>3, <1>4

\* A promotion as an effect: a session appears with one message recorded.
LEMMA PromoteEffect ==
    ASSUME TypeInv, OpInv, NEW i \in Instance, Promote(i)
    PROVE  Nothing \/ Promoted(op[i].peer, op[i].hs, op[i].msg)
<1>1. /\ op[i].peer = op[i].hs.peer /\ op[i].msg.sid = op[i].hs
      /\ op[i].h = HandleOf[op[i].peer]
  BY DEF Promote, OpInv, OpFacts
<1> QED
  BY <1>1 DEF Promote, PromotionHolds, Promoted, Nothing, Return, store, history

\* receive as an effect: one decryption and its inbox record, together.
LEMMA ReceiveEffect ==
    ASSUME TypeInv, OpInv, NEW i \in Instance, ReceiveCommit(i)
    PROVE  Nothing \/ Received(op[i].peer, op[i].base, op[i].msg)
<1>1. Authenticates(op[i].msg, op[i].base)
  BY DEF ReceiveCommit, OpInv, OpFacts
<1> QED
  BY <1>1 DEF ReceiveCommit, HoldsRecord, Decrypted, Received, Nothing, Return,
              store, history

\* send as an effect: one encryption, its outbox and its send-id record.
LEMMA SendEffect ==
    ASSUME TypeInv, OpInv, NEW i \in Instance, SendCommit(i)
    PROVE  Nothing \/ Sent(op[i].peer, op[i].base, StagedWire(i))
<1> DEFINE w == StagedWire(i)
<1>1. /\ CanEncrypt(op[i].base)
      /\ HandleOf[op[i].base.sid.peer] = HandleOf[op[i].peer]
  BY DEF SendCommit, OpInv, OpFacts
<1>2. /\ w.sid = op[i].base.sid /\ w.pos = op[i].base.sent
      /\ w.peer = op[i].peer /\ w.cid = op[i].cid
  BY DEF StagedWire
<1> HIDE DEF w
<1>3. CASE Return(i)
  BY <1>3 DEF Return, Nothing, store, history
<1>4. CASE ~Return(i)
  BY <1>1, <1>2, <1>4 DEF SendCommit, SendHolds, HoldsRecord, Sent, Nothing,
                          history, w
<1> QED
  BY <1>3, <1>4

\* Every step of every instance is one of the effects.
LEMMA StepEffect ==
    ASSUME TypeInv, OpInv, RemovalInv, Next
    PROVE  Effect
<1>1. PICK i \in Instance :
        \/ \E p \in Peer : CreateSession(i, p)
        \/ \E hs \in Handshakes : ProvisionalBegin(i, hs)
        \/ ProvisionalRecord(i) \/ RetireLoad(i) \/ RetireCommit(i)
        \/ \E h \in Handle, m \in Incoming : ReceiveBegin(i, h, m)
        \/ FirstStage(i) \/ Promote(i) \/ ReceiveStage(i) \/ ReceiveCommit(i)
        \/ \E h \in Handle, p \in Peer : \E m \in inbox[p] :
              AcknowledgeIncoming(i, h, m)
        \/ \E h \in Handle, c \in Cid : SendBegin(i, h, c)
        \/ SendStage(i) \/ SendCommit(i)
        \/ \E h \in Handle, p \in Peer : \E w \in outbox[p] :
              AcknowledgeOutgoing(i, h, w) \/ AbandonOutgoing(i, h, w)
        \/ \E h \in Handle : RemoveBegin(i, h) \/ RecoverBegin(i, h)
        \/ RemoveCommit(i) \/ RecoverSeen(i) \/ RecoverLoad(i)
        \/ RecoverReturn(i) \/ EstablishPrekeys(i) \/ NotCommitted(i)
        \/ Crash(i)
  BY DEF Next
<1>2. ASSUME NEW p \in Peer, CreateSession(i, p) PROVE Effect
  BY <1>2, CreateEffect DEF Effect
<1>3. CASE RetireCommit(i) \/ RemoveCommit(i)
  <2>1. op[i].peer \in Peer
    BY <1>3 DEF RetireCommit, RemoveCommit, TypeInv, OpShape
  <2> QED
    BY <1>3, <2>1, RetireEffect, RemoveEffect DEF Effect
<1>4. CASE Promote(i)
  <2>1. op[i].peer \in Peer /\ op[i].hs \in Handshakes /\ op[i].msg \in Msg
    BY <1>4 DEF Promote, TypeInv, OpShape
  <2> QED
    BY <1>4, <2>1, PromoteEffect DEF Effect
<1>5. CASE ReceiveCommit(i)
  <2>1. op[i].peer \in Peer /\ op[i].base \in Session /\ op[i].msg \in Msg
    BY <1>5 DEF ReceiveCommit, TypeInv, OpShape
  <2> QED
    BY <1>5, <2>1, ReceiveEffect DEF Effect
<1>6. CASE SendCommit(i)
  <2>1. op[i].peer \in Peer /\ op[i].base \in Session /\ op[i].cid \in Cid
    BY <1>6 DEF SendCommit, TypeInv, OpShape
  <2>2. StagedWire(i) \in Wire
    BY <2>1 DEF StagedWire, Wire, Session
  <2> QED
    BY <1>6, <2>1, <2>2, SendEffect DEF Effect
<1>7. ASSUME NEW h \in Handle, NEW p \in Peer, NEW m \in inbox[p],
             AcknowledgeIncoming(i, h, m)
      PROVE  Effect
  <2>1. m \in Msg /\ handles[h] \in Peer
    BY <1>7 DEF AcknowledgeIncoming, TypeInv, TypeOK
  <2>2. Delivered(handles[h], m)
    BY <1>7 DEF AcknowledgeIncoming, Delivered
  <2> QED
    BY <2>1, <2>2 DEF Effect
<1>8. ASSUME NEW h \in Handle, NEW p \in Peer, NEW w \in outbox[p],
             AcknowledgeOutgoing(i, h, w) \/ AbandonOutgoing(i, h, w)
      PROVE  Effect
  <2>1. w \in Wire /\ handles[h] \in Peer
    BY <1>8 DEF AcknowledgeOutgoing, AbandonOutgoing, TypeInv, TypeOK
  <2>2. Acknowledged(handles[h], w) \/ Abandoned(handles[h], w)
    BY <1>8 DEF AcknowledgeOutgoing, AbandonOutgoing, Acknowledged, Abandoned
  <2> QED
    BY <2>1, <2>2 DEF Effect
<1>9. CASE EstablishPrekeys(i)
  BY <1>9 DEF EstablishPrekeys, PrekeysReplaced, Effect
<1>10. CASE ~(\/ \E p \in Peer : CreateSession(i, p)
              \/ RetireCommit(i) \/ RemoveCommit(i) \/ Promote(i)
              \/ ReceiveCommit(i) \/ SendCommit(i) \/ EstablishPrekeys(i)
              \/ \E h \in Handle, p \in Peer : \E m \in inbox[p] :
                    AcknowledgeIncoming(i, h, m)
              \/ \E h \in Handle, p \in Peer : \E w \in outbox[p] :
                    AcknowledgeOutgoing(i, h, w) \/ AbandonOutgoing(i, h, w))
  <2>1. Nothing
    BY <1>1, <1>10, QuietEffect
  <2> QED
    BY <2>1 DEF Effect
<1> QED
  BY <1>2, <1>3, <1>4, <1>5, <1>6, <1>7, <1>8, <1>9, <1>10

-----------------------------------------------------------------------------
(* The state invariants, effect by effect.                                 *)

\* Every effect keeps SessionInv.
LEMMA SessionStep ==
    ASSUME TypeInv, SessionInv, Effect
    PROVE  SessionInv'
<1> USE DEF SessionInv, history
<1>1. nextOut \in Nat /\ session \in [Peer -> Session \cup {None}]
  BY DEF TypeInv, TypeOK
<1>2. CASE Nothing \/ KeyDrawn \/ PrekeysReplaced
  BY <1>1, <1>2 DEF Nothing, KeyDrawn, PrekeysReplaced, Session, Sid
<1>3. ASSUME NEW p \in Peer, Created(p) \/ Gone(p) PROVE SessionInv'
  BY <1>1, <1>3 DEF Created, Gone, Session, Sid
<1>4. ASSUME NEW p \in Peer, NEW hs \in Handshakes, NEW m \in Msg,
             Promoted(p, hs, m)
      PROVE  SessionInv'
  <2>1. hs.role = "responder"
    BY ConstantsAssumption
  <2> QED
    BY <1>1, <1>4, <2>1 DEF Promoted
<1>5. ASSUME NEW p \in Peer, NEW s \in Session, NEW m \in Msg, Received(p, s, m)
      PROVE  SessionInv'
  <2>1. [s EXCEPT !.rcvd = @ \cup {m.k}].sid = s.sid
    BY DEF Session
  <2>2. s # None
    BY ConstantsAssumption
  <2> QED
    BY <1>1, <1>5, <2>1, <2>2 DEF Received
<1>6. ASSUME NEW p \in Peer, NEW s \in Session, NEW w \in Wire, Sent(p, s, w)
      PROVE  SessionInv'
  <2>1. [s EXCEPT !.sent = @ + 1].sid = s.sid /\ s.sid.peer \in Peer
    BY DEF Session, Sid
  <2>2. s # None
    BY ConstantsAssumption
  <2> QED
    BY <1>1, <1>6, <2>1, <2>2 DEF Sent
<1>7. ASSUME NEW p \in Peer,
             \/ \E w \in Wire : Acknowledged(p, w) \/ Abandoned(p, w)
             \/ \E m \in Msg : Delivered(p, m)
      PROVE  SessionInv'
  BY <1>7 DEF Acknowledged, Abandoned, Delivered
<1> QED
  BY <1>2, <1>3, <1>4, <1>5, <1>6, <1>7 DEF Effect

\* A new session has an identity no wire has: its ephemeral key is fresh, or
\* it answers a handshake whose peer has no session.  An existing session
\* gives a position away only by moving past it.
LEMMA WireStep ==
    ASSUME TypeInv, SessionInv, WireInv, NoFork, Effect
    PROVE  WireInv' /\ NoFork'
<1> USE DEF WireInv, history
<1>1. /\ nextOut \in Nat /\ session \in [Peer -> Session \cup {None}]
      /\ sentLog \subseteq Wire
  BY DEF TypeInv, TypeOK
<1>2. \A w \in sentLog : w.sid \in Sid /\ w.pos \in Nat /\ w.sid.peer \in Peer
                         /\ w.sid.n \in Nat /\ w.sid.role \in Role
  BY <1>1 DEF Wire, Sid
<1>3. CASE \/ Nothing \/ PrekeysReplaced
           \/ \E p \in Peer : \/ \E w \in Wire : Acknowledged(p, w) \/ Abandoned(p, w)
                              \/ \E m \in Msg : Delivered(p, m)
  BY <1>3 DEF Nothing, PrekeysReplaced, Acknowledged, Abandoned, Delivered, NoFork
<1>4. CASE KeyDrawn
  BY <1>1, <1>2, <1>4 DEF KeyDrawn, NoFork
<1>5. ASSUME NEW p \in Peer, Created(p) PROVE WireInv' /\ NoFork'
  <2> DEFINE sid == [role |-> "initiator", peer |-> p, n |-> nextOut, prekey |-> 0]
             s0 == [sid |-> sid, sent |-> 0, rcvd |-> {}]
  <2>1. /\ session[p] = None /\ session' = [session EXCEPT ![p] = s0]
        /\ nextOut' = nextOut + 1 /\ sentLog' = sentLog
    BY <1>5 DEF Created
  <2>2. s0.sid = sid /\ sid.role = "initiator" /\ sid.n = nextOut
    OBVIOUS
  <2> HIDE DEF s0, sid
  <2>3. ASSUME NEW w \in sentLog PROVE w.sid # sid
    BY <1>1, <1>2, <2>2
  <2> QED
    BY <1>1, <1>2, <2>1, <2>2, <2>3 DEF NoFork, Role
<1>6. ASSUME NEW p \in Peer, Gone(p) PROVE WireInv' /\ NoFork'
  <2>1. ASSUME NEW w \in sentLog, w.sid.role = "responder" PROVE w.sid.peer # p
    BY <1>6, <2>1 DEF Gone
  <2> QED
    BY <1>1, <1>2, <1>6, <2>1 DEF Gone, NoFork
<1>7. ASSUME NEW p \in Peer, NEW hs \in Handshakes, NEW m \in Msg,
             Promoted(p, hs, m)
      PROVE  WireInv' /\ NoFork'
  <2> DEFINE s0 == [sid |-> hs, sent |-> 0, rcvd |-> {m.k}]
  <2>1. /\ session[p] = None /\ session' = [session EXCEPT ![p] = s0]
        /\ nextOut' = nextOut /\ sentLog' = sentLog /\ hs.peer = p
        /\ hs.role = "responder"
    BY <1>7, ConstantsAssumption DEF Promoted
  <2>2. s0.sid = hs
    OBVIOUS
  <2> HIDE DEF s0
  <2>3. ASSUME NEW w \in sentLog PROVE w.sid # hs
    BY <2>1
  <2> QED
    BY <1>1, <1>2, <2>1, <2>2, <2>3 DEF NoFork
<1>8. ASSUME NEW p \in Peer, NEW s \in Session, NEW m \in Msg, Received(p, s, m)
      PROVE  WireInv' /\ NoFork'
  <2> DEFINE s1 == [s EXCEPT !.rcvd = @ \cup {m.k}]
  <2>1. /\ session[p] = s /\ session' = [session EXCEPT ![p] = s1]
        /\ nextOut' = nextOut /\ sentLog' = sentLog /\ s # None
    BY <1>8, ConstantsAssumption DEF Received
  <2>2. s1.sid = s.sid /\ s1.sent = s.sent /\ HasReceived(s1) /\ s1 \in Session
    BY DEF Session, HasReceived, Msg
  <2>3. s1 # None
    BY <2>2, ConstantsAssumption
  <2> HIDE DEF s1
  <2> QED
    BY <1>1, <1>2, <2>1, <2>2, <2>3 DEF NoFork
<1>9. ASSUME NEW p \in Peer, NEW s \in Session, NEW w \in Wire, Sent(p, s, w)
      PROVE  WireInv' /\ NoFork'
  <2> DEFINE q == s.sid.peer
             s1 == [s EXCEPT !.sent = @ + 1]
  <2>1. /\ session[q] = s /\ session' = [session EXCEPT ![q] = s1]
        /\ nextOut' = nextOut /\ sentLog' = sentLog \cup {w} /\ s # None
        /\ w.sid = s.sid /\ w.pos = s.sent /\ CanEncrypt(s)
    BY <1>9, ConstantsAssumption DEF Sent
  <2>2. /\ s1.sid = s.sid /\ s1.sent = s.sent + 1 /\ s1.rcvd = s.rcvd
        /\ s1 \in Session /\ q \in Peer /\ s.sent \in Nat /\ s.sid.role \in Role
    BY DEF Session, Sid
  <2>3. s1 # None
    BY <2>2, ConstantsAssumption
  <2>4. s.sid.role = "initiator" => s.sid.n < nextOut
    BY <2>1, <2>2 DEF SessionInv
  <2>5. s.sid.role = "responder" => HasReceived(s1)
    BY <2>1, <2>2 DEF CanEncrypt, HasReceived
  <2>6. \A r \in Peer : session[r] # None => session[r].sid.peer = r
    BY DEF SessionInv
  <2> HIDE DEF s1
  <2>7. ASSUME NEW v \in sentLog PROVE v.sid = w.sid => v.pos < w.pos
    BY <2>1, <2>2, <2>7
  <2>8. NoFork'
    BY <1>2, <2>1, <2>2, <2>7 DEF NoFork
  <2>9. ASSUME NEW v \in sentLog', NEW r \in Peer, session'[r] # None,
               session'[r].sid = v.sid
        PROVE  v.pos < session'[r].sent
    <3>1. CASE r = q
      <4>1. session'[r] = s1 /\ v.sid = w.sid
        BY <1>1, <2>1, <2>2, <2>9, <3>1
      <4>2. v.pos < s.sent + 1
        BY <1>2, <2>1, <2>2, <2>7, <4>1
      <4> QED
        BY <2>2, <4>1, <4>2
    <3>2. CASE r # q
      <4>1. session'[r] = session[r]
        BY <1>1, <2>1, <3>2
      <4>2. v # w
        BY <2>1, <2>6, <2>9, <3>2, <4>1
      <4> QED
        BY <2>1, <2>9, <4>1, <4>2
    <3> QED
      BY <3>1, <3>2
  <2>10. ASSUME NEW v \in sentLog'
         PROVE  /\ v.sid.role = "initiator" => v.sid.n < nextOut'
                /\ v.sid.role = "responder" =>
                      /\ session'[v.sid.peer] # None
                      /\ session'[v.sid.peer].sid = v.sid
                      /\ HasReceived(session'[v.sid.peer])
    <3>1. CASE v = w
      BY <1>1, <2>1, <2>2, <2>3, <2>4, <2>5, <3>1
    <3>2. CASE v \in sentLog
      <4>1. CASE v.sid.peer = q
        BY <1>1, <1>2, <2>1, <2>2, <2>3, <3>2, <4>1 DEF HasReceived
      <4>2. CASE v.sid.peer # q
        BY <1>1, <1>2, <2>1, <3>2, <4>2
      <4> QED
        BY <4>1, <4>2
    <3> QED
      BY <2>1, <3>1, <3>2
  <2> QED
    BY <2>8, <2>9, <2>10
<1> QED
  BY <1>3, <1>4, <1>5, <1>6, <1>7, <1>8, <1>9 DEF Effect

\* The send-id record is what makes a logical message be encrypted once: it is
\* written with the wire, only ever marked afterwards, and never deleted.
LEMMA SendIdStep ==
    ASSUME TypeInv, SendIdInv, Effect
    PROVE  SendIdInv'
<1> USE DEF SendIdInv, history
<1>1. /\ outbox \in [Peer -> SUBSET Wire]
      /\ sendid \in [Peer -> [Cid -> SendRecord \cup {None}]]
      /\ sentLog \subseteq Wire
      /\ \A w \in Wire : w.peer \in Peer /\ w.cid \in Cid
  BY DEF TypeInv, TypeOK, Wire
<1>2. CASE \/ Nothing \/ KeyDrawn \/ PrekeysReplaced
           \/ \E p \in Peer : \/ Created(p) \/ Gone(p)
                              \/ \E hs \in Handshakes, m \in Msg : Promoted(p, hs, m)
                              \/ \E s \in Session, m \in Msg : Received(p, s, m)
                              \/ \E m \in Msg : Delivered(p, m)
  BY <1>2 DEF Nothing, KeyDrawn, PrekeysReplaced, Created, Gone, Promoted,
              Received, Delivered
<1>3. ASSUME NEW p \in Peer, NEW s \in Session, NEW w \in Wire, Sent(p, s, w)
      PROVE  SendIdInv'
  <2> DEFINE c == w.cid
             r == [wire |-> w, abandoned |-> FALSE]
  <2>1. /\ w.peer = p /\ sendid[p][c] = None /\ c \in Cid
        /\ outbox' = [outbox EXCEPT ![p] = @ \cup {w}]
        /\ sendid' = [sendid EXCEPT ![p][c] = r]
        /\ sentLog' = sentLog \cup {w} /\ acked' = acked
    BY <1>3 DEF Sent, Wire
  <2>2. r \in SendRecord /\ r.wire = w /\ r.abandoned = FALSE
    BY <1>3 DEF SendRecord
  <2> HIDE DEF r, c
  <2>3. r # None
    BY <2>2, ConstantsAssumption
  <2>4. /\ sendid'[p][c] = r
        /\ \A q \in Peer, d \in Cid : q # p \/ d # c => sendid'[q][d] = sendid[q][d]
        /\ outbox'[p] = outbox[p] \cup {w}
        /\ \A q \in Peer : q # p => outbox'[q] = outbox[q]
    BY <1>1, <2>1
  <2>5. \A v \in sentLog : v.peer # p \/ v.cid # c
    BY <2>1 DEF c
  <2>6. \A v \in sentLog' :
          sendid'[v.peer][v.cid] # None /\ sendid'[v.peer][v.cid].wire = v
    BY <1>1, <2>1, <2>2, <2>3, <2>4, <2>5 DEF c
  <2>7. \A q \in Peer : \A v \in outbox'[q] :
          v \in sentLog' /\ v.peer = q /\ v \notin acked'
    BY <2>1, <2>4, <2>5 DEF c
  <2>8. ASSUME NEW q \in Peer, NEW d \in Cid, sendid'[q][d] # None
        PROVE  LET v == sendid'[q][d].wire IN
               /\ v.peer = q /\ v.cid = d /\ v \in sentLog'
               /\ sendid'[q][d].abandoned => v \notin acked' \cup outbox'[q]
               /\ ~sendid'[q][d].abandoned => v \in acked' \cup outbox'[q]
    <3>1. CASE q = p /\ d = c
      BY <2>1, <2>2, <2>4, <3>1 DEF c
    <3>2. CASE q # p \/ d # c
      BY <2>1, <2>4, <2>8, <3>2 DEF c
    <3> QED
      BY <3>1, <3>2
  <2> QED
    BY <2>1, <2>6, <2>7, <2>8
<1>4. ASSUME NEW p \in Peer, NEW w \in Wire, Acknowledged(p, w)
      PROVE  SendIdInv'
  <2>1. /\ w \in outbox[p] /\ outbox' = [outbox EXCEPT ![p] = @ \ {w}]
        /\ acked' = acked \cup {w} /\ UNCHANGED <<sendid, sentLog>>
    BY <1>4 DEF Acknowledged
  <2>2. /\ outbox'[p] = outbox[p] \ {w}
        /\ \A q \in Peer : q # p => outbox'[q] = outbox[q]
    BY <1>1, <2>1
  <2>3. ASSUME NEW q \in Peer, NEW d \in Cid, sendid[q][d] # None
        PROVE  LET v == sendid[q][d].wire IN
               /\ sendid[q][d].abandoned => v \notin acked' \cup outbox'[q]
               /\ ~sendid[q][d].abandoned => v \in acked' \cup outbox'[q]
    <3>1. CASE sendid[q][d].wire = w
      <4>1. q = p
        BY <2>1, <2>3, <3>1
      <4> QED
        BY <2>1, <2>2, <2>3, <3>1, <4>1
    <3>2. CASE sendid[q][d].wire # w
      BY <2>1, <2>2, <2>3, <3>2
    <3> QED
      BY <3>1, <3>2
  <2> QED
    BY <2>1, <2>2, <2>3
<1>5. ASSUME NEW p \in Peer, NEW w \in Wire, Abandoned(p, w)
      PROVE  SendIdInv'
  <2> DEFINE c == w.cid
             r == [wire |-> w, abandoned |-> TRUE]
  <2>1. /\ w \in outbox[p] /\ outbox' = [outbox EXCEPT ![p] = @ \ {w}]
        /\ sendid' = [sendid EXCEPT ![p][c] = r]
        /\ UNCHANGED <<sentLog, acked>> /\ c \in Cid
    BY <1>5 DEF Abandoned, Wire
  <2>2. r \in SendRecord /\ r.wire = w /\ r.abandoned = TRUE
    BY <1>5 DEF SendRecord
  <2> HIDE DEF r
  <2>3. r # None
    BY <2>2, ConstantsAssumption
  <2>4. /\ sendid'[p][c] = r
        /\ \A q \in Peer, d \in Cid : q # p \/ d # c => sendid'[q][d] = sendid[q][d]
        /\ outbox'[p] = outbox[p] \ {w}
        /\ \A q \in Peer : q # p => outbox'[q] = outbox[q]
    BY <1>1, <2>1
  <2>5. /\ w \in sentLog /\ w.peer = p /\ sendid[p][c] # None
        /\ sendid[p][c].wire = w /\ w \notin acked
    BY <2>1
  <2>6. \A v \in sentLog :
          sendid'[v.peer][v.cid] # None /\ sendid'[v.peer][v.cid].wire = v
    BY <1>1, <2>2, <2>3, <2>4, <2>5
  <2>7. ASSUME NEW q \in Peer, NEW d \in Cid, sendid'[q][d] # None
        PROVE  LET v == sendid'[q][d].wire IN
               /\ v.peer = q /\ v.cid = d /\ v \in sentLog'
               /\ sendid'[q][d].abandoned => v \notin acked' \cup outbox'[q]
               /\ ~sendid'[q][d].abandoned => v \in acked' \cup outbox'[q]
    <3>1. CASE q = p /\ d = c
      BY <2>1, <2>2, <2>4, <2>5, <3>1
    <3>2. CASE q # p \/ d # c
      <4>1. sendid'[q][d] = sendid[q][d] /\ sendid[q][d].wire # w
        BY <2>4, <2>5, <2>7, <3>2
      <4> QED
        BY <2>1, <2>4, <2>7, <4>1
    <3> QED
      BY <3>1, <3>2
  <2> QED
    BY <2>1, <2>4, <2>6, <2>7
<1> QED
  BY <1>2, <1>3, <1>4, <1>5 DEF Effect

\* A message is recorded in the transaction that decrypts it, and a session
\* that decrypted anything is never removed, so the records and the session
\* never disagree.
LEMMA InboxStep ==
    ASSUME TypeInv, InboxInv, Effect
    PROVE  InboxInv'
<1> USE DEF InboxInv, history
<1>1. /\ session \in [Peer -> Session \cup {None}]
      /\ inbox \in [Peer -> SUBSET Msg] /\ seen \in [Peer -> SUBSET Msg]
  BY DEF TypeInv, TypeOK
<1>2. CASE \/ Nothing \/ KeyDrawn \/ PrekeysReplaced
           \/ \E p \in Peer, w \in Wire : Acknowledged(p, w) \/ Abandoned(p, w)
  BY <1>2 DEF Nothing, KeyDrawn, PrekeysReplaced, Acknowledged, Abandoned
<1>3. ASSUME NEW p \in Peer, Created(p) \/ Gone(p) PROVE InboxInv'
  <2>1. /\ UNCHANGED <<inbox, seen>>
        /\ \A q \in Peer : q # p => session'[q] = session[q]
        /\ session'[p] = None \/ session'[p].rcvd = {}
        /\ session[p] = None \/ session[p].rcvd = {}
    BY <1>1, <1>3 DEF Created, Gone, HasReceived
  <2>2. inbox[p] \cup seen[p] = {}
    BY <2>1
  <2> QED
    BY <2>1, <2>2
<1>4. ASSUME NEW p \in Peer, NEW hs \in Handshakes, NEW m \in Msg,
             Promoted(p, hs, m)
      PROVE  InboxInv'
  <2> DEFINE s0 == [sid |-> hs, sent |-> 0, rcvd |-> {m.k}]
  <2>1. /\ session[p] = None /\ m.sid = hs /\ seen' = seen
        /\ session' = [session EXCEPT ![p] = s0]
        /\ inbox' = [inbox EXCEPT ![p] = @ \cup {m}]
    BY <1>4 DEF Promoted
  <2>2. s0.sid = hs /\ s0.rcvd = {m.k} /\ s0 \in Session
    BY ConstantsAssumption DEF Session, Msg
  <2> HIDE DEF s0
  <2>3. s0 # None
    BY <2>2, ConstantsAssumption
  <2>4. inbox[p] = {} /\ seen[p] = {}
    BY <2>1
  <2>5. m = [sid |-> hs, k |-> m.k]
    BY <2>1 DEF Msg
  <2>6. /\ session'[p] = s0 /\ inbox'[p] = {m} /\ seen'[p] = {}
        /\ \A q \in Peer : q # p => session'[q] = session[q] /\ inbox'[q] = inbox[q]
    BY <1>1, <2>1, <2>4
  <2> QED
    BY <2>1, <2>2, <2>3, <2>5, <2>6
<1>5. ASSUME NEW p \in Peer, NEW s \in Session, NEW m \in Msg, Received(p, s, m)
      PROVE  InboxInv'
  <2> DEFINE s1 == [s EXCEPT !.rcvd = @ \cup {m.k}]
  <2>1. /\ session[p] = s /\ m.sid = s.sid /\ m \notin inbox[p] \cup seen[p]
        /\ session' = [session EXCEPT ![p] = s1] /\ seen' = seen
        /\ inbox' = [inbox EXCEPT ![p] = @ \cup {m}]
    BY <1>5 DEF Received, Authenticates
  <2>2. s1.sid = s.sid /\ s1.rcvd = s.rcvd \cup {m.k} /\ s1 \in Session
    BY DEF Session, Msg
  <2> HIDE DEF s1
  <2>3. s1 # None /\ s # None
    BY <2>2, ConstantsAssumption
  <2>4. m = [sid |-> s.sid, k |-> m.k]
    BY <2>1 DEF Msg
  <2>5. /\ session'[p] = s1 /\ inbox'[p] = inbox[p] \cup {m}
        /\ \A q \in Peer : q # p => session'[q] = session[q] /\ inbox'[q] = inbox[q]
    BY <1>1, <2>1
  <2>6. \A x \in inbox'[p] \cup seen'[p] :
          session'[p] # None /\ x.sid = session'[p].sid /\ x.k \in session'[p].rcvd
    BY <2>1, <2>2, <2>3, <2>5
  <2>7. \A k \in session'[p].rcvd :
          [sid |-> session'[p].sid, k |-> k] \in inbox'[p] \cup seen'[p]
    BY <2>1, <2>2, <2>3, <2>4, <2>5
  <2>8. inbox'[p] \cap seen'[p] = {}
    BY <2>1, <2>5
  <2> QED
    BY <2>1, <2>5, <2>6, <2>7, <2>8
<1>6. ASSUME NEW p \in Peer, NEW s \in Session, NEW w \in Wire, Sent(p, s, w)
      PROVE  InboxInv'
  <2> DEFINE q == s.sid.peer
             s1 == [s EXCEPT !.sent = @ + 1]
  <2>1. /\ session[q] = s /\ session' = [session EXCEPT ![q] = s1]
        /\ UNCHANGED <<inbox, seen>>
    BY <1>6 DEF Sent
  <2>2. s1.sid = s.sid /\ s1.rcvd = s.rcvd /\ s1 \in Session /\ q \in Peer
    BY DEF Session, Sid
  <2> HIDE DEF s1
  <2>3. s1 # None /\ s # None
    BY <2>2, ConstantsAssumption
  <2> QED
    BY <1>1, <2>1, <2>2, <2>3
<1>7. ASSUME NEW p \in Peer, NEW m \in Msg, Delivered(p, m) PROVE InboxInv'
  <2>1. /\ m \in inbox[p] /\ session' = session
        /\ inbox'[p] = inbox[p] \ {m} /\ seen'[p] = seen[p] \cup {m}
        /\ \A q \in Peer : q # p => inbox'[q] = inbox[q] /\ seen'[q] = seen[q]
    BY <1>1, <1>7 DEF Delivered
  <2> QED
    BY <2>1
<1> QED
  BY <1>2, <1>3, <1>4, <1>5, <1>6, <1>7 DEF Effect

\* A promotion consumes the current prekey version, and replaces it.
LEMMA PrekeyStep ==
    ASSUME TypeInv, PrekeyInv, PrekeyUsedOnce, Effect
    PROVE  PrekeyInv' /\ PrekeyUsedOnce'
<1> USE DEF PrekeyInv, PrekeyUsedOnce, history
<1>1. prekey \in Nat /\ promoted \subseteq Sid
  BY DEF TypeInv, TypeOK
<1>2. CASE PrekeysReplaced
  BY <1>1, <1>2 DEF PrekeysReplaced, Sid
<1>3. ASSUME NEW p \in Peer, NEW hs \in Handshakes, NEW m \in Msg,
             Promoted(p, hs, m)
      PROVE  PrekeyInv' /\ PrekeyUsedOnce'
  <2>1. /\ hs.prekey = prekey /\ prekey' = prekey + 1
        /\ promoted' = promoted \cup {hs}
    BY <1>3 DEF Promoted, Answerable
  <2>2. \A s \in promoted : s.prekey \in Nat
    BY <1>1 DEF Sid
  <2> QED
    BY <1>1, <2>1, <2>2
<1>4. CASE UNCHANGED <<prekey, promoted>>
  BY <1>4
<1> QED
  BY <1>2, <1>3, <1>4 DEF Effect, Nothing, KeyDrawn, Created, Gone, Received,
     Sent, Acknowledged, Abandoned, Delivered

\* A session, its handle and its stored handshake come and go together.
LEMMA HandleStep ==
    ASSUME TypeInv, HandleNamesSession, SessionInv, Effect
    PROVE  HandleNamesSession'
<1> USE DEF HandleNamesSession, history
<1>1. /\ session \in [Peer -> Session \cup {None}]
      /\ handles \in [Handle -> Peer \cup {None}]
      /\ hsout \in [Peer -> Sid \cup {None}]
      /\ HandleOf \in [Peer -> Handle] /\ None \notin Peer
  BY ConstantsAssumption DEF TypeInv, TypeOK
<1>2. CASE \/ Nothing \/ KeyDrawn \/ PrekeysReplaced
           \/ \E p \in Peer, w \in Wire : Acknowledged(p, w) \/ Abandoned(p, w)
           \/ \E p \in Peer, m \in Msg : Delivered(p, m)
  BY <1>2 DEF Nothing, KeyDrawn, PrekeysReplaced, Acknowledged, Abandoned,
              Delivered
<1>3. ASSUME NEW p \in Peer, Created(p) PROVE HandleNamesSession'
  <2> DEFINE sid == [role |-> "initiator", peer |-> p, n |-> nextOut, prekey |-> 0]
             s0 == [sid |-> sid, sent |-> 0, rcvd |-> {}]
  <2>1. /\ session[p] = None /\ handles[HandleOf[p]] = None /\ hsout[p] = None
        /\ session' = [session EXCEPT ![p] = s0]
        /\ handles' = [handles EXCEPT ![HandleOf[p]] = p]
        /\ hsout' = [hsout EXCEPT ![p] = sid]
    BY <1>3 DEF Created
  <2>2. s0.sid = sid /\ s0 \in Session
    BY DEF TypeInv, TypeOK, Session, Sid, Role
  <2> HIDE DEF s0, sid
  <2>3. s0 # None
    BY <2>2, ConstantsAssumption
  <2> QED
    BY <1>1, <2>1, <2>2, <2>3
<1>4. ASSUME NEW p \in Peer, Gone(p) PROVE HandleNamesSession'
  BY <1>1, <1>4 DEF Gone
<1>5. ASSUME NEW p \in Peer, NEW hs \in Handshakes, NEW m \in Msg,
             Promoted(p, hs, m)
      PROVE  HandleNamesSession'
  <2> DEFINE s0 == [sid |-> hs, sent |-> 0, rcvd |-> {m.k}]
  <2>1. /\ session[p] = None /\ handles[HandleOf[p]] = None /\ hsout' = hsout
        /\ session' = [session EXCEPT ![p] = s0]
        /\ handles' = [handles EXCEPT ![HandleOf[p]] = p]
    BY <1>5 DEF Promoted
  <2>2. s0 \in Session
    BY ConstantsAssumption DEF Session, Msg
  <2> HIDE DEF s0
  <2>3. s0 # None
    BY <2>2, ConstantsAssumption
  <2> QED
    BY <1>1, <2>1, <2>3
<1>6. ASSUME NEW p \in Peer, NEW s \in Session, NEW m \in Msg, Received(p, s, m)
      PROVE  HandleNamesSession'
  <2> DEFINE s1 == [s EXCEPT !.rcvd = @ \cup {m.k}]
  <2>1. /\ session[p] = s /\ session' = [session EXCEPT ![p] = s1]
        /\ UNCHANGED <<handles, hsout>>
    BY <1>6 DEF Received
  <2>2. s1.sid = s.sid /\ s1 \in Session
    BY DEF Session, Msg
  <2> HIDE DEF s1
  <2>3. s1 # None /\ s # None
    BY <2>2, ConstantsAssumption
  <2> QED
    BY <1>1, <2>1, <2>2, <2>3
<1>7. ASSUME NEW p \in Peer, NEW s \in Session, NEW w \in Wire, Sent(p, s, w)
      PROVE  HandleNamesSession'
  <2> DEFINE q == s.sid.peer
             s1 == [s EXCEPT !.sent = @ + 1]
  <2>1. /\ session[q] = s /\ session' = [session EXCEPT ![q] = s1]
        /\ UNCHANGED <<handles, hsout>>
    BY <1>7 DEF Sent
  <2>2. s1.sid = s.sid /\ s1 \in Session /\ q \in Peer
    BY DEF Session, Sid
  <2> HIDE DEF s1
  <2>3. s1 # None /\ s # None
    BY <2>2, ConstantsAssumption
  <2> QED
    BY <1>1, <2>1, <2>2, <2>3
<1> QED
  BY <1>2, <1>3, <1>4, <1>5, <1>6, <1>7 DEF Effect

-----------------------------------------------------------------------------
(* What operations carry.                                                  *)

\* One instance moves on, and hsin stays or changes under the invariant.
LEMMA GotoFacts ==
    ASSUME TypeInv, OpInv, NEW i \in Instance, NEW new, OpFacts(new),
           Goto(i, new), HsinInv'
    PROVE  OpInv'
  BY DEF TypeInv, TypeOK, OpInv, Goto

\* An idle instance holds nothing to be true.
LEMMA IdleFacts == OpFacts(Idle)
  BY DEF OpFacts, Idle

\* What holds of the operations holds after one returns.
LEMMA ReturnFacts ==
    ASSUME TypeInv, OpInv, NEW i \in Instance, Goto(i, Idle), UNCHANGED hsin
    PROVE  OpInv'
<1>1. HsinInv'
  BY DEF OpInv, HsinInv
<1> QED
  BY <1>1, IdleFacts, GotoFacts

\* The operations that begin.
LEMMA BeginFacts ==
    ASSUME TypeInv, OpInv, HandleNamesSession, NEW i \in Instance,
           \/ \E hs \in Handshakes : ProvisionalBegin(i, hs)
           \/ \E h \in Handle, m \in Incoming : ReceiveBegin(i, h, m)
           \/ \E h \in Handle, c \in Cid : SendBegin(i, h, c)
           \/ \E h \in Handle : RemoveBegin(i, h) \/ RecoverBegin(i, h)
    PROVE  OpInv'
<1> USE DEF OpFacts, Idle
<1>1. UNCHANGED hsin
  BY DEF ProvisionalBegin, ReceiveBegin, SendBegin, RemoveBegin, RecoverBegin,
         store
<1>2. HsinInv'
  BY <1>1 DEF OpInv, HsinInv
<1>3. ASSUME NEW hs \in Handshakes, ProvisionalBegin(i, hs) PROVE OpInv'
  BY <1>2, <1>3, GotoFacts DEF ProvisionalBegin
<1>4. ASSUME NEW h \in Handle, NEW m \in Incoming, ReceiveBegin(i, h, m)
      PROVE  OpInv'
  <2>1. hsin[h] # None => HandleOf[hsin[h].peer] = h
    BY DEF OpInv, HsinInv
  <2> DEFINE first == handles[h] = None /\ hsin[h] # None
             new == [Idle EXCEPT !.pc = IF first THEN "first" ELSE "receive",
                            !.h = h, !.msg = m,
                            !.hs = IF first THEN hsin[h] ELSE None]
  <2>2. Goto(i, new)
    BY <1>4 DEF ReceiveBegin
  <2>3. OpFacts(new)
    BY <2>1
  <2> QED
    BY <1>2, <2>2, <2>3, GotoFacts
<1>5. ASSUME NEW h \in Handle, NEW c \in Cid, SendBegin(i, h, c) PROVE OpInv'
  <2>1. handles[h] # None => HandleOf[handles[h]] = h
    BY DEF HandleNamesSession
  <2> QED
    BY <1>2, <1>5, <2>1, GotoFacts DEF SendBegin
<1>6. ASSUME NEW h \in Handle, RemoveBegin(i, h) PROVE OpInv'
  <2>1. handles[h] # None => HandleOf[handles[h]] = h
    BY DEF HandleNamesSession
  <2> QED
    BY <1>2, <1>6, <2>1, GotoFacts DEF RemoveBegin, Load, Removable
<1>7. ASSUME NEW h \in Handle, RecoverBegin(i, h) PROVE OpInv'
  BY <1>2, <1>7, GotoFacts DEF RecoverBegin
<1> QED
  BY <1>3, <1>4, <1>5, <1>6, <1>7

\* The operations that go on after a read.
LEMMA ReadFacts ==
    ASSUME TypeInv, OpInv, HandleNamesSession, SessionInv, NEW i \in Instance,
           \/ RetireLoad(i) \/ FirstStage(i) \/ ReceiveStage(i)
           \/ SendStage(i) \/ RecoverSeen(i)
    PROVE  OpInv'
<1> DEFINE h == op[i].h
<1>1. UNCHANGED hsin
  BY DEF RetireLoad, FirstStage, ReceiveStage, SendStage, RecoverSeen, Return, store
<1>2. HsinInv'
  BY <1>1 DEF OpInv, HsinInv
<1>3. op[i] \in OpRecord /\ OpShape(op[i]) /\ OpFacts(op[i])
  BY DEF TypeInv, TypeOK, OpInv
<1>4. op[i].pc # "idle" => h \in Handle
  BY <1>3 DEF OpShape
<1>5. CASE Return(i)
  BY <1>1, <1>5, ReturnFacts DEF Return
<1>6. CASE RetireLoad(i) /\ ~Return(i)
  <2> DEFINE new == [op[i] EXCEPT !.pc = "retire_commit", !.base = Load(h),
                                  !.peer = handles[h]]
  <2>1. /\ Goto(i, new) /\ Load(h) # None /\ ~HasReceived(Load(h))
        /\ op[i].pc = "retire"
    BY <1>6 DEF RetireLoad, IsLegacyUnconfirmed, HasReceived
  <2>2. handles[h] # None /\ HandleOf[handles[h]] = h
    BY <1>4, <2>1 DEF Load, HandleNamesSession
  <2>3. OpFacts(new)
    BY <1>3, <2>1, <2>2 DEF OpFacts, OpRecord
  <2> QED
    BY <1>2, <2>1, <2>3, GotoFacts
<1>7. CASE FirstStage(i) /\ ~Return(i)
  <2> DEFINE new1 == [op[i] EXCEPT !.pc = "receive"]
             new2 == [op[i] EXCEPT !.pc = "promote", !.peer = op[i].hs.peer]
  <2>1. /\ op[i].pc = "first"
        /\ \/ Goto(i, new1)
           \/ Goto(i, new2) /\ op[i].msg.sid = op[i].hs
    BY <1>7 DEF FirstStage, Return
  <2>2. OpFacts(new1) /\ (op[i].msg.sid = op[i].hs => OpFacts(new2))
    BY <1>3, <2>1 DEF OpFacts, OpRecord
  <2> QED
    BY <1>2, <2>1, <2>2, GotoFacts
<1>8. CASE ReceiveStage(i) /\ ~Return(i)
  <2> DEFINE new == [op[i] EXCEPT !.pc = "receive_commit", !.base = Load(h),
                                  !.peer = handles[h], !.hs = None]
  <2>1. /\ Goto(i, new) /\ Load(h) # None /\ Authenticates(op[i].msg, Load(h))
        /\ op[i].pc = "receive"
    BY <1>8 DEF ReceiveStage
  <2>2. handles[h] # None /\ HandleOf[handles[h]] = h
    BY <1>4, <2>1 DEF Load, HandleNamesSession
  <2>3. OpFacts(new)
    BY <1>3, <2>1, <2>2 DEF OpFacts, OpRecord
  <2> QED
    BY <1>2, <2>1, <2>3, GotoFacts
<1>9. CASE SendStage(i) /\ ~Return(i)
  <2> DEFINE new == [op[i] EXCEPT !.pc = "send_commit", !.base = Load(h)]
  <2>1. /\ Goto(i, new) /\ Load(h) # None /\ CanEncrypt(Load(h))
        /\ op[i].pc = "send"
    BY <1>9 DEF SendStage
  <2>2. /\ handles[h] \in Peer /\ Load(h) = session[handles[h]]
        /\ HandleOf[handles[h]] = h
    BY <1>4, <2>1 DEF Load, HandleNamesSession, TypeInv, TypeOK
  <2>3. HandleOf[Load(h).sid.peer] = h
    BY <2>1, <2>2 DEF SessionInv
  <2>4. OpFacts(new)
    BY <1>3, <2>1, <2>3 DEF OpFacts, OpRecord
  <2> QED
    BY <1>2, <2>1, <2>4, GotoFacts
<1>10. CASE RecoverSeen(i)
  <2> DEFINE u == unresolved[i][h]
             new == [op[i] EXCEPT !.pc = "recover_load",
                                  !.found = op[i].found \/ u.msg \in seen[u.peer]]
  <2>1. Goto(i, new)
    BY <1>10 DEF RecoverSeen
  <2>2. OpFacts(new)
    BY <1>3 DEF OpFacts, OpRecord
  <2> QED
    BY <1>2, <2>1, <2>2, GotoFacts
<1> QED
  BY <1>5, <1>6, <1>7, <1>8, <1>9, <1>10

\* The steps that write.
LEMMA WriteFacts ==
    ASSUME TypeInv, OpInv, HandleNamesSession, NEW i \in Instance,
           \/ ProvisionalRecord(i) \/ RetireCommit(i) \/ Promote(i)
           \/ ReceiveCommit(i) \/ SendCommit(i) \/ RemoveCommit(i)
           \/ RecoverLoad(i) \/ RecoverReturn(i) \/ NotCommitted(i) \/ Crash(i)
    PROVE  OpInv'
<1>1. op[i] \in OpRecord /\ OpShape(op[i]) /\ OpFacts(op[i]) /\ HsinInv
  BY DEF TypeInv, TypeOK, OpInv
<1>2. hsin \in [Handle -> Handshakes \cup {None}]
  BY DEF TypeInv, TypeOK
<1>3. CASE Goto(i, Idle) /\ UNCHANGED hsin
  BY <1>3, ReturnFacts
<1>4. CASE \/ ReceiveCommit(i) \/ SendCommit(i) \/ RemoveCommit(i)
           \/ RecoverReturn(i) \/ NotCommitted(i) \/ Crash(i)
  <2>1. Goto(i, Idle) /\ UNCHANGED hsin
    BY <1>4 DEF ReceiveCommit, SendCommit, RemoveCommit, RecoverReturn,
                NotCommitted, Crash, Return, store
  <2> QED
    BY <2>1, <1>3
<1>5. CASE ProvisionalRecord(i) /\ ~(Goto(i, Idle) /\ UNCHANGED hsin)
  <2>1. op[i].pc = "provisional"
    BY <1>5 DEF ProvisionalRecord
  <2>2. op[i].h = HandleOf[op[i].hs.peer] /\ op[i].peer = op[i].hs.peer
    BY <1>1, <2>1 DEF OpFacts
  <2>3. CASE Goto(i, [op[i] EXCEPT !.pc = "retire"]) /\ UNCHANGED hsin
    <3>1. OpFacts([op[i] EXCEPT !.pc = "retire"])
      BY <1>1, <2>2 DEF OpFacts, OpRecord
    <3>2. HsinInv'
      BY <1>1, <2>3 DEF HsinInv
    <3> QED
      BY <2>3, <3>1, <3>2, GotoFacts
  <2>4. CASE Goto(i, Idle) /\ hsin' = [hsin EXCEPT ![op[i].h] = op[i].hs]
    <3>1. HsinInv'
      BY <1>1, <1>2, <2>2, <2>4 DEF HsinInv
    <3> QED
      BY <2>4, <3>1, IdleFacts, GotoFacts
  <2> QED
    BY <1>5, <2>3, <2>4 DEF ProvisionalRecord, Return, store
<1>6. CASE RetireCommit(i) /\ ~(Goto(i, Idle) /\ UNCHANGED hsin)
  <2>1. /\ op[i].pc = "retire_commit" /\ Goto(i, Idle)
        /\ hsin' = [hsin EXCEPT ![op[i].h] = op[i].hs]
    BY <1>6 DEF RetireCommit, Return, store
  <2>2. op[i].h = HandleOf[op[i].hs.peer]
    BY <1>1, <2>1 DEF OpFacts
  <2>3. HsinInv'
    BY <1>1, <1>2, <2>1, <2>2 DEF HsinInv
  <2> QED
    BY <2>1, <2>3, IdleFacts, GotoFacts
<1>7. CASE Promote(i) /\ ~(Goto(i, Idle) /\ UNCHANGED hsin)
  <2>1. CASE Goto(i, [op[i] EXCEPT !.pc = "receive"]) /\ UNCHANGED hsin
    <3>1. OpFacts([op[i] EXCEPT !.pc = "receive"])
      BY <1>1 DEF OpFacts, OpRecord
    <3>2. HsinInv'
      BY <1>1, <2>1 DEF HsinInv
    <3> QED
      BY <2>1, <3>1, <3>2, GotoFacts
  <2>2. CASE Goto(i, Idle) /\ hsin' = [hsin EXCEPT ![op[i].h] = None]
    <3>1. HsinInv'
      BY <1>1, <1>2, <2>2 DEF HsinInv
    <3> QED
      BY <2>2, <3>1, IdleFacts, GotoFacts
  <2> QED
    BY <1>7, <2>1, <2>2 DEF Promote, Return, store
<1>8. CASE RecoverLoad(i) /\ ~(Goto(i, Idle) /\ UNCHANGED hsin)
  <2>1. PICK c : Resolve(i, c)
    BY <1>8 DEF RecoverLoad, Return, store
  <2>2. OpFacts([Idle EXCEPT !.pc = "recovered", !.h = op[i].h, !.found = c,
                             !.pend = unresolved[i][op[i].h]])
    BY DEF OpFacts, Idle
  <2>3. HsinInv'
    BY <1>1, <2>1 DEF HsinInv, Resolve, store
  <2> QED
    BY <2>1, <2>2, <2>3, GotoFacts DEF Resolve
<1> QED
  BY <1>3, <1>4, <1>5, <1>6, <1>7, <1>8

\* Every step keeps what the operations in progress rely on.
LEMMA OpStep ==
    ASSUME TypeInv, OpInv, HandleNamesSession, SessionInv, Next
    PROVE  OpInv'
<1>1. ASSUME NEW i \in Instance,
             \/ \E p \in Peer : CreateSession(i, p)
             \/ \E h \in Handle, p \in Peer : \E m \in inbox[p] :
                   AcknowledgeIncoming(i, h, m)
             \/ \E h \in Handle, p \in Peer : \E w \in outbox[p] :
                   AcknowledgeOutgoing(i, h, w) \/ AbandonOutgoing(i, h, w)
             \/ EstablishPrekeys(i)
      PROVE  OpInv'
  <2>1. UNCHANGED <<op, hsin>>
    BY <1>1 DEF CreateSession, AcknowledgeIncoming, AcknowledgeOutgoing,
                AbandonOutgoing, EstablishPrekeys
  <2> QED
    BY <2>1 DEF OpInv, HsinInv
<1> QED
  BY <1>1, BeginFacts, ReadFacts, WriteFacts DEF Next

-----------------------------------------------------------------------------
(* Removals in progress.                                                   *)

\* No effect makes the removal o of a session dangerous: a session that comes
\* after the one it loaded differs from it, and a send on that one moves it on.
LEMMA RemovingKept ==
    ASSUME TypeInv, HandleNamesSession, SessionInv, Effect,
           NEW o, o.peer \in Peer, o.base \in Session, ~HasReceived(o.base),
           Removing(o)
    PROVE  Removing(o)'
<1> USE DEF Removing, history
<1>1. /\ session \in [Peer -> Session \cup {None}] /\ nextOut \in Nat
      /\ outbox \in [Peer -> SUBSET Wire]
      /\ HandleOf \in [Peer -> Handle]
  BY ConstantsAssumption DEF TypeInv, TypeOK
<1>2. /\ o.base # None /\ o.base.sid \in Sid /\ o.base.sid.n \in Nat
      /\ o.base.sent \in Nat /\ o.base.rcvd = {}
  BY ConstantsAssumption DEF Session, Sid, HasReceived
<1>3. CASE \/ Nothing \/ PrekeysReplaced
           \/ \E p \in Peer, m \in Msg : Delivered(p, m)
  BY <1>3 DEF Nothing, PrekeysReplaced, Delivered
<1>4. CASE KeyDrawn
  BY <1>1, <1>2, <1>4 DEF KeyDrawn
<1>5. CASE \E p \in Peer, w \in Wire : Acknowledged(p, w) \/ Abandoned(p, w)
  BY <1>1, <1>5 DEF Acknowledged, Abandoned
<1>6. ASSUME NEW p \in Peer, Created(p) PROVE Removing(o)'
  <2> DEFINE sid == [role |-> "initiator", peer |-> p, n |-> nextOut, prekey |-> 0]
             s0 == [sid |-> sid, sent |-> 0, rcvd |-> {}]
  <2>1. /\ session' = [session EXCEPT ![p] = s0] /\ nextOut' = nextOut + 1
        /\ UNCHANGED outbox
    BY <1>6 DEF Created
  <2>2. s0.sid = sid /\ sid.role = "initiator" /\ sid.n = nextOut
    OBVIOUS
  <2> HIDE DEF s0, sid
  <2>3. o.base.sid # sid
    BY <1>1, <1>2, <2>2
  <2> QED
    BY <1>1, <1>2, <2>1, <2>2, <2>3
<1>7. ASSUME NEW p \in Peer, Gone(p) PROVE Removing(o)'
  BY <1>1, <1>2, <1>7 DEF Gone
<1>8. ASSUME NEW p \in Peer, NEW hs \in Handshakes, NEW m \in Msg,
             Promoted(p, hs, m)
      PROVE  Removing(o)'
  <2> DEFINE s0 == [sid |-> hs, sent |-> 0, rcvd |-> {m.k}]
  <2>1. session' = [session EXCEPT ![p] = s0] /\ UNCHANGED <<outbox, nextOut>>
    BY <1>8 DEF Promoted
  <2>2. s0.rcvd # {}
    OBVIOUS
  <2> HIDE DEF s0
  <2> QED
    BY <1>1, <1>2, <2>1, <2>2 DEF HasReceived
<1>9. ASSUME NEW p \in Peer, NEW s \in Session, NEW m \in Msg, Received(p, s, m)
      PROVE  Removing(o)'
  <2> DEFINE s1 == [s EXCEPT !.rcvd = @ \cup {m.k}]
  <2>1. session' = [session EXCEPT ![p] = s1] /\ UNCHANGED <<outbox, nextOut>>
    BY <1>9 DEF Received
  <2>2. s1.rcvd # {}
    BY DEF Session
  <2> HIDE DEF s1
  <2> QED
    BY <1>1, <1>2, <2>1, <2>2 DEF HasReceived
<1>10. ASSUME NEW p \in Peer, NEW s \in Session, NEW w \in Wire, Sent(p, s, w)
       PROVE  Removing(o)'
  <2> DEFINE q == s.sid.peer
             s1 == [s EXCEPT !.sent = @ + 1]
  <2>1. /\ session[q] = s /\ session' = [session EXCEPT ![q] = s1]
        /\ outbox' = [outbox EXCEPT ![p] = @ \cup {w}] /\ UNCHANGED nextOut
        /\ HandleOf[q] = HandleOf[p]
    BY <1>10 DEF Sent
  <2>2. /\ s1.sid = s.sid /\ s1.sent = s.sent + 1 /\ s1.rcvd = s.rcvd
        /\ q \in Peer /\ s.sent \in Nat
    BY DEF Session, Sid
  <2>3. s # None
    BY ConstantsAssumption
  <2> HIDE DEF s1, q
  <2>4. CASE o.peer = q
    <3>1. session[o.peer] = s /\ session'[o.peer] = s1
      BY <1>1, <2>1, <2>4
    <3>2. s1 # o.base
      BY <1>2, <2>2, <2>3, <3>1 DEF HasReceived
    <3>3. s1.sid = o.base.sid /\ ~HasReceived(s1) => o.base.sent <= s1.sent
      BY <1>2, <2>2, <2>3, <3>1 DEF HasReceived
    <3> QED
      BY <2>1, <3>1, <3>2, <3>3
  <2>5. CASE o.peer # q
    <3>1. session'[o.peer] = session[o.peer]
      BY <1>1, <2>1, <2>5
    <3>2. CASE session[o.peer] = o.base
      <4>1. handles[HandleOf[o.peer]] = o.peer /\ handles[HandleOf[q]] = q
        BY <1>2, <2>1, <2>2, <2>3, <3>2 DEF HandleNamesSession
      <4>2. o.peer # p
        BY <2>1, <2>5, <4>1
      <4>3. outbox'[o.peer] = outbox[o.peer]
        BY <1>1, <2>1, <4>2
      <4> QED
        BY <2>1, <3>1, <4>3
    <3>3. CASE session[o.peer] # o.base
      BY <2>1, <3>1, <3>3
    <3> QED
      BY <3>2, <3>3
  <2> QED
    BY <2>4, <2>5
<1> QED
  BY <1>3, <1>4, <1>5, <1>6, <1>7, <1>8, <1>9, <1>10 DEF Effect

\* A removal begins on the session held, whose peer has no pending message.
LEMMA RemovalBegins ==
    ASSUME TypeInv, SessionInv, NEW i \in Instance, NEW h \in Handle,
           Load(h) # None, outbox[handles[h]] = {}, UNCHANGED <<store, history>>,
           op'[i].base = Load(h), op'[i].peer = handles[h]
    PROVE  Removing(op[i])'
<1>1. /\ handles[h] \in Peer /\ Load(h) = session[handles[h]]
      /\ Load(h).sent \in Nat
  BY LoadType DEF Load, Session
<1>2. Load(h).sid.role = "initiator" => Load(h).sid.n < nextOut
  BY <1>1 DEF SessionInv
<1> HIDE DEF Load
<1> QED
  BY <1>1, <1>2 DEF Removing, store, history

\* Only remove_session and retire_legacy lead an instance to the transaction
\* of a removal.
LEMMA RemovalMoves ==
    ASSUME TypeInv, Next, NEW j \in Instance, op'[j] # op[j],
           op'[j].pc \in {"remove", "retire_commit"}
    PROVE  (\E h \in Handle : RemoveBegin(j, h)) \/ RetireLoad(j)
<1> USE DEF Goto, Return, Idle
<1>1. op \in [Instance -> OpRecord]
  BY DEF TypeInv, TypeOK
<1>2. ASSUME NEW i \in Instance,
             \/ \E p \in Peer : CreateSession(i, p)
             \/ \E h \in Handle, p \in Peer : \E m \in inbox[p] :
                   AcknowledgeIncoming(i, h, m)
             \/ \E h \in Handle, p \in Peer : \E w \in outbox[p] :
                   AcknowledgeOutgoing(i, h, w) \/ AbandonOutgoing(i, h, w)
             \/ EstablishPrekeys(i)
      PROVE  FALSE
  BY <1>2 DEF CreateSession, AcknowledgeIncoming, AcknowledgeOutgoing,
              AbandonOutgoing, EstablishPrekeys
<1>3. ASSUME NEW i \in Instance,
             \/ \E hs \in Handshakes : ProvisionalBegin(i, hs)
             \/ \E h \in Handle, m \in Incoming : ReceiveBegin(i, h, m)
             \/ \E h \in Handle, c \in Cid : SendBegin(i, h, c)
             \/ \E h \in Handle : RecoverBegin(i, h)
      PROVE  FALSE
  <2>1. ASSUME NEW hs \in Handshakes, ProvisionalBegin(i, hs) PROVE FALSE
    BY <1>1, <2>1 DEF ProvisionalBegin
  <2>2. ASSUME NEW h \in Handle, NEW m \in Incoming, ReceiveBegin(i, h, m)
        PROVE  FALSE
    BY <1>1, <2>2 DEF ReceiveBegin
  <2>3. ASSUME NEW h \in Handle, NEW c \in Cid, SendBegin(i, h, c) PROVE FALSE
    BY <1>1, <2>3 DEF SendBegin
  <2>4. ASSUME NEW h \in Handle, RecoverBegin(i, h) PROVE FALSE
    BY <1>1, <2>4 DEF RecoverBegin
  <2> QED
    BY <1>3, <2>1, <2>2, <2>3, <2>4
<1>4. ASSUME NEW i \in Instance,
             \/ ProvisionalRecord(i) \/ FirstStage(i) \/ Promote(i)
             \/ ReceiveStage(i) \/ SendStage(i) \/ RecoverSeen(i)
      PROVE  FALSE
  <2>1. op[i] \in OpRecord
    BY <1>1
  <2>2. CASE Goto(i, Idle)
    BY <1>1, <2>2
  <2>3. CASE ProvisionalRecord(i) /\ ~Goto(i, Idle)
    <3>1. Goto(i, [op[i] EXCEPT !.pc = "retire"])
      BY <2>3 DEF ProvisionalRecord
    <3> QED
      BY <1>1, <2>1, <3>1 DEF OpRecord
  <2>4. CASE FirstStage(i) /\ ~Goto(i, Idle)
    <3>1. \/ Goto(i, [op[i] EXCEPT !.pc = "receive"])
          \/ Goto(i, [op[i] EXCEPT !.pc = "promote", !.peer = op[i].hs.peer])
      BY <2>4 DEF FirstStage
    <3> QED
      BY <1>1, <2>1, <3>1 DEF OpRecord
  <2>5. CASE Promote(i) /\ ~Goto(i, Idle)
    <3>1. Goto(i, [op[i] EXCEPT !.pc = "receive"])
      BY <2>5 DEF Promote
    <3> QED
      BY <1>1, <2>1, <3>1 DEF OpRecord
  <2>6. CASE ReceiveStage(i) /\ ~Goto(i, Idle)
    <3>1. PICK s, p : Goto(i, [op[i] EXCEPT !.pc = "receive_commit", !.base = s,
                                            !.peer = p, !.hs = None])
      BY <2>6 DEF ReceiveStage
    <3> QED
      BY <1>1, <2>1, <3>1 DEF OpRecord
  <2>7. CASE SendStage(i) /\ ~Goto(i, Idle)
    <3>1. PICK s : Goto(i, [op[i] EXCEPT !.pc = "send_commit", !.base = s])
      BY <2>7 DEF SendStage
    <3> QED
      BY <1>1, <2>1, <3>1 DEF OpRecord
  <2>8. CASE RecoverSeen(i)
    <3>1. PICK f : Goto(i, [op[i] EXCEPT !.pc = "recover_load", !.found = f])
      BY <2>8 DEF RecoverSeen
    <3> QED
      BY <1>1, <2>1, <3>1 DEF OpRecord
  <2> QED
    BY <1>4, <2>2, <2>3, <2>4, <2>5, <2>6, <2>7, <2>8
<1>5. ASSUME NEW i \in Instance,
             \/ RetireCommit(i) \/ ReceiveCommit(i) \/ SendCommit(i)
             \/ RemoveCommit(i) \/ RecoverReturn(i) \/ NotCommitted(i)
             \/ Crash(i)
      PROVE  FALSE
  <2>1. Goto(i, Idle)
    BY <1>5 DEF RetireCommit, ReceiveCommit, SendCommit, RemoveCommit,
                RecoverReturn, NotCommitted, Crash
  <2> QED
    BY <1>1, <2>1
<1>6. ASSUME NEW i \in Instance, RecoverLoad(i) PROVE FALSE
  <2>1. CASE Return(i)
    BY <1>1, <2>1
  <2>2. ASSUME NEW c, Resolve(i, c) PROVE FALSE
    BY <1>1, <2>2 DEF Resolve
  <2> HIDE DEF Return
  <2> QED
    BY <1>6, <2>1, <2>2 DEF RecoverLoad
<1>7. ASSUME NEW i \in Instance, NEW h \in Handle, RemoveBegin(i, h)
      PROVE  i = j
  BY <1>1, <1>7 DEF RemoveBegin
<1>8. ASSUME NEW i \in Instance, RetireLoad(i) PROVE i = j
  BY <1>1, <1>8 DEF RetireLoad
<1> QED
  BY <1>2, <1>3, <1>4, <1>5, <1>6, <1>7, <1>8 DEF Next

\* An instance is at the transaction of a removal only if it was before, or
\* read the session, its peer and the empty outbox in this very step.
LEMMA RemovalStep ==
    ASSUME TypeInv, OpInv, HandleNamesSession, SessionInv, RemovalInv, Next
    PROVE  RemovalInv'
<1> SUFFICES ASSUME NEW j \in Instance,
                    op'[j].pc \in {"remove", "retire_commit"}
             PROVE  Removing(op[j])'
  BY DEF RemovalInv
<1>1. CASE op'[j] = op[j]
  <2>1. PICK o : o = op[j]
    OBVIOUS
  <2>2. o.peer \in Peer /\ o.base \in Session /\ ~HasReceived(o.base)
    BY <1>1, <2>1 DEF TypeInv, OpShape, OpInv, OpFacts
  <2>3. Removing(o)
    BY <1>1, <2>1 DEF RemovalInv
  <2>4. Effect
    BY StepEffect
  <2>5. Removing(o)'
    BY <2>2, <2>3, <2>4, RemovingKept
  <2> QED
    BY <1>1, <2>1, <2>5
<1>2. CASE op'[j] # op[j]
  <2>1. \/ \E h \in Handle : RemoveBegin(j, h)
        \/ RetireLoad(j)
    BY <1>2, RemovalMoves
  <2>2. ASSUME NEW h \in Handle, RemoveBegin(j, h) PROVE Removing(op[j])'
    <3>1. /\ Load(h) # None /\ outbox[handles[h]] = {}
          /\ UNCHANGED <<store, history>>
      BY <2>2 DEF RemoveBegin, Removable
    <3>2. op'[j].base = Load(h) /\ op'[j].peer = handles[h]
      BY <2>2 DEF RemoveBegin, Goto, Idle, TypeInv, TypeOK
    <3> QED
      BY <3>1, <3>2, RemovalBegins
  <2>3. ASSUME RetireLoad(j) PROVE Removing(op[j])'
    <3> DEFINE h == op[j].h
    <3>1. h \in Handle /\ op[j] \in OpRecord
      BY <2>3 DEF RetireLoad, TypeInv, TypeOK, OpShape
    <3>2. ~Return(j)
      BY DEF Return, Goto, Idle, TypeInv, TypeOK
    <3>3. /\ Load(h) # None /\ outbox[handles[h]] = {}
          /\ UNCHANGED <<store, history>>
          /\ Goto(j, [op[j] EXCEPT !.pc = "retire_commit", !.base = Load(h),
                                   !.peer = handles[h]])
      BY <2>3, <3>2 DEF RetireLoad
    <3>4. op'[j].base = Load(h) /\ op'[j].peer = handles[h]
      BY <3>1, <3>3 DEF Goto, TypeInv, TypeOK, OpRecord
    <3> QED
      BY <3>1, <3>3, <3>4, RemovalBegins
  <2> QED
    BY <2>1, <2>2, <2>3
<1> QED
  BY <1>1, <1>2

-----------------------------------------------------------------------------
(* The inductive invariant and the theorems.                               *)

SafetyInv ==
    /\ TypeInv /\ OpInv /\ HandleNamesSession /\ SessionInv /\ RemovalInv
    /\ WireInv /\ NoFork /\ SendIdInv /\ InboxInv
    /\ PrekeyInv /\ PrekeyUsedOnce

\* The initial states, with or without legacy sessions, satisfy SafetyInv.
LEMMA InitSafety == Init => SafetyInv
<1> SUFFICES ASSUME Init PROVE SafetyInv
  OBVIOUS
<1>1. TypeInv
  BY InitType
<1>2. PICK old \in SUBSET LegacyPeer :
        /\ \A p, q \in old : HandleOf[p] = HandleOf[q] => p = q
        /\ session = [p \in Peer |->
                        IF p \in old THEN LegacySession(p) ELSE None]
        /\ handles = [h \in Handle |->
                        IF \E p \in old : HandleOf[p] = h
                        THEN CHOOSE p \in old : HandleOf[p] = h ELSE None]
        /\ promoted = {LegacySession(p).sid : p \in old}
  BY DEF Init
<1>3. old \subseteq Peer
  BY ConstantsAssumption
<1>4. ASSUME NEW p \in Peer
      PROVE  /\ LegacySession(p) \in Session
             /\ LegacySession(p).sid.peer = p
             /\ LegacySession(p).sid.role = "responder"
             /\ LegacySession(p).sid.prekey = 0
             /\ LegacySession(p).rcvd = {}
  BY DEF LegacySession, Session, Sid, Role
<1>5. \A p \in Peer : LegacySession(p) # None
  BY <1>4, ConstantsAssumption
<1> HIDE DEF LegacySession
<1>6. OpInv /\ RemovalInv
  BY IdleFacts DEF Init, OpInv, HsinInv, RemovalInv, Idle
<1>7. HandleNamesSession
  <2>1. ASSUME NEW h \in Handle, handles[h] # None
        PROVE  handles[h] \in old /\ HandleOf[handles[h]] = h
    BY <1>2, <2>1
  <2>2. ASSUME NEW p \in old PROVE handles[HandleOf[p]] = p
    <3>1. HandleOf[p] \in Handle
      BY <1>3, ConstantsAssumption
    <3> QED
      BY <1>2, <1>3, <3>1
  <2>3. \A p \in Peer : session[p] # None <=> p \in old
    BY <1>2, <1>5
  <2>4. \A p \in Peer : HandleOf[p] \in Handle /\ p # None
    BY ConstantsAssumption
  <2>5. \A p \in Peer : session[p] # None <=> handles[HandleOf[p]] = p
    BY <2>1, <2>2, <2>3, <2>4
  <2>6. \A p \in Peer : hsout[p] = None
    BY DEF Init
  <2> QED
    BY <2>1, <2>5, <2>6 DEF HandleNamesSession
<1>8. SessionInv
  BY <1>2, <1>3, <1>4 DEF SessionInv
<1>9. WireInv /\ NoFork /\ SendIdInv
  BY DEF Init, WireInv, NoFork, SendIdInv
<1>10. InboxInv
  BY <1>2, <1>4 DEF Init, InboxInv
<1>11. PrekeyInv /\ PrekeyUsedOnce
  <2>1. prekey = 1
    BY DEF Init
  <2>2. \A s \in promoted : s.prekey = 0
    BY <1>2, <1>3, <1>4
  <2> QED
    BY <2>1, <2>2 DEF PrekeyInv, PrekeyUsedOnce
<1> QED
  BY <1>1, <1>6, <1>7, <1>8, <1>9, <1>10, <1>11 DEF SafetyInv

\* Every step keeps SafetyInv.
LEMMA NextSafety == SafetyInv /\ [Next]_vars => SafetyInv'
<1> SUFFICES ASSUME SafetyInv, [Next]_vars PROVE SafetyInv'
  OBVIOUS
<1>1. CASE UNCHANGED vars
  BY <1>1 DEF vars, store, history, SafetyInv, TypeInv, TypeOK, OpInv, HsinInv,
     HandleNamesSession, SessionInv, RemovalInv, Removing, WireInv, NoFork, SendIdInv, InboxInv,
     PrekeyInv, PrekeyUsedOnce
<1>2. CASE Next
  <2>1. TypeInv'
    BY NextType DEF SafetyInv
  <2>2. OpInv'
    BY <1>2, OpStep DEF SafetyInv
  <2>3. Effect
    BY <1>2, StepEffect DEF SafetyInv
  <2> QED
    BY <1>2, <2>1, <2>2, <2>3, HandleStep, SessionStep, RemovalStep, WireStep,
       SendIdStep, InboxStep, PrekeyStep DEF SafetyInv
<1> QED
  BY <1>1, <1>2

\* The inductive invariant of durable messaging holds in every state: what each
\* namespace says of the others, and what each operation in progress relies on
\* between its reads and its transaction.
THEOREM Safety == Spec => []SafetyInv
  BY InitSafety, NextSafety, PTL DEF Spec

\* Two ciphertexts are never released under one ratchet position, whatever
\* number of instances send, receive, crash and lose the outcome of a commit:
\* the conditional write of Messenger::send is enough, colliding handles
\* included.
THEOREM NoForkHolds == Spec => []NoFork
<1>1. SafetyInv => NoFork
  BY DEF SafetyInv
<1> QED
  BY <1>1, Safety, PTL

\* A logical message is encrypted at most once in the life of the store.
THEOREM EncryptedOnceHolds == Spec => []EncryptedOnce
<1>1. SafetyInv => EncryptedOnce
  BY DEF SafetyInv, SendIdInv, EncryptedOnce
<1> QED
  BY <1>1, Safety, PTL

\* read_prior_send tells the truth: "acknowledged" and "abandoned" are
\* reported only for what was acknowledged, or given up unacknowledged.
THEOREM SendOutcomeTruthHolds == Spec => []SendOutcomeTruth
<1>1. SafetyInv => SendOutcomeTruth
  BY DEF SafetyInv, SendIdInv, SendOutcomeTruth, PriorSend
<1> QED
  BY <1>1, Safety, PTL

\* A session's decryptions and the inbox and seen records agree at all times.
THEOREM ConsumedIsRecordedHolds == Spec => []ConsumedIsRecorded
<1>1. SafetyInv => ConsumedIsRecorded
  <2> SUFFICES ASSUME InboxInv, NEW p \in Peer
               PROVE  /\ inbox[p] \cap seen[p] = {}
                      /\ session[p] # None =>
                            {m.k : m \in {x \in inbox[p] \cup seen[p] :
                                            x.sid = session[p].sid}}
                                = session[p].rcvd
    BY DEF SafetyInv, ConsumedIsRecorded
  <2> DEFINE rec == {x \in inbox[p] \cup seen[p] : x.sid = session[p].sid}
  <2>1. ASSUME session[p] # None, NEW m \in rec PROVE m.k \in session[p].rcvd
    BY <2>1 DEF InboxInv
  <2>2. ASSUME session[p] # None, NEW k \in session[p].rcvd
        PROVE  \E m \in rec : m.k = k
    <3>1. [sid |-> session[p].sid, k |-> k] \in rec
      BY <2>2 DEF InboxInv
    <3> QED
      BY <3>1
  <2>3. session[p] # None => {m.k : m \in rec} = session[p].rcvd
    BY <2>1, <2>2
  <2> QED
    BY <2>3 DEF InboxInv
<1> QED
  BY <1>1, Safety, PTL

\* The comparison of the prekey record inside the promotion's transaction
\* gives each one-time prekey to at most one session.
THEOREM PrekeyUsedOnceHolds == Spec => []PrekeyUsedOnce
<1>1. SafetyInv => PrekeyUsedOnce
  BY DEF SafetyInv
<1> QED
  BY <1>1, Safety, PTL

\* Session, handle and stored handshake records stay in step.
THEOREM HandleNamesSessionHolds == Spec => []HandleNamesSession
<1>1. SafetyInv => HandleNamesSession
  BY DEF SafetyInv
<1> QED
  BY <1>1, Safety, PTL

-----------------------------------------------------------------------------
(* The steps, and the refinement of Lifecycle.                             *)

\* What the send-id record r and the outbox box tell of a logical message.
Shown(r, box) ==
    IF r = None THEN None
    ELSE [wire |-> r.wire,
          status |-> IF r.abandoned THEN "abandoned"
                     ELSE IF r.wire \in box THEN "pending" ELSE "acknowledged"]

\* What the mapping shows of one logical message.
LEMMA OutOf ==
    ASSUME NEW p \in Peer, NEW c \in Cid
    PROVE  MessageOut[p][c] = Shown(sendid[p][c], outbox[p])
  BY DEF MessageOut, PriorSend, Shown

\* The same, after a step.
LEMMA OutOfNext ==
    ASSUME NEW p \in Peer, NEW c \in Cid
    PROVE  MessageOut'[p][c] = Shown(sendid'[p][c], outbox'[p])
  BY DEF MessageOut, PriorSend, Shown

\* A record that tells something is a record of a wire.
LEMMA ShownWire ==
    ASSUME NEW r \in SendRecord, NEW box
    PROVE  /\ Shown(r, box) \in Outgoing
           /\ Shown(r, box) # None
           /\ Shown(r, box).wire = r.wire
<1>1. r # None /\ r.wire \in Wire /\ r.abandoned \in BOOLEAN
  BY ConstantsAssumption DEF SendRecord
<1>2. Shown(r, box) \in Outgoing /\ Shown(r, box).wire = r.wire
  BY <1>1 DEF Shown, Outgoing
<1> QED
  BY <1>2, ConstantsAssumption

\* A two-place function that changes at one place.
LEMMA NestChange ==
    ASSUME NEW D, NEW E, NEW f, NEW g, NEW d \in D, NEW e \in E, NEW v,
           f = [x \in D |-> [y \in E |-> f[x][y]]],
           g = [x \in D |-> [y \in E |-> g[x][y]]],
           \A x \in D, y \in E : g[x][y] = IF x = d /\ y = e THEN v ELSE f[x][y]
    PROVE  g = [f EXCEPT ![d][e] = v]
<1> DEFINE r == [f EXCEPT ![d][e] = v]
<1>1. r = [x \in D |-> r[x]]
  OBVIOUS
<1>2. ASSUME NEW x \in D PROVE r[x] = g[x]
  <2>1. r[x] = [y \in E |-> r[x][y]]
    OBVIOUS
  <2>2. \A y \in E : r[x][y] = g[x][y]
    OBVIOUS
  <2>3. g[x] = [y \in E |-> g[x][y]]
    OBVIOUS
  <2> QED
    BY <2>1, <2>2, <2>3
<1> QED
  BY <1>1, <1>2

\* One logical message changes, and no other.
LEMMA OutChange ==
    ASSUME NEW p \in Peer, NEW c \in Cid, NEW v,
           \A q \in Peer, d \in Cid :
              MessageOut'[q][d] = IF q = p /\ d = c THEN v ELSE MessageOut[q][d]
    PROVE  MessageOut' = [MessageOut EXCEPT ![p][c] = v]
<1>1. MessageOut = [q \in Peer |-> [d \in Cid |-> MessageOut[q][d]]]
  BY DEF MessageOut
<1>2. MessageOut' = [q \in Peer |-> [d \in Cid |-> MessageOut'[q][d]]]
  BY DEF MessageOut
<1> HIDE DEF MessageOut
<1> QED
  BY <1>1, <1>2, NestChange

\* Encrypting: the send-id record was absent, so the wire is new.
LEMMA SentImplements ==
    ASSUME TypeInv, SendIdInv,
           NEW p \in Peer, NEW s \in Session, NEW w \in Wire, Sent(p, s, w)
    PROVE  Promise!Encrypt(p, w.cid)
<1> DEFINE c == w.cid
           r == [wire |-> w, abandoned |-> FALSE]
           v == [wire |-> w, status |-> "pending"]
<1>1. /\ w.peer = p /\ sendid[p][c] = None /\ c \in Cid
      /\ outbox' = [outbox EXCEPT ![p] = @ \cup {w}]
      /\ sendid' = [sendid EXCEPT ![p][c] = r]
      /\ UNCHANGED <<inbox, seen>>
  BY DEF Sent, Wire
<1>2. r \in SendRecord /\ r.wire = w /\ r.abandoned = FALSE
  BY DEF SendRecord
<1> HIDE DEF r, c
<1>3. r # None
  BY <1>2, ConstantsAssumption
<1>4. /\ sendid'[p][c] = r
      /\ \A q \in Peer, d \in Cid : q # p \/ d # c => sendid'[q][d] = sendid[q][d]
      /\ outbox'[p] = outbox[p] \cup {w}
      /\ \A q \in Peer : q # p => outbox'[q] = outbox[q]
  BY <1>1 DEF TypeInv, TypeOK
<1>5. w \notin sentLog
  BY <1>1 DEF SendIdInv, c
<1>6. MessageOut'[p][c] = v
  BY <1>1, <1>2, <1>3, <1>4, OutOfNext DEF Shown
<1>7. ASSUME NEW q \in Peer, NEW d \in Cid, q # p \/ d # c
      PROVE  MessageOut'[q][d] = MessageOut[q][d]
  <2>1. sendid[q][d] # None => sendid[q][d].wire # w
    BY <1>5 DEF SendIdInv
  <2>2. sendid'[q][d] = sendid[q][d]
    BY <1>4, <1>7
  <2>3. Shown(sendid[q][d], outbox'[q]) = Shown(sendid[q][d], outbox[q])
    BY <1>4, <2>1 DEF Shown
  <2> QED
    BY <2>2, <2>3, OutOf, OutOfNext
<1>8. MessageOut' = [MessageOut EXCEPT ![p][c] = v]
  BY <1>1, <1>6, <1>7, OutChange
<1>9. MessageOut[p][c] = None
  BY <1>1, OutOf DEF Shown
<1>10. v \in Outgoing /\ v.wire = w
  BY DEF Outgoing
<1>11. v # None
  BY <1>10, ConstantsAssumption
<1>12. w \notin Promise!Used
  <2>1. ASSUME NEW q \in Peer, NEW d \in Cid, MessageOut[q][d] # None
        PROVE  MessageOut[q][d].wire # w
    <3>1. sendid[q][d] # None
      BY <2>1, OutOf DEF Shown
    <3>2. sendid[q][d] \in SendRecord
      BY <3>1 DEF TypeInv, TypeOK
    <3>3. sendid[q][d].wire \in sentLog
      BY <3>1 DEF SendIdInv
    <3> QED
      BY <1>5, <3>2, <3>3, OutOf, ShownWire
  <2> QED
    BY <2>1 DEF Promise!Used
<1>13. UNCHANGED MessageIn
  BY <1>1 DEF MessageIn
<1> QED
  BY <1>6, <1>8, <1>9, <1>10, <1>11, <1>12, <1>13 DEF Promise!Encrypt, c

\* Acknowledging and abandoning: the pending message of the wire ends, and no
\* other message has that wire.
LEMMA FinishImplements ==
    ASSUME TypeInv, SendIdInv, NEW p \in Peer, NEW w \in Wire,
           Acknowledged(p, w) \/ Abandoned(p, w)
    PROVE  \/ Promise!Finish(p, w.cid, "acknowledged")
           \/ Promise!Finish(p, w.cid, "abandoned")
<1> DEFINE c == w.cid
           r == [wire |-> w, abandoned |-> TRUE]
<1>1. /\ c \in Cid /\ w \in outbox[p] /\ UNCHANGED <<inbox, seen>>
      /\ outbox' = [outbox EXCEPT ![p] = @ \ {w}]
  BY DEF Acknowledged, Abandoned, Wire
<1>2. /\ w.peer = p /\ w \notin acked /\ sendid[p][c] # None
      /\ sendid[p][c].wire = w /\ ~sendid[p][c].abandoned
  BY <1>1 DEF SendIdInv
<1>3. /\ MessageOut[p][c] # None /\ MessageOut[p][c].wire = w
      /\ MessageOut[p][c].status = "pending"
  <2>1. sendid[p][c] \in SendRecord
    BY <1>1, <1>2 DEF TypeInv, TypeOK
  <2>2. MessageOut[p][c] # None /\ MessageOut[p][c].wire = w
    BY <1>1, <1>2, <2>1, OutOf, ShownWire
  <2>3. MessageOut[p][c] = Shown(sendid[p][c], outbox[p])
    BY <1>1, OutOf
  <2>4. Shown(sendid[p][c], outbox[p]) = [wire |-> w, status |-> "pending"]
    BY <1>1, <1>2 DEF Shown
  <2>5. MessageOut[p][c].status = "pending"
    BY <2>3, <2>4
  <2> QED
    BY <2>2, <2>5
<1>4. UNCHANGED MessageIn
  BY <1>1 DEF MessageIn
<1>5. /\ outbox'[p] = outbox[p] \ {w}
      /\ \A q \in Peer : q # p => outbox'[q] = outbox[q]
  BY <1>1 DEF TypeInv, TypeOK
<1>6. ASSUME NEW q \in Peer, NEW d \in Cid, q # p \/ d # c
      PROVE  Shown(sendid[q][d], outbox'[q]) = Shown(sendid[q][d], outbox[q])
  <2>1. sendid[q][d] # None => sendid[q][d].wire # w
    BY <1>2, <1>6 DEF SendIdInv
  <2> QED
    BY <1>5, <2>1 DEF Shown
<1>7. CASE Acknowledged(p, w)
  <2> DEFINE v == [wire |-> w, status |-> "acknowledged"]
  <2>1. sendid' = sendid
    BY <1>7 DEF Acknowledged
  <2>2. MessageOut'[p][c] = v
    <3>1. w \notin outbox'[p]
      BY <1>5
    <3>2. Shown(sendid[p][c], outbox'[p]) = v
      BY <1>2, <3>1 DEF Shown
    <3> QED
      BY <1>1, <2>1, <3>2, OutOfNext
  <2>3. ASSUME NEW q \in Peer, NEW d \in Cid, q # p \/ d # c
        PROVE  MessageOut'[q][d] = MessageOut[q][d]
    <3>1. sendid'[q][d] = sendid[q][d]
      BY <2>1, <2>3
    <3>2. Shown(sendid[q][d], outbox'[q]) = Shown(sendid[q][d], outbox[q])
      BY <1>6, <2>3
    <3> QED
      BY <3>1, <3>2, OutOf, OutOfNext
  <2>4. MessageOut' = [MessageOut EXCEPT ![p][c] = v]
    <3> HIDE DEF c, v
    <3>1. \A q \in Peer, d \in Cid :
             MessageOut'[q][d] = IF q = p /\ d = c THEN v ELSE MessageOut[q][d]
      BY <2>2, <2>3
    <3> QED
      BY <1>1, <3>1, OutChange
  <2> QED
    BY <1>3, <1>4, <2>4 DEF Promise!Finish
<1>8. CASE Abandoned(p, w)
  <2> DEFINE v == [wire |-> w, status |-> "abandoned"]
  <2>1. sendid' = [sendid EXCEPT ![p][c] = r]
    BY <1>8 DEF Abandoned
  <2>2. r \in SendRecord /\ r.wire = w /\ r.abandoned
    BY DEF SendRecord
  <2> HIDE DEF r
  <2>3. /\ sendid'[p][c] = r
        /\ \A q \in Peer, d \in Cid : q # p \/ d # c => sendid'[q][d] = sendid[q][d]
    BY <1>1, <2>1 DEF TypeInv, TypeOK
  <2>4. r # None
    BY <2>2, ConstantsAssumption
  <2>5. MessageOut'[p][c] = v
    BY <1>1, <2>2, <2>3, <2>4, OutOfNext DEF Shown
  <2>6. ASSUME NEW q \in Peer, NEW d \in Cid, q # p \/ d # c
        PROVE  MessageOut'[q][d] = MessageOut[q][d]
    <3>1. sendid'[q][d] = sendid[q][d]
      BY <2>3, <2>6
    <3>2. Shown(sendid[q][d], outbox'[q]) = Shown(sendid[q][d], outbox[q])
      BY <1>6, <2>6
    <3> QED
      BY <3>1, <3>2, OutOf, OutOfNext
  <2>7. MessageOut' = [MessageOut EXCEPT ![p][c] = v]
    <3> HIDE DEF c, v
    <3>1. \A q \in Peer, d \in Cid :
             MessageOut'[q][d] = IF q = p /\ d = c THEN v ELSE MessageOut[q][d]
      BY <2>5, <2>6
    <3> QED
      BY <1>1, <3>1, OutChange
  <2> QED
    BY <1>3, <1>4, <2>7 DEF Promise!Finish
<1> QED
  BY <1>7, <1>8

\* Accepting: the message was recorded neither as undelivered nor as seen.
LEMMA AcceptImplements ==
    ASSUME TypeInv, NEW p \in Peer, NEW m \in Msg,
           m \notin inbox[p] \cup seen[p],
           inbox' = [inbox EXCEPT ![p] = @ \cup {m}],
           UNCHANGED <<seen, outbox, sendid>>
    PROVE  Promise!Accept(p)
<1>1. inbox \in [Peer -> SUBSET Msg] /\ seen \in [Peer -> SUBSET Msg]
  BY DEF TypeInv, TypeOK
<1>2. inbox'[p] = inbox[p] \cup {m}
  BY <1>1
<1>3. MessageIn' = [MessageIn EXCEPT ![p] =
                      [undelivered |-> inbox[p] \cup {m}, delivered |-> seen[p]]]
  BY <1>1 DEF MessageIn
<1>4. /\ MessageIn[p].undelivered = inbox[p] /\ MessageIn[p].delivered = seen[p]
      /\ MessageIn'[p].undelivered = inbox[p] \cup {m}
  BY <1>2 DEF MessageIn
<1>5. UNCHANGED MessageOut
  BY DEF MessageOut, PriorSend
<1> QED
  BY <1>3, <1>4, <1>5 DEF Promise!Accept

\* acknowledge_incoming is Deliver.
LEMMA DeliverImplements ==
    ASSUME TypeInv, NEW p \in Peer, NEW m \in Msg, Delivered(p, m)
    PROVE  Promise!Deliver(p)
<1>1. inbox \in [Peer -> SUBSET Msg] /\ seen \in [Peer -> SUBSET Msg]
  BY DEF TypeInv, TypeOK
<1>2. /\ m \in inbox[p] /\ UNCHANGED <<outbox, sendid>>
      /\ inbox' = [inbox EXCEPT ![p] = @ \ {m}]
      /\ seen' = [seen EXCEPT ![p] = @ \cup {m}]
  BY DEF Delivered
<1>3. MessageIn' = [MessageIn EXCEPT ![p] =
                      [undelivered |-> inbox[p] \ {m},
                       delivered |-> seen[p] \cup {m}]]
  BY <1>1, <1>2 DEF MessageIn
<1>4. MessageIn[p].undelivered = inbox[p] /\ MessageIn[p].delivered = seen[p]
  BY DEF MessageIn
<1>5. UNCHANGED MessageOut
  BY <1>2 DEF MessageOut, PriorSend
<1> QED
  BY <1>2, <1>3, <1>4, <1>5 DEF Promise!Deliver

\* The initial states map to the initial state of Lifecycle.
LEMMA InitImplements == Init => Promise!Init
  BY DEF Init, Promise!Init, MessageOut, MessageIn, PriorSend

\* Every step maps to a step of Lifecycle or to a stuttering step.
LEMMA StepImplements ==
    SafetyInv /\ [Next]_vars => [Promise!Next]_<<MessageOut, MessageIn>>
<1> SUFFICES ASSUME SafetyInv, [Next]_vars
             PROVE  Promise!Next \/ UNCHANGED <<MessageOut, MessageIn>>
  OBVIOUS
<1>1. TypeInv /\ SendIdInv /\ OpInv /\ RemovalInv
  BY DEF SafetyInv
<1>2. ASSUME UNCHANGED <<outbox, sendid, inbox, seen>>
      PROVE  UNCHANGED <<MessageOut, MessageIn>>
  BY <1>2 DEF MessageOut, MessageIn, PriorSend
<1>3. CASE UNCHANGED vars
  BY <1>2, <1>3 DEF vars, store
<1>4. CASE Next
  <2>1. Effect
    BY <1>1, <1>4, StepEffect
  <2>2. CASE Nothing \/ KeyDrawn \/ PrekeysReplaced
    BY <1>2, <2>2 DEF Nothing, KeyDrawn, PrekeysReplaced
  <2>3. ASSUME NEW p \in Peer, Created(p) \/ Gone(p)
        PROVE  UNCHANGED <<MessageOut, MessageIn>>
    BY <1>2, <2>3 DEF Created, Gone
  <2>4. ASSUME NEW p \in Peer, NEW hs \in Handshakes, NEW m \in Msg,
               Promoted(p, hs, m)
        PROVE  Promise!Next
    BY <1>1, <2>4, AcceptImplements DEF Promoted, Promise!Next
  <2>5. ASSUME NEW p \in Peer, NEW s \in Session, NEW m \in Msg,
               Received(p, s, m)
        PROVE  Promise!Next
    BY <1>1, <2>5, AcceptImplements DEF Received, Promise!Next
  <2>6. ASSUME NEW p \in Peer, NEW s \in Session, NEW w \in Wire, Sent(p, s, w)
        PROVE  Promise!Next
    <3>1. w.cid \in Cid
      BY DEF Wire
    <3> QED
      BY <1>1, <2>6, <3>1, SentImplements DEF Promise!Next
  <2>7. ASSUME NEW p \in Peer, NEW w \in Wire,
               Acknowledged(p, w) \/ Abandoned(p, w)
        PROVE  Promise!Next
    <3>1. w.cid \in Cid
      BY DEF Wire
    <3> QED
      BY <1>1, <2>7, <3>1, FinishImplements DEF Promise!Next
  <2>8. ASSUME NEW p \in Peer, NEW m \in Msg, Delivered(p, m) PROVE Promise!Next
    BY <1>1, <2>8, DeliverImplements DEF Promise!Next
  <2> QED
    BY <2>1, <2>2, <2>3, <2>4, <2>5, <2>6, <2>7, <2>8 DEF Effect
<1> QED
  BY <1>3, <1>4

\* Durable messaging implements the life cycle of module Lifecycle: every
\* step of every instance is, for each message, a step forward or none.
THEOREM Implements == Spec => ImplementsLifecycle
<1>1. Init => Promise!Init
  BY InitImplements
<1>2. SafetyInv /\ [Next]_vars => [Promise!Next]_<<MessageOut, MessageIn>>
  BY StepImplements
<1> QED
  BY <1>1, <1>2, Safety, PTL DEF Spec, ImplementsLifecycle, Promise!Spec,
     Promise!vars

-----------------------------------------------------------------------------
(* Sessions only move forward.                                             *)

\* What a session record may become in one step.
Forward(s, new, box) ==
    IF new = None
    THEN ~HasReceived(s) /\ box = {}
    ELSE new.sid = s.sid /\ Generation(new) = Generation(s) + 1

\* A message not decrypted before adds one to the generation.
LEMMA ReceiveAdvances ==
    ASSUME NEW s \in Session, NEW k \in 1..MaxIn, k \notin s.rcvd
    PROVE  Generation([s EXCEPT !.rcvd = @ \cup {k}]) = Generation(s) + 1
<1>1. MaxIn \in Nat /\ s.rcvd \subseteq 1..MaxIn /\ s.sent \in Nat
  BY ConstantsAssumption DEF Session
<1>2. IsFiniteSet(1..MaxIn)
  BY <1>1, FS_Interval
<1>3. IsFiniteSet(s.rcvd)
  BY <1>1, <1>2, FS_Subset
<1>4. /\ Cardinality(s.rcvd \cup {k}) = Cardinality(s.rcvd) + 1
      /\ Cardinality(s.rcvd) \in Nat
  BY <1>3, FS_AddElement, FS_CardinalityType
<1>5. /\ [s EXCEPT !.rcvd = @ \cup {k}].sent = s.sent
      /\ [s EXCEPT !.rcvd = @ \cup {k}].rcvd = s.rcvd \cup {k}
  BY DEF Session
<1> QED
  BY <1>1, <1>4, <1>5 DEF Generation

\* An encryption adds one to the generation.
LEMMA SendAdvances ==
    ASSUME NEW s \in Session
    PROVE  Generation([s EXCEPT !.sent = @ + 1]) = Generation(s) + 1
<1>1. MaxIn \in Nat /\ s.rcvd \subseteq 1..MaxIn /\ s.sent \in Nat
  BY ConstantsAssumption DEF Session
<1>2. IsFiniteSet(1..MaxIn)
  BY <1>1, FS_Interval
<1>3. Cardinality(s.rcvd) \in Nat
  BY <1>1, <1>2, FS_Subset, FS_CardinalityType
<1>4. /\ [s EXCEPT !.sent = @ + 1].sent = s.sent + 1
      /\ [s EXCEPT !.sent = @ + 1].rcvd = s.rcvd
  BY DEF Session
<1> QED
  BY <1>1, <1>3, <1>4 DEF Generation

\* Every effect that changes a session record moves it forward.
LEMMA EffectForward ==
    ASSUME TypeInv, SessionInv, Effect, NEW p \in Peer,
           session[p] # None, session'[p] # session[p]
    PROVE  Forward(session[p], session'[p], outbox[p])
<1> USE DEF history
<1>1. session \in [Peer -> Session \cup {None}]
  BY DEF TypeInv, TypeOK
<1>2. CASE \/ Nothing \/ KeyDrawn \/ PrekeysReplaced
           \/ \E q \in Peer : \/ Created(q)
                              \/ \E hs \in Handshakes, m \in Msg : Promoted(q, hs, m)
                              \/ \E w \in Wire : Acknowledged(q, w) \/ Abandoned(q, w)
                              \/ \E m \in Msg : Delivered(q, m)
  BY <1>1, <1>2 DEF Nothing, KeyDrawn, PrekeysReplaced, Created, Promoted,
                    Acknowledged, Abandoned, Delivered
<1>3. ASSUME NEW q \in Peer, Gone(q)
      PROVE  Forward(session[p], session'[p], outbox[p])
  BY <1>1, <1>3 DEF Gone, Forward
<1>4. ASSUME NEW q \in Peer, NEW s \in Session, NEW m \in Msg, Received(q, s, m)
      PROVE  Forward(session[p], session'[p], outbox[p])
  <2> DEFINE s1 == [s EXCEPT !.rcvd = @ \cup {m.k}]
  <2>1. session[p] = s /\ session'[p] = s1 /\ m.k \notin s.rcvd
    BY <1>1, <1>4 DEF Received, Authenticates
  <2>2. s1.sid = s.sid /\ s1 \in Session /\ m.k \in 1..MaxIn
    BY DEF Session, Msg
  <2>3. Generation(s1) = Generation(s) + 1
    BY <2>1, <2>2, ReceiveAdvances
  <2> HIDE DEF s1
  <2> QED
    BY <2>1, <2>2, <2>3, ConstantsAssumption DEF Forward
<1>5. ASSUME NEW q \in Peer, NEW s \in Session, NEW w \in Wire, Sent(q, s, w)
      PROVE  Forward(session[p], session'[p], outbox[p])
  <2> DEFINE s1 == [s EXCEPT !.sent = @ + 1]
  <2>1. session[p] = s /\ session'[p] = s1
    BY <1>1, <1>5 DEF Sent
  <2>2. s1.sid = s.sid /\ s1 \in Session
    BY DEF Session
  <2>3. Generation(s1) = Generation(s) + 1
    BY SendAdvances
  <2> HIDE DEF s1
  <2> QED
    BY <2>1, <2>2, <2>3, ConstantsAssumption DEF Forward
<1> QED
  BY <1>2, <1>3, <1>4, <1>5 DEF Effect

\* A stored session is never replaced by another one or put back: it advances
\* by one message at a time, or goes while it has received nothing and its
\* peer has no pending message, whatever instance sent in between.
THEOREM SessionNeverReplacedHolds == Spec => SessionNeverReplaced
<1>1. ASSUME SafetyInv, [Next]_vars
      PROVE  [\A p \in Peer : session[p] # None /\ session'[p] # session[p] =>
                IF session'[p] = None
                THEN ~HasReceived(session[p]) /\ outbox[p] = {}
                ELSE /\ session'[p].sid = session[p].sid
                     /\ Generation(session'[p]) = Generation(session[p]) + 1]_vars
  <2>1. CASE UNCHANGED vars
    BY <2>1
  <2>2. CASE Next
    <3>1. TypeInv /\ SessionInv /\ Effect
      BY <1>1, <2>2, StepEffect DEF SafetyInv
    <3>2. ASSUME NEW p \in Peer, session[p] # None, session'[p] # session[p]
          PROVE  Forward(session[p], session'[p], outbox[p])
      BY <3>1, <3>2, EffectForward
    <3> QED
      BY <3>2 DEF Forward
  <2> QED
    BY <1>1, <2>1, <2>2
<1> QED
  BY <1>1, Safety, PTL DEF Spec, SessionNeverReplaced

-----------------------------------------------------------------------------
(* What recover finds.                                                     *)

\* What an applied commit leaves in the store for good: the send-id record of
\* a send, the inbox or seen record of a message received.
Kept(u) ==
    /\ u.kind = "send" =>
          /\ ~u.legacy /\ u.cid \in Cid
          /\ u.took => sendid[u.peer][u.cid] # None
    /\ u.kind \in {"receive", "promote"} /\ u.took =>
          u.msg \in inbox[u.peer] \cup seen[u.peer]

MarkInv ==
    \A i \in Instance, h \in Handle :
        unresolved[i][h] # None =>
            HandleOf[unresolved[i][h].peer] = h /\ Kept(unresolved[i][h])

\* What the operation o knows of the mark u it resolves.  When the inbox read
\* did not find the message of an applied commit, the seen read will.
Recovering(o, u) ==
    /\ o.pc \in {"recover_seen", "recover_load"} => u # None
    /\ o.pc = "recover_seen" =>
          /\ u.kind \in {"receive", "promote"}
          /\ u.took => o.found \/ u.msg \in seen[u.peer]
    /\ o.pc = "recover_load" => (u.kind # "create" /\ u.took => o.found)
    /\ o.pc = "recovered" => (o.pend.kind # "create" /\ o.pend.took => o.found)

RecoverInv ==
    \A i \in Instance :
        op[i].pc # "idle" => Recovering(op[i], unresolved[i][op[i].h])

\* No effect takes away a send-id or a seen record, and an inbox record goes
\* only where it becomes a seen record.
LEMMA StoreKeeps ==
    ASSUME TypeInv, Effect
    PROVE  /\ \A p \in Peer, c \in Cid : sendid[p][c] # None => sendid'[p][c] # None
           /\ \A p \in Peer : /\ seen[p] \subseteq seen'[p]
                              /\ inbox[p] \cup seen[p] \subseteq inbox'[p] \cup seen'[p]
<1> USE DEF history
<1>1. /\ sendid \in [Peer -> [Cid -> SendRecord \cup {None}]]
      /\ inbox \in [Peer -> SUBSET Msg] /\ seen \in [Peer -> SUBSET Msg]
  BY DEF TypeInv, TypeOK
<1>2. \A w \in Wire, b \in BOOLEAN : [wire |-> w, abandoned |-> b] # None
  BY ConstantsAssumption DEF SendRecord
<1>3. \A p \in Peer, c \in Cid : sendid[p][c] # None => sendid'[p][c] # None
  <2>1. CASE UNCHANGED sendid
    BY <2>1
  <2>2. ASSUME NEW p \in Peer, NEW w \in Wire, NEW b \in BOOLEAN,
               sendid' = [sendid EXCEPT ![p][w.cid] = [wire |-> w, abandoned |-> b]]
        PROVE  \A q \in Peer, c \in Cid : sendid[q][c] # None => sendid'[q][c] # None
    <3>1. PICK r : r = [wire |-> w, abandoned |-> b]
      OBVIOUS
    <3>2. r # None /\ w.cid \in Cid
      BY <1>2, <3>1 DEF Wire
    <3>3. sendid' = [sendid EXCEPT ![p][w.cid] = r]
      BY <2>2, <3>1
    <3> QED
      BY <1>1, <3>2, <3>3
  <2>3. CASE \/ Nothing \/ KeyDrawn \/ PrekeysReplaced
             \/ \E p \in Peer :
                   \/ Created(p) \/ Gone(p)
                   \/ \E hs \in Handshakes, m \in Msg : Promoted(p, hs, m)
                   \/ \E s \in Session, m \in Msg : Received(p, s, m)
                   \/ \E w \in Wire : Acknowledged(p, w)
                   \/ \E m \in Msg : Delivered(p, m)
    BY <2>1, <2>3 DEF Nothing, KeyDrawn, PrekeysReplaced, Created, Gone,
       Promoted, Received, Acknowledged, Delivered
  <2>4. ASSUME NEW p \in Peer, NEW s \in Session, NEW w \in Wire, Sent(p, s, w)
        PROVE  \A q \in Peer, c \in Cid : sendid[q][c] # None => sendid'[q][c] # None
    BY <2>2, <2>4 DEF Sent
  <2>5. ASSUME NEW p \in Peer, NEW w \in Wire, Abandoned(p, w)
        PROVE  \A q \in Peer, c \in Cid : sendid[q][c] # None => sendid'[q][c] # None
    BY <2>2, <2>5 DEF Abandoned
  <2> QED
    BY <2>3, <2>4, <2>5 DEF Effect
<1>4. \A p \in Peer : /\ seen[p] \subseteq seen'[p]
                      /\ inbox[p] \cup seen[p] \subseteq inbox'[p] \cup seen'[p]
  <2>1. CASE UNCHANGED <<inbox, seen>>
    BY <2>1
  <2>2. ASSUME NEW p \in Peer, NEW m \in Msg,
               inbox' = [inbox EXCEPT ![p] = @ \cup {m}], seen' = seen
        PROVE  \A q \in Peer : /\ seen[q] \subseteq seen'[q]
                               /\ inbox[q] \cup seen[q] \subseteq inbox'[q] \cup seen'[q]
    BY <1>1, <2>2
  <2>3. ASSUME NEW p \in Peer, NEW m \in Msg, Delivered(p, m)
        PROVE  \A q \in Peer : /\ seen[q] \subseteq seen'[q]
                               /\ inbox[q] \cup seen[q] \subseteq inbox'[q] \cup seen'[q]
    BY <1>1, <2>3 DEF Delivered
  <2>4. CASE \/ Nothing \/ KeyDrawn \/ PrekeysReplaced
             \/ \E p \in Peer :
                   \/ Created(p) \/ Gone(p)
                   \/ \E s \in Session, w \in Wire : Sent(p, s, w)
                   \/ \E w \in Wire : Acknowledged(p, w) \/ Abandoned(p, w)
    BY <2>1, <2>4 DEF Nothing, KeyDrawn, PrekeysReplaced, Created, Gone, Sent,
       Acknowledged, Abandoned
  <2>5. ASSUME NEW p \in Peer, NEW m \in Msg,
               \/ \E hs \in Handshakes : Promoted(p, hs, m)
               \/ \E s \in Session : Received(p, s, m)
        PROVE  inbox' = [inbox EXCEPT ![p] = @ \cup {m}] /\ seen' = seen
    BY <2>5 DEF Promoted, Received
  <2> QED
    BY <2>2, <2>3, <2>4, <2>5 DEF Effect
<1> QED
  BY <1>3, <1>4

\* What a mark stands for stays in the store.
LEMMA KeptStep ==
    ASSUME TypeInv, Effect, NEW u \in PendingRecord, Kept(u)
    PROVE  Kept(u)'
<1>1. u.peer \in Peer
  BY DEF PendingRecord
<1> QED
  BY <1>1, StoreKeeps DEF Kept

\* What a recovery in progress knows stays true.
LEMMA RecoveringStep ==
    ASSUME TypeInv, Effect, NEW o, NEW u \in PendingRecord \cup {None},
           Recovering(o, u)
    PROVE  Recovering(o, u)'
<1>1. u # None => u.peer \in Peer
  BY DEF PendingRecord
<1> QED
  BY <1>1, StoreKeeps DEF Recovering

-----------------------------------------------------------------------------
(* Marks.                                                                  *)

\* An unknown outcome leaves the mark u, or the map is as it was.
LEMMA MarkSet ==
    ASSUME TypeInv, MarkInv, Effect, NEW i \in Instance, NEW h \in Handle, NEW u,
           \/ unresolved' = unresolved
           \/ unresolved' = [unresolved EXCEPT ![i][h] = u],
           u # None => HandleOf[u.peer] = h /\ Kept(u)'
    PROVE  MarkInv'
<1>1. unresolved \in [Instance -> [Handle -> PendingRecord \cup {None}]]
  BY DEF TypeInv, TypeOK
<1> SUFFICES ASSUME NEW j \in Instance, NEW g \in Handle, unresolved'[j][g] # None
             PROVE  HandleOf[unresolved'[j][g].peer] = g /\ Kept(unresolved[j][g])'
  BY DEF MarkInv
<1>2. PICK v : v = unresolved'[j][g]
  OBVIOUS
<1>3. CASE v = unresolved[j][g]
  <2>1. v \in PendingRecord /\ HandleOf[v.peer] = g /\ Kept(v)
    BY <1>1, <1>2, <1>3 DEF MarkInv
  <2>2. Kept(v)'
    BY <2>1, KeptStep
  <2> QED
    BY <1>2, <2>1, <2>2
<1>4. CASE v # unresolved[j][g]
  <2>1. j = i /\ g = h /\ v = u
    BY <1>1, <1>2, <1>4
  <2> QED
    BY <1>2, <2>1
<1> QED
  BY <1>3, <1>4

\* create_session sets or removes the mark of a creation.
LEMMA CreateMarks ==
    ASSUME TypeInv, MarkInv, Effect, NEW i \in Instance, NEW p \in Peer,
           CreateSession(i, p)
    PROVE  MarkInv'
<1>1. HandleOf[p] \in Handle
  BY ConstantsAssumption
<1>2. PICK out \in Outcome :
        unresolved' = [unresolved EXCEPT ![i][HandleOf[p]] =
            IF out = "ok" THEN None
            ELSE Pending("create", p, None, None, FALSE, Applied(out))]
  BY DEF CreateSession
<1>3. PICK u : u = IF out = "ok" THEN None
                   ELSE Pending("create", p, None, None, FALSE, Applied(out))
  OBVIOUS
<1>4. u # None => u.peer = p /\ u.kind = "create"
  BY <1>3 DEF Pending
<1>5. u # None => HandleOf[u.peer] = HandleOf[p] /\ Kept(u)'
  BY <1>4 DEF Kept
<1>6. unresolved' = [unresolved EXCEPT ![i][HandleOf[p]] = u]
  BY <1>2, <1>3
<1> QED
  BY <1>1, <1>5, <1>6, MarkSet

\* A promotion of unknown outcome: if it was applied, its message is recorded.
LEMMA PromoteMarks ==
    ASSUME TypeInv, OpInv, MarkInv, Effect, NEW i \in Instance, Promote(i)
    PROVE  MarkInv'
<1>1. /\ op[i].h \in Handle /\ op[i].peer \in Peer /\ op[i].msg \in Msg
      /\ HandleOf[op[i].peer] = op[i].h
      /\ inbox \in [Peer -> SUBSET Msg]
  BY DEF Promote, TypeInv, TypeOK, OpShape, OpInv, OpFacts
<1>2. CASE unresolved' = unresolved
  BY <1>1, <1>2, MarkSet DEF Kept
<1>3. CASE unresolved' # unresolved
  <2>1. PICK out \in Outcome :
          /\ Applied(out) =>
                inbox' = [inbox EXCEPT ![op[i].peer] = @ \cup {op[i].msg}]
          /\ Remember(i, op[i].h, out, "promote", op[i].peer, None, op[i].msg, FALSE)
    BY <1>3 DEF Promote, Return
  <2>2. PICK u : u = Pending("promote", op[i].peer, None, op[i].msg, FALSE,
                             Applied(out))
    OBVIOUS
  <2>3. /\ u.kind = "promote" /\ u.peer = op[i].peer /\ u.msg = op[i].msg
        /\ u.took = Applied(out)
    BY <2>2 DEF Pending
  <2>4. Kept(u)'
    BY <1>1, <2>1, <2>3 DEF Kept
  <2>5. unresolved' = [unresolved EXCEPT ![i][op[i].h] = u]
    BY <1>3, <2>1, <2>2 DEF Remember
  <2> QED
    BY <1>1, <2>3, <2>4, <2>5, MarkSet
<1> QED
  BY <1>2, <1>3

\* A receive of unknown outcome: if it was applied, its message is recorded.
LEMMA ReceiveMarks ==
    ASSUME TypeInv, OpInv, MarkInv, Effect, NEW i \in Instance, ReceiveCommit(i)
    PROVE  MarkInv'
<1>1. /\ op[i].h \in Handle /\ op[i].peer \in Peer /\ op[i].msg \in Msg
      /\ HandleOf[op[i].peer] = op[i].h
      /\ inbox \in [Peer -> SUBSET Msg]
  BY DEF ReceiveCommit, TypeInv, TypeOK, OpShape, OpInv, OpFacts
<1>2. CASE unresolved' = unresolved
  BY <1>1, <1>2, MarkSet DEF Kept
<1>3. CASE unresolved' # unresolved
  <2>1. PICK out \in Outcome :
          /\ Applied(out) =>
                inbox' = [inbox EXCEPT ![op[i].peer] = @ \cup {op[i].msg}]
          /\ Remember(i, op[i].h, out, "receive", op[i].peer, None, op[i].msg,
                      IsLegacyUnconfirmed(op[i].base))
    BY <1>3 DEF ReceiveCommit, Return
  <2>2. PICK u : u = Pending("receive", op[i].peer, None, op[i].msg,
                             IsLegacyUnconfirmed(op[i].base), Applied(out))
    OBVIOUS
  <2>3. /\ u.kind = "receive" /\ u.peer = op[i].peer /\ u.msg = op[i].msg
        /\ u.took = Applied(out)
    BY <2>2 DEF Pending
  <2>4. Kept(u)'
    BY <1>1, <2>1, <2>3 DEF Kept
  <2>5. unresolved' = [unresolved EXCEPT ![i][op[i].h] = u]
    BY <1>3, <2>1, <2>2 DEF Remember
  <2> QED
    BY <1>1, <2>3, <2>4, <2>5, MarkSet
<1> QED
  BY <1>2, <1>3

\* A send of unknown outcome: if it was applied, its send-id record is there.
LEMMA SendMarks ==
    ASSUME TypeInv, OpInv, MarkInv, Effect, NEW i \in Instance, SendCommit(i)
    PROVE  MarkInv'
<1>1. /\ op[i].h \in Handle /\ op[i].peer \in Peer /\ op[i].cid \in Cid
      /\ HandleOf[op[i].peer] = op[i].h /\ op[i].base \in Session
      /\ sendid \in [Peer -> [Cid -> SendRecord \cup {None}]]
  BY DEF SendCommit, TypeInv, TypeOK, OpShape, OpInv, OpFacts
<1>2. CASE unresolved' = unresolved
  BY <1>1, <1>2, MarkSet DEF Kept
<1>3. CASE unresolved' # unresolved
  <2>1. PICK out \in Outcome :
          /\ Applied(out) => sendid' = [sendid EXCEPT ![op[i].peer][op[i].cid] =
                                [wire |-> StagedWire(i), abandoned |-> FALSE]]
          /\ Remember(i, op[i].h, out, "send", op[i].peer, op[i].cid, None, FALSE)
    BY <1>3 DEF SendCommit, Return
  <2>2. PICK u : u = Pending("send", op[i].peer, op[i].cid, None, FALSE,
                             Applied(out))
    OBVIOUS
  <2>3. /\ u.kind = "send" /\ u.peer = op[i].peer /\ u.cid = op[i].cid
        /\ u.took = Applied(out) /\ ~u.legacy
    BY <2>2 DEF Pending
  <2>4. PICK r : r = [wire |-> StagedWire(i), abandoned |-> FALSE]
    OBVIOUS
  <2>5. StagedWire(i) \in Wire
    BY <1>1 DEF StagedWire, Wire, Session
  <2>6. r # None
    <3>1. r \in SendRecord
      BY <2>4, <2>5 DEF SendRecord
    <3> QED
      BY <3>1, ConstantsAssumption
  <2>7. Applied(out) => sendid'[op[i].peer][op[i].cid] # None
    BY <1>1, <2>1, <2>4, <2>6
  <2>8. Kept(u)'
    BY <1>1, <2>3, <2>7 DEF Kept
  <2>9. unresolved' = [unresolved EXCEPT ![i][op[i].h] = u]
    BY <1>3, <2>1, <2>2 DEF Remember
  <2> QED
    BY <1>1, <2>3, <2>8, <2>9, MarkSet
<1> QED
  BY <1>2, <1>3

\* Every step keeps the marks true.
LEMMA MarkStep ==
    ASSUME TypeInv, OpInv, MarkInv, Effect, Next
    PROVE  MarkInv'
<1>1. CASE UNCHANGED unresolved
  <2> SUFFICES ASSUME NEW j \in Instance, NEW g \in Handle,
                      unresolved'[j][g] # None
               PROVE  /\ HandleOf[unresolved'[j][g].peer] = g
                      /\ Kept(unresolved[j][g])'
    BY DEF MarkInv
  <2>1. PICK v : v = unresolved[j][g]
    OBVIOUS
  <2>2. v \in PendingRecord /\ HandleOf[v.peer] = g /\ Kept(v)
    BY <1>1, <2>1 DEF MarkInv, TypeInv, TypeOK
  <2>3. Kept(v)'
    BY <2>2, KeptStep
  <2> QED
    BY <1>1, <2>1, <2>2, <2>3
<1>2. ASSUME NEW i \in Instance, NEW p \in Peer, CreateSession(i, p) PROVE MarkInv'
  BY <1>2, CreateMarks
<1>3. ASSUME NEW i \in Instance, Promote(i) \/ ReceiveCommit(i) \/ SendCommit(i)
      PROVE  MarkInv'
  BY <1>3, PromoteMarks, ReceiveMarks, SendMarks
<1>4. ASSUME NEW i \in Instance, RecoverLoad(i) PROVE MarkInv'
  <2>1. CASE Return(i)
    BY <1>1, <2>1 DEF Return
  <2>2. CASE ~Return(i)
    <3>1. op[i].h \in Handle
      BY <1>4 DEF RecoverLoad, TypeInv, OpShape
    <3>2. unresolved' = [unresolved EXCEPT ![i][op[i].h] = None]
      BY <1>4, <2>2 DEF RecoverLoad, Resolve
    <3>3. PICK u : u = None
      OBVIOUS
    <3> QED
      BY <3>1, <3>2, <3>3, MarkSet
  <2> QED
    BY <2>1, <2>2
<1>5. ASSUME NEW i \in Instance, Crash(i) PROVE MarkInv'
  <2>1. /\ unresolved \in [Instance -> [Handle -> PendingRecord \cup {None}]]
        /\ unresolved' = [unresolved EXCEPT ![i] = [h \in Handle |-> None]]
    BY <1>5 DEF Crash, TypeInv, TypeOK
  <2> SUFFICES ASSUME NEW j \in Instance, NEW g \in Handle,
                      unresolved'[j][g] # None
               PROVE  /\ HandleOf[unresolved'[j][g].peer] = g
                      /\ Kept(unresolved[j][g])'
    BY DEF MarkInv
  <2>2. PICK v : v = unresolved[j][g]
    OBVIOUS
  <2>3. unresolved'[j][g] = v
    BY <2>1, <2>2
  <2>4. v \in PendingRecord /\ HandleOf[v.peer] = g /\ Kept(v)
    BY <2>1, <2>2, <2>3 DEF MarkInv
  <2>5. Kept(v)'
    BY <2>4, KeptStep
  <2> QED
    BY <2>3, <2>4, <2>5
<1>6. ASSUME NEW i \in Instance,
             \/ \E hs \in Handshakes : ProvisionalBegin(i, hs)
             \/ \E h \in Handle, m \in Incoming : ReceiveBegin(i, h, m)
             \/ \E h \in Handle, c \in Cid : SendBegin(i, h, c)
             \/ \E h \in Handle : RemoveBegin(i, h) \/ RecoverBegin(i, h)
             \/ ProvisionalRecord(i) \/ RetireLoad(i) \/ RetireCommit(i)
             \/ FirstStage(i) \/ ReceiveStage(i) \/ SendStage(i)
             \/ RemoveCommit(i) \/ RecoverSeen(i) \/ RecoverReturn(i)
             \/ NotCommitted(i) \/ EstablishPrekeys(i)
             \/ \E h \in Handle, p \in Peer : \E m \in inbox[p] :
                   AcknowledgeIncoming(i, h, m)
             \/ \E h \in Handle, p \in Peer : \E w \in outbox[p] :
                   AcknowledgeOutgoing(i, h, w) \/ AbandonOutgoing(i, h, w)
      PROVE  UNCHANGED unresolved
  BY <1>6 DEF ProvisionalBegin, ReceiveBegin, SendBegin, RemoveBegin,
     RecoverBegin, ProvisionalRecord, RetireLoad, RetireCommit, FirstStage,
     ReceiveStage, SendStage, RemoveCommit, RecoverSeen, RecoverReturn,
     NotCommitted, EstablishPrekeys, AcknowledgeIncoming, AcknowledgeOutgoing,
     AbandonOutgoing, Return
<1> QED
  BY <1>1, <1>2, <1>3, <1>4, <1>5, <1>6 DEF Next

-----------------------------------------------------------------------------
(* Recoveries in progress.                                                 *)

\* Instance i moves to new, its marks are as they were, and so are the
\* operations of the others.
LEMMA RecoverGoto ==
    ASSUME TypeInv, RecoverInv, Effect, NEW i \in Instance, NEW new,
           Goto(i, new), UNCHANGED unresolved,
           new.pc # "idle" => Recovering(new, unresolved[i][new.h])'
    PROVE  RecoverInv'
<1>1. /\ op \in [Instance -> OpRecord]
      /\ unresolved \in [Instance -> [Handle -> PendingRecord \cup {None}]]
      /\ \A j \in Instance : op[j].pc # "idle" => op[j].h \in Handle
  BY DEF TypeInv, TypeOK, OpShape
<1> SUFFICES ASSUME NEW j \in Instance, op'[j].pc # "idle"
             PROVE  Recovering(op[j], unresolved[j][op[j].h])'
  BY DEF RecoverInv
<1>2. CASE j = i
  BY <1>1, <1>2 DEF Goto
<1>3. CASE j # i
  <2>1. op'[j] = op[j]
    BY <1>1, <1>3 DEF Goto
  <2>2. PICK o, u : o = op[j] /\ u = unresolved[j][op[j].h]
    OBVIOUS
  <2>3. u \in PendingRecord \cup {None} /\ Recovering(o, u)
    BY <1>1, <2>1, <2>2 DEF RecoverInv
  <2>4. Recovering(o, u)'
    BY <2>3, RecoveringStep
  <2> QED
    BY <2>1, <2>2, <2>4
<1> QED
  BY <1>2, <1>3

\* Instance i becomes idle, or goes on with an operation that is no recovery.
LEMMA RecoverOther ==
    ASSUME TypeInv, RecoverInv, Effect, NEW i \in Instance, NEW new,
           Goto(i, new),
           \A j \in Instance : j # i => unresolved'[j] = unresolved[j],
           new.pc \notin {"recover_seen", "recover_load", "recovered"}
    PROVE  RecoverInv'
<1>1. /\ op \in [Instance -> OpRecord]
      /\ unresolved \in [Instance -> [Handle -> PendingRecord \cup {None}]]
      /\ \A j \in Instance : op[j].pc # "idle" => op[j].h \in Handle
  BY DEF TypeInv, TypeOK, OpShape
<1> SUFFICES ASSUME NEW j \in Instance, op'[j].pc # "idle"
             PROVE  Recovering(op[j], unresolved[j][op[j].h])'
  BY DEF RecoverInv
<1>2. CASE j = i
  <2>1. op'[j] = new
    BY <1>1, <1>2 DEF Goto
  <2> QED
    BY <2>1 DEF Recovering
<1>3. CASE j # i
  <2>1. op'[j] = op[j] /\ unresolved'[j] = unresolved[j]
    BY <1>1, <1>3 DEF Goto
  <2>2. PICK o, u : o = op[j] /\ u = unresolved[j][op[j].h]
    OBVIOUS
  <2>3. u \in PendingRecord \cup {None} /\ Recovering(o, u)
    BY <1>1, <2>1, <2>2 DEF RecoverInv
  <2>4. Recovering(o, u)'
    BY <2>3, RecoveringStep
  <2> QED
    BY <2>1, <2>2, <2>4
<1> QED
  BY <1>2, <1>3

\* An operation that is over holds nothing to be true of a recovery.
LEMMA RecoverIdle ==
    ASSUME TypeInv, RecoverInv, Effect, NEW i \in Instance, Goto(i, Idle),
           \A j \in Instance : j # i => unresolved'[j] = unresolved[j]
    PROVE  RecoverInv'
<1>1. Idle.pc = "idle"
  BY DEF Idle
<1> QED
  BY <1>1, RecoverOther

\* recover's first read: the artifact of an applied commit is found, or it is
\* a message acknowledged already, which the next read finds.
LEMMA RecoverBegins ==
    ASSUME TypeInv, MarkInv, RecoverInv, Effect, NEW i \in Instance,
           NEW h \in Handle, RecoverBegin(i, h)
    PROVE  RecoverInv'
<1>1. PICK u : u = unresolved[i][h]
  OBVIOUS
<1>2. u \in PendingRecord /\ Kept(u) /\ u # None
  BY <1>1 DEF RecoverBegin, MarkInv, TypeInv, TypeOK
<1>3. u.kind \in {"create", "promote", "send", "receive"}
  BY <1>2 DEF PendingRecord
<1>4. PICK found :
        found = (\/ u.kind = "send" /\ sendid[u.peer][u.cid] # None
                 \/ u.kind = "create" /\ handles[h] # None
                 \/ u.kind \in {"receive", "promote"} /\ u.msg \in inbox[u.peer])
  OBVIOUS
<1>5. PICK new : new = [Idle EXCEPT
          !.pc = IF u.kind \in {"send", "create"} THEN "recover_load"
                                                  ELSE "recover_seen",
          !.h = h, !.found = found]
  OBVIOUS
<1>6. Goto(i, new) /\ UNCHANGED <<unresolved, seen>>
  BY <1>1, <1>4, <1>5 DEF RecoverBegin, store
<1>7. /\ new.h = h /\ new.found = found
      /\ new.pc = IF u.kind \in {"send", "create"} THEN "recover_load"
                                                   ELSE "recover_seen"
  BY <1>5 DEF Idle
<1>8. Recovering(new, u)
  BY <1>2, <1>3, <1>4, <1>7 DEF Recovering, Kept
<1>9. Recovering(new, u)'
  BY <1>2, <1>8, RecoveringStep
<1>10. Recovering(new, unresolved[i][new.h])'
  BY <1>1, <1>6, <1>7, <1>9
<1> QED
  BY <1>6, <1>10, RecoverGoto

\* recover's second read.
LEMMA RecoverReads ==
    ASSUME TypeInv, MarkInv, RecoverInv, Effect, NEW i \in Instance,
           RecoverSeen(i)
    PROVE  RecoverInv'
<1>1. PICK u : u = unresolved[i][op[i].h]
  OBVIOUS
<1>2. /\ op[i].pc = "recover_seen" /\ op[i] \in OpRecord /\ op[i].h \in Handle
      /\ u \in PendingRecord \cup {None}
  BY <1>1 DEF RecoverSeen, TypeInv, TypeOK, OpShape
<1>3. Recovering(op[i], u)
  BY <1>1, <1>2 DEF RecoverInv
<1>4. PICK found : found = (op[i].found \/ u.msg \in seen[u.peer])
  OBVIOUS
<1>5. PICK new : new = [op[i] EXCEPT !.pc = "recover_load", !.found = found]
  OBVIOUS
<1>6. Goto(i, new) /\ UNCHANGED unresolved
  BY <1>1, <1>4, <1>5 DEF RecoverSeen
<1>7. new.h = op[i].h /\ new.found = found /\ new.pc = "recover_load"
  BY <1>2, <1>5 DEF OpRecord
<1>8. Recovering(new, u)
  BY <1>2, <1>3, <1>4, <1>7 DEF Recovering
<1>9. Recovering(new, u)'
  BY <1>2, <1>8, RecoveringStep
<1>10. Recovering(new, unresolved[i][new.h])'
  BY <1>1, <1>6, <1>7, <1>9
<1> QED
  BY <1>6, <1>10, RecoverGoto

\* recover's load: without a session no message of an applied commit can be
\* missing, since a session that decrypted one is never taken away.
LEMMA RecoverResolves ==
    ASSUME SafetyInv, MarkInv, RecoverInv, Effect, NEW i \in Instance,
           RecoverLoad(i)
    PROVE  RecoverInv'
<1>1. TypeInv /\ HandleNamesSession /\ InboxInv
  BY DEF SafetyInv
<1>2. PICK u : u = unresolved[i][op[i].h]
  OBVIOUS
<1>3. /\ op[i].pc = "recover_load" /\ op[i].h \in Handle
      /\ u \in PendingRecord \cup {None}
      /\ unresolved \in [Instance -> [Handle -> PendingRecord \cup {None}]]
  BY <1>1, <1>2 DEF RecoverLoad, TypeInv, TypeOK, OpShape
<1>4. Recovering(op[i], u)
  BY <1>2, <1>3 DEF RecoverInv
<1>5. u \in PendingRecord /\ HandleOf[u.peer] = op[i].h /\ Kept(u)
  BY <1>2, <1>3, <1>4 DEF Recovering, MarkInv
<1>6. u.peer \in Peer /\ u.kind \in {"create", "promote", "send", "receive"}
  BY <1>5 DEF PendingRecord
<1>7. ASSUME NotTaken(op[i].h, u), u.kind # "create", u.took PROVE FALSE
  <2>1. CASE u.kind = "promote"
    <3>1. u.msg \in inbox[u.peer] \cup seen[u.peer]
      BY <1>5, <1>7, <2>1 DEF Kept
    <3>2. session[u.peer] # None
      BY <1>1, <1>6, <3>1 DEF InboxInv
    <3>3. handles[op[i].h] = u.peer
      BY <1>1, <1>5, <1>6, <3>2 DEF HandleNamesSession
    <3> QED
      BY <1>6, <1>7, <3>3, ConstantsAssumption DEF NotTaken
  <2>2. CASE u.kind = "receive"
    BY <1>5, <1>7, <2>2 DEF NotTaken, RetiredSince, Kept
  <2>3. CASE u.kind = "send"
    BY <1>5, <1>7, <2>3 DEF NotTaken, Kept
  <2> QED
    BY <1>6, <1>7, <2>1, <2>2, <2>3
<1>8. ASSUME NEW c, Resolve(i, c), u.kind # "create" /\ u.took => c
      PROVE  RecoverInv'
  <2>1. PICK new : new = [Idle EXCEPT !.pc = "recovered", !.h = op[i].h,
                                      !.found = c, !.pend = u]
    OBVIOUS
  <2>2. /\ Goto(i, new)
        /\ unresolved' = [unresolved EXCEPT ![i][op[i].h] = None]
    BY <1>2, <1>8, <2>1 DEF Resolve
  <2>3. new.pc = "recovered" /\ new.found = c /\ new.pend = u
    BY <2>1 DEF Idle
  <2> SUFFICES ASSUME NEW j \in Instance, op'[j].pc # "idle"
               PROVE  Recovering(op[j], unresolved[j][op[j].h])'
    BY DEF RecoverInv
  <2>4. op \in [Instance -> OpRecord]
    BY <1>1 DEF TypeInv, TypeOK
  <2>5. CASE j = i
    <3>1. op'[j] = new
      BY <2>2, <2>4, <2>5 DEF Goto
    <3> QED
      BY <1>8, <2>3, <3>1 DEF Recovering
  <2>6. CASE j # i
    <3>1. op'[j] = op[j] /\ unresolved'[j] = unresolved[j]
      BY <1>3, <2>2, <2>4, <2>6 DEF Goto
    <3>2. PICK o, v : o = op[j] /\ v = unresolved[j][op[j].h]
      OBVIOUS
    <3>3. op[j].h \in Handle
      BY <1>1, <3>1 DEF TypeInv, OpShape
    <3>4. v \in PendingRecord \cup {None} /\ Recovering(o, v)
      BY <1>3, <3>1, <3>2, <3>3 DEF RecoverInv
    <3>5. Recovering(o, v)'
      BY <1>1, <3>4, RecoveringStep
    <3> QED
      BY <3>1, <3>2, <3>5
  <2> QED
    BY <2>5, <2>6
<1>9. CASE Return(i)
  BY <1>1, <1>9, RecoverIdle DEF Return
<1>10. CASE Resolve(i, op[i].found)
  <2>1. u.kind # "create" /\ u.took => op[i].found
    BY <1>3, <1>4 DEF Recovering
  <2>2. PICK c : c = op[i].found
    OBVIOUS
  <2> QED
    BY <1>8, <1>10, <2>1, <2>2
<1>11. CASE NotTaken(op[i].h, u) /\ Resolve(i, FALSE)
  BY <1>7, <1>8, <1>11
<1> QED
  BY <1>2, <1>9, <1>10, <1>11 DEF RecoverLoad

\* Every step keeps what a recovery in progress knows.
LEMMA RecoverStep ==
    ASSUME SafetyInv, MarkInv, RecoverInv, Effect, Next
    PROVE  RecoverInv'
<1>1. /\ TypeInv /\ op \in [Instance -> OpRecord]
      /\ unresolved \in [Instance -> [Handle -> PendingRecord \cup {None}]]
  BY DEF SafetyInv, TypeInv, TypeOK
<1>2. ASSUME NEW i \in Instance,
             \/ \E p \in Peer : CreateSession(i, p)
             \/ \E h \in Handle, p \in Peer : \E m \in inbox[p] :
                   AcknowledgeIncoming(i, h, m)
             \/ \E h \in Handle, p \in Peer : \E w \in outbox[p] :
                   AcknowledgeOutgoing(i, h, w) \/ AbandonOutgoing(i, h, w)
             \/ EstablishPrekeys(i)
      PROVE  RecoverInv'
  <2>1. op[i].pc = "idle" /\ UNCHANGED op
    BY <1>2 DEF CreateSession, AcknowledgeIncoming, AcknowledgeOutgoing,
                AbandonOutgoing, EstablishPrekeys
  <2>2. \A j \in Instance : j # i => unresolved'[j] = unresolved[j]
    BY <1>1, <1>2 DEF CreateSession, AcknowledgeIncoming, AcknowledgeOutgoing,
                AbandonOutgoing, EstablishPrekeys
  <2>3. PICK new : new = op[i]
    OBVIOUS
  <2>4. Goto(i, new)
    BY <1>1, <2>1, <2>3 DEF Goto
  <2> QED
    BY <1>1, <2>1, <2>2, <2>3, <2>4, RecoverOther
<1>3. ASSUME NEW i \in Instance,
             \/ \E hs \in Handshakes : ProvisionalBegin(i, hs)
             \/ \E h \in Handle, m \in Incoming : ReceiveBegin(i, h, m)
             \/ \E h \in Handle, c \in Cid : SendBegin(i, h, c)
             \/ \E h \in Handle : RemoveBegin(i, h)
      PROVE  RecoverInv'
  <2>1. PICK new : /\ Goto(i, new) /\ UNCHANGED unresolved
                   /\ new.pc \in {"provisional", "first", "receive", "send", "remove"}
    <3>1. ASSUME NEW hs \in Handshakes, ProvisionalBegin(i, hs)
          PROVE  /\ op' = [op EXCEPT ![i] = op'[i]] /\ UNCHANGED unresolved
                 /\ op'[i].pc = "provisional"
      BY <1>1, <3>1 DEF ProvisionalBegin, Goto, Idle
    <3>2. ASSUME NEW h \in Handle, NEW m \in Incoming, ReceiveBegin(i, h, m)
          PROVE  /\ op' = [op EXCEPT ![i] = op'[i]] /\ UNCHANGED unresolved
                 /\ op'[i].pc \in {"first", "receive"}
      BY <1>1, <3>2 DEF ReceiveBegin, Goto, Idle
    <3>3. ASSUME NEW h \in Handle, NEW c \in Cid, SendBegin(i, h, c)
          PROVE  /\ op' = [op EXCEPT ![i] = op'[i]] /\ UNCHANGED unresolved
                 /\ op'[i].pc = "send"
      BY <1>1, <3>3 DEF SendBegin, Goto, Idle
    <3>4. ASSUME NEW h \in Handle, RemoveBegin(i, h)
          PROVE  /\ op' = [op EXCEPT ![i] = op'[i]] /\ UNCHANGED unresolved
                 /\ op'[i].pc = "remove"
      BY <1>1, <3>4 DEF RemoveBegin, Goto, Idle
    <3>5. PICK new : new = op'[i]
      OBVIOUS
    <3>6. /\ op' = [op EXCEPT ![i] = new] /\ UNCHANGED unresolved
          /\ new.pc \in {"provisional", "first", "receive", "send", "remove"}
      BY <1>3, <3>1, <3>2, <3>3, <3>4, <3>5
    <3> QED
      BY <3>6 DEF Goto
  <2> QED
    BY <1>1, <2>1, RecoverOther
<1>4. ASSUME NEW i \in Instance,
             \/ ProvisionalRecord(i) \/ RetireLoad(i) \/ FirstStage(i)
             \/ Promote(i) \/ ReceiveStage(i) \/ SendStage(i),
             ~Goto(i, Idle)
      PROVE  RecoverInv'
  <2>1. op[i] \in OpRecord
    BY <1>1
  <2>2. /\ op' = [op EXCEPT ![i] = op'[i]]
        /\ op'[i].pc \in {"retire", "retire_commit", "receive", "promote",
                          "receive_commit", "send_commit"}
    <3>1. CASE ProvisionalRecord(i)
      BY <1>1, <1>4, <2>1, <3>1 DEF ProvisionalRecord, Return, Goto, OpRecord
    <3>2. CASE RetireLoad(i)
      <4>1. Goto(i, [op[i] EXCEPT !.pc = "retire_commit",
                                  !.base = Load(op[i].h), !.peer = handles[op[i].h]])
        BY <1>4, <3>2 DEF RetireLoad, Return
      <4> QED
        BY <1>1, <2>1, <4>1 DEF Goto, OpRecord
    <3>3. CASE FirstStage(i)
      <4>1. \/ Goto(i, [op[i] EXCEPT !.pc = "receive"])
            \/ Goto(i, [op[i] EXCEPT !.pc = "promote", !.peer = op[i].hs.peer])
        BY <1>4, <3>3 DEF FirstStage, Return
      <4> QED
        BY <1>1, <2>1, <4>1 DEF Goto, OpRecord
    <3>4. CASE Promote(i)
      BY <1>1, <1>4, <2>1, <3>4 DEF Promote, Return, Goto, OpRecord
    <3>5. CASE ReceiveStage(i)
      <4>1. Goto(i, [op[i] EXCEPT !.pc = "receive_commit",
                                  !.base = Load(op[i].h),
                                  !.peer = handles[op[i].h], !.hs = None])
        BY <1>4, <3>5 DEF ReceiveStage, Return
      <4> QED
        BY <1>1, <2>1, <4>1 DEF Goto, OpRecord
    <3>6. CASE SendStage(i)
      <4>1. Goto(i, [op[i] EXCEPT !.pc = "send_commit",
                                  !.base = Load(op[i].h)])
        BY <1>4, <3>6 DEF SendStage, Return
      <4> QED
        BY <1>1, <2>1, <4>1 DEF Goto, OpRecord
    <3> QED
      BY <1>4, <3>1, <3>2, <3>3, <3>4, <3>5, <3>6
  <2>3. UNCHANGED unresolved
    BY <1>4 DEF ProvisionalRecord, RetireLoad, FirstStage, Promote, ReceiveStage,
                SendStage, Return
  <2>4. PICK new : new = op'[i]
    OBVIOUS
  <2>5. Goto(i, new)
    BY <2>2, <2>4 DEF Goto
  <2> QED
    BY <1>1, <2>2, <2>3, <2>4, <2>5, RecoverOther
<1>5. ASSUME NEW i \in Instance, Goto(i, Idle),
             \/ ProvisionalRecord(i) \/ RetireLoad(i) \/ RetireCommit(i)
             \/ FirstStage(i) \/ Promote(i) \/ ReceiveStage(i)
             \/ ReceiveCommit(i) \/ SendStage(i) \/ SendCommit(i)
             \/ RemoveCommit(i) \/ RecoverReturn(i) \/ NotCommitted(i)
             \/ Crash(i)
      PROVE  RecoverInv'
  <2>1. ASSUME NEW h \in Handle, NEW out, NEW kind, NEW p, NEW c, NEW m, NEW legacy,
               Remember(i, h, out, kind, p, c, m, legacy)
        PROVE  \A j \in Instance : j # i => unresolved'[j] = unresolved[j]
    BY <1>1, <2>1 DEF Remember
  <2>2. CASE \/ ProvisionalRecord(i) \/ RetireLoad(i) \/ RetireCommit(i)
             \/ FirstStage(i) \/ ReceiveStage(i) \/ SendStage(i)
             \/ RemoveCommit(i) \/ RecoverReturn(i) \/ NotCommitted(i)
    <3>1. UNCHANGED unresolved
      BY <2>2 DEF ProvisionalRecord, RetireLoad, RetireCommit, FirstStage,
         ReceiveStage, SendStage, RemoveCommit, RecoverReturn, NotCommitted, Return
    <3> QED
      BY <1>1, <1>5, <3>1, RecoverIdle
  <2>3. CASE Crash(i)
    <3>1. \A j \in Instance : j # i => unresolved'[j] = unresolved[j]
      BY <1>1, <2>3 DEF Crash
    <3> QED
      BY <1>1, <1>5, <3>1, RecoverIdle
  <2>4. CASE Promote(i) \/ ReceiveCommit(i) \/ SendCommit(i)
    <3>1. op[i].h \in Handle
      BY <1>1, <2>4 DEF Promote, ReceiveCommit, SendCommit, TypeInv, OpShape
    <3>2. \A j \in Instance : j # i => unresolved'[j] = unresolved[j]
      BY <2>1, <2>4, <3>1 DEF Promote, ReceiveCommit, SendCommit, Return
    <3> QED
      BY <1>1, <1>5, <3>2, RecoverIdle
  <2> QED
    BY <1>5, <2>2, <2>3, <2>4
<1>6. ASSUME NEW i \in Instance,
             \/ RetireCommit(i) \/ ReceiveCommit(i) \/ SendCommit(i)
             \/ RemoveCommit(i) \/ RecoverReturn(i) \/ NotCommitted(i)
             \/ Crash(i)
      PROVE  Goto(i, Idle)
  BY <1>6 DEF RetireCommit, ReceiveCommit, SendCommit, RemoveCommit,
              RecoverReturn, NotCommitted, Crash, Return
<1> QED
  BY <1>1, <1>2, <1>3, <1>4, <1>5, <1>6, RecoverBegins, RecoverReads,
     RecoverResolves DEF Next

\* recover tells the truth about what was lost: it never reports a send, a
\* receive or a promotion as not committed when its transaction was applied,
\* though acknowledgements, retirements and other instances change the store
\* between its reads.
THEOREM RecoveryMissesNothingHolds == Spec => []RecoveryMissesNothing
<1> DEFINE Inv == SafetyInv /\ MarkInv /\ RecoverInv
<1>1. Init => Inv
  <2> SUFFICES ASSUME Init PROVE Inv
    OBVIOUS
  <2>1. SafetyInv
    BY InitSafety
  <2> QED
    BY <2>1 DEF Init, MarkInv, RecoverInv, Idle
<1>2. Inv /\ [Next]_vars => Inv'
  <2> SUFFICES ASSUME Inv, [Next]_vars PROVE Inv'
    OBVIOUS
  <2>1. SafetyInv'
    BY NextSafety
  <2>2. CASE UNCHANGED vars
    BY <2>1, <2>2 DEF vars, store, MarkInv, Kept, RecoverInv, Recovering
  <2>3. CASE Next
    <3>1. Effect /\ TypeInv /\ OpInv
      BY <2>3, StepEffect DEF SafetyInv
    <3> QED
      BY <2>1, <2>3, <3>1, MarkStep, RecoverStep
  <2> QED
    BY <2>2, <2>3
<1>3. Inv => RecoveryMissesNothing
  BY DEF RecoverInv, Recovering, RecoveryMissesNothing
<1> QED
  BY <1>1, <1>2, <1>3, PTL DEF Spec
=============================================================================
