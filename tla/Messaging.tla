----------------------------- MODULE Messaging -----------------------------
(***************************************************************************)
(* Durable messaging on ONE device: the encrypted store and the Messenger  *)
(* instances (threads, connections or processes of the app) that share it. *)
(* Translated from crates/core-protocol/src/messaging.rs, its helpers,     *)
(* legacy and removal parts, the conditional writes of durable.rs, and the *)
(* prekey steps of crates/mobile-ffi/src/lib.rs.                           *)
(*                                                                         *)
(* An instance runs one operation at a time (ArciumCore holds its mutexes  *)
(* for the whole call), but the reads of an operation and its closing      *)
(* transaction are separate accesses to the store, so the operations of    *)
(* two instances interleave between them.  A transaction (BEGIN IMMEDIATE  *)
(* ... COMMIT) is one step.  A COMMIT that reports an error leaves its     *)
(* outcome unknown: the writes are there or they are not.                  *)
(*                                                                         *)
(* Abstractions.  A session record is its identity (who created it and     *)
(* from which handshake), how many messages it has encrypted and which     *)
(* messages it has decrypted; comparing SHA-256 digests of records is      *)
(* comparing records.  A wire is the ratchet position that encrypted it    *)
(* and the logical message it carries.  An incoming message authenticates  *)
(* exactly under the session it was encrypted for.  The prekey record is   *)
(* a version number: a handshake names the version it was built from, and  *)
(* random key material never repeats.                                      *)
(***************************************************************************)
EXTENDS Naturals, FiniteSets

CONSTANTS
    Instance,     \* Messenger instances open on the database
    Peer,         \* peers, by identity key
    Handle,       \* local u64 session handles
    HandleOf,     \* local_session_handle: a truncated hash, so it may collide
    Cid,          \* logical message ids chosen by the caller
    Handshakes,   \* the initiator handshakes that reach this device
    LegacyPeer,   \* peers whose session an older build may have stored
    None,         \* absence of a record
    MaxCreate,    \* bound: initiator sessions ever created
    MaxIn,        \* bound: distinct messages a peer sends in one session
    MaxPrekey     \* bound: prekey record versions ever written

Role == {"initiator", "responder"}

\* The identity of a session.  A responder session is identified by the
\* handshake it answers, an initiator session by its own fresh ephemeral key.
Sid == [role: Role, peer: Peer, n: Nat, prekey: Nat]

\* An incoming message: the session whose keys encrypted it, and which one.
Msg == [sid: Sid, k: 1..MaxIn]

\* The stored checkpoint: identity, messages encrypted, messages decrypted.
Session == [sid: Sid, sent: Nat, rcvd: SUBSET (1..MaxIn)]

\* An outgoing message: ratchet position <<sid, pos>>, logical message cid,
\* and the peer under whose keys its outbox and send-id records are stored.
Wire == [sid: Sid, pos: Nat, cid: Cid, peer: Peer]

\* A send-id record, plain or with the mark of an abandoned message.
SendRecord == [wire: Wire, abandoned: BOOLEAN]

\* What a repeated send reports of a logical message: its wire, and how far
\* it got.
Outgoing == [wire: Wire, status: {"pending", "acknowledged", "abandoned"}]

\* The unresolved mark of a commit of unknown outcome: what it would have
\* written.  "took", whether it was applied, is not known to the instance.
PendingRecord ==
    [kind: {"create", "promote", "send", "receive"}, peer: Peer,
     cid: Cid \cup {None}, msg: Msg \cup {None}, legacy: BOOLEAN, took: BOOLEAN]

ASSUME ConstantsAssumption ==
    /\ HandleOf \in [Peer -> Handle]
    /\ Handshakes \subseteq {s \in Sid : s.role = "responder"}
    /\ LegacyPeer \subseteq Peer
    /\ MaxCreate \in Nat /\ MaxIn \in Nat /\ MaxPrekey \in Nat
    /\ \A hs \in Handshakes : hs.prekey # 0
    /\ None \notin Peer \cup Handle \cup Cid
    /\ None \notin Sid \cup Msg \cup Session \cup Wire
    /\ None \notin SendRecord \cup PendingRecord \cup Outgoing

-----------------------------------------------------------------------------
VARIABLES
    \* the store, one variable per record namespace
    session,      \* session:v1/<peer>
    handles,      \* handle:v1/<handle>, the peer it belongs to
    hsout,        \* hsout:v1/<peer>, the stored initiator handshake
    hsin,         \* hsin:v1/<handle>, the provisional handshake
    outbox,       \* outbox:v1/<peer>/<id>, unacknowledged wires
    sendid,       \* sendid:v1/<peer>/<cid>, the wire and whether abandoned
    inbox,        \* inbox:v1/<peer>/<id>, undelivered incoming messages
    seen,         \* seen:v1/<peer>/<id>, acknowledged incoming messages
    prekey,       \* prekeys/v2, as a version number
    \* each instance: its unresolved map and the operation it is running
    unresolved,
    op,
    \* history, read by no guard except the freshness of nextOut
    nextOut,      \* ephemeral keys drawn so far
    sentLog,      \* every wire ever committed
    acked,        \* wires removed by acknowledge_outgoing
    promoted      \* handshakes that became sessions

store == <<session, handles, hsout, hsin, outbox, sendid, inbox, seen, prekey>>
history == <<nextOut, sentLog, acked, promoted>>
vars == <<store, unresolved, op, history>>

-----------------------------------------------------------------------------
(* Records and reads.                                                      *)

Generation(s) == s.sent + Cardinality(s.rcvd)

HasReceived(s) == s.rcvd # {}

\* A responder ratchet has no sending chain before its first decryption.
CanEncrypt(s) == s.sid.role = "initiator" \/ HasReceived(s)

\* DurableSession::is_legacy_unconfirmed: generation 0 in the responder's
\* initial ratchet state, the shape only builds before session confirmation
\* stored.
\* Variant: the generation and the ratchet state are not looked at.
IsResponder(s) == s.sid.role = "responder"
IsLegacyUnconfirmed(s) ==
    s.sid.role = "responder" /\ s.sent = 0 /\ s.rcvd = {}

Authenticates(m, s) == m.sid = s.sid /\ m.k \notin s.rcvd

\* Messenger::load.  Its two reads (handle, then session) are one step: when
\* the session is found the handle still names its peer, and when it is not,
\* the operation fails without writing either way.
Load(h) == IF handles[h] = None THEN None ELSE session[handles[h]]

\* require_resolved: this instance has no commit of unknown outcome on h.
Resolved(i, h) == unresolved[i][h] = None

\* read_prior_send, one transaction.
PriorSend(p, c) ==
    CASE sendid[p][c] = None           -> "none"
      [] sendid[p][c] # None /\ sendid[p][c].abandoned -> "abandoned"
      [] OTHER -> IF sendid[p][c].wire \in outbox[p] THEN "pending"
                                                     ELSE "acknowledged"

\* check_answerable: the signed and one-time prekeys the handshake names are
\* the ones held now.
Answerable(hs) == hs.prekey = prekey

\* The Predecessor precondition: the stored record is exactly the one loaded.
\* Variant: comparing only which session it is.
HoldsSession(p, base) == session[p] # None /\ session[p].sid = base.sid
HoldsRecord(p, base) == session[p] = base

-----------------------------------------------------------------------------
(* Operations in progress.                                                 *)

Idle == [pc |-> "idle", h |-> None, peer |-> None, cid |-> None,
         msg |-> None, hs |-> None, base |-> None, pend |-> None,
         found |-> FALSE]

Goto(i, new) == op' = [op EXCEPT ![i] = new]

\* A return to the caller with nothing (more) written.
Return(i) ==
    /\ Goto(i, Idle)
    /\ UNCHANGED <<store, unresolved, history>>

\* Err(StorageError) at any access of a running operation: a failed read, a
\* transaction that could not be opened or written and was rolled back.
NotCommitted(i) == op[i].pc # "idle" /\ Return(i)

Pending(kind, p, c, m, legacy, took) ==
    [kind |-> kind, peer |-> p, cid |-> c, msg |-> m,
     legacy |-> legacy, took |-> took]

\* The three results of a COMMIT whose preconditions held: reported and
\* applied, or reported as an error and applied or not (OutcomeUnknown),
\* which the instance remembers.
Outcome == {"ok", "unknown_applied", "unknown_lost"}

Applied(out) == out # "unknown_lost"

Remember(i, h, out, kind, p, c, m, legacy) ==
    unresolved' = IF out = "ok" THEN unresolved
                  ELSE [unresolved EXCEPT ![i][h] =
                           Pending(kind, p, c, m, legacy, Applied(out))]

-----------------------------------------------------------------------------
(* Creating a session.                                                     *)

\* create_session (establish_session_initiator): one transaction that stores
\* the session, its handle and its handshake, each of which must be absent.
\* It does not ask whether the handle is resolved, and a success forgets the
\* instance's unresolved commit on it.
CreateSession(i, p) ==
    LET h   == HandleOf[p]
        sid == [role |-> "initiator", peer |-> p, n |-> nextOut, prekey |-> 0]
    IN  /\ op[i].pc = "idle"
        /\ nextOut < MaxCreate
        /\ session[p] = None /\ handles[h] = None /\ hsout[p] = None
        /\ \E out \in Outcome :
              /\ IF Applied(out)
                 THEN /\ session' = [session EXCEPT ![p] =
                                       [sid |-> sid, sent |-> 0, rcvd |-> {}]]
                      /\ handles' = [handles EXCEPT ![h] = p]
                      /\ hsout' = [hsout EXCEPT ![p] = sid]
                 ELSE UNCHANGED <<session, handles, hsout>>
              /\ unresolved' = [unresolved EXCEPT ![i][h] =
                    IF out = "ok" THEN None
                    ELSE Pending("create", p, None, None, FALSE, Applied(out))]
        /\ nextOut' = nextOut + 1
        /\ UNCHANGED <<hsin, outbox, sendid, inbox, seen, prekey, op,
                       sentLog, acked, promoted>>

\* establish_session_responder, up to check_answerable: the prekey record is
\* read and the handshake validated against it.
ProvisionalBegin(i, hs) ==
    /\ op[i].pc = "idle"
    /\ Answerable(hs)
    /\ Goto(i, [Idle EXCEPT !.pc = "provisional", !.hs = hs,
                            !.peer = hs.peer, !.h = HandleOf[hs.peer]])
    /\ UNCHANGED <<store, unresolved, history>>

\* record_provisional_handshake: one transaction.  A handle that names the
\* handshake's peer leads to retire_legacy; another peer's handle or a session
\* of this peer refuses it; otherwise the record is put, replacing any other
\* handshake.  An error from this COMMIT leaves no unresolved mark.
ProvisionalRecord(i) ==
    LET h == op[i].h IN
    /\ op[i].pc = "provisional"
    /\ \/ /\ handles[h] = op[i].peer
          /\ Goto(i, [op[i] EXCEPT !.pc = "retire"])
          /\ UNCHANGED <<store, unresolved, history>>
       \/ /\ handles[h] \notin {None, op[i].peer}
          /\ Return(i)
       \/ /\ handles[h] = None /\ session[op[i].peer] # None
          /\ Return(i)
       \/ /\ handles[h] = None /\ session[op[i].peer] = None
          /\ hsin' = [hsin EXCEPT ![h] = op[i].hs]
          /\ Goto(i, Idle)
          /\ UNCHANGED <<session, handles, hsout, outbox, sendid, inbox, seen,
                         prekey, unresolved, history>>

\* retire_legacy, before its transaction: the session is classified and must
\* have no pending messages.
RetireLoad(i) ==
    LET h == op[i].h
        p == handles[h]
        s == Load(h)
    IN  /\ op[i].pc = "retire"
        /\ IF /\ Resolved(i, h)
              /\ s # None
              /\ IsLegacyUnconfirmed(s)
              /\ outbox[p] = {} /\ inbox[p] = {}
           THEN /\ Goto(i, [op[i] EXCEPT !.pc = "retire_commit", !.base = s,
                                         !.peer = p])
                /\ UNCHANGED <<store, unresolved, history>>
           ELSE Return(i)

\* retire_legacy's transaction: the session and handle records are deleted and
\* the handshake recorded, only while every record it was decided from, the
\* prekey record included, is unchanged.
RetireCommit(i) ==
    LET h == op[i].h
        p == op[i].peer
    IN  /\ op[i].pc = "retire_commit"
        /\ IF /\ HoldsRecord(p, op[i].base)
              /\ handles[h] = p
              /\ hsout[p] = None /\ hsin[h] = None
              /\ Answerable(op[i].hs)
           THEN /\ session' = [session EXCEPT ![p] = None]
                /\ handles' = [handles EXCEPT ![h] = None]
                /\ hsin' = [hsin EXCEPT ![h] = op[i].hs]
                /\ Goto(i, Idle)
                /\ UNCHANGED <<hsout, outbox, sendid, inbox, seen, prekey,
                               unresolved, history>>
           ELSE Return(i)

-----------------------------------------------------------------------------
(* Receiving.                                                              *)

\* receive_committed: under a handle without a session but with a provisional
\* handshake the message is a candidate first message, otherwise it is
\* received on the handle's session.
ReceiveBegin(i, h, m) ==
    LET first == handles[h] = None /\ hsin[h] # None IN
    /\ op[i].pc = "idle"
    /\ Goto(i, [Idle EXCEPT !.pc = IF first THEN "first" ELSE "receive",
                            !.h = h, !.msg = m,
                            !.hs = IF first THEN hsin[h] ELSE None])
    /\ UNCHANGED <<store, unresolved, history>>

\* accept_first_message up to the decryption: the prekeys are read and checked
\* again, and the message must authenticate under what the handshake derives.
\* When the prekeys were consumed meanwhile and the handle has a session, the
\* message belongs to that session.
FirstStage(i) ==
    LET h == op[i].h IN
    /\ op[i].pc = "first"
    /\ \/ /\ ~Answerable(op[i].hs)
          /\ IF handles[h] # None
             THEN /\ Goto(i, [op[i] EXCEPT !.pc = "receive"])
                  /\ UNCHANGED <<store, unresolved, history>>
             ELSE Return(i)
       \/ /\ Answerable(op[i].hs)
          /\ IF Resolved(i, h) /\ op[i].msg.sid = op[i].hs
             THEN /\ Goto(i, [op[i] EXCEPT !.pc = "promote",
                                           !.peer = op[i].hs.peer])
                  /\ UNCHANGED <<store, unresolved, history>>
             ELSE Return(i)

\* The preconditions of the promotion besides "no session, handle free".
\* Variant: the prekey record is not compared at commit.
PromotionHoldsButPrekey(i) ==
    /\ hsin[op[i].h] = op[i].hs
    /\ op[i].msg \notin inbox[op[i].peer] \cup seen[op[i].peer]
PromotionHolds(i) ==
    /\ hsin[op[i].h] = op[i].hs
    /\ op[i].msg \notin inbox[op[i].peer] \cup seen[op[i].peer]
    /\ Answerable(op[i].hs)

\* promote_with: one transaction that stores the advanced session, its handle,
\* the message and the rotated prekey record, and deletes the provisional one.
\* If this peer's session exists under this handle, the message is received
\* on it instead.
Promote(i) ==
    LET h == op[i].h
        p == op[i].peer
        m == op[i].msg
    IN  /\ op[i].pc = "promote"
        /\ \/ /\ session[p] # None \/ handles[h] # None
              /\ IF handles[h] = p
                 THEN /\ Goto(i, [op[i] EXCEPT !.pc = "receive"])
                      /\ UNCHANGED <<store, unresolved, history>>
                 ELSE Return(i)
           \/ /\ session[p] = None /\ handles[h] = None
              /\ ~PromotionHolds(i)
              /\ Return(i)
           \/ /\ session[p] = None /\ handles[h] = None
              /\ PromotionHolds(i)
              /\ prekey < MaxPrekey
              /\ \E out \in Outcome :
                    /\ IF Applied(out)
                       THEN /\ session' = [session EXCEPT ![p] =
                                  [sid |-> op[i].hs, sent |-> 0, rcvd |-> {m.k}]]
                            /\ handles' = [handles EXCEPT ![h] = p]
                            /\ hsin' = [hsin EXCEPT ![h] = None]
                            /\ inbox' = [inbox EXCEPT ![p] = @ \cup {m}]
                            /\ prekey' = prekey + 1
                            /\ promoted' = promoted \cup {op[i].hs}
                       ELSE UNCHANGED <<session, handles, hsin, inbox, prekey,
                                        promoted>>
                    /\ Remember(i, h, out, "promote", p, None, m, FALSE)
              /\ Goto(i, Idle)
              /\ UNCHANGED <<hsout, outbox, sendid, seen, nextOut, sentLog,
                             acked>>

\* receive, before its transaction: the session is loaded, a message recorded
\* in the inbox or as seen is a duplicate, and the rest must authenticate.
ReceiveStage(i) ==
    LET h == op[i].h
        p == handles[h]
        s == Load(h)
    IN  /\ op[i].pc = "receive"
        /\ IF /\ Resolved(i, h)
              /\ s # None
              /\ op[i].msg \notin inbox[p] \cup seen[p]
              /\ Authenticates(op[i].msg, s)
           THEN /\ Goto(i, [op[i] EXCEPT !.pc = "receive_commit", !.base = s,
                                         !.peer = p, !.hs = None])
                /\ UNCHANGED <<store, unresolved, history>>
           ELSE Return(i)

\* The checkpoint after decrypting m.
Decrypted(b, m) == [b EXCEPT !.rcvd = @ \cup {m.k}]

\* receive's transaction: the advanced session and the inbox record, only if
\* the session is the one loaded and the message still unrecorded.
ReceiveCommit(i) ==
    LET h == op[i].h
        p == op[i].peer
        m == op[i].msg
    IN  /\ op[i].pc = "receive_commit"
        /\ IF /\ HoldsRecord(p, op[i].base)
              /\ m \notin inbox[p] \cup seen[p]
           THEN /\ \E out \in Outcome :
                      /\ IF Applied(out)
                         THEN /\ session' = [session EXCEPT ![p] =
                                               Decrypted(op[i].base, m)]
                              /\ inbox' = [inbox EXCEPT ![p] = @ \cup {m}]
                         ELSE UNCHANGED <<session, inbox>>
                      /\ Remember(i, h, out, "receive", p, None, m,
                                  IsLegacyUnconfirmed(op[i].base))
                /\ Goto(i, Idle)
                /\ UNCHANGED <<handles, hsout, hsin, outbox, sendid, seen,
                               prekey, history>>
           ELSE Return(i)

\* acknowledge_incoming: one transaction; the application has the message.
\* Variant: no seen record is left.
AcknowledgeWithoutSeen(i, h, m) ==
    LET p == handles[h] IN
    /\ op[i].pc = "idle"
    /\ p # None
    /\ m \in inbox[p]
    /\ inbox' = [inbox EXCEPT ![p] = @ \ {m}]
    /\ UNCHANGED <<session, handles, hsout, hsin, outbox, sendid, seen, prekey,
                   unresolved, op, history>>
AcknowledgeIncoming(i, h, m) ==
    LET p == handles[h] IN
    /\ op[i].pc = "idle"
    /\ p # None
    /\ m \in inbox[p]
    /\ inbox' = [inbox EXCEPT ![p] = @ \ {m}]
    /\ seen' = [seen EXCEPT ![p] = @ \cup {m}]
    /\ UNCHANGED <<session, handles, hsout, hsin, outbox, sendid, prekey,
                   unresolved, op, history>>

-----------------------------------------------------------------------------
(* Sending.                                                                *)

\* send, its first reads: the handle's peer, and read_prior_send.  A logical
\* message that was sent before is reported and not encrypted again.
SendBegin(i, h, c) ==
    LET p == handles[h] IN
    /\ op[i].pc = "idle"
    /\ Resolved(i, h)
    /\ p # None
    /\ PriorSend(p, c) = "none"
    /\ Goto(i, [Idle EXCEPT !.pc = "send", !.h = h, !.peer = p, !.cid = c])
    /\ UNCHANGED <<store, unresolved, history>>

\* send's load and stage_encrypt.  load reads the handle again; send keeps the
\* peer of its first read for the record keys.
SendStage(i) ==
    LET s == Load(op[i].h) IN
    /\ op[i].pc = "send"
    /\ IF s # None /\ CanEncrypt(s)
       THEN /\ Goto(i, [op[i] EXCEPT !.pc = "send_commit", !.base = s])
            /\ UNCHANGED <<store, unresolved, history>>
       ELSE Return(i)

\* The wire that encrypting cid on the loaded session produced.
StagedWire(i) ==
    [sid |-> op[i].base.sid, pos |-> op[i].base.sent,
     cid |-> op[i].cid, peer |-> op[i].peer]

\* The preconditions of send's transaction.
\* Variant: the send-id record is not required to be absent.
SendHoldsButSendId(i) ==
    /\ HoldsRecord(op[i].base.sid.peer, op[i].base)
    /\ StagedWire(i) \notin outbox[op[i].peer]
SendHolds(i) ==
    /\ HoldsRecord(op[i].base.sid.peer, op[i].base)
    /\ StagedWire(i) \notin outbox[op[i].peer]
    /\ sendid[op[i].peer][op[i].cid] = None

\* send's transaction: the advanced session, the outbox record and the send-id
\* record, only if the session is the one loaded and both records are absent.
SendCommit(i) ==
    LET h == op[i].h
        p == op[i].peer
        b == op[i].base
        w == StagedWire(i)
    IN  /\ op[i].pc = "send_commit"
        /\ IF SendHolds(i)
           THEN /\ \E out \in Outcome :
                      /\ IF Applied(out)
                         THEN /\ session' = [session EXCEPT
                                    ![b.sid.peer] = [b EXCEPT !.sent = @ + 1]]
                              /\ outbox' = [outbox EXCEPT ![p] = @ \cup {w}]
                              /\ sendid' = [sendid EXCEPT ![p][op[i].cid] =
                                              [wire |-> w, abandoned |-> FALSE]]
                              /\ sentLog' = sentLog \cup {w}
                         ELSE UNCHANGED <<session, outbox, sendid, sentLog>>
                      /\ Remember(i, h, out, "send", p, op[i].cid, None, FALSE)
                /\ Goto(i, Idle)
                /\ UNCHANGED <<handles, hsout, hsin, inbox, seen, prekey,
                               nextOut, acked, promoted>>
           ELSE Return(i)

\* acknowledge_outgoing: one transaction; the send-id record stays.
AcknowledgeOutgoing(i, h, w) ==
    LET p == handles[h] IN
    /\ op[i].pc = "idle"
    /\ p # None
    /\ w \in outbox[p]
    /\ outbox' = [outbox EXCEPT ![p] = @ \ {w}]
    /\ acked' = acked \cup {w}
    /\ UNCHANGED <<session, handles, hsout, hsin, sendid, inbox, seen, prekey,
                   unresolved, op, nextOut, sentLog, promoted>>

\* abandon_outgoing: one transaction that also marks the logical message.
\* Variant: the logical message is not marked.
AbandonUnmarked(i, h, w) ==
    LET p == handles[h] IN
    /\ op[i].pc = "idle"
    /\ p # None
    /\ w \in outbox[p]
    /\ outbox' = [outbox EXCEPT ![p] = @ \ {w}]
    /\ UNCHANGED <<session, handles, hsout, hsin, sendid, inbox, seen, prekey,
                   unresolved, op, history>>
AbandonOutgoing(i, h, w) ==
    LET p == handles[h] IN
    /\ op[i].pc = "idle"
    /\ p # None
    /\ w \in outbox[p]
    /\ outbox' = [outbox EXCEPT ![p] = @ \ {w}]
    /\ sendid' = [sendid EXCEPT ![p][w.cid] = [wire |-> w, abandoned |-> TRUE]]
    /\ UNCHANGED <<session, handles, hsout, hsin, inbox, seen, prekey,
                   unresolved, op, history>>

-----------------------------------------------------------------------------
(* Ending a session.                                                       *)

\* Only a session that committed no message from the peer and has no pending
\* outgoing message is removed.
Removable(p, s) == ~HasReceived(s) /\ outbox[p] = {}

\* remove_session, before its transaction.
RemoveBegin(i, h) ==
    LET p == handles[h]
        s == Load(h)
    IN  /\ op[i].pc = "idle"
        /\ Resolved(i, h)
        /\ s # None
        /\ Removable(p, s)
        /\ Goto(i, [Idle EXCEPT !.pc = "remove", !.h = h, !.peer = p,
                                !.base = s])
        /\ UNCHANGED <<store, unresolved, history>>

\* remove_session's transaction: the session, handle and handshake records go
\* if the session is still the one loaded.
\* Variant: the stored handshake is left behind.
RemoveKeepingHandshake(i) ==
    LET h == op[i].h
        p == op[i].peer
    IN  /\ op[i].pc = "remove"
        /\ IF HoldsRecord(p, op[i].base)
           THEN /\ session' = [session EXCEPT ![p] = None]
                /\ handles' = [handles EXCEPT ![h] = None]
                /\ Goto(i, Idle)
                /\ UNCHANGED <<hsout, hsin, outbox, sendid, inbox, seen, prekey,
                               unresolved, history>>
           ELSE Return(i)
RemoveCommit(i) ==
    LET h == op[i].h
        p == op[i].peer
    IN  /\ op[i].pc = "remove"
        /\ IF HoldsRecord(p, op[i].base)
           THEN /\ session' = [session EXCEPT ![p] = None]
                /\ handles' = [handles EXCEPT ![h] = None]
                /\ hsout' = [hsout EXCEPT ![p] = None]
                /\ Goto(i, Idle)
                /\ UNCHANGED <<hsin, outbox, sendid, inbox, seen, prekey,
                               unresolved, history>>
           ELSE Return(i)

-----------------------------------------------------------------------------
(* Recovering from a commit of unknown outcome.                            *)

\* recover's first artifact read: the send-id record of a send, the handle of
\* a creation, the inbox record of a receive or promotion.
RecoverBegin(i, h) ==
    LET u == unresolved[i][h] IN
    /\ op[i].pc = "idle"
    /\ u # None
    /\ Goto(i, [Idle EXCEPT
          !.pc = IF u.kind \in {"send", "create"} THEN "recover_load"
                                                  ELSE "recover_seen",
          !.h = h,
          !.found = \/ u.kind = "send" /\ sendid[u.peer][u.cid] # None
                    \/ u.kind = "create" /\ handles[h] # None
                    \/ u.kind \in {"receive", "promote"} /\ u.msg \in inbox[u.peer]])
    /\ UNCHANGED <<store, unresolved, history>>

\* recover's second artifact read, of a receive or promotion: the seen record.
\* Variant: the second key is not read.
RecoverSkipSeen(i) ==
    /\ op[i].pc = "recover_seen"
    /\ Goto(i, [op[i] EXCEPT !.pc = "recover_load"])
    /\ UNCHANGED <<store, unresolved, history>>
RecoverSeen(i) ==
    LET u == unresolved[i][op[i].h] IN
    /\ op[i].pc = "recover_seen"
    /\ Goto(i, [op[i] EXCEPT !.pc = "recover_load",
                             !.found = op[i].found \/ u.msg \in seen[u.peer]])
    /\ UNCHANGED <<store, unresolved, history>>

\* retired_since: one consistent read shows that the legacy session a receive
\* was staged on is gone, a handshake of its peer provisional in its place,
\* and no record of the receive.
RetiredSince(h, u) ==
    /\ session[u.peer] = None /\ handles[h] = None
    /\ u.msg \notin inbox[u.peer] \cup seen[u.peer]
    /\ hsin[h] # None /\ hsin[h].peer = u.peer

\* The mark is removed and the report, whether the transition took effect,
\* goes to the caller.
Resolve(i, committed) ==
    LET h == op[i].h IN
    /\ unresolved' = [unresolved EXCEPT ![i][h] = None]
    /\ Goto(i, [Idle EXCEPT !.pc = "recovered", !.h = h, !.found = committed,
                            !.pend = unresolved[i][h]])
    /\ UNCHANGED <<store, history>>

\* Without a session: a creation that did not take effect, or a receive on a
\* legacy session that was retired.
NotTaken(h, u) ==
    /\ handles[h] = None
    /\ \/ u.kind \in {"create", "promote"}
       \/ u.legacy /\ RetiredSince(h, u)

\* recover's load.  With a session, the artifact decides; without one the
\* transition did not take effect or, if that is not certain, stays unresolved.
RecoverLoad(i) ==
    LET h == op[i].h
        u == unresolved[i][h]
    IN  /\ op[i].pc = "recover_load"
        /\ \/ Load(h) # None /\ Resolve(i, op[i].found)
           \/ Load(h) = None /\ NotTaken(h, u) /\ Resolve(i, FALSE)
           \/ Load(h) = None /\ ~NotTaken(h, u) /\ Return(i)

\* recover returns its report.
RecoverReturn(i) == op[i].pc = "recovered" /\ Return(i)

-----------------------------------------------------------------------------
(* Prekeys, crashes.                                                       *)

\* establish_prekeys: an unconditional put of fresh prekeys.
EstablishPrekeys(i) ==
    /\ op[i].pc = "idle"
    /\ prekey < MaxPrekey
    /\ prekey' = prekey + 1
    /\ UNCHANGED <<session, handles, hsout, hsin, outbox, sendid, inbox, seen,
                   unresolved, op, history>>

\* The process of instance i dies and is started again: its operation and its
\* unresolved map are gone, the store keeps what was committed.
Crash(i) ==
    /\ op[i].pc # "idle" \/ \E h \in Handle : unresolved[i][h] # None
    /\ Goto(i, Idle)
    /\ unresolved' = [unresolved EXCEPT ![i] = [h \in Handle |-> None]]
    /\ UNCHANGED <<store, history>>

-----------------------------------------------------------------------------
\* The session an older build stored on receipt of a handshake; the one-time
\* prekey it used was consumed then.
LegacySession(p) ==
    [sid |-> [role |-> "responder", peer |-> p, n |-> 0, prekey |-> 0],
     sent |-> 0, rcvd |-> {}]

\* A store without records, or one an older build left sessions in.
Init ==
    /\ \E old \in SUBSET LegacyPeer :
          /\ \A p, q \in old : HandleOf[p] = HandleOf[q] => p = q
          /\ session = [p \in Peer |->
                          IF p \in old THEN LegacySession(p) ELSE None]
          /\ handles = [h \in Handle |->
                          IF \E p \in old : HandleOf[p] = h
                          THEN CHOOSE p \in old : HandleOf[p] = h ELSE None]
          /\ promoted = {LegacySession(p).sid : p \in old}
    /\ hsout = [p \in Peer |-> None]
    /\ hsin = [h \in Handle |-> None]
    /\ outbox = [p \in Peer |-> {}]
    /\ sendid = [p \in Peer |-> [c \in Cid |-> None]]
    /\ inbox = [p \in Peer |-> {}]
    /\ seen = [p \in Peer |-> {}]
    /\ prekey = 1
    /\ unresolved = [i \in Instance |-> [h \in Handle |-> None]]
    /\ op = [i \in Instance |-> Idle]
    /\ nextOut = 0
    /\ sentLog = {}
    /\ acked = {}

\* What can arrive: messages of the handshakes' initiators, and of the peers
\* of the sessions held now.  The rest would not authenticate.
Incoming ==
    [sid: Handshakes \cup {session[p].sid : p \in {q \in Peer : session[q] # None}},
     k: 1..MaxIn]

Next ==
    \E i \in Instance :
        \/ \E p \in Peer : CreateSession(i, p)
        \/ \E hs \in Handshakes : ProvisionalBegin(i, hs)
        \/ ProvisionalRecord(i)
        \/ RetireLoad(i)
        \/ RetireCommit(i)
        \/ \E h \in Handle, m \in Incoming : ReceiveBegin(i, h, m)
        \/ FirstStage(i)
        \/ Promote(i)
        \/ ReceiveStage(i)
        \/ ReceiveCommit(i)
        \/ \E h \in Handle, p \in Peer : \E m \in inbox[p] :
              AcknowledgeIncoming(i, h, m)
        \/ \E h \in Handle, c \in Cid : SendBegin(i, h, c)
        \/ SendStage(i)
        \/ SendCommit(i)
        \/ \E h \in Handle, p \in Peer : \E w \in outbox[p] :
              AcknowledgeOutgoing(i, h, w) \/ AbandonOutgoing(i, h, w)
        \/ \E h \in Handle : RemoveBegin(i, h) \/ RecoverBegin(i, h)
        \/ RemoveCommit(i)
        \/ RecoverSeen(i)
        \/ RecoverLoad(i)
        \/ RecoverReturn(i)
        \/ EstablishPrekeys(i)
        \/ NotCommitted(i)
        \/ Crash(i)

Spec == Init /\ [][Next]_vars

-----------------------------------------------------------------------------
(* Properties.                                                             *)

Step == {"idle", "provisional", "retire", "retire_commit", "first", "promote",
         "receive", "receive_commit", "send", "send_commit", "remove",
         "recover_seen", "recover_load", "recovered"}

OpRecord ==
    [pc: Step, h: Handle \cup {None}, peer: Peer \cup {None},
     cid: Cid \cup {None}, msg: Msg \cup {None}, hs: Handshakes \cup {None},
     base: Session \cup {None}, pend: PendingRecord \cup {None}, found: BOOLEAN]

\* Every record decodes: each namespace holds only records of its own kind.
TypeOK ==
    /\ session \in [Peer -> Session \cup {None}]
    /\ handles \in [Handle -> Peer \cup {None}]
    /\ hsout \in [Peer -> Sid \cup {None}]
    /\ hsin \in [Handle -> Handshakes \cup {None}]
    /\ outbox \in [Peer -> SUBSET Wire]
    /\ sendid \in [Peer -> [Cid -> SendRecord \cup {None}]]
    /\ inbox \in [Peer -> SUBSET Msg]
    /\ seen \in [Peer -> SUBSET Msg]
    /\ prekey \in Nat
    /\ unresolved \in [Instance -> [Handle -> PendingRecord \cup {None}]]
    /\ op \in [Instance -> OpRecord]
    /\ nextOut \in Nat
    /\ sentLog \in SUBSET Wire
    /\ acked \in SUBSET Wire
    /\ promoted \in SUBSET Sid

\* The session of a peer and the handle record naming that peer appear and go
\* together, whatever instance creates, promotes, retires or removes it, so
\* load never reports MissingSession; and a stored initiator handshake is the
\* handshake of the session held, never of one that is gone.
HandleNamesSession ==
    /\ \A p \in Peer : session[p] # None <=> handles[HandleOf[p]] = p
    /\ \A h \in Handle : handles[h] # None => HandleOf[handles[h]] = h
    /\ \A p \in Peer : hsout[p] # None =>
          session[p] # None /\ session[p].sid = hsout[p]

\* No ratchet position of a session ever encrypts two wires, whatever
\* instances race, commits with an unknown outcome and crashes: two different
\* ciphertexts under one message key are never both released.
NoFork ==
    \A w1, w2 \in sentLog :
        w1.sid = w2.sid /\ w1.pos = w2.pos => w1 = w2

\* A logical message is encrypted at most once, ever: not again after an
\* unknown outcome, a crash, an acknowledgement or an abandonment, and not
\* again in the session that replaces a removed one.
EncryptedOnce ==
    \A w1, w2 \in sentLog :
        w1.peer = w2.peer /\ w1.cid = w2.cid => w1 = w2

\* "AlreadyAcknowledged" is reported only for a message that
\* acknowledge_outgoing removed, and "Abandoned" only for one that was never
\* acknowledged and is not retransmitted.
SendOutcomeTruth ==
    \A p \in Peer, c \in Cid :
        /\ PriorSend(p, c) = "acknowledged" => sendid[p][c].wire \in acked
        /\ PriorSend(p, c) = "abandoned" =>
              sendid[p][c].wire \notin acked \cup outbox[p]

\* A message is decrypted by the session exactly when it is recorded, either
\* undelivered or acknowledged and never both: a decryption is never lost, and
\* a message is never handed to the application again once acknowledged.
ConsumedIsRecorded ==
    \A p \in Peer :
        /\ inbox[p] \cap seen[p] = {}
        /\ session[p] # None =>
              {m.k : m \in {x \in inbox[p] \cup seen[p] : x.sid = session[p].sid}}
                  = session[p].rcvd

\* A one-time prekey makes at most one session: two first messages racing on
\* two instances, from one peer or from two, never both consume it.
PrekeyUsedOnce ==
    \A s1, s2 \in promoted :
        s1.prekey = s2.prekey /\ s1.prekey # 0 => s1 = s2

\* recover never reports a send, receive or promotion as not committed when
\* it was: acknowledgements, retirement and other instances may change the
\* store between its reads.
RecoveryMissesNothing ==
    \A i \in Instance :
        op[i].pc = "recovered" /\ op[i].pend.kind # "create" /\ op[i].pend.took
            => op[i].found

\* A stored session is only ever advanced by one message, or taken away while
\* it has received nothing and owes nothing: no step replaces it by another
\* session or puts it back to an earlier state.
SessionNeverReplaced ==
    [][\A p \in Peer : session[p] # None /\ session'[p] # session[p] =>
          IF session'[p] = None
          THEN ~HasReceived(session[p]) /\ outbox[p] = {}
          ELSE /\ session'[p].sid = session[p].sid
               /\ Generation(session'[p]) = Generation(session[p]) + 1]_vars

-----------------------------------------------------------------------------
(* Refinement: whatever the instances do, what a caller sees of each       *)
(* message follows the life cycle of module Lifecycle.                     *)

MessageOut ==
    [p \in Peer |-> [c \in Cid |->
        IF sendid[p][c] = None THEN None
        ELSE [wire |-> sendid[p][c].wire, status |-> PriorSend(p, c)]]]

MessageIn ==
    [p \in Peer |-> [undelivered |-> inbox[p], delivered |-> seen[p]]]

Promise == INSTANCE Lifecycle WITH out <- MessageOut, in <- MessageIn

\* Durable messaging implements the life cycle: the outcome send reports and
\* the pending and seen records only ever move forward, one message and one
\* stage at a time, and a logical message keeps the one wire it was given.
ImplementsLifecycle == Promise!Spec
=============================================================================
