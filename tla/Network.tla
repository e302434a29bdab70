------------------------------ MODULE Network ------------------------------
(***************************************************************************)
(* Two devices that talk over the relay: NetworkMessenger of               *)
(* crates/mobile-ffi/src/network.rs from the outbox to the receipt, and    *)
(* the session handling of network/chat.rs around it (when a session is    *)
(* started, and resolve_session_conflict when both devices started one).   *)
(*                                                                         *)
(* Each device has two threads: the sync thread, which repeats rounds, and *)
(* the user's.  A call of ArciumCore holds its locks and is one step, and  *)
(* so is a request to the relay; the threads and the two devices           *)
(* interleave between them, and a process may die there.                   *)
(*                                                                         *)
(* What Messaging establishes for one device is taken from it here: a      *)
(* logical message has one wire for good, a message is accepted once, a    *)
(* session that received is never removed.  The relay may lose envelopes   *)
(* and deliver them again.  A mailbox is a set: Mailbox shows that a pass  *)
(* misses nothing and that handshakes come first.                          *)
(***************************************************************************)
EXTENDS Naturals, FiniteSets

CONSTANTS
    Device,       \* the two devices
    Greater,      \* the one whose identity key is the greater
    Starts,       \* the sets of devices that may want to start a session
    Texts,        \* Texts[d]: the texts the user of d writes
    None,         \* absence of a record
    MaxMinute,    \* bound: minutes the clock counts
    Faults,       \* the faults that happen
    MaxFault      \* bound: how many of them

ASSUME NetworkAssumption ==
    /\ Greater \in Device
    /\ \A d \in Device : \E e \in Device : Device = {d, e} /\ d # e
    /\ Starts \subseteq SUBSET Device
    /\ DOMAIN Texts = Device
    /\ Faults \subseteq {"lose", "replay", "fail", "crash", "prekey"}
    /\ {MaxMinute, MaxFault} \subseteq Nat

Peer(d) == CHOOSE e \in Device : e # d

VARIABLES
    \* each device's store
    session,      \* the session with the peer, or None
    hsin,         \* the provisional handshake, or None
    sent,         \* every message committed to the outbox (the send-id records)
    acked,        \* those acknowledge_outgoing took out of the outbox
    abandoned,    \* those abandon_outgoing took out of it
    inbox,        \* accepted messages
    seen,         \* accepted and consumed messages
    prekey,       \* the version of the prekey record, 0 before there is one
    conflict,     \* FLAG_CONFLICT
    acceptOnly,   \* FLAG_ACCEPT_ONLY
    starts,       \* history: sessions this device created
    \* the relay
    mail,         \* mail[d]: the mailbox of d
    posted,       \* history: every envelope that was ever in it
    bundle,       \* the prekey version of the bundle published for d, or 0
    \* each process
    last_sent,    \* what the relay accepted, until retransmit_after passed
    round,        \* the sync thread
    ui,           \* the user's thread, inside resolve_session_conflict
    \* the world
    starters,     \* the devices that want to start a session; never changes
    minute,       \* the clock receipt_again reads
    faults        \* history: faults so far, and those that will not happen

durable == <<session, hsin, sent, acked, abandoned, inbox, seen, prekey,
             conflict, acceptOnly, starts>>
relay == <<mail, posted, bundle>>
world == <<starters, minute, faults>>
vars == <<durable, relay, last_sent, round, ui, world>>

-----------------------------------------------------------------------------
(* Messages and envelopes.                                                 *)

\* Client message ids: "o", "t" and the text, "r" and the message and round.
Open == [kind |-> "open"]
Text(t) == [kind |-> "text", text |-> t]
ReceiptOf(m, n) == [kind |-> "receipt", of |-> m, round |-> n]

Handshake(s) == [kind |-> "handshake", sid |-> s]
Message(m) == [kind |-> "message", msg |-> m]

\* PAYLOAD_V1: a text, an OPEN, or a receipt and the ids it names.
Payload(m) ==
    [kind |-> m.cid.kind,
     ids  |-> IF m.cid.kind = "receipt" THEN {m.cid.of} ELSE {}]

Outbox(d) == sent[d] \ (acked[d] \cup abandoned[d])

Accepted(d) == inbox[d] \cup seen[d]

\* confirmed: a message from the peer authenticated under the session.
Confirmed(d) == \E m \in Accepted(d) : m.sid = session[d]

\* send_committed on the session of d: a client id that was used before
\* commits nothing.
Cids(d) == {m.cid : m \in sent[d]}

Commit(d, cid) ==
    sent' = IF cid \in Cids(d) THEN sent
            ELSE [sent EXCEPT ![d] =
                    @ \cup {[sid |-> session[d], from |-> d, cid |-> cid]}]

\* due: not accepted by the relay in this process, or long enough ago.
Due(d, e) == e \notin last_sent[d]

\* SEND to the peer's mailbox and mark_sent.
Post(d, e) ==
    /\ mail' = [mail EXCEPT ![Peer(d)] = @ \cup {e}]
    /\ posted' = [posted EXCEPT ![Peer(d)] = @ \cup {e}]
    /\ last_sent' = [last_sent EXCEPT ![d] = @ \cup {e}]

-----------------------------------------------------------------------------
(* The sync thread: sync_round, then the part of sync_conversations_round  *)
(* that starts sessions.  cur is the message being settled and the number  *)
(* of the next call; had, whether there was a session when sessions() was  *)
(* read; last, whether this is the round's second publish_pending.         *)

Idle == [pc |-> "idle", todo |-> {}, cur |-> None, call |-> 0, del |-> {},
         had |-> FALSE, last |-> FALSE, pk |-> 0]

\* Whether sync succeeded or failed, sync_conversations_round goes on.
EndOfSync == [Idle EXCEPT !.pc = "after"]

Goto(d, new) == round' = [round EXCEPT ![d] = new]

\* sync_round: the sessions are listed, and the inbox of each is read.
BeginRound(d) ==
    /\ round[d].pc = "idle"
    /\ Goto(d, [Idle EXCEPT !.pc = "inbox", !.had = session[d] # None,
                            !.todo = IF session[d] # None THEN inbox[d] ELSE {}])
    /\ UNCHANGED <<durable, relay, last_sent, ui, world>>

\* settle_inbox takes the next message.
SettleNext(d, m) ==
    /\ round[d].pc = "inbox" /\ round[d].cur = None
    /\ m \in round[d].todo
    /\ Goto(d, [round[d] EXCEPT !.cur = m, !.call = 1, !.todo = @ \ {m}])
    /\ UNCHANGED <<durable, relay, last_sent, ui, world>>

\* settle, its first call: a receipt is committed for a text or an OPEN, and
\* what a receipt names leaves the outbox.
SettleFirst(d) ==
    LET m == round[d].cur
        p == Payload(m)
    IN
    /\ m # None /\ round[d].call = 1
    /\ session[d] # None
    /\ IF p.kind = "receipt"
       THEN /\ acked' = [acked EXCEPT ![d] = @ \cup (p.ids \cap Outbox(d))]
            /\ UNCHANGED sent
       ELSE /\ Commit(d, ReceiptOf(m, 0))
            /\ UNCHANGED acked
    /\ Goto(d, IF p.kind = "text"
               THEN [round[d] EXCEPT !.cur = None, !.call = 0]
               ELSE [round[d] EXCEPT !.call = 2])
    /\ UNCHANGED <<session, hsin, abandoned, inbox, seen, prekey, conflict,
                   acceptOnly, starts, relay, last_sent, ui, world>>

\* settle, its second call: an OPEN or a receipt is consumed here.
SettleSecond(d) ==
    LET m == round[d].cur IN
    /\ m # None /\ round[d].call = 2
    /\ inbox' = [inbox EXCEPT ![d] = @ \ {m}]
    /\ seen' = [seen EXCEPT ![d] = @ \cup {m}]
    /\ Goto(d, [round[d] EXCEPT !.cur = None, !.call = 0])
    /\ UNCHANGED <<session, hsin, sent, acked, abandoned, prekey, conflict,
                   acceptOnly, starts, relay, last_sent, ui, world>>

\* connect and put_bundle: prekeys are made if there are none, and published.
PutBundle(d) ==
    LET v == IF prekey[d] = 0 THEN 1 ELSE prekey[d] IN
    /\ round[d].pc = "inbox" /\ round[d].cur = None /\ round[d].todo = {}
    /\ prekey' = [prekey EXCEPT ![d] = v]
    /\ bundle' = [bundle EXCEPT ![d] = v]
    /\ Goto(d, [Idle EXCEPT !.pc = "publish", !.had = round[d].had])
    /\ UNCHANGED <<session, hsin, sent, acked, abandoned, inbox, seen, conflict,
                   acceptOnly, starts, mail, posted, last_sent, ui, world>>

\* publish_pending for the peer, if sessions() listed it: the handshake of a
\* session the peer has not answered, if due, and then the list of what is
\* pending.  The session may have been removed since it was listed: NoSession
\* ends sync.
Publish(d) ==
    LET had == IF round[d].last THEN session[d] # None ELSE round[d].had
        hs  == Handshake(session[d])
    IN  /\ round[d].pc = "publish"
        /\ IF had /\ session[d] # None /\ session[d].by = d /\ ~Confirmed(d) /\ Due(d, hs)
           THEN Post(d, hs)
           ELSE UNCHANGED <<mail, posted, last_sent>>
        /\ Goto(d, IF had /\ session[d] = None THEN EndOfSync
                   ELSE [round[d] EXCEPT !.pc = "sending",
                           !.todo = IF had THEN Outbox(d) ELSE {}])
        /\ UNCHANGED <<durable, bundle, ui, world>>

\* Only a receipt leaves the outbox when the relay has accepted it.
\* Variant: every message does.
AnyDone(m) == TRUE
DoneWhenSent(m) == m.cid.kind = "receipt"

\* publish_pending: one message of the list.
SendPending(d, m) ==
    LET e == Message(m) IN
    /\ round[d].pc = "sending" /\ round[d].cur = None
    /\ m \in round[d].todo
    /\ IF Due(d, e)
       THEN /\ Post(d, e)
            /\ Goto(d, [round[d] EXCEPT !.todo = @ \ {m},
                          !.cur = IF DoneWhenSent(m) THEN m ELSE None])
       ELSE /\ Goto(d, [round[d] EXCEPT !.todo = @ \ {m}])
            /\ UNCHANGED <<mail, posted, last_sent>>
    /\ UNCHANGED <<durable, bundle, ui, world>>

\* A receipt the relay accepted leaves the outbox.
ReceiptSent(d) ==
    LET m == round[d].cur IN
    /\ round[d].pc = "sending" /\ m # None
    /\ acked' = [acked EXCEPT ![d] = @ \cup ({m} \cap Outbox(d))]
    /\ Goto(d, [round[d] EXCEPT !.cur = None])
    /\ UNCHANGED <<session, hsin, sent, abandoned, inbox, seen, prekey, conflict,
                   acceptOnly, starts, relay, last_sent, ui, world>>

\* The end of publish_pending: the first pass over the mailbox begins, or the
\* round is over.
Published(d) ==
    /\ round[d].pc = "sending" /\ round[d].cur = None /\ round[d].todo = {}
    /\ Goto(d, IF round[d].last THEN EndOfSync
               ELSE [Idle EXCEPT !.pc = "handshakes", !.todo = mail[d]])
    /\ UNCHANGED <<durable, relay, last_sent, ui, world>>

-----------------------------------------------------------------------------
(* process.                                                                *)

\* The prekeys the handshake names are the ones held now.
Answerable(d, s) == s.pk = prekey[d]

\* A handshake.  With a session it is dropped, and if that session is an
\* unanswered start of our own the conflict is about to be recorded.
\* Otherwise it is recorded as provisional, or refused.
ProcessHandshake(d, e) ==
    /\ round[d].pc = "handshakes"
    /\ e \in round[d].todo /\ e.kind = "handshake"
    /\ hsin' = IF session[d] = None /\ Answerable(d, e.sid)
               THEN [hsin EXCEPT ![d] = e.sid] ELSE hsin
    /\ Goto(d, [round[d] EXCEPT
          !.pc = IF session[d] # None /\ session[d].by = d /\ ~Confirmed(d)
                 THEN "flag" ELSE "handshakes",
          !.todo = @ \ {e}, !.del = @ \cup {e}])
    /\ UNCHANGED <<session, sent, acked, abandoned, inbox, seen, prekey, conflict,
                   acceptOnly, starts, relay, last_sent, ui, world>>

\* chat::set_flag(CONFLICT).
SetConflict(d) ==
    /\ round[d].pc = "flag"
    /\ conflict' = [conflict EXCEPT ![d] = TRUE]
    /\ Goto(d, [round[d] EXCEPT !.pc = "handshakes"])
    /\ UNCHANGED <<session, hsin, sent, acked, abandoned, inbox, seen, prekey,
                   acceptOnly, starts, relay, last_sent, ui, world>>

\* The end of the first pass, and the start of the second over that part of
\* the mailbox: what came later waits for the next round.
EndHandshakes(d) ==
    /\ round[d].pc = "handshakes"
    /\ \A e \in round[d].todo : e.kind # "handshake"
    /\ mail' = [mail EXCEPT ![d] = @ \ round[d].del]
    /\ Goto(d, [Idle EXCEPT !.pc = "messages", !.todo = round[d].todo \cap mail[d]])
    /\ UNCHANGED <<durable, posted, bundle, last_sent, ui, world>>

\* receive_committed accepts m: on the session, or as the first message of the
\* provisional handshake, which then becomes the session.
FirstMessage(d, m) ==
    session[d] = None /\ hsin[d] # None /\ Answerable(d, hsin[d]) /\ m.sid = hsin[d]

Fresh(d, m) == session[d] # None /\ m.sid = session[d] /\ m \notin Accepted(d)

AcceptMessage(d, e) ==
    LET m == e.msg IN
    /\ round[d].pc = "messages" /\ round[d].cur = None
    /\ e \in round[d].todo
    /\ FirstMessage(d, m) \/ Fresh(d, m)
    /\ inbox' = [inbox EXCEPT ![d] = @ \cup {m}]
    /\ IF session[d] = None
       THEN /\ session' = [session EXCEPT ![d] = hsin[d]]
            /\ hsin' = [hsin EXCEPT ![d] = None]
            /\ prekey' = [prekey EXCEPT ![d] = @ + 1]
       ELSE UNCHANGED <<session, hsin, prekey>>
    /\ Goto(d, [round[d] EXCEPT !.todo = @ \ {e}, !.del = @ \cup {e},
                                !.cur = m, !.call = 1])
    /\ UNCHANGED <<sent, acked, abandoned, seen, conflict, acceptOnly, starts,
                   relay, last_sent, ui, world>>

\* receipt_again: if the receipt left the outbox, another one is committed, at
\* most one per minute.
\* Variant: the receipt that left the outbox is taken to have arrived.
ReceiptOnce(d, m) == Commit(d, ReceiptOf(m, 0))
ReceiptAgain(d, m) ==
    LET first == {x \in sent[d] : x.cid = ReceiptOf(m, 0)} IN
    IF first # {} /\ first \subseteq acked[d]
    THEN Commit(d, ReceiptOf(m, minute + 1))
    ELSE Commit(d, ReceiptOf(m, 0))

\* A message accepted before, whatever it carries.
DuplicateMessage(d, e) ==
    LET m == e.msg IN
    /\ round[d].pc = "messages" /\ round[d].cur = None
    /\ e \in round[d].todo
    /\ session[d] # None /\ m \in Accepted(d)
    /\ ReceiptAgain(d, m)
    /\ Goto(d, [round[d] EXCEPT !.todo = @ \ {e}, !.del = @ \cup {e}])
    /\ UNCHANGED <<session, hsin, acked, abandoned, inbox, seen, prekey, conflict,
                   acceptOnly, starts, relay, last_sent, ui, world>>

\* Any other message: it waits on the relay for its handshake (NoSession), or
\* does not authenticate, or its handshake can no longer be answered.
OtherMessage(d, e) ==
    LET m == e.msg IN
    /\ round[d].pc = "messages" /\ round[d].cur = None
    /\ e \in round[d].todo
    /\ ~FirstMessage(d, m) /\ ~Fresh(d, m)
    /\ ~(session[d] # None /\ m \in Accepted(d))
    /\ Goto(d, [round[d] EXCEPT !.todo = @ \ {e},
                  !.del = IF session[d] = None /\ hsin[d] = None
                          THEN @ ELSE @ \cup {e}])
    /\ UNCHANGED <<durable, relay, last_sent, ui, world>>

\* The end of the second pass, before the receipts it produced are published.
EndMessages(d) ==
    /\ round[d].pc = "messages" /\ round[d].cur = None /\ round[d].todo = {}
    /\ mail' = [mail EXCEPT ![d] = @ \ round[d].del]
    /\ Goto(d, [Idle EXCEPT !.pc = "publish", !.last = TRUE])
    /\ UNCHANGED <<durable, posted, bundle, last_sent, ui, world>>

-----------------------------------------------------------------------------
(* Sessions.                                                               *)

\* sync_conversations_round after sync: a session the peer answered ends a
\* conflict and the wait; without a session, with texts queued, and unless this
\* device waits for the peer's, the peer's bundle is fetched to start one.  (A
\* starter whose user writes nothing calls start_session itself.)
Waiting(d) ==
    d \in starters /\ (Texts[d] # {} => \E t \in Texts[d] : Text(t) \notin Cids(d))

AfterSync(d) ==
    /\ round[d].pc = "after"
    /\ LET done == session[d] # None /\ Confirmed(d)
       IN  /\ conflict' = [conflict EXCEPT ![d] = @ /\ ~done]
           /\ acceptOnly' = [acceptOnly EXCEPT ![d] = @ /\ ~done]
    /\ Goto(d, IF /\ session[d] = None /\ ~acceptOnly[d]
                  /\ Waiting(d) /\ bundle[Peer(d)] # 0
               THEN [Idle EXCEPT !.pc = "start", !.pk = bundle[Peer(d)]]
               ELSE Idle)
    /\ UNCHANGED <<session, hsin, sent, acked, abandoned, inbox, seen, prekey,
                   starts, relay, last_sent, ui, world>>

\* start_session: establish_session_initiator with the bundle that was fetched.
StartSession(d) ==
    /\ round[d].pc = "start" /\ session[d] = None
    /\ session' = [session EXCEPT ![d] =
                     [by |-> d, n |-> starts[d], pk |-> round[d].pk]]
    /\ starts' = [starts EXCEPT ![d] = @ + 1]
    /\ Goto(d, [Idle EXCEPT !.pc = "open"])
    /\ UNCHANGED <<hsin, sent, acked, abandoned, inbox, seen, prekey, conflict,
                   acceptOnly, relay, last_sent, ui, world>>

\* start_session: the OPEN message, a transaction of its own.
SendOpen(d) ==
    /\ round[d].pc = "open"
    /\ IF session[d] # None THEN Commit(d, Open) ELSE UNCHANGED sent
    /\ Goto(d, Idle)
    /\ UNCHANGED <<session, hsin, acked, abandoned, inbox, seen, prekey, conflict,
                   acceptOnly, starts, relay, last_sent, ui, world>>

-----------------------------------------------------------------------------
(* The user's thread.                                                      *)

\* A text is committed on the session there is (send_text, chat_send, refresh).
SendText(d, t) ==
    /\ session[d] # None
    /\ Text(t) \notin Cids(d)
    /\ Commit(d, Text(t))
    /\ UNCHANGED <<session, hsin, acked, abandoned, inbox, seen, prekey, conflict,
                   acceptOnly, starts, relay, last_sent, round, ui, world>>

\* mark_read.
MarkRead(d, m) ==
    /\ m \in inbox[d] /\ Payload(m).kind = "text"
    /\ inbox' = [inbox EXCEPT ![d] = @ \ {m}]
    /\ seen' = [seen EXCEPT ![d] = @ \cup {m}]
    /\ UNCHANGED <<session, hsin, sent, acked, abandoned, prekey, conflict,
                   acceptOnly, starts, relay, last_sent, round, ui, world>>

UiIdle == [pc |-> "idle", list |-> {}]

\* resolve_session_conflict, its checks: only with the conflict flag, on the
\* device with the greater key.  A session the peer answered ends it.
\* Variant: either device may resolve.
MayResolveEither(d) == conflict[d]
MayResolve(d) == conflict[d] /\ d = Greater

ResolveBegin(d) ==
    LET done == session[d] # None /\ Confirmed(d) IN
    /\ ui[d].pc = "idle"
    /\ MayResolve(d)
    /\ conflict' = [conflict EXCEPT ![d] = ~done]
    /\ ui' = [ui EXCEPT ![d] = IF done THEN UiIdle
                 ELSE [UiIdle EXCEPT !.pc =
                         IF session[d] = None THEN "flags" ELSE "mark"]]
    /\ UNCHANGED <<session, hsin, sent, acked, abandoned, inbox, seen, prekey,
                   acceptOnly, starts, relay, last_sent, round, world>>

\* FLAG_ACCEPT_ONLY is set, the texts are marked, and what is pending is read.
ResolveMark(d) ==
    /\ ui[d].pc = "mark"
    /\ acceptOnly' = [acceptOnly EXCEPT ![d] = TRUE]
    /\ ui' = [ui EXCEPT ![d] = [pc |-> "abandon", list |-> Outbox(d)]]
    /\ UNCHANGED <<session, hsin, sent, acked, abandoned, inbox, seen, prekey,
                   conflict, starts, relay, last_sent, round, world>>

\* abandon_outgoing for one message of the list.
ResolveAbandon(d, m) ==
    /\ ui[d].pc = "abandon" /\ m \in ui[d].list
    /\ abandoned' = [abandoned EXCEPT ![d] = @ \cup ({m} \cap Outbox(d))]
    /\ ui' = [ui EXCEPT ![d].list = @ \ {m}]
    /\ UNCHANGED <<session, hsin, sent, acked, inbox, seen, prekey, conflict,
                   acceptOnly, starts, relay, last_sent, round, world>>

\* remove_session: refused, and the call with it, if the peer answered or a
\* message was committed meanwhile.
Removable(d) == ~Confirmed(d) /\ Outbox(d) = {}

ResolveRemove(d) ==
    /\ ui[d].pc = "abandon" /\ ui[d].list = {}
    /\ IF Removable(d)
       THEN /\ session' = [session EXCEPT ![d] = None]
            /\ ui' = [ui EXCEPT ![d] = [UiIdle EXCEPT !.pc = "flags"]]
       ELSE /\ ui' = [ui EXCEPT ![d] = UiIdle]
            /\ UNCHANGED session
    /\ UNCHANGED <<hsin, sent, acked, abandoned, inbox, seen, prekey, conflict,
                   acceptOnly, starts, relay, last_sent, round, world>>

\* The flags afterwards: no conflict, and wait for the peer's session.
ResolveFlags(d) ==
    /\ ui[d].pc = "flags"
    /\ conflict' = [conflict EXCEPT ![d] = FALSE]
    /\ acceptOnly' = [acceptOnly EXCEPT ![d] = TRUE]
    /\ ui' = [ui EXCEPT ![d] = UiIdle]
    /\ UNCHANGED <<session, hsin, sent, acked, abandoned, inbox, seen, prekey,
                   starts, relay, last_sent, round, world>>

-----------------------------------------------------------------------------
(* Time and faults.                                                        *)

\* retransmit_after has passed since the last round: all that is pending is due.
Elapse(d) ==
    /\ round[d].pc = "idle"
    /\ \E e \in last_sent[d] :
          \/ e.kind = "handshake" /\ e.sid = session[d] /\ ~Confirmed(d)
          \/ e.kind = "message" /\ e.msg \in Outbox(d)
    /\ last_sent' = [last_sent EXCEPT ![d] = {}]
    /\ UNCHANGED <<durable, relay, round, ui, world>>

\* A minute passes.  It is counted from when a receipt left an outbox: nothing
\* reads the clock before.
Tick ==
    /\ minute < MaxMinute
    /\ \E d \in Device : \E m \in acked[d] : m.cid.kind = "receipt"
    /\ minute' = minute + 1
    /\ UNCHANGED <<durable, relay, last_sent, round, ui, starters, faults>>

\* Faults stop before the last minute, so that a receipt of a later minute is
\* always possible.
Fault(kind) ==
    /\ kind \in Faults
    /\ faults < MaxFault /\ minute < MaxMinute
    /\ faults' = faults + 1
    /\ UNCHANGED <<starters, minute>>

\* An envelope is lost, expires or is deleted by another reader.
Lose(d, e) ==
    /\ Fault("lose")
    /\ e \in mail[d]
    /\ mail' = [mail EXCEPT ![d] = @ \ {e}]
    /\ UNCHANGED <<durable, posted, bundle, last_sent, round, ui>>

\* An envelope arrives again.
Replay(d, e) ==
    /\ Fault("replay")
    /\ e \in posted[d]
    /\ mail' = [mail EXCEPT ![d] = @ \cup {e}]
    /\ UNCHANGED <<durable, posted, bundle, last_sent, round, ui>>

\* An error of the relay, the network or the store ends sync, or what follows.
RoundFails(d) ==
    /\ Fault("fail")
    /\ round[d].pc # "idle"
    /\ Goto(d, IF round[d].pc \in {"after", "start", "open"} THEN Idle ELSE EndOfSync)
    /\ UNCHANGED <<durable, relay, last_sent, ui>>

\* The process dies: the store and the relay keep what they have.
Crash(d) ==
    /\ Fault("crash")
    /\ Goto(d, Idle)
    /\ ui' = [ui EXCEPT ![d] = UiIdle]
    /\ last_sent' = [last_sent EXCEPT ![d] = {}]
    /\ UNCHANGED <<durable, relay>>

\* Another contact's first message uses up the one-time prekey of d.
OtherContact(d) ==
    /\ Fault("prekey")
    /\ prekey[d] # 0
    /\ prekey' = [prekey EXCEPT ![d] = @ + 1]
    /\ UNCHANGED <<session, hsin, sent, acked, abandoned, inbox, seen, conflict,
                   acceptOnly, starts, relay, last_sent, round, ui>>

-----------------------------------------------------------------------------
Init ==
    /\ session = [d \in Device |-> None]
    /\ hsin = [d \in Device |-> None]
    /\ sent = [d \in Device |-> {}]
    /\ acked = [d \in Device |-> {}]
    /\ abandoned = [d \in Device |-> {}]
    /\ inbox = [d \in Device |-> {}]
    /\ seen = [d \in Device |-> {}]
    /\ prekey = [d \in Device |-> 0]
    /\ conflict = [d \in Device |-> FALSE]
    /\ acceptOnly = [d \in Device |-> FALSE]
    /\ starts = [d \in Device |-> 0]
    /\ mail = [d \in Device |-> {}]
    /\ posted = [d \in Device |-> {}]
    /\ bundle = [d \in Device |-> 0]
    /\ last_sent = [d \in Device |-> {}]
    /\ round = [d \in Device |-> Idle]
    /\ ui = [d \in Device |-> UiIdle]
    /\ starters \in Starts
    /\ minute = 0
    /\ faults \in 0..MaxFault

Sync(d) ==
    \/ BeginRound(d)
    \/ \E m \in round[d].todo : SettleNext(d, m) \/ SendPending(d, m)
    \/ SettleFirst(d) \/ SettleSecond(d)
    \/ PutBundle(d) \/ Publish(d) \/ ReceiptSent(d) \/ Published(d)
    \/ \E e \in round[d].todo :
          \/ ProcessHandshake(d, e)
          \/ AcceptMessage(d, e) \/ DuplicateMessage(d, e) \/ OtherMessage(d, e)
    \/ SetConflict(d) \/ EndHandshakes(d) \/ EndMessages(d)
    \/ AfterSync(d) \/ StartSession(d) \/ SendOpen(d)

Write(d) == \E t \in Texts[d] : SendText(d, t)

ResolveConflict(d) ==
    \/ ResolveBegin(d) \/ ResolveMark(d)
    \/ \E m \in ui[d].list : ResolveAbandon(d, m)
    \/ ResolveRemove(d) \/ ResolveFlags(d)

Next ==
    \/ \E d \in Device :
          \/ Sync(d) \/ Write(d) \/ ResolveConflict(d) \/ Elapse(d)
          \/ \E m \in inbox[d] : MarkRead(d, m)
          \/ \E e \in mail[d] : Lose(d, e)
          \/ \E e \in posted[d] : Replay(d, e)
          \/ RoundFails(d) \/ Crash(d) \/ OtherContact(d)
    \/ Tick

Spec == Init /\ [][Next]_vars

-----------------------------------------------------------------------------
(* Properties.                                                             *)

\* Delivered means delivered: a text or OPEN leaves the outbox on a receipt
\* only when the peer's device has accepted it, whatever was lost, repeated,
\* replayed or crashed.
ReceiptTruth ==
    \A d \in Device : \A m \in acked[d] :
        m.cid.kind # "receipt" => m \in Accepted(Peer(d))

\* Not delivered means not delivered: the peer has not accepted, and does not
\* later accept, a message that resolve_session_conflict gave up.
AbandonedNeverAccepted ==
    \A d \in Device : abandoned[d] \cap Accepted(Peer(d)) = {}

\* A session that has received a message is held by both devices, and is the
\* same one: no conversation is split over two sessions.
ConfirmedIsShared ==
    \A d \in Device : session[d] # None /\ Confirmed(d) =>
        session[Peer(d)] = session[d]

\* Every text is acknowledged or given up in the end: a lost envelope or a crash
\* only delays it, and so do two sessions started at once.  It is about a peer
\* that can answer our handshake: see Refused in module Chat.
TextsSettle ==
    \A d \in Device : \A t \in Texts[d] :
        <>(\E m \in sent[d] : m.cid = Text(t) /\ m \notin Outbox(d))
=============================================================================
