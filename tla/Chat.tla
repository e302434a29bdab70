------------------------------- MODULE Chat -------------------------------
(***************************************************************************)
(* The history of one conversation on one device: crates/mobile-ffi,       *)
(* network/chat.rs, with the parts of network.rs it calls.                 *)
(*                                                                         *)
(* Threads of one process work on one encrypted store: the sync thread     *)
(* repeats sync_conversations_round, the user's threads call chat_send,    *)
(* send_text, chat_entries and resolve_session_conflict.  Every read and   *)
(* every transaction is one step, so what a thread read may be stale when  *)
(* it writes.  The durable layer appears as what module Messaging shows of *)
(* it: a logical text is encrypted once and then pending, acknowledged or  *)
(* abandoned; the relay and the peer as what module Network shows of two   *)
(* devices: a peer that started a session of its own never accepts ours,   *)
(* unless it is the one that resolves the conflict.                        *)
(***************************************************************************)
EXTENDS Naturals, Sequences

CONSTANTS
    App,          \* ids the application gives its texts
    Incoming,     \* message ids of the peer's texts
    Sync,         \* the sync thread
    Chatter,      \* threads of the application that call chat_send and chat_entries,
    RawSender,    \* send_text,
    Resolver,     \* and resolve_session_conflict
    None,         \* an absent record
    Faults,       \* the kinds of faults that may happen
    MaxFault      \* how many

ASSUME ChatAssumption ==
    /\ Sync \notin Chatter \cup RawSender \cup Resolver
    /\ None \notin App \cup Incoming
    /\ App \cap Incoming = {}
    /\ Faults \subseteq {"crash", "network", "storage", "unknown"}
    /\ MaxFault \in Nat

User == Chatter \cup RawSender \cup Resolver
Thread == User \cup {Sync}

VARIABLES
    \* The chat records of the conversation.
    entry,       \* entry and index records: the entry with number n is entry[n]
    claim,       \* ids taken by send_text
    flags,       \* the conflict and accept-only flags of the meta record
    \* The durable layer's records of the peer.
    session,     \* what session is stored
    sent,        \* the send-id record of each text
    inbox, seen, \* the peer's texts: accepted and unread, read
    \* In memory.
    unresolved,  \* whether a commit on the session is unresolved
    last_sent,   \* texts the relay accepted in this process's lifetime
    th,          \* the call each thread is in
    \* The rest of the world.
    opening,     \* the OPEN message of the session we started: "none", "committed",
                 \* then "posted" with the handshake; "refused" by the peer
    left,        \* texts the relay accepted
    peer,        \* the session the peer holds
    peerHas,     \* texts the peer accepted
    greater,     \* whether our key is greater than the peer's
    faults       \* faults so far

chat == <<entry, claim, flags>>
durable == <<session, sent, inbox, seen>>
memory == <<unresolved, last_sent>>
world == <<opening, left, peer, peerHas, greater, faults>>
vars == <<chat, durable, memory, th, world>>

-----------------------------------------------------------------------------
(* Records.                                                                *)

State == {"Queued", "Pending", "Transmitted", "Delivered", "NotDelivered",
          "Received"}

Entry == [outgoing: BOOLEAN, id: App \cup Incoming, state: State,
          message_id: App \cup Incoming \cup {None}]

\* A session we started is "ours" until a message of the peer authenticated
\* under it, then "shared".  "theirs" was started by the peer.  "legacy" was
\* stored by an older build on receipt of a handshake and cannot send yet.
Session == {"none", "legacy", "ours", "shared", "theirs"}

\* The session a text was encrypted for, which call committed it, and what
\* became of it.
Sent == [by: {"chat", "raw"}, on: {"ours", "theirs"},
         state: {"pending", "acknowledged", "abandoned"}]

ASSUME NoneIsNoRecord == None \notin Sent

Idle ==
    [pc |-> "idle", id |-> None, raw |-> FALSE, todo |-> {},
     pending |-> {}, can_send |-> FALSE, entries |-> {}, to |-> "Queued",
     waiting |-> FALSE, committed |-> FALSE, started |-> FALSE, part |-> 0]

HasSession == session # "none"
Confirmed == session \in {"shared", "theirs"}
IsLegacyUnconfirmed == session = "legacy"
PendingOutgoing == {a \in App : sent[a] # None /\ sent[a].state = "pending"}

\* The meta record before anything is written to it, and update_meta: one
\* transaction, which keeps what the caller does not set.
NoFlags == [conflict |-> FALSE, accept_only |-> FALSE]
UpdateMeta(new) == flags' = new

\* The index records: which texts have an entry.
Indexed(id) == \E n \in DOMAIN entry : entry[n].id = id

Goto(t, r) == th' = [th EXCEPT ![t] = r]
At(t, pc) == th[t].pc = pc
To(t, pc) == Goto(t, [th[t] EXCEPT !.pc = pc])

\* A step that reads or decides, and a call that returns, normally or with an
\* error, change nothing else.
Only(t, r) == Goto(t, r) /\ UNCHANGED <<chat, durable, memory, world>>
Return(t) == Only(t, Idle)

-----------------------------------------------------------------------------
(* Entries only move forward.                                              *)

Forward ==
    {<<"Queued", s>> : s \in {"Pending", "Transmitted", "Delivered", "NotDelivered"}}
    \cup {<<"Pending", s>> : s \in {"Transmitted", "Delivered", "NotDelivered"}}
    \cup {<<"Transmitted", s>> : s \in {"Delivered", "NotDelivered"}}

\* advance: a stale caller neither undoes a state nor replaces a message id.
\* Variant: it writes what the caller decided.
Overwritten(e, state, id) ==
    [e EXCEPT !.state = state, !.message_id = IF id = None THEN @ ELSE id]
Advanced(e, state, id) ==
    [e EXCEPT !.state = IF <<@, state>> \in Forward THEN state ELSE @,
              !.message_id = IF @ = None THEN id ELSE @]

Append1(outgoing, id) ==
    entry' = Append(entry,
        [outgoing |-> outgoing, id |-> id,
         state |-> IF outgoing THEN "Queued" ELSE "Received",
         message_id |-> IF outgoing THEN None ELSE id])

-----------------------------------------------------------------------------
(* Committing a text: send_committed_text.                                 *)

\* The outcomes of Messenger::send that change nothing: a report of what was
\* committed before, or a refusal.
SendReports(a) == ~unresolved /\ HasSession /\ sent[a] # None
SendRefused(a) ==
    \/ unresolved
    \/ ~HasSession
    \/ sent[a] = None /\ IsLegacyUnconfirmed
SendCommits(a) == ~SendReports(a) /\ ~SendRefused(a)

Committed(a, by) ==
    [sent EXCEPT ![a] =
        [by |-> by, on |-> IF session = "theirs" THEN "theirs" ELSE "ours",
         state |-> "pending"]]

Fault(kind) ==
    /\ kind \in Faults
    /\ faults < MaxFault
    /\ faults' = faults + 1

\* A COMMIT that fails without saying whether it was applied: the session
\* stays unresolved, and the call returns an error.
Unknown ==
    /\ Fault("unknown")
    /\ unresolved' = TRUE
    /\ UNCHANGED <<last_sent, opening, left, peer, peerHas, greater>>

\* What TextState and prior_send make of a send record.
ShownAs(a) ==
    CASE sent[a].state = "pending" -> "Pending"
      [] sent[a].state = "acknowledged" -> "Delivered"
      [] sent[a].state = "abandoned" -> "NotDelivered"

-----------------------------------------------------------------------------
(* refresh: bring the history up to date with the local stores.            *)

\* Where the caller goes on.  The round's four refreshes are its parts.
Refreshed(t) ==
    LET r == [Idle EXCEPT !.part = th[t].part,
                          !.started = th[t].started, !.waiting = th[t].waiting]
    IN  IF t # Sync THEN Idle
        ELSE CASE r.part = 1 -> [r EXCEPT !.pc = "sync"]
               [] r.part = 2 -> [r EXCEPT !.pc = "decide"]
               [] r.part = 3 -> IF r.started \/ th[t].committed
                                THEN [r EXCEPT !.pc = "sync"] ELSE Idle
               [] r.part = 4 -> Idle

RefreshBegin(t) ==
    /\ At(t, "refresh")
    /\ Only(t, [th[t] EXCEPT !.pc = IF HasSession THEN "texts" ELSE "entries"])

RefreshTexts(t) ==
    /\ At(t, "texts")
    /\ IF HasSession
       THEN Only(t, [th[t] EXCEPT !.todo = inbox,
                            !.pc = IF inbox = {} THEN "outbox" ELSE "record"])
       ELSE Return(t)

\* record_incoming: the entry and its index in one transaction, if the text
\* has no entry yet.
\* Variant: the index is not read.
RecordAgain(m) == Append1(FALSE, m)
Record(m) == IF Indexed(m) THEN UNCHANGED entry ELSE Append1(FALSE, m)

RecordIncoming(t) ==
    /\ At(t, "record")
    /\ \E m \in th[t].todo :
          /\ Record(m)
          /\ Goto(t, [th[t] EXCEPT !.pc = "mark", !.id = m])
    /\ UNCHANGED <<claim, flags, durable, memory, world>>

\* mark_read, that is acknowledge_incoming.
MarkRead(t) ==
    LET m == th[t].id
        rest == th[t].todo \ {m}
    IN  /\ At(t, "mark")
        /\ IF HasSession
           THEN /\ inbox' = inbox \ {m}
                /\ seen' = seen \cup {m}
                /\ Goto(t, [th[t] EXCEPT !.todo = rest, !.id = None,
                                !.pc = IF rest = {} THEN "outbox" ELSE "record"])
                /\ UNCHANGED <<chat, session, sent, memory, world>>
           ELSE Return(t)

RefreshOutbox(t) ==
    /\ At(t, "outbox")
    /\ IF HasSession
       THEN Only(t, [th[t] EXCEPT !.pc = "can_send", !.pending = PendingOutgoing])
       ELSE Return(t)

\* is_legacy_unconfirmed is false for a session that is gone, too.
\* Variant: any session can send.
AnyCanSend == TRUE
CanSend == ~IsLegacyUnconfirmed

RefreshCanSend(t) ==
    /\ At(t, "can_send")
    /\ Only(t, [th[t] EXCEPT !.pc = "entries", !.can_send = CanSend])

\* The entries with their numbers, as they read now; those that refresh does
\* not look at are left out.
Open(e) == e.outgoing /\ e.state \in {"Queued", "Pending", "Transmitted"}
Snapshot ==
    {[seq |-> n, e |-> entry[n]] : n \in {k \in DOMAIN entry : Open(entry[k])}}

RefreshEntries(t) ==
    /\ At(t, "entries")
    /\ Only(t, [th[t] EXCEPT !.pc = "each", !.entries = Snapshot,
                             !.waiting = FALSE, !.committed = FALSE])

\* They are gone through by their numbers.
First(xs) == CHOOSE x \in xs : \A y \in xs : x.seq <= y.seq
Current(t) == First(th[t].entries)
Skip(t) == [th[t] EXCEPT !.pc = "each", !.entries = @ \ {Current(t)}, !.id = None]

RefreshEnd(t) ==
    /\ At(t, "each")
    /\ th[t].entries = {}
    /\ Only(t, Refreshed(t))

\* A queued text and no session that can send it.
Waits(t) ==
    /\ At(t, "each")
    /\ th[t].entries # {}
    /\ Current(t).e.state = "Queued"
    /\ ~th[t].can_send
    /\ Only(t, [Skip(t) EXCEPT !.waiting = TRUE])

\* A queued text is committed under the id of its entry.
SendQueued(t) ==
    LET a == Current(t).e.id IN
    /\ At(t, "each")
    /\ th[t].entries # {}
    /\ Current(t).e.state = "Queued"
    /\ th[t].can_send
    /\ \/ SendRefused(a) /\ Return(t)
       \/ /\ SendReports(a)
          /\ Only(t, [th[t] EXCEPT !.pc = "advance", !.to = ShownAs(a), !.id = a,
                                   !.committed = TRUE])
       \/ /\ SendCommits(a)
          /\ sent' = Committed(a, "chat")
          /\ Goto(t, [th[t] EXCEPT !.pc = "advance", !.to = "Pending", !.id = a,
                                   !.committed = TRUE])
          /\ UNCHANGED <<chat, session, inbox, seen, memory, world>>
       \/ /\ SendCommits(a)
          /\ sent' \in {sent, Committed(a, "chat")}
          /\ Unknown
          /\ Goto(t, Idle)
          /\ UNCHANGED <<chat, session, inbox, seen>>

\* A committed text that was not in the outbox: its send record says why.
\* Variant: its absence is read as a receipt.
AbsenceIsReceipt(a) == {"Delivered"}
WhyGone(a) ==
    IF sent[a] # None /\ sent[a].state # "pending" THEN {ShownAs(a)} ELSE {}

\* A committed text: out of the outbox, or accepted by the relay.
CheckSent(t) ==
    LET e == Current(t).e
        next == IF e.message_id \notin th[t].pending
                THEN IF e.message_id = e.id THEN WhyGone(e.id) ELSE {}
                ELSE IF e.state = "Pending" /\ e.message_id \in last_sent
                     THEN {"Transmitted"} ELSE {}
    IN  /\ At(t, "each")
        /\ th[t].entries # {}
        /\ e.state # "Queued"
        /\ \/ next = {} /\ Only(t, Skip(t))
           \/ \E state \in next :
                 Only(t, [th[t] EXCEPT !.pc = "advance", !.to = state])

Advance(t) ==
    /\ At(t, "advance")
    /\ entry' = [entry EXCEPT ![Current(t).seq] = Advanced(@, th[t].to, th[t].id)]
    /\ Goto(t, [Skip(t) EXCEPT !.to = "Queued"])
    /\ UNCHANGED <<claim, flags, durable, memory, world>>

Refresh(t) ==
    \/ RefreshBegin(t) \/ RefreshTexts(t) \/ RecordIncoming(t) \/ MarkRead(t)
    \/ RefreshOutbox(t) \/ RefreshCanSend(t) \/ RefreshEntries(t)
    \/ Waits(t) \/ SendQueued(t) \/ CheckSent(t) \/ Advance(t) \/ RefreshEnd(t)

-----------------------------------------------------------------------------
(* The application's calls.                                                *)

\* chat_send: has send_text committed a text under this id?
ChatSend(u, a) ==
    /\ u \in Chatter
    /\ At(u, "idle")
    /\ Only(u, [Idle EXCEPT !.pc = "queue", !.id = a,
                            !.raw = sent[a] # None])

\* Whether chat_send refuses the id: send_text took it.
\* Variant: only a text it committed counts.
TakenIfSent(u) == th[u].raw
Taken(u) == th[u].raw \/ th[u].id \in claim

\* chat_send's transaction, then refresh.
Queue(u) ==
    LET a == th[u].id IN
    /\ At(u, "queue")
    /\ IF Indexed(a) \/ ~Taken(u)
       THEN /\ IF Indexed(a) THEN UNCHANGED entry ELSE Append1(TRUE, a)
            /\ Goto(u, [Idle EXCEPT !.pc = "refresh"])
            /\ UNCHANGED <<claim, flags, durable, memory, world>>
       ELSE Return(u)

\* send_text: claim_for_send_text, refused if the history has the id.
SendText(u, a) ==
    /\ u \in RawSender
    /\ ~Indexed(a)
    /\ At(u, "idle")
    /\ Goto(u, [Idle EXCEPT !.pc = "raw_send", !.id = a])
    /\ claim' = claim \cup {a}
    /\ UNCHANGED <<entry, flags, durable, memory, world>>

RawSend(u) ==
    LET a == th[u].id IN
    /\ At(u, "raw_send")
    /\ \/ ~SendCommits(a) /\ Return(u)
       \/ /\ SendCommits(a)
          /\ Goto(u, Idle)
          /\ UNCHANGED <<chat, session, inbox, seen>>
          /\ \/ sent' = Committed(a, "raw") /\ UNCHANGED <<memory, world>>
             \/ sent' \in {sent, Committed(a, "raw")} /\ Unknown

ChatEntries(u) ==
    /\ u \in Chatter
    /\ At(u, "idle")
    /\ Only(u, [Idle EXCEPT !.pc = "refresh"])

\* resolve_session_conflict: only with a conflict recorded, only on the device
\* with the greater key.
\* Variant: on either device.
MayResolveEither == flags.conflict
MayResolve == flags.conflict /\ greater

ResolveBegin(u) ==
    /\ u \in Resolver
    /\ MayResolve
    /\ At(u, "idle")
    /\ Only(u, [Idle EXCEPT !.pc = "check"])

ResolveCheck(u) ==
    /\ At(u, "check")
    /\ Only(u, [th[u] EXCEPT !.pc = IF HasSession THEN "confirmed" ELSE "flags"])

\* confirmed fails if the session is gone by now.
ResolveConfirmed(u) ==
    /\ At(u, "confirmed")
    /\ IF HasSession
       THEN Only(u, [th[u] EXCEPT !.pc = IF Confirmed THEN "settled" ELSE "only"])
       ELSE Return(u)

ResolveSettled(u) ==
    /\ At(u, "settled")
    /\ UpdateMeta([flags EXCEPT !.conflict = FALSE])
    /\ Goto(u, Idle)
    /\ UNCHANGED <<entry, claim, durable, memory, world>>

ResolveAcceptOnly(u) ==
    /\ At(u, "only")
    /\ UpdateMeta([flags EXCEPT !.accept_only = TRUE])
    /\ To(u, "list")
    /\ UNCHANGED <<entry, claim, durable, memory, world>>

ResolveList(u) ==
    /\ At(u, "list")
    /\ Only(u, [th[u] EXCEPT !.pc = "not_delivered",
            !.entries = {x \in Snapshot : x.e.state # "Queued"}])

\* The entries of committed texts first, then the outbox is read.
ResolveMark(u) ==
    /\ At(u, "not_delivered")
    /\ IF th[u].entries # {}
       THEN /\ entry' = [entry EXCEPT ![Current(u).seq] =
                                Advanced(@, "NotDelivered", None)]
            /\ Goto(u, [th[u] EXCEPT !.entries = @ \ {Current(u)}])
            /\ UNCHANGED <<claim, flags, durable, memory, world>>
       ELSE IF HasSession
       THEN Only(u, [th[u] EXCEPT !.pc = "abandon", !.todo = PendingOutgoing])
       ELSE Return(u)

\* abandon_outgoing, for each message listed; one that is not pending any more
\* stays as it is.
ResolveAbandon(u) ==
    /\ At(u, "abandon")
    /\ \E a \in th[u].todo :
          IF HasSession
          THEN /\ sent' = IF a \in PendingOutgoing
                          THEN [sent EXCEPT ![a].state = "abandoned"] ELSE sent
               /\ Goto(u, [th[u] EXCEPT !.todo = @ \ {a}])
               /\ UNCHANGED <<chat, session, inbox, seen, memory, world>>
          ELSE Return(u)

\* remove_session: refused unless nothing is left to settle.
Removable == ~unresolved /\ session \in {"ours", "legacy"} /\ PendingOutgoing = {}

ResolveRemove(u) ==
    /\ At(u, "abandon")
    /\ th[u].todo = {}
    /\ IF Removable
       THEN /\ session' = "none"
            /\ To(u, "flags")
            /\ UNCHANGED <<chat, sent, inbox, seen, memory, world>>
       ELSE Return(u)

ResolveFlags(u) ==
    /\ At(u, "flags")
    /\ UpdateMeta([conflict |-> FALSE, accept_only |-> TRUE])
    /\ Goto(u, Idle)
    /\ UNCHANGED <<entry, claim, durable, memory, world>>

Resolve(u) ==
    \/ ResolveBegin(u) \/ ResolveCheck(u) \/ ResolveConfirmed(u)
    \/ ResolveSettled(u) \/ ResolveAcceptOnly(u) \/ ResolveList(u) \/ ResolveMark(u)
    \/ ResolveAbandon(u) \/ ResolveRemove(u) \/ ResolveFlags(u)

-----------------------------------------------------------------------------
(* The round: sync_conversations_round.                                    *)

RoundBegin ==
    /\ At(Sync, "idle")
    /\ Only(Sync, [Idle EXCEPT !.pc = "refresh", !.part = 1])

\* sync returns, with or without errors; the round goes on.
InSync ==
    th[Sync].pc \in {"sync", "settle", "send", "set_flag", "fetch", "receive",
                    "republish", "resend"}
AfterSync ==
    [Idle EXCEPT !.pc = "refresh", !.part = th[Sync].part + 1]

\* sessions: whether there is one to publish for.
SyncBegin ==
    /\ At(Sync, "sync")
    /\ Only(Sync, [th[Sync] EXCEPT !.pc = IF HasSession THEN "settle" ELSE "send"])

\* publish_pending's reads: the handshake of a session not confirmed yet and
\* its OPEN message are sent, the pending texts are listed.
Publish(pc) ==
    /\ Goto(Sync, [th[Sync] EXCEPT !.pc = pc, !.todo = PendingOutgoing])
    /\ opening' = IF session = "ours" /\ opening = "committed"
                  THEN "posted" ELSE opening
    /\ UNCHANGED <<chat, durable, memory, left, peer, peerHas, greater, faults>>

\* settle_inbox commits receipts for what is in the inbox, and fails if it may
\* not; it and publish_pending fail if the session is gone by now.
Settle ==
    /\ At(Sync, "settle")
    /\ IF HasSession /\ ~(inbox # {} /\ unresolved)
       THEN Publish("send") ELSE Only(Sync, AfterSync)

\* The relay takes a text that was listed as pending.
MarkSent(a) ==
    /\ left' = left \cup {a}
    /\ last_sent' = last_sent \cup {a}

SendPending ==
    /\ th[Sync].pc \in {"send", "resend"}
    /\ \E a \in th[Sync].todo :
          /\ MarkSent(a)
          /\ Goto(Sync, [th[Sync] EXCEPT !.todo = @ \ {a}])
    /\ UNCHANGED <<chat, durable, unresolved, opening, peer, peerHas, greater, faults>>

\* Whether what the peer sends authenticates under the session we have, or
\* creates it.
Shared ==
    \/ peer = "own" /\ session \in {"none", "legacy", "theirs"}
    \/ peer = "ours" /\ session \in {"ours", "shared"}

\* The first pass of the scan: the handshake of a session the peer started is
\* dropped if we have one, and is a conflict if ours is unconfirmed.
ProcessHandshake ==
    /\ At(Sync, "send")
    /\ th[Sync].todo = {}
    /\ Only(Sync, [th[Sync] EXCEPT !.pc =
            IF peer = "own" /\ session = "ours" THEN "set_flag" ELSE "fetch"])

SetConflict ==
    /\ At(Sync, "set_flag")
    /\ UpdateMeta([flags EXCEPT !.conflict = TRUE])
    /\ Goto(Sync, [th[Sync] EXCEPT !.pc = "fetch"])
    /\ UNCHANGED <<entry, claim, durable, memory, world>>

\* What the second pass finds: new texts, receipts, and until the session is
\* confirmed its OPEN message or the receipt of ours (None).
Fetch ==
    /\ At(Sync, "fetch")
    /\ Only(Sync, [th[Sync] EXCEPT !.pc = "receive",
            !.todo = IF Shared
                     THEN (Incoming \ (inbox \cup seen))
                          \cup (peerHas \cap PendingOutgoing)
                          \cup IF Confirmed THEN {} ELSE {None}
                     ELSE {}])

\* What receive_committed and settle make of one message: a text stays in the
\* inbox, a receipt takes its text out of the outbox.  Nothing, if it does not
\* authenticate any more.
Accepts(x) ==
    IF Shared
    THEN /\ session' = IF peer = "own" THEN "theirs" ELSE "shared"
         /\ inbox' = IF x \in Incoming THEN inbox \cup {x} ELSE inbox
         /\ sent' = IF x \in PendingOutgoing
                    THEN [sent EXCEPT ![x].state = "acknowledged"] ELSE sent
         /\ UNCHANGED seen
    ELSE UNCHANGED durable

\* The second pass of the scan.  An unresolved session is recovered, and the
\* message kept for the next round.
ProcessMessage ==
    /\ At(Sync, "receive")
    /\ \E x \in th[Sync].todo :
          /\ Goto(Sync, [th[Sync] EXCEPT !.todo = @ \ {x}])
          /\ UNCHANGED chat
          /\ \/ /\ unresolved
                /\ unresolved' = FALSE
                /\ UNCHANGED <<durable, last_sent, world>>
             \/ /\ ~unresolved
                /\ Accepts(x)
                /\ UNCHANGED <<memory, world>>
             \/ /\ ~unresolved
                /\ Accepts(x) \/ UNCHANGED durable
                /\ Unknown

\* What is pending now is sent at the end, too.
EndReceive ==
    /\ At(Sync, "receive")
    /\ th[Sync].todo = {}
    /\ IF HasSession THEN To(Sync, "republish") ELSE Goto(Sync, AfterSync)
    /\ UNCHANGED <<chat, durable, memory, world>>

Republish ==
    /\ At(Sync, "republish")
    /\ IF HasSession THEN Publish("resend") ELSE Only(Sync, AfterSync)

SyncEnd ==
    /\ At(Sync, "resend")
    /\ th[Sync].todo = {}
    /\ Only(Sync, AfterSync)

\* start_session returns, with or without an error; the round goes on.
InStart == th[Sync].pc \in {"start", "open"}
NextPart(started) ==
    [Idle EXCEPT !.pc = "refresh", !.part = 3, !.started = started]

\* After the fetch: a session the peer confirmed ends a conflict and the wait
\* for it; without a session, waiting texts start one.
Decide ==
    /\ At(Sync, "decide")
    /\ Only(Sync,
            IF HasSession THEN [th[Sync] EXCEPT !.pc = "clear"]
            ELSE IF th[Sync].waiting /\ ~flags.accept_only
            THEN [th[Sync] EXCEPT !.pc = "start"]
            ELSE NextPart(FALSE))

DecideFlags ==
    /\ At(Sync, "clear")
    /\ IF HasSession
       THEN /\ UpdateMeta(IF Confirmed THEN NoFlags ELSE flags)
            /\ Goto(Sync, NextPart(FALSE))
            /\ UNCHANGED <<entry, claim, durable, memory, world>>
       ELSE Return(Sync)

\* start_session: the session.  It does not ask whether one is unresolved, and
\* creating one ends that.  The peer's bundle is taken to be on the relay and
\* to match its card.  An error is reported, and the round goes on.
StartSession ==
    /\ At(Sync, "start")
    /\ UNCHANGED <<chat, sent, inbox, seen>>
    /\ \/ /\ HasSession
          /\ Goto(Sync, NextPart(FALSE))
          /\ UNCHANGED <<session, memory, world>>
       \/ /\ ~HasSession
          /\ session' = "ours"
          /\ unresolved' = FALSE
          /\ opening' = "none"
          /\ To(Sync, "open")
          /\ UNCHANGED <<last_sent, left, peer, peerHas, greater, faults>>
       \/ /\ ~HasSession
          /\ session' \in {"none", "ours"}
          /\ Goto(Sync, NextPart(FALSE))
          /\ Unknown

\* Then, in a transaction of its own, its OPEN message.
SendOpen ==
    /\ At(Sync, "open")
    /\ UNCHANGED <<chat, durable>>
    /\ \/ /\ unresolved \/ ~HasSession
          /\ Goto(Sync, NextPart(FALSE))
          /\ UNCHANGED <<memory, world>>
       \/ /\ ~unresolved /\ HasSession
          /\ opening' = "committed"
          /\ Goto(Sync, NextPart(TRUE))
          /\ UNCHANGED <<memory, left, peer, peerHas, greater, faults>>
       \/ /\ ~unresolved /\ HasSession
          /\ Goto(Sync, NextPart(FALSE))
          /\ Fault("unknown")
          /\ unresolved' = TRUE
          /\ opening' \in {opening, "committed"}
          /\ UNCHANGED <<last_sent, left, peer, peerHas, greater>>

Round ==
    \/ RoundBegin \/ SyncBegin \/ Settle \/ SendPending \/ ProcessHandshake
    \/ SetConflict \/ Fetch \/ ProcessMessage \/ EndReceive \/ Republish
    \/ SyncEnd \/ Decide \/ DecideFlags \/ StartSession \/ SendOpen \/ Refresh(Sync)

-----------------------------------------------------------------------------
(* The peer, and faults.                                                   *)

\* The peer starts a session before it sees ours.
PeerStarts ==
    /\ peer = "none"
    /\ peer' = "own"
    /\ UNCHANGED <<chat, durable, memory, th, opening, left, peerHas, greater, faults>>

\* Our handshake reaches a peer that has no session of its own, or resolved the
\* conflict there, and a message for it: OPEN or a text.
PeerAsked ==
    /\ session = "ours" /\ opening # "refused"
    /\ opening = "posted" \/ \E a \in left : sent[a].on = "ours"
    /\ peer = "none" \/ (peer = "own" /\ ~greater)

PeerTakes ==
    /\ PeerAsked
    /\ peer' = "ours"
    /\ UNCHANGED <<chat, durable, memory, th, opening, left, peerHas, greater, faults>>

\* The peer cannot answer it: the prekeys it names rotated or were used.  It
\* tells nobody, and refuses it whenever it is sent again.
PeerRefuses ==
    /\ PeerAsked
    /\ peer' = "none"
    /\ opening' = "refused"
    /\ UNCHANGED <<chat, durable, memory, th, left, peerHas, greater, faults>>

PeerAccepts ==
    /\ \E a \in left \ peerHas :
          /\ sent[a].on = IF peer = "own" THEN "theirs" ELSE peer
          /\ peerHas' = peerHas \cup {a}
    /\ UNCHANGED <<chat, durable, memory, th, opening, left, peer, greater, faults>>

\* The process dies.
Crash ==
    /\ Fault("crash")
    /\ th' = [t \in Thread |-> Idle]
    /\ unresolved' = FALSE
    /\ last_sent' = {}
    /\ UNCHANGED <<chat, durable, opening, left, peer, peerHas, greater>>

\* The relay cannot be reached.
NetworkFails ==
    /\ Fault("network")
    /\ \/ /\ InSync
          /\ Goto(Sync, AfterSync)
       \/ /\ At(Sync, "start")
          /\ Goto(Sync, NextPart(FALSE))
    /\ UNCHANGED <<chat, durable, memory, opening, left, peer, peerHas, greater>>

\* A store call fails before it changed anything.
StorageFails(t) ==
    /\ Fault("storage")
    /\ ~At(t, "idle")
    /\ Goto(t, IF t = Sync /\ InSync THEN AfterSync
               ELSE IF t = Sync /\ InStart THEN NextPart(FALSE)
               ELSE Idle)
    /\ UNCHANGED <<chat, durable, memory, opening, left, peer, peerHas, greater>>

-----------------------------------------------------------------------------
Init ==
    /\ entry = <<>>
    /\ claim = {}
    /\ flags = NoFlags
    /\ \/ session = "none" /\ peer = "none"
       \/ session = "legacy" /\ peer = "own"
    /\ sent = [a \in App |-> None]
    /\ inbox = {} /\ seen = {}
    /\ unresolved = FALSE
    /\ last_sent = {}
    /\ th = [t \in Thread |-> Idle]
    /\ opening = "none"
    /\ greater \in BOOLEAN
    /\ left = {} /\ peerHas = {}
    /\ faults = 0

\* A call of the application in progress.
Work(u) == RawSend(u) \/ Queue(u) \/ Refresh(u) \/ Resolve(u)

Next ==
    \/ Round
    \/ \E u \in User :
          \/ \E a \in App : ChatSend(u, a) \/ SendText(u, a)
          \/ ChatEntries(u)
          \/ Work(u)
    \/ PeerStarts \/ PeerTakes \/ PeerRefuses \/ PeerAccepts
    \/ Crash \/ NetworkFails \/ \E t \in Thread : StorageFails(t)

Spec == Init /\ [][Next]_vars

\* The app repeats rounds while it is visible, calls in progress go on, the
\* user resolves a conflict that is shown, and the peer reads its mailbox: it
\* takes our handshake or refuses it.
FairSpec ==
    /\ Spec
    /\ WF_vars(Round)
    /\ \A u \in User : WF_vars(Work(u))
    /\ \A u \in Resolver : SF_vars(ResolveBegin(u))
    /\ WF_vars(PeerTakes \/ PeerRefuses) /\ WF_vars(PeerAccepts)

-----------------------------------------------------------------------------
(* Properties.                                                             *)

\* Delivered means that the peer accepted the text of this very entry: not a
\* text send_text committed under the same id, and not one given up on
\* (chat.rs, "the peer's authenticated receipt arrived, and only that").
DeliveredTruth ==
    \A n \in DOMAIN entry : entry[n].state = "Delivered" =>
        entry[n].id \in peerHas /\ sent[entry[n].id].by = "chat"

\* NotDelivered means that the peer did not accept the text and never will
\* (chat.rs, ChatEntryState::NotDelivered).
NotDeliveredTruth ==
    \A n \in DOMAIN entry : entry[n].state = "NotDelivered" =>
        entry[n].id \notin peerHas

\* A text of the peer is in the history once, and is there before it may leave
\* the inbox (record_incoming before mark_read, whatever dies in between).
ReceivedOnce ==
    \A m \in Incoming :
        LET ns == {n \in DOMAIN entry : entry[n].id = m} IN
        /\ \A n1, n2 \in ns : n1 = n2
        /\ m \in seen => ns # {}

\* send_text and chat_send never commit under each other's id.
OneOwner ==
    \A a \in App :
        /\ ~(a \in claim /\ Indexed(a))
        /\ sent[a] # None => (sent[a].by = "chat") = Indexed(a)

\* What is shown never goes back, whichever thread decides last.
NeverBack ==
    [][\A n \in DOMAIN entry :
          /\ n \in DOMAIN entry'
          /\ entry'[n].id = entry[n].id
          /\ entry'[n].state # entry[n].state =>
                <<entry[n].state, entry'[n].state>> \in Forward]_vars

Settled(a) ==
    \E n \in DOMAIN entry :
        entry[n].id = a /\ entry[n].state \in {"Delivered", "NotDelivered"}

\* The peer refused the handshake of the session we have.  Only its user or ours
\* can end that: by a session the peer starts, or by removing ours.
Refused == opening = "refused" /\ session = "ours"

\* A text the user sent is in the end delivered or shown as not delivered,
\* whatever calls fail and whichever side started the session, except in two
\* cases that the code leaves open: the session stays unresolved, or the peer
\* refused its handshake and nothing ends that (network.rs, process: the refusal
\* deletes the envelope and tells nobody, and the handshake is sent for ever).
SettleIfResolved ==
    \A a \in App :
        <>[]~unresolved /\ ~<>[]Refused => (Indexed(a) ~> Settled(a))

\* The same after a commit whose outcome is unknown: by the documentation of
\* send, repeating the call is enough, and every refresh repeats it.
EntriesSettle ==
    \A a \in App : ~<>[]Refused => (Indexed(a) ~> Settled(a))

=============================================================================
