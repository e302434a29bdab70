# Arcium Messenger: TLA+ models and proofs

This directory specifies the messaging core of Arcium Messenger: the encrypted
store and the conditional writes made on it, what one device keeps there and how
concurrent users of that store may change it, first contact between devices, the
double ratchet a session consists of, the mailbox of the relay together with the
reader that scans it, two devices that exchange messages through it, and the
history of a conversation that the app shows.
TLC checks the specifications on small instances,
TLAPS proves the main invariants for every instance. `PROJECT.json` lists the
runs, the mutants that show each property can fail, the source lines behind every
definition, the hazards the properties are aimed at, and the theorems.

    tlc -workers 2 -config Messaging_send.cfg MCMessaging
    tlapm MessagingProofs.tla

Paths below are relative to the repository root.

## 1. The system

A *device* runs the Android app. The app calls one `ArciumCore`
(`crates/mobile-ffi`), which owns an encrypted SQLite store (`crates/core-storage`)
and a `Messenger` (`crates/core-protocol`). Sessions are double ratchets
(`crates/core-crypto`). A `NetworkMessenger` exchanges *envelopes* (handshakes and
encrypted messages) with other devices through an untrusted, memory-only *relay*
(`crates/relay`). `arcium-psi` is a separate on-chain program for private contact
discovery.

| component | state it keeps | operations | what makes it correct | module |
|---|---|---|---|---|
| durable messaging, `core-protocol/src/messaging*` | records in the store: session, handle, initiator and provisional handshake, outbox, send-id, inbox, seen; in memory the `unresolved` map | create session, record a provisional handshake, promote it by a first message, send, receive, acknowledge in both directions, abandon, remove, retire a legacy session, recover | a ratchet position and a logical message are encrypted once; a decryption is recorded exactly once; outcomes reported are true; a session is never replaced; recovery loses nothing | `Messaging`, `Lifecycle` |
| conditional store, `core-protocol/src/durable.rs` | the loaded record of a session and its digest | create, load, stage an encryption or decryption on a copy, commit or promote it with side records if every precondition holds | a batch of conditional writes is one atomic step; a generation has one output; what was handed out is never taken back | `Durable`, `CheckpointStore`; atomic in `Messaging` |
| double ratchet, `core-crypto/src/ratchet*` | root key, two chains, three `u32` counters, skipped keys | encrypt, decrypt, roll back, write and read a checkpoint | no key used twice, late and lost messages do not stop the session, forged ones change nothing, a stored state can be read back and cannot overflow | `Ratchet` |
| relay, `relay/src/server.rs`, `protocol.rs` | mailboxes, bundles, one sequence counter, all in memory | SEND, FETCH, FETCH_AFTER, DELETE, PUT/GET bundle, expiry | bounded mailboxes, numbers that are not reused, pages that fit a frame | `Relay` (mailboxes), `Handshake` (bundles) |
| mailbox scan, `mobile-ffi/src/network.rs` `sync_round`, `scan` | the locals of one round | page through the mailbox twice, process, delete | nothing is skipped, handshakes come first, only what was read is deleted, nothing starves | `Mailbox` |
| prekeys and first contact, `mobile-ffi/src/lib.rs`, `core-crypto/src/x3dh.rs` | identity and prekey records, provisional handshakes | create the identity, establish prekeys, export and publish a bundle, start and answer a session | both ends derive the same keys or refuse; a handshake and a one-time prekey make one session; sessions start only from what the pinned owner signed; the published bundle can be answered | `Handshake`, `X3dh`; races of instances in `Messaging` |
| network messenger: publish, settle, receipts, `network.rs` | `last_sent` in memory | publish pending, process an envelope, settle the inbox, repeat receipts | what is sent is eventually delivered and acknowledged, and only what was accepted counts as delivered | `Network` |
| chat history, `network/chat.rs` | per-message entries and flags in the store | chat send, refresh, mark seen, resolve a session conflict | entry states only move forward and agree with the outbox; after a conflict both devices hold one session | `Chat`; `Network` (conflicts between two devices) |
| contacts, `mobile-ffi/src/contacts.rs` | pinned cards | pin, list | a session is keyed from the card pinned for it, which is never replaced | `Handshake` |
| encrypted store, `core-storage` | SQLite database, the open transaction of each connection | put, get, delete, list, transaction | what is acknowledged is stored, transactions are all or nothing, reads are true, whatever fails | `Storage`, `StorageHistory` |
| app start and master key, `android/.../startup`, `security` | key blob, Keystore key, store file | load or create the key, open the store | a new key is never made for an existing store | not modelled |
| Android sync loop and UI | view state | repeat `sync` while visible | fairness of `Mailbox`, `Network` and `Chat` | not modelled |
| hybrid KEM, Rescue, hashes, byte layouts | none | pure functions | out of scope: cryptography and encodings | not modelled |
| `core-transport`, in-memory `SessionManager` | stub, unused map | none used | none | not modelled |
| `arcium-psi` | one counter and one nonce per user, on chain | request and callback of a confidential computation | nonces increase | not modelled |

How they interact: a call of the app locks `ArciumCore`'s store and messenger for
its duration; another `ArciumCore` on the same database file (a second process, or
a second object) is held off only by SQLite's transactions. `NetworkMessenger`
calls `ArciumCore` for everything durable and the relay over TCP, one request at
a time. Devices interact only through envelopes.

### What is hard

- An operation reads the store, computes, and writes in a later transaction.
  Everything it read may have changed: by another instance, by an acknowledgement,
  by a removal.
- A COMMIT may fail without saying whether it was applied. The operation is then
  *unresolved*, its output is withheld, and a later `recover` must find out from
  records that others may have moved since.
- A transaction may be ended by SQLite in the middle, its ROLLBACK may fail and leave
  it open, and a later plain write would then join it.
- The relay is not trusted with bundles: it may serve an old one or one put together
  from several, while threads of the owner race to replace what it names.
- A crash loses the `unresolved` map and the operation, never the store.
- A ratchet decryption moves all of the state before it knows whether the message
  is authentic.
- The relay loses, repeats, reorders, expires and restarts; its numbers start over.
- The sync thread and every call of the app read a conversation and write it later,
  so what one of them decided may be stale when it is written.
- Both devices may start a session at the same time; one of them gives its own up
  while its sync thread goes on and while messages of both are under way.
- A receipt is not acknowledged, so the sender's retransmission has to bring it
  again.
- Mailbox capacity, page size, page budget and envelope budget must fit together.
- Session handles are 64-bit hashes and may collide; counters are `u32` and `u64`.

The hazards are listed one by one, each at its line, in `PROJECT.json`.

## 2. Durable messaging: `Messaging`, `Lifecycle`

One device: the store (one variable per record namespace) and any number of
Messenger *instances*. Each instance has its `unresolved` map and at most one
operation in progress (`op[i]`, with the values its reads returned). The reads of
an operation and its closing transaction are separate steps; a transaction
(`BEGIN IMMEDIATE` to `COMMIT`) is one step.

| code | actions |
|---|---|
| `create_session` | `CreateSession` |
| `establish_session_responder`, `record_provisional_handshake`, `retire_legacy` | `ProvisionalBegin`, `ProvisionalRecord`, `RetireLoad`, `RetireCommit` |
| `receive_committed`, `accept_first_message`, `receive` | `ReceiveBegin`, `FirstStage`, `Promote`, `ReceiveStage`, `ReceiveCommit` |
| `send` | `SendBegin`, `SendStage`, `SendCommit` |
| `acknowledge_incoming`, `acknowledge_outgoing`, `abandon_outgoing` | `AcknowledgeIncoming`, `AcknowledgeOutgoing`, `AbandonOutgoing` |
| `remove_session` | `RemoveBegin`, `RemoveCommit` |
| `recover`, `retired_since` | `RecoverBegin`, `RecoverSeen`, `RecoverLoad`, `RecoverReturn` |
| `establish_prekeys` | `EstablishPrekeys` |
| a storage error before COMMIT; process death | `NotCommitted`; `Crash` |

A commit whose preconditions hold has three outcomes (`Outcome`): applied and
reported, applied and reported as an error, lost and reported as an error. The
flag `took` in an unresolved mark records which of the last two it was; no guard
reads it.

Abstractions: a session record is its identity, how many messages it encrypted and
which it decrypted, so that comparing digests of records is comparing records. A
wire is a ratchet position with the logical message it carries. A message
authenticates exactly under the session it was encrypted for (`Ratchet` looks
inside that). The prekey record is a version number. Handles may collide:
`HandleOf` is any function from peers to handles.

`Lifecycle` is what a caller is promised: a logical message gets one wire that no
other has, is pending, and ends acknowledged or abandoned; an incoming message is
accepted once and delivered once. `ImplementsLifecycle` maps the send-id, outbox,
inbox and seen records to it.

Runs (module `MCMessaging`), each with two instances:

- `send`: one peer that sends a handshake and a first message, two logical messages,
  two creations, so that a session can be removed and followed by another, ours or
  the peer's. `NoFork`, `EncryptedOnce`, `SendOutcomeTruth`, `HandleNamesSession`,
  `ConsumedIsRecorded`, `RecoveryMissesNothing`, `SessionNeverReplaced`,
  `ImplementsLifecycle`.
- `peers`: two peers that fetched the same bundle, one of them with a session that
  an older build left in the store, and nothing sent. `PrekeyUsedOnce`,
  `SessionNeverReplaced`.

No run has peers whose handles collide: with a second peer on the handle of the first,
`send` has too many states for a run of minutes. `HandleNamesSessionHolds` and `SessionNeverReplacedHolds`
(section 10) are about any `HandleOf` and cover it.

Two instances are enough for every race between a read and a write of one
operation; a third would only repeat the second's role, because an operation
relies on records it compares again in its transaction. One message per peer and
session is enough for the receive side since messages are only told apart by
whether they were recorded. `send` does not check for
deadlock: once the bound on created sessions is used up and the last one is
removed, nobody calls the device.

## 3. The double ratchet: `Ratchet`

Both ends of a session and the set of all messages sent, any of which may arrive
at any time, any number of times, or never; and forged headers. Keys are symbolic:
a root key is the sequence of DH outputs mixed into it, a chain key is its root
and how often it was advanced. `Encrypt`, `Receive` and `ReceiveForged` are whole
calls of `encrypt` and `decrypt`, with the snapshot and rollback, the skip limit,
the store of skipped keys in `IndexMap` order (`SwapRemove`, `TrimSkipped`) and
`u32` counters. `staged` chooses, in the initial state, between use in place and
use through `DurableSession::stage`, which keeps a state only if `check_state`
accepts it. The checkpoint is written and read field by field (`ToCheckpoint`,
`FromCheckpoint`: flags, absent keys as zeros, skipped keys in order), and a state
that is kept is the one read back.

- `ratchet` (6 and 3 messages, skip limit 2, counters up to 6 so that both
  exhaustion rules are met): `KeyUsedOnce`, `OpensOnce`, `OpensInAnyOrder`,
  `ShapeTellsHistory`, `Checkpointable`, `CountersNeverWrap`. The bounds allow
  changes of each end's ratchet key with messages of the old chains still missing,
  and more skipped keys than are kept.

`OpensInAnyOrder` is the promise behind MAX_SKIP; `ShapeTellsHistory` is what
`has_received` and `is_legacy_unconfirmed`, guards of `Messaging`, rest on.

## 4. The relay's mailbox and its reader: `Relay`, `Mailbox`

`Relay` is one mailbox: `Send` (capacity, de-duplication of identical bytes,
sequence numbers shared with other mailboxes through `SendElsewhere`), `Page`
(FETCH_AFTER: ascending, limited by count and by frame size), deletion, expiry or
another reader (`Vanish`), a DELETE that arrives after its client gave up
(`LateDelete`), `Restart`. `Mailbox` composes it with the reader: `BeginRound`,
`FetchPage`, `ScanItem`, `BeyondUntil`, `EndPass`, and the failures `CallFails`,
`DeleteTimesOut`, `RoundFails`. What `process` decides about an envelope depends on
sessions; here it is free to delete or keep. Envelopes have a kind and a size.

- `scan`: three envelopes of two sizes, capacity 3, pages of 2 to 3 envelopes, so
  that the page budget (2) is met exactly, one restart and one error, under
  `FairSpec`. `ScanCovers`, `HandshakesFirst`, `DeletesWhatWasRead`,
  `EveryEnvelopeProcessed`.

Fairness is assumed of the reader only (`WF_vars(Scan)`): the app repeats `sync`
on its own thread for as long as it is visible
(`android/.../messaging/MessengerService.kt`, `syncWhileVisible`), and a round that
has a next step takes it. Nothing is assumed of senders, expiry or the relay.
`MaxError` bounds the rounds that fail, without which no liveness can hold;
`U64Max` bounds the numbers handed out, and reaching it is a case of the code too
(the relay refuses).

## 5. Two devices: `Network`

Two devices with the records `Messaging` gives them, the relay between them, and on
each a sync thread (`round[d]`) and a user's thread (`ui[d]`). A call of
`ArciumCore` is one step, a request to the relay is one step, and a process can die
between any two.

| code | actions |
|---|---|
| `sync_round`: `settle_inbox`, `settle` | `BeginRound`, `SettleNext`, `SettleFirst`, `SettleSecond` |
| `put_bundle`, `publish_pending` | `PutBundle`, `Publish`, `SendPending`, `ReceiptSent`, `Published` |
| `process` in the first pass | `ProcessHandshake`, `SetConflict`, `EndHandshakes` |
| `process` in the second pass, `receipt_again` | `AcceptMessage`, `DuplicateMessage`, `OtherMessage`, `EndMessages` |
| `sync_conversations_round`, `start_session` | `AfterSync`, `StartSession`, `SendOpen` |
| `send_text`, `chat_send`, `refresh`, `mark_read` | `SendText`, `MarkRead` |
| `resolve_session_conflict` | `ResolveBegin`, `ResolveMark`, `ResolveAbandon`, `ResolveRemove`, `ResolveFlags` |
| `retransmit_after`; the minute of `receipt_again` | `Elapse`; `Tick` |
| faults, other contacts among them | `Lose`, `Replay`, `RoundFails`, `Crash`, `OtherContact` |

Abstractions: what `Messaging` shows of one device is used here (a logical message
has one wire, a message is accepted once and on its session only, commits succeed
or leave nothing). A mailbox is a set, read as a whole, since `Mailbox` shows that
a pass misses nothing; a copy that arrives later is a replay or a retransmission.
The prekeys of a device are a version number, raised when a first message uses the
one-time prekey. `retransmit_after` passes for all pending messages at once and
between rounds. Pins exist from the start; sessions of older builds are left to
`Messaging`. A handshake that names prekeys used up since is dropped by the device it
reaches; `network` has such a handshake (another contact was faster), `network_live` has
not, since nothing settles the texts of its session: see `Refused` in section 6.

`MCNetwork` makes the two rounds take turns: a device that is not between rounds
(or at one of `Points`, where it next reads the relay) moves alone with its user's
thread, time and faults. Steps on a device's own store do not touch the other, and
what it sends is seen when the other next reads; the interleavings left out are
those in which a device reads its mailbox between two SENDs of the same round,
which a failed round produces too. All interleavings of the threads of one device
are kept.

- `network`: both devices start a session, one of them writes, and one fault happens:
  a replay, a failed round, a crash, or another contact that uses up the one-time
  prekey. `ReceiptTruth`, `AbandonedNeverAccepted`, `ConfirmedIsShared`.
- `network_live`: one device starts and writes, with a loss or a crash; or both start
  at once and one waits for the other after the conflict. `TextsSettle`. (`starters`
  is chosen in the initial state; `LiveInit` keeps faults to the first case.)

One fault is enough to break each step of the exchange once, and two minutes allow
a first and a repeated receipt (`Tick` counts from the first receipt that left an
outbox). A bound on faults is needed for liveness; `Fault`
stops before the last minute so that a receipt of a later minute is possible.
Fairness (`FairSpec`): the app repeats rounds while visible (`syncWhileVisible`),
time passes, users write what they have to write, and the user of the device with
the greater key resolves a conflict that is shown. It is strong only because turns
interrupt a device, which the code does not. No fairness is assumed of the relay
beyond the bound on faults.

## 6. The history of a conversation: `Chat`

One device and one contact: the records of `network/chat.rs`, the parts of
`network.rs` its calls run through, and threads: the sync thread repeats
`sync_conversations_round`, the threads of the user call `chat_send`, `send_text`,
`chat_entries` and `resolve_session_conflict`. Every read of the store and every
transaction is one step, with what was read kept in `th[t]`.

| code | actions |
|---|---|
| `refresh` | `RefreshBegin`, `RefreshTexts`, `RecordIncoming`, `MarkRead`, `RefreshOutbox`, `RefreshCanSend`, `RefreshEntries`, `Waits`, `SendQueued`, `CheckSent`, `Advance`, `RefreshEnd` |
| `chat_send`; `send_text`, `claim_for_send_text`; `chat_entries` | `ChatSend`, `Queue`; `SendText`, `RawSend`; `ChatEntries` |
| `resolve_session_conflict` | `ResolveBegin`, `ResolveCheck`, `ResolveConfirmed`, `ResolveSettled`, `ResolveAcceptOnly`, `ResolveList`, `ResolveMark`, `ResolveAbandon`, `ResolveRemove`, `ResolveFlags` |
| `sync` | `SyncBegin`, `Settle`, `SendPending`, `ProcessHandshake`, `SetConflict`, `Fetch`, `ProcessMessage`, `EndReceive`, `Republish`, `SyncEnd` |
| `sync_conversations_round`, `start_session` | `RoundBegin`, `Decide`, `DecideFlags`, `StartSession`, `SendOpen` |
| the contact's device | `PeerStarts`, `PeerTakes`, `PeerRefuses`, `PeerAccepts` |
| faults | `Crash`, `NetworkFails`, `StorageFails`, and `Unknown` inside every commit on the session |

Abstractions: the durable layer appears as `Messaging` shows it (a logical text is
committed once and is then pending, acknowledged or abandoned) and the peer as
`Network` shows it (it accepts our texts on the session it holds; which session that
is once both started one is decided by the greater key). A message id stands for the
text, so an entry's message id is its app id once it is known. The two passes over
the mailbox are a handshake step and a set of messages that arrive in any order.
Receipts for the peer's texts are in `Network`, here only that settling them needs a
resolved session. Reads of one call are joined where nothing in between can make a
difference (`DecideFlags` reads `confirmed` where it clears the flags: only the sync
thread confirms a session, and a confirmed one is not removed). Names, notes, the
seen mark and the two flags that only the screen reads are left out, and so is the
contact's pin, which exists. The contact's bundle is on the relay and matches its card
(`Handshake` has the bundles): without one, `start_session` fails in every round with
`PeerBundleUnavailable` and a waiting text waits.

`start_session` is two transactions. `create_session` does not ask whether a commit is
unresolved, and ends that when it succeeds, so that a creation of unknown outcome that
was lost is simply repeated; the OPEN message that follows is a send like any other,
and is refused if the session is unresolved. The peer holds our session once a message
of it, OPEN or a text, reaches it with the handshake. It may also refuse the handshake,
whose prekeys rotated or were used by somebody else: it then deletes the envelope and
tells nobody (`docs/NET-MESSAGING.md`, section 8), and the handshake is sent again and
refused again.

- `chat`: one text of the app and one of the peer, one thread that chats and one that
  sends the same id raw and resolves conflicts, one fault of any kind, both orders of
  the keys, with no session or one an older build left. `DeliveredTruth`,
  `NotDeliveredTruth`, `ReceivedOnce`, `OneOwner`, `NeverBack`, `SettleIfResolved`.
- `chat_stuck`, `chat_resolve`: expected violations, section 9.

`SettleIfResolved` says that a text the user sent is in the end shown as delivered or as
not delivered, with two exceptions, which are the code's own. The session stays
unresolved (section 9). Or the peer has refused the handshake of our session (`Refused`)
and nothing ends that: the text stays pending for ever, as section 8 of
`docs/NET-MESSAGING.md` says, until the user removes the session, a call that no
screen of the app makes and that is left to `Messaging` here. What does end it in the
model is a session that the peer starts, after which the conflict is resolved on the
device with the greater key; if that is the peer, it waits for our session, refuses it
again, and both wait.

One id is enough for the claims, since they are per id; two threads beside the sync
thread put a step between any two reads of a call. `chat_resolve` needs two texts and
two threads that resolve. Fairness (`FairSpec`): rounds are repeated (`WF(Round)`, as
in section 4), a call in progress goes on (`WF(Work(u))`), the peer's device reads its
mailbox (`WF(PeerTakes \/ PeerRefuses)`, which leaves it free to refuse, and
`WF(PeerAccepts)`), and the user resolves a conflict that stays or comes back: `SF(ResolveBegin)`,
since the flag is set again with each handshake the peer retransmits. `MaxFault` bounds
the faults, without which no text need ever settle.

## 7. The store: `Storage`, `StorageHistory`, `Durable`, `CheckpointStore`

`Storage` is `core-storage` call by call: any number of connections to one database
file, the plain operations, and one `StoreTransaction` per connection. SQLite is
external and modelled from how the code uses it and what `transaction` and `commit`
document: BEGIN IMMEDIATE takes the only write lock, a statement may fail alone or end
the transaction it runs in, COMMIT may fail on either side of the commit point,
ROLLBACK may fail and leave the transaction open on a connection without a handle
(`Abandoned`), whose next call `ensure_no_open_transaction` refuses while it tries the
rollback again. A row is a storage key, an encrypted name and a value sealed under its name;
the file may be damaged by an unreadable name or value, or by a value of another row.

| code | actions |
|---|---|
| `open_with_key`, `init`; process death | `Open`; `Crash`, `CrashInCommit` |
| `put`, `get`, `delete`, `list_keys_with_prefix` | `Put`, `Get`, `Delete`, `ListKeysWithPrefix`, `Refuse` |
| `transaction`; its `put`, `get`, `delete` | `Begin`; `TxPut`, `TxGet`, `TxDelete`, `TxFails` |
| `commit`, `rollback` or drop | `Commit`, `Rollback` |

`StorageHistory` adds what callers can conclude from the answers they got (`told`,
`intended`), which no step of `Storage` reads. After damage a name may also be unreadable
(`Lost`) or show what some row holds sealed under it (`SealedFor`).

- `storage`: two connections, two names of one namespace, two values, one damage.
  `AckedIsStored`, `ReadsAreTrue`, `AllOrNothing`. More connections would only wait
  for the same lock; two names tell a whole transaction from a part of one.

`Durable` puts `durable.rs` on these calls: `DurableSession` and `ProvisionalSession`
(`Create`, `NewProvisional`, `Load`, `Stage`, `CommitWith`, `PromoteWith`), the
removal and acknowledgement of `Messenger`, and every call `write_conditional` makes
(`WcBegin`, `WcCheck`, `WcWrite`, `WcError`, `WcDrop`, `WcCommit`). A checkpoint is
its session, role, generation and the outputs its ratchet went through, so comparing
digests is comparing records. `CheckpointStore` is the sealed trait's promise: a batch
is submitted, and one step makes all of its writes if every precondition holds at that
moment, or reports a conflict if one does not. It is the transaction that `Messaging`
takes for one step, so the refinement joins the two.

- `durable`: two processes, one session record and one side record, two messages, two
  sessions, one generation after the first, two staged transitions, one damage.
  `OneOutputPerGeneration`, `ReleasedIsKept`, `ImplementsCheckpointStore`. Two sessions
  at the same generation are what tells a digest from a generation number; two staged
  transitions are what a session must choose between.

Neither run checks for deadlock or assumes fairness: the callers may stop, and a store
whose file is damaged and whose connections are closed may have nothing left to do.

## 8. First contact: `Handshake`, `X3dh`

`X3dh` has the key agreement with symbolic keys (a DH result is the set of the two
keys, a derivation the tuple of its inputs) and the structures that carry it, as
sequences of fields packed and unpacked with every check the code makes: the prekey
record, the bundle, the initiator handshake, and the object the signed prekey's
signature covers. `Handshake` has the devices: `SaveIdentity`, `AddContact`,
`EstablishPrekeys`, `put_bundle` as the steps it consists of (`PutBundle`,
`PutEstablish`, `PutExport`, `PutSend`, `PutFails`) in any number of threads,
`StartSession` from a bundle the relay serves, `RecordHandshake`,
`AcceptFirstMessage`, `RemoveSession`. What is served (`Served`, `Splice`) is any
bundle ever published, and up to `MaxAltered` times one with a part replaced by that
of another; what is delivered is any handshake ever sent, or one so changed.

- `handshake`: one device that starts and one that answers and publishes from two
  threads, prekeys made twice on demand and whenever one is used up, two acceptances,
  one change on the way or one damaged identity. `BothEndsAgree`, `NamedPrekeysAgree`,
  `KeyedFromPinned`, `PublishedIsCurrent`. One start suffices for the agreement, which
  is about one pair of ends; a second acceptance is what a repeated handshake would
  need. Two threads are what `put_bundle` races with; a third repeats the second.

`PublishedIsCurrent` assumes that on each device some thread goes on with `put_bundle`
(`WF` of the steps of all its threads taken together): every round begins with it and
rounds are repeated while the app is visible. Any one thread may stop anywhere, and send
a bundle late. The counters bound how often the
prekeys change, without which no published bundle need stay current. The run does not
check for deadlock: it ends when the bounds are used up.

## 9. Where the code differs from what is written about it

Runs that TLC reports as violated:

- `chat_stuck` (`EntriesSettle`): after a commit of unknown outcome on a queued text
  the session is unresolved. `send` then refuses before it looks for the text's
  record, although its documentation says that the caller can simply call again.
  `refresh` fails with that error, `sync_conversations_round` returns with it before
  it calls `sync`, and `process`, inside `sync`, is the only caller of
  `recover_session`. Rounds fail, for every contact, until the process restarts.
  `EntriesSettle` leaves out a refused handshake, so this is not that case.
- `chat_resolve` (`NotDeliveredTruth`): two calls of `resolve_session_conflict` at
  once, such as a button pressed twice. The slower one asked whether the session is
  confirmed before the faster one removed it and the peer's was accepted; it then
  marks and abandons texts of the peer's session, which the peer accepts. With one
  thread that resolves, as in `chat`, the property holds.

Seen while modelling and not kept as runs:

- `process` answers every duplicate (`network.rs:631`), so a receipt that arrives twice
  is answered with a receipt, although `docs/NET-MESSAGING.md` says that receipts are
  not acknowledged and that a replayed one changes nothing. It ends after one exchange
  per repetition.
- `publish_prekeys` says "Existing prekeys are never replaced here", but `put_bundle`
  looks for the record and calls `establish_prekeys`, which replaces it, in separate
  transactions. Two threads that publish for the first time can each create prekeys,
  and a session started from the first bundle is refused by name. A later round
  publishes the current ones: `PublishedIsCurrent`.
- `recover` reports a lost send as committed if another instance committed the same
  logical message, since the record it looks for is keyed by the logical id. Harmless
  to the messages (`EncryptedOnce` holds), but not what `types.rs` says of the flag.
- Taking a skipped key out with `swap_remove` disturbs insertion order, so eviction
  is not first-in-first-out as the comment of `trim_skipped` says.
- `send` takes the peer for its outbox record from one read of the handle and the
  session from another. If two peers share a 64-bit handle and one's session is
  replaced by the other's in between, a message is filed under a peer whose session
  record did not change, which `legacy.rs` and `removal.rs` rule out.

## 10. What is proved

All theorems hold for any constants that satisfy the named assumptions of the modules
(`ConstantsAssumption`, `RelayAssumption`, `MailboxAssumption`, `NetworkAssumption`,
`StorageAssumption`, `DurableAssumption`, `HandshakeAssumption`, `ChatAssumption`,
`RatchetAssumption`): any number of instances, peers, handles, colliding ones included,
message ids, handshakes, envelopes, sizes, limits, connections, processes, threads,
faults. `NoSession`,
`NoneIsNoKey` and `NoneIsNoRecord` say that `None` is not a session, a key or a record,
as no `Option` of the code is.

- `MessagingProofs`: `TypeCorrect`; its invariant adds to `TypeOK` that an
  operation's fields are present where its next step uses them (`OpShape`).
  `NoForkHolds`, `EncryptedOnceHolds`, `SendOutcomeTruthHolds`,
  `ConsumedIsRecordedHolds`, `PrekeyUsedOnceHolds`, `HandleNamesSessionHolds`. The
  argument has three layers. `OpInv` says what the earlier reads of an operation
  established about the values it carries (a message staged on a session
  authenticated under it, a session about to be removed had received nothing);
  being about values, it cannot be undone by another instance. With it, every
  step has one of eleven effects on the records (`StepEffect`). Each invariant is
  then preserved by each effect. The strengthenings: `NoFork` needs that wires lie
  below the session's position and that a session whose wires exist is either
  still there or had an ephemeral key that is not drawn again (`WireInv`);
  `EncryptedOnce` that send-id records outlive everything (`SendIdInv`);
  `PrekeyUsedOnce` that used versions lie below the current one (`PrekeyInv`).
  `Implements`, `Spec => ImplementsLifecycle`: the initial
  states map to Lifecycle's, and each effect to a step or a stutter.
  `SessionNeverReplacedHolds`: `remove_session` and `retire_legacy` look for pending
  messages before their transaction; `RemovalInv` says that as
  long as the session record is the one they read, nothing was committed for the peer,
  since every send changes the record, and that a record that comes later differs.
  Nothing is assumed of the handles. `RecoveryMissesNothingHolds`: `MarkInv` says what
  stays in the store once the commit behind an unresolved mark was applied (the send-id
  record of a send, the inbox or seen record of a message), and `RecoverInv` what each
  read of `recover` established: a message that the inbox read missed is in seen before
  the seen read is made.
- `MailboxProofs`: `DeletesWhatWasReadHolds`, from `ReadInv`: everything read over
  an open connection, or named by a late DELETE, still stands for the same
  envelope or for nothing, since numbers below the counter are not handed out
  again until a restart, which closes the connection. `HandshakesFirstHolds`, from
  `ShookInv`: below the cursor of the first pass every handshake still in the
  mailbox was processed (`NoGap`), and the second pass ends where the first did.
  `ScanCoversHolds`, from `CoverInv`: every page but the last holds at least MIN_PAGE
  envelopes, whatever their sizes (`FullPages`), so that a pass which used up
  MAX_SCAN_PAGES has gone over as many envelopes as a mailbox can hold. The facts it
  needs about sums of sizes are proved by taking a smallest counterexample.
- `StorageProofs`: `AckedIsStoredHolds`, `ReadsAreTrueHolds`, `AllOrNothingHolds`.
  `StoreInv` holds the write lock (`OneWriter`), what the open transaction of a
  connection sees against what callers may conclude (`HandleView`), and that a row's
  name is its own or unreadable.
- `DurableProofs`: `WriteConditionalIsAtomic`, `Spec => ImplementsCheckpointStore`:
  `WriteInv` says that between BEGIN and COMMIT the open table is the committed one
  with the batch's writes so far, and that each precondition checked still holds
  there; the step that commits is the abstract write, every other one a stutter, a
  conflict or a submission. `OneOutputPerGenerationHolds` and `ReleasedIsKeptHolds`,
  from `SessionInv`: a transition an instance staged follows the record it holds, a
  batch says what it expects to replace (`ProcessOK`), a session that is not stored yet
  belongs to one process and nothing of it was released (`Private`), and what was
  released lies on the stored history of its session (`Kept`).
- `HandshakeProofs`: `BothEndsAgreeHolds`, `NamedPrekeysAgreeHolds`,
  `KeyedFromPinnedHolds`. `HandshakeInv` says that a device holds and publishes prekeys
  it made (`PrekeysOwn`, `PublishedOwn`), that a session started comes from one bundle of
  the pinned peer except for the unsigned one-time prekey (`FromPinned`), field by field
  after any splice, and that the one-time prekey of an accepted session is older than
  the one held (`UsedUp`), so that no root key is derived twice.
- `NetworkProofs`: `ReceiptTruthHolds`, `AbandonedNeverAcceptedHolds`,
  `ConfirmedIsSharedHolds`, for `Spec`, which leaves the rounds of the two devices free
  to interleave, where the runs make them take turns. Each step has one of a few effects
  on the stores and the relay (`Effect`), and each effect keeps `StoreInv`. The argument
  rests on one asymmetry: only the greater device removes a session, and only against
  one that the other device started and still holds (`ConflictInv`), because the
  handshake that showed the conflict came from it and that device never gives it up
  (`RelayInv`, `OwnStays`). A message of a removed session is therefore one that nobody
  can accept (`SentInv`), and what was accepted is on the session held now
  (`AcceptedInv`). `RoundInv` says what a round's lists still stand for when they are
  used. `ReceiptTruth` is inductive with these: a receipt names what its sender had
  accepted.
- `ChatProofs`: `OneOwnerHolds`, `ReceivedOnceHolds`, `DeliveredTruthHolds`,
  `NeverBackHolds`, `NotDeliveredTruthHolds`. The threads of a chat write what they
  read earlier. `Known` says what a call then knows, of records that only grow, so that
  no other thread can make it false (`Grows`): an entry it listed is still there, with
  its id, and the state it is about to write is justified by the outcome of this text.
  With it every step has one of a few effects on the records (`Effect`), and each keeps
  `Records`: numbers are not used twice, entries of the two directions are told apart,
  what is shown agrees with what was committed (`Shown`), and a text has one owner
  (`Owned`). `NotDeliveredTruthHolds` has the hypothesis `OneResolver`, that only one
  thread calls `resolve_session_conflict`, which the finding of `chat_resolve` shows to
  be necessary: only the greater device resolves a conflict, and its peer then keeps the
  session it started (`Refuses`), so that every text given up is one that nobody can
  accept (`Doomed`); with one resolver the session it checked is the one whose texts it
  gives up (`Conflicted`).

- `RatchetProofs`: `KeyUsedOnceHolds`, `OpensOnceHolds`, `OpensInAnyOrderHolds`,
  `ShapeTellsHistoryHolds`, `CheckpointableHolds`, `CountersNeverWrapHolds`, for any
  number of messages and DH steps, any MAX_SKIP and any size of the store. Both ends
  mix the same DH outputs into their roots, so that the j-th can be named (`Dh`), a
  chain is named by the ratchet key in its headers (`Chain`) and a message key by the
  position in its header (`MessageKey`), without ambiguity. `Good` says of one end
  alone that its keys have these names and that its store holds keys of positions its
  receiving chain has passed, each once. `Took` is what a successful `decrypt` does to a
  good ratchet, along each of its three ways (from the store, from the receiving chain,
  after a DH step): the message had not been taken before, its key is gone, and every
  other position passed on the way is in the store or evicted. `Consistent` is about
  both ends and the messages between them: one end is a chain ahead (`Ends`), messages
  come from their sender's chains (`Messages`), chains have no gaps and `pn` is the
  length of the one before (`Chains`), and a message that was passed was decrypted or its
  key was stored, never both (`Accounted`). `OpensInAnyOrder` then counts: the positions
  that `skip_message_keys` would have to skip are messages that are missing. A message
  that comes back to its own sender does not open (`OwnMessage`).
  All but the last are stated as `Spec => [](Fits => P)`. `Fits` says that calls go
  through `stage`, as in the app, or that no end sends more than `u32::MAX` messages:
  used in place, `encrypt` adds to `ns` without a check, which wraps in a release build,
  and positions repeat. `CountersNeverWrapHolds` needs no such hypothesis.

The strengthened invariants of `MessagingProofs`, `NetworkProofs`, `ChatProofs`,
`DurableProofs`, `StorageProofs`, `HandshakeProofs` and `RatchetProofs` were checked with
TLC on the instances of the runs before they were proved.

### Only model-checked

- `EveryEnvelopeProcessed`, `TextsSettle`, `SettleIfResolved`, `PublishedIsCurrent`:
  liveness is outside this prover. Every invariant and action property of the passing
  runs is proved.

`TypeCorrect` proves `TypeOK` of `Messaging`, which no run lists: the theorem covers
every instance.

### Not modelled

- Cryptographic functions and byte layouts: symbolic keys, fields and record identities
  stand for them. `hybrid.rs`, `rescue.rs` and the contact hash are not called by the
  messenger.
- The relay's frames, TCP and connection limits.
- Names, notes, unread counts and what else of `network/chat.rs` only the screen reads.
- `SessionManager` and `core-transport`, which the mobile API does not use.
- The Android app: its sync loop is the fairness of `Mailbox`, `Network`, `Chat` and
  `Handshake`; start-up and the master key are a few steps around the platform's
  Keystore (a process that dies between storing the wrapped key and creating the store
  is the hazard there); the rest is view state.
- `arcium-psi`: a counter and an increasing nonce, each instruction atomic on the chain,
  and a stateless circuit; everything concurrent is the Arcium network's.
- Power loss below SQLite's guarantees: a committed write stays.

## 11. Plan

1. `Messaging`, `Lifecycle`, `Ratchet`, `Relay`, `Mailbox`, `Network`, `Chat`,
   `Storage`, `Durable`, `Handshake`: done.
2. Theorems about `Messaging`, `Mailbox`, `Storage`, `Durable`, `Handshake`, `Network`,
   `Chat` and `Ratchet`: done.
3. Left: commits of unknown outcome and `recover_session` between two devices (they are
   in `Messaging` for one store), and the byte layouts listed above.
