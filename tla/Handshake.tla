---------------------------- MODULE Handshake ----------------------------
(***************************************************************************)
(* First contact between devices, from the identity to the first message:  *)
(* the identity and prekey records of crates/mobile-ffi/src/lib.rs, the    *)
(* pinned cards of contacts.rs, put_bundle, start_session and the part of  *)
(* process that receives handshakes and first messages in network.rs, with *)
(* the key agreement of X3dh.                                              *)
(*                                                                         *)
(* The relay is not trusted (relay/src/server.rs): it may hand out any     *)
(* bundle it ever saw, with a part of it replaced by that of another, and  *)
(* envelopes are repeated, delayed, reordered and changed on the way.      *)
(* Everything ever sent stays available for delivery.                      *)
(*                                                                         *)
(* Each device has several threads in put_bundle, which reads the prekey   *)
(* record, creates one, reads it again and publishes in separate steps.    *)
(* The other operations are single transactions on the device's store; the *)
(* race of two instances in accept_first_message is in Messaging.          *)
(***************************************************************************)
EXTENDS X3dh, FiniteSets

CONSTANTS
    Device,
    Threads,        \* for each device, the threads that publish its bundle
    Unreadable,     \* an identity record that does not decrypt or has no valid length
    MaxPrekeys,     \* bound, for each device: prekeys made when establish_prekeys is called
    MaxStarts,      \* bound, for each device: sessions it starts
    MaxAccepts,     \* bound, for each device: sessions it accepts
    MaxAltered      \* bound: bundles and handshakes used that were changed on the way

ASSUME HandshakeAssumption ==
    /\ {MaxPrekeys, MaxStarts, MaxAccepts} \subseteq [Device -> Nat]
    /\ MaxAltered \in Nat
    /\ DOMAIN Threads = Device
    /\ None # Unreadable

DhKey(d) == <<"dh", d>>
SignKey(d) == <<"sign", d>>
Owner(key) == key[2]

\* The keys that are made once and numbered.
OneTimePrekeys == {"opk"} \X Device \X Nat
OneTimePrekeyIds == {"opk_id"} \X Device \X Nat
Ephemerals == {"eph"} \X Device \X Nat

\* None is apart from every one-time prekey and its identifier.
ASSUME NoneIsNoKey ==
    /\ None \notin OneTimePrekeyIds
    /\ None \notin [id : OneTimePrekeyIds, pk : OneTimePrekeys]

VARIABLES
    identity,   \* identity/v1: None, Unreadable, or "stored"
    prekeys,    \* prekeys/v2: None, or the packed record of both prekeys
    pins,       \* contact:v1: for each peer key the signing key pinned with it
    session,    \* for each peer key the session stored, or None
    hsin,       \* for each peer key the provisional handshake, or None
    put,        \* what each thread is doing in put_bundle
    made,       \* number of prekeys generated, which numbers them
    bundles,    \* the relay: the last bundle put for each device
    published,  \* every bundle the relay was ever given
    started,    \* every session started, with what it was started from
    accepted,   \* the sessions accepted from a peer, in order
    altered     \* how often the network changed something that was then used

store == <<identity, prekeys, pins, session, hsin, made>>
vars == <<store, put, bundles, published, started, accepted, altered>>

PeerKeys == {DhKey(d) : d \in Device}
Cards == [dh : PeerKeys, sign : {SignKey(d) : d \in Device}]
Idle == [pc |-> "idle", bundle |-> None]
-----------------------------------------------------------------------------
(* The identity. *)

\* identity_from_record: only a missing record is None; one that cannot be
\* read is an error, not a reason to make another.
IdentityFromRecord(read) ==
    IF read = Unreadable THEN "IdentityUnreadable" ELSE read

\* require_identity.
HasIdentity(d) ==
    IdentityFromRecord(identity[d]) \notin {None, "IdentityUnreadable"}

\* save_identity: one transaction, create-only.
SaveIdentity(d) ==
    /\ IdentityFromRecord(identity[d]) = None
    /\ identity' = [identity EXCEPT ![d] = "stored"]
    /\ UNCHANGED <<prekeys, pins, session, hsin, put, made, bundles, published,
                   started, accepted, altered>>

\* The record is damaged where it is stored.
DamageIdentity(d) ==
    /\ HasIdentity(d)
    /\ altered < MaxAltered
    /\ identity' = [identity EXCEPT ![d] = Unreadable]
    /\ altered' = altered + 1
    /\ UNCHANGED <<prekeys, pins, session, hsin, put, made, bundles, published,
                   started, accepted>>
-----------------------------------------------------------------------------
(* Contacts. *)

\* add_contact: our own card and another card for a pinned key are refused,
\* the same card again changes nothing.
AddContact(d, card) ==
    /\ HasIdentity(d)
    /\ card.dh # DhKey(d)
    /\ pins[d][card.dh] = None
    /\ pins' = [pins EXCEPT ![d][card.dh] = card.sign]
    /\ UNCHANGED <<identity, prekeys, session, hsin, put, made, bundles,
                   published, started, accepted, altered>>
-----------------------------------------------------------------------------
(* Prekeys and their publication. *)

\* The prekeys the record holds.
HeldPrekeys(d) == UnpackPrekeys(prekeys[d])

NewOneTimePrekey(d) ==
    [id |-> <<"opk_id", d, made[d] + 1>>, pk |-> <<"opk", d, made[d] + 1>>]

NewPrekeyRecord(d) ==
    LET spk == <<"spk", d, made[d] + 1>>
    IN  [spk |-> spk,
         sig |-> Sign(SignKey(d), SignedPrekeyObject(DhKey(d), SignKey(d), spk)),
         opk |-> NewOneTimePrekey(d)]

\* establish_prekeys: replaces whatever record there is.
WritePrekeys(d) ==
    /\ HasIdentity(d)
    /\ prekeys' = [prekeys EXCEPT ![d] = PackPrekeys(NewPrekeyRecord(d))]
    /\ made' = [made EXCEPT ![d] = @ + 1]

EstablishPrekeys(d) ==
    /\ made[d] < MaxPrekeys[d]
    /\ WritePrekeys(d)
    /\ UNCHANGED <<identity, pins, session, hsin, put, bundles, published,
                   started, accepted, altered>>

\* export_prekey_bundle: a pure read.
ExportBundle(d) ==
    LET record == HeldPrekeys(d)
    IN  PackBundle(DhKey(d), SignKey(d), record.spk, record.sig, record.opk)

Step(d, t, pc, bundle) ==
    put' = [put EXCEPT ![d][t] = [pc |-> pc, bundle |-> bundle]]

\* Mutant: a record that exists counts as published.
PutBundleOnce(d, t) ==
    /\ put[d][t].pc = "idle"
    /\ HasIdentity(d)
    /\ prekeys[d] = None
    /\ Step(d, t, "establish", None)
    /\ UNCHANGED <<store, bundles, published, started, accepted, altered>>

\* put_bundle looks whether there is a prekey record, under a lock it then
\* gives back.
PutBundle(d, t) ==
    /\ put[d][t].pc = "idle"
    /\ HasIdentity(d)
    /\ Step(d, t, IF prekeys[d] = None THEN "establish" ELSE "export", None)
    /\ UNCHANGED <<store, bundles, published, started, accepted, altered>>

PutEstablish(d, t) ==
    /\ put[d][t].pc = "establish"
    /\ WritePrekeys(d)
    /\ Step(d, t, "export", None)
    /\ UNCHANGED <<identity, pins, session, hsin, bundles, published, started,
                   accepted, altered>>

PutExport(d, t) ==
    /\ put[d][t].pc = "export"
    /\ HasIdentity(d)
    /\ Step(d, t, "put", ExportBundle(d))
    /\ UNCHANGED <<store, bundles, published, started, accepted, altered>>

\* PUT_BUNDLE replaces the owner's bundle at the relay.
PutSend(d, t) ==
    /\ put[d][t].pc = "put"
    /\ bundles' = [bundles EXCEPT ![d] = put[d][t].bundle]
    /\ published' = published \cup {put[d][t].bundle}
    /\ Step(d, t, "idle", None)
    /\ UNCHANGED <<store, started, accepted, altered>>

\* The connection fails, an early return, or the process dies.
PutFails(d, t) ==
    /\ put[d][t].pc # "idle"
    /\ altered < MaxAltered
    /\ Step(d, t, "idle", None)
    /\ altered' = altered + 1
    /\ UNCHANGED <<store, bundles, published, started, accepted>>
-----------------------------------------------------------------------------
(* Starting a session. *)

\* What a changed structure may take from others: zero bytes, or values of a
\* later version.
BlankBundle == <<1, 1, 0, 0, Zero, Zero, Zero, Zero, Zero, Zero>>
LaterBundle == <<2, 2, 2, 1, Zero, Zero, Zero, Zero, Zero, Zero>>
BlankHandshake == <<1, 1, 0, 0, Zero, Zero, Zero, Zero>>
LaterHandshake == <<2, 2, 2, 1, Zero, Zero, Zero, Zero>>

Splice(x, y, part) == [i \in DOMAIN x |-> IF i \in part THEN y[i] ELSE x[i]]

BundleParts == {{i} : i \in 1..BundleLen} \cup {{3, 9, 10}, {9, 10}, {7, 8}, {6, 7, 8}}
HandshakeParts == {{i} : i \in 1..HandshakeLen} \cup {{3, 8}, {7, 8}}

\* GET_BUNDLE: what the relay answers, and whether it was changed.
Served ==
    {<<b, FALSE>> : b \in published}
    \cup IF altered = MaxAltered THEN {}
         ELSE {<<Splice(x[1], x[2], x[3]), TRUE>> :
                 x \in published \X (published \cup {BlankBundle, LaterBundle}) \X BundleParts}

StartedBy(d) == {s \in started : s.dev = d}

\* start_session before it fetches: a pinned contact without a session.
MayStart(d, peer) ==
    /\ HasIdentity(d)
    /\ pins[d][peer] # None
    /\ session[d][peer] = None
    /\ Cardinality(StartedBy(d)) < MaxStarts[d]

\* start_session and establish_session_initiator: the bundle must name both
\* keys of the pinned card and be signed; the session and its handshake are
\* then stored in one transaction.
StartSession(d, peer, bytes, changed) ==
    LET bundle == UnpackBundle(bytes)
        eph    == <<"eph", d, Cardinality(StartedBy(d)) + 1>>
    IN  /\ MayStart(d, peer)
        /\ bundle # None
        /\ bundle.id = peer /\ bundle.sign = pins[d][peer]
        /\ VerifySignedPrekey(bundle)
        /\ LET x == X3dhInitiate(DhKey(d), eph, bundle) IN
           /\ session' = [session EXCEPT ![d][peer] =
                            [role |-> "initiator", root |-> x.root, ad |-> x.ad]]
           /\ started' = started \cup
                {[dev |-> d, peer |-> peer, root |-> x.root, ad |-> x.ad,
                  bundle |-> bytes,
                  handshake |-> PackHandshake(DhKey(d), eph, SpkId(bundle.spk),
                                   IF bundle.opk = None THEN None
                                   ELSE bundle.opk.id)]}
        /\ altered' = IF changed THEN altered + 1 ELSE altered
        /\ UNCHANGED <<identity, prekeys, pins, hsin, put, made, bundles,
                       published, accepted>>
-----------------------------------------------------------------------------
(* Receiving the handshake and the first message. *)

Delivered ==
    LET sent == {s.handshake : s \in started}
    IN  {<<h, FALSE>> : h \in sent}
        \cup IF altered = MaxAltered THEN {}
             ELSE {<<Splice(x[1], x[2], x[3]), TRUE>> :
                     x \in sent \X (sent \cup {BlankHandshake, LaterHandshake}) \X HandshakeParts}

MayRecord(d, sender) ==
    /\ HasIdentity(d)
    /\ pins[d][sender] # None
    /\ session[d][sender] = None
    /\ prekeys[d] # None

\* process and establish_session_responder: the sender must be pinned and the
\* handshake its own, no session may exist, and the prekeys it names must be
\* the ones held.  It is only recorded.
RecordHandshake(d, sender, bytes, changed) ==
    LET handshake == UnpackHandshake(bytes)
    IN  /\ MayRecord(d, sender)
        /\ handshake # None
        /\ handshake.id = sender
        /\ CheckAnswerable(HeldPrekeys(d), handshake)
        /\ hsin[d][sender] # bytes
        /\ hsin' = [hsin EXCEPT ![d][sender] = bytes]
        /\ altered' = IF changed THEN altered + 1 ELSE altered
        /\ UNCHANGED <<identity, prekeys, pins, session, put, made, bundles,
                       published, started, accepted>>

\* The prekey record past the one-time prekey that was used.
\* Mutant: the one-time prekey is used and kept.
NotRotated(d) == prekeys[d]
Rotated(d) ==
    IF HeldPrekeys(d).opk = None THEN prekeys[d]
    ELSE PackPrekeys([HeldPrekeys(d) EXCEPT !.opk = NewOneTimePrekey(d)])

\* The ratchet opens the first message only under the same root key and
\* associated data.
Opens(x, s) == x.root = s.root /\ x.ad = s.ad

\* accept_first_message for the first message of s: the recorded handshake is
\* checked again against the prekeys held now, and the session, the rotated
\* prekeys and the end of the provisional record are one transaction.
AcceptFirstMessage(d, sender, s) ==
    LET handshake == UnpackHandshake(hsin[d][sender])
        record == HeldPrekeys(d)
        x == X3dhRespond(DhKey(d), record.spk, record.opk,
                         handshake.id, handshake.eph)
    IN  /\ HasIdentity(d)
        /\ pins[d][sender] # None
        /\ session[d][sender] = None
        /\ hsin[d][sender] # None
        /\ CheckAnswerable(record, handshake)
        /\ Opens(x, s)
        /\ Cardinality({i \in DOMAIN accepted : accepted[i].dev = d}) < MaxAccepts[d]
        /\ session' = [session EXCEPT ![d][sender] =
                         [role |-> "responder", root |-> x.root, ad |-> x.ad]]
        /\ prekeys' = [prekeys EXCEPT ![d] = Rotated(d)]
        /\ made' = [made EXCEPT ![d] = @ + 1]
        /\ hsin' = [hsin EXCEPT ![d][sender] = None]
        /\ accepted' = Append(accepted, [dev |-> d, peer |-> sender,
                                         root |-> x.root, ad |-> x.ad])
        /\ UNCHANGED <<identity, pins, put, bundles, published, started, altered>>

\* remove_session: what it requires of pending messages is in Messaging.
RemoveSession(d, peer) ==
    /\ HasIdentity(d)
    /\ session[d][peer] # None
    /\ session' = [session EXCEPT ![d][peer] = None]
    /\ UNCHANGED <<identity, prekeys, pins, hsin, put, made, bundles, published,
                   started, accepted, altered>>
-----------------------------------------------------------------------------
Init ==
    /\ identity = [d \in Device |-> None]
    /\ prekeys = [d \in Device |-> None]
    /\ pins = [d \in Device |-> [k \in PeerKeys |-> None]]
    /\ session = [d \in Device |-> [k \in PeerKeys |-> None]]
    /\ hsin = [d \in Device |-> [k \in PeerKeys |-> None]]
    /\ put = [d \in Device |-> [t \in Threads[d] |-> Idle]]
    /\ made = [d \in Device |-> 0]
    /\ bundles = [d \in Device |-> None]
    /\ published = {}
    /\ started = {}
    /\ accepted = << >>
    /\ altered = 0

Publish(d, t) ==
    \/ PutBundle(d, t) \/ PutEstablish(d, t) \/ PutExport(d, t) \/ PutSend(d, t)

Next ==
    \/ \E d \in Device :
          \/ SaveIdentity(d) \/ DamageIdentity(d) \/ EstablishPrekeys(d)
          \/ \E card \in Cards : AddContact(d, card)
          \/ \E t \in Threads[d] : Publish(d, t) \/ PutFails(d, t)
    \/ \E d \in Device, peer \in PeerKeys :
          \/ MayStart(d, peer)
                /\ \E b \in Served : StartSession(d, peer, b[1], b[2])
          \/ MayRecord(d, peer)
                /\ \E h \in Delivered : RecordHandshake(d, peer, h[1], h[2])
          \/ \E s \in started : AcceptFirstMessage(d, peer, s)
          \/ RemoveSession(d, peer)

\* Rounds are repeated while the app runs, and each begins with put_bundle:
\* some thread goes on publishing, the others may stop anywhere.
Fairness == \A d \in Device : WF_vars(\E t \in Threads[d] : Publish(d, t))

Spec == Init /\ [][Next]_vars /\ Fairness
-----------------------------------------------------------------------------
\* Two ends of one session: a session accepted for a peer's first message was
\* started by the device that owns the peer key, for this device, with the same
\* root key and associated data, whatever was changed on the way; and a
\* handshake with its first message makes one session, ever: repeated after
\* the session is gone they are refused, because their one-time prekey is.
BothEndsAgree ==
    /\ \A i \in DOMAIN accepted : \E s \in started :
          /\ s.dev = Owner(accepted[i].peer) /\ Owner(s.peer) = accepted[i].dev
          /\ s.root = accepted[i].root /\ s.ad = accepted[i].ad
    /\ \A i, j \in DOMAIN accepted :
          accepted[i].root = accepted[j].root => i = j

\* The one-time prekey of a bundle, if any, and its identifier belong together.
OneTimePrekeyIsWhole(bundle) ==
    \/ bundle.opk = None
    \/ \E b \in published : bundle.opk = UnpackBundle(b).opk

\* The identifiers a handshake names are enough: when the responder's check of
\* them passes and the one-time prekey's identifier came with its own key, both
\* sides derive the same keys, so a stale bundle is refused by name and never
\* as a message that does not authenticate.
NamedPrekeysAgree ==
    \A s \in started :
        LET d == Owner(s.peer)
            b == UnpackBundle(s.bundle)
            h == UnpackHandshake(s.handshake)
        IN  /\ HasIdentity(d) /\ prekeys[d] # None
            /\ CheckAnswerable(HeldPrekeys(d), h)
            /\ OneTimePrekeyIsWhole(b)
            => Opens(X3dhRespond(DhKey(d), HeldPrekeys(d).spk, HeldPrekeys(d).opk,
                                 h.id, h.eph), s)

\* Outside the one-time prekey, which is not signed, a bundle a session was
\* started from is one that the owner of the peer key published itself under
\* the signing key that was pinned.
KeyedFromPinned ==
    \A s \in started :
        \E b \in published :
            /\ b[5] = s.peer /\ Owner(b[6]) = Owner(s.peer)
            /\ b[6] = pins[s.dev][s.peer]
            /\ Owner(b[7]) = Owner(s.peer)
            /\ \A i \in (1..BundleLen) \ {3, 9, 10} : s.bundle[i] = b[i]

\* In the end the relay has the bundle that the device can answer, however its
\* threads raced to create and publish it and whatever used it up.
PublishedIsCurrent ==
    \A d \in Device : <>[](HasIdentity(d) => /\ prekeys[d] # None
                                            /\ bundles[d] = ExportBundle(d))
=============================================================================
