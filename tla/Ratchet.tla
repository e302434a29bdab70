------------------------------ MODULE Ratchet ------------------------------
(***************************************************************************)
(* The double ratchet of crates/core-crypto/src/ratchet.rs between the two *)
(* ends of one session, over a network that loses, repeats, reorders and   *)
(* forges messages, and the state rules of ratchet/checkpoint.rs.          *)
(*                                                                         *)
(* Keys are symbolic.  A DH output is the unordered pair of the two public *)
(* keys; the root key is the sequence of DH outputs mixed into it so far;  *)
(* a chain key is the root sequence it was split from and how often it was *)
(* advanced, which is also what names the message key derived from it.     *)
(* Two keys are equal exactly when they were derived the same way.  A      *)
(* ciphertext is the message key it was made with, bound to its header; it *)
(* opens under that key and that header only.                              *)
(*                                                                         *)
(* The ratchet is used in two ways, told apart by staged: in place (every  *)
(* call changes the live value), and by DurableSession::stage, which works *)
(* on a copy and keeps it only if the call succeeds and its checkpoint is  *)
(* accepted.                                                               *)
(***************************************************************************)
EXTENDS Naturals, Sequences, FiniteSets

CONSTANTS
    None,         \* an absent key
    Zeros,        \* 32 zero bytes
    MaxSkip,      \* MAX_SKIP
    MaxSkipped,   \* max_skipped, MAX_SKIPPED_KEYS
    U32Max,       \* u32::MAX
    MaxSentA,     \* bound: messages alice sends
    MaxSentB,     \* bound: messages bob sends
    ForgedN       \* the counters forged headers carry

ASSUME RatchetAssumption ==
    /\ MaxSkip \in Nat /\ MaxSkipped \in Nat /\ MaxSentA \in Nat /\ MaxSentB \in Nat
    /\ U32Max \in Nat /\ MaxSkip < U32Max
    /\ ForgedN \subseteq 0..U32Max

Party == {"alice", "bob"}

Other(p) == IF p = "alice" THEN "bob" ELSE "alice"

VARIABLES
    staged,  \* whether calls go through DurableSession::stage
    st,      \* the DoubleRatchet of each end
    net,     \* every message sent so far; any of them may arrive, at any time
    got,     \* history: the messages each end decrypted
    again    \* history: those it decrypted more than once

vars == <<staged, st, net, got, again>>

-----------------------------------------------------------------------------
(* Keys.                                                                   *)

PublicKey(p, i) == [own |-> p, i |-> i]

\* The ratchet keys of the two ends: each end's are drawn in order.
Key == [own: Party, i: Nat]

\* A key nobody here holds the secret of.
UnknownKey == PublicKey("nobody", 0)

\* kdf_rk: the new root key, which also names the chain split from it.
MixRoot(rk, a, b) == Append(rk, {a, b})

NewChain(rk) == [root |-> rk, i |-> 0]

\* The chain keys, and the message keys derived from them.
ChainKey == [root: Seq(SUBSET Key), i: Nat]

\* An absent key (an Option) is not a key.
ASSUME NoneIsNoKey == None \notin Key /\ None \notin ChainKey

\* kdf_ck: the chain key after one message.
Advance(ck, steps) == [ck EXCEPT !.i = @ + steps]

-----------------------------------------------------------------------------
(* The ratchet of one end: r is the struct DoubleRatchet, with skipped in  *)
(* IndexMap order and, as history, the positions trim_skipped evicted.     *)

InitAlice ==
    LET dhs == PublicKey("alice", 0)
        dhr == PublicKey("bob", 0)
        rk  == MixRoot(<< >>, dhs, dhr)
    IN  [dhs |-> dhs, dhr |-> dhr, rk |-> rk, cks |-> NewChain(rk),
         ckr |-> None, ns |-> 0, nr |-> 0, pn |-> 0, skipped |-> << >>,
         evicted |-> {}]

InitBob ==
    [dhs |-> PublicKey("bob", 0), dhr |-> None, rk |-> << >>, cks |-> None,
     ckr |-> None, ns |-> 0, nr |-> 0, pn |-> 0, skipped |-> << >>,
     evicted |-> {}]

Position(e) == [dh |-> e.dh, n |-> e.n]

Positions(s) == {Position(s[j]) : j \in DOMAIN s}

\* trim_skipped: entries are evicted from the front.
\* Variant: nothing is evicted.
KeepAll(r) == r
TrimSkipped(r) ==
    LET s    == r.skipped
        over == IF Len(s) > MaxSkipped THEN Len(s) - MaxSkipped ELSE 0
    IN  [r EXCEPT !.skipped = SubSeq(s, over + 1, Len(s)),
                  !.evicted = @ \cup Positions(SubSeq(s, 1, over))]

\* Whether skip_message_keys fails with SkipLimit.
BeyondSkip(r, until) ==
    LET limit == IF r.nr + MaxSkip > U32Max THEN U32Max ELSE r.nr + MaxSkip
    IN  limit < until

\* skip_message_keys within the limit: the keys from nr up to until are
\* stored.  Without a receiving chain there are none to store.
SkipMessageKeys(r, until) ==
    LET steps == IF until > r.nr THEN until - r.nr ELSE 0
        new   == [j \in 1..steps |->
                    [dh |-> r.dhr, n |-> r.nr + j - 1, mk |-> Advance(r.ckr, j - 1)]]
    IN  IF r.ckr = None THEN r
        ELSE TrimSkipped([r EXCEPT !.skipped = @ \o new, !.nr = @ + steps,
                                   !.ckr = Advance(@, steps)])

\* dh_ratchet_step: a receiving chain from the current secret and the peer's
\* new key, then a fresh secret and a sending chain from it.
DhRatchetStep(r, dh) ==
    LET fresh == PublicKey(r.dhs.own, r.dhs.i + 1)
        rk1   == MixRoot(r.rk, r.dhs, dh)
        rk2   == MixRoot(rk1, fresh, dh)
    IN  [r EXCEPT !.pn = r.ns, !.ns = 0, !.nr = 0, !.dhr = dh,
                  !.ckr = NewChain(rk1), !.dhs = fresh, !.rk = rk2,
                  !.cks = NewChain(rk2)]

\* IndexMap::swap_remove: the last entry takes the place of the removed one.
\* Variant: the entry is read and left in place.
Peek(s, j) == s
SwapRemove(s, j) ==
    LET moved == [s EXCEPT ![j] = s[Len(s)]] IN SubSeq(moved, 1, Len(s) - 1)

IsInitialResponderState(r) ==
    /\ r.dhr = None /\ r.cks = None /\ r.ckr = None
    /\ r.ns = 0 /\ r.nr = 0 /\ r.pn = 0
    /\ r.skipped = << >>

\* Step 2 of decrypt_inner: on a new peer key, the keys left in the old chain
\* are saved and the DH ratchet steps.
\* Variant: the keys left in the old chain are not saved.
SwitchedForgetting(r, h) ==
    IF r.dhr = h.dh THEN r ELSE DhRatchetStep(r, h.dh)
Switched(r, h) ==
    IF r.dhr = h.dh THEN r ELSE DhRatchetStep(SkipMessageKeys(r, h.pn), h.dh)

\* Steps 2 to 4: the key derived for header h, None on an error before that,
\* and the ratchet left behind either way.
FromChain(r, h) ==
    LET a == Switched(r, h)
        b == SkipMessageKeys(a, h.n)
    IN  IF r.dhr # h.dh /\ BeyondSkip(r, h.pn) THEN [mk |-> None, st |-> r]
        ELSE IF BeyondSkip(a, h.n) THEN [mk |-> None, st |-> a]
        ELSE IF b.ckr = None       THEN [mk |-> None, st |-> b]
        ELSE [mk |-> b.ckr,
              st |-> [b EXCEPT !.ckr = Advance(@, 1),
                               !.nr = (@ + 1) % (U32Max + 1)]]

\* Step 1: a key stored for this position is used and removed.
Held(r, h) == {j \in DOMAIN r.skipped : Position(r.skipped[j]) = Position(h)}

DecryptInner(r, h) ==
    IF Held(r, h) # {}
    THEN LET j == CHOOSE j \in Held(r, h) : TRUE
         IN  [mk |-> r.skipped[j].mk,
              st |-> [r EXCEPT !.skipped = SwapRemove(@, j)]]
    ELSE FromChain(r, h)

\* restore, after a failure: every field goes back to the snapshot.
\* Variant: everything stays as decrypt_inner left it.
NoRestore(snapshot, r) == r
Restore(snapshot, r) == snapshot

\* decrypt: whether message m opens, and the ratchet afterwards.
Decrypt(r, m) ==
    LET d  == DecryptInner(r, m)
        ok == d.mk # None /\ d.mk = m.mk
    IN  [ok |-> ok, st |-> IF ok THEN d.st ELSE Restore(r, d.st)]

\* encrypt: the header and key of the next message, and the ratchet after it.
\* Variant: the chain key is not replaced.
SameChainKey(r) == [r EXCEPT !.ns = (@ + 1) % (U32Max + 1)]
Encrypted(r) ==
    [r EXCEPT !.cks = Advance(@, 1), !.ns = (@ + 1) % (U32Max + 1)]

-----------------------------------------------------------------------------
(* RATCHET_STATE_V1, the checkpoint of a ratchet.                          *)

\* The fields a presence flag says are there; an absent one is zeros.
Optional == {"dhr", "cks", "ckr"}

Present(r) == {f \in Optional : r[f] # None}

OrZeros(key) == IF key = None THEN Zeros ELSE key

\* check_state, besides the counters.
Structure(has, c, count) ==
    /\ (has = {} /\ c.ns = 0) \/ {"dhr", "cks"} \subseteq has
    /\ "ckr" \notin has => c.nr = 0 /\ c.pn = 0 /\ count = 0
    /\ count <= MaxSkipped

\* MAX_RESUMABLE_NR.  Variant: one more.
MaxResumableNrPlusOne == U32Max - MaxSkip
MaxResumableNr == U32Max - MaxSkip - 1

Exhausted(c) == c.ns = U32Max \/ c.nr > MaxResumableNr

CheckState(has, c, count) == Structure(has, c, count) /\ ~Exhausted(c)

\* to_checkpoint accepts the state.
Storable(r) == CheckState(Present(r), r, Len(r.skipped))

ToCheckpoint(r) ==
    [flags |-> Present(r), dhs |-> r.dhs, dhr |-> OrZeros(r.dhr), rk |-> r.rk,
     cks |-> OrZeros(r.cks), ckr |-> OrZeros(r.ckr), ns |-> r.ns, nr |-> r.nr,
     pn |-> r.pn, max |-> MaxSkipped, count |-> Len(r.skipped),
     entries |-> r.skipped]

\* from_checkpoint accepts the record.
Readable(c) ==
    /\ c.flags \subseteq Optional
    /\ c.max = MaxSkipped
    /\ c.count = Len(c.entries)
    /\ CheckState(c.flags, c, c.count)
    /\ \A f \in Optional \ c.flags : c[f] = Zeros
    /\ Cardinality(Positions(c.entries)) = c.count

\* The ratchet from_checkpoint builds; what was evicted before is not in it.
FromCheckpoint(c) ==
    LET field(f) == IF f \in c.flags THEN c[f] ELSE None
    IN  [dhs |-> c.dhs, dhr |-> field("dhr"), rk |-> c.rk, cks |-> field("cks"),
         ckr |-> field("ckr"), ns |-> c.ns, nr |-> c.nr, pn |-> c.pn,
         skipped |-> c.entries, evicted |-> {}]

\* A state the session is loaded from again before its next call.
Reloaded(r) == [FromCheckpoint(ToCheckpoint(r)) EXCEPT !.evicted = r.evicted]

\* What a caller keeps of a call that left the ratchet in state new: a staged
\* call works on a copy, which is stored if its checkpoint is accepted.
Kept(r, ok, new) ==
    IF ~staged THEN new
    ELSE IF ok /\ Storable(new) THEN Reloaded(new) ELSE r

-----------------------------------------------------------------------------
Message(p, r) ==
    [to |-> Other(p), dh |-> r.dhs, pn |-> r.pn, n |-> r.ns, mk |-> r.cks]

\* encrypt.  A staged encryption whose checkpoint is refused releases nothing.
Encrypt(p) ==
    LET new == Encrypted(st[p]) IN
    /\ st[p].cks # None
    /\ Cardinality({m \in net : m.to = Other(p)}) < (IF p = "alice" THEN MaxSentA ELSE MaxSentB)
    /\ staged => Storable(new)
    /\ st' = [st EXCEPT ![p] = Kept(@, TRUE, new)]
    /\ net' = net \cup {Message(p, st[p])}
    /\ UNCHANGED <<staged, got, again>>

\* decrypt of a message that was sent: in order, late, early, or repeated.
Receive(p, m) ==
    LET d  == Decrypt(st[p], m)
        ok == d.ok /\ (staged => Storable(d.st))
    IN  /\ m.to = p
        /\ st' = [st EXCEPT ![p] = Kept(st[p], d.ok, d.st)]
        /\ got' = [got EXCEPT ![p] = IF ok THEN @ \cup {m} ELSE @]
        /\ again' = [again EXCEPT ![p] =
                       IF ok /\ m \in got[p] THEN @ \cup {m} ELSE @]
        /\ UNCHANGED <<staged, net>>

\* Headers anyone can write: over the public keys seen and an unknown one.
ForgedHeader ==
    [to: Party, dh: {UnknownKey, PublicKey("bob", 0)} \cup {m.dh : m \in net},
     pn: ForgedN, n: ForgedN, mk: {None}]

\* decrypt of a forged ciphertext, or of a real one under another header.
ReceiveForged(p, m) ==
    /\ m.to = p
    /\ st' = [st EXCEPT ![p] = Kept(@, FALSE, Decrypt(@, m).st)]
    /\ UNCHANGED <<staged, net, got, again>>

Init ==
    /\ staged \in BOOLEAN
    /\ st = [p \in Party |-> IF p = "alice" THEN InitAlice ELSE InitBob]
    /\ net = {}
    /\ got = [p \in Party |-> {}]
    /\ again = [p \in Party |-> {}]

Next ==
    \E p \in Party :
        \/ Encrypt(p)
        \/ \E m \in net : Receive(p, m)
        \/ \E m \in ForgedHeader : ReceiveForged(p, m)

Spec == Init /\ [][Next]_vars

-----------------------------------------------------------------------------
(* Properties.                                                             *)

\* Chain keys never cross: no two messages, of one end or of both, are ever
\* encrypted under one message key, or carry the same header position.
KeyUsedOnce ==
    \A m1, m2 \in net :
        (m1.mk = m2.mk \/ Position(m1) = Position(m2)) => m1 = m2

\* A message opens at most once: a repeated one finds its key used up, by the
\* chain or in the skipped store.
OpensOnce == \A p \in Party : again[p] = {}

\* The order in which one end uses its positions.
SentBefore(a, b) ==
    \/ a.dh.i < b.dh.i
    \/ a.dh.i = b.dh.i /\ a.n < b.n

\* The messages to p that were sent before m and not decrypted: earlier ones
\* of m's own chain, and all of the chains before it.
Missing(p, m) ==
    {x \in net \ got[p] :
        x.to = p /\ SentBefore(Position(x), Position(m))}

\* Whatever was lost, repeated, reordered or forged, a message that arrives
\* with at most MAX_SKIP earlier ones missing opens, unless its own key was
\* evicted from the skipped store.
OpensInAnyOrder ==
    \A p \in Party, m \in net :
        (/\ m.to = p /\ m \notin got[p]
         /\ Position(m) \notin st[p].evicted
         /\ Cardinality(Missing(p, m)) <= MaxSkip)
        => Decrypt(st[p], m).ok

\* What the messaging layer reads off the ratchet's shape is the history: a
\* receiving chain exists exactly when a message was decrypted, and the
\* initial responder state, which alone cannot encrypt, exactly when the
\* responder decrypted none.  A forged message does not change either.
ShapeTellsHistory ==
    \A p \in Party :
        /\ st[p].ckr # None <=> got[p] # {}
        /\ IsInitialResponderState(st[p]) <=> p = "bob" /\ got[p] = {}
        /\ st[p].cks = None <=> p = "bob" /\ got[p] = {}

\* Everything the ratchet can turn into, short of an exhausted counter, is
\* accepted when it is written and when it is read back, and comes back as it
\* was, the order of eviction included: a session never advances into a state
\* it cannot be stored in or resumes from a different one.
Checkpointable ==
    \A p \in Party, m \in net :
        LET d == Decrypt(st[p], m)
        IN  d.ok /\ ~Exhausted(d.st) =>
              /\ Readable(ToCheckpoint(d.st))
              /\ Reloaded(d.st) = d.st

\* From a checkpointed state no call overflows a counter: not an encryption,
\* and not a decryption, before or after its message proves forged.
CountersNeverWrap ==
    staged => \A p \in Party :
        /\ st[p].ns < U32Max
        /\ \A m \in net \cup ForgedHeader :
              LET d == FromChain(st[p], m) IN d.mk # None => d.st.nr > 0

=============================================================================
