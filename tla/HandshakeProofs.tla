-------------------------- MODULE HandshakeProofs --------------------------
(***************************************************************************)
(* First contact keys the right devices, for any number of devices,        *)
(* threads, prekeys, sessions and changes on the way.                      *)
(***************************************************************************)
EXTENDS Handshake, SequenceTheorems, FiniteSetTheorems, TLAPS

\* The prekeys that a device makes, and how it packs and publishes them.
Spk(d, k) == <<"spk", d, k>>
Opk(d, m) == [id |-> <<"opk_id", d, m>>, pk |-> <<"opk", d, m>>]
SigOf(d, k) == Sign(SignKey(d), SignedPrekeyObject(DhKey(d), SignKey(d), Spk(d, k)))

RecordOf(d, k, m) ==
    <<RecordVersion, Spk(d, k), SigOf(d, k), FlagOtp, Opk(d, m).id, Opk(d, m).pk>>

BundleOf(d, k, m) ==
    <<ProtocolVersion, CipherSuite, FlagOtp, 0, DhKey(d), SignKey(d), Spk(d, k),
      SigOf(d, k), Opk(d, m).id, Opk(d, m).pk>>

Held(d, k, m) == prekeys[d] = RecordOf(d, k, m)

\* The key a peer says it made for this session: its own, or blank.
PeerEphemerals == Ephemerals \cup {Zero}

-----------------------------------------------------------------------------
(* Sequences of fields.                                                    *)

\* What a concatenation is.
LEMMA ConcatIs ==
    ASSUME NEW S, NEW x \in Seq(S), NEW y \in Seq(S), NEW z \in Seq(S),
           Len(z) = Len(x) + Len(y), \A i \in 1..Len(x) : z[i] = x[i],
           \A i \in 1..Len(y) : z[Len(x) + i] = y[i]
    PROVE  x \o y = z
<1>1. x \o y \in Seq(S) /\ Len(x \o y) = Len(z)
  BY ConcatProperties
<1>2. ASSUME NEW i \in 1..Len(z)
      PROVE  (x \o y)[i] = z[i]
  <2>1. CASE i <= Len(x)
    BY <2>1, ConcatProperties
  <2>2. CASE i > Len(x)
    <3>1. (x \o y)[i] = y[i - Len(x)]
      BY <2>2, ConcatProperties
    <3>2. i - Len(x) \in 1..Len(y)
      BY <2>2
    <3> QED
      BY <3>1, <3>2
  <2> QED
    BY <2>1, <2>2
<1> QED
  BY <1>1, <1>2, SeqEqual

\* The record of both prekeys.
LEMMA PackedPrekeys ==
    ASSUME NEW a, NEW b, NEW c, NEW d, NEW e, NEW f
    PROVE  <<a, b, c>> \o <<d, e, f>> = <<a, b, c, d, e, f>>
<1> DEFINE S == {a, b, c, d, e, f}
           x == <<a, b, c>>
           y == <<d, e, f>>
           z == <<a, b, c, d, e, f>>
<1>1. x \in Seq(S) /\ y \in Seq(S) /\ z \in Seq(S)
  OBVIOUS
<1>2. Len(x) = 3 /\ Len(y) = 3 /\ Len(z) = 6
  OBVIOUS
<1>3. /\ x[1] = a /\ x[2] = b /\ x[3] = c /\ y[1] = d /\ y[2] = e /\ y[3] = f
      /\ z[1] = a /\ z[2] = b /\ z[3] = c /\ z[4] = d /\ z[5] = e /\ z[6] = f
  OBVIOUS
<1> HIDE DEF S, x, y, z
<1>4. /\ Len(z) = Len(x) + Len(y) /\ \A i \in 1..Len(x) : z[i] = x[i]
      /\ \A i \in 1..Len(y) : z[Len(x) + i] = y[i]
  BY <1>2, <1>3
<1>5. x \o y = z
  BY <1>1, <1>4, ConcatIs
<1> QED
  BY <1>5 DEF x, y, z

\* The published bundle.
LEMMA PackedBundle ==
    ASSUME NEW a, NEW b, NEW c, NEW d, NEW e, NEW f, NEW g, NEW h, NEW i, NEW j
    PROVE  <<a, b, c, d, e, f, g, h>> \o <<i, j>> = <<a, b, c, d, e, f, g, h, i, j>>
<1> DEFINE S == {a, b, c, d, e, f, g, h, i, j}
           x == <<a, b, c, d, e, f, g, h>>
           y == <<i, j>>
           z == <<a, b, c, d, e, f, g, h, i, j>>
<1>1. x \in Seq(S) /\ y \in Seq(S) /\ z \in Seq(S)
  OBVIOUS
<1>2. Len(x) = 8 /\ Len(y) = 2 /\ Len(z) = 10
  OBVIOUS
<1>3. /\ x[1] = a /\ x[2] = b /\ x[3] = c /\ x[4] = d /\ x[5] = e /\ x[6] = f
      /\ x[7] = g /\ x[8] = h /\ y[1] = i /\ y[2] = j
  OBVIOUS
<1>4. /\ z[1] = a /\ z[2] = b /\ z[3] = c /\ z[4] = d /\ z[5] = e /\ z[6] = f
      /\ z[7] = g /\ z[8] = h /\ z[9] = i /\ z[10] = j
  OBVIOUS
<1> HIDE DEF S, x, y, z
<1>5. /\ Len(z) = Len(x) + Len(y) /\ \A n \in 1..Len(x) : z[n] = x[n]
      /\ \A n \in 1..Len(y) : z[Len(x) + n] = y[n]
  BY <1>2, <1>3, <1>4
<1>6. x \o y = z
  BY <1>1, <1>5, ConcatIs
<1> QED
  BY <1>6 DEF x, y, z

\* The input of the key derivation, with the one-time prekey.
LEMMA DerivedRoot ==
    ASSUME NEW a, NEW b, NEW c, NEW d
    PROVE  DeriveRoot(a, b, c, <<d>>) = <<a, b, c, d>>
<1> DEFINE S == {a, b, c, d}
           x == <<a, b, c>>
           y == <<d>>
           z == <<a, b, c, d>>
<1>1. x \in Seq(S) /\ y \in Seq(S) /\ z \in Seq(S)
  OBVIOUS
<1>2. Len(x) = 3 /\ Len(y) = 1 /\ Len(z) = 4
  OBVIOUS
<1>3. /\ x[1] = a /\ x[2] = b /\ x[3] = c /\ y[1] = d
      /\ z[1] = a /\ z[2] = b /\ z[3] = c /\ z[4] = d
  OBVIOUS
<1> HIDE DEF S, x, y, z
<1>4. /\ Len(z) = Len(x) + Len(y) /\ \A i \in 1..Len(x) : z[i] = x[i]
      /\ \A i \in 1..Len(y) : z[Len(x) + i] = y[i]
  BY <1>2, <1>3
<1>5. x \o y = z
  BY <1>1, <1>4, ConcatIs
<1> QED
  BY <1>5 DEF x, y, z, DeriveRoot

-----------------------------------------------------------------------------
(* Prekeys, bundles and handshakes.                                        *)

\* The one-time prekeys are there.
LEMMA OpkIsThere ==
    ASSUME NEW d \in Device, NEW m \in Nat
    PROVE  /\ Opk(d, m) # None /\ Opk(d, m).id # None
           /\ Opk(d, m).id = <<"opk_id", d, m>> /\ Opk(d, m).pk = <<"opk", d, m>>
<1>1. <<"opk_id", d, m>> \in OneTimePrekeyIds /\ <<"opk", d, m>> \in OneTimePrekeys
  BY DEF OneTimePrekeyIds, OneTimePrekeys
<1>2. Opk(d, m) \in [id : OneTimePrekeyIds, pk : OneTimePrekeys]
  BY <1>1 DEF Opk
<1> QED
  BY <1>1, <1>2, NoneIsNoKey DEF Opk

\* What unpacking the record gives.
LEMMA HeldFields ==
    ASSUME NEW d \in Device, NEW k \in Nat, NEW m \in Nat, Held(d, k, m)
    PROVE  HeldPrekeys(d) = [spk |-> Spk(d, k), sig |-> SigOf(d, k), opk |-> Opk(d, m)]
<1> DEFINE r == RecordOf(d, k, m)
<1>1. /\ Len(r) = 6 /\ r[1] = RecordVersion /\ r[2] = Spk(d, k) /\ r[3] = SigOf(d, k)
      /\ r[4] = FlagOtp /\ r[5] = Opk(d, m).id /\ r[6] = Opk(d, m).pk
  BY DEF RecordOf
<1> HIDE DEF r
<1>2. UnpackPrekeys(r) =
        [spk |-> Spk(d, k), sig |-> SigOf(d, k),
         opk |-> [id |-> Opk(d, m).id, pk |-> Opk(d, m).pk]]
  BY <1>1 DEF UnpackPrekeys, CheckFlags, FlagOtp
<1>3. [id |-> Opk(d, m).id, pk |-> Opk(d, m).pk] = Opk(d, m)
  BY DEF Opk
<1> QED
  BY <1>2, <1>3 DEF r, Held, HeldPrekeys

\* The new record: both prekeys under the next number.
LEMMA NewRecordPacked ==
    ASSUME NEW d \in Device, made[d] \in Nat
    PROVE  PackPrekeys(NewPrekeyRecord(d)) = RecordOf(d, made[d] + 1, made[d] + 1)
<1> DEFINE n == made[d] + 1
           r == NewPrekeyRecord(d)
<1>1. r.spk = Spk(d, n) /\ r.sig = SigOf(d, n) /\ r.opk = Opk(d, n)
  BY DEF NewPrekeyRecord, NewOneTimePrekey, Spk, SigOf, Opk
<1>2. n \in Nat
  OBVIOUS
<1>3. Opk(d, n) # None
  BY <1>2, OpkIsThere
<1> HIDE DEF r, n
<1>4. PackPrekeys(r) = <<RecordVersion, Spk(d, n), SigOf(d, n)>>
                       \o <<FlagOtp, Opk(d, n).id, Opk(d, n).pk>>
  BY <1>1, <1>3 DEF PackPrekeys
<1>5. PackPrekeys(r) = RecordOf(d, n, n)
  BY <1>4, PackedPrekeys DEF RecordOf
<1> QED
  BY <1>5 DEF r, n

\* The record after a one-time prekey was used: the next one in its place.
LEMMA RotatedPacked ==
    ASSUME NEW d \in Device, made[d] \in Nat, NEW k \in Nat, NEW m \in Nat, Held(d, k, m)
    PROVE  Rotated(d) = RecordOf(d, k, made[d] + 1)
<1> DEFINE n == made[d] + 1
           h == HeldPrekeys(d)
           r == [h EXCEPT !.opk = NewOneTimePrekey(d)]
<1>1. h = [spk |-> Spk(d, k), sig |-> SigOf(d, k), opk |-> Opk(d, m)]
  BY HeldFields
<1>2. NewOneTimePrekey(d) = Opk(d, n) /\ n \in Nat
  BY DEF NewOneTimePrekey, Opk
<1>3. r.spk = Spk(d, k) /\ r.sig = SigOf(d, k) /\ r.opk = Opk(d, n)
  BY <1>1, <1>2
<1>4. Opk(d, n) # None /\ Opk(d, m) # None
  BY <1>2, OpkIsThere
<1>5. Rotated(d) = PackPrekeys(r)
  BY <1>1, <1>4 DEF Rotated
<1> HIDE DEF r, n, h
<1>6. PackPrekeys(r) = <<RecordVersion, Spk(d, k), SigOf(d, k)>>
                       \o <<FlagOtp, Opk(d, n).id, Opk(d, n).pk>>
  BY <1>3, <1>4 DEF PackPrekeys
<1>7. PackPrekeys(r) = RecordOf(d, k, n)
  BY <1>6, PackedPrekeys DEF RecordOf
<1> QED
  BY <1>5, <1>7 DEF n

\* The bundle exported.
LEMMA ExportedBundle ==
    ASSUME NEW d \in Device, NEW k \in Nat, NEW m \in Nat, Held(d, k, m)
    PROVE  ExportBundle(d) = BundleOf(d, k, m)
<1>1. HeldPrekeys(d) = [spk |-> Spk(d, k), sig |-> SigOf(d, k), opk |-> Opk(d, m)]
  BY HeldFields
<1>2. Opk(d, m) # None
  BY OpkIsThere
<1>3. ExportBundle(d) = PackBundle(DhKey(d), SignKey(d), Spk(d, k), SigOf(d, k), Opk(d, m))
  BY <1>1 DEF ExportBundle
<1>4. ExportBundle(d) =
        <<ProtocolVersion, CipherSuite, FlagOtp, 0, DhKey(d), SignKey(d), Spk(d, k),
          SigOf(d, k)>> \o <<Opk(d, m).id, Opk(d, m).pk>>
  BY <1>2, <1>3 DEF PackBundle
<1> QED
  BY <1>4, PackedBundle DEF BundleOf

\* Its fields.
LEMMA BundleFields ==
    ASSUME NEW d, NEW k, NEW m
    PROVE  LET b == BundleOf(d, k, m)
           IN  /\ Len(b) = 10 /\ DOMAIN b = 1..10
               /\ b[1] = ProtocolVersion /\ b[2] = CipherSuite /\ b[3] = FlagOtp /\ b[4] = 0
               /\ b[5] = DhKey(d) /\ b[6] = SignKey(d) /\ b[7] = Spk(d, k)
               /\ b[8] = SigOf(d, k) /\ b[9] = Opk(d, m).id /\ b[10] = Opk(d, m).pk
  BY DEF BundleOf

-----------------------------------------------------------------------------
(* The inductive invariant.                                                *)

Shape ==
    /\ made \in [Device -> Nat] /\ DOMAIN prekeys = Device
    /\ DOMAIN pins = Device /\ \A d \in Device : DOMAIN pins[d] = PeerKeys
    /\ DOMAIN hsin = Device /\ \A d \in Device : DOMAIN hsin[d] = PeerKeys
    /\ DOMAIN put = Device /\ \A d \in Device : DOMAIN put[d] = Threads[d]
    /\ IsFiniteSet(started)
    /\ \E S : accepted \in Seq(S)

\* A device holds prekeys it made itself.
HasRecord(d) == \E k, m \in 1..made[d] : Held(d, k, m)
PrekeysOwn == \A d \in Device : prekeys[d] # None => HasRecord(d)

\* And publishes those.
PutOwn ==
    \A d \in Device : \A t \in Threads[d] :
        /\ DOMAIN put[d][t] = {"pc", "bundle"}
        /\ put[d][t].pc = "export" => HasRecord(d)
        /\ put[d][t].pc = "put" => \E k, m \in Nat : put[d][t].bundle = BundleOf(d, k, m)
PublishedOwn ==
    \A b \in published : \E d \in Device : \E k, m \in Nat : b = BundleOf(d, k, m)

\* The signed fields of the bundle are those of one that the pinned peer published.
FromPinned(s) ==
    \E d \in Device : \E k, m \in Nat :
        /\ BundleOf(d, k, m) \in published
        /\ s.peer = DhKey(d) /\ pins[s.dev][s.peer] = SignKey(d)
        /\ \A i \in (1..BundleLen) \ {3, 9, 10} : s.bundle[i] = BundleOf(d, k, m)[i]

\* The keys and the handshake come from that bundle.
Derived(s) ==
    LET b == UnpackBundle(s.bundle)
    IN  /\ b.id = s.peer /\ b.spk = s.bundle[7]
        /\ s.ad = <<DhKey(s.dev), s.peer>>
        /\ \E e \in Ephemerals :
              /\ s.root = X3dhInitiate(DhKey(s.dev), e, b).root
              /\ s.handshake = PackHandshake(DhKey(s.dev), e, SpkId(b.spk),
                                             IF b.opk = None THEN None ELSE b.opk.id)

StartedOwn ==
    \A s \in started :
        /\ s.dev \in Device /\ s.peer \in PeerKeys /\ pins[s.dev][s.peer] # None
        /\ FromPinned(s) /\ Derived(s)

\* A recorded handshake names its sender, and no prekey as the sender's key; there
\* is a prekey record to answer it from.
RecordedOwn ==
    \A d \in Device : \A p \in PeerKeys : hsin[d][p] # None =>
        /\ HasRecord(d)
        /\ UnpackHandshake(hsin[d][p]).id = p
        /\ UnpackHandshake(hsin[d][p]).eph \in PeerEphemerals

\* The one-time prekey of every session accepted is used up.
Used(a) ==
    /\ a.dev \in Device
    /\ \E n \in 1..made[a.dev], e \in PeerEphemerals :
          /\ a.root[4] = DH(<<"opk", a.dev, n>>, e)
          /\ \A k, m \in Nat : Held(a.dev, k, m) => n < m
UsedUp == \A i \in DOMAIN accepted : Used(accepted[i])

HandshakeInv ==
    /\ Shape /\ PrekeysOwn /\ PutOwn /\ PublishedOwn /\ StartedOwn /\ RecordedOwn
    /\ UsedUp /\ BothEndsAgree

-----------------------------------------------------------------------------
(* What is served and delivered.                                           *)

\* A changed structure has each field from one of two.
LEMMA SpliceField ==
    ASSUME NEW x, NEW y, NEW part, NEW i \in DOMAIN x
    PROVE  Splice(x, y, part)[i] \in {x[i], y[i]}
  BY DEF Splice

\* A bundle with a valid signature takes the signed fields from one bundle.
LEMMA SignedFromOne ==
    ASSUME PublishedOwn, NEW b \in Served, NEW u,
           u = UnpackBundle(b[1]), u # None, VerifySignedPrekey(u)
    PROVE  \E d \in Device : \E k, m \in Nat :
              /\ BundleOf(d, k, m) \in published
              /\ u.id = DhKey(d) /\ u.sign = SignKey(d)
              /\ \A i \in (1..BundleLen) \ {3, 9, 10} : b[1][i] = BundleOf(d, k, m)[i]
<1> DEFINE z == b[1]
<1>1. /\ z[1] = ProtocolVersion /\ z[2] = CipherSuite /\ z[4] = 0
      /\ u.id = z[5] /\ u.sign = z[6] /\ u.spk = z[7] /\ u.sig = z[8]
  BY DEF UnpackBundle, CheckHeader
<1>2. z[8] = Sign(z[6], SignedPrekeyObject(z[5], z[6], z[7]))
  BY <1>1 DEF VerifySignedPrekey
<1>3. \E y \in published : z[8] = y[8]
  <2>1. ASSUME NEW x \in published, b = <<x, FALSE>>
        PROVE  \E w \in published : z[8] = w[8]
    BY <2>1
  <2>2. ASSUME NEW x \in published, NEW y \in published \cup {BlankBundle, LaterBundle},
               NEW part, b = <<Splice(x, y, part), TRUE>>
        PROVE  \E w \in published : z[8] = w[8]
    <3>1. 8 \in DOMAIN x
      BY BundleFields DEF PublishedOwn
    <3>2. z[8] \in {x[8], y[8]}
      BY <2>2, <3>1, SpliceField
    <3>3. z[8] # Zero
      BY <1>2 DEF Sign, Zero
    <3>4. BlankBundle[8] = Zero /\ LaterBundle[8] = Zero
      BY DEF BlankBundle, LaterBundle
    <3> QED
      BY <3>2, <3>3, <3>4
  <2>3. \/ \E x \in published : b = <<x, FALSE>>
        \/ \E x \in published, y \in published \cup {BlankBundle, LaterBundle},
              part \in BundleParts : b = <<Splice(x, y, part), TRUE>>
    <3> DEFINE A == {<<x, FALSE>> : x \in published}
               B == {<<Splice(x[1], x[2], x[3]), TRUE>> :
                       x \in published \X (published \cup {BlankBundle, LaterBundle})
                                        \X BundleParts}
    <3>1. b \in A \/ b \in B
      BY DEF Served
    <3> QED
      BY <3>1
  <2> QED
    BY <2>1, <2>2, <2>3
<1>4. PICK y \in published : z[8] = y[8]
  BY <1>3
<1>5. PICK d \in Device, k \in Nat, m \in Nat : y = BundleOf(d, k, m)
  BY DEF PublishedOwn
<1>6. /\ y[1] = ProtocolVersion /\ y[2] = CipherSuite /\ y[4] = 0
      /\ y[5] = DhKey(d) /\ y[6] = SignKey(d) /\ y[7] = Spk(d, k) /\ y[8] = SigOf(d, k)
  BY <1>5, BundleFields
<1>7. Sign(z[6], SignedPrekeyObject(z[5], z[6], z[7])) =
        Sign(SignKey(d), SignedPrekeyObject(DhKey(d), SignKey(d), Spk(d, k)))
  BY <1>2, <1>4, <1>6 DEF SigOf
<1>8. z[5] = DhKey(d) /\ z[6] = SignKey(d) /\ z[7] = Spk(d, k)
  <2> DEFINE o == SignedPrekeyObject(z[5], z[6], z[7])
             q == SignedPrekeyObject(DhKey(d), SignKey(d), Spk(d, k))
  <2>1. z[6] = SignKey(d) /\ o = q
    <3> HIDE DEF o, q
    <3> QED
      BY <1>7 DEF Sign, o, q
  <2> QED
    BY <2>1 DEF SignedPrekeyObject
<1>9. \A i \in (1..BundleLen) \ {3, 9, 10} : z[i] = y[i]
  BY <1>1, <1>4, <1>6, <1>8 DEF BundleLen
<1> QED
  BY <1>1, <1>5, <1>8, <1>9

\* A handshake delivered has the ephemeral key of one that was sent, or none.
LEMMA DeliveredEphemeral ==
    ASSUME StartedOwn, NEW h \in Delivered, UnpackHandshake(h[1]) # None
    PROVE  UnpackHandshake(h[1]).eph \in PeerEphemerals
<1>1. UnpackHandshake(h[1]).eph = h[1][6]
  BY DEF UnpackHandshake
<1>2. ASSUME NEW s \in started
      PROVE  6 \in DOMAIN s.handshake /\ s.handshake[6] \in Ephemerals
  <2>1. PICK e \in Ephemerals :
          \E o, x : s.handshake = PackHandshake(DhKey(s.dev), e, x, o)
    BY DEF StartedOwn, Derived
  <2> QED
    BY <2>1 DEF PackHandshake
<1>3. CASE \E s \in started : h = <<s.handshake, FALSE>>
  BY <1>1, <1>2, <1>3 DEF PeerEphemerals
<1>4. ASSUME NEW s \in started, NEW part,
             NEW g \in {r.handshake : r \in started} \cup {BlankHandshake, LaterHandshake},
             h = <<Splice(s.handshake, g, part), TRUE>>
      PROVE  h[1][6] \in PeerEphemerals
  <2>1. h[1][6] \in {s.handshake[6], g[6]}
    BY <1>2, <1>4, SpliceField
  <2>2. BlankHandshake[6] = Zero /\ LaterHandshake[6] = Zero
    BY DEF BlankHandshake, LaterHandshake
  <2>3. g[6] \in PeerEphemerals
    BY <1>2, <2>2 DEF PeerEphemerals
  <2> QED
    BY <1>2, <2>1, <2>3 DEF PeerEphemerals
<1>5. \/ \E s \in started : h = <<s.handshake, FALSE>>
      \/ \E s \in started, part \in HandshakeParts,
            g \in {r.handshake : r \in started} \cup {BlankHandshake, LaterHandshake} :
              h = <<Splice(s.handshake, g, part), TRUE>>
  <2> DEFINE sent == {s.handshake : s \in started}
             A == {<<x, FALSE>> : x \in sent}
             B == {<<Splice(x[1], x[2], x[3]), TRUE>> :
                     x \in sent \X (sent \cup {BlankHandshake, LaterHandshake})
                                 \X HandshakeParts}
  <2>1. h \in A \/ h \in B
    BY DEF Delivered
  <2>2. \/ \E x \in sent : h = <<x, FALSE>>
        \/ \E x \in sent, y \in sent \cup {BlankHandshake, LaterHandshake},
              part \in HandshakeParts : h = <<Splice(x, y, part), TRUE>>
    <3> HIDE DEF sent
    <3> QED
      BY <2>1
  <2> QED
    BY <2>2
<1> QED
  BY <1>1, <1>3, <1>4, <1>5

-----------------------------------------------------------------------------
(* The steps.                                                              *)

\* The sessions that were started stay keyed, as long as what they rest on stays.
LEMMA StartedStays ==
    ASSUME StartedOwn, published \subseteq published', started' = started,
           \A d \in Device, p \in PeerKeys : pins[d][p] # None => pins'[d][p] = pins[d][p]
    PROVE  StartedOwn'
<1> SUFFICES ASSUME NEW s \in started
             PROVE  /\ s.dev \in Device /\ s.peer \in PeerKeys /\ pins'[s.dev][s.peer] # None
                    /\ FromPinned(s)' /\ Derived(s)
  BY DEF StartedOwn, Derived
<1>1. /\ s.dev \in Device /\ s.peer \in PeerKeys /\ pins[s.dev][s.peer] # None
      /\ FromPinned(s) /\ Derived(s)
  BY DEF StartedOwn
<1>2. pins'[s.dev][s.peer] = pins[s.dev][s.peer]
  BY <1>1
<1> QED
  BY <1>1, <1>2 DEF FromPinned

\* Steps that touch nothing the invariant speaks of.
LEMMA ElsewhereKeeps ==
    ASSUME HandshakeInv,
           UNCHANGED <<prekeys, pins, hsin, put, made, published, started, accepted>>
    PROVE  HandshakeInv'
<1>1. Shape' /\ PublishedOwn' /\ BothEndsAgree'
  BY DEF HandshakeInv, Shape, PublishedOwn, BothEndsAgree
<1>2. PrekeysOwn' /\ PutOwn' /\ RecordedOwn' /\ UsedUp'
  BY DEF HandshakeInv, PrekeysOwn, HasRecord, Held, PutOwn, RecordedOwn, UsedUp, Used
<1>3. StartedOwn'
  BY StartedStays DEF HandshakeInv
<1> QED
  BY <1>1, <1>2, <1>3 DEF HandshakeInv

\* add_contact.
LEMMA AddContactKeeps ==
    ASSUME HandshakeInv, NEW d \in Device, NEW card \in Cards, AddContact(d, card)
    PROVE  HandshakeInv'
<1>0. /\ UNCHANGED <<prekeys, hsin, put, made, published, started, accepted>>
      /\ pins[d][card.dh] = None /\ card.dh \in PeerKeys
      /\ pins' = [pins EXCEPT ![d][card.dh] = card.sign]
  BY DEF AddContact, Cards
<1>1. Shape'
  BY <1>0 DEF HandshakeInv, Shape
<1>2. PrekeysOwn' /\ PutOwn' /\ PublishedOwn' /\ RecordedOwn' /\ UsedUp' /\ BothEndsAgree'
  BY <1>0 DEF HandshakeInv, PrekeysOwn, HasRecord, Held, PutOwn, PublishedOwn, RecordedOwn,
     UsedUp, Used, BothEndsAgree
<1>3. \A e \in Device, p \in PeerKeys : pins[e][p] # None => pins'[e][p] = pins[e][p]
  BY <1>0 DEF HandshakeInv, Shape
<1>4. StartedOwn'
  BY <1>0, <1>3, StartedStays DEF HandshakeInv
<1> QED
  BY <1>1, <1>2, <1>4 DEF HandshakeInv

\* RecordOf is injective in the number of the one-time prekey.
LEMMA RecordNumber ==
    ASSUME NEW d, NEW k, NEW m, NEW j, NEW n, RecordOf(d, k, m) = RecordOf(d, j, n)
    PROVE  m = n
<1>1. Opk(d, m).pk = Opk(d, n).pk
  BY DEF RecordOf
<1>2. <<"opk", d, m>> = <<"opk", d, n>>
  BY <1>1 DEF Opk
<1> QED
  BY <1>2

\* A record with a new number: nothing held or used before is affected.
LEMMA NewNumberKeeps ==
    ASSUME HandshakeInv, NEW d \in Device, NEW k \in 1..(made[d] + 1),
           prekeys' = [prekeys EXCEPT ![d] = RecordOf(d, k, made[d] + 1)],
           made' = [made EXCEPT ![d] = @ + 1]
    PROVE  /\ made' \in [Device -> Nat] /\ DOMAIN prekeys' = Device
           /\ PrekeysOwn' /\ HasRecord(d)' /\ \A e \in Device : HasRecord(e) => HasRecord(e)'
           /\ \A a \in Device : \A n \in 1..made[a] :
                /\ n \in 1..made'[a]
                /\ (\A j, m \in Nat : Held(a, j, m) => n < m) =>
                     \A j, m \in Nat : Held(a, j, m)' => n < m
<1>0. made \in [Device -> Nat] /\ DOMAIN prekeys = Device /\ PrekeysOwn
  BY DEF HandshakeInv, Shape
<1>1. made' \in [Device -> Nat] /\ DOMAIN prekeys' = Device
  BY <1>0
<1>2. /\ prekeys'[d] = RecordOf(d, k, made[d] + 1) /\ made'[d] = made[d] + 1
      /\ \A e \in Device \ {d} : prekeys'[e] = prekeys[e] /\ made'[e] = made[e]
  BY <1>0
<1>3. HasRecord(d)'
  <2>1. k \in 1..made'[d] /\ made[d] + 1 \in 1..made'[d]
    BY <1>0, <1>2
  <2> QED
    BY <1>2, <2>1 DEF HasRecord, Held
<1>4. \A e \in Device \ {d} : HasRecord(e) => HasRecord(e)'
  BY <1>2 DEF HasRecord, Held
<1>5. PrekeysOwn'
  BY <1>0, <1>2, <1>3, <1>4 DEF PrekeysOwn
<1>6. ASSUME NEW a \in Device, NEW n \in 1..made[a],
             \A j, m \in Nat : Held(a, j, m) => n < m,
             NEW j \in Nat, NEW m \in Nat, Held(a, j, m)'
      PROVE  n < m
  <2>1. CASE a = d
    <3>1. RecordOf(d, j, m) = RecordOf(d, k, made[d] + 1)
      BY <1>2, <1>6, <2>1 DEF Held
    <3>2. m = made[d] + 1
      BY <3>1, RecordNumber
    <3> QED
      BY <1>0, <2>1, <3>2
  <2>2. CASE a # d
    BY <1>2, <1>6, <2>2 DEF Held
  <2> QED
    BY <2>1, <2>2
<1>7. \A a \in Device : \A n \in 1..made[a] : n \in 1..made'[a]
  BY <1>0, <1>2
<1> QED
  BY <1>1, <1>3, <1>4, <1>5, <1>6, <1>7

\* establish_prekeys, on its own or in put_bundle.
LEMMA WritePrekeysKeeps ==
    ASSUME HandshakeInv, NEW d \in Device, WritePrekeys(d),
           UNCHANGED <<pins, hsin, published, started, accepted>>,
           put' = put \/ \E t \in Threads[d] : Step(d, t, "export", None)
    PROVE  HandshakeInv'
<1>0. /\ made[d] \in Nat /\ made' = [made EXCEPT ![d] = @ + 1]
      /\ prekeys' = [prekeys EXCEPT ![d] = RecordOf(d, made[d] + 1, made[d] + 1)]
  BY NewRecordPacked DEF HandshakeInv, Shape, WritePrekeys
<1>1. /\ made' \in [Device -> Nat] /\ DOMAIN prekeys' = Device
      /\ PrekeysOwn' /\ HasRecord(d)' /\ \A e \in Device : HasRecord(e) => HasRecord(e)'
      /\ \A a \in Device : \A n \in 1..made[a] :
           /\ n \in 1..made'[a]
           /\ (\A j, m \in Nat : Held(a, j, m) => n < m) =>
                \A j, m \in Nat : Held(a, j, m)' => n < m
  <2>1. made[d] + 1 \in 1..(made[d] + 1)
    BY <1>0
  <2> QED
    BY <1>0, <2>1, NewNumberKeeps
<1>2. /\ DOMAIN put' = Device /\ \A e \in Device : DOMAIN put'[e] = Threads[e]
      /\ PutOwn'
  <2>0. DOMAIN put = Device /\ (\A e \in Device : DOMAIN put[e] = Threads[e]) /\ PutOwn
    BY DEF HandshakeInv, Shape
  <2>1. CASE put' = put
    BY <1>1, <2>0, <2>1 DEF PutOwn
  <2>2. ASSUME NEW t \in Threads[d], Step(d, t, "export", None)
        PROVE  /\ DOMAIN put' = Device /\ \A e \in Device : DOMAIN put'[e] = Threads[e]
               /\ PutOwn'
    <3>1. /\ DOMAIN put' = Device /\ \A e \in Device : DOMAIN put'[e] = Threads[e]
          /\ put'[d][t] = [pc |-> "export", bundle |-> None]
          /\ \A e \in Device : \A u \in Threads[e] :
                e # d \/ u # t => put'[e][u] = put[e][u]
      BY <2>0, <2>2 DEF Step
    <3>2. ASSUME NEW e \in Device, NEW u \in Threads[e]
          PROVE  /\ DOMAIN put'[e][u] = {"pc", "bundle"}
                 /\ put'[e][u].pc = "export" => HasRecord(e)'
                 /\ put'[e][u].pc = "put" =>
                      \E k, m \in Nat : put'[e][u].bundle = BundleOf(e, k, m)
      <4>1. CASE e = d /\ u = t
        BY <1>1, <3>1, <4>1
      <4>2. CASE e # d \/ u # t
        BY <1>1, <2>0, <3>1, <4>2 DEF PutOwn
      <4> QED
        BY <4>1, <4>2
    <3> QED
      BY <3>1, <3>2 DEF PutOwn
  <2> QED
    BY <2>1, <2>2
<1>3. Shape'
  BY <1>1, <1>2 DEF HandshakeInv, Shape
<1>4. UsedUp'
  BY <1>1 DEF HandshakeInv, UsedUp, Used
<1>5. PublishedOwn' /\ RecordedOwn' /\ BothEndsAgree'
  BY <1>1 DEF HandshakeInv, PublishedOwn, RecordedOwn, BothEndsAgree
<1>6. StartedOwn'
  BY StartedStays DEF HandshakeInv
<1> QED
  BY <1>1, <1>2, <1>3, <1>4, <1>5, <1>6 DEF HandshakeInv

\* A step of a thread in put_bundle.
LEMMA ThreadStepKeeps ==
    ASSUME HandshakeInv, NEW d \in Device, NEW t \in Threads[d], NEW pc, NEW bundle,
           Step(d, t, pc, bundle), published \subseteq published', PublishedOwn',
           UNCHANGED <<prekeys, pins, hsin, made, started, accepted>>,
           pc = "export" => HasRecord(d),
           pc = "put" => \E k, m \in Nat : bundle = BundleOf(d, k, m)
    PROVE  HandshakeInv'
<1>0. DOMAIN put = Device /\ (\A e \in Device : DOMAIN put[e] = Threads[e]) /\ PutOwn
  BY DEF HandshakeInv, Shape
<1>1. /\ DOMAIN put' = Device /\ \A e \in Device : DOMAIN put'[e] = Threads[e]
      /\ put'[d][t] = [pc |-> pc, bundle |-> bundle]
      /\ \A e \in Device : \A u \in Threads[e] : e # d \/ u # t => put'[e][u] = put[e][u]
  BY <1>0 DEF Step
<1>2. \A e \in Device : HasRecord(e) => HasRecord(e)'
  BY DEF HasRecord, Held
<1>3. ASSUME NEW e \in Device, NEW u \in Threads[e]
      PROVE  /\ DOMAIN put'[e][u] = {"pc", "bundle"}
             /\ put'[e][u].pc = "export" => HasRecord(e)'
             /\ put'[e][u].pc = "put" =>
                  \E k, m \in Nat : put'[e][u].bundle = BundleOf(e, k, m)
  <2>1. CASE e = d /\ u = t
    BY <1>1, <1>2, <2>1
  <2>2. CASE e # d \/ u # t
    BY <1>0, <1>1, <1>2, <2>2 DEF PutOwn
  <2> QED
    BY <2>1, <2>2
<1>4. PutOwn'
  BY <1>3 DEF PutOwn
<1>5. Shape'
  BY <1>1 DEF HandshakeInv, Shape
<1>6. PrekeysOwn' /\ RecordedOwn'
  BY <1>2 DEF HandshakeInv, PrekeysOwn, RecordedOwn
<1>7. UsedUp' /\ BothEndsAgree'
  BY DEF HandshakeInv, UsedUp, Used, Held, BothEndsAgree
<1>8. StartedOwn'
  BY StartedStays DEF HandshakeInv
<1> QED
  BY <1>4, <1>5, <1>6, <1>7, <1>8 DEF HandshakeInv

\* put_bundle.
LEMMA PublishKeeps ==
    ASSUME HandshakeInv, NEW d \in Device, NEW t \in Threads[d],
           Publish(d, t) \/ PutFails(d, t)
    PROVE  HandshakeInv'
<1>0. PublishedOwn /\ PutOwn /\ PrekeysOwn
  BY DEF HandshakeInv
<1>1. CASE PutBundle(d, t)
  <2> DEFINE pc == IF prekeys[d] = None THEN "establish" ELSE "export"
  <2>1. /\ Step(d, t, pc, None) /\ published' = published
        /\ UNCHANGED <<prekeys, pins, hsin, made, started, accepted>>
    BY <1>1 DEF PutBundle, store
  <2>2. PublishedOwn'
    BY <1>0, <2>1 DEF PublishedOwn
  <2>3. (pc = "export" => HasRecord(d)) /\ pc # "put"
    BY <1>0 DEF PrekeysOwn
  <2> HIDE DEF pc
  <2> QED
    BY <2>1, <2>2, <2>3, ThreadStepKeeps
<1>2. CASE PutEstablish(d, t)
  BY <1>2, WritePrekeysKeeps DEF PutEstablish
<1>3. CASE PutExport(d, t)
  <2>1. /\ Step(d, t, "put", ExportBundle(d)) /\ published' = published
        /\ UNCHANGED <<prekeys, pins, hsin, made, started, accepted>>
    BY <1>3 DEF PutExport, store
  <2>2. PublishedOwn'
    BY <1>0, <2>1 DEF PublishedOwn
  <2>3. HasRecord(d) /\ made[d] \in Nat
    BY <1>0, <1>3 DEF PutOwn, PutExport, HandshakeInv, Shape
  <2>4. PICK k \in 1..made[d], m \in 1..made[d] : Held(d, k, m)
    BY <2>3 DEF HasRecord
  <2>5. k \in Nat /\ m \in Nat
    BY <2>3
  <2>6. ExportBundle(d) = BundleOf(d, k, m)
    BY <2>4, <2>5, ExportedBundle
  <2> HIDE DEF ExportBundle
  <2> QED
    BY <2>1, <2>2, <2>5, <2>6, ThreadStepKeeps
<1>4. CASE PutSend(d, t)
  <2>1. /\ Step(d, t, "idle", None) /\ published' = published \cup {put[d][t].bundle}
        /\ UNCHANGED <<prekeys, pins, hsin, made, started, accepted>>
        /\ put[d][t].pc = "put"
    BY <1>4 DEF PutSend, store
  <2>2. \E k, m \in Nat : put[d][t].bundle = BundleOf(d, k, m)
    BY <1>0, <2>1 DEF PutOwn
  <2>3. PublishedOwn'
    BY <1>0, <2>1, <2>2 DEF PublishedOwn
  <2> QED
    BY <2>1, <2>3, ThreadStepKeeps
<1>5. CASE PutFails(d, t)
  <2>1. /\ Step(d, t, "idle", None) /\ published' = published
        /\ UNCHANGED <<prekeys, pins, hsin, made, started, accepted>>
    BY <1>5 DEF PutFails, store
  <2>2. PublishedOwn'
    BY <1>0, <2>1 DEF PublishedOwn
  <2> QED
    BY <2>1, <2>2, ThreadStepKeeps
<1> QED
  BY <1>1, <1>2, <1>3, <1>4, <1>5 DEF Publish

\* start_session: keyed from the pinned peer's own bundle.
LEMMA StartKeeps ==
    ASSUME HandshakeInv, NEW d \in Device, NEW peer \in PeerKeys, NEW b \in Served,
           StartSession(d, peer, b[1], b[2])
    PROVE  HandshakeInv'
<1> DEFINE u == UnpackBundle(b[1])
           e == <<"eph", d, Cardinality(StartedBy(d)) + 1>>
           x == X3dhInitiate(DhKey(d), e, u)
           hs == PackHandshake(DhKey(d), e, SpkId(u.spk), IF u.opk = None THEN None ELSE u.opk.id)
           new == [dev |-> d, peer |-> peer, root |-> x.root, ad |-> x.ad, bundle |-> b[1],
                   handshake |-> hs]
<1> PICK s : s = new
  OBVIOUS
<1>0. /\ UNCHANGED <<prekeys, pins, hsin, put, made, published, accepted>>
      /\ pins[d][peer] # None /\ u # None /\ u.id = peer /\ u.sign = pins[d][peer]
      /\ VerifySignedPrekey(u) /\ started' = started \cup {s}
  BY DEF StartSession, MayStart
<1>1. IsFiniteSet(started) /\ IsFiniteSet(started')
  BY <1>0, FS_AddElement DEF HandshakeInv, Shape
<1>2. e \in Ephemerals
  <2>1. IsFiniteSet(StartedBy(d))
    BY <1>1, FS_Subset DEF StartedBy
  <2>2. Cardinality(StartedBy(d)) \in Nat
    BY <2>1, FS_CardinalityType
  <2> QED
    BY <2>2 DEF Ephemerals
<1>3. Shape' /\ PublishedOwn' /\ BothEndsAgree'
  BY <1>0, <1>1 DEF HandshakeInv, Shape, PublishedOwn, BothEndsAgree
<1>4. PrekeysOwn' /\ PutOwn' /\ RecordedOwn' /\ UsedUp'
  BY <1>0 DEF HandshakeInv, PrekeysOwn, HasRecord, Held, PutOwn, RecordedOwn, UsedUp, Used
<1>5. PICK o \in Device, k \in Nat, m \in Nat :
        /\ BundleOf(o, k, m) \in published /\ u.id = DhKey(o) /\ u.sign = SignKey(o)
        /\ \A i \in (1..BundleLen) \ {3, 9, 10} : b[1][i] = BundleOf(o, k, m)[i]
  BY <1>0, SignedFromOne DEF HandshakeInv
<1>6. u.spk = b[1][7]
  BY <1>0 DEF UnpackBundle
<1>7. x.ad = <<DhKey(d), peer>>
  BY <1>0 DEF X3dhInitiate
<1> HIDE DEF u, e, x, hs
<1>8. /\ s.dev = d /\ s.peer = peer /\ s.root = x.root /\ s.ad = x.ad /\ s.bundle = b[1]
      /\ s.handshake = hs
  OBVIOUS
<1> HIDE DEF new
<1>9. FromPinned(s)'
  <2>1. /\ s.peer = DhKey(o) /\ pins[s.dev][s.peer] = SignKey(o)
        /\ \A i \in (1..BundleLen) \ {3, 9, 10} : s.bundle[i] = BundleOf(o, k, m)[i]
    BY <1>0, <1>5, <1>8
  <2>2. FromPinned(s)
    BY <1>5, <2>1 DEF FromPinned
  <2> QED
    BY <1>0, <2>2 DEF FromPinned
<1>10. Derived(s)
  BY <1>0, <1>2, <1>6, <1>7, <1>8 DEF Derived, u, x, hs
<1>11. ASSUME NEW r \in started
       PROVE  /\ r.dev \in Device /\ r.peer \in PeerKeys /\ pins'[r.dev][r.peer] # None
              /\ FromPinned(r)' /\ Derived(r)
  BY <1>0 DEF HandshakeInv, StartedOwn, FromPinned
<1>12. StartedOwn'
  BY <1>0, <1>8, <1>9, <1>10, <1>11 DEF StartedOwn, Derived
<1> QED
  BY <1>3, <1>4, <1>12 DEF HandshakeInv

\* process, for a handshake: it is only recorded.
LEMMA RecordKeeps ==
    ASSUME HandshakeInv, NEW d \in Device, NEW sender \in PeerKeys, NEW h \in Delivered,
           RecordHandshake(d, sender, h[1], h[2])
    PROVE  HandshakeInv'
<1>0. /\ UNCHANGED <<prekeys, pins, put, made, published, started, accepted>>
      /\ hsin' = [hsin EXCEPT ![d][sender] = h[1]] /\ prekeys[d] # None
      /\ UnpackHandshake(h[1]) # None /\ UnpackHandshake(h[1]).id = sender
  BY DEF RecordHandshake, MayRecord
<1>1. UnpackHandshake(h[1]).eph \in PeerEphemerals
  BY <1>0, DeliveredEphemeral DEF HandshakeInv
<1>2. Shape' /\ PublishedOwn' /\ BothEndsAgree'
  BY <1>0 DEF HandshakeInv, Shape, PublishedOwn, BothEndsAgree
<1>3. PrekeysOwn' /\ PutOwn' /\ UsedUp'
  BY <1>0 DEF HandshakeInv, PrekeysOwn, HasRecord, Held, PutOwn, UsedUp, Used
<1>4. StartedOwn'
  BY <1>0, StartedStays DEF HandshakeInv
<1>5. HasRecord(d)
  BY <1>0 DEF HandshakeInv, PrekeysOwn
<1>6. /\ hsin'[d][sender] = h[1]
      /\ \A e \in Device : \A p \in PeerKeys : e # d \/ p # sender => hsin'[e][p] = hsin[e][p]
  BY <1>0 DEF HandshakeInv, Shape
<1>7. \A e \in Device : HasRecord(e) => HasRecord(e)'
  BY <1>0 DEF HasRecord, Held
<1>8. ASSUME NEW e \in Device, NEW p \in PeerKeys, hsin'[e][p] # None
      PROVE  /\ HasRecord(e)' /\ UnpackHandshake(hsin'[e][p]).id = p
             /\ UnpackHandshake(hsin'[e][p]).eph \in PeerEphemerals
  <2>1. CASE e = d /\ p = sender
    BY <1>0, <1>1, <1>5, <1>6, <1>7, <2>1
  <2>2. CASE e # d \/ p # sender
    BY <1>6, <1>7, <1>8, <2>2 DEF HandshakeInv, RecordedOwn
  <2> QED
    BY <2>1, <2>2
<1>9. RecordedOwn'
  BY <1>8 DEF RecordedOwn
<1> QED
  BY <1>2, <1>3, <1>4, <1>9 DEF HandshakeInv

\* A result of a one-time prekey with a peer's key tells which prekey it was.
LEMMA PrekeyOfResult ==
    ASSUME NEW d, NEW e, NEW n, NEW m, NEW x \in PeerEphemerals, NEW y \in PeerEphemerals,
           DH(<<"opk", d, n>>, x) = DH(<<"opk", e, m>>, y)
    PROVE  d = e /\ n = m
<1>1. <<"opk", d, n>> \notin PeerEphemerals /\ <<"opk", e, m>> \notin PeerEphemerals
  BY DEF PeerEphemerals, Ephemerals, Zero
<1>2. <<"opk", d, n>> = <<"opk", e, m>>
  <2> DEFINE p == <<"opk", d, n>>
             q == <<"opk", e, m>>
  <2> HIDE DEF p, q
  <2>1. p = q
    BY <1>1 DEF DH, p, q
  <2> QED
    BY <2>1 DEF p, q
<1> QED
  BY <1>2

\* What the responder derives when it answers a recorded handshake.
Answer(d, k, m, id, e) ==
    [root |-> <<DH(Spk(d, k), id), DH(DhKey(d), e), DH(Spk(d, k), e),
                DH(<<"opk", d, m>>, e)>>,
     ad |-> <<id, DhKey(d)>>]

\* And that it does derive this.
LEMMA ResponderDerives ==
    ASSUME NEW d \in Device, NEW k \in Nat, NEW m \in Nat, Held(d, k, m), NEW id, NEW e
    PROVE  X3dhRespond(DhKey(d), HeldPrekeys(d).spk, HeldPrekeys(d).opk, id, e) =
             Answer(d, k, m, id, e)
<1> DEFINE r == HeldPrekeys(d)
<1>1. r.spk = Spk(d, k) /\ r.opk = Opk(d, m)
  BY HeldFields
<1>2. Opk(d, m) # None /\ Opk(d, m).pk = <<"opk", d, m>>
  BY OpkIsThere
<1> HIDE DEF r
<1>3. X3dhRespond(DhKey(d), r.spk, r.opk, id, e) =
        [root |-> DeriveRoot(DH(Spk(d, k), id), DH(DhKey(d), e), DH(Spk(d, k), e),
                             <<DH(<<"opk", d, m>>, e)>>),
         ad |-> <<id, DhKey(d)>>]
  BY <1>1, <1>2 DEF X3dhRespond
<1> QED
  BY <1>3, DerivedRoot DEF r, Answer

\* accept_first_message: the session is new, and its one-time prekey used up.
LEMMA AcceptKeeps ==
    ASSUME HandshakeInv, NEW d \in Device, NEW sender \in PeerKeys, NEW s \in started,
           AcceptFirstMessage(d, sender, s)
    PROVE  HandshakeInv'
<1> DEFINE h == UnpackHandshake(hsin[d][sender])
           x == X3dhRespond(DhKey(d), HeldPrekeys(d).spk, HeldPrekeys(d).opk, h.id, h.eph)
           new == [dev |-> d, peer |-> sender, root |-> x.root, ad |-> x.ad]
<1> PICK r : r = new
  OBVIOUS
<1>0. /\ UNCHANGED <<pins, put, published, started>>
      /\ hsin[d][sender] # None /\ x.root = s.root /\ x.ad = s.ad
      /\ prekeys' = [prekeys EXCEPT ![d] = Rotated(d)] /\ made' = [made EXCEPT ![d] = @ + 1]
      /\ hsin' = [hsin EXCEPT ![d][sender] = None] /\ accepted' = Append(accepted, r)
  BY DEF AcceptFirstMessage, Opens
<1>1. /\ HasRecord(d) /\ h.id = sender /\ h.eph \in PeerEphemerals /\ made[d] \in Nat
      /\ made \in [Device -> Nat]
  BY <1>0 DEF HandshakeInv, RecordedOwn, Shape
<1>2. PICK k \in 1..made[d], m \in 1..made[d] : Held(d, k, m)
  BY <1>1 DEF HasRecord
<1>3. k \in Nat /\ m \in Nat /\ k \in 1..(made[d] + 1)
  BY <1>1
<1>4. PICK e \in PeerEphemerals : e = h.eph
  BY <1>1
<1>5. x.ad = <<sender, DhKey(d)>> /\ x.root[4] = DH(<<"opk", d, m>>, e)
  <2>0. x = X3dhRespond(DhKey(d), HeldPrekeys(d).spk, HeldPrekeys(d).opk, sender, e)
    BY <1>1, <1>4
  <2> HIDE DEF x, h
  <2>1. x = Answer(d, k, m, sender, e)
    BY <1>2, <1>3, <2>0, ResponderDerives
  <2> QED
    BY <2>1 DEF Answer
<1>6. Rotated(d) = RecordOf(d, k, made[d] + 1)
  BY <1>1, <1>2, <1>3, RotatedPacked
<1>7. /\ made' \in [Device -> Nat] /\ DOMAIN prekeys' = Device
      /\ PrekeysOwn' /\ HasRecord(d)' /\ \A a \in Device : HasRecord(a) => HasRecord(a)'
      /\ \A a \in Device : \A n \in 1..made[a] :
           /\ n \in 1..made'[a]
           /\ (\A j, q \in Nat : Held(a, j, q) => n < q) =>
                \A j, q \in Nat : Held(a, j, q)' => n < q
  BY <1>0, <1>3, <1>6, NewNumberKeeps
<1> HIDE DEF x, h
<1>8. r.dev = d /\ r.peer = sender /\ r.root = x.root /\ r.ad = x.ad
  OBVIOUS
<1> HIDE DEF new
<1>9. /\ Len(accepted) \in Nat /\ DOMAIN accepted = 1..Len(accepted)
      /\ DOMAIN accepted' = 1..(Len(accepted) + 1)
      /\ \A i \in DOMAIN accepted : accepted'[i] = accepted[i]
      /\ accepted'[Len(accepted) + 1] = r
      /\ \E S : accepted' \in Seq(S)
  <2>1. PICK S : accepted \in Seq(S)
    BY DEF HandshakeInv, Shape
  <2> DEFINE T == S \cup {r}
  <2>2. accepted \in Seq(T) /\ r \in T
    BY <2>1
  <2> HIDE DEF T
  <2> QED
    BY <1>0, <2>2, AppendProperties
<1>10. \A i \in DOMAIN accepted' : i \in DOMAIN accepted \/ i = Len(accepted) + 1
  BY <1>9
<1>11. \A j, q \in Nat : Held(d, j, q)' => m < q
  <2>1. ASSUME NEW j \in Nat, NEW q \in Nat, Held(d, j, q)'
        PROVE  m < q
    <3>1. RecordOf(d, j, q) = RecordOf(d, k, made[d] + 1)
      BY <1>0, <1>6, <2>1 DEF Held, HandshakeInv, Shape
    <3>2. q = made[d] + 1
      BY <3>1, RecordNumber
    <3> QED
      BY <1>1, <3>2
  <2> QED
    BY <2>1
<1>12. ASSUME NEW i \in DOMAIN accepted
       PROVE  accepted[i].root # r.root
  <2>1. PICK n \in 1..made[accepted[i].dev], f \in PeerEphemerals :
          /\ accepted[i].dev \in Device
          /\ accepted[i].root[4] = DH(<<"opk", accepted[i].dev, n>>, f)
          /\ \A j, q \in Nat : Held(accepted[i].dev, j, q) => n < q
    BY DEF HandshakeInv, UsedUp, Used
  <2> SUFFICES ASSUME accepted[i].root = r.root
               PROVE  FALSE
    OBVIOUS
  <2>2. DH(<<"opk", accepted[i].dev, n>>, f) = DH(<<"opk", d, m>>, e)
    BY <1>5, <1>8, <2>1
  <2>3. accepted[i].dev = d /\ n = m
    BY <2>2, PrekeyOfResult
  <2>4. n < m
    BY <1>2, <1>3, <2>1, <2>3
  <2> QED
    BY <1>3, <2>3, <2>4
<1>13. UsedUp'
  <2>1. ASSUME NEW i \in DOMAIN accepted
        PROVE  \E c : c = accepted'[i] /\ Used(c)'
    <3>1. PICK c : c = accepted[i]
      OBVIOUS
    <3>2. Used(c)
      BY <3>1 DEF HandshakeInv, UsedUp
    <3>3. Used(c)'
      BY <1>7, <3>2 DEF Used
    <3> QED
      BY <1>9, <3>1, <3>3
  <2>2. Used(r)'
    <3>1. m \in 1..made'[d]
      BY <1>2, <1>7
    <3> QED
      BY <1>4, <1>5, <1>8, <1>11, <3>1 DEF Used
  <2> QED
    <3>1. ASSUME NEW i \in DOMAIN accepted'
          PROVE  \E c : c = accepted'[i] /\ Used(c)'
      BY <1>9, <1>10, <2>1, <2>2
    <3> QED
      BY <3>1 DEF UsedUp, Used
<1>14. BothEndsAgree'
  <2>1. ASSUME NEW i \in DOMAIN accepted'
        PROVE  \E z \in started' :
                 /\ z.dev = Owner(accepted'[i].peer) /\ Owner(z.peer) = accepted'[i].dev
                 /\ z.root = accepted'[i].root /\ z.ad = accepted'[i].ad
    <3>1. CASE i \in DOMAIN accepted
      BY <1>0, <1>9, <3>1 DEF HandshakeInv, BothEndsAgree
    <3>2. CASE i = Len(accepted) + 1
      <4>1. s.ad = <<DhKey(s.dev), s.peer>>
        BY DEF HandshakeInv, StartedOwn, Derived
      <4>0. <<sender, DhKey(d)>> = <<DhKey(s.dev), s.peer>>
        BY <1>0, <1>5, <4>1
      <4>2. sender = DhKey(s.dev) /\ s.peer = DhKey(d)
        BY <4>0
      <4>3. Owner(sender) = s.dev /\ Owner(s.peer) = d
        BY <4>2 DEF Owner, DhKey
      <4> QED
        BY <1>0, <1>8, <1>9, <3>2, <4>3
    <3> QED
      BY <1>10, <3>1, <3>2
  <2>2. ASSUME NEW i \in DOMAIN accepted', NEW j \in DOMAIN accepted',
               accepted'[i].root = accepted'[j].root
        PROVE  i = j
    <3>1. CASE i \in DOMAIN accepted /\ j \in DOMAIN accepted
      BY <1>9, <2>2, <3>1 DEF HandshakeInv, BothEndsAgree
    <3>2. CASE i \in DOMAIN accepted /\ j = Len(accepted) + 1
      BY <1>9, <1>12, <2>2, <3>2
    <3>3. CASE i = Len(accepted) + 1 /\ j \in DOMAIN accepted
      BY <1>9, <1>12, <2>2, <3>3
    <3> QED
      BY <1>10, <3>1, <3>2, <3>3
  <2> QED
    BY <2>1, <2>2 DEF BothEndsAgree
<1>15. Shape'
  BY <1>0, <1>7, <1>9 DEF HandshakeInv, Shape
<1>16. PutOwn' /\ PublishedOwn'
  BY <1>0, <1>7 DEF HandshakeInv, PutOwn, PublishedOwn
<1>17. RecordedOwn'
  <2>1. \A a \in Device : \A p \in PeerKeys : hsin'[a][p] \in {None, hsin[a][p]}
    BY <1>0 DEF HandshakeInv, Shape
  <2> QED
    BY <1>7, <2>1 DEF HandshakeInv, RecordedOwn
<1>18. StartedOwn'
  BY <1>0, StartedStays DEF HandshakeInv
<1> QED
  BY <1>7, <1>13, <1>14, <1>15, <1>16, <1>17, <1>18 DEF HandshakeInv

-----------------------------------------------------------------------------
(* The theorems.                                                           *)

\* The invariant holds initially and in every step.
LEMMA HandshakeInvHolds ==
    Spec => []HandshakeInv
<1>1. Init => HandshakeInv
  <2> SUFFICES ASSUME Init
               PROVE  HandshakeInv
    OBVIOUS
  <2>1. IsFiniteSet(started) /\ accepted \in Seq({})
    BY FS_EmptySet DEF Init
  <2>2. Shape
    BY <2>1 DEF Init, Shape
  <2>3. PrekeysOwn /\ PublishedOwn /\ StartedOwn /\ RecordedOwn /\ UsedUp /\ BothEndsAgree
    BY DEF Init, PrekeysOwn, PublishedOwn, StartedOwn, RecordedOwn, UsedUp, Used, BothEndsAgree
  <2>4. PutOwn
    BY DEF Init, Idle, PutOwn
  <2> QED
    BY <2>2, <2>3, <2>4 DEF HandshakeInv
<1>2. HandshakeInv /\ [Next]_vars => HandshakeInv'
  <2> SUFFICES ASSUME HandshakeInv, [Next]_vars
               PROVE  HandshakeInv'
    OBVIOUS
  <2>1. CASE UNCHANGED vars
    BY <2>1, ElsewhereKeeps DEF vars, store
  <2>2. ASSUME NEW d \in Device, SaveIdentity(d) \/ DamageIdentity(d)
        PROVE  HandshakeInv'
    BY <2>2, ElsewhereKeeps DEF SaveIdentity, DamageIdentity
  <2>3. ASSUME NEW d \in Device, EstablishPrekeys(d)
        PROVE  HandshakeInv'
    BY <2>3, WritePrekeysKeeps DEF EstablishPrekeys
  <2>4. ASSUME NEW d \in Device, NEW card \in Cards, AddContact(d, card)
        PROVE  HandshakeInv'
    BY <2>4, AddContactKeeps
  <2>5. ASSUME NEW d \in Device, NEW t \in Threads[d], Publish(d, t) \/ PutFails(d, t)
        PROVE  HandshakeInv'
    BY <2>5, PublishKeeps
  <2>6. ASSUME NEW d \in Device, NEW peer \in PeerKeys, NEW b \in Served,
               StartSession(d, peer, b[1], b[2])
        PROVE  HandshakeInv'
    BY <2>6, StartKeeps
  <2>7. ASSUME NEW d \in Device, NEW peer \in PeerKeys, NEW h \in Delivered,
               RecordHandshake(d, peer, h[1], h[2])
        PROVE  HandshakeInv'
    BY <2>7, RecordKeeps
  <2>8. ASSUME NEW d \in Device, NEW peer \in PeerKeys, NEW s \in started,
               AcceptFirstMessage(d, peer, s)
        PROVE  HandshakeInv'
    BY <2>8, AcceptKeeps
  <2>9. ASSUME NEW d \in Device, NEW peer \in PeerKeys, RemoveSession(d, peer)
        PROVE  HandshakeInv'
    BY <2>9, ElsewhereKeeps DEF RemoveSession
  <2> QED
    BY <2>1, <2>2, <2>3, <2>4, <2>5, <2>6, <2>7, <2>8, <2>9 DEF Next
<1> QED
  BY <1>1, <1>2, PTL DEF Spec

\* A session accepted for a peer's first message was started by the device that owns
\* the peer key, for this device, with the same root key and associated data, and no
\* two sessions are ever accepted with one root key (accept_first_message).
THEOREM BothEndsAgreeHolds ==
    Spec => []BothEndsAgree
<1>1. HandshakeInv => BothEndsAgree
  BY DEF HandshakeInv
<1> QED
  BY <1>1, HandshakeInvHolds, PTL

\* Every session was started from a bundle that the owner of the peer key published
\* under the pinned signing key, apart from the unsigned one-time prekey
\* (start_session, establish_session_initiator).
THEOREM KeyedFromPinnedHolds ==
    Spec => []KeyedFromPinned
<1>1. HandshakeInv => KeyedFromPinned
  <2> SUFFICES ASSUME HandshakeInv, NEW s \in started
               PROVE  \E b \in published :
                        /\ b[5] = s.peer /\ Owner(b[6]) = Owner(s.peer)
                        /\ b[6] = pins[s.dev][s.peer] /\ Owner(b[7]) = Owner(s.peer)
                        /\ \A i \in (1..BundleLen) \ {3, 9, 10} : s.bundle[i] = b[i]
    BY DEF KeyedFromPinned
  <2>1. PICK d \in Device, k \in Nat, m \in Nat :
          /\ BundleOf(d, k, m) \in published
          /\ s.peer = DhKey(d) /\ pins[s.dev][s.peer] = SignKey(d)
          /\ \A i \in (1..BundleLen) \ {3, 9, 10} : s.bundle[i] = BundleOf(d, k, m)[i]
    BY DEF HandshakeInv, StartedOwn, FromPinned
  <2> DEFINE b == BundleOf(d, k, m)
  <2>2. b[5] = DhKey(d) /\ b[6] = SignKey(d) /\ b[7] = Spk(d, k)
    BY BundleFields
  <2>3. Owner(DhKey(d)) = d /\ Owner(SignKey(d)) = d /\ Owner(Spk(d, k)) = d
    BY DEF Owner, DhKey, SignKey, Spk
  <2> HIDE DEF b
  <2>4. \A i \in (1..BundleLen) \ {3, 9, 10} : s.bundle[i] = b[i]
    BY <2>1 DEF b
  <2>5. b \in published
    BY <2>1 DEF b
  <2> QED
    BY <2>1, <2>2, <2>3, <2>4, <2>5
<1> QED
  BY <1>1, HandshakeInvHolds, PTL

\* What is read from a handshake is what was put in.
LEMMA HandshakeFields ==
    ASSUME NEW id, NEW e, NEW spkId, NEW opkId
    PROVE  UnpackHandshake(PackHandshake(id, e, spkId, opkId)) =
             [id |-> id, eph |-> e, spkId |-> spkId, opkId |-> opkId]
<1> DEFINE h == PackHandshake(id, e, spkId, opkId)
<1>1. /\ Len(h) = 8 /\ h[1] = ProtocolVersion /\ h[2] = CipherSuite /\ h[4] = 0
      /\ h[3] = (IF opkId = None THEN 0 ELSE FlagOtp)
      /\ h[5] = id /\ h[6] = e /\ h[7] = spkId
      /\ h[8] = (IF opkId = None THEN Zero ELSE opkId)
  BY DEF PackHandshake
<1> HIDE DEF h
<1>2. UnpackHandshake(h) = [id |-> id, eph |-> e, spkId |-> spkId, opkId |-> opkId]
  BY <1>1 DEF UnpackHandshake, CheckHeader, CheckFlags, FlagOtp, HandshakeLen
<1> QED
  BY <1>2 DEF h

\* The one-time prekey of a published bundle, whole.
LEMMA PublishedPrekey ==
    ASSUME NEW d, NEW k, NEW m
    PROVE  UnpackBundle(BundleOf(d, k, m)).opk = Opk(d, m)
<1> DEFINE b == BundleOf(d, k, m)
<1>1. /\ Len(b) = 10 /\ b[1] = ProtocolVersion /\ b[2] = CipherSuite /\ b[3] = FlagOtp
      /\ b[4] = 0 /\ b[6] = SignKey(d) /\ b[9] = Opk(d, m).id /\ b[10] = Opk(d, m).pk
  BY BundleFields
<1>2. SignKey(d) # Zero
  BY DEF SignKey, Zero
<1> HIDE DEF b
<1>3. UnpackBundle(b).opk = [id |-> Opk(d, m).id, pk |-> Opk(d, m).pk]
  BY <1>1, <1>2 DEF UnpackBundle, CheckHeader, CheckFlags, FlagOtp, BundleLen
<1>4. [id |-> Opk(d, m).id, pk |-> Opk(d, m).pk] = Opk(d, m)
  BY DEF Opk
<1> QED
  BY <1>3, <1>4 DEF b

\* What the initiator derives from the same prekeys.
LEMMA InitiatorDerives ==
    ASSUME NEW a, NEW d, NEW k, NEW m, NEW e, NEW b, b.id = DhKey(d), b.spk = Spk(d, k),
           b.opk # None, b.opk.pk = <<"opk", d, m>>
    PROVE  X3dhInitiate(a, e, b).root = Answer(d, k, m, a, e).root
<1>1. X3dhInitiate(a, e, b).root =
        DeriveRoot(DH(a, Spk(d, k)), DH(e, DhKey(d)), DH(e, Spk(d, k)),
                   <<DH(e, <<"opk", d, m>>)>>)
  BY DEF X3dhInitiate
<1>2. /\ DH(a, Spk(d, k)) = DH(Spk(d, k), a) /\ DH(e, DhKey(d)) = DH(DhKey(d), e)
      /\ DH(e, Spk(d, k)) = DH(Spk(d, k), e) /\ DH(e, <<"opk", d, m>>) = DH(<<"opk", d, m>>, e)
  BY DEF DH
<1>3. X3dhInitiate(a, e, b).root =
        <<DH(Spk(d, k), a), DH(DhKey(d), e), DH(Spk(d, k), e), DH(<<"opk", d, m>>, e)>>
  BY <1>1, <1>2, DerivedRoot
<1> QED
  BY <1>3 DEF Answer

\* When the responder's check of the identifiers passes and the one-time prekey came
\* with its own identifier, both sides derive the same keys and associated data
\* (establish_session_responder, accept_first_message).
THEOREM NamedPrekeysAgreeHolds ==
    Spec => []NamedPrekeysAgree
<1>1. HandshakeInv => NamedPrekeysAgree
  <2> SUFFICES ASSUME HandshakeInv, NEW s \in started, NEW d, d = Owner(s.peer),
                      NEW b, b = UnpackBundle(s.bundle),
                      NEW h, h = UnpackHandshake(s.handshake), prekeys[d] # None,
                      CheckAnswerable(HeldPrekeys(d), h), OneTimePrekeyIsWhole(b)
               PROVE  Opens(X3dhRespond(DhKey(d), HeldPrekeys(d).spk, HeldPrekeys(d).opk,
                                        h.id, h.eph), s)
    BY DEF NamedPrekeysAgree
  <2>0. s.dev \in Device /\ FromPinned(s) /\ Derived(s)
    BY DEF HandshakeInv, StartedOwn
  <2>1. PICK o \in Device, l \in Nat, q \in Nat :
          /\ s.peer = DhKey(o)
          /\ \A i \in (1..BundleLen) \ {3, 9, 10} : s.bundle[i] = BundleOf(o, l, q)[i]
    BY <2>0 DEF FromPinned
  <2>2. o = d /\ d \in Device
    BY <2>1 DEF Owner, DhKey
  <2>3. s.bundle[7] = Spk(d, l)
    BY <2>1, <2>2, BundleFields DEF BundleLen
  <2> DEFINE id == IF b.opk = None THEN None ELSE b.opk.id
  <2>4. PICK e \in Ephemerals :
          /\ b.id = s.peer /\ b.spk = s.bundle[7] /\ s.ad = <<DhKey(s.dev), s.peer>>
          /\ s.root = X3dhInitiate(DhKey(s.dev), e, b).root
          /\ s.handshake = PackHandshake(DhKey(s.dev), e, SpkId(b.spk), id)
    BY <2>0 DEF Derived
  <2> HIDE DEF id
  <2>5. h = [id |-> DhKey(s.dev), eph |-> e, spkId |-> SpkId(b.spk), opkId |-> id]
    BY <2>4, HandshakeFields
  <2>6. made[d] \in Nat /\ HasRecord(d)
    BY <2>2 DEF HandshakeInv, Shape, PrekeysOwn
  <2>7. PICK k \in 1..made[d], m \in 1..made[d] : Held(d, k, m)
    BY <2>6 DEF HasRecord
  <2>8. k \in Nat /\ m \in Nat
    BY <2>6
  <2>9. HeldPrekeys(d) = [spk |-> Spk(d, k), sig |-> SigOf(d, k), opk |-> Opk(d, m)]
    BY <2>2, <2>7, <2>8, HeldFields
  <2>10. Opk(d, m) # None /\ Opk(d, m).id # None /\ Opk(d, m).id = <<"opk_id", d, m>>
    BY <2>2, <2>8, OpkIsThere
  <2>11. SpkId(Spk(d, k)) = SpkId(b.spk) /\ id = <<"opk_id", d, m>> /\ id # None
    BY <2>5, <2>9, <2>10 DEF CheckAnswerable
  <2>12. b.spk = Spk(d, k)
    BY <2>11 DEF SpkId
  <2>13. b.opk # None /\ b.opk.id = <<"opk_id", d, m>>
    BY <2>11 DEF id
  <2>14. b.opk.pk = <<"opk", d, m>>
    <3>1. PICK a \in Device, j \in Nat, n \in Nat : b.opk = UnpackBundle(BundleOf(a, j, n)).opk
      BY <2>13 DEF OneTimePrekeyIsWhole, HandshakeInv, PublishedOwn
    <3>2. b.opk = Opk(a, n)
      BY <3>1, PublishedPrekey
    <3>3. b.opk.id = <<"opk_id", a, n>> /\ b.opk.pk = <<"opk", a, n>>
      BY <3>2 DEF Opk
    <3>4. <<"opk_id", a, n>> = <<"opk_id", d, m>>
      BY <2>13, <3>3
    <3>5. a = d /\ n = m
      BY <3>4
    <3> QED
      BY <3>3, <3>5
  <2>15. PICK a : a = DhKey(s.dev)
    OBVIOUS
  <2>16. s.root = Answer(d, k, m, a, e).root
    BY <2>1, <2>2, <2>4, <2>12, <2>13, <2>14, <2>15, InitiatorDerives
  <2>17. s.ad = Answer(d, k, m, a, e).ad
    BY <2>1, <2>2, <2>4, <2>15 DEF Answer
  <2>18. h.id = a /\ h.eph = e
    BY <2>5, <2>15
  <2>19. X3dhRespond(DhKey(d), HeldPrekeys(d).spk, HeldPrekeys(d).opk, h.id, h.eph) =
           Answer(d, k, m, a, e)
    BY <2>2, <2>7, <2>8, <2>18, ResponderDerives
  <2> QED
    BY <2>16, <2>17, <2>19 DEF Opens
<1> QED
  BY <1>1, HandshakeInvHolds, PTL
=============================================================================
