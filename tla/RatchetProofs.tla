--------------------------- MODULE RatchetProofs ---------------------------
(***************************************************************************)
(* Proofs about module Ratchet, for any number of messages in either       *)
(* direction, any skip limit and any size of the skipped store.            *)
(*                                                                         *)
(* Both ends mix the same DH outputs into their roots: in the j-th of them *)
(* Dh(j), alice's i-th key takes part when j is 2i+1 or 2i+2, bob's when j *)
(* is 2i or 2i+1.  A chain is therefore named by the ratchet key its       *)
(* headers carry (Chain), a message key by the position in the header      *)
(* (MessageKey), and the two ends are one chain apart at any time.         *)
(***************************************************************************)
EXTENDS Ratchet, FiniteSetTheorems, SequenceTheorems, TLAPS

-----------------------------------------------------------------------------
(* The keys of a conversation.                                             *)

Dh(j) ==
    {PublicKey("alice", i) : i \in {k \in 0..j : 2*k + 1 = j \/ 2*k + 2 = j}}
    \cup
    {PublicKey("bob", i) : i \in {k \in 0..j : 2*k = j \/ 2*k + 1 = j}}

Root(k) == [j \in 1..k |-> Dh(j)]

\* How many DH outputs the root of a key's sending chain holds.
Chain(key) == IF key.own = "alice" THEN 2*key.i + 1 ELSE 2*key.i

MessageKey(key, n) == [root |-> Root(Chain(key)), i |-> n]

Turn(r) == Chain(r.dhs)

-----------------------------------------------------------------------------
(* A ratchet by itself.                                                    *)

Place == [dh: Key, n: Nat]
Skipped == [dh: Key, n: Nat, mk: ChainKey]
Counter == 0..U32Max

RatchetState ==
    [dhs: Key, dhr: Key \cup {None}, rk: Seq(SUBSET Key),
     cks: ChainKey \cup {None}, ckr: ChainKey \cup {None},
     ns: Counter, nr: Counter, pn: Counter, skipped: Seq(Skipped),
     evicted: SUBSET Place]

\* The chain has moved past a position: it is before the receiving chain, or
\* in it and below nr.
Passed(r, x) ==
    \/ Chain(x.dh) < Turn(r) - 1
    \/ Chain(x.dh) = Turn(r) - 1 /\ x.n < r.nr

\* Nothing was received yet: the state init_alice or init_bob made, but for
\* what alice sent.
Fresh(p, r) ==
    /\ r.dhs.i = 0
    /\ r.dhr = IF p = "alice" THEN PublicKey("bob", 0) ELSE None
    /\ r.ckr = None
    /\ r.nr = 0
    /\ r.pn = 0
    /\ r.skipped = << >>
    /\ p = "bob" => r.cks = None /\ r.ns = 0

Going(p, r) ==
    /\ r.dhs.i > 0
    /\ r.dhr \in Key
    /\ r.dhr.own = Other(p)
    /\ Chain(r.dhr) = Turn(r) - 1
    /\ r.ckr = MessageKey(r.dhr, r.nr)

\* The skipped keys are those of positions passed, each stored once.
Store(p, r) ==
    /\ Len(r.skipped) <= MaxSkipped
    /\ \A j \in DOMAIN r.skipped :
          LET e == r.skipped[j] IN
          /\ e.dh.own = Other(p)
          /\ e.mk = MessageKey(e.dh, e.n)
          /\ Passed(r, e)
    /\ \A j, k \in DOMAIN r.skipped :
          Position(r.skipped[j]) = Position(r.skipped[k]) => j = k

Good(p, r) ==
    /\ r \in RatchetState
    /\ r.dhs.own = p
    /\ r.rk = Root(Turn(r))
    /\ Turn(r) > 0 => r.cks = MessageKey(r.dhs, r.ns)
    /\ Fresh(p, r) \/ Going(p, r)
    /\ Store(p, r)

-----------------------------------------------------------------------------
(* The two ends and the messages between them.                             *)

Sent(ms, key, n) == \E x \in ms : x.dh = key /\ x.n = n

\* pn is the length of the sending chain before the one of this key.
Previous(ms, key, pn) ==
    \A n \in Nat : n < pn <=> key.i > 0 /\ Sent(ms, PublicKey(key.own, key.i - 1), n)

MessageType == [to: Party, dh: Key, pn: Counter, n: Counter, mk: ChainKey]

Outgoing(ms, p) == {m \in ms : m.to = Other(p)}

\* One end is a chain ahead, and has not received more of the other's chain
\* than was sent.
Ends(s) ==
    /\ s \in [Party -> RatchetState]
    /\ \A p \in Party :
          /\ Good(p, s[p])
          /\ \/ Turn(s[Other(p)]) = Turn(s[p]) + 1
             \/ /\ Turn(s[Other(p)]) = Turn(s[p]) - 1
                /\ s[p].nr <= s[Other(p)].ns

\* Messages come from their sender's chains, as far as these have gone.
Genuine(s, m) ==
    LET r == s[Other(m.to)] IN
    /\ m \in MessageType
    /\ m.dh.own = Other(m.to)
    /\ m.mk = MessageKey(m.dh, m.n)
    /\ m.n < U32Max
    /\ Chain(m.dh) > 0
    /\ m.dh.i <= r.dhs.i
    /\ m.dh = r.dhs => m.n < r.ns

Messages(s, ms) ==
    /\ IsFiniteSet(ms)
    /\ \A m \in ms : Genuine(s, m)
    /\ \A m1, m2 \in ms : Position(m1) = Position(m2) => m1 = m2

\* Chains have no gaps, and the length of the one before is told truly.
Chains(s, ms) ==
    /\ \A m \in ms : \A n \in 0 .. m.n - 1 : Sent(ms, m.dh, n)
    /\ \A m \in ms : Previous(ms, m.dh, m.pn)
    /\ \A p \in Party :
          /\ \A n \in 0 .. s[p].ns - 1 : Sent(ms, s[p].dhs, n)
          /\ Previous(ms, s[p].dhs, s[p].pn)
          /\ s[p].ns <= Cardinality(Outgoing(ms, p))

\* Every message a chain has passed was decrypted, or its key was stored and
\* may have been evicted since; never both decrypted and stored.
Accounted(s, ms, g) ==
    /\ g \in [Party -> SUBSET ms]
    /\ \A p \in Party :
          /\ \A m \in g[p] :
                /\ m.to = p
                /\ Passed(s[p], Position(m))
                /\ Position(m) \notin Positions(s[p].skipped)
          /\ \A m \in ms : m.to = p /\ Passed(s[p], Position(m)) =>
                \/ m \in g[p]
                \/ Position(m) \in Positions(s[p].skipped) \cup s[p].evicted
          /\ g[p] = {} <=> s[p].dhs.i = 0

Consistent(s, ms, g) ==
    Ends(s) /\ Messages(s, ms) /\ Chains(s, ms) /\ Accounted(s, ms, g)

\* What DurableSession::stage keeps can go on.
Resumable(r) == r.ns < U32Max /\ r.nr <= MaxResumableNr

Inv ==
    /\ staged \in BOOLEAN
    /\ again = [p \in Party |-> {}]
    /\ Consistent(st, net, got)
    /\ staged => \A p \in Party : Resumable(st[p])

\* The counters are wide enough: every call goes through stage, which refuses
\* an exhausted state, or no end sends more messages than a u32 counts.
Fits == staged \/ (MaxSentA <= U32Max /\ MaxSentB <= U32Max)

-----------------------------------------------------------------------------
(* Facts about keys.                                                       *)

LEMMA DhOdd ==
    ASSUME NEW i \in Nat
    PROVE  Dh(2*i + 1) = {PublicKey("alice", i), PublicKey("bob", i)}
<1>1. {k \in 0 .. 2*i + 1 : 2*k + 1 = 2*i + 1 \/ 2*k + 2 = 2*i + 1} = {i}
  OBVIOUS
<1>2. {k \in 0 .. 2*i + 1 : 2*k = 2*i + 1 \/ 2*k + 1 = 2*i + 1} = {i}
  OBVIOUS
<1> QED
  BY <1>1, <1>2, Zenon DEF Dh

LEMMA DhEven ==
    ASSUME NEW i \in Nat
    PROVE  Dh(2*i + 2) = {PublicKey("alice", i), PublicKey("bob", i + 1)}
<1>1. {k \in 0 .. 2*i + 2 : 2*k + 1 = 2*i + 2 \/ 2*k + 2 = 2*i + 2} = {i}
  OBVIOUS
<1>2. {k \in 0 .. 2*i + 2 : 2*k = 2*i + 2 \/ 2*k + 1 = 2*i + 2} = {i + 1}
  OBVIOUS
<1> QED
  BY <1>1, <1>2, Zenon DEF Dh

LEMMA DhType == ASSUME NEW j \in Nat PROVE Dh(j) \in SUBSET Key
BY DEF Dh, Key, PublicKey, Party

LEMMA RootType ==
    ASSUME NEW k \in Nat
    PROVE  /\ Root(k) \in Seq(SUBSET Key)
           /\ Len(Root(k)) = k
           /\ \A j \in 1..k : Root(k)[j] = Dh(j)
<1>1. \A j \in 1..k : Dh(j) \in SUBSET Key
  BY DhType
<1>2. Root(k) \in [1..k -> SUBSET Key]
  BY <1>1 DEF Root
<1>3. Root(k) \in Seq(SUBSET Key)
  BY <1>2
<1> QED
  BY <1>2, <1>3 DEF Root

LEMMA RootNext ==
    ASSUME NEW k \in Nat
    PROVE  Append(Root(k), Dh(k + 1)) = Root(k + 1)
<1> DEFINE a == Append(Root(k), Dh(k + 1))
<1>1. /\ Root(k) \in Seq(SUBSET Key) /\ Len(Root(k)) = k
      /\ Root(k + 1) \in Seq(SUBSET Key) /\ Len(Root(k + 1)) = k + 1
      /\ \A j \in 1..k : Root(k)[j] = Dh(j)
      /\ \A j \in 1 .. k + 1 : Root(k + 1)[j] = Dh(j)
  BY RootType
<1>2. Dh(k + 1) \in SUBSET Key
  BY DhType
<1>3. a \in Seq(SUBSET Key) /\ Len(a) = k + 1
  BY <1>1, <1>2, AppendProperties
<1>4. \A j \in 1 .. k + 1 : a[j] = Root(k + 1)[j]
  <2> TAKE j \in 1 .. k + 1
  <2>1. CASE j = k + 1
    BY <1>1, <1>2, <2>1
  <2>2. CASE j \in 1..k
    BY <1>1, <1>2, <2>2
  <2>3. j = k + 1 \/ j \in 1..k
    OBVIOUS
  <2> QED
    BY <2>1, <2>2, <2>3
<1> HIDE DEF a
<1>5. a = Root(k + 1)
  BY <1>1, <1>3, <1>4, SeqEqual
<1> QED
  BY <1>5 DEF a

LEMMA RootInjective ==
    ASSUME NEW k \in Nat, NEW l \in Nat, Root(k) = Root(l)
    PROVE  k = l
BY RootType

LEMMA ChainType ==
    ASSUME NEW key \in Key
    PROVE  Chain(key) \in Nat
BY DEF Chain, Key

\* A chain has one key.
LEMMA ChainInjective ==
    ASSUME NEW k \in Key, NEW l \in Key, Chain(k) = Chain(l)
    PROVE  k = l
<1>1. k.own = l.own /\ k.i = l.i
  <2>1. k.i \in Nat /\ l.i \in Nat /\ k.own \in Party /\ l.own \in Party
    BY DEF Key
  <2> QED
    BY <2>1 DEF Chain, Party
<1>2. k = [own |-> k.own, i |-> k.i] /\ l = [own |-> l.own, i |-> l.i]
  BY DEF Key
<1> QED
  BY <1>1, <1>2

LEMMA MessageKeyType ==
    ASSUME NEW key \in Key, NEW n \in Nat
    PROVE  /\ MessageKey(key, n) \in ChainKey
           /\ MessageKey(key, n) # None
           /\ MessageKey(key, n).i = n
           /\ MessageKey(key, n).root = Root(Chain(key))
<1>1. Root(Chain(key)) \in Seq(SUBSET Key)
  BY ChainType, RootType
<1> QED
  BY <1>1, NoneIsNoKey DEF MessageKey, ChainKey

LEMMA MessageKeyInjective ==
    ASSUME NEW k \in Key, NEW l \in Key, NEW m \in Nat, NEW n \in Nat,
           MessageKey(k, m) = MessageKey(l, n)
    PROVE  k = l /\ m = n
<1>1. Root(Chain(k)) = Root(Chain(l)) /\ m = n
  BY MessageKeyType
<1> QED
  BY <1>1, ChainType, RootInjective, ChainInjective

\* The DH output that continues a root: the one of an end's own key and the key
\* of the chain that comes next.
LEMMA NextDh ==
    ASSUME NEW own \in Key, NEW other \in Key, Chain(other) = Chain(own) + 1
    PROVE  Dh(Chain(other)) = {own, other} /\ Dh(Chain(other)) = {other, own}
<1>1. CASE own.own = "alice"
  <2>1. other = PublicKey("bob", own.i + 1) /\ own = PublicKey("alice", own.i)
    BY <1>1 DEF Chain, Key, Party, PublicKey
  <2>2. Chain(other) = 2 * own.i + 2 /\ own.i \in Nat
    BY <1>1 DEF Chain, Key
  <2> QED
    BY <2>1, <2>2, DhEven, Zenon
<1>2. CASE own.own = "bob"
  <2>1. other = PublicKey("alice", own.i) /\ own = PublicKey("bob", own.i)
    BY <1>2 DEF Chain, Key, Party, PublicKey
  <2>2. Chain(other) = 2 * own.i + 1 /\ own.i \in Nat
    BY <1>2, <2>1 DEF Chain, Key, PublicKey
  <2> QED
    BY <2>1, <2>2, DhOdd, Zenon
<1> QED
  BY <1>1, <1>2 DEF Key, Party

LEMMA NextRoot ==
    ASSUME NEW own \in Key, NEW other \in Key, Chain(other) = Chain(own) + 1
    PROVE  /\ MixRoot(Root(Chain(own)), own, other) = Root(Chain(other))
           /\ MixRoot(Root(Chain(own)), other, own) = Root(Chain(other))
BY NextDh, ChainType, RootNext DEF MixRoot

-----------------------------------------------------------------------------
(* Facts about the skipped store.                                          *)

Distinct(s) ==
    \A j, k \in DOMAIN s : Position(s[j]) = Position(s[k]) => j = k

Entries(s) == {s[j] : j \in DOMAIN s}

\* Every field but the chain key and counter of receiving and the store.
SameSender(r, t) ==
    /\ t.dhs = r.dhs /\ t.dhr = r.dhr /\ t.rk = r.rk /\ t.cks = r.cks
    /\ t.ns = r.ns /\ t.pn = r.pn

\* The store of t holds entries of s only, and what it lost is evicted.
Trimmed(s, r, t) ==
    /\ t.skipped \in Seq(Skipped)
    /\ t.evicted \in SUBSET Place
    /\ Len(t.skipped) <= MaxSkipped
    /\ Distinct(t.skipped)
    /\ Entries(t.skipped) \subseteq Entries(s)
    /\ Positions(s) \subseteq Positions(t.skipped) \cup t.evicted
    /\ r.evicted \subseteq t.evicted

LEMMA PositionsType ==
    ASSUME NEW s \in Seq(Skipped)
    PROVE  Positions(s) \in SUBSET Place
<1> SUFFICES ASSUME NEW j \in DOMAIN s PROVE Position(s[j]) \in Place
  BY DEF Positions
<1>1. s[j] \in Skipped
  BY LenProperties
<1> QED
  BY <1>1 DEF Position, Place, Skipped

LEMMA SuffixOf ==
    ASSUME NEW s \in Seq(Skipped), NEW over \in 0..Len(s), Distinct(s)
    PROVE  LET front == SubSeq(s, 1, over)
               t     == SubSeq(s, over + 1, Len(s))
           IN  /\ t \in Seq(Skipped)
               /\ Len(t) = Len(s) - over
               /\ Distinct(t)
               /\ Entries(t) \subseteq Entries(s)
               /\ Positions(s) = Positions(front) \cup Positions(t)
               /\ Positions(front) \subseteq Place
<1> DEFINE front == SubSeq(s, 1, over)
           t     == SubSeq(s, over + 1, Len(s))
<1>1. /\ Len(s) \in Nat
      /\ DOMAIN s = 1..Len(s)
      /\ \A j \in 1..Len(s) : s[j] \in Skipped
  BY LenProperties, ElementOfSeq
<1>2. /\ t \in Seq(Skipped)
      /\ Len(t) = Len(s) - over
      /\ DOMAIN t = 1 .. Len(s) - over
      /\ \A i \in 1 .. Len(s) - over : t[i] = s[over + i]
  <2>1. \A i \in over + 1 .. Len(s) : s[i] \in Skipped
    BY <1>1
  <2>2. /\ t \in Seq(Skipped)
        /\ Len(t) = IF over + 1 <= Len(s) THEN Len(s) - (over + 1) + 1 ELSE 0
        /\ \A i \in 1 .. Len(s) - (over + 1) + 1 : t[i] = s[over + 1 + i - 1]
    BY <1>1, <2>1, SubSeqProperties
  <2> HIDE DEF t
  <2>3. Len(t) = Len(s) - over
    <3>1. over \in Nat /\ over <= Len(s) /\ Len(s) \in Nat
      BY <1>1
    <3>2. Len(t) = IF over + 1 <= Len(s) THEN Len(s) - (over + 1) + 1 ELSE 0
      BY <2>2
    <3> QED
      BY <3>1, <3>2
  <2>4. DOMAIN t = 1 .. Len(s) - over
    BY <2>2, <2>3, LenProperties
  <2>5. ASSUME NEW i \in 1 .. Len(s) - over PROVE t[i] = s[over + i]
    <3>1. i \in 1 .. Len(s) - (over + 1) + 1 /\ over + 1 + i - 1 = over + i
      BY <1>1
    <3> QED
      BY <2>2, <3>1
  <2> QED
    BY <2>2, <2>3, <2>4, <2>5
<1>3. /\ front \in Seq(Skipped)
      /\ DOMAIN front = 1..over
      /\ \A i \in 1..over : front[i] = s[i]
  <2>1. \A i \in 1..over : s[i] \in Skipped
    BY <1>1
  <2>2. /\ front \in Seq(Skipped)
        /\ Len(front) = IF 1 <= over THEN over - 1 + 1 ELSE 0
        /\ \A i \in 1 .. over - 1 + 1 : front[i] = s[1 + i - 1]
    BY <1>1, <2>1, SubSeqProperties
  <2> QED
    BY <1>1, <2>2, LenProperties
<1> HIDE DEF front, t
<1>4. Distinct(t)
  BY <1>1, <1>2 DEF Distinct
<1>5. \A i \in DOMAIN t : over + i \in DOMAIN s /\ t[i] = s[over + i]
  BY <1>1, <1>2
<1>9. Entries(t) \subseteq Entries(s)
  BY <1>5 DEF Entries
<1>6. Positions(s) \subseteq Positions(front) \cup Positions(t)
  <2> SUFFICES ASSUME NEW j \in 1..Len(s)
               PROVE  Position(s[j]) \in Positions(front) \cup Positions(t)
    BY <1>1 DEF Positions
  <2>1. CASE j <= over
    BY <1>3, <2>1 DEF Positions
  <2>2. CASE j > over
    <3>1. j - over \in DOMAIN t /\ t[j - over] = s[j]
      BY <1>1, <1>2, <2>2
    <3> QED
      BY <3>1 DEF Positions
  <2> QED
    BY <1>1, <2>1, <2>2
<1>7. Positions(front) \subseteq Positions(s) /\ Positions(t) \subseteq Positions(s)
  <2>1. \A i \in DOMAIN front : i \in DOMAIN s /\ front[i] = s[i]
    BY <1>1, <1>3
  <2> QED
    BY <1>5, <2>1 DEF Positions
<1>8. Positions(front) \subseteq Place
  BY <1>3, PositionsType
<1> QED
  BY <1>2, <1>4, <1>6, <1>7, <1>8, <1>9 DEF front, t

LEMMA TrimFacts ==
    ASSUME NEW r \in RatchetState, Distinct(r.skipped)
    PROVE  /\ TrimSkipped(r) \in RatchetState
           /\ SameSender(r, TrimSkipped(r))
           /\ TrimSkipped(r).nr = r.nr
           /\ TrimSkipped(r).ckr = r.ckr
           /\ Trimmed(r.skipped, r, TrimSkipped(r))
<1> DEFINE s == r.skipped
           over == IF Len(s) > MaxSkipped THEN Len(s) - MaxSkipped ELSE 0
           u == SubSeq(s, over + 1, Len(s))
           front == SubSeq(s, 1, over)
           v == r.evicted \cup Positions(front)
           t == TrimSkipped(r)
<1>1. s \in Seq(Skipped) /\ r.evicted \in SUBSET Place
  BY DEF RatchetState
<1>2. over \in 0..Len(s) /\ Len(s) - over <= MaxSkipped /\ Len(s) \in Nat
  BY <1>1, LenProperties, RatchetAssumption
<1>3. /\ u \in Seq(Skipped) /\ Len(u) = Len(s) - over /\ Distinct(u)
      /\ Entries(u) \subseteq Entries(s)
      /\ Positions(s) = Positions(front) \cup Positions(u)
      /\ Positions(front) \subseteq Place
  <2> HIDE DEF over
  <2> QED
    BY <1>1, <1>2, SuffixOf
<1>4. t = [r EXCEPT !.skipped = u, !.evicted = v]
  BY DEF TrimSkipped
<1>5. v \in SUBSET Place
  BY <1>1, <1>3
<1> HIDE DEF over, u, front, v, t
<1>6. t.skipped = u /\ t.evicted = v /\ t \in RatchetState /\ t.nr = r.nr /\ t.ckr = r.ckr
  BY <1>3, <1>4, <1>5 DEF RatchetState
<1>7. SameSender(r, t)
  BY <1>4 DEF RatchetState, SameSender
<1>8. Trimmed(s, r, t)
  BY <1>2, <1>3, <1>5, <1>6 DEF Trimmed, v
<1> QED
  BY <1>6, <1>7, <1>8 DEF t

NewEntries(r, top) ==
    {[dh |-> r.dhr, n |-> n, mk |-> Advance(r.ckr, n - r.nr)] : n \in r.nr .. top - 1}

NewPositions(r, top) == {[dh |-> r.dhr, n |-> n] : n \in r.nr .. top - 1}

Top(r, until) == IF until > r.nr THEN until ELSE r.nr

LEMMA AdvanceType ==
    ASSUME NEW ck \in ChainKey, NEW steps \in Nat
    PROVE  /\ Advance(ck, steps) \in ChainKey
           /\ Advance(ck, steps).root = ck.root
           /\ Advance(ck, steps).i = ck.i + steps
BY DEF Advance, ChainKey

LEMMA ConcatFacts ==
    ASSUME NEW s \in Seq(Skipped), NEW new \in Seq(Skipped), Distinct(s), Distinct(new),
           Positions(s) \cap Positions(new) = {}
    PROVE  /\ s \o new \in Seq(Skipped)
           /\ Distinct(s \o new)
           /\ Entries(s \o new) = Entries(s) \cup Entries(new)
           /\ Positions(s \o new) = Positions(s) \cup Positions(new)
<1> DEFINE c == s \o new
<1>1. /\ Len(s) \in Nat /\ Len(new) \in Nat
      /\ DOMAIN s = 1..Len(s) /\ DOMAIN new = 1..Len(new)
  BY LenProperties
<1>2. /\ c \in Seq(Skipped)
      /\ Len(c) = Len(s) + Len(new)
      /\ \A i \in 1 .. Len(s) + Len(new) :
            c[i] = IF i <= Len(s) THEN s[i] ELSE new[i - Len(s)]
  BY ConcatProperties
<1> HIDE DEF c
<1>3. DOMAIN c = 1 .. Len(s) + Len(new)
  BY <1>2, LenProperties
<1>4. \A i \in DOMAIN c : \/ i \in DOMAIN s /\ c[i] = s[i]
                          \/ i - Len(s) \in DOMAIN new /\ c[i] = new[i - Len(s)]
  <2> TAKE i \in DOMAIN c
  <2>1. CASE i <= Len(s)
    BY <1>1, <1>2, <1>3, <2>1
  <2>2. CASE i > Len(s)
    BY <1>1, <1>2, <1>3, <2>2
  <2> QED
    BY <1>1, <1>3, <2>1, <2>2
<1>5. \A i \in DOMAIN s : i \in DOMAIN c /\ c[i] = s[i]
  BY <1>1, <1>2, <1>3
<1>6. \A i \in DOMAIN new : i + Len(s) \in DOMAIN c /\ c[i + Len(s)] = new[i]
  <2> TAKE i \in DOMAIN new
  <2>1. i + Len(s) \in 1 .. Len(s) + Len(new) /\ ~(i + Len(s) <= Len(s))
        /\ i + Len(s) - Len(s) = i
    BY <1>1
  <2> QED
    BY <1>2, <1>3, <2>1
<1>7. Entries(c) = Entries(s) \cup Entries(new)
  BY <1>4, <1>5, <1>6 DEF Entries
<1>8. Positions(c) = Positions(s) \cup Positions(new)
  BY <1>4, <1>5, <1>6 DEF Positions
<1>9. Distinct(c)
  <2> SUFFICES ASSUME NEW j \in DOMAIN c, NEW k \in DOMAIN c,
                      Position(c[j]) = Position(c[k])
               PROVE  j = k
    BY DEF Distinct
  <2>1. CASE j \in DOMAIN s /\ c[j] = s[j] /\ k \in DOMAIN s /\ c[k] = s[k]
    BY <2>1 DEF Distinct
  <2>2. CASE /\ j - Len(s) \in DOMAIN new /\ c[j] = new[j - Len(s)]
             /\ k - Len(s) \in DOMAIN new /\ c[k] = new[k - Len(s)]
    <3>1. j - Len(s) = k - Len(s)
      BY <2>2 DEF Distinct
    <3> QED
      BY <1>1, <1>3, <3>1
  <2>3. ~(j \in DOMAIN s /\ c[j] = s[j] /\ k - Len(s) \in DOMAIN new /\ c[k] = new[k - Len(s)])
    BY DEF Positions
  <2>4. ~(k \in DOMAIN s /\ c[k] = s[k] /\ j - Len(s) \in DOMAIN new /\ c[j] = new[j - Len(s)])
    BY DEF Positions
  <2> QED
    BY <1>4, <2>1, <2>2, <2>3, <2>4
<1> QED
  BY <1>2, <1>7, <1>8, <1>9 DEF c

\* skip_message_keys: the keys of the positions from nr up to until, and only
\* these, are added to the store.
LEMMA SkipFacts ==
    ASSUME NEW r \in RatchetState, NEW until \in Counter,
           r.dhr \in Key, r.ckr \in ChainKey, Distinct(r.skipped),
           \A e \in Entries(r.skipped) : e.dh = r.dhr => e.n < r.nr
    PROVE  LET t == SkipMessageKeys(r, until)
               top == Top(r, until)
           IN  /\ t \in RatchetState
               /\ SameSender(r, t)
               /\ t.nr = top
               /\ t.ckr = Advance(r.ckr, top - r.nr)
               /\ Len(t.skipped) <= MaxSkipped
               /\ Distinct(t.skipped)
               /\ Entries(t.skipped) \subseteq Entries(r.skipped) \cup NewEntries(r, top)
               /\ Positions(r.skipped) \cup NewPositions(r, top)
                     \subseteq Positions(t.skipped) \cup t.evicted
               /\ r.evicted \subseteq t.evicted
<1> DEFINE t == SkipMessageKeys(r, until)
           top == Top(r, until)
           steps == IF until > r.nr THEN until - r.nr ELSE 0
           new == [j \in 1..steps |->
                     [dh |-> r.dhr, n |-> r.nr + j - 1, mk |-> Advance(r.ckr, j - 1)]]
           s == r.skipped
           u == [r EXCEPT !.skipped = s \o new, !.nr = r.nr + steps,
                          !.ckr = Advance(r.ckr, steps)]
<1>1. /\ r.nr \in Counter /\ s \in Seq(Skipped) /\ U32Max \in Nat
      /\ r.evicted \in SUBSET Place
  BY RatchetAssumption DEF RatchetState
<1>2. steps \in Nat /\ r.nr + steps = top /\ steps = top - r.nr /\ top \in Counter
      /\ r.nr \in Nat
  BY <1>1 DEF Counter, Top
<1>3. t = TrimSkipped(u)
  BY NoneIsNoKey DEF SkipMessageKeys
<1> HIDE DEF steps, t, top
<1>4. new \in Seq(Skipped) /\ DOMAIN new = 1..steps
  <2>1. \A j \in 1..steps : [dh |-> r.dhr, n |-> r.nr + j - 1, mk |-> Advance(r.ckr, j - 1)]
                            \in Skipped
    <3> TAKE j \in 1..steps
    <3>1. j - 1 \in Nat /\ r.nr + j - 1 \in Nat
      BY <1>2
    <3>2. Advance(r.ckr, j - 1) \in ChainKey
      BY <3>1, AdvanceType
    <3> QED
      BY <3>1, <3>2 DEF Skipped
  <2>2. new \in [1..steps -> Skipped]
    BY <2>1
  <2> HIDE DEF new
  <2> QED
    BY <1>2, <2>2
<1>5. /\ Entries(new) \subseteq NewEntries(r, top)
      /\ Positions(new) = NewPositions(r, top)
  <2>1. \A j \in 1..steps :
           /\ r.nr + j - 1 \in r.nr .. top - 1
           /\ new[j] = [dh |-> r.dhr, n |-> r.nr + j - 1,
                        mk |-> Advance(r.ckr, (r.nr + j - 1) - r.nr)]
           /\ Position(new[j]) = [dh |-> r.dhr, n |-> r.nr + j - 1]
    <3> TAKE j \in 1..steps
    <3>1. r.nr + j - 1 \in r.nr .. top - 1 /\ (r.nr + j - 1) - r.nr = j - 1
      BY <1>2
    <3> QED
      BY <3>1 DEF Position
  <2>2. \A n \in r.nr .. top - 1 : n - r.nr + 1 \in 1..steps /\ r.nr + (n - r.nr + 1) - 1 = n
    BY <1>2
  <2> HIDE DEF new
  <2>3. Entries(new) \subseteq NewEntries(r, top)
    <3> SUFFICES ASSUME NEW j \in 1..steps PROVE new[j] \in NewEntries(r, top)
      BY <1>4 DEF Entries
    <3> QED
      BY <2>1 DEF NewEntries
  <2>4. Positions(new) \subseteq NewPositions(r, top)
    <3> SUFFICES ASSUME NEW j \in 1..steps PROVE Position(new[j]) \in NewPositions(r, top)
      BY <1>4 DEF Positions
    <3> QED
      BY <2>1 DEF NewPositions
  <2>5. NewPositions(r, top) \subseteq Positions(new)
    <3> SUFFICES ASSUME NEW n \in r.nr .. top - 1
                 PROVE  [dh |-> r.dhr, n |-> n] \in Positions(new)
      BY DEF NewPositions
    <3> DEFINE j == n - r.nr + 1
    <3>1. j \in DOMAIN new /\ r.nr + j - 1 = n
      BY <1>4, <2>2
    <3>2. Position(new[j]) = [dh |-> r.dhr, n |-> n]
      BY <1>4, <2>1, <3>1
    <3> QED
      BY <3>1, <3>2 DEF Positions
  <2> QED
    BY <2>3, <2>4, <2>5
<1>6. Distinct(new)
  <2> SUFFICES ASSUME NEW j \in 1..steps, NEW k \in 1..steps,
                      Position(new[j]) = Position(new[k])
               PROVE  j = k
    BY <1>4 DEF Distinct
  <2>1. r.nr + j - 1 = r.nr + k - 1
    BY DEF Position
  <2> QED
    BY <1>2, <2>1
<1>7. Positions(s) \cap Positions(new) = {}
  <2> SUFFICES ASSUME NEW j \in DOMAIN s, NEW n \in r.nr .. top - 1,
                      Position(s[j]) = [dh |-> r.dhr, n |-> n]
               PROVE  FALSE
    BY <1>5 DEF Positions, NewPositions
  <2>1. s[j].dh = r.dhr /\ s[j].n = n
    BY DEF Position
  <2>2. s[j].n < r.nr
    BY <2>1 DEF Entries
  <2> QED
    BY <1>2, <2>1, <2>2
<1> DEFINE c == s \o new
<1>8. /\ c \in Seq(Skipped) /\ Distinct(c)
      /\ Entries(c) \subseteq Entries(s) \cup NewEntries(r, top)
      /\ Positions(c) = Positions(s) \cup NewPositions(r, top)
  <2> HIDE DEF new
  <2> QED
    BY <1>1, <1>4, <1>5, <1>6, <1>7, ConcatFacts
<1> HIDE DEF c, new
<1>9. /\ u \in RatchetState /\ u.skipped = c /\ u.nr = top
      /\ u.ckr = Advance(r.ckr, top - r.nr) /\ u.evicted = r.evicted
      /\ SameSender(r, u)
  <2>1. Advance(r.ckr, steps) \in ChainKey /\ r.nr + steps \in Counter
    BY <1>2, AdvanceType
  <2>2. u = [r EXCEPT !.skipped = c, !.nr = r.nr + steps, !.ckr = Advance(r.ckr, steps)]
    BY DEF c
  <2> HIDE DEF u
  <2>3. /\ u \in RatchetState /\ u.skipped = c /\ u.nr = r.nr + steps
        /\ u.ckr = Advance(r.ckr, steps) /\ u.evicted = r.evicted
    BY <1>8, <2>1, <2>2 DEF RatchetState
  <2>4. SameSender(r, u)
    BY <2>2 DEF SameSender, RatchetState
  <2> QED
    BY <1>2, <2>3, <2>4
<1> HIDE DEF u
<1>10. /\ t \in RatchetState /\ SameSender(u, t) /\ t.nr = u.nr /\ t.ckr = u.ckr
       /\ Trimmed(c, u, t)
  BY <1>3, <1>8, <1>9, TrimFacts
<1>11. SameSender(r, t)
  BY <1>9, <1>10 DEF SameSender
<1>12. /\ Len(t.skipped) <= MaxSkipped
       /\ Distinct(t.skipped)
       /\ Entries(t.skipped) \subseteq Entries(s) \cup NewEntries(r, top)
       /\ Positions(s) \cup NewPositions(r, top) \subseteq Positions(t.skipped) \cup t.evicted
       /\ r.evicted \subseteq t.evicted
  BY <1>8, <1>9, <1>10 DEF Trimmed
<1> QED
  BY <1>9, <1>10, <1>11, <1>12 DEF t, top

\* What skipping does to the receiving chain of any ratchet, one that a forged
\* header led to included.
HasFields(r) == {"ckr", "nr", "skipped", "evicted"} \subseteq DOMAIN r

LEMMA SkipChain ==
    ASSUME NEW r, NEW until, HasFields(r), r.ckr # None,
           r.nr \in Nat, until \in Nat
    PROVE  /\ SkipMessageKeys(r, until).nr = Top(r, until)
           /\ SkipMessageKeys(r, until).ckr = Advance(r.ckr, Top(r, until) - r.nr)
           /\ HasFields(SkipMessageKeys(r, until))
<1> DEFINE steps == IF until > r.nr THEN until - r.nr ELSE 0
           new == [j \in 1..steps |->
                     [dh |-> r.dhr, n |-> r.nr + j - 1, mk |-> Advance(r.ckr, j - 1)]]
           c == r.skipped \o new
           k == Advance(r.ckr, steps)
           u == [r EXCEPT !.skipped = c, !.nr = r.nr + steps, !.ckr = k]
<1>1. SkipMessageKeys(r, until) = TrimSkipped(u)
  BY DEF SkipMessageKeys
<1>2. r.nr + steps = Top(r, until) /\ steps = Top(r, until) - r.nr
  BY DEF Top
<1> HIDE DEF steps, new, c, k
<1>3. u.nr = r.nr + steps /\ u.ckr = k /\ HasFields(u)
  BY DEF HasFields
<1> HIDE DEF u
<1> DEFINE over == IF Len(u.skipped) > MaxSkipped THEN Len(u.skipped) - MaxSkipped ELSE 0
           w == SubSeq(u.skipped, over + 1, Len(u.skipped))
           v == u.evicted \cup Positions(SubSeq(u.skipped, 1, over))
<1>4. TrimSkipped(u) = [u EXCEPT !.skipped = w, !.evicted = v]
  BY DEF TrimSkipped
<1> HIDE DEF over, w, v
<1>5. TrimSkipped(u).nr = u.nr /\ TrimSkipped(u).ckr = u.ckr /\ HasFields(TrimSkipped(u))
  BY <1>3, <1>4 DEF HasFields
<1> QED
  BY <1>1, <1>2, <1>3, <1>5 DEF k

LEMMA SkipWithoutChain ==
    ASSUME NEW r, NEW until, r.ckr = None
    PROVE  SkipMessageKeys(r, until) = r
BY DEF SkipMessageKeys

-----------------------------------------------------------------------------
(* What the steps of decrypt_inner do to a good ratchet.                   *)

LEMMA ModSmall == ASSUME NEW a \in Nat, NEW b \in Nat, a < b PROVE a % b = a
OBVIOUS

LEMMA AdvanceMessageKey ==
    ASSUME NEW key \in Key, NEW n \in Nat, NEW steps \in Nat
    PROVE  Advance(MessageKey(key, n), steps) = MessageKey(key, n + steps)
BY DEF Advance, MessageKey

LEMMA GoodTypes ==
    ASSUME NEW p \in Party, NEW r, Good(p, r)
    PROVE  /\ r \in RatchetState
           /\ r.dhs \in Key /\ r.dhs.i \in Nat /\ r.dhs.own = p
           /\ r.ns \in Nat /\ r.nr \in Nat /\ r.pn \in Nat
           /\ r.ns <= U32Max /\ r.nr <= U32Max /\ r.pn <= U32Max
           /\ Turn(r) \in Nat
           /\ r.skipped \in Seq(Skipped)
           /\ DOMAIN r.skipped = 1..Len(r.skipped)
           /\ Len(r.skipped) \in Nat
           /\ Distinct(r.skipped)
           /\ r.evicted \in SUBSET Place
           /\ Other(p) \in Party
<1>1. /\ r \in RatchetState
      /\ r.dhs.own = p
  BY DEF Good
<1>2. /\ r.dhs \in Key /\ r.ns \in Counter /\ r.nr \in Counter /\ r.pn \in Counter
      /\ r.skipped \in Seq(Skipped) /\ r.evicted \in SUBSET Place
  BY <1>1 DEF RatchetState
<1>3. Distinct(r.skipped)
  BY DEF Good, Store, Distinct
<1>4. Turn(r) \in Nat /\ r.dhs.i \in Nat
  BY <1>2, ChainType DEF Turn, Key
<1> QED
  BY <1>1, <1>2, <1>3, <1>4, LenProperties, RatchetAssumption DEF Counter, Other, Party

\* The entries of a good store, by element.
LEMMA StoreEntries ==
    ASSUME NEW p \in Party, NEW r, Good(p, r), NEW e \in Entries(r.skipped)
    PROVE  /\ e \in Skipped
           /\ e.dh \in Key /\ e.n \in Nat
           /\ e.dh.own = Other(p)
           /\ e.mk = MessageKey(e.dh, e.n)
           /\ Passed(r, e)
<1>1. PICK j \in DOMAIN r.skipped : e = r.skipped[j]
  BY DEF Entries
<1>2. e \in Skipped
  BY <1>1, GoodTypes, ElementOfSeq
<1> QED
  BY <1>1, <1>2 DEF Good, Store, Skipped

LEMMA GoodStore ==
    ASSUME NEW p \in Party, NEW r, r \in RatchetState, Distinct(r.skipped),
           Len(r.skipped) <= MaxSkipped,
           \A e \in Entries(r.skipped) :
              e.dh.own = Other(p) /\ e.mk = MessageKey(e.dh, e.n) /\ Passed(r, e)
    PROVE  Store(p, r)
BY DEF Store, Entries, Distinct

LEMMA SkipGood ==
    ASSUME NEW p \in Party, NEW r, Good(p, r), Going(p, r), NEW until \in Counter
    PROVE  LET t == SkipMessageKeys(r, until)
               top == Top(r, until)
           IN  /\ Good(p, t) /\ Going(p, t)
               /\ SameSender(r, t)
               /\ t.nr = top
               /\ \A x \in Positions(t.skipped) :
                     x \in Positions(r.skipped) \cup NewPositions(r, top)
               /\ Positions(r.skipped) \cup NewPositions(r, top)
                     \subseteq Positions(t.skipped) \cup t.evicted
               /\ r.evicted \subseteq t.evicted
<1> DEFINE t == SkipMessageKeys(r, until)
           top == Top(r, until)
<1>1. /\ r \in RatchetState /\ r.nr \in Nat /\ Turn(r) \in Nat /\ Distinct(r.skipped)
      /\ r.dhs \in Key /\ r.dhs.i \in Nat
  BY GoodTypes
<1>2. /\ r.dhr \in Key /\ r.dhr.own = Other(p) /\ Chain(r.dhr) = Turn(r) - 1
      /\ r.ckr = MessageKey(r.dhr, r.nr) /\ r.dhs.i > 0
  BY DEF Going
<1>3. r.ckr \in ChainKey
  BY <1>1, <1>2, MessageKeyType
<1>4. \A e \in Entries(r.skipped) : e.dh = r.dhr => e.n < r.nr
  <2> TAKE e \in Entries(r.skipped)
  <2> HAVE e.dh = r.dhr
  <2>1. Passed(r, e)
    BY StoreEntries
  <2> QED
    BY <1>1, <1>2, <2>1 DEF Passed
<1>5. /\ t \in RatchetState
      /\ SameSender(r, t)
      /\ t.nr = top
      /\ t.ckr = Advance(r.ckr, top - r.nr)
      /\ Len(t.skipped) <= MaxSkipped
      /\ Distinct(t.skipped)
      /\ Entries(t.skipped) \subseteq Entries(r.skipped) \cup NewEntries(r, top)
      /\ Positions(r.skipped) \cup NewPositions(r, top)
            \subseteq Positions(t.skipped) \cup t.evicted
      /\ r.evicted \subseteq t.evicted
  BY <1>1, <1>2, <1>3, <1>4, SkipFacts
<1>6. top \in Nat /\ top - r.nr \in Nat /\ r.nr + (top - r.nr) = top /\ r.nr <= top
  BY <1>1, RatchetAssumption DEF Top, Counter
<1> HIDE DEF t, top
<1>7. t.ckr = MessageKey(r.dhr, top)
  <2>1. Advance(MessageKey(r.dhr, r.nr), top - r.nr)
           = MessageKey(r.dhr, r.nr + (top - r.nr))
    BY <1>1, <1>2, <1>6, AdvanceMessageKey
  <2> QED
    BY <1>2, <1>5, <1>6, <2>1
<1>8. Turn(t) = Turn(r)
  BY <1>5 DEF Turn, SameSender
<1>9. \A e \in NewEntries(r, top) :
         /\ e.dh = r.dhr /\ e.n \in r.nr .. top - 1
         /\ e.mk = MessageKey(e.dh, e.n)
         /\ Position(e) \in NewPositions(r, top)
  <2> TAKE e \in NewEntries(r, top)
  <2>3. PICK n \in r.nr .. top - 1 :
           e = [dh |-> r.dhr, n |-> n, mk |-> Advance(r.ckr, n - r.nr)]
    BY DEF NewEntries
  <2>1. n - r.nr \in Nat /\ r.nr + (n - r.nr) = n
    BY <1>1, <1>6
  <2>2. Advance(r.ckr, n - r.nr) = MessageKey(r.dhr, n)
    <3>1. Advance(MessageKey(r.dhr, r.nr), n - r.nr) = MessageKey(r.dhr, r.nr + (n - r.nr))
      BY <1>1, <1>2, <2>1, AdvanceMessageKey
    <3> QED
      BY <1>2, <2>1, <3>1
  <2> QED
    BY <2>2, <2>3 DEF Position, NewPositions
<1>10. \A e \in Entries(t.skipped) :
          e.dh.own = Other(p) /\ e.mk = MessageKey(e.dh, e.n) /\ Passed(t, e)
  <2> TAKE e \in Entries(t.skipped)
  <2>1. CASE e \in Entries(r.skipped)
    <3>1. /\ e.dh.own = Other(p) /\ e.mk = MessageKey(e.dh, e.n) /\ Passed(r, e)
          /\ e.n \in Nat
      BY <2>1, StoreEntries
    <3> QED
      BY <1>1, <1>5, <1>6, <1>8, <3>1 DEF Passed
  <2>2. CASE e \in NewEntries(r, top)
    <3>1. e.n < t.nr
      BY <1>1, <1>5, <1>6, <1>9, <2>2
    <3> QED
      BY <1>2, <1>8, <1>9, <2>2, <3>1 DEF Passed
  <2> QED
    BY <1>5, <2>1, <2>2
<1>11. Store(p, t)
  BY <1>5, <1>10, GoodStore
<1>12. Going(p, t)
  BY <1>2, <1>5, <1>7, <1>8 DEF Going, SameSender
<1>13. Good(p, t)
  BY <1>5, <1>8, <1>11, <1>12 DEF Good, SameSender
<1>14. \A x \in Positions(t.skipped) :
          x \in Positions(r.skipped) \cup NewPositions(r, top)
  <2> SUFFICES ASSUME NEW j \in DOMAIN t.skipped
               PROVE  Position(t.skipped[j]) \in Positions(r.skipped) \cup NewPositions(r, top)
    BY DEF Positions
  <2>1. t.skipped[j] \in Entries(r.skipped) \cup NewEntries(r, top)
    BY <1>5 DEF Entries
  <2>2. \A e \in Entries(r.skipped) : Position(e) \in Positions(r.skipped)
    BY DEF Entries, Positions
  <2> QED
    BY <1>9, <2>1, <2>2
<1> QED
  BY <1>5, <1>12, <1>13, <1>14 DEF t, top

\* dh_ratchet_step on the key of the other end's next chain.
LEMMA StepGood ==
    ASSUME NEW p \in Party, NEW r, Good(p, r),
           NEW dh \in Key, dh.own = Other(p), Chain(dh) = Turn(r) + 1
    PROVE  LET t == DhRatchetStep(r, dh)
           IN  /\ Good(p, t) /\ Going(p, t)
               /\ t.dhs = PublicKey(p, r.dhs.i + 1) /\ t.dhr = dh
               /\ Turn(t) = Turn(r) + 2
               /\ t.nr = 0 /\ t.ns = 0 /\ t.pn = r.ns
               /\ t.skipped = r.skipped /\ t.evicted = r.evicted
<1> DEFINE t == DhRatchetStep(r, dh)
           fresh == PublicKey(r.dhs.own, r.dhs.i + 1)
           rk1 == MixRoot(r.rk, r.dhs, dh)
           rk2 == MixRoot(rk1, fresh, dh)
<1>1. /\ r \in RatchetState /\ r.ns \in Counter /\ Turn(r) \in Nat /\ Distinct(r.skipped)
      /\ r.dhs \in Key /\ r.dhs.i \in Nat /\ r.dhs.own = p /\ Turn(r) = Chain(r.dhs)
      /\ 0 \in Counter
  BY GoodTypes, RatchetAssumption DEF Turn, Counter
<1>2. fresh = PublicKey(p, r.dhs.i + 1) /\ fresh \in Key /\ fresh.i > 0 /\ fresh.own = p
      /\ Chain(fresh) = Chain(r.dhs) + 2 /\ Chain(fresh) = Chain(dh) + 1
  BY <1>1 DEF PublicKey, Key, Chain, Party
<1>3. rk1 = Root(Chain(dh))
  BY <1>1, NextRoot DEF Good
<1>4. rk2 = Root(Chain(fresh))
  <2> HIDE DEF fresh, rk1
  <2> QED
    BY <1>2, <1>3, NextRoot
<1>5. t = [r EXCEPT !.pn = r.ns, !.ns = 0, !.nr = 0, !.dhr = dh, !.ckr = NewChain(rk1),
                    !.dhs = fresh, !.rk = rk2, !.cks = NewChain(rk2)]
  BY DEF DhRatchetStep
<1> HIDE DEF t, fresh, rk1, rk2
<1>6. /\ NewChain(rk1) = MessageKey(dh, 0) /\ NewChain(rk1) \in ChainKey
      /\ NewChain(rk2) = MessageKey(fresh, 0) /\ NewChain(rk2) \in ChainKey
      /\ rk2 \in Seq(SUBSET Key)
  <2>1. NewChain(rk1) = MessageKey(dh, 0) /\ NewChain(rk2) = MessageKey(fresh, 0)
    BY <1>3, <1>4 DEF NewChain, MessageKey
  <2> QED
    BY <1>2, <1>4, <2>1, MessageKeyType, RootType, ChainType
<1>7. /\ t \in RatchetState
      /\ t.pn = r.ns /\ t.ns = 0 /\ t.nr = 0 /\ t.dhr = dh /\ t.ckr = MessageKey(dh, 0)
      /\ t.dhs = fresh /\ t.rk = rk2 /\ t.cks = MessageKey(fresh, 0)
      /\ t.skipped = r.skipped /\ t.evicted = r.evicted
  BY <1>1, <1>2, <1>5, <1>6 DEF RatchetState
<1>8. Turn(t) = Turn(r) + 2 /\ Turn(t) = Chain(fresh) /\ Turn(t) - 1 = Chain(dh)
  BY <1>1, <1>2, <1>7 DEF Turn
<1>9. Going(p, t)
  BY <1>2, <1>7, <1>8 DEF Going
<1>10. Store(p, t)
  <2>1. \A e \in Entries(t.skipped) :
           e.dh.own = Other(p) /\ e.mk = MessageKey(e.dh, e.n) /\ Passed(t, e)
    <3> TAKE e \in Entries(t.skipped)
    <3>1. /\ e.dh.own = Other(p) /\ e.mk = MessageKey(e.dh, e.n) /\ Passed(r, e)
          /\ e.dh \in Key
      BY <1>7, StoreEntries
    <3>2. Chain(e.dh) \in Nat
      BY <3>1, ChainType
    <3>3. Passed(t, e)
      BY <1>1, <1>8, <3>1, <3>2 DEF Passed
    <3> QED
      BY <3>1, <3>3
  <2>2. Len(t.skipped) <= MaxSkipped
    BY <1>7 DEF Good, Store
  <2> QED
    BY <1>1, <1>7, <2>1, <2>2, GoodStore
<1>11. Good(p, t)
  BY <1>2, <1>4, <1>7, <1>8, <1>9, <1>10 DEF Good
<1> QED
  BY <1>2, <1>7, <1>8, <1>9, <1>11 DEF t

\* Step 4 of decrypt_inner: the key at nr is taken from the chain.
Taken(b) == [b EXCEPT !.ckr = Advance(@, 1), !.nr = (@ + 1) % (U32Max + 1)]

LEMMA TakeGood ==
    ASSUME NEW p \in Party, NEW b, Good(p, b), Going(p, b), b.nr < U32Max
    PROVE  LET t == Taken(b)
           IN  /\ Good(p, t) /\ Going(p, t) /\ SameSender(b, t)
               /\ t.nr = b.nr + 1
               /\ t.skipped = b.skipped /\ t.evicted = b.evicted
<1> DEFINE t == Taken(b)
           k == Advance(b.ckr, 1)
           n == (b.nr + 1) % (U32Max + 1)
<1>1. /\ b \in RatchetState /\ b.nr \in Nat /\ Turn(b) \in Nat /\ Distinct(b.skipped)
      /\ U32Max \in Nat
  BY GoodTypes, RatchetAssumption
<1>2. n = b.nr + 1 /\ n \in Counter /\ n \in Nat
  BY <1>1, ModSmall DEF Counter
<1>3. k = MessageKey(b.dhr, n) /\ k \in ChainKey
  <2>1. b.dhr \in Key /\ b.ckr = MessageKey(b.dhr, b.nr)
    BY DEF Going
  <2>2. Advance(MessageKey(b.dhr, b.nr), 1) = MessageKey(b.dhr, b.nr + 1)
    BY <1>1, <2>1, AdvanceMessageKey
  <2> QED
    BY <1>2, <2>1, <2>2, MessageKeyType
<1>4. t = [b EXCEPT !.ckr = k, !.nr = n]
  BY DEF Taken
<1> HIDE DEF t, k, n
<1>5. /\ t \in RatchetState /\ t.nr = n /\ t.ckr = k
      /\ t.skipped = b.skipped /\ t.evicted = b.evicted
  BY <1>1, <1>2, <1>3, <1>4 DEF RatchetState
<1>6. SameSender(b, t)
  BY <1>1, <1>4 DEF RatchetState, SameSender
<1>7. Turn(t) = Turn(b)
  BY <1>6 DEF Turn, SameSender
<1>8. Going(p, t)
  BY <1>3, <1>5, <1>6, <1>7 DEF Going, SameSender
<1>9. Store(p, t)
  <2>1. \A e \in Entries(t.skipped) :
           e.dh.own = Other(p) /\ e.mk = MessageKey(e.dh, e.n) /\ Passed(t, e)
    <3> TAKE e \in Entries(t.skipped)
    <3>1. /\ e.dh.own = Other(p) /\ e.mk = MessageKey(e.dh, e.n) /\ Passed(b, e)
          /\ e.n \in Nat
      BY <1>5, StoreEntries
    <3>2. Passed(t, e)
      BY <1>1, <1>2, <1>5, <1>7, <3>1 DEF Passed
    <3> QED
      BY <3>1, <3>2
  <2>2. Len(t.skipped) <= MaxSkipped
    BY <1>5 DEF Good, Store
  <2> QED
    BY <1>1, <1>5, <2>1, <2>2, GoodStore
<1>10. Good(p, t)
  BY <1>5, <1>6, <1>7, <1>8, <1>9 DEF Good, SameSender
<1> QED
  BY <1>2, <1>5, <1>6, <1>8, <1>10 DEF t

\* The entry removed, and only this one, is gone.
LEMMA SwapRemoveFacts ==
    ASSUME NEW s \in Seq(Skipped), NEW j \in DOMAIN s, Distinct(s)
    PROVE  LET t == SwapRemove(s, j)
           IN  /\ t \in Seq(Skipped)
               /\ Len(t) = Len(s) - 1
               /\ Distinct(t)
               /\ Entries(t) \subseteq Entries(s)
               /\ Positions(t) = Positions(s) \ {Position(s[j])}
<1> DEFINE len == Len(s)
           moved == [s EXCEPT ![j] = s[len]]
           t == SubSeq(moved, 1, len - 1)
<1>1. /\ len \in Nat /\ DOMAIN s = 1..len /\ j \in 1..len
      /\ \A i \in 1..len : s[i] \in Skipped
  BY LenProperties, ElementOfSeq
<1>2. /\ \A i \in 1..len : moved[i] = IF i = j THEN s[len] ELSE s[i]
      /\ \A i \in 1..len : moved[i] \in Skipped
  BY <1>1
<1> HIDE DEF len, moved
<1>3. /\ t \in Seq(Skipped) /\ Len(t) = len - 1
      /\ \A i \in 1 .. len - 1 : t[i] = moved[i]
  <2>1. \A i \in 1 .. len - 1 : moved[i] \in Skipped
    BY <1>1, <1>2
  <2>2. /\ t \in Seq(Skipped)
        /\ Len(t) = IF 1 <= len - 1 THEN len - 1 - 1 + 1 ELSE 0
        /\ \A i \in 1 .. len - 1 - 1 + 1 : t[i] = moved[1 + i - 1]
    BY <1>1, <2>1, SubSeqProperties
  <2> HIDE DEF t
  <2>3. Len(t) = len - 1
    BY <1>1, <2>2
  <2>4. ASSUME NEW i \in 1 .. len - 1 PROVE t[i] = moved[i]
    <3>1. i \in 1 .. len - 1 - 1 + 1 /\ 1 + i - 1 = i
      BY <1>1
    <3> QED
      BY <2>2, <3>1
  <2> QED
    BY <2>2, <2>3, <2>4
<1> HIDE DEF t
<1>4. DOMAIN t = 1 .. len - 1
  BY <1>3, LenProperties
<1>5. \A i \in DOMAIN t : /\ t[i] = IF i = j THEN s[len] ELSE s[i]
                          /\ i \in DOMAIN s
  BY <1>1, <1>2, <1>3, <1>4
<1>6. len \in DOMAIN s /\ len \notin DOMAIN t
  BY <1>1, <1>4
<1>7. Distinct(t)
  <2> SUFFICES ASSUME NEW i \in DOMAIN t, NEW k \in DOMAIN t,
                      Position(t[i]) = Position(t[k]), i # k
               PROVE  FALSE
    BY DEF Distinct
  <2>1. CASE i = j
    <3>1. Position(s[len]) = Position(s[k])
      BY <1>5, <2>1
    <3> QED
      BY <1>5, <1>6, <3>1 DEF Distinct
  <2>2. CASE k = j
    <3>1. Position(s[len]) = Position(s[i])
      BY <1>5, <2>2
    <3> QED
      BY <1>5, <1>6, <3>1 DEF Distinct
  <2>3. CASE i # j /\ k # j
    BY <1>5, <2>3 DEF Distinct
  <2> QED
    BY <2>1, <2>2, <2>3
<1>8. Entries(t) \subseteq Entries(s)
  BY <1>5, <1>6 DEF Entries
<1>9. Positions(t) \subseteq Positions(s) \ {Position(s[j])}
  <2> SUFFICES ASSUME NEW i \in DOMAIN t
               PROVE  Position(t[i]) \in Positions(s) /\ Position(t[i]) # Position(s[j])
    BY DEF Positions
  <2>1. CASE i = j
    <3>1. t[i] = s[len] /\ len # j
      BY <1>5, <1>6, <2>1
    <3> QED
      BY <1>6, <3>1 DEF Distinct, Positions
  <2>2. CASE i # j
    BY <1>5, <2>2 DEF Distinct, Positions
  <2> QED
    BY <2>1, <2>2
<1>10. Positions(s) \ {Position(s[j])} \subseteq Positions(t)
  <2> SUFFICES ASSUME NEW k \in DOMAIN s, Position(s[k]) # Position(s[j])
               PROVE  Position(s[k]) \in Positions(t)
    BY DEF Positions
  <2>1. k # j
    OBVIOUS
  <2>2. CASE k = len
    <3>1. j \in DOMAIN t /\ t[j] = s[k]
      BY <1>1, <1>4, <1>5, <2>1, <2>2
    <3> QED
      BY <3>1 DEF Positions
  <2>3. CASE k # len
    <3>1. k \in DOMAIN t /\ t[k] = s[k]
      BY <1>1, <1>4, <1>5, <2>1, <2>3
    <3> QED
      BY <3>1 DEF Positions
  <2> QED
    BY <2>2, <2>3
<1>11. t = SwapRemove(s, j) /\ len = Len(s)
  BY DEF t, moved, len, SwapRemove
<1> QED
  BY <1>3, <1>7, <1>8, <1>9, <1>10, <1>11

LEMMA RemoveGood ==
    ASSUME NEW p \in Party, NEW r, Good(p, r), NEW j \in DOMAIN r.skipped
    PROVE  LET t == [r EXCEPT !.skipped = SwapRemove(@, j)]
           IN  /\ Good(p, t) /\ Going(p, r) /\ Going(p, t) /\ SameSender(r, t)
               /\ t.nr = r.nr /\ t.evicted = r.evicted
               /\ Positions(t.skipped) = Positions(r.skipped) \ {Position(r.skipped[j])}
<1> DEFINE u == SwapRemove(r.skipped, j)
           t == [r EXCEPT !.skipped = u]
<1>1. /\ r \in RatchetState /\ Distinct(r.skipped) /\ r.skipped \in Seq(Skipped)
      /\ DOMAIN r.skipped = 1..Len(r.skipped) /\ Len(r.skipped) \in Nat
  BY GoodTypes
<1>2. /\ u \in Seq(Skipped) /\ Len(u) = Len(r.skipped) - 1 /\ Distinct(u)
      /\ Entries(u) \subseteq Entries(r.skipped)
      /\ Positions(u) = Positions(r.skipped) \ {Position(r.skipped[j])}
  BY <1>1, SwapRemoveFacts
<1> HIDE DEF u
<1>3. /\ t \in RatchetState /\ t.skipped = u /\ t.nr = r.nr /\ t.ckr = r.ckr
      /\ t.evicted = r.evicted
  BY <1>1, <1>2 DEF RatchetState
<1>4. SameSender(r, t)
  BY <1>1 DEF SameSender, RatchetState
<1> HIDE DEF t
<1>5. Going(p, r)
  <2>1. r.skipped # << >>
    BY <1>1
  <2> QED
    BY <2>1 DEF Good, Fresh
<1>6. Turn(t) = Turn(r) /\ \A e : Passed(t, e) <=> Passed(r, e)
  BY <1>3, <1>4 DEF Turn, SameSender, Passed
<1>7. Going(p, t)
  BY <1>3, <1>4, <1>5, <1>6 DEF Going, SameSender
<1>8. Store(p, t)
  <2>1. \A e \in Entries(t.skipped) :
           e.dh.own = Other(p) /\ e.mk = MessageKey(e.dh, e.n) /\ Passed(t, e)
    <3> TAKE e \in Entries(t.skipped)
    <3>1. e \in Entries(r.skipped)
      BY <1>2, <1>3
    <3> QED
      BY <1>6, <3>1, StoreEntries
  <2>2. Len(t.skipped) <= MaxSkipped
    <3>1. Len(r.skipped) <= MaxSkipped
      BY DEF Good, Store
    <3> QED
      BY <1>1, <1>2, <1>3, <3>1, RatchetAssumption
  <2> QED
    BY <1>2, <1>3, <2>1, <2>2, GoodStore
<1>9. Good(p, t)
  BY <1>3, <1>4, <1>6, <1>7, <1>8 DEF Good, SameSender
<1> QED
  BY <1>2, <1>3, <1>4, <1>5, <1>7, <1>9 DEF t, u

-----------------------------------------------------------------------------
(* What decrypt does on a message of the other end.                        *)

Incoming(p, m) ==
    /\ m.dh \in Key
    /\ m.dh.own = Other(p)
    /\ Chain(m.dh) > 0
    /\ m.n \in Nat
    /\ m.n < U32Max
    /\ m.pn \in Counter
    /\ m.mk = MessageKey(m.dh, m.n)

SameTurn(p, r, m, t) ==
    /\ Going(p, r)
    /\ t.dhs = r.dhs /\ t.ns = r.ns /\ t.pn = r.pn
    /\ \/ t.nr = r.nr
       \/ m.dh = r.dhr /\ r.nr <= m.n /\ t.nr = m.n + 1

NextTurn(p, r, m, t) ==
    /\ Chain(m.dh) = Turn(r) + 1
    /\ t.dhs = PublicKey(p, r.dhs.i + 1) /\ Turn(t) = Turn(r) + 2
    /\ t.ns = 0 /\ t.pn = r.ns /\ t.nr = m.n + 1

\* Message m was taken from the chain or from the store of r, which became t:
\* it had not been taken before, its key is gone, and the keys of all other
\* positions that were passed on the way are in the store or evicted.
Took(p, r, m, t) ==
    /\ Good(p, t) /\ Going(p, t)
    /\ SameTurn(p, r, m, t) \/ NextTurn(p, r, m, t)
    /\ ~Passed(r, Position(m)) \/ Position(m) \in Positions(r.skipped)
    /\ Passed(t, Position(m))
    /\ Position(m) \notin Positions(t.skipped)
    /\ \A x \in Positions(t.skipped) : x \in Positions(r.skipped) \/ ~Passed(r, x)
    /\ (Positions(r.skipped) \cup r.evicted) \ {Position(m)}
          \subseteq Positions(t.skipped) \cup t.evicted
    /\ r.evicted \subseteq t.evicted
    /\ \A x \in Place :
          /\ x.dh.own = Other(p) /\ Chain(x.dh) > 0 /\ x # Position(m)
          /\ Passed(t, x) /\ ~Passed(r, x)
          /\ x.dh = r.dhr /\ Turn(t) # Turn(r) => x.n < m.pn
          => x \in Positions(t.skipped) \cup t.evicted

LEMMA PositionFields ==
    ASSUME NEW m
    PROVE  Position(m).dh = m.dh /\ Position(m).n = m.n
BY DEF Position

LEMMA PassedPosition ==
    ASSUME NEW r, NEW m
    PROVE  Passed(r, Position(m)) <=> Passed(r, m)
BY DEF Position, Passed

LEMMA StorePositions ==
    ASSUME NEW p \in Party, NEW r, Good(p, r), NEW x \in Positions(r.skipped)
    PROVE  /\ x \in Place /\ x.dh \in Key /\ x.n \in Nat
           /\ x.dh.own = Other(p)
           /\ Passed(r, x)
<1>1. PICK j \in DOMAIN r.skipped : x = Position(r.skipped[j])
  BY DEF Positions
<1>2. r.skipped[j] \in Entries(r.skipped)
  BY DEF Entries
<1> QED
  BY <1>1, <1>2, StoreEntries, PassedPosition DEF Position, Place

LEMMA NewPositionsType ==
    ASSUME NEW r, r.nr \in Nat, r.dhr \in Key, NEW top \in Nat, NEW x \in NewPositions(r, top)
    PROVE  x.dh = r.dhr /\ x.n \in Nat /\ r.nr <= x.n /\ x.n < top
BY DEF NewPositions

LEMMA PlaceOf ==
    ASSUME NEW x \in Place
    PROVE  x = [dh |-> x.dh, n |-> x.n] /\ x.dh \in Key /\ x.n \in Nat
BY DEF Place

\* Keys of the two ends name different chains.
LEMMA OtherChain ==
    ASSUME NEW p \in Party, NEW k \in Key, NEW l \in Key, k.own = p, l.own = Other(p)
    PROVE  Chain(k) # Chain(l)
<1>1. p # Other(p)
  BY DEF Party, Other
<1> QED
  BY <1>1, ChainInjective

\* The key that decrypt_inner derives is the one of the message.
Opens(r, m) == DecryptInner(r, m).mk # None /\ DecryptInner(r, m).mk = m.mk

LEMMA DecryptIs ==
    ASSUME NEW r, NEW m
    PROVE  /\ Decrypt(r, m).ok <=> Opens(r, m)
           /\ Opens(r, m) => Decrypt(r, m).st = DecryptInner(r, m).st
           /\ ~Opens(r, m) => Decrypt(r, m).st = r
<1> DEFINE d == DecryptInner(r, m)
           s == IF Opens(r, m) THEN d.st ELSE Restore(r, d.st)
<1>1. Decrypt(r, m) = [ok |-> Opens(r, m), st |-> s]
  BY Zenon DEF Decrypt, Opens
<1> HIDE DEF s
<1>4. Opens(r, m) \in BOOLEAN
  BY DEF Opens
<1>2. Decrypt(r, m).ok = Opens(r, m)
  <2> DEFINE o == Opens(r, m)
  <2>1. Decrypt(r, m) = [ok |-> o, st |-> s] /\ o \in BOOLEAN
    BY <1>1, <1>4
  <2> HIDE DEF o
  <2>2. Decrypt(r, m).ok = o
    BY <2>1
  <2> QED
    BY <2>2 DEF o
<1>3. Decrypt(r, m).st = s
  BY <1>1
<1> QED
  BY <1>2, <1>3, Zenon DEF s, Restore

\* A stored key opens its message.
LEMMA HeldTook ==
    ASSUME NEW p \in Party, NEW r, Good(p, r), NEW m, Incoming(p, m), Held(r, m) # {}
    PROVE  Decrypt(r, m).ok /\ Took(p, r, m, Decrypt(r, m).st)
<1> DEFINE j == CHOOSE j \in Held(r, m) : TRUE
           t == [r EXCEPT !.skipped = SwapRemove(@, j)]
<1>1. j \in Held(r, m)
  OBVIOUS
<1> HIDE DEF j
<1>2. j \in DOMAIN r.skipped /\ Position(r.skipped[j]) = Position(m)
  BY <1>1 DEF Held
<1>3. DecryptInner(r, m) = [mk |-> r.skipped[j].mk, st |-> t]
  BY DEF DecryptInner, j
<1>4. r.skipped[j].mk = m.mk /\ m.mk # None
  <2>1. r.skipped[j].dh = m.dh /\ r.skipped[j].n = m.n
    BY <1>2, PositionFields
  <2>2. r.skipped[j].mk = MessageKey(r.skipped[j].dh, r.skipped[j].n)
    BY <1>2, StoreEntries DEF Entries
  <2> QED
    BY <2>1, <2>2, MessageKeyType DEF Incoming
<1>5. Decrypt(r, m).ok /\ Decrypt(r, m).st = t
  <2>1. DecryptInner(r, m).mk = m.mk /\ DecryptInner(r, m).st = t
    BY <1>3, <1>4
  <2>2. Opens(r, m)
    BY <1>4, <2>1 DEF Opens
  <2> QED
    BY <2>1, <2>2, DecryptIs
<1>6. /\ Good(p, t) /\ Going(p, r) /\ Going(p, t) /\ SameSender(r, t)
      /\ t.nr = r.nr /\ t.evicted = r.evicted
      /\ Positions(t.skipped) = Positions(r.skipped) \ {Position(m)}
  BY <1>2, RemoveGood
<1> HIDE DEF t
<1>7. Turn(t) = Turn(r) /\ \A x : Passed(t, x) <=> Passed(r, x)
  BY <1>6 DEF Turn, SameSender, Passed
<1>8. Position(m) \in Positions(r.skipped)
  BY <1>2 DEF Positions
<1>9. Passed(r, Position(m))
  BY <1>8, StorePositions
<1>10. SameTurn(p, r, m, t)
  BY <1>6 DEF SameTurn, SameSender
<1>11. Took(p, r, m, t)
  BY <1>6, <1>7, <1>8, <1>9, <1>10 DEF Took
<1> QED
  BY <1>5, <1>11

\* A message of the receiving chain opens if the chain is not past it and it is
\* within the skip limit.
LEMMA ChainTook ==
    ASSUME NEW p \in Party, NEW r, Good(p, r), NEW m, Incoming(p, m), Held(r, m) = {},
           m.dh = r.dhr
    PROVE  /\ Going(p, r)
           /\ Decrypt(r, m).ok <=> ~BeyondSkip(r, m.n) /\ r.nr <= m.n
           /\ Decrypt(r, m).ok => Took(p, r, m, Decrypt(r, m).st)
<1> DEFINE b == SkipMessageKeys(r, m.n)
           t == Taken(b)
<1>1. /\ m.dh \in Key /\ m.dh.own = Other(p) /\ Chain(m.dh) > 0 /\ m.n \in Nat
      /\ m.n < U32Max /\ m.mk = MessageKey(m.dh, m.n) /\ m.n \in Counter /\ U32Max \in Nat
  BY RatchetAssumption DEF Incoming, Counter
<1>2. Going(p, r)
  <2>1. CASE Fresh(p, r)
    <3>1. r.dhr = PublicKey("bob", 0)
      BY <1>1, <2>1, NoneIsNoKey DEF Fresh
    <3> QED
      BY <1>1, <3>1 DEF Chain, PublicKey
  <2> QED
    BY <2>1 DEF Good
<1>3. /\ Good(p, b) /\ Going(p, b) /\ SameSender(r, b)
      /\ b.nr = Top(r, m.n)
      /\ \A x \in Positions(b.skipped) :
            x \in Positions(r.skipped) \cup NewPositions(r, Top(r, m.n))
      /\ Positions(r.skipped) \cup NewPositions(r, Top(r, m.n))
            \subseteq Positions(b.skipped) \cup b.evicted
      /\ r.evicted \subseteq b.evicted
  BY <1>1, <1>2, SkipGood
<1>4. /\ b.nr \in Nat /\ r.nr \in Nat /\ Turn(r) \in Nat /\ b.dhr = r.dhr
      /\ Turn(b) = Turn(r) /\ Chain(r.dhr) = Turn(r) - 1
  BY <1>2, <1>3, GoodTypes DEF SameSender, Turn, Going
<1>5. b.ckr = MessageKey(m.dh, b.nr) /\ b.ckr # None
  BY <1>1, <1>3, <1>4, MessageKeyType DEF Going
<1>6. DecryptInner(r, m) = IF BeyondSkip(r, m.n) THEN [mk |-> None, st |-> r]
                           ELSE [mk |-> b.ckr, st |-> t]
  <2>1. Switched(r, m) = r
    BY DEF Switched
  <2>2. DecryptInner(r, m) = FromChain(r, m)
    BY DEF DecryptInner
  <2> HIDE DEF b
  <2>3. b = SkipMessageKeys(r, m.n)
    BY DEF b
  <2> QED
    BY <1>5, <2>1, <2>2, <2>3, Zenon DEF FromChain, Taken
<1> HIDE DEF b
<1>7. b.ckr = m.mk <=> r.nr <= m.n
  <2>1. b.ckr = m.mk <=> b.nr = m.n
    BY <1>1, <1>4, <1>5, MessageKeyInjective
  <2> QED
    BY <1>1, <1>3, <1>4, <2>1 DEF Top
<1>10. BeyondSkip(r, m.n) \in BOOLEAN
  BY DEF BeyondSkip
<1>11. Opens(r, m) <=> ~BeyondSkip(r, m.n) /\ r.nr <= m.n
  BY <1>5, <1>6, <1>7, <1>10 DEF Opens
<1>8. Decrypt(r, m).ok <=> ~BeyondSkip(r, m.n) /\ r.nr <= m.n
  BY <1>11, DecryptIs
<1>9. ASSUME ~BeyondSkip(r, m.n), r.nr <= m.n
      PROVE  Took(p, r, m, Decrypt(r, m).st)
  <2>1. Decrypt(r, m).st = t
    <3>1. DecryptInner(r, m).st = t
      BY <1>6, <1>9
    <3> QED
      BY <1>9, <1>11, <3>1, DecryptIs
  <2>2. b.nr = m.n /\ Top(r, m.n) = m.n
    BY <1>1, <1>3, <1>4, <1>9 DEF Top
  <2>3. /\ Good(p, t) /\ Going(p, t) /\ SameSender(b, t)
        /\ t.nr = b.nr + 1
        /\ t.skipped = b.skipped /\ t.evicted = b.evicted
    BY <1>1, <1>3, <2>2, TakeGood
  <2> HIDE DEF t
  <2>4. Turn(t) = Turn(r) /\ t.nr = m.n + 1
    BY <1>4, <2>2, <2>3 DEF Turn, SameSender
  <2>5. ~Passed(r, Position(m)) /\ Passed(t, Position(m)) /\ ~Passed(b, Position(m))
    BY <1>1, <1>4, <1>9, <2>2, <2>4, PositionFields DEF Passed
  <2>6. Position(m) \notin Positions(t.skipped)
    BY <1>3, <2>3, <2>5, StorePositions
  <2>7. \A x \in Positions(t.skipped) : x \in Positions(r.skipped) \/ ~Passed(r, x)
    <3> SUFFICES ASSUME NEW x \in NewPositions(r, m.n) PROVE ~Passed(r, x)
      BY <1>3, <2>2, <2>3
    <3>1. x.dh = r.dhr /\ x.n \in Nat /\ r.nr <= x.n
      BY <1>1, <1>4, NewPositionsType
    <3> QED
      BY <1>4, <3>1 DEF Passed
  <2>8. ASSUME NEW x \in Place, x.dh.own = Other(p), x # Position(m),
               Passed(t, x), ~Passed(r, x)
        PROVE  x \in Positions(t.skipped) \cup t.evicted
    <3>1. x = [dh |-> x.dh, n |-> x.n] /\ x.dh \in Key /\ x.n \in Nat
      BY <2>8, PlaceOf
    <3>2. Chain(x.dh) = Turn(r) - 1 /\ r.nr <= x.n /\ x.n <= m.n
      BY <1>1, <1>4, <2>4, <2>8, <3>1, ChainType DEF Passed
    <3>3. x.dh = m.dh
      BY <1>1, <1>4, <3>1, <3>2, ChainInjective
    <3>4. x.n # m.n
      BY <2>8, <3>1, <3>3 DEF Position
    <3>5. x.n \in r.nr .. m.n - 1
      BY <1>1, <1>4, <3>1, <3>2, <3>4
    <3>6. x \in NewPositions(r, m.n)
      BY <3>1, <3>3, <3>5 DEF NewPositions
    <3> QED
      BY <1>3, <2>2, <2>3, <3>6
  <2>9. SameTurn(p, r, m, t)
    BY <1>2, <1>3, <1>9, <2>3, <2>4 DEF SameTurn, SameSender
  <2> QED
    BY <1>3, <2>1, <2>2, <2>3, <2>5, <2>6, <2>7, <2>8, <2>9 DEF Took
<1> QED
  BY <1>2, <1>8, <1>9

\* The keys left in the old chain are stored, if there is one.
LEMMA SkipOld ==
    ASSUME NEW p \in Party, NEW r, Good(p, r), NEW pn \in Counter
    PROVE  LET c == SkipMessageKeys(r, pn)
           IN  /\ Good(p, c) /\ SameSender(r, c)
               /\ \A x \in Positions(c.skipped) : x \in Positions(r.skipped) \/ ~Passed(r, x)
               /\ Positions(r.skipped) \subseteq Positions(c.skipped) \cup c.evicted
               /\ r.evicted \subseteq c.evicted
               /\ \A x \in Place :
                     /\ x.dh.own = Other(p) /\ Chain(x.dh) > 0
                     /\ Chain(x.dh) = Turn(r) - 1 /\ ~Passed(r, x) /\ x.n < pn
                     => x \in Positions(c.skipped) \cup c.evicted
<1> DEFINE c == SkipMessageKeys(r, pn)
<1>1. r.nr \in Nat /\ Turn(r) \in Nat /\ pn \in Nat /\ r.dhs \in Key
  BY GoodTypes, RatchetAssumption DEF Counter
<1>2. CASE Fresh(p, r)
  <2>1. c = r
    BY <1>2, SkipWithoutChain DEF Fresh
  <2>2. Turn(r) <= 1
    BY <1>1, <1>2 DEF Fresh, Turn, Chain, Key
  <2>3. \A x \in Place : ~(Chain(x.dh) > 0 /\ Chain(x.dh) = Turn(r) - 1)
    BY <1>1, <2>2
  <2> QED
    BY <2>1, <2>3 DEF SameSender
<1>3. CASE Going(p, r)
  <2> DEFINE top == Top(r, pn)
  <2>1. /\ Good(p, c) /\ SameSender(r, c)
        /\ \A x \in Positions(c.skipped) :
              x \in Positions(r.skipped) \cup NewPositions(r, top)
        /\ Positions(r.skipped) \cup NewPositions(r, top)
              \subseteq Positions(c.skipped) \cup c.evicted
        /\ r.evicted \subseteq c.evicted
    BY <1>3, SkipGood
  <2>2. top \in Nat /\ pn <= top
    BY <1>1 DEF Top
  <2>3. r.dhr \in Key /\ Chain(r.dhr) = Turn(r) - 1
    BY <1>3 DEF Going
  <2> HIDE DEF top, c
  <2>4. \A x \in NewPositions(r, top) : ~Passed(r, x)
    <3> TAKE x \in NewPositions(r, top)
    <3>1. x.dh = r.dhr /\ x.n \in Nat /\ r.nr <= x.n
      BY <1>1, <2>2, <2>3, NewPositionsType
    <3> QED
      BY <1>1, <2>3, <3>1 DEF Passed
  <2>5. ASSUME NEW x \in Place, Chain(x.dh) = Turn(r) - 1, ~Passed(r, x), x.n < pn
        PROVE  x \in NewPositions(r, top)
    <3>1. x = [dh |-> x.dh, n |-> x.n] /\ x.dh \in Key /\ x.n \in Nat
      BY PlaceOf
    <3>2. x.dh = r.dhr
      BY <2>3, <2>5, <3>1, ChainInjective
    <3>3. x.n \in r.nr .. top - 1
      BY <1>1, <2>2, <2>5, <3>1 DEF Passed
    <3> QED
      BY <3>1, <3>2, <3>3 DEF NewPositions
  <2> QED
    BY <2>1, <2>4, <2>5 DEF c
<1> QED
  BY <1>2, <1>3 DEF Good

\* The steps of FromChain on a header with a new key.
OnNewKey(r, m) == DhRatchetStep(SkipMessageKeys(r, m.pn), m.dh)

LEMMA NewKeyDecrypt ==
    ASSUME NEW r, NEW m, Held(r, m) = {}, m.dh # r.dhr,
           SkipMessageKeys(OnNewKey(r, m), m.n).ckr # None
    PROVE  DecryptInner(r, m) =
              IF BeyondSkip(r, m.pn) THEN [mk |-> None, st |-> r]
              ELSE IF BeyondSkip(OnNewKey(r, m), m.n)
                   THEN [mk |-> None, st |-> OnNewKey(r, m)]
              ELSE [mk |-> SkipMessageKeys(OnNewKey(r, m), m.n).ckr,
                    st |-> Taken(SkipMessageKeys(OnNewKey(r, m), m.n))]
<1>1. Switched(r, m) = OnNewKey(r, m)
  BY DEF Switched, OnNewKey
<1>2. DecryptInner(r, m) = FromChain(r, m)
  BY DEF DecryptInner
<1> QED
  BY <1>1, <1>2, Zenon DEF FromChain, Taken

\* What the new chain is, whatever the key in the header.
LEMMA NewKeyChain ==
    ASSUME NEW p \in Party, NEW r, Good(p, r), NEW m,
           m.dh \in Key, m.n \in Nat, m.pn \in Counter
    PROVE  LET a == OnNewKey(r, m)
               b == SkipMessageKeys(a, m.n)
           IN  /\ a.nr = 0
               /\ b.ckr # None
               /\ b.ckr.root = Append(Root(Turn(r)), {r.dhs, m.dh})
<1> DEFINE c == SkipMessageKeys(r, m.pn)
           a == DhRatchetStep(c, m.dh)
           b == SkipMessageKeys(a, m.n)
           fresh == PublicKey(c.dhs.own, c.dhs.i + 1)
           rk1 == MixRoot(c.rk, c.dhs, m.dh)
           rk2 == MixRoot(rk1, fresh, m.dh)
<1>1. m.dh \in Key /\ m.n \in Nat /\ m.pn \in Counter
  OBVIOUS
<1>2. Good(p, c) /\ SameSender(r, c)
  BY <1>1, SkipOld
<1>3. /\ c \in RatchetState /\ c.dhs = r.dhs /\ r.dhs \in Key
      /\ c.rk = Root(Turn(r)) /\ Turn(r) \in Nat
  BY <1>2, GoodTypes DEF SameSender, Good
<1>4. rk1 = Append(Root(Turn(r)), {r.dhs, m.dh}) /\ rk1 \in Seq(SUBSET Key)
  BY <1>1, <1>3, RootType, AppendProperties DEF MixRoot
<1>5. a = [c EXCEPT !.pn = c.ns, !.ns = 0, !.nr = 0, !.dhr = m.dh, !.ckr = NewChain(rk1),
                    !.dhs = fresh, !.rk = rk2, !.cks = NewChain(rk2)]
  BY DEF DhRatchetStep
<1> HIDE DEF a, rk1, rk2, fresh, c
<1>6. a.nr = 0 /\ a.ckr = NewChain(rk1) /\ HasFields(a)
  BY <1>3, <1>5 DEF RatchetState, HasFields
<1>7. a.ckr \in ChainKey /\ a.ckr.root = rk1
  BY <1>4, <1>6 DEF NewChain, ChainKey
<1>8. a.ckr # None
  BY <1>7, NoneIsNoKey
<1>9. b.ckr = Advance(a.ckr, Top(a, m.n) - a.nr)
  BY <1>1, <1>6, <1>8, SkipChain
<1>10. Top(a, m.n) - a.nr \in Nat
  BY <1>1, <1>6 DEF Top
<1>11. b.ckr \in ChainKey /\ b.ckr.root = rk1
  BY <1>7, <1>9, <1>10, AdvanceType
<1>12. b.ckr # None
  BY <1>11, NoneIsNoKey
<1> QED
  BY <1>4, <1>6, <1>11, <1>12 DEF a, c, OnNewKey

\* A message under a new key opens only if its chain comes next, and then if both
\* ends of the gap are within the skip limit.
LEMMA NextTook ==
    ASSUME NEW p \in Party, NEW r, Good(p, r), NEW m, Incoming(p, m), Held(r, m) = {},
           m.dh # r.dhr
    PROVE  /\ Decrypt(r, m).ok => Chain(m.dh) = Turn(r) + 1
           /\ Decrypt(r, m).ok => Took(p, r, m, Decrypt(r, m).st)
           /\ Chain(m.dh) = Turn(r) + 1 /\ ~BeyondSkip(r, m.pn) /\ m.n <= MaxSkip
                 => Decrypt(r, m).ok
<1> DEFINE c == SkipMessageKeys(r, m.pn)
           a == OnNewKey(r, m)
           b == SkipMessageKeys(a, m.n)
           t == Taken(b)
<1>1. /\ m.dh \in Key /\ m.dh.own = Other(p) /\ Chain(m.dh) > 0 /\ m.n \in Nat
      /\ m.n < U32Max /\ m.mk = MessageKey(m.dh, m.n) /\ m.n \in Counter /\ U32Max \in Nat
      /\ m.pn \in Counter /\ MaxSkip \in Nat
  BY RatchetAssumption DEF Incoming, Counter
<1>2. /\ Good(p, c) /\ SameSender(r, c)
      /\ \A x \in Positions(c.skipped) : x \in Positions(r.skipped) \/ ~Passed(r, x)
      /\ Positions(r.skipped) \subseteq Positions(c.skipped) \cup c.evicted
      /\ r.evicted \subseteq c.evicted
      /\ \A x \in Place :
            /\ x.dh.own = Other(p) /\ Chain(x.dh) > 0
            /\ Chain(x.dh) = Turn(r) - 1 /\ ~Passed(r, x) /\ x.n < m.pn
            => x \in Positions(c.skipped) \cup c.evicted
  BY <1>1, SkipOld
<1>3. /\ r.nr \in Nat /\ Turn(r) \in Nat /\ r.dhs \in Key /\ r.dhs.own = p
      /\ Turn(r) = Chain(r.dhs)
  BY GoodTypes DEF Turn
<1>4. /\ a.nr = 0 /\ b.ckr # None
      /\ b.ckr.root = Append(Root(Turn(r)), {r.dhs, m.dh})
  BY <1>1, NewKeyChain
<1>5. a = DhRatchetStep(c, m.dh)
  BY DEF OnNewKey
<1>6. DecryptInner(r, m) =
         IF BeyondSkip(r, m.pn) THEN [mk |-> None, st |-> r]
         ELSE IF BeyondSkip(a, m.n) THEN [mk |-> None, st |-> a]
         ELSE [mk |-> b.ckr, st |-> t]
  BY <1>4, NewKeyDecrypt, Zenon
<1> HIDE DEF a, b, c, t
<1>7. BeyondSkip(r, m.pn) \in BOOLEAN /\ BeyondSkip(a, m.n) \in BOOLEAN
  BY DEF BeyondSkip
<1>8. Opens(r, m) <=> ~BeyondSkip(r, m.pn) /\ ~BeyondSkip(a, m.n) /\ b.ckr = m.mk
  BY <1>4, <1>6, <1>7 DEF Opens
<1>9. b.ckr = m.mk => Chain(m.dh) = Turn(r) + 1
  <2> HAVE b.ckr = m.mk
  <2>1. m.mk.root = Root(Chain(m.dh))
    BY <1>1, MessageKeyType
  <2>2. Append(Root(Turn(r)), {r.dhs, m.dh}) = Root(Chain(m.dh))
    BY <1>4, <2>1
  <2>3. Root(Turn(r)) \in Seq(SUBSET Key) /\ Len(Root(Turn(r))) = Turn(r)
    BY <1>3, RootType
  <2>4. Len(Append(Root(Turn(r)), {r.dhs, m.dh})) = Turn(r) + 1
    BY <1>1, <1>3, <2>3, AppendProperties
  <2>5. Len(Root(Chain(m.dh))) = Chain(m.dh)
    BY <1>1, ChainType, RootType
  <2> QED
    BY <2>2, <2>4, <2>5
<1>10. ASSUME Chain(m.dh) = Turn(r) + 1
       PROVE  /\ b.ckr = m.mk
              /\ ~BeyondSkip(a, m.n) <=> m.n <= MaxSkip
              /\ Took(p, r, m, t)
  <2>1. Turn(c) = Turn(r) /\ c.dhs = r.dhs /\ c.ns = r.ns
    BY <1>2 DEF SameSender, Turn
  <2>2. /\ Good(p, a) /\ Going(p, a)
        /\ a.dhs = PublicKey(p, r.dhs.i + 1) /\ a.dhr = m.dh
        /\ Turn(a) = Turn(r) + 2
        /\ a.nr = 0 /\ a.ns = 0 /\ a.pn = r.ns
        /\ a.skipped = c.skipped /\ a.evicted = c.evicted
    BY <1>1, <1>2, <1>5, <1>10, <2>1, StepGood
  <2>3. Top(a, m.n) = m.n
    BY <1>1, <2>2 DEF Top
  <2>4. /\ Good(p, b) /\ Going(p, b) /\ SameSender(a, b)
        /\ b.nr = m.n
        /\ \A x \in Positions(b.skipped) :
              x \in Positions(a.skipped) \cup NewPositions(a, m.n)
        /\ Positions(a.skipped) \cup NewPositions(a, m.n)
              \subseteq Positions(b.skipped) \cup b.evicted
        /\ a.evicted \subseteq b.evicted
    BY <1>1, <2>2, <2>3, SkipGood DEF b
  <2>5. b.ckr = m.mk
    BY <1>1, <2>2, <2>4 DEF Going, SameSender
  <2>6. ~BeyondSkip(a, m.n) <=> m.n <= MaxSkip
    BY <1>1, <2>2, RatchetAssumption DEF BeyondSkip
  <2>7. /\ Good(p, t) /\ Going(p, t) /\ SameSender(b, t)
        /\ t.nr = m.n + 1
        /\ t.skipped = b.skipped /\ t.evicted = b.evicted
    BY <1>1, <2>4, TakeGood DEF t
  <2>8. Turn(b) = Turn(r) + 2 /\ Turn(t) = Turn(r) + 2 /\ t.dhs = a.dhs
    BY <2>2, <2>4, <2>7 DEF Turn, SameSender
  <2>9. ~Passed(r, Position(m)) /\ Passed(t, Position(m)) /\ ~Passed(b, Position(m))
    BY <1>1, <1>3, <1>10, <2>4, <2>7, <2>8, PositionFields DEF Passed
  <2>10. Position(m) \notin Positions(t.skipped)
    BY <2>4, <2>7, <2>9, StorePositions
  <2>11. \A x \in Positions(t.skipped) : x \in Positions(r.skipped) \/ ~Passed(r, x)
    <3>1. ASSUME NEW x \in NewPositions(a, m.n) PROVE ~Passed(r, x)
      <4>1. x.dh = m.dh
        BY <1>1, <2>2, NewPositionsType
      <4> QED
        BY <1>3, <1>10, <4>1 DEF Passed
    <3> QED
      BY <1>2, <2>2, <2>4, <2>7, <3>1
  <2>12. Positions(c.skipped) \cup c.evicted \subseteq Positions(t.skipped) \cup t.evicted
    BY <2>2, <2>4, <2>7
  <2>13. ASSUME NEW x \in Place, x.dh.own = Other(p), Chain(x.dh) > 0, x # Position(m),
                Passed(t, x), ~Passed(r, x), x.dh = r.dhr => x.n < m.pn
         PROVE  x \in Positions(t.skipped) \cup t.evicted
    <3>1. x = [dh |-> x.dh, n |-> x.n] /\ x.dh \in Key /\ x.n \in Nat /\ Chain(x.dh) \in Nat
      BY PlaceOf, ChainType
    <3>2. Chain(x.dh) # Turn(r)
      BY <1>3, <2>13, <3>1, OtherChain
    <3>3. CASE Chain(x.dh) < Turn(r) + 1
      <4>1. Chain(x.dh) = Turn(r) - 1
        BY <1>3, <2>13, <3>1, <3>2, <3>3 DEF Passed
      <4>2. x.dh = r.dhr
        <5>1. CASE Fresh(p, r)
          <6>1. Turn(r) <= 1
            BY <1>3, <5>1 DEF Fresh, Turn, Chain, Key
          <6> QED
            BY <1>3, <2>13, <3>1, <4>1, <6>1
        <5>2. CASE Going(p, r)
          BY <3>1, <4>1, <5>2, ChainInjective DEF Going
        <5> QED
          BY <5>1, <5>2 DEF Good
      <4> QED
        BY <1>2, <2>12, <2>13, <4>1, <4>2
    <3>4. CASE Chain(x.dh) >= Turn(r) + 1
      <4>1. Chain(x.dh) = Chain(m.dh) /\ x.n <= m.n
        BY <1>1, <1>3, <1>10, <2>7, <2>8, <2>13, <3>1, <3>4 DEF Passed
      <4>2. x.dh = m.dh
        BY <1>1, <3>1, <4>1, ChainInjective
      <4>3. x.n # m.n
        BY <2>13, <3>1, <4>2 DEF Position
      <4>4. x.n \in a.nr .. m.n - 1
        BY <1>1, <2>2, <3>1, <4>1, <4>3
      <4>5. x \in NewPositions(a, m.n)
        BY <2>2, <3>1, <4>2, <4>4 DEF NewPositions
      <4> QED
        BY <2>4, <2>7, <4>5
    <3> QED
      BY <1>3, <3>1, <3>3, <3>4
  <2>14. NextTurn(p, r, m, t)
    BY <1>10, <2>2, <2>4, <2>7, <2>8 DEF NextTurn, SameSender
  <2>15. Turn(t) # Turn(r)
    BY <1>3, <2>8
  <2>16. r.evicted \subseteq t.evicted
    BY <1>2, <2>2, <2>4, <2>7
  <2>17. (Positions(r.skipped) \cup r.evicted) \ {Position(m)}
            \subseteq Positions(t.skipped) \cup t.evicted
    BY <1>2, <2>12
  <2>18. Took(p, r, m, t)
    BY <2>7, <2>9, <2>10, <2>11, <2>13, <2>14, <2>15, <2>16, <2>17 DEF Took
  <2> QED
    BY <2>5, <2>6, <2>18
<1>11. Opens(r, m) => Decrypt(r, m).st = t
  <2>1. Opens(r, m) => DecryptInner(r, m).st = t
    BY <1>6, <1>7, <1>8
  <2> QED
    BY <2>1, DecryptIs
<1> QED
  BY <1>8, <1>9, <1>10, <1>11, DecryptIs

\* decrypt of a message of the other end takes it or changes nothing.
LEMMA DecryptTook ==
    ASSUME NEW p \in Party, NEW r, Good(p, r), NEW m, Incoming(p, m)
    PROVE  /\ Decrypt(r, m).ok => Took(p, r, m, Decrypt(r, m).st)
           /\ ~Decrypt(r, m).ok => Decrypt(r, m).st = r
<1>1. Decrypt(r, m).ok => Took(p, r, m, Decrypt(r, m).st)
  BY HeldTook, ChainTook, NextTook
<1> QED
  BY <1>1, DecryptIs

-----------------------------------------------------------------------------
(* encrypt and the checkpoint.                                             *)

LEMMA EncryptGood ==
    ASSUME NEW p \in Party, NEW r, Good(p, r), r.cks # None, r.ns < U32Max
    PROVE  LET t == Encrypted(r)
           IN  /\ Good(p, t)
               /\ Turn(r) > 0 /\ r.cks = MessageKey(r.dhs, r.ns)
               /\ t.ns = r.ns + 1 /\ t.dhs = r.dhs /\ t.dhr = r.dhr /\ t.nr = r.nr /\ t.pn = r.pn
               /\ t.skipped = r.skipped /\ t.evicted = r.evicted
<1> DEFINE t == Encrypted(r)
           k == Advance(r.cks, 1)
           n == (r.ns + 1) % (U32Max + 1)
<1>1. /\ r \in RatchetState /\ r.ns \in Nat /\ Turn(r) \in Nat /\ Distinct(r.skipped)
      /\ U32Max \in Nat /\ r.dhs \in Key /\ r.dhs.own = p
  BY GoodTypes, RatchetAssumption
<1>2. Turn(r) > 0
  <2> SUFFICES ASSUME Turn(r) = 0 PROVE FALSE
    BY <1>1
  <2>1. r.dhs.i = 0 /\ p = "bob"
    BY <1>1 DEF Turn, Chain, Key, Party
  <2> QED
    BY <2>1 DEF Good, Fresh, Going
<1>3. r.cks = MessageKey(r.dhs, r.ns)
  BY <1>2 DEF Good
<1>4. n = r.ns + 1 /\ n \in Counter /\ n \in Nat
  BY <1>1, ModSmall DEF Counter
<1>5. k = MessageKey(r.dhs, n) /\ k \in ChainKey
  <2>1. Advance(MessageKey(r.dhs, r.ns), 1) = MessageKey(r.dhs, r.ns + 1)
    BY <1>1, AdvanceMessageKey
  <2> QED
    BY <1>1, <1>3, <1>4, <2>1, MessageKeyType
<1>6. t = [r EXCEPT !.cks = k, !.ns = n]
  BY DEF Encrypted
<1> HIDE DEF t, k, n
<1>7. /\ t \in RatchetState /\ t.ns = n /\ t.cks = k /\ t.dhs = r.dhs /\ t.dhr = r.dhr
      /\ t.nr = r.nr /\ t.pn = r.pn /\ t.ckr = r.ckr /\ t.rk = r.rk
      /\ t.skipped = r.skipped /\ t.evicted = r.evicted
  BY <1>1, <1>4, <1>5, <1>6 DEF RatchetState
<1>8. Turn(t) = Turn(r) /\ \A e : Passed(t, e) <=> Passed(r, e)
  BY <1>7 DEF Turn, Passed
<1>9. Going(p, r) => Going(p, t)
  BY <1>7, <1>8 DEF Going
<1>10. Fresh(p, r) => Fresh(p, t)
  <2>1. Fresh(p, r) => p # "bob"
    BY DEF Fresh
  <2> QED
    BY <1>7, <2>1 DEF Fresh
<1>11. Store(p, t)
  BY <1>7, <1>8 DEF Good, Store
<1>12. Good(p, t)
  BY <1>1, <1>4, <1>5, <1>7, <1>8, <1>9, <1>10, <1>11 DEF Good
<1> QED
  BY <1>2, <1>3, <1>4, <1>7, <1>12 DEF t

\* What was written and read back is the same ratchet.
LEMMA ReloadedSame ==
    ASSUME NEW r \in RatchetState
    PROVE  Reloaded(r) = r
<1> DEFINE c == ToCheckpoint(r)
<1>1. /\ c.flags = Present(r) /\ c.dhs = r.dhs /\ c.rk = r.rk
      /\ c.ns = r.ns /\ c.nr = r.nr /\ c.pn = r.pn /\ c.entries = r.skipped
      /\ c["dhr"] = OrZeros(r.dhr) /\ c["cks"] = OrZeros(r.cks) /\ c["ckr"] = OrZeros(r.ckr)
  BY DEF ToCheckpoint
<1>2. /\ "dhr" \in Present(r) <=> r.dhr # None
      /\ "cks" \in Present(r) <=> r.cks # None
      /\ "ckr" \in Present(r) <=> r.ckr # None
  BY DEF Present, Optional
<1> HIDE DEF c
<1>3. /\ r.dhr = IF "dhr" \in c.flags THEN c["dhr"] ELSE None
      /\ r.cks = IF "cks" \in c.flags THEN c["cks"] ELSE None
      /\ r.ckr = IF "ckr" \in c.flags THEN c["ckr"] ELSE None
  BY <1>1, <1>2 DEF OrZeros
<1>4. FromCheckpoint(c) =
         [dhs |-> r.dhs, dhr |-> r.dhr, rk |-> r.rk, cks |-> r.cks, ckr |-> r.ckr,
          ns |-> r.ns, nr |-> r.nr, pn |-> r.pn, skipped |-> r.skipped, evicted |-> {}]
  BY <1>1, <1>3, Zenon DEF FromCheckpoint
<1>5. Reloaded(r) =
         [dhs |-> r.dhs, dhr |-> r.dhr, rk |-> r.rk, cks |-> r.cks, ckr |-> r.ckr,
          ns |-> r.ns, nr |-> r.nr, pn |-> r.pn, skipped |-> r.skipped,
          evicted |-> r.evicted]
  BY <1>4 DEF Reloaded, c
<1>6. r = [dhs |-> r.dhs, dhr |-> r.dhr, rk |-> r.rk, cks |-> r.cks, ckr |-> r.ckr,
           ns |-> r.ns, nr |-> r.nr, pn |-> r.pn, skipped |-> r.skipped,
           evicted |-> r.evicted]
  BY DEF RatchetState
<1> QED
  BY <1>5, <1>6

\* The positions of a store without repetitions are as many as its entries.
LEMMA PositionsCount ==
    ASSUME NEW s \in Seq(Skipped), Distinct(s)
    PROVE  Cardinality(Positions(s)) = Len(s)
<1> DEFINE f == [j \in 1..Len(s) |-> Position(s[j])]
<1>1. Len(s) \in Nat /\ DOMAIN s = 1..Len(s)
  BY LenProperties
<1>2. f \in [1..Len(s) -> Positions(s)]
  BY <1>1 DEF Positions
<1>3. f \in Injection(1..Len(s), Positions(s))
  BY <1>1, <1>2 DEF Distinct, Injection, IsInjective
<1>4. f \in Surjection(1..Len(s), Positions(s))
  BY <1>1, <1>2 DEF Positions, Surjection
<1>5. ExistsBijection(1..Len(s), Positions(s))
  BY <1>3, <1>4 DEF ExistsBijection, Bijection
<1>6. IsFiniteSet(1..Len(s)) /\ Cardinality(1..Len(s)) = Len(s)
  BY <1>1, FS_Interval
<1> QED
  BY <1>5, <1>6, FS_Bijection

\* A good ratchet with a receiving chain whose counters are not exhausted is
\* accepted when it is written and when it is read.
LEMMA GoodCheckpoint ==
    ASSUME NEW p \in Party, NEW r, Good(p, r), Going(p, r), ~Exhausted(r)
    PROVE  Readable(ToCheckpoint(r)) /\ Reloaded(r) = r
<1> DEFINE c == ToCheckpoint(r)
<1>1. /\ r \in RatchetState /\ r.skipped \in Seq(Skipped) /\ Distinct(r.skipped)
      /\ r.dhs \in Key /\ r.ns \in Nat /\ r.nr \in Nat /\ Turn(r) \in Nat
      /\ Len(r.skipped) \in Nat
  BY GoodTypes
<1>2. r.dhr # None /\ r.ckr # None /\ r.cks # None
  <2>1. r.dhr \in Key /\ r.ckr = MessageKey(r.dhr, r.nr) /\ Turn(r) > 0
    BY <1>1, ChainType DEF Going
  <2>2. r.cks = MessageKey(r.dhs, r.ns)
    BY <2>1 DEF Good
  <2> QED
    BY <1>1, <2>1, <2>2, MessageKeyType, NoneIsNoKey
<1>3. Present(r) = Optional
  BY <1>2 DEF Present, Optional
<1>4. /\ c.flags = Optional /\ c.max = MaxSkipped /\ c.count = Len(r.skipped)
      /\ c.entries = r.skipped /\ c.ns = r.ns /\ c.nr = r.nr /\ c.pn = r.pn
  BY <1>3 DEF ToCheckpoint
<1> HIDE DEF c
<1>5. Structure(c.flags, c, c.count)
  BY <1>4 DEF Structure, Optional, Good, Store
<1>6. ~Exhausted(c)
  BY <1>4 DEF Exhausted
<1>7. Cardinality(Positions(c.entries)) = c.count
  BY <1>1, <1>4, PositionsCount
<1>8. Readable(c)
  BY <1>4, <1>5, <1>6, <1>7 DEF Readable, CheckState
<1> QED
  BY <1>1, <1>8, ReloadedSame DEF c

-----------------------------------------------------------------------------
(* The invariant is kept.                                                  *)

LEMMA OtherFacts ==
    ASSUME NEW p \in Party
    PROVE  /\ Other(p) \in Party /\ Other(p) # p /\ Other(Other(p)) = p
           /\ \A q \in Party : q = p \/ q = Other(p)
           /\ \A q \in Party : Other(q) = Other(p) => q = p
BY DEF Party, Other

\* The keys of one end are in the order of their chains.
LEMMA ChainOrder ==
    ASSUME NEW k \in Key, NEW l \in Key, k.own = l.own
    PROVE  /\ k.i <= l.i <=> Chain(k) <= Chain(l)
           /\ k.i < l.i <=> Chain(k) < Chain(l)
           /\ k.i = l.i <=> k = l
<1>1. k.i \in Nat /\ l.i \in Nat
  BY DEF Key
<1>2. k.i = l.i => k = l
  BY DEF Key
<1> QED
  BY <1>1, <1>2 DEF Chain

LEMMA SentMessage ==
    ASSUME NEW s, NEW ms, Messages(s, ms), NEW m \in ms
    PROVE  /\ Genuine(s, m) /\ m.to \in Party /\ Incoming(m.to, m)
           /\ m.dh \in Key /\ m.n \in Nat /\ m.pn \in Nat
           /\ Position(m) \in Place
<1>1. Genuine(s, m)
  BY DEF Messages
<1>2. m.to \in Party /\ m.dh \in Key /\ m.n \in Nat /\ m.pn \in Nat /\ m.pn \in Counter
  BY <1>1, RatchetAssumption DEF Genuine, MessageType, Counter
<1> QED
  BY <1>1, <1>2 DEF Genuine, Incoming, Position, Place

LEMMA KeptNew ==
    ASSUME NEW r, NEW new \in RatchetState, NEW ok \in BOOLEAN, staged \in BOOLEAN
    PROVE  /\ ok /\ (staged => Storable(new)) => Kept(r, ok, new) = new
           /\ staged /\ ~(ok /\ Storable(new)) => Kept(r, ok, new) = r
BY ReloadedSame DEF Kept

LEMMA EndFacts ==
    ASSUME NEW s, Ends(s), NEW p \in Party
    PROVE  /\ Good(p, s[p]) /\ s[p] \in RatchetState
           /\ Turn(s[p]) \in Nat /\ s[p].dhs \in Key /\ s[p].dhs.own = p
           /\ s[p].ns \in Nat /\ s[p].nr \in Nat /\ s[p].pn \in Nat /\ s[p].dhs.i \in Nat
           /\ \/ Turn(s[Other(p)]) = Turn(s[p]) + 1
              \/ /\ Turn(s[Other(p)]) = Turn(s[p]) - 1
                 /\ s[p].nr <= s[Other(p)].ns
BY GoodTypes DEF Ends

LEMMA InitInv == Init => Inv
<1> SUFFICES ASSUME Init PROVE Inv
  OBVIOUS
<1> USE DEF Init
<1>1. /\ MaxSkipped \in Nat /\ 0 \in Counter /\ U32Max \in Nat
      /\ "alice" \in Party /\ "bob" \in Party
  BY RatchetAssumption DEF Counter, Party
<1> DEFINE a == PublicKey("alice", 0)
           b == PublicKey("bob", 0)
<1>2. /\ a \in Key /\ b \in Key /\ a.own = "alice" /\ b.own = "bob" /\ a.i = 0 /\ b.i = 0
      /\ Chain(a) = 1 /\ Chain(b) = 0
  BY <1>1 DEF PublicKey, Key, Chain
<1>3. Root(0) = << >>
  <2>1. Root(0) \in Seq(SUBSET Key) /\ Len(Root(0)) = 0
    BY RootType
  <2> QED
    BY <2>1, EmptySeq
<1>4. MixRoot(<< >>, a, b) = Root(1)
  <2>1. MixRoot(Root(Chain(b)), a, b) = Root(Chain(a))
    BY <1>2, NextRoot
  <2> QED
    BY <1>2, <1>3, <2>1
<1>5. Root(1) \in Seq(SUBSET Key) /\ Root(0) \in Seq(SUBSET Key)
  BY RootType
<1>6. NewChain(Root(1)) = MessageKey(a, 0) /\ NewChain(Root(1)) \in ChainKey
  BY <1>2, MessageKeyType DEF NewChain, MessageKey
<1>7. InitAlice =
         [dhs |-> a, dhr |-> b, rk |-> Root(1), cks |-> NewChain(Root(1)), ckr |-> None,
          ns |-> 0, nr |-> 0, pn |-> 0, skipped |-> << >>, evicted |-> {}]
  BY <1>4, Zenon DEF InitAlice
<1>8. InitBob =
         [dhs |-> b, dhr |-> None, rk |-> << >>, cks |-> None, ckr |-> None,
          ns |-> 0, nr |-> 0, pn |-> 0, skipped |-> << >>, evicted |-> {}]
  BY DEF InitBob
<1> HIDE DEF a, b
<1>9. << >> \in Seq(Skipped) /\ Len(<< >>) = 0
  BY EmptySeq
<1>10. InitAlice \in RatchetState /\ InitBob \in RatchetState
  BY <1>1, <1>2, <1>3, <1>5, <1>6, <1>7, <1>8, <1>9 DEF RatchetState
<1>11. st["alice"] = InitAlice /\ st["bob"] = InitBob
  BY <1>1
<1>12. Turn(InitAlice) = 1 /\ Turn(InitBob) = 0
  BY <1>2, <1>7, <1>8 DEF Turn
<1>13. Good("alice", InitAlice)
  <2>1. Fresh("alice", InitAlice)
    BY <1>2, <1>7 DEF Fresh, b
  <2>2. Store("alice", InitAlice)
    BY <1>1, <1>7, <1>9 DEF Store
  <2> QED
    BY <1>2, <1>6, <1>7, <1>10, <1>12, <2>1, <2>2 DEF Good
<1>14. Good("bob", InitBob)
  <2>1. Fresh("bob", InitBob)
    BY <1>2, <1>8 DEF Fresh
  <2>2. Store("bob", InitBob)
    BY <1>1, <1>8, <1>9 DEF Store
  <2> QED
    BY <1>2, <1>3, <1>8, <1>10, <1>12, <2>1, <2>2 DEF Good
<1>15. /\ InitAlice.ns = 0 /\ InitAlice.nr = 0 /\ InitAlice.pn = 0 /\ InitAlice.dhs.i = 0
       /\ InitBob.ns = 0 /\ InitBob.nr = 0 /\ InitBob.pn = 0 /\ InitBob.dhs.i = 0
  BY <1>2, <1>7, <1>8
<1>16. /\ st \in [Party -> RatchetState] /\ Other("alice") = "bob" /\ Other("bob") = "alice"
       /\ Party = {"alice", "bob"}
  BY <1>10 DEF Other, Party
<1>17. Ends(st)
  BY <1>11, <1>12, <1>13, <1>14, <1>15, <1>16 DEF Ends
<1>18. \A p \in Party : st[p].ns = 0 /\ st[p].nr = 0 /\ st[p].pn = 0 /\ st[p].dhs.i = 0
  BY <1>11, <1>15, <1>16
<1>19. Messages(st, net)
  BY FS_EmptySet DEF Messages
<1>20. Chains(st, net)
  <2>1. \A p \in Party : Cardinality(Outgoing(net, p)) = 0
    BY FS_EmptySet DEF Outgoing
  <2> QED
    BY <1>18, <2>1 DEF Chains, Previous
<1>21. Accounted(st, net, got)
  BY <1>18 DEF Accounted
<1>22. \A p \in Party : Resumable(st[p])
  BY <1>18, RatchetAssumption DEF Resumable, MaxResumableNr
<1> QED
  BY <1>17, <1>19, <1>20, <1>21, <1>22 DEF Inv, Consistent

\* A counter that is about to be used does not wrap.
LEMMA RoomToSend ==
    ASSUME Inv, Fits, NEW p \in Party, Encrypt(p)
    PROVE  st[p].ns < U32Max
<1>1. CASE staged
  BY <1>1 DEF Inv, Resumable
<1>2. CASE ~staged
  <2>1. IsFiniteSet(Outgoing(net, p))
    BY FS_Subset DEF Outgoing, Inv, Consistent, Messages
  <2>2. Cardinality(Outgoing(net, p)) \in Nat
    BY <2>1, FS_CardinalityType
  <2>3. Cardinality(Outgoing(net, p)) < U32Max
    BY <1>2, <2>2, RatchetAssumption DEF Encrypt, Outgoing, Fits
  <2>4. st[p].ns <= Cardinality(Outgoing(net, p)) /\ st[p].ns \in Nat
    BY EndFacts DEF Inv, Consistent, Chains
  <2> QED
    BY <2>2, <2>3, <2>4, RatchetAssumption
<1> QED
  BY <1>1, <1>2

\* A message is sent: the sender's chain goes one further, and the receiver has
\* not passed it.
LEMMA EncryptKeeps ==
    ASSUME NEW s, NEW ms, NEW g, Consistent(s, ms, g), NEW p \in Party,
           s[p].cks # None, s[p].ns < U32Max
    PROVE  Consistent([s EXCEPT ![p] = Encrypted(s[p])], ms \cup {Message(p, s[p])}, g)
<1> DEFINE r == s[p]
           t == Encrypted(r)
           q == Other(p)
           M == Message(p, r)
           s2 == [s EXCEPT ![p] = t]
           ms2 == ms \cup {M}
<1>1. /\ Ends(s) /\ Messages(s, ms) /\ Chains(s, ms) /\ Accounted(s, ms, g)
      /\ s \in [Party -> RatchetState]
  BY DEF Consistent, Ends
<1>2. /\ q \in Party /\ q # p /\ Other(q) = p
      /\ \A x \in Party : x = p \/ x = q
      /\ \A x \in Party : Other(x) = q => x = p
  BY OtherFacts
<1>3. /\ Good(p, r) /\ Turn(r) \in Nat /\ r.dhs \in Key /\ r.dhs.own = p
      /\ r.ns \in Nat /\ r.nr \in Nat /\ r.pn \in Nat /\ r.dhs.i \in Nat
      /\ r.pn \in Counter /\ U32Max \in Nat
  BY <1>1, EndFacts, RatchetAssumption DEF RatchetState
<1>5. /\ Good(p, t) /\ Turn(r) > 0 /\ r.cks = MessageKey(r.dhs, r.ns)
      /\ t.ns = r.ns + 1 /\ t.dhs = r.dhs /\ t.dhr = r.dhr /\ t.nr = r.nr /\ t.pn = r.pn
      /\ t.skipped = r.skipped /\ t.evicted = r.evicted /\ t \in RatchetState
  BY <1>3, EncryptGood, GoodTypes
<1> HIDE DEF t
<1>7. s2[p] = t /\ s2[q] = s[q] /\ s2 \in [Party -> RatchetState]
  BY <1>1, <1>2, <1>5
<1> HIDE DEF s2
<1>8. /\ Turn(s2[p]) = Turn(r) /\ Turn(s2[q]) = Turn(s[q])
      /\ \A x : Passed(s2[p], x) <=> Passed(r, x)
      /\ \A x : Passed(s2[q], x) <=> Passed(s[q], x)
  BY <1>5, <1>7 DEF Turn, Passed
<1>9. /\ M.to = q /\ M.dh = r.dhs /\ M.n = r.ns /\ M.pn = r.pn
      /\ M.mk = MessageKey(r.dhs, r.ns) /\ M \in MessageType
  BY <1>2, <1>3, <1>5, MessageKeyType DEF Message, MessageType, Counter
<1> HIDE DEF M
<1>10. \A m \in ms : m.dh = r.dhs => m.n < r.ns
  <2> TAKE m \in ms
  <2> HAVE m.dh = r.dhs
  <2>1. Genuine(s, m) /\ m.to \in Party
    BY <1>1, SentMessage
  <2>2. Other(m.to) = p
    BY <1>3, <2>1 DEF Genuine
  <2> QED
    BY <2>1, <2>2 DEF Genuine
<1>11. M \notin ms
  BY <1>3, <1>9, <1>10
<1>12. \A m \in ms : Position(m) # Position(M)
  <2> SUFFICES ASSUME NEW m \in ms, Position(m) = Position(M) PROVE FALSE
    OBVIOUS
  <2>1. m.dh = r.dhs /\ m.n = r.ns
    BY <1>9, PositionFields
  <2> QED
    BY <1>3, <1>10, <2>1
<1>13. Ends(s2)
  <2>1. /\ Good(p, s2[p]) /\ Good(q, s2[q])
    BY <1>1, <1>2, <1>5, <1>7, EndFacts
  <2>2. \/ Turn(s2[q]) = Turn(s2[p]) + 1
        \/ Turn(s2[q]) = Turn(s2[p]) - 1 /\ s2[p].nr <= s2[q].ns
    BY <1>1, <1>5, <1>7, <1>8, EndFacts
  <2>3. \/ Turn(s2[p]) = Turn(s2[q]) + 1
        \/ Turn(s2[p]) = Turn(s2[q]) - 1 /\ s2[q].nr <= s2[p].ns
    <3>1. /\ \/ Turn(s[p]) = Turn(s[q]) + 1
             \/ Turn(s[p]) = Turn(s[q]) - 1 /\ s[q].nr <= s[p].ns
          /\ s[q].nr \in Nat
      BY <1>1, <1>2, EndFacts
    <3> QED
      BY <1>3, <1>5, <1>7, <1>8, <3>1
  <2> QED
    BY <1>2, <1>7, <2>1, <2>2, <2>3 DEF Ends
<1>14. Messages(s2, ms2)
  <2>1. IsFiniteSet(ms2)
    BY <1>1, FS_AddElement DEF Messages
  <2>2. ASSUME NEW m \in ms2 PROVE Genuine(s2, m)
    <3>1. CASE m = M
      BY <1>2, <1>3, <1>5, <1>7, <1>9, <3>1 DEF Genuine, Turn
    <3>2. CASE m \in ms
      <4>1. Genuine(s, m) /\ m.to \in Party /\ m.n \in Nat
        BY <1>1, <3>2, SentMessage
      <4>2. CASE m.to = q
        <5>1. s2[Other(m.to)].dhs = r.dhs /\ s2[Other(m.to)].ns = r.ns + 1
          BY <1>2, <1>5, <1>7, <4>2
        <5>2. m.dh = r.dhs => m.n < r.ns + 1
          BY <1>3, <1>10, <3>2, <4>1
        <5> QED
          BY <1>2, <4>1, <4>2, <5>1, <5>2 DEF Genuine
      <4>3. CASE m.to = p
        BY <1>2, <1>7, <4>1, <4>3 DEF Genuine
      <4> QED
        BY <1>2, <4>1, <4>2, <4>3
    <3> QED
      BY <3>1, <3>2
  <2>3. \A m1, m2 \in ms2 : Position(m1) = Position(m2) => m1 = m2
    BY <1>1, <1>12 DEF Messages
  <2> QED
    BY <2>1, <2>2, <2>3 DEF Messages
<1>15. \A key, n : Sent(ms, key, n) => Sent(ms2, key, n)
  BY DEF Sent
<1>16. \A key, n : key # r.dhs => (Sent(ms2, key, n) <=> Sent(ms, key, n))
  BY <1>9 DEF Sent
<1>17. \A key, pn : PublicKey(key.own, key.i - 1) # r.dhs /\ Previous(ms, key, pn)
                       => Previous(ms2, key, pn)
  BY <1>16 DEF Previous
<1> HIDE DEF ms2
<1>18. ASSUME NEW key \in Key, key.own \in Party, key.i <= s[key.own].dhs.i
       PROVE  PublicKey(key.own, key.i - 1) # r.dhs
  <2>1. key.i \in Nat
    BY DEF Key
  <2> QED
    BY <1>3, <1>18, <2>1 DEF PublicKey
<1>19. \A x \in Party : s[x].dhs \in Key /\ s[x].dhs.own = x /\ s[x].dhs.i \in Nat
  BY <1>1, EndFacts
<1>20. Chains(s2, ms2)
  <2>1. ASSUME NEW m \in ms2, NEW n \in 0 .. m.n - 1 PROVE Sent(ms2, m.dh, n)
    <3>1. CASE m = M
      <4>1. n \in 0 .. r.ns - 1
        BY <1>9, <2>1, <3>1
      <4>2. Sent(ms, r.dhs, n)
        BY <1>1, <4>1 DEF Chains
      <4> QED
        BY <1>9, <1>15, <3>1, <4>2
    <3>2. CASE m \in ms
      BY <1>1, <1>15, <3>2 DEF Chains
    <3> QED
      BY <3>1, <3>2 DEF ms2
  <2>2. \A x \in Party : Previous(ms2, s[x].dhs, s[x].pn)
    <3> TAKE x \in Party
    <3>1. Previous(ms, s[x].dhs, s[x].pn)
      BY <1>1 DEF Chains
    <3>2. PublicKey(s[x].dhs.own, s[x].dhs.i - 1) # r.dhs
      BY <1>18, <1>19
    <3> QED
      BY <1>17, <3>1, <3>2
  <2>3. ASSUME NEW m \in ms2 PROVE Previous(ms2, m.dh, m.pn)
    <3>1. CASE m = M
      BY <1>9, <2>2, <3>1
    <3>2. CASE m \in ms
      <4>1. Genuine(s, m) /\ m.to \in Party /\ m.dh \in Key
        BY <1>1, <3>2, SentMessage
      <4>2. m.dh.own \in Party /\ m.dh.i <= s[m.dh.own].dhs.i
        BY <4>1, OtherFacts DEF Genuine
      <4>3. PublicKey(m.dh.own, m.dh.i - 1) # r.dhs
        BY <1>18, <4>1, <4>2
      <4>4. Previous(ms, m.dh, m.pn)
        BY <1>1, <3>2 DEF Chains
      <4> QED
        BY <1>17, <4>3, <4>4
    <3> QED
      BY <3>1, <3>2 DEF ms2
  <2>4. \A n \in 0 .. s2[p].ns - 1 : Sent(ms2, s2[p].dhs, n)
    <3> SUFFICES ASSUME NEW n \in 0..r.ns PROVE Sent(ms2, r.dhs, n)
      BY <1>3, <1>5, <1>7
    <3>1. CASE n = r.ns
      BY <1>9, <3>1 DEF Sent, ms2
    <3>2. CASE n # r.ns
      <4>1. n \in 0 .. r.ns - 1
        BY <1>3, <3>2
      <4> QED
        BY <1>1, <1>15, <4>1 DEF Chains
    <3> QED
      BY <3>1, <3>2
  <2>5. \A n \in 0 .. s2[q].ns - 1 : Sent(ms2, s2[q].dhs, n)
    BY <1>1, <1>2, <1>7, <1>15 DEF Chains
  <2>6. s2[p].ns <= Cardinality(Outgoing(ms2, p))
    <3>1. Outgoing(ms2, p) = Outgoing(ms, p) \cup {M} /\ M \notin Outgoing(ms, p)
      BY <1>9, <1>11 DEF Outgoing, ms2
    <3>2. IsFiniteSet(Outgoing(ms, p))
      BY <1>1, FS_Subset DEF Outgoing, Messages
    <3>3. Cardinality(Outgoing(ms2, p)) = Cardinality(Outgoing(ms, p)) + 1
      BY <3>1, <3>2, FS_AddElement
    <3>4. r.ns <= Cardinality(Outgoing(ms, p)) /\ Cardinality(Outgoing(ms, p)) \in Nat
      BY <1>1, <3>2, FS_CardinalityType DEF Chains
    <3> QED
      BY <1>3, <1>5, <1>7, <3>3, <3>4
  <2>7. s2[q].ns <= Cardinality(Outgoing(ms2, q))
    <3>1. Outgoing(ms2, q) = Outgoing(ms, q)
      BY <1>2, <1>9 DEF Outgoing, ms2
    <3> QED
      BY <1>1, <1>2, <1>7, <3>1 DEF Chains
  <2>8. \A x \in Party : Previous(ms2, s2[x].dhs, s2[x].pn)
    BY <1>2, <1>5, <1>7, <2>2
  <2> QED
    BY <1>2, <2>1, <2>3, <2>4, <2>5, <2>6, <2>7, <2>8 DEF Chains
<1>21. ~Passed(s2[q], Position(M))
  <2>1. /\ \/ Turn(s[p]) = Turn(s[q]) + 1
           \/ Turn(s[p]) = Turn(s[q]) - 1 /\ s[q].nr <= s[p].ns
        /\ s[q].nr \in Nat /\ Turn(s[q]) \in Nat
    BY <1>1, <1>2, EndFacts
  <2>2. Chain(Position(M).dh) = Turn(r) /\ Position(M).n = r.ns
    BY <1>9, PositionFields DEF Turn
  <2> QED
    BY <1>3, <1>7, <2>1, <2>2 DEF Passed
<1>22. Accounted(s2, ms2, g)
  <2>1. g \in [Party -> SUBSET ms2]
    BY <1>1 DEF Accounted, ms2
  <2>2. \A x \in Party :
           /\ s2[x].skipped = s[x].skipped /\ s2[x].evicted = s[x].evicted
           /\ s2[x].dhs = s[x].dhs
           /\ \A y : Passed(s2[x], y) <=> Passed(s[x], y)
    BY <1>2, <1>5, <1>7, <1>8
  <2>3. \A x \in Party : \A m \in g[x] :
                                     m.to = x /\ Passed(s2[x], Position(m))
                                     /\ Position(m) \notin Positions(s2[x].skipped)
    BY <1>1, <2>2 DEF Accounted
  <2>4. ASSUME NEW x \in Party, NEW m \in ms2, m.to = x, Passed(s2[x], Position(m))
        PROVE  m \in g[x] \/ Position(m) \in Positions(s2[x].skipped) \cup s2[x].evicted
    <3>1. m # M
      BY <1>9, <1>21, <2>4
    <3>2. m \in ms
      BY <3>1 DEF ms2
    <3> QED
      BY <1>1, <2>2, <2>4, <3>2 DEF Accounted
  <2>5. \A x \in Party : g[x] = {} <=> s2[x].dhs.i = 0
    BY <1>1, <2>2 DEF Accounted
  <2> QED
    BY <2>1, <2>3, <2>4, <2>5 DEF Accounted
<1> QED
  BY <1>13, <1>14, <1>20, <1>22 DEF Consistent, ms2, s2, t, M

\* No chain is used past the sender's counter.
LEMMA OwnSent ==
    ASSUME NEW s, NEW ms, Ends(s), Messages(s, ms), NEW p \in Party, NEW m \in ms,
           m.dh = s[p].dhs
    PROVE  m.n < s[p].ns
<1>1. Genuine(s, m) /\ m.to \in Party
  BY SentMessage
<1>2. Other(m.to) = p
  BY <1>1, EndFacts DEF Genuine
<1> QED
  BY <1>1, <1>2 DEF Genuine

\* The chain of a message is not after the one its sender is in.
LEMMA SenderChain ==
    ASSUME NEW s, NEW ms, Ends(s), Messages(s, ms), NEW m \in ms
    PROVE  /\ m.dh.own = Other(m.to) /\ Chain(m.dh) \in Nat
           /\ Chain(m.dh) <= Turn(s[Other(m.to)])
           /\ Chain(m.dh) = Turn(s[Other(m.to)]) =>
                 m.dh = s[Other(m.to)].dhs /\ m.n < s[Other(m.to)].ns
<1> DEFINE q == Other(m.to)
<1>1. Genuine(s, m) /\ m.to \in Party /\ m.dh \in Key
  BY SentMessage
<1>2. q \in Party /\ s[q].dhs \in Key /\ s[q].dhs.own = q /\ m.dh.own = q
      /\ m.dh.i <= s[q].dhs.i
  BY <1>1, OtherFacts, EndFacts DEF Genuine
<1>3. Chain(m.dh) <= Chain(s[q].dhs) /\ (Chain(m.dh) = Chain(s[q].dhs) => m.dh = s[q].dhs)
      /\ Chain(m.dh) \in Nat
  BY <1>1, <1>2, ChainOrder, ChainInjective, ChainType
<1>4. m.dh = s[q].dhs => m.n < s[q].ns
  BY <1>2, OwnSent
<1> QED
  BY <1>2, <1>3, <1>4 DEF Turn

\* What a decryption does to the two turns and the receiving counter.
LEMMA TookTurn ==
    ASSUME NEW s, NEW ms, NEW g, Consistent(s, ms, g), NEW p \in Party, NEW m \in ms, m.to = p,
           NEW t, Took(p, s[p], m, t)
    PROVE  /\ \/ Turn(s[Other(p)]) = Turn(t) + 1
              \/ Turn(s[Other(p)]) = Turn(t) - 1 /\ t.nr <= s[Other(p)].ns
           /\ \/ Turn(t) = Turn(s[Other(p)]) + 1
              \/ Turn(t) = Turn(s[Other(p)]) - 1 /\ s[Other(p)].nr <= t.ns
           /\ \A x : Passed(s[p], x) /\ Chain(x.dh) \in Nat /\ x.n \in Nat => Passed(t, x)
<1> DEFINE r == s[p]
           q == Other(p)
<1>1. Ends(s) /\ Messages(s, ms)
  BY DEF Consistent
<1>2. q \in Party /\ Other(q) = p
  BY OtherFacts
<1>3. /\ Turn(r) \in Nat /\ r.nr \in Nat /\ r.ns \in Nat /\ r.dhs \in Key
      /\ \/ Turn(s[q]) = Turn(r) + 1
         \/ Turn(s[q]) = Turn(r) - 1 /\ r.nr <= s[q].ns
      /\ Turn(s[q]) \in Nat /\ s[q].ns \in Nat /\ s[q].nr \in Nat
      /\ \/ Turn(r) = Turn(s[q]) + 1
         \/ Turn(r) = Turn(s[q]) - 1 /\ s[q].nr <= r.ns
  BY <1>1, <1>2, EndFacts
<1>4. /\ Chain(m.dh) \in Nat /\ Chain(m.dh) <= Turn(s[q]) /\ m.n \in Nat
      /\ Chain(m.dh) = Turn(s[q]) => m.n < s[q].ns
  BY <1>1, SenderChain, SentMessage
<1>5. CASE SameTurn(p, r, m, t)
  <2>1. Turn(t) = Turn(r) /\ t.ns = r.ns
    BY <1>5 DEF SameTurn, Turn
  <2>2. t.nr = r.nr \/ (Chain(m.dh) = Turn(r) - 1 /\ r.nr <= m.n /\ t.nr = m.n + 1)
    BY <1>5 DEF SameTurn, Going
  <2>3. t.nr \in Nat /\ r.nr <= t.nr
    BY <1>3, <1>4, <2>2
  <2>4. Turn(s[q]) = Turn(t) - 1 => t.nr <= s[q].ns
    BY <1>3, <1>4, <2>1, <2>2
  <2>5. \A x : Passed(r, x) /\ Chain(x.dh) \in Nat /\ x.n \in Nat => Passed(t, x)
    BY <1>3, <2>1, <2>3 DEF Passed
  <2> QED
    BY <1>3, <2>1, <2>4, <2>5
<1>6. CASE NextTurn(p, r, m, t)
  <2>1. Chain(m.dh) = Turn(r) + 1 /\ Turn(t) = Turn(r) + 2 /\ t.nr = m.n + 1
    BY <1>6 DEF NextTurn
  <2>2. Turn(s[q]) = Turn(r) + 1
    BY <1>3, <1>4, <2>1
  <2>3. \A x : Passed(r, x) /\ Chain(x.dh) \in Nat /\ x.n \in Nat => Passed(t, x)
    BY <1>3, <2>1 DEF Passed
  <2> QED
    BY <1>3, <1>4, <2>1, <2>2, <2>3
<1> QED
  BY <1>5, <1>6 DEF Took

\* The length of the chain that a message under a new key closes.
LEMMA ClosedChain ==
    ASSUME NEW s, NEW ms, Messages(s, ms), Chains(s, ms), NEW m \in ms, NEW x \in ms,
           x.to = m.to, Chain(m.dh) = Chain(x.dh) + 2
    PROVE  x.n < m.pn
<1>1. /\ m.dh \in Key /\ x.dh \in Key /\ x.n \in Nat /\ m.dh.own = x.dh.own
      /\ m.dh.i \in Nat /\ x.dh.i \in Nat
  BY SentMessage DEF Genuine, Key
<1>2. m.dh.i = x.dh.i + 1
  BY <1>1 DEF Chain
<1>3. x.dh = PublicKey(m.dh.own, m.dh.i - 1)
  <2>1. x.dh = [own |-> x.dh.own, i |-> x.dh.i]
    BY <1>1 DEF Key
  <2> QED
    BY <1>1, <1>2, <2>1 DEF PublicKey
<1>4. Sent(ms, PublicKey(m.dh.own, m.dh.i - 1), x.n)
  BY <1>3 DEF Sent
<1>5. Previous(ms, m.dh, m.pn)
  BY DEF Chains
<1> QED
  BY <1>1, <1>2, <1>4, <1>5 DEF Previous

\* A message is decrypted: it was not before, and everything else the receiving
\* chain went past is in the store.
LEMMA ReceiveKeeps ==
    ASSUME NEW s, NEW ms, NEW g, Consistent(s, ms, g), NEW p \in Party, NEW m \in ms, m.to = p,
           NEW t, Took(p, s[p], m, t)
    PROVE  /\ m \notin g[p]
           /\ Consistent([s EXCEPT ![p] = t], ms, [g EXCEPT ![p] = g[p] \cup {m}])
<1> DEFINE r == s[p]
           q == Other(p)
           s2 == [s EXCEPT ![p] = t]
           g2 == [g EXCEPT ![p] = g[p] \cup {m}]
<1>1. /\ Ends(s) /\ Messages(s, ms) /\ Chains(s, ms) /\ Accounted(s, ms, g)
      /\ s \in [Party -> RatchetState] /\ g \in [Party -> SUBSET ms]
  BY DEF Consistent, Ends, Accounted
<1>2. /\ q \in Party /\ q # p /\ Other(q) = p
      /\ \A x \in Party : x = p \/ x = q
  BY OtherFacts
<1>3. /\ Good(p, r) /\ Turn(r) \in Nat /\ r.dhs \in Key /\ r.dhs.own = p
      /\ r.ns \in Nat /\ r.nr \in Nat /\ r.pn \in Nat /\ r.dhs.i \in Nat
  BY <1>1, EndFacts
<1>4. m \notin g[p]
  BY <1>1 DEF Accounted, Took
<1>5. Good(p, t) /\ Going(p, t) /\ t \in RatchetState
  BY DEF Took, Good
<1>6. s2[p] = t /\ s2[q] = s[q] /\ s2 \in [Party -> RatchetState]
  BY <1>1, <1>2, <1>5
<1>7. g2[p] = g[p] \cup {m} /\ g2[q] = g[q] /\ g2 \in [Party -> SUBSET ms]
  BY <1>1, <1>2
<1> HIDE DEF s2, g2
<1>8. Ends(s2)
  <2>1. /\ Good(p, s2[p]) /\ Good(q, s2[q])
    BY <1>1, <1>2, <1>5, <1>6, EndFacts
  <2>2. /\ \/ Turn(s2[q]) = Turn(s2[p]) + 1
           \/ Turn(s2[q]) = Turn(s2[p]) - 1 /\ s2[p].nr <= s2[q].ns
        /\ \/ Turn(s2[p]) = Turn(s2[q]) + 1
           \/ Turn(s2[p]) = Turn(s2[q]) - 1 /\ s2[q].nr <= s2[p].ns
    BY <1>6, TookTurn
  <2> QED
    BY <1>2, <1>6, <2>1, <2>2 DEF Ends
<1>9. \/ t.dhs = r.dhs /\ t.ns = r.ns /\ t.pn = r.pn
      \/ /\ t.dhs = PublicKey(p, r.dhs.i + 1) /\ t.ns = 0 /\ t.pn = r.ns
         /\ Chain(m.dh) = Turn(r) + 1
  BY DEF Took, SameTurn, NextTurn
<1>10. Messages(s2, ms)
  <2>1. ASSUME NEW x \in ms PROVE Genuine(s2, x)
    <3>1. Genuine(s, x) /\ x.to \in Party /\ x.dh \in Key /\ x.dh.i \in Nat
      BY <1>1, SentMessage DEF Key
    <3>2. CASE x.to = p
      BY <1>2, <1>6, <3>1, <3>2 DEF Genuine
    <3>3. CASE x.to = q
      <4>1. x.dh.i <= r.dhs.i /\ (x.dh = r.dhs => x.n < r.ns)
        BY <1>2, <3>1, <3>3 DEF Genuine
      <4>2. x.dh.i <= t.dhs.i /\ (x.dh = t.dhs => x.n < t.ns)
        BY <1>3, <1>9, <3>1, <4>1 DEF PublicKey
      <4> QED
        BY <1>2, <1>6, <3>1, <3>3, <4>2 DEF Genuine
    <3> QED
      BY <1>2, <3>1, <3>2, <3>3
  <2> QED
    BY <1>1, <2>1 DEF Messages
<1>11. Chains(s2, ms)
  <2>1. \A n \in 0 .. t.ns - 1 : Sent(ms, t.dhs, n)
    BY <1>1, <1>9 DEF Chains
  <2>2. Previous(ms, t.dhs, t.pn)
    <3>1. CASE t.dhs = r.dhs /\ t.pn = r.pn
      BY <1>1, <3>1 DEF Chains
    <3>2. CASE t.dhs = PublicKey(p, r.dhs.i + 1) /\ t.pn = r.ns
      <4>1. t.dhs.own = p /\ t.dhs.i > 0 /\ t.dhs.i - 1 = r.dhs.i
        BY <1>3, <3>2 DEF PublicKey
      <4>2. PublicKey(t.dhs.own, t.dhs.i - 1) = r.dhs
        <5>1. r.dhs = [own |-> r.dhs.own, i |-> r.dhs.i]
          BY <1>3 DEF Key
        <5> QED
          BY <1>3, <4>1, <5>1 DEF PublicKey
      <4>3. \A n \in Nat : n < r.ns => Sent(ms, r.dhs, n)
        BY <1>1, <1>3 DEF Chains
      <4>4. \A n \in Nat : Sent(ms, r.dhs, n) => n < r.ns
        BY <1>1, OwnSent DEF Sent
      <4> QED
        BY <3>2, <4>1, <4>2, <4>3, <4>4 DEF Previous
    <3> QED
      BY <1>9, <3>1, <3>2
  <2>3. t.ns <= Cardinality(Outgoing(ms, p))
    <3>1. IsFiniteSet(Outgoing(ms, p))
      BY <1>1, FS_Subset DEF Outgoing, Messages
    <3>2. r.ns <= Cardinality(Outgoing(ms, p)) /\ Cardinality(Outgoing(ms, p)) \in Nat
      BY <1>1, <3>1, FS_CardinalityType DEF Chains
    <3> QED
      BY <1>9, <3>2
  <2> QED
    BY <1>1, <1>2, <1>6, <2>1, <2>2, <2>3 DEF Chains
<1>12. Accounted(s2, ms, g2)
  <2>1. ASSUME NEW x \in g2[p]
        PROVE  /\ x.to = p /\ Passed(t, Position(x))
               /\ Position(x) \notin Positions(t.skipped)
    <3>1. CASE x = m
      BY <3>1 DEF Took
    <3>2. CASE x \in g[p]
      <4>1. /\ x.to = p /\ Passed(r, Position(x)) /\ Position(x) \notin Positions(r.skipped)
            /\ x \in ms
        BY <1>1, <3>2 DEF Accounted
      <4>2. Chain(Position(x).dh) \in Nat /\ Position(x).n \in Nat
        BY <1>1, <4>1, SentMessage, SenderChain, PositionFields
      <4>3. Passed(t, Position(x))
        BY <4>1, <4>2, TookTurn
      <4> QED
        BY <4>1, <4>3 DEF Took
    <3> QED
      BY <1>7, <3>1, <3>2
  <2>2. ASSUME NEW x \in ms, x.to = p, Passed(t, Position(x))
        PROVE  x \in g2[p] \/ Position(x) \in Positions(t.skipped) \cup t.evicted
    <3>1. CASE Position(x) = Position(m)
      BY <1>1, <1>7, <3>1 DEF Messages
    <3>2. CASE Position(x) # Position(m) /\ Passed(r, Position(x))
      <4>1. x \in g[p] \/ Position(x) \in Positions(r.skipped) \cup r.evicted
        BY <1>1, <2>2, <3>2 DEF Accounted
      <4> QED
        BY <1>7, <3>2, <4>1 DEF Took
    <3>3. CASE Position(x) # Position(m) /\ ~Passed(r, Position(x))
      <4>1. /\ Position(x) \in Place /\ Position(x).dh = x.dh /\ Position(x).n = x.n
            /\ x.dh \in Key /\ x.dh.own = q /\ Chain(x.dh) > 0
        BY <1>1, <2>2, SentMessage, PositionFields DEF Genuine
      <4>2. x.dh = r.dhr /\ Turn(t) # Turn(r) => x.n < m.pn
        <5> HAVE x.dh = r.dhr /\ Turn(t) # Turn(r)
        <5>1. Chain(m.dh) = Turn(r) + 1
          BY <1>9 DEF Turn
        <5>2. ~Fresh(p, r)
          BY <4>1, NoneIsNoKey DEF Fresh, Chain, PublicKey
        <5>3. Chain(x.dh) = Turn(r) - 1
          BY <1>3, <5>2 DEF Good, Going
        <5>4. Chain(m.dh) = Chain(x.dh) + 2
          BY <1>3, <5>1, <5>3
        <5> QED
          BY <1>1, <2>2, <5>4, ClosedChain
      <4> QED
        BY <2>2, <3>3, <4>1, <4>2 DEF Took
    <3> QED
      BY <3>1, <3>2, <3>3
  <2>3. g2[p] # {} /\ t.dhs.i # 0
    BY <1>5, <1>7 DEF Going
  <2>4. /\ \A x \in g2[q] :
              /\ x.to = q /\ Passed(s2[q], Position(x))
              /\ Position(x) \notin Positions(s2[q].skipped)
        /\ \A x \in ms : x.to = q /\ Passed(s2[q], Position(x)) =>
              x \in g2[q] \/ Position(x) \in Positions(s2[q].skipped) \cup s2[q].evicted
        /\ g2[q] = {} <=> s2[q].dhs.i = 0
    BY <1>1, <1>2, <1>6, <1>7 DEF Accounted
  <2> QED
    BY <1>2, <1>6, <1>7, <2>1, <2>2, <2>3, <2>4 DEF Accounted
<1> QED
  BY <1>4, <1>8, <1>10, <1>11, <1>12 DEF Consistent, s2, g2

\* What a checkpoint is accepted for can go on.
LEMMA StorableResumable ==
    ASSUME NEW r \in RatchetState, Storable(r)
    PROVE  Resumable(r)
<1>1. r.ns \in 0..U32Max /\ r.nr \in 0..U32Max /\ U32Max \in Nat /\ MaxSkip \in Nat
  BY RatchetAssumption DEF RatchetState, Counter
<1>2. r.ns # U32Max /\ ~(r.nr > MaxResumableNr)
  BY DEF Storable, CheckState, Exhausted
<1> QED
  BY <1>1, <1>2 DEF Resumable, MaxResumableNr

LEMMA EncryptStep ==
    ASSUME Inv, Fits, NEW p \in Party, Encrypt(p)
    PROVE  Inv'
<1> DEFINE r == st[p]
           t == Encrypted(r)
<1>1. /\ Consistent(st, net, got) /\ staged \in BOOLEAN /\ again = [x \in Party |-> {}]
      /\ staged => \A x \in Party : Resumable(st[x])
      /\ st \in [Party -> RatchetState]
  BY DEF Inv, Consistent, Ends
<1>2. r.ns < U32Max /\ r.cks # None
  BY RoomToSend DEF Encrypt
<1>3. t \in RatchetState
  BY <1>1, <1>2, EndFacts, EncryptGood DEF Good, Consistent
<1>4. Kept(r, TRUE, t) = t /\ (staged => Storable(t))
  BY <1>1, <1>3, KeptNew DEF Encrypt
<1>5. /\ st' = [st EXCEPT ![p] = Kept(r, TRUE, t)] /\ net' = net \cup {Message(p, r)}
      /\ staged' = staged /\ got' = got /\ again' = again
  BY DEF Encrypt
<1>6. st' = [st EXCEPT ![p] = t]
  BY <1>4, <1>5
<1>7. Consistent(st', net', got')
  <2>1. Consistent([st EXCEPT ![p] = t], net \cup {Message(p, r)}, got)
    BY <1>1, <1>2, EncryptKeeps
  <2> QED
    BY <1>5, <1>6, <2>1
<1>8. staged => \A x \in Party : Resumable(st'[x])
  <2> SUFFICES ASSUME staged, NEW x \in Party PROVE Resumable(st'[x])
    OBVIOUS
  <2>1. Resumable(t)
    BY <1>3, <1>4, StorableResumable
  <2>2. st'[x] = IF x = p THEN t ELSE st[x]
    BY <1>1, <1>6
  <2> QED
    BY <1>1, <2>1, <2>2
<1> QED
  BY <1>1, <1>5, <1>7, <1>8 DEF Inv

LEMMA UnchangedStep ==
    ASSUME Inv, UNCHANGED vars
    PROVE  Inv'
BY DEF Inv, vars

LEMMA ExceptSame ==
    ASSUME NEW S, NEW f \in [Party -> S], NEW p \in Party
    PROVE  [f EXCEPT ![p] = f[p]] = f
OBVIOUS

LEMMA ReceiveStep ==
    ASSUME Inv, NEW p \in Party, NEW m \in net, Receive(p, m)
    PROVE  Inv'
<1> DEFINE r == st[p]
           d == Decrypt(r, m)
           ok == d.ok /\ (staged => Storable(d.st))
<1>1. /\ Consistent(st, net, got) /\ staged \in BOOLEAN /\ again = [x \in Party |-> {}]
      /\ staged => \A x \in Party : Resumable(st[x])
      /\ st \in [Party -> RatchetState] /\ got \in [Party -> SUBSET net]
      /\ Ends(st) /\ Messages(st, net)
  BY DEF Inv, Consistent, Ends, Accounted
<1>2. /\ m.to = p
      /\ st' = [st EXCEPT ![p] = Kept(r, d.ok, d.st)]
      /\ got' = [got EXCEPT ![p] = IF ok THEN got[p] \cup {m} ELSE got[p]]
      /\ again' = [again EXCEPT ![p] = IF ok /\ m \in got[p] THEN again[p] \cup {m} ELSE again[p]]
      /\ staged' = staged /\ net' = net
  BY Zenon DEF Receive
<1>3. Good(p, r) /\ Incoming(p, m) /\ r \in RatchetState
  BY <1>1, <1>2, EndFacts, SentMessage
<1>4. /\ d.ok => Took(p, r, m, d.st)
      /\ ~d.ok => d.st = r
      /\ d.ok \in BOOLEAN
  BY <1>3, DecryptTook, DecryptIs DEF Opens, Decrypt
<1>5. d.st \in RatchetState
  BY <1>3, <1>4 DEF Took, Good
<1>6. again \in [Party -> SUBSET net]
  BY <1>1
<1> HIDE DEF d
<1>7. CASE ok
  <2>1. Kept(r, d.ok, d.st) = d.st
    BY <1>1, <1>4, <1>5, <1>7, KeptNew
  <2>2. st' = [st EXCEPT ![p] = d.st] /\ got' = [got EXCEPT ![p] = got[p] \cup {m}]
    BY <1>2, <1>7, <2>1
  <2>3. Took(p, r, m, d.st)
    BY <1>4, <1>7
  <2>4. m \notin got[p] /\ Consistent(st', net, got')
    <3>1. /\ m \notin got[p]
          /\ Consistent([st EXCEPT ![p] = d.st], net, [got EXCEPT ![p] = got[p] \cup {m}])
      BY <1>1, <1>2, <2>3, ReceiveKeeps
    <3> QED
      BY <2>2, <3>1
  <2>5. again' = again
    BY <1>2, <1>6, <2>4, ExceptSame
  <2>6. staged => \A x \in Party : Resumable(st'[x])
    <3> SUFFICES ASSUME staged, NEW x \in Party PROVE Resumable(st'[x])
      OBVIOUS
    <3>1. Resumable(d.st)
      BY <1>5, <1>7, StorableResumable
    <3>2. st'[x] = IF x = p THEN d.st ELSE st[x]
      BY <1>1, <2>2
    <3> QED
      BY <1>1, <3>1, <3>2
  <2> QED
    BY <1>1, <1>2, <2>4, <2>5, <2>6 DEF Inv
<1>8. CASE ~ok
  <2>1. Kept(r, d.ok, d.st) = r
    <3>1. CASE ~d.ok
      BY <1>4, <3>1 DEF Kept
    <3>2. CASE d.ok
      BY <1>1, <1>4, <1>5, <1>8, <3>2, KeptNew
    <3> QED
      BY <3>1, <3>2
  <2>2. st' = st /\ got' = got /\ again' = again
    BY <1>1, <1>2, <1>6, <1>8, <2>1, ExceptSame
  <2> QED
    BY <1>2, <2>2, UnchangedStep DEF vars
<1> QED
  BY <1>7, <1>8

\* A forged message is never opened, and leaves the ratchet as it was.
LEMMA ForgedStep ==
    ASSUME Inv, NEW p \in Party, NEW m \in ForgedHeader, ReceiveForged(p, m)
    PROVE  Inv'
<1>1. m.mk = None
  BY DEF ForgedHeader
<1>2. Decrypt(st[p], m).st = st[p]
  <2>1. ~Opens(st[p], m)
    BY <1>1 DEF Opens
  <2> QED
    BY <2>1, DecryptIs
<1>3. st' = [st EXCEPT ![p] = Kept(st[p], FALSE, Decrypt(st[p], m).st)]
  BY DEF ReceiveForged
<1>4. st \in [Party -> RatchetState] /\ staged \in BOOLEAN
  BY DEF Inv, Consistent, Ends
<1>5. Kept(st[p], FALSE, Decrypt(st[p], m).st) = st[p]
  BY <1>2 DEF Kept
<1>6. st' = st
  BY <1>3, <1>4, <1>5, ExceptSame
<1> QED
  BY <1>6, UnchangedStep DEF ReceiveForged, vars

LEMMA StagedFixed == [Next]_vars => staged' = staged
BY DEF Next, vars, Encrypt, Receive, ReceiveForged

LEMMA InvStep ==
    ASSUME Inv, Fits, [Next]_vars
    PROVE  Inv'
<1>1. CASE Next
  <2>1. PICK p \in Party : \/ Encrypt(p)
                           \/ \E m \in net : Receive(p, m)
                           \/ \E m \in ForgedHeader : ReceiveForged(p, m)
    BY <1>1 DEF Next
  <2> QED
    BY <2>1, EncryptStep, ReceiveStep, ForgedStep
<1> QED
  BY <1>1, UnchangedStep

LEMMA InvHolds == Spec => [](Fits => Inv)
<1>1. Init => (Fits => Inv)
  BY InitInv
<1>2. (Fits => Inv) /\ [Next]_vars => (Fits => Inv)'
  <2> SUFFICES ASSUME Fits => Inv, [Next]_vars, Fits' PROVE Inv'
    OBVIOUS
  <2>1. Fits
    BY StagedFixed DEF Fits
  <2> QED
    BY <2>1, InvStep
<1> QED
  BY <1>1, <1>2, PTL DEF Spec

-----------------------------------------------------------------------------
(* What the invariant gives.                                               *)

LEMMA KeyUsedOnceOf ==
    ASSUME Inv
    PROVE  KeyUsedOnce
<1> SUFFICES ASSUME NEW m1 \in net, NEW m2 \in net,
                    m1.mk = m2.mk \/ Position(m1) = Position(m2)
             PROVE  m1 = m2
  BY DEF KeyUsedOnce
<1>1. Messages(st, net)
  BY DEF Inv, Consistent
<1>2. /\ m1.dh \in Key /\ m2.dh \in Key /\ m1.n \in Nat /\ m2.n \in Nat
      /\ m1.mk = MessageKey(m1.dh, m1.n) /\ m2.mk = MessageKey(m2.dh, m2.n)
  BY <1>1, SentMessage DEF Genuine
<1>3. Position(m1) = Position(m2)
  BY <1>2, MessageKeyInjective DEF Position
<1> QED
  BY <1>1, <1>3 DEF Messages

LEMMA OpensOnceOf ==
    ASSUME Inv
    PROVE  OpensOnce
BY DEF Inv, OpensOnce

LEMMA ShapeTellsHistoryOf ==
    ASSUME Inv
    PROVE  ShapeTellsHistory
<1> SUFFICES ASSUME NEW p \in Party
             PROVE  /\ st[p].ckr # None <=> got[p] # {}
                    /\ IsInitialResponderState(st[p]) <=> p = "bob" /\ got[p] = {}
                    /\ st[p].cks = None <=> p = "bob" /\ got[p] = {}
  BY DEF ShapeTellsHistory
<1> DEFINE r == st[p]
<1>1. Ends(st) /\ (got[p] = {} <=> r.dhs.i = 0)
  BY DEF Inv, Consistent, Accounted
<1>2. /\ Good(p, r) /\ r.dhs \in Key /\ r.dhs.own = p /\ r.ns \in Nat /\ r.nr \in Nat
      /\ r.dhs.i \in Nat
  BY <1>1, EndFacts
<1>3. Turn(r) > 0 => r.cks # None
  BY <1>2, MessageKeyType DEF Good
<1>4. Turn(r) = 0 <=> p = "bob" /\ r.dhs.i = 0
  BY <1>2 DEF Turn, Chain, Party
<1>5. Turn(r) \in Nat
  BY <1>2, GoodTypes
<1>6. CASE Fresh(p, r)
  <2>1. r.dhs.i = 0 /\ r.ckr = None
    BY <1>6 DEF Fresh
  <2>2. p = "bob" => IsInitialResponderState(r)
    BY <1>6 DEF Fresh, IsInitialResponderState
  <2>3. p # "bob" => ~IsInitialResponderState(r)
    <3> HAVE p # "bob"
    <3>1. r.dhr = PublicKey("bob", 0)
      BY <1>6 DEF Fresh, Party
    <3>2. r.dhr # None
      BY <3>1, NoneIsNoKey DEF PublicKey, Key, Party
    <3> QED
      BY <3>2 DEF IsInitialResponderState
  <2>4. p = "bob" => r.cks = None
    BY <1>6 DEF Fresh
  <2> QED
    BY <1>1, <1>3, <1>4, <1>5, <2>1, <2>2, <2>3, <2>4
<1>7. CASE Going(p, r)
  <2>1. r.dhs.i # 0 /\ r.dhr \in Key /\ r.ckr # None
    BY <1>2, <1>7, MessageKeyType DEF Going
  <2>2. ~IsInitialResponderState(r)
    BY <2>1, NoneIsNoKey DEF IsInitialResponderState
  <2> QED
    BY <1>1, <1>3, <1>4, <1>5, <2>1, <2>2
<1> QED
  BY <1>2, <1>6, <1>7 DEF Good

\* A message that comes back to its sender does not open: the DH output it would
\* need is one of two keys of the same end.
LEMMA OwnMessage ==
    ASSUME NEW p \in Party, NEW r, Good(p, r), NEW m, m.dh \in Key, m.dh.own = p,
           Chain(m.dh) > 0, m.n \in Nat, m.pn \in Counter, m.mk = MessageKey(m.dh, m.n)
    PROVE  ~Decrypt(r, m).ok
<1> DEFINE a == OnNewKey(r, m)
           b == SkipMessageKeys(a, m.n)
           pair == {r.dhs, m.dh}
<1>1. Other(p) \in Party /\ Other(p) # p
  BY OtherFacts
<1>2. Held(r, m) = {}
  <2> SUFFICES ASSUME NEW j \in Held(r, m) PROVE FALSE
    OBVIOUS
  <2>1. j \in DOMAIN r.skipped /\ Position(r.skipped[j]) = Position(m)
    BY DEF Held
  <2>2. r.skipped[j].dh = m.dh
    BY <2>1, PositionFields
  <2>3. r.skipped[j].dh.own = Other(p)
    BY <2>1, StoreEntries DEF Entries
  <2> QED
    BY <1>1, <2>2, <2>3
<1>3. m.dh # r.dhr
  <2>1. CASE Going(p, r)
    BY <1>1, <2>1 DEF Going
  <2>2. CASE Fresh(p, r)
    BY <2>2, NoneIsNoKey DEF Fresh, PublicKey
  <2> QED
    BY <2>1, <2>2 DEF Good
<1>4. /\ b.ckr # None
      /\ b.ckr.root = Append(Root(Turn(r)), pair)
  BY NewKeyChain
<1>5. DecryptInner(r, m).mk = None \/ DecryptInner(r, m).mk = b.ckr
  <2>1. DecryptInner(r, m) =
              IF BeyondSkip(r, m.pn) THEN [mk |-> None, st |-> r]
              ELSE IF BeyondSkip(a, m.n) THEN [mk |-> None, st |-> a]
              ELSE [mk |-> b.ckr, st |-> Taken(b)]
    BY <1>2, <1>3, <1>4, NewKeyDecrypt
  <2> HIDE DEF a, b
  <2> QED
    BY <2>1
<1>6. b.ckr # m.mk
  <2> SUFFICES ASSUME b.ckr = m.mk PROVE FALSE
    OBVIOUS
  <2> DEFINE k == Chain(m.dh)
  <2>1. k \in Nat /\ Turn(r) \in Nat /\ r.dhs \in Key /\ r.dhs.own = p
    BY ChainType, GoodTypes
  <2>2. Append(Root(Turn(r)), pair) = Root(k)
    BY <1>4, MessageKeyType
  <2>3. /\ Root(Turn(r)) \in Seq(SUBSET Key) /\ Len(Root(Turn(r))) = Turn(r)
        /\ Root(k) \in Seq(SUBSET Key) /\ Len(Root(k)) = k
        /\ \A j \in 1..k : Root(k)[j] = Dh(j)
    BY <2>1, RootType
  <2>4. pair \in SUBSET Key
    BY <2>1
  <2> HIDE DEF pair, k
  <2>5. k = Turn(r) + 1 /\ Root(k)[k] = pair
    BY <2>1, <2>2, <2>3, <2>4, AppendProperties
  <2>6. Dh(k) = pair
    BY <2>1, <2>3, <2>5
  <2>7. \E x \in Dh(k) : x.own = Other(p)
    <3>1. m.dh.i \in Nat
      BY DEF Key
    <3>2. CASE p = "alice"
      <4>1. k = 2 * m.dh.i + 1
        BY <3>2 DEF Chain, k
      <4>2. PublicKey("bob", m.dh.i) \in Dh(k)
        BY <3>1, <4>1, DhOdd
      <4> QED
        BY <3>2, <4>2 DEF PublicKey, Other
    <3>3. CASE p = "bob"
      <4>1. k = 2 * (m.dh.i - 1) + 2 /\ m.dh.i - 1 \in Nat
        BY <3>1, <3>3 DEF Chain, k
      <4>2. PublicKey("alice", m.dh.i - 1) \in Dh(k)
        BY <4>1, DhEven
      <4> QED
        BY <3>3, <4>2 DEF PublicKey, Other
    <3> QED
      BY <3>2, <3>3 DEF Party
  <2> QED
    BY <1>1, <2>1, <2>6, <2>7 DEF pair
<1>7. ~Opens(r, m)
  BY <1>5, <1>6 DEF Opens
<1> QED
  BY <1>7, DecryptIs

LEMMA CheckpointableOf ==
    ASSUME Inv
    PROVE  Checkpointable
<1> SUFFICES ASSUME NEW p \in Party, NEW m \in net, Decrypt(st[p], m).ok,
                    ~Exhausted(Decrypt(st[p], m).st)
             PROVE  /\ Readable(ToCheckpoint(Decrypt(st[p], m).st))
                    /\ Reloaded(Decrypt(st[p], m).st) = Decrypt(st[p], m).st
  BY Zenon DEF Checkpointable
<1>1. Ends(st) /\ Messages(st, net)
  BY DEF Inv, Consistent
<1>2. /\ Good(p, st[p]) /\ m.to \in Party /\ Incoming(m.to, m) /\ m.dh.own = Other(m.to)
  BY <1>1, EndFacts, SentMessage DEF Genuine
<1>3. m.to = p
  <2> SUFFICES ASSUME m.to # p PROVE FALSE
    OBVIOUS
  <2>1. m.dh.own = p
    BY <1>2, OtherFacts
  <2>2. ~Decrypt(st[p], m).ok
    BY <1>2, <2>1, OwnMessage DEF Incoming
  <2> QED
    BY <2>2
<1>4. Took(p, st[p], m, Decrypt(st[p], m).st)
  BY <1>2, <1>3, DecryptTook
<1> QED
  BY <1>4, GoodCheckpoint DEF Took

\* Under a new key, whoever wrote it, the receiving counter starts again.
LEMMA NewKeyCounter ==
    ASSUME NEW p \in Party, NEW r, Good(p, r), NEW dh, NEW pn \in Counter
    PROVE  /\ HasFields(DhRatchetStep(SkipMessageKeys(r, pn), dh))
           /\ DhRatchetStep(SkipMessageKeys(r, pn), dh).nr = 0
<1> DEFINE c == SkipMessageKeys(r, pn)
           fresh == PublicKey(c.dhs.own, c.dhs.i + 1)
           rk1 == MixRoot(c.rk, c.dhs, dh)
           rk2 == MixRoot(rk1, fresh, dh)
           a == DhRatchetStep(c, dh)
<1>1. c \in RatchetState
  BY SkipOld, GoodTypes
<1>2. a = [c EXCEPT !.pn = c.ns, !.ns = 0, !.nr = 0, !.dhr = dh, !.ckr = NewChain(rk1),
                    !.dhs = fresh, !.rk = rk2, !.cks = NewChain(rk2)]
  BY DEF DhRatchetStep
<1> HIDE DEF a, c, fresh, rk1, rk2
<1>3. HasFields(a) /\ a.nr = 0
  BY <1>1, <1>2 DEF RatchetState, HasFields
<1> QED
  BY <1>3 DEF a, c

\* From a resumable ratchet no header takes the receiving counter past u32::MAX.
LEMMA CounterInRange ==
    ASSUME NEW p \in Party, NEW r, Good(p, r), Resumable(r),
           NEW h, h.n \in Counter, h.pn \in Counter, FromChain(r, h).mk # None
    PROVE  FromChain(r, h).st.nr > 0
<1> DEFINE a == Switched(r, h)
           b == SkipMessageKeys(a, h.n)
           d == IF r.dhr # h.dh /\ BeyondSkip(r, h.pn) THEN [mk |-> None, st |-> r]
                ELSE IF BeyondSkip(a, h.n) THEN [mk |-> None, st |-> a]
                ELSE IF b.ckr = None       THEN [mk |-> None, st |-> b]
                ELSE [mk |-> b.ckr, st |-> Taken(b)]
<1>1. FromChain(r, h) = d
  BY Zenon DEF FromChain, Taken
<1>2. /\ U32Max \in Nat /\ MaxSkip \in Nat /\ MaxSkip < U32Max /\ h.n \in Nat
      /\ r.nr \in Nat /\ r.nr <= U32Max - MaxSkip - 1 /\ r \in RatchetState
  BY RatchetAssumption, GoodTypes DEF Resumable, MaxResumableNr, Counter
<1>3. HasFields(a) /\ a.nr \in Nat /\ a.nr + MaxSkip <= U32Max - 1
  <2>1. CASE r.dhr = h.dh
    BY <1>2, <2>1 DEF Switched, HasFields, RatchetState
  <2>2. CASE r.dhr # h.dh
    <3>1. a = DhRatchetStep(SkipMessageKeys(r, h.pn), h.dh)
      BY <2>2 DEF Switched
    <3> QED
      BY <1>2, <3>1, NewKeyCounter
  <2> QED
    BY <2>1, <2>2
<1> HIDE DEF a, b
<1>4. ~BeyondSkip(a, h.n) /\ b.ckr # None /\ FromChain(r, h) = [mk |-> b.ckr, st |-> Taken(b)]
  BY <1>1
<1> HIDE DEF d
<1>5. a.ckr # None
  BY <1>4, SkipWithoutChain DEF b
<1>6. b.nr = Top(a, h.n)
  BY <1>2, <1>3, <1>5, SkipChain DEF b
<1>7. h.n <= a.nr + MaxSkip
  BY <1>2, <1>3, <1>4 DEF BeyondSkip
<1>8. b.nr \in Nat /\ b.nr + 1 < U32Max + 1
  BY <1>2, <1>3, <1>6, <1>7 DEF Top
<1>9. (b.nr + 1) % (U32Max + 1) = b.nr + 1
  BY <1>2, <1>8, ModSmall
<1>10. HasFields(b)
  BY <1>2, <1>3, <1>5, SkipChain DEF b
<1>11. Taken(b).nr = b.nr + 1
  BY <1>9, <1>10 DEF Taken, HasFields
<1> QED
  BY <1>4, <1>8, <1>11

LEMMA CountersNeverWrapOf ==
    ASSUME Inv
    PROVE  CountersNeverWrap
<1> SUFFICES ASSUME staged, NEW p \in Party
             PROVE  /\ st[p].ns < U32Max
                    /\ \A m \in net \cup ForgedHeader :
                          LET d == FromChain(st[p], m) IN d.mk # None => d.st.nr > 0
  BY DEF CountersNeverWrap
<1>1. Good(p, st[p]) /\ Resumable(st[p]) /\ Messages(st, net)
  BY EndFacts DEF Inv, Consistent
<1>2. ASSUME NEW m \in net \cup ForgedHeader PROVE m.n \in Counter /\ m.pn \in Counter
  <2>1. CASE m \in net
    BY <1>1, <2>1, SentMessage DEF Genuine, MessageType
  <2>2. CASE m \in ForgedHeader
    BY <2>2, RatchetAssumption DEF ForgedHeader, Counter
  <2> QED
    BY <2>1, <2>2
<1> QED
  BY <1>1, <1>2, CounterInRange DEF Resumable

\* Sent positions of one chain are as many as their range is wide.
LEMMA ManySent ==
    ASSUME NEW S, IsFiniteSet(S), NEW a \in Nat, NEW b \in Nat,
           \A n \in a .. b - 1 : \E x \in S : x.n = n
    PROVE  b - a <= Cardinality(S)
<1> DEFINE f == [n \in a .. b - 1 |-> CHOOSE x \in S : x.n = n]
<1>1. \A n \in a .. b - 1 : f[n] \in S /\ f[n].n = n
  OBVIOUS
<1>2. f \in [a .. b - 1 -> S]
  BY <1>1
<1>3. f \in Injection(a .. b - 1, S)
  BY <1>1, <1>2 DEF Injection, IsInjective
<1>4. Cardinality(a .. b - 1) <= Cardinality(S) /\ Cardinality(S) \in Nat
  BY <1>3, FS_Injection, FS_CardinalityType DEF ExistsInjection
<1>5. Cardinality(a .. b - 1) = IF a > b - 1 THEN 0 ELSE b - 1 - a + 1
  BY FS_Interval
<1> QED
  BY <1>4, <1>5

\* Messages of the receiving chain or a later one that were not passed, and came
\* before m, are missing.
LEMMA NotPassedMissing ==
    ASSUME Inv, NEW m \in net, NEW x \in net, x.to = m.to,
           ~Passed(st[m.to], Position(x)),
           x.dh.i < m.dh.i \/ (x.dh = m.dh /\ x.n < m.n)
    PROVE  x \in Missing(m.to, m)
<1>1. m.to \in Party
  BY SentMessage DEF Inv, Consistent
<1>2. x \notin got[m.to]
  BY <1>1 DEF Inv, Consistent, Accounted
<1>3. SentBefore(Position(x), Position(m))
  BY PositionFields DEF SentBefore
<1> QED
  BY <1>2, <1>3 DEF Missing

LEMMA OpensInAnyOrderOf ==
    ASSUME Inv
    PROVE  OpensInAnyOrder
<1> SUFFICES ASSUME NEW p \in Party, NEW m \in net, m.to = p, m \notin got[p],
                    Position(m) \notin st[p].evicted,
                    Cardinality(Missing(p, m)) <= MaxSkip
             PROVE  Decrypt(st[p], m).ok
  BY DEF OpensInAnyOrder
<1> DEFINE r == st[p]
           q == Other(p)
           miss == Missing(p, m)
<1>1. /\ Ends(st) /\ Messages(st, net) /\ Chains(st, net) /\ Accounted(st, net, got)
      /\ MaxSkip \in Nat /\ U32Max \in Nat
  BY RatchetAssumption DEF Inv, Consistent
<1>2. /\ Good(p, r) /\ Turn(r) \in Nat /\ r.nr \in Nat /\ r.dhs \in Key /\ r.dhs.own = p
      /\ Turn(st[q]) = Turn(r) + 1 \/ Turn(st[q]) = Turn(r) - 1
  BY <1>1, EndFacts
<1>3. /\ Incoming(p, m) /\ m.dh \in Key /\ m.dh.own = q /\ m.n \in Nat /\ m.pn \in Nat
      /\ m.n < U32Max /\ m.pn <= U32Max /\ Chain(m.dh) > 0 /\ Chain(m.dh) \in Nat
      /\ m.dh.i \in Nat
  BY <1>1, SentMessage, ChainType DEF Incoming, Counter, Key
<1>4. IsFiniteSet(miss) /\ Cardinality(miss) \in Nat
  <2>1. miss \subseteq net /\ IsFiniteSet(net)
    BY <1>1 DEF Missing, Messages
  <2> QED
    BY <2>1, FS_Subset, FS_CardinalityType
<1>5. CASE Passed(r, Position(m))
  <2>1. Position(m) \in Positions(r.skipped)
    BY <1>1, <1>5 DEF Accounted
  <2>2. Held(r, m) # {}
    BY <2>1 DEF Positions, Held
  <2> QED
    BY <1>2, <1>3, <2>2, HeldTook
<1>6. CASE ~Passed(r, Position(m))
  <2>1. Held(r, m) = {}
    <3>1. Position(m) \notin Positions(r.skipped)
      BY <1>2, <1>6, StorePositions
    <3> QED
      BY <3>1 DEF Positions, Held
  <2>2. /\ Chain(m.dh) = Turn(r) - 1 /\ r.nr <= m.n
        \/ Chain(m.dh) = Turn(r) + 1
    <3>1. Chain(m.dh) <= Turn(st[q])
      BY <1>1, SenderChain
    <3>2. Chain(m.dh) # Turn(r)
      BY <1>2, <1>3, OtherChain DEF Turn
    <3>3. ~(Chain(m.dh) < Turn(r) - 1) /\ ~(Chain(m.dh) = Turn(r) - 1 /\ m.n < r.nr)
      BY <1>6, PassedPosition DEF Passed
    <3> QED
      BY <1>2, <1>3, <3>1, <3>2, <3>3
  <2>3. ASSUME NEW x \in net, x.dh.own = q, Chain(x.dh) = Turn(r) - 1 \/ Chain(x.dh) = Turn(r) + 1,
               Chain(x.dh) = Turn(r) - 1 => r.nr <= x.n,
               x.dh.i < m.dh.i \/ (x.dh = m.dh /\ x.n < m.n)
        PROVE  x \in miss
    <3>1. x.to \in Party /\ x.dh.own = Other(x.to) /\ x.n \in Nat
      BY <1>1, SentMessage DEF Genuine
    <3>2. x.to = p
      BY <2>3, <3>1, OtherFacts
    <3>3. ~Passed(r, x)
      BY <1>2, <2>3, <3>1 DEF Passed
    <3>4. ~Passed(r, Position(x))
      BY <3>3, PassedPosition
    <3> QED
      BY <2>3, <3>2, <3>4, NotPassedMissing
  <2>4. CASE Chain(m.dh) = Turn(r) - 1 /\ r.nr <= m.n
    <3>1. m.dh = r.dhr
      <4>1. CASE Fresh(p, r)
        <5>1. Turn(r) <= 1
          BY <1>2, <4>1 DEF Fresh, Turn, Chain
        <5> QED
          BY <1>2, <1>3, <2>4, <5>1
      <4>2. CASE Going(p, r)
        BY <1>3, <2>4, <4>2, ChainInjective DEF Going
      <4> QED
        BY <1>2, <4>1, <4>2 DEF Good
    <3>2. \A n \in r.nr .. m.n - 1 : \E x \in miss : x.n = n
      <4> TAKE n \in r.nr .. m.n - 1
      <4>1. n \in 0 .. m.n - 1 /\ r.nr <= n /\ n < m.n
        BY <1>2, <1>3
      <4>2. PICK x \in net : x.dh = m.dh /\ x.n = n
        BY <1>1, <4>1 DEF Chains, Sent
      <4> QED
        BY <1>3, <2>3, <2>4, <4>1, <4>2
    <3>3. m.n - r.nr <= Cardinality(miss)
      BY <1>2, <1>3, <1>4, <3>2, ManySent
    <3>4. ~BeyondSkip(r, m.n)
      BY <1>1, <1>2, <1>3, <1>4, <3>3 DEF BeyondSkip
    <3> QED
      BY <1>2, <1>3, <2>1, <2>4, <3>1, <3>4, ChainTook
  <2>5. CASE Chain(m.dh) = Turn(r) + 1
    <3>1. m.dh # r.dhr
      <4>1. CASE Fresh(p, r)
        BY <1>3, <4>1, NoneIsNoKey DEF Fresh, Chain, PublicKey
      <4>2. CASE Going(p, r)
        BY <1>2, <2>5, <4>2 DEF Going
      <4> QED
        BY <1>2, <4>1, <4>2 DEF Good
    <3>2. m.n <= MaxSkip
      <4>1. \A n \in 0 .. m.n - 1 : \E x \in miss : x.n = n
        <5> TAKE n \in 0 .. m.n - 1
        <5>1. PICK x \in net : x.dh = m.dh /\ x.n = n
          BY <1>1 DEF Chains, Sent
        <5>2. n < m.n /\ ~(Chain(x.dh) = Turn(r) - 1)
          BY <1>2, <1>3, <2>5, <5>1
        <5> QED
          BY <1>3, <2>3, <2>5, <5>1, <5>2
      <4>2. m.n - 0 <= Cardinality(miss)
        BY <1>3, <1>4, <4>1, ManySent
      <4> QED
        BY <1>1, <1>3, <1>4, <4>2
    <3>3. \A n \in r.nr .. m.pn - 1 : \E x \in miss : x.n = n
      <4> TAKE n \in r.nr .. m.pn - 1
      <4>1. n \in Nat /\ n < m.pn /\ r.nr <= n
        BY <1>2, <1>3
      <4>2. Previous(net, m.dh, m.pn)
        BY <1>1 DEF Chains
      <4>3. m.dh.i > 0 /\ Sent(net, PublicKey(m.dh.own, m.dh.i - 1), n)
        BY <4>1, <4>2 DEF Previous
      <4>4. PICK x \in net : x.dh = PublicKey(m.dh.own, m.dh.i - 1) /\ x.n = n
        BY <4>3 DEF Sent
      <4>5. x.dh.own = q /\ x.dh.i < m.dh.i /\ Chain(x.dh) = Chain(m.dh) - 2
        BY <1>3, <4>3, <4>4 DEF PublicKey, Chain
      <4> QED
        BY <1>2, <2>3, <2>5, <4>1, <4>4, <4>5
    <3>4. m.pn - r.nr <= Cardinality(miss)
      BY <1>2, <1>3, <1>4, <3>3, ManySent
    <3>5. ~BeyondSkip(r, m.pn)
      BY <1>1, <1>2, <1>3, <1>4, <3>4 DEF BeyondSkip
    <3> QED
      BY <1>2, <1>3, <2>1, <2>5, <3>1, <3>2, <3>5, NextTook
  <2> QED
    BY <2>2, <2>4, <2>5
<1> QED
  BY <1>5, <1>6

-----------------------------------------------------------------------------
(* The properties.                                                         *)

\* No two messages share a message key or a header position, for as long as the
\* counters that encrypt and decrypt advance do not run out (Fits).
THEOREM KeyUsedOnceHolds == Spec => [](Fits => KeyUsedOnce)
<1>1. Inv => KeyUsedOnce
  BY KeyUsedOnceOf
<1> QED
  BY <1>1, InvHolds, PTL

\* decrypt never opens a message it has opened before.
THEOREM OpensOnceHolds == Spec => [](Fits => OpensOnce)
<1>1. Inv => OpensOnce
  BY OpensOnceOf
<1> QED
  BY <1>1, InvHolds, PTL

\* decrypt opens every message with at most MAX_SKIP earlier ones missing whose
\* key was not evicted by trim_skipped, whatever came before it.
THEOREM OpensInAnyOrderHolds == Spec => [](Fits => OpensInAnyOrder)
<1>1. Inv => OpensInAnyOrder
  BY OpensInAnyOrderOf
<1> QED
  BY <1>1, InvHolds, PTL

\* What the messaging layer reads off the fields of the ratchet (a receiving
\* chain, is_initial_responder_state, a sending chain) is what was decrypted.
THEOREM ShapeTellsHistoryHolds == Spec => [](Fits => ShapeTellsHistory)
<1>1. Inv => ShapeTellsHistory
  BY ShapeTellsHistoryOf
<1> QED
  BY <1>1, InvHolds, PTL

\* from_checkpoint accepts what to_checkpoint writes after any decryption, short
\* of an exhausted counter, and gives the same ratchet back.
THEOREM CheckpointableHolds == Spec => [](Fits => Checkpointable)
<1>1. Inv => Checkpointable
  BY CheckpointableOf
<1> QED
  BY <1>1, InvHolds, PTL

\* With DurableSession::stage, encrypt and decrypt_inner never wrap a counter,
\* also on the way to finding a message forged.
THEOREM CountersNeverWrapHolds == Spec => []CountersNeverWrap
<1>1. (Fits => Inv) => CountersNeverWrap
  <2>1. CASE staged
    BY <2>1, CountersNeverWrapOf DEF Fits
  <2>2. CASE ~staged
    BY <2>2 DEF CountersNeverWrap
  <2> QED
    BY <2>1, <2>2
<1> QED
  BY <1>1, InvHolds, PTL

=============================================================================
