--------------------------- MODULE MailboxProofs ---------------------------
(***************************************************************************)
(* A DELETE names only what was read, handshakes come before messages, and *)
(* a pass misses nothing, for every number of envelopes, pages, errors and *)
(* restarts and every size of mailbox, page and frame.                     *)
(***************************************************************************)
EXTENDS Mailbox, FiniteSetTheorems, WellFoundedInduction, TLAPS

\* An envelope as it was read, with its number.
Read == [seq: Nat, env: Envelope]

\* The types the argument needs.
ScanRecord ==
    [pc: {"idle", "fetch", "items", "delete"}, pass: {"handshakes", "messages"},
     until: Nat, after: Nat, seen: Nat, pages: Nat, items: SUBSET Read,
     last: BOOLEAN, delete: SUBSET Read, start: SUBSET Nat, looked: SUBSET Nat,
     shook: SUBSET Nat]

ScanType == sc \in ScanRecord

MailType ==
    /\ next_seq \in Nat /\ 0 < next_seq
    /\ \A s \in DOMAIN mail :
          s \in Nat /\ 0 < s /\ s < next_seq /\ mail[s] \in Envelope

\* What x was read as is what its number stands for, as long as this relay
\* runs: numbers below the counter are not handed out again.
Stands(x) ==
    /\ x.seq < next_seq
    /\ x.seq \in DOMAIN mail => mail[x.seq] = x.env

\* Everything in a late DELETE, and everything read over a connection that is
\* still open, stands.
LateStands == \A d \in late : d \subseteq Read /\ \A x \in d : Stands(x)
ScanStands == conn => \A x \in sc.items \cup sc.delete : Stands(x)

\* The inductive invariant.
ReadInv == ScanType /\ MailType /\ LateStands /\ ScanStands

-----------------------------------------------------------------------------
\* u64::MAX is a number.
LEMMA U64MaxIsNat == U64Max \in Nat
  BY RelayAssumption

\* Idle and the start of a pass have the type of a scan, and hold no entry.
LEMMA PassTypes ==
    ASSUME NEW pass \in {"handshakes", "messages"}, NEW until \in Nat, NEW shook \in SUBSET Nat,
           NEW m, DOMAIN m \subseteq Nat
    PROVE  /\ BeginPass(pass, until, shook, m) \in ScanRecord
           /\ BeginPass(pass, until, shook, m).items = {}
           /\ BeginPass(pass, until, shook, m).delete = {}
  BY U64MaxIsNat DEF BeginPass, Idle, ScanRecord

\* A reader between rounds, and one at the start of a pass, is well typed.
LEMMA IdleTypes ==
    /\ Idle \in ScanRecord
    /\ Idle.items = {} /\ Idle.delete = {}
  BY U64MaxIsNat DEF Idle, ScanRecord

\* The relay removes envelopes and keeps its counter: what stood stands.
LEMMA RemovalKeeps ==
    ASSUME MailType, NEW S, mail' = Without(mail, S), UNCHANGED next_seq
    PROVE  MailType' /\ \A x : Stands(x) => Stands(x)'
  BY DEF MailType, Stands, Without

\* Nothing of the relay changes: what stood stands.
LEMMA SameKeeps ==
    ASSUME MailType, UNCHANGED <<mail, next_seq>>
    PROVE  MailType' /\ \A x : Stands(x) => Stands(x)'
  BY DEF MailType, Stands

\* The initial state satisfies ReadInv.
LEMMA InitRead == Init => ReadInv
  BY IdleTypes DEF Init, RelayInit, ReadInv, ScanType, MailType, LateStands, ScanStands

\* A round begins, or ends with an error: the scan holds no entry.
LEMMA RoundKeeps ==
    ReadInv /\ (BeginRound \/ CallFails \/ RoundFails) => ReadInv'
  <1> SUFFICES ASSUME ReadInv, BeginRound \/ CallFails \/ RoundFails
               PROVE  ReadInv'
    OBVIOUS
  <1>1. UNCHANGED <<mail, next_seq, late>>
    BY DEF BeginRound, CallFails, RoundFails, relay
  <1>2. MailType' /\ LateStands'
    BY <1>1, SameKeeps DEF ReadInv, LateStands
  <1>3. ScanType' /\ sc'.items = {} /\ sc'.delete = {}
    <2>1. CASE BeginRound
      BY <2>1, PassTypes, U64MaxIsNat DEF BeginRound, ScanType, ReadInv, MailType
    <2>2. CASE CallFails \/ RoundFails
      BY <2>2, IdleTypes DEF CallFails, RoundFails, ScanType
    <2> QED BY <2>1, <2>2
  <1> QED BY <1>2, <1>3 DEF ReadInv, ScanStands

\* A page holds envelopes as they are stored.
LEMMA FetchKeeps == ReadInv /\ FetchPage => ReadInv'
  <1> SUFFICES ASSUME ReadInv, FetchPage PROVE ReadInv'
    OBVIOUS
  <1> DEFINE page == Page(mail, sc.after)
             entries == {[seq |-> s, env |-> mail[s]] : s \in page}
  <1>1. UNCHANGED relay
    BY DEF FetchPage
  <1>2. MailType' /\ LateStands' /\ \A x : Stands(x) => Stands(x)'
    BY <1>1, SameKeeps DEF ReadInv, LateStands, relay
  <1>3. page \subseteq DOMAIN mail
    BY DEF Page
  <1>4. \A x \in entries : x \in Read /\ Stands(x)
    BY <1>3 DEF ReadInv, MailType, Read, Stands
  <1>5. /\ ScanType'
        /\ sc'.delete = sc.delete
        /\ sc'.items = sc.items \/ sc'.items = entries
    <2>1. CASE sc' = [sc EXCEPT !.pc = "delete"]
      BY <2>1 DEF ReadInv, ScanType, ScanRecord
    <2>2. CASE sc' = [sc EXCEPT !.pc = "items", !.pages = @ + 1,
                                !.last = IsLast(page), !.items = entries]
      <3>1. IsLast(page) \in BOOLEAN
        BY DEF IsLast
      <3>2. entries \in SUBSET Read
        BY <1>4
      <3> DEFINE k == sc.pages + 1
      <3>3. sc \in ScanRecord /\ k \in Nat
        BY DEF ReadInv, ScanType, ScanRecord
      <3>4. sc' = [sc EXCEPT !.pc = "items", !.pages = k, !.last = IsLast(page),
                             !.items = entries]
        BY <2>2
      <3> HIDE DEF entries, page, k
      <3>5. sc' \in ScanRecord /\ sc'.items = entries /\ sc'.delete = sc.delete
        BY <3>1, <3>2, <3>3, <3>4 DEF ScanRecord
      <3> QED BY <3>5 DEF ScanType
    <2> QED BY <2>1, <2>2 DEF FetchPage
  <1>6. ScanStands'
    <2> HIDE DEF entries
    <2> QED BY <1>1, <1>2, <1>4, <1>5 DEF ReadInv, ScanStands, relay
  <1> QED BY <1>2, <1>5, <1>6 DEF ReadInv

\* Processing an envelope moves it from the page to the DELETE or drops it.
LEMMA ItemKeeps ==
    ASSUME ReadInv, NEW x \in sc.items, NEW fate,
           BeyondUntil(x) \/ ScanItem(x, fate)
    PROVE  ReadInv'
  <1>1. UNCHANGED relay
    BY DEF BeyondUntil, ScanItem
  <1>2. MailType' /\ LateStands' /\ \A y : Stands(y) => Stands(y)'
    BY <1>1, SameKeeps DEF ReadInv, LateStands, relay
  <1>3. /\ ScanType'
        /\ sc'.items \subseteq sc.items
        /\ sc'.delete \subseteq sc.delete \cup {x}
    <2>1. CASE BeyondUntil(x)
      BY <2>1 DEF BeyondUntil, ReadInv, ScanType, ScanRecord
    <2>2. CASE ScanItem(x, fate)
      <3>1. Following(x, sc.seen + 1) \in {"fetch", "items", "delete"}
        BY DEF Following
      <3>2. x \in Read /\ x.seq \in Nat
        BY DEF ReadInv, ScanType, ScanRecord, Read
      <3> DEFINE pc == Following(x, sc.seen + 1)
                 sel == Selected(sc.pass, x.env)
                 S == IF pc = "items" THEN sc.items \ {x} ELSE {}
                 D == IF fate = "delete" THEN sc.delete \cup {x} ELSE sc.delete
                 k == sc.seen + 1
                 L == sc.looked \cup {x.seq}
                 H == IF sel /\ sc.pass = "handshakes"
                      THEN sc.shook \cup {x.seq} ELSE sc.shook
      <3>3. /\ S \in SUBSET Read /\ S \subseteq sc.items
            /\ D \in SUBSET Read /\ D \subseteq sc.delete \cup {x}
            /\ L \in SUBSET Nat /\ H \in SUBSET Nat
            /\ sc \in ScanRecord /\ k \in Nat
        BY <3>2 DEF ReadInv, ScanType, ScanRecord
      <3>4. sc' = [sc EXCEPT !.pc = pc, !.items = S, !.after = x.seq,
                             !.seen = k, !.delete = D, !.looked = L,
                             !.shook = H]
        BY <2>2 DEF ScanItem
      <3> HIDE DEF pc, S, D, k, L, H
      <3>5. pc \in {"fetch", "items", "delete"}
        BY <3>1 DEF pc
      <3>6. sc' \in ScanRecord /\ sc'.items = S /\ sc'.delete = D
        BY <3>2, <3>3, <3>4, <3>5 DEF ScanRecord
      <3> QED BY <3>3, <3>6 DEF ScanType
    <2> QED BY <2>1, <2>2
  <1>4. ScanStands'
    BY <1>1, <1>2, <1>3 DEF ReadInv, ScanStands, relay
  <1> QED BY <1>2, <1>3, <1>4 DEF ReadInv

\* The end of a pass deletes what it read, or leaves the request behind.
LEMMA EndKeeps == ReadInv /\ (EndPass \/ DeleteTimesOut) => ReadInv'
  <1>1. ASSUME ReadInv, EndPass PROVE ReadInv'
    <2> DEFINE m == Without(mail, {x.seq : x \in sc.delete})
    <2>1. MailType' /\ \A x : Stands(x) => Stands(x)'
      BY <1>1, RemovalKeeps DEF EndPass, ReadInv
    <2>2. LateStands'
      BY <1>1, <2>1 DEF EndPass, ReadInv, LateStands
    <2>3. DOMAIN m \subseteq Nat
      BY <1>1 DEF ReadInv, MailType, Without
    <2>4. sc.after \in Nat /\ sc.shook \in SUBSET Nat
      BY <1>1 DEF ReadInv, ScanType, ScanRecord
    <2>5. sc' = BeginPass("messages", sc.after, sc.shook, m) \/ sc' = Idle
      BY <1>1 DEF EndPass, NextPass
    <2>6. ScanType' /\ sc'.items = {} /\ sc'.delete = {}
      <3> DEFINE b == BeginPass("messages", sc.after, sc.shook, m)
      <3>1. b \in ScanRecord /\ b.items = {} /\ b.delete = {}
        BY <2>3, <2>4, PassTypes
      <3>2. sc' = b \/ sc' = Idle
        BY <2>5
      <3> HIDE DEF b
      <3> QED BY <3>1, <3>2, IdleTypes DEF ScanType
    <2> QED BY <2>1, <2>2, <2>6 DEF ReadInv, ScanStands
  <1>2. ASSUME ReadInv, DeleteTimesOut PROVE ReadInv'
    <2>1. MailType' /\ \A x : Stands(x) => Stands(x)'
      BY <1>2, SameKeeps DEF DeleteTimesOut, ReadInv
    <2>2. sc.delete \subseteq Read /\ \A x \in sc.delete : Stands(x)
      BY <1>2 DEF DeleteTimesOut, ReadInv, ScanStands, ScanType, ScanRecord
    <2>3. LateStands'
      BY <1>2, <2>1, <2>2 DEF DeleteTimesOut, ReadInv, LateStands
    <2>4. ScanType' /\ ScanStands'
      BY <1>2, IdleTypes DEF DeleteTimesOut, ScanType, ScanStands
    <2> QED BY <2>1, <2>3, <2>4 DEF ReadInv
  <1> QED BY <1>1, <1>2

\* What others do at the relay.  A SEND uses a number nothing read stands for,
\* and a restart takes the connection and the late requests with it.
LEMMA OthersKeep == ReadInv /\ Others => ReadInv'
  <1> SUFFICES ASSUME ReadInv, Others PROVE ReadInv'
    OBVIOUS
  <1>1. UNCHANGED sc
    BY DEF Others
  <1>2. ScanType'
    BY <1>1 DEF ReadInv, ScanType, ScanRecord
  <1>3. ASSUME NEW e \in Envelope, Send(e) PROVE ReadInv'
    <2>1. MailType'
      BY <1>3 DEF Send, ReadInv, MailType
    <2>2. \A x \in Read : Stands(x) => Stands(x)'
      BY <1>3 DEF Send, ReadInv, MailType, Stands, Read
    <2>3. LateStands'
      BY <1>3, <2>2 DEF Send, ReadInv, LateStands
    <2>4. ScanStands'
      BY <1>1, <1>3, <2>2 DEF Send, ReadInv, ScanStands, ScanType, ScanRecord
    <2> QED BY <1>2, <2>1, <2>3, <2>4 DEF ReadInv
  <1>4. CASE SendElsewhere
    <2>1. MailType'
      BY <1>4 DEF SendElsewhere, ReadInv, MailType
    <2>2. \A x \in Read : Stands(x) => Stands(x)'
      BY <1>4 DEF SendElsewhere, ReadInv, MailType, Stands, Read
    <2>3. LateStands'
      BY <1>4, <2>2 DEF SendElsewhere, ReadInv, LateStands
    <2>4. ScanStands'
      BY <1>1, <1>4, <2>2 DEF SendElsewhere, ReadInv, ScanStands, ScanType, ScanRecord
    <2> QED BY <1>2, <2>1, <2>3, <2>4 DEF ReadInv
  <1>5. ASSUME NEW s, Vanish(s) PROVE ReadInv'
    <2>1. MailType' /\ \A x : Stands(x) => Stands(x)'
      BY <1>5, RemovalKeeps DEF Vanish, ReadInv
    <2> QED BY <1>1, <1>2, <1>5, <2>1 DEF Vanish, ReadInv, LateStands, ScanStands
  <1>6. ASSUME NEW d \in late, LateDelete(d) PROVE ReadInv'
    <2>1. MailType' /\ \A x : Stands(x) => Stands(x)'
      BY <1>6, RemovalKeeps DEF LateDelete, ReadInv
    <2> QED BY <1>1, <1>2, <1>6, <2>1 DEF LateDelete, ReadInv, LateStands, ScanStands
  <1>7. CASE Restart
    BY <1>2, <1>7 DEF Restart, ReadInv, MailType, LateStands, ScanStands
  <1> QED BY <1>3, <1>4, <1>5, <1>6, <1>7 DEF Others

\* Every step preserves the invariant.
LEMMA StepRead == ReadInv /\ [Next]_vars => ReadInv'
  <1> SUFFICES ASSUME ReadInv, [Next]_vars PROVE ReadInv'
    OBVIOUS
  <1>1. CASE UNCHANGED vars
    BY <1>1 DEF vars, relay, ReadInv, ScanType, MailType, LateStands, ScanStands, Stands
  <1>2. CASE Next
    BY <1>2, RoundKeeps, FetchKeeps, ItemKeeps, EndKeeps, OthersKeep DEF Next, Scan
  <1> QED BY <1>1, <1>2

\* A DELETE, whether it is executed at once or long after its round gave up,
\* never removes an envelope other than the one the reader decided on: not
\* after other readers deleted, after time passed, and not after the relay was
\* restarted and handed the number out again.
THEOREM DeletesWhatWasReadHolds == Spec => []DeletesWhatWasRead
  <1>1. ReadInv => DeletesWhatWasRead
    BY DEF ReadInv, LateStands, ScanStands, Stands, DeletesWhatWasRead
  <1> QED BY <1>1, InitRead, StepRead, PTL DEF Spec

-----------------------------------------------------------------------------
(* Handshakes before messages.                                             *)

Handshake(s) == mail[s].kind = "handshake"

\* No gaps: what is stored between the cursor and the end of the page is in
\* the page, because later envelopes get higher numbers.
NoGap ==
    \A s \in DOMAIN mail, y \in sc.items :
        sc.after < s /\ s <= y.seq => \E z \in sc.items : z.seq = s

\* How far the handshakes are done: in the first pass up to the cursor, in the
\* second up to its end.
Done == IF sc.pass = "handshakes" THEN sc.after ELSE sc.until

ShookInv ==
    conn /\ sc.pc # "idle" =>
        /\ NoGap
        /\ Done < next_seq
        /\ \A s \in DOMAIN mail : s <= Done /\ Handshake(s) => s \in sc.shook

\* The initial state satisfies ShookInv.
LEMMA InitShook == Init => ShookInv
  BY IdleTypes DEF Init, RelayInit, ShookInv

\* The relay only loses envelopes, and the scan stays where it is.
LEMMA FewerShook ==
    ASSUME ReadInv, ShookInv, UNCHANGED <<sc, conn, next_seq>>, NEW S,
           mail' = Without(mail, S)
    PROVE  ShookInv'
  <1>1. \A s \in DOMAIN mail' : s \in DOMAIN mail /\ mail'[s] = mail[s]
    BY DEF Without
  <1> QED BY <1>1 DEF ShookInv, NoGap, Done, Handshake

\* The start of a round, and its end with an error.
LEMMA RoundShook ==
    ReadInv /\ (BeginRound \/ CallFails \/ RoundFails \/ DeleteTimesOut) => ShookInv'
  <1>1. ASSUME ReadInv, BeginRound PROVE ShookInv'
    <2>1. /\ sc'.pass = "handshakes" /\ sc'.after = 0 /\ sc'.items = {}
          /\ UNCHANGED <<mail, next_seq>>
      BY <1>1 DEF BeginRound, BeginPass, Idle
    <2> QED BY <1>1, <2>1 DEF ReadInv, MailType, ShookInv, NoGap, Done
  <1>2. ASSUME sc' = Idle PROVE ShookInv'
    BY <1>2 DEF ShookInv, Idle
  <1> QED BY <1>1, <1>2 DEF CallFails, RoundFails, DeleteTimesOut

\* A page leaves no gap: it holds everything after the cursor up to its end.
LEMMA FetchShook == ReadInv /\ ShookInv /\ FetchPage => ShookInv'
  <1> SUFFICES ASSUME ReadInv, ShookInv, FetchPage PROVE ShookInv'
    OBVIOUS
  <1> DEFINE page == Page(mail, sc.after)
             entries == {[seq |-> s, env |-> mail[s]] : s \in page}
  <1>1. UNCHANGED relay /\ conn /\ sc.pc # "idle"
    BY DEF FetchPage
  <1>2. sc \in ScanRecord
    BY DEF ReadInv, ScanType
  <1>3. /\ sc'.pass = sc.pass /\ sc'.after = sc.after /\ sc'.until = sc.until
        /\ sc'.shook = sc.shook
        /\ sc'.items = sc.items \/ sc'.items = entries
    <2>1. CASE sc' = [sc EXCEPT !.pc = "delete"]
      BY <1>2, <2>1 DEF ScanRecord
    <2>2. CASE sc' = [sc EXCEPT !.pc = "items", !.pages = @ + 1,
                                !.last = IsLast(page), !.items = entries]
      <3> HIDE DEF entries, page
      <3> QED BY <1>2, <2>2 DEF ScanRecord
    <2> QED BY <2>1, <2>2 DEF FetchPage
  <1>4. \A s \in DOMAIN mail, t \in page : sc.after < s /\ s <= t => s \in page
    <2> SUFFICES ASSUME NEW s \in DOMAIN mail, NEW t \in page,
                        sc.after < s, s <= t
                 PROVE  s \in page
      OBVIOUS
    <2>1. /\ \A r \in DOMAIN mail : r \in Nat
          /\ sc.after \in Nat /\ t \in DOMAIN mail
      BY <1>2 DEF ReadInv, MailType, ScanRecord, Page
    <2>2. \A r \in DOMAIN mail : r <= s => r <= t
      BY <2>1
    <2> QED BY <2>1, <2>2 DEF Page
  <1>5. \A s \in DOMAIN mail, y \in entries :
            sc.after < s /\ s <= y.seq => \E z \in entries : z.seq = s
    <2> SUFFICES ASSUME NEW s \in DOMAIN mail, NEW y \in entries,
                        sc.after < s, s <= y.seq
                 PROVE  \E z \in entries : z.seq = s
      OBVIOUS
    <2>1. y.seq \in page
      OBVIOUS
    <2>2. s \in page
      BY <1>4, <2>1
    <2>3. [seq |-> s, env |-> mail[s]] \in entries
      BY <2>2
    <2> QED BY <2>3
  <1>6. NoGap'
    <2> HIDE DEF entries
    <2> QED BY <1>1, <1>3, <1>5 DEF NoGap, ShookInv, relay
  <1>7. Done' = Done
    BY <1>3 DEF Done
  <1> QED BY <1>1, <1>3, <1>6, <1>7 DEF ShookInv, Handshake, relay

\* Going over the first envelope of the page moves the cursor past nothing
\* else, and the first pass processes it if it is a handshake.
LEMMA ItemShook ==
    ASSUME ReadInv, ShookInv, NEW x \in sc.items, NEW fate,
           BeyondUntil(x) \/ ScanItem(x, fate)
    PROVE  ShookInv'
  <1>1. UNCHANGED relay /\ sc.pc # "idle" /\ sc \in ScanRecord
    BY DEF BeyondUntil, ScanItem, ReadInv, ScanType
  <1>2. CASE BeyondUntil(x)
    <2>1. /\ sc'.pass = sc.pass /\ sc'.after = sc.after /\ sc'.until = sc.until
          /\ sc'.shook = sc.shook /\ sc'.items = {}
      BY <1>1, <1>2 DEF BeyondUntil, ScanRecord
    <2> QED BY <1>1, <2>1 DEF ShookInv, NoGap, Done, Handshake, relay
  <1>3. CASE ScanItem(x, fate) /\ conn
    <2>1. /\ sc'.pass = sc.pass /\ sc'.until = sc.until /\ sc'.after = x.seq
          /\ sc'.items \subseteq sc.items
          /\ sc'.items # {} => sc'.items = sc.items \ {x}
          /\ sc'.shook = IF Selected(sc.pass, x.env) /\ sc.pass = "handshakes"
                         THEN sc.shook \cup {x.seq} ELSE sc.shook
      BY <1>1, <1>3 DEF ScanItem, ScanRecord
    <2>2. /\ sc.after < x.seq /\ Front(x)
          /\ sc.after \in Nat /\ sc.until \in Nat
          /\ \A y \in sc.items : y.seq \in Nat
          /\ \A s \in DOMAIN mail : s \in Nat
      BY <1>1, <1>3 DEF ScanItem, ScanRecord, Read, ReadInv, MailType
    <2>3. Stands(x)
      BY <1>3 DEF ReadInv, ScanStands
    <2>4. NoGap'
      <3> SUFFICES ASSUME NEW s \in DOMAIN mail, NEW y \in sc'.items,
                          x.seq < s, s <= y.seq
                   PROVE  \E z \in sc'.items : z.seq = s
        BY <1>1, <2>1 DEF NoGap, relay
      <3>1. sc.after < s
        BY <2>2
      <3>2. PICK z \in sc.items : z.seq = s
        BY <1>1, <1>3, <2>1, <3>1 DEF ShookInv, NoGap
      <3>3. z # x
        BY <2>2, <3>2
      <3> QED BY <2>1, <3>2, <3>3
    <2>5. CASE sc.pass = "messages"
      <3>1. Done' = Done /\ sc'.shook = sc.shook
        BY <2>1, <2>5 DEF Done
      <3> QED BY <1>1, <1>3, <2>4, <3>1 DEF ShookInv, Handshake, relay
    <2>6. CASE sc.pass = "handshakes"
      <3>1. Done' = x.seq /\ Done = sc.after
        BY <2>1, <2>6 DEF Done
      <3>2. ASSUME NEW s \in DOMAIN mail, s <= x.seq, Handshake(s)
            PROVE  s \in sc'.shook
        <4>1. CASE s <= sc.after
          BY <1>1, <1>3, <2>1, <3>1, <3>2, <4>1 DEF ShookInv
        <4>2. CASE sc.after < s
          <5>1. PICK z \in sc.items : z.seq = s
            BY <1>1, <1>3, <3>2, <4>2 DEF ShookInv, NoGap
          <5>2. s = x.seq
            BY <2>2, <3>2, <5>1 DEF Front
          <5>3. x.env.kind = "handshake"
            BY <2>3, <3>2, <5>2 DEF Stands, Handshake
          <5> QED BY <2>1, <2>6, <5>2, <5>3 DEF Selected
        <4> QED BY <2>2, <4>1, <4>2
      <3> QED BY <1>1, <2>3, <2>4, <3>1, <3>2 DEF ShookInv, Handshake, Stands, relay
    <2>7. sc.pass \in {"handshakes", "messages"}
      BY <1>1 DEF ScanRecord
    <2> QED BY <2>5, <2>6, <2>7
  <1>4. CASE ~conn
    BY <1>1, <1>4 DEF ShookInv, relay
  <1> QED BY <1>2, <1>3, <1>4

\* The second pass starts where the handshakes are done.
LEMMA EndShook == ReadInv /\ ShookInv /\ EndPass => ShookInv'
  <1> SUFFICES ASSUME ReadInv, ShookInv, EndPass PROVE ShookInv'
    OBVIOUS
  <1> DEFINE m == Without(mail, {x.seq : x \in sc.delete})
  <1>1. CASE sc' = Idle
    BY <1>1 DEF ShookInv, Idle
  <1>2. CASE sc.pass = "handshakes" /\ sc' = BeginPass("messages", sc.after, sc.shook, m)
    <2>1. /\ sc'.pass = "messages" /\ sc'.until = sc.after
          /\ sc'.shook = sc.shook /\ sc'.items = {}
      BY <1>2 DEF BeginPass, Idle
    <2>2. \A s \in DOMAIN mail' : s \in DOMAIN mail /\ mail'[s] = mail[s]
      BY DEF EndPass, Without
    <2>3. Done' = Done
      BY <1>2, <2>1 DEF Done
    <2>4. sc.pc # "idle" /\ UNCHANGED <<conn, next_seq>>
      BY DEF EndPass
    <2> QED BY <2>1, <2>2, <2>3, <2>4 DEF ShookInv, NoGap, Handshake
  <1> QED BY <1>1, <1>2 DEF EndPass, NextPass

\* A SEND appends: its number is above everything the scan has reached.
LEMMA OthersShook == ReadInv /\ ShookInv /\ Others => ShookInv'
  <1> SUFFICES ASSUME ReadInv, ShookInv, Others PROVE ShookInv'
    OBVIOUS
  <1>1. UNCHANGED sc
    BY DEF Others
  <1>2. ASSUME NEW e \in Envelope, Send(e) PROVE ShookInv'
    <2>1. CASE conn /\ sc.pc # "idle"
      <3>1. /\ next_seq \in Nat /\ next_seq' = next_seq + 1 /\ conn' = conn
            /\ DOMAIN mail' = DOMAIN mail \cup {next_seq}
            /\ \A s \in DOMAIN mail : mail'[s] = mail[s]
        BY <1>2 DEF Send, ReadInv, MailType
      <3>2. \A y \in sc.items : y.seq \in Nat /\ y.seq < next_seq
        BY <2>1 DEF ReadInv, ScanStands, Stands, ScanType, ScanRecord, Read
      <3>3. Done \in Nat /\ Done < next_seq /\ Done' = Done
        BY <1>1, <2>1 DEF ReadInv, ScanType, ScanRecord, Done, ShookInv
      <3>4. NoGap'
        BY <1>1, <2>1, <3>1, <3>2 DEF NoGap, ShookInv
      <3> QED BY <1>1, <2>1, <3>1, <3>3, <3>4 DEF ShookInv, Handshake
    <2>2. CASE ~(conn /\ sc.pc # "idle")
      BY <1>1, <1>2, <2>2 DEF Send, ShookInv
    <2> QED BY <2>1, <2>2
  <1>3. CASE SendElsewhere
    <2>1. ReadInv => Done \in Nat /\ next_seq \in Nat
      BY DEF ReadInv, ScanType, ScanRecord, MailType, Done
    <2>2. Done' = Done /\ NoGap' = NoGap
      BY <1>1, <1>3 DEF SendElsewhere, Done, NoGap
    <2> QED BY <1>1, <1>3, <2>1, <2>2 DEF SendElsewhere, ShookInv, Handshake
  <1>4. ASSUME NEW s, Vanish(s) PROVE ShookInv'
    BY <1>1, <1>4, FewerShook DEF Vanish
  <1>5. ASSUME NEW d \in late, LateDelete(d) PROVE ShookInv'
    BY <1>1, <1>5, FewerShook DEF LateDelete
  <1>6. CASE Restart
    BY <1>6 DEF Restart, ShookInv
  <1> QED BY <1>2, <1>3, <1>4, <1>5, <1>6 DEF Others

\* Every step keeps ShookInv.
LEMMA StepShook == ReadInv /\ ShookInv /\ [Next]_vars => ShookInv'
  <1> SUFFICES ASSUME ReadInv, ShookInv, [Next]_vars PROVE ShookInv'
    OBVIOUS
  <1>1. CASE UNCHANGED vars
    BY <1>1 DEF vars, relay, ShookInv, NoGap, Done, Handshake
  <1>2. CASE Next
    BY <1>2, RoundShook, FetchShook, ItemShook, EndShook, OthersShook DEF Next, Scan
  <1> QED BY <1>1, <1>2

\* The second pass never processes a message while a handshake that was in the
\* mailbox before it is unprocessed, whatever arrives during the two passes
\* and whatever the sizes of the pages: a first message is not looked at
\* before the handshake it belongs to.
THEOREM HandshakesFirstHolds == Spec => []HandshakesFirst
  <1>1. ReadInv /\ ShookInv => HandshakesFirst
    BY DEF ReadInv, ScanType, ScanRecord, Read, MailType, ShookInv, Done,
           Handshake, HandshakesFirst
  <1> QED BY <1>1, InitRead, StepRead, InitShook, StepShook, PTL DEF Spec

-----------------------------------------------------------------------------
(* A page that is not full is the last one.  The size of a response is a   *)
(* sum over a set; that its recursion is well defined, and what bounds it, *)
(* follow by taking a smallest set for which they would fail.              *)

\* A set of numbers that is not empty has a least one.
LEMMA LeastNumber ==
    ASSUME NEW T \in SUBSET Nat, T # {}
    PROVE  \E n \in T : \A k \in T : n <= k
<1>1. PICK n \in T : \A k \in T : ~ (<<k, n>> \in OpToRel(<, Nat))
  BY NatLessThanWellFounded, WFMin
<1>2. \A k \in T : ~ (k < n)
  BY <1>1 DEF OpToRel
<1> QED
  BY <1>2

\* And a set of finite sets has one that is minimal.
LEMMA SmallestSet ==
    ASSUME NEW S, IsFiniteSet(S), NEW B \in SUBSET SUBSET S, B # {}
    PROVE  \E T \in B : \A U \in B : U \subseteq T => U = T
<1>1. \A T \in B : IsFiniteSet(T) /\ Cardinality(T) \in Nat
  BY FS_Subset, FS_CardinalityType
<1> DEFINE N == {Cardinality(T) : T \in B}
<1>2. N \in SUBSET Nat /\ N # {}
  BY <1>1
<1>3. PICK n \in N : \A k \in N : n <= k
  <2> HIDE DEF N
  <2> QED
    BY <1>2, LeastNumber
<1>4. PICK T \in B : n = Cardinality(T)
  BY <1>3
<1>5. ASSUME NEW U \in B, U \subseteq T
      PROVE  U = T
  <2>1. Cardinality(T) <= Cardinality(U)
    BY <1>3, <1>4
  <2>2. Cardinality(U) <= Cardinality(T)
    BY <1>1, <1>5, FS_Subset
  <2> QED
    BY <1>1, <1>5, <2>1, <2>2, FS_Subset
<1> QED
  BY <1>5

\* The recursion of a sum over a set.
Chosen(s) == CHOOSE x \in s : TRUE
SumStep(m, g, s) == IF s = {} THEN 0 ELSE m[Chosen(s)].size + g[s \ {Chosen(s)}]
Sums(m, S, g) == g = [s \in SUBSET S |-> SumStep(m, g, s)]

\* An element is chosen.
LEMMA ChosenIsIn == \A s : s # {} => Chosen(s) \in s
  BY DEF Chosen

\* There is at most one way.
LEMMA SumsUnique ==
    ASSUME NEW m, NEW S, IsFiniteSet(S), NEW R \in SUBSET S, NEW g, NEW h, Sums(m, S, g), Sums(m, R, h)
    PROVE  \A s \in SUBSET R : g[s] = h[s]
<1> DEFINE B == {s \in SUBSET R : g[s] # h[s]}
<1>0. /\ \A s \in SUBSET S : g[s] = SumStep(m, g, s)
      /\ \A s \in SUBSET R : h[s] = SumStep(m, h, s)
  BY DEF Sums
<1> SUFFICES ASSUME B # {}
             PROVE  FALSE
  OBVIOUS
<1>1. PICK T \in B : \A U \in B : U \subseteq T => U = T
  <2>1. B \in SUBSET SUBSET S
    OBVIOUS
  <2> HIDE DEF B
  <2> QED
    BY <2>1, SmallestSet
<1>2. T # {}
  BY <1>0 DEF SumStep
<1>3. Chosen(T) \in T
  BY <1>2, ChosenIsIn
<1>4. T \ {Chosen(T)} \notin B
  BY <1>1, <1>3
<1>5. g[T \ {Chosen(T)}] = h[T \ {Chosen(T)}]
  BY <1>4
<1>6. g[T] = h[T]
  BY <1>0, <1>2, <1>5 DEF SumStep
<1> QED
  BY <1>6

\* And there is one.
LEMMA SumsExist ==
    ASSUME NEW m, NEW S, IsFiniteSet(S)
    PROVE  \E g : Sums(m, S, g)
<1> DEFINE B == {s \in SUBSET S : ~ \E g : Sums(m, s, g)}
<1> SUFFICES ASSUME B # {}
             PROVE  FALSE
  OBVIOUS
<1>1. PICK T \in B : \A U \in B : U \subseteq T => U = T
  <2>1. B \in SUBSET SUBSET S
    OBVIOUS
  <2> HIDE DEF B
  <2> QED
    BY <2>1, SmallestSet
<1>2. IsFiniteSet(T) /\ \A U \in SUBSET T : IsFiniteSet(U)
  BY <1>1, FS_Subset
<1>3. \A U \in SUBSET T : U # T => \E g : Sums(m, U, g)
  BY <1>1
<1> DEFINE own(s) == CHOOSE g : Sums(m, s, g)
           val == [s \in SUBSET T |-> own(s)[s]]
           new == [s \in SUBSET T |-> SumStep(m, val, s)]
<1>4. \A U \in SUBSET T : U # T => Sums(m, U, own(U))
  BY <1>3
<1>5. ASSUME NEW s \in SUBSET T, s # T
      PROVE  new[s] = val[s]
  <2>1. Sums(m, s, own(s))
    BY <1>4, <1>5
  <2>2. val[s] = own(s)[s]
    OBVIOUS
  <2>3. own(s)[s] = SumStep(m, own(s), s)
    <3>1. PICK g : g = own(s)
      OBVIOUS
    <3> HIDE DEF own
    <3>2. g[s] = SumStep(m, g, s)
      BY <2>1, <3>1 DEF Sums
    <3> QED
      BY <3>1, <3>2
  <2>4. new[s] = SumStep(m, val, s)
    OBVIOUS
  <2>5. CASE s = {}
    BY <2>2, <2>3, <2>4, <2>5 DEF SumStep
  <2>6. CASE s # {}
    <3> DEFINE r == s \ {Chosen(s)}
    <3>1. Chosen(s) \in s /\ r \in SUBSET T /\ r # T /\ r \in SUBSET s
      BY <1>5, <2>6, ChosenIsIn
    <3>2. Sums(m, r, own(r)) /\ val[r] = own(r)[r]
      BY <1>4, <3>1
    <3>3. own(s)[r] = own(r)[r]
      <4> HIDE DEF own, r
      <4> QED
        BY <1>2, <2>1, <3>1, <3>2, SumsUnique
    <3> HIDE DEF own, val, new
    <3> QED
      BY <2>2, <2>3, <2>4, <2>6, <3>2, <3>3 DEF SumStep
  <2> QED
    BY <2>5, <2>6
<1>6. ASSUME NEW s \in SUBSET T
      PROVE  SumStep(m, val, s) = SumStep(m, new, s)
  <2>1. CASE s = {}
    BY <2>1 DEF SumStep
  <2>2. CASE s # {}
    <3> DEFINE r == s \ {Chosen(s)}
    <3>1. r \in SUBSET T /\ r # T
      BY <2>2, ChosenIsIn
    <3>2. new[r] = val[r]
      BY <1>5, <3>1
    <3> HIDE DEF val, new
    <3> QED
      BY <2>2, <3>2 DEF SumStep
  <2> QED
    BY <2>1, <2>2
<1>7. new = [s \in SUBSET T |-> SumStep(m, new, s)]
  <2> HIDE DEF val
  <2>1. PICK f : f = new
    OBVIOUS
  <2>2. f = [s \in SUBSET T |-> SumStep(m, val, s)] /\ \A s \in SUBSET T : SumStep(m, val, s) = SumStep(m, f, s)
    BY <1>6, <2>1
  <2>3. f = [s \in SUBSET T |-> SumStep(m, f, s)]
    BY <2>2
  <2> QED
    BY <2>1, <2>3
<1>8. \E g : Sums(m, T, g)
  BY <1>7 DEF Sums
<1> QED
  BY <1>1, <1>8

\* A sum of numbers up to k.
LEMMA SumBound ==
    ASSUME NEW m, NEW S, IsFiniteSet(S), NEW k \in Nat, NEW g, Sums(m, S, g),
           \A x \in S : m[x].size \in Nat /\ m[x].size <= k
    PROVE  g[S] \in Nat /\ g[S] <= k * Cardinality(S)
<1> DEFINE B == {s \in SUBSET S : ~ (g[s] \in Nat /\ g[s] <= k * Cardinality(s))}
<1>0. \A s \in SUBSET S : g[s] = SumStep(m, g, s)
  BY DEF Sums
<1> SUFFICES ASSUME B # {}
             PROVE  FALSE
  OBVIOUS
<1>1. PICK T \in B : \A U \in B : U \subseteq T => U = T
  <2>1. B \in SUBSET SUBSET S
    OBVIOUS
  <2> HIDE DEF B
  <2> QED
    BY <2>1, SmallestSet
<1>2. IsFiniteSet(T) /\ Cardinality(T) \in Nat
  BY <1>1, FS_Subset, FS_CardinalityType
<1>3. T # {}
  <2> SUFFICES ASSUME T = {}
               PROVE  FALSE
    OBVIOUS
  <2>1. g[T] = 0 /\ Cardinality(T) = 0
    BY <1>0, FS_EmptySet DEF SumStep
  <2>2. k * Cardinality(T) = 0
    BY <2>1
  <2> QED
    BY <1>1, <2>1, <2>2
<1> DEFINE r == T \ {Chosen(T)}
<1>4. Chosen(T) \in T
  BY <1>3, ChosenIsIn
<1>5. r \notin B
  BY <1>1, <1>4
<1>6. Cardinality(r) = Cardinality(T) - 1 /\ Cardinality(r) \in Nat
  BY <1>2, <1>4, FS_RemoveElement, FS_CardinalityType
<1>7. g[r] \in Nat /\ g[r] <= k * Cardinality(r)
  BY <1>5
<1>8. g[T] = m[Chosen(T)].size + g[r]
  BY <1>0, <1>3 DEF SumStep
<1>9. m[Chosen(T)].size \in Nat /\ m[Chosen(T)].size <= k
  BY <1>4
<1> DEFINE c == Cardinality(r)
<1>10. k * (c + 1) = k * c + k /\ c + 1 = Cardinality(T) /\ k * c \in Nat
  <2> HIDE DEF r
  <2>1. c \in Nat /\ c + 1 = Cardinality(T)
    BY <1>2, <1>6
  <2> HIDE DEF c
  <2> QED
    BY <2>1
<1> HIDE DEF r
<1>11. g[T] \in Nat /\ g[T] <= k * Cardinality(T)
  BY <1>7, <1>8, <1>9, <1>10
<1> QED
  BY <1>11

\* The size of a response.
SizeSum(m, S) == MapThenSumSet(LAMBDA t : m[t].size, S)

\* It is that sum.
LEMMA SumIs ==
    ASSUME NEW m, NEW S, IsFiniteSet(S)
    PROVE  \E g : Sums(m, S, g) /\ SizeSum(m, S) = g[S]
<1> DEFINE it == CHOOSE g : Sums(m, S, g)
<1>1. Sums(m, S, it)
  BY SumsExist
<1>2. SizeSum(m, S) = it[S]
  BY DEF SizeSum, MapThenSumSet, MapThenFoldSet, Sums, SumStep, Chosen
<1> QED
  BY <1>1, <1>2

\* What a division gives.
LEMMA Quotient ==
    ASSUME NEW a \in Nat, NEW b \in Nat, 1 <= b
    PROVE  /\ a \div b \in Nat /\ b * (a \div b) <= a /\ a < b * (a \div b) + b
  OBVIOUS

\* At least one fits.
LEMMA QuotientPositive ==
    ASSUME NEW a \in Nat, NEW b \in Nat, 1 <= b, b <= a
    PROVE  1 <= a \div b
<1> DEFINE q == a \div b
<1>1. q \in Nat /\ b * q <= a /\ a < b * q + b
  BY Quotient
<1> HIDE DEF q
<1>2. q # 0
  <2> SUFFICES ASSUME q = 0
               PROVE  FALSE
    OBVIOUS
  <2>1. b * q = 0
    OBVIOUS
  <2> QED
    BY <1>1, <2>1
<1> QED
  BY <1>1, <1>2 DEF q

\* Rounded up, the parts are enough.
LEMMA QuotientUp ==
    ASSUME NEW m \in Nat, NEW b \in Nat, 1 <= b
    PROVE  /\ (m + b - 1) \div b \in Nat /\ m <= b * ((m + b - 1) \div b)
<1> DEFINE a == m + b - 1
           q == a \div b
<1>1. a \in Nat 
  OBVIOUS
<1> HIDE DEF a
<1>2. q \in Nat /\ b * q <= a /\ a < b * q + b
  BY <1>1, Quotient
<1> HIDE DEF q
<1>3. b * q \in Nat
  BY <1>2
<1> DEFINE c == b * q
<1>4. c \in Nat /\ a < c + b
  BY <1>2, <1>3
<1> HIDE DEF c
<1>5. m <= c
  BY <1>4 DEF a
<1> QED
  BY <1>2, <1>5 DEF a, q, c

\* MIN_PAGE: one envelope fits at least, and that many of the largest do.
LEMMA MinPageFits ==
    /\ MinPage \in Nat /\ 1 <= MinPage /\ MaxSize * MinPage <= Frame
    /\ MaxScanPages \in Nat /\ MaxMailbox <= MinPage * MaxScanPages
<1>1. MaxSize \in Nat /\ Frame \in Nat /\ MaxMailbox \in Nat /\ 1 <= MaxSize /\ MaxSize <= Frame
  BY RelayAssumption
<1>2. MinPage \in Nat /\ MaxSize * MinPage <= Frame
  BY <1>1, Quotient DEF MinPage
<1>3. 1 <= MinPage
  BY <1>1, QuotientPositive DEF MinPage
<1>4. MaxScanPages \in Nat /\ MaxMailbox <= MinPage * MaxScanPages
  BY <1>1, <1>2, <1>3, QuotientUp DEF MaxScanPages, MaxScanEnvelopes
<1> QED
  BY <1>2, <1>3, <1>4

\* A page of fewer than MIN_PAGE envelopes holds everything after the cursor.
LEMMA ShortPageIsAll ==
    ASSUME NEW m, IsFiniteSet(DOMAIN m), DOMAIN m \subseteq Nat,
           \A t \in DOMAIN m : m[t] \in Envelope,
           NEW after \in Nat, IsLast(Page(m, after))
    PROVE  Page(m, after) = {s \in DOMAIN m : s > after}
<1> DEFINE rest == {s \in DOMAIN m : s > after}
           page == Page(m, after)
           out == rest \ page
<1>1. page \subseteq rest /\ \A s \in rest : s \in page <=> \A t \in rest : t <= s => Fits(m, rest, t)
  BY DEF Page
<1> SUFFICES ASSUME out # {}
             PROVE  FALSE
  BY <1>1
<1>2. PICK s \in out : \A k \in out : s <= k
  <2>1. out \in SUBSET Nat
    OBVIOUS
  <2> HIDE DEF out
  <2> QED
    BY <2>1, LeastNumber
<1>3. IsFiniteSet(rest) /\ IsFiniteSet(page) /\ rest \subseteq Nat /\ s \in rest /\ s \in Nat
  <2>1. rest \in SUBSET DOMAIN m /\ page \in SUBSET DOMAIN m
    BY <1>1
  <2> HIDE DEF rest, page
  <2>2. IsFiniteSet(rest) /\ IsFiniteSet(page)
    BY <2>1, FS_Subset
  <2> QED
    BY <1>2, <2>1, <2>2
<1>4. \A t \in rest : t <= s /\ t # s => t \in page
  BY <1>2, <1>3
<1> DEFINE upto == {t \in rest : t <= s}
<1>5. Cardinality(page) \in Nat /\ Cardinality(page) + 1 <= MinPage
  <2>1. Cardinality(page) \in Nat /\ Cardinality(page) < MinPage
    BY <1>3, FS_CardinalityType DEF IsLast
  <2> HIDE DEF page
  <2> QED
    BY <2>1, MinPageFits
<1>6. /\ IsFiniteSet(upto) /\ Cardinality(upto) \in Nat /\ Cardinality(upto) <= MinPage
  <2>1. upto \in SUBSET (page \cup {s})
    BY <1>4
  <2> HIDE DEF page, upto
  <2>2. IsFiniteSet(page \cup {s}) /\ Cardinality(page \cup {s}) <= Cardinality(page) + 1
        /\ Cardinality(page \cup {s}) \in Nat
    <3>1. /\ IsFiniteSet(page \cup {s})
          /\ Cardinality(page \cup {s}) =
               IF s \in page THEN Cardinality(page) ELSE Cardinality(page) + 1
      BY <1>3, FS_AddElement
    <3> QED
      BY <1>5, <3>1
  <2>3. IsFiniteSet(upto) /\ Cardinality(upto) <= Cardinality(page \cup {s})
    BY <2>1, <2>2, FS_Subset
  <2> QED
    BY <1>5, <2>2, <2>3, FS_CardinalityType, MinPageFits
<1>7. \A t \in upto : m[t].size \in Nat /\ m[t].size <= MaxSize
  BY RelayAssumption
<1>8. SizeSum(m, upto) <= Frame
  <2> HIDE DEF upto
  <2>1. PICK g : Sums(m, upto, g) /\ SizeSum(m, upto) = g[upto]
    BY <1>6, SumIs
  <2>2. MaxSize \in Nat /\ Frame \in Nat
    BY RelayAssumption
  <2>3. g[upto] \in Nat /\ g[upto] <= MaxSize * Cardinality(upto)
    BY <1>6, <1>7, <2>1, <2>2, SumBound
  <2> DEFINE c == Cardinality(upto)
  <2>4. c \in Nat /\ c <= MinPage
    BY <1>6
  <2> HIDE DEF c
  <2>5. MaxSize * c <= MaxSize * MinPage /\ MaxSize * c \in Nat /\ MaxSize * MinPage \in Nat
    BY <2>2, <2>4, MinPageFits
  <2> QED
    BY <2>1, <2>2, <2>3, <2>5, MinPageFits DEF c
<1>9. Fits(m, rest, s)
  <2>1. Cardinality(upto) <= MaxFetch
    BY <1>6, MinPageFits, RelayAssumption
  <2> QED
    BY <1>8, <2>1 DEF Fits, SizeSum
<1>10. \A t \in rest : t <= s => Fits(m, rest, t)
  <2> SUFFICES ASSUME NEW t \in rest, t <= s, t # s
               PROVE  Fits(m, rest, t)
    BY <1>9
  <2>1. t \in page
    BY <1>4
  <2> QED
    BY <1>1, <1>3, <2>1
<1> QED
  BY <1>1, <1>2, <1>3, <1>10

-----------------------------------------------------------------------------
(* A pass misses nothing.                                                  *)

\* The mailbox never holds more than its capacity.
MailCount == IsFiniteSet(DOMAIN mail) /\ Cardinality(DOMAIN mail) <= MaxMailbox

\* The numbers of the page being processed.
Seqs == {y.seq : y \in sc.items}

\* What was there when the pass began came before everything sent since.
StartBefore ==
    /\ IsFiniteSet(sc.start) /\ Cardinality(sc.start) <= MaxMailbox
    /\ \A s \in sc.start : s < next_seq
    /\ \A s \in sc.start : \A l \in DOMAIN mail \cup sc.looked \cup Seqs :
          l <= s => l \in sc.start

\* seen counts what was gone over, and nothing up to the cursor was missed.
Counted ==
    /\ IsFiniteSet(sc.looked) /\ sc.seen = Cardinality(sc.looked)
    /\ \A l \in sc.looked : l <= sc.after
    /\ \A s \in sc.start \cap DOMAIN mail : s <= sc.after => s \in sc.looked

\* Every page but the last had MIN_PAGE envelopes, and the last has all the rest.
FullPages ==
    /\ sc.pc = "fetch" => MinPage * sc.pages <= sc.seen
    /\ sc.pc = "items" /\ ~sc.last =>
          IsFiniteSet(Seqs) /\ MinPage * sc.pages <= sc.seen + Cardinality(Seqs)
    /\ sc.pc = "items" /\ sc.last =>
          \A s \in sc.start \cap DOMAIN mail : s > sc.after => s \in Seqs

CoverInv ==
    /\ MailCount
    /\ conn /\ sc.pc # "idle" => StartBefore /\ Counted /\ FullPages /\ ScanCovers

\* An envelope that was there when the pass began and was not reached is one
\* that seen does not count.
LEMMA MissingIsUncounted ==
    ASSUME NEW start, NEW looked, IsFiniteSet(start), Cardinality(start) <= MaxMailbox,
           IsFiniteSet(looked), looked \subseteq start, NEW s \in start, s \notin looked
    PROVE  Cardinality(looked) < MaxMailbox
<1>1. looked \in SUBSET (start \ {s})
  OBVIOUS
<1>2. IsFiniteSet(start \ {s}) /\ Cardinality(start \ {s}) = Cardinality(start) - 1
  BY FS_RemoveElement
<1>3. Cardinality(looked) <= Cardinality(start \ {s})
  BY <1>1, <1>2, FS_Subset
<1>4. Cardinality(start) \in Nat /\ Cardinality(looked) \in Nat /\ MaxMailbox \in Nat
  BY FS_CardinalityType, RelayAssumption
<1> QED
  BY <1>2, <1>3, <1>4

\* A pass begins with all of the mailbox ahead of it.
LEMMA PassCovers ==
    ASSUME MailType', MailCount', NEW pass, NEW until, NEW shook,
           sc' = BeginPass(pass, until, shook, mail')
    PROVE  CoverInv'
<1>1. /\ sc'.pc = "fetch" /\ sc'.start = DOMAIN mail' /\ sc'.looked = {} /\ sc'.items = {}
      /\ sc'.after = 0 /\ sc'.seen = 0 /\ sc'.pages = 0
  BY DEF BeginPass, Idle
<1>2. StartBefore'
  <2>1. Seqs' = {}
    BY <1>1 DEF Seqs
  <2> QED
    BY <1>1, <2>1 DEF StartBefore, MailCount, MailType
<1>3. Counted'
  BY <1>1, FS_EmptySet DEF Counted, MailType
<1>4. FullPages' /\ ScanCovers'
  <2>1. MinPage * 0 <= 0
    BY MinPageFits
  <2> QED
    BY <1>1, <2>1 DEF FullPages, ScanCovers
<1> QED
  BY <1>2, <1>3, <1>4 DEF CoverInv

\* The relay removes envelopes: the mailbox stays within its capacity.
LEMMA RemovalCount ==
    ASSUME MailCount, NEW S, mail' = Without(mail, S)
    PROVE  MailCount'
<1>1. DOMAIN mail' \in SUBSET DOMAIN mail
  BY DEF Without
<1>2. IsFiniteSet(DOMAIN mail') /\ Cardinality(DOMAIN mail') <= Cardinality(DOMAIN mail)
  BY <1>1, FS_Subset DEF MailCount
<1>3. /\ Cardinality(DOMAIN mail) \in Nat /\ Cardinality(DOMAIN mail') \in Nat
      /\ MaxMailbox \in Nat
  BY <1>2, FS_CardinalityType, RelayAssumption DEF MailCount
<1> QED
  BY <1>2, <1>3 DEF MailCount

\* It removes envelopes while the reader scans: nothing is missed.
LEMMA FewerCovered ==
    ASSUME CoverInv, UNCHANGED <<sc, conn, next_seq>>, NEW S, mail' = Without(mail, S)
    PROVE  CoverInv'
<1>1. \A s \in DOMAIN mail' : s \in DOMAIN mail
  BY DEF Without
<1>2. MailCount'
  BY RemovalCount DEF CoverInv
<1>3. Seqs' = Seqs
  BY DEF Seqs
<1> QED
  BY <1>1, <1>2, <1>3 DEF CoverInv, StartBefore, Counted, FullPages, ScanCovers

\* The start of a round, and its end with an error.
LEMMA RoundCovers ==
    ASSUME ReadInv, CoverInv, BeginRound \/ CallFails \/ RoundFails \/ DeleteTimesOut
    PROVE  CoverInv'
<1>1. mail' = mail /\ next_seq' = next_seq /\ MailCount' /\ MailType'
  BY DEF BeginRound, CallFails, RoundFails, DeleteTimesOut, relay, CoverInv, MailCount, ReadInv,
         MailType
<1>2. CASE BeginRound
  <2>1. sc' = BeginPass("handshakes", U64Max, {}, mail')
    BY <1>1, <1>2 DEF BeginRound
  <2> QED
    BY <1>1, <2>1, PassCovers
<1>3. CASE sc' = Idle
  BY <1>1, <1>3 DEF CoverInv, Idle
<1> QED
  BY <1>2, <1>3 DEF CallFails, RoundFails, DeleteTimesOut

\* The end of a pass.
LEMMA EndCovers ==
    ASSUME ReadInv, CoverInv, EndPass
    PROVE  CoverInv'
<1> DEFINE S == {x.seq : x \in sc.delete}
<1>1. mail' = Without(mail, S) /\ UNCHANGED next_seq
  BY DEF EndPass
<1>2. MailCount' /\ MailType'
  BY <1>1, RemovalCount, RemovalKeeps DEF CoverInv, ReadInv
<1>3. sc' = BeginPass("messages", sc.after, sc.shook, mail') \/ sc' = Idle
  BY DEF EndPass, NextPass
<1>4. CASE sc' = Idle
  BY <1>2, <1>4 DEF CoverInv, Idle
<1> QED
  BY <1>2, <1>3, <1>4, PassCovers

\* FETCH_AFTER: a full page, or all the rest.
LEMMA FetchCovers ==
    ASSUME ReadInv, CoverInv, FetchPage
    PROVE  CoverInv'
<1> DEFINE page == Page(mail, sc.after)
           entries == {[seq |-> s, env |-> mail[s]] : s \in page}
<1>1. UNCHANGED relay /\ conn /\ sc.pc = "fetch" /\ sc \in ScanRecord
  BY DEF FetchPage, ReadInv, ScanType
<1>2. MailCount' /\ StartBefore /\ Counted /\ FullPages
  BY <1>1 DEF relay, CoverInv, MailCount
<1>3. /\ IsFiniteSet(DOMAIN mail) /\ DOMAIN mail \subseteq Nat /\ sc.after \in Nat
      /\ \A t \in DOMAIN mail : mail[t] \in Envelope
  BY <1>1 DEF CoverInv, MailCount, ReadInv, MailType, ScanRecord
<1>4. IsLast(page) => page = {s \in DOMAIN mail : s > sc.after}
  BY <1>3, ShortPageIsAll
<1>5. page \subseteq DOMAIN mail /\ IsFiniteSet(page) /\ Cardinality(page) \in Nat
  <2>1. page \in SUBSET DOMAIN mail
    BY DEF Page
  <2> HIDE DEF page
  <2> QED
    BY <1>3, <2>1, FS_Subset, FS_CardinalityType
<1>6. {y.seq : y \in entries} = page
  <2> HIDE DEF page
  <2>1. \A y \in entries : y.seq \in page
    OBVIOUS
  <2>2. ASSUME NEW s \in page
        PROVE  \E y \in entries : y.seq = s
    <3>1. [seq |-> s, env |-> mail[s]] \in entries
      OBVIOUS
    <3> QED
      BY <3>1
  <2> HIDE DEF entries
  <2> QED
    BY <2>1, <2>2
<1>7. CASE page = {} /\ sc' = [sc EXCEPT !.pc = "delete"]
  <2>1. /\ sc'.pc = "delete" /\ sc'.start = sc.start /\ sc'.looked = sc.looked
        /\ sc'.items = sc.items /\ sc'.after = sc.after /\ sc'.seen = sc.seen
        /\ sc'.until = sc.until
    BY <1>1, <1>7 DEF ScanRecord
  <2>2. \A s \in DOMAIN mail : s <= sc.after
    <3>1. IsLast(page)
      BY <1>7, FS_EmptySet, MinPageFits DEF IsLast
    <3> QED
      BY <1>3, <1>4, <1>7, <3>1
  <2>3. StartBefore' /\ Counted'
    BY <1>1, <1>2, <2>1 DEF StartBefore, Counted, Seqs, relay
  <2>4. FullPages' /\ ScanCovers'
    BY <1>1, <1>2, <2>1, <2>2 DEF FullPages, ScanCovers, Counted, relay
  <2> QED
    BY <1>2, <2>3, <2>4 DEF CoverInv
<1>8. CASE sc' = [sc EXCEPT !.pc = "items", !.pages = @ + 1, !.last = IsLast(page),
                            !.items = entries]
  <2>1. /\ sc'.pc = "items" /\ sc'.start = sc.start /\ sc'.looked = sc.looked
        /\ sc'.items = entries /\ sc'.after = sc.after /\ sc'.seen = sc.seen
        /\ sc'.until = sc.until /\ sc'.pages = sc.pages + 1 /\ sc'.last = IsLast(page)
    <3> HIDE DEF entries, page
    <3> QED
      BY <1>1, <1>8 DEF ScanRecord
  <2>2. Seqs' = page
    <3> HIDE DEF entries, page
    <3> QED
      BY <1>6, <2>1 DEF Seqs
  <2> HIDE DEF page, entries
  <2>3. StartBefore' /\ Counted'
    BY <1>1, <1>2, <1>5, <2>1, <2>2 DEF StartBefore, Counted, relay
  <2>4. ScanCovers'
    BY <2>1 DEF ScanCovers
  <2>5. FullPages'
    <3>1. CASE IsLast(page)
      BY <1>1, <1>4, <2>1, <2>2, <3>1 DEF FullPages, relay
    <3>2. CASE ~IsLast(page)
      <4>1. MinPage <= Cardinality(page)
        BY <1>5, <3>2, MinPageFits DEF IsLast
      <4>2. MinPage * sc.pages <= sc.seen /\ sc.pages \in Nat /\ sc.seen \in Nat
        BY <1>1, <1>2 DEF FullPages, ScanRecord
      <4>3. MinPage * (sc.pages + 1) = MinPage * sc.pages + MinPage
        BY <4>2, MinPageFits
      <4>4. MinPage * sc.pages \in Nat
        BY <4>2, MinPageFits
      <4>5. MinPage * (sc.pages + 1) <= sc.seen + Cardinality(page)
        BY <1>5, <4>1, <4>2, <4>3, <4>4, MinPageFits
      <4> QED
        BY <1>5, <2>1, <2>2, <3>2, <4>5 DEF FullPages
    <3> QED
      BY <3>1, <3>2
  <2> QED
    BY <1>2, <2>3, <2>4, <2>5 DEF CoverInv
<1> QED
  BY <1>7, <1>8 DEF FetchPage

\* An envelope beyond the end of the pass: everything up to the end was before it.
LEMMA BeyondCovers ==
    ASSUME ReadInv, ShookInv, CoverInv, NEW x \in sc.items, BeyondUntil(x)
    PROVE  CoverInv'
<1>1. UNCHANGED relay /\ sc.pc = "items" /\ sc \in ScanRecord /\ Front(x) /\ x.seq > sc.until
  BY DEF BeyondUntil, ReadInv, ScanType
<1>2. /\ sc'.pc = "delete" /\ sc'.start = sc.start /\ sc'.looked = sc.looked
      /\ sc'.items = {} /\ sc'.after = sc.after /\ sc'.seen = sc.seen
      /\ sc'.until = sc.until
  BY <1>1 DEF BeyondUntil, ScanRecord
<1>3. MailCount'
  BY <1>1 DEF CoverInv, MailCount, relay
<1>4. CASE conn
  <2>1. StartBefore /\ Counted /\ NoGap
    BY <1>1, <1>4 DEF CoverInv, ShookInv
  <2>2. Seqs' = {}
    BY <1>2 DEF Seqs
  <2>3. StartBefore' /\ Counted'
    BY <1>1, <1>2, <2>1, <2>2 DEF StartBefore, Counted, relay
  <2>4. ASSUME NEW s \in sc.start \cap DOMAIN mail, s <= sc.until
        PROVE  s \in sc.looked
    <3>1. /\ s \in Nat /\ sc.after \in Nat /\ sc.until \in Nat
          /\ \A y \in sc.items : y.seq \in Nat
      BY <1>1 DEF ReadInv, MailType, ScanRecord, Read
    <3>2. ~(sc.after < s)
      <4> SUFFICES ASSUME sc.after < s
                   PROVE  FALSE
        OBVIOUS
      <4>1. PICK z \in sc.items : z.seq = s
        BY <1>1, <2>1, <2>4, <3>1 DEF NoGap
      <4> QED
        BY <1>1, <2>4, <3>1, <4>1 DEF Front
    <3> QED
      BY <2>1, <3>1, <3>2 DEF Counted
  <2>5. FullPages' /\ ScanCovers'
    BY <1>1, <1>2, <2>4 DEF FullPages, ScanCovers, relay
  <2> QED
    BY <1>3, <2>3, <2>5 DEF CoverInv
<1>5. CASE ~conn
  BY <1>1, <1>3, <1>5 DEF CoverInv, relay
<1> QED
  BY <1>4, <1>5

\* One envelope of the page: when the pass ends with it, nothing is left.
LEMMA ItemCovers ==
    ASSUME ReadInv, ShookInv, CoverInv, NEW x \in sc.items, NEW fate, ScanItem(x, fate)
    PROVE  CoverInv'
<1>1. /\ UNCHANGED relay /\ sc.pc = "items" /\ sc \in ScanRecord /\ Front(x)
      /\ sc.after < x.seq
  BY DEF ScanItem, ReadInv, ScanType
<1>2. /\ sc'.pc = Following(x, sc.seen + 1) /\ sc'.start = sc.start
      /\ sc'.looked = sc.looked \cup {x.seq} /\ sc'.after = x.seq /\ sc'.seen = sc.seen + 1
      /\ sc'.until = sc.until /\ sc'.pages = sc.pages /\ sc'.last = sc.last
      /\ sc'.items = IF sc'.pc = "items" THEN sc.items \ {x} ELSE {}
  BY <1>1 DEF ScanItem, ScanRecord
<1>3. MailCount'
  BY <1>1 DEF CoverInv, MailCount, relay
<1>4. CASE ~conn
  BY <1>1, <1>3, <1>4 DEF CoverInv, relay
<1>5. CASE conn
  <2>1. StartBefore /\ Counted /\ FullPages /\ NoGap
    BY <1>1, <1>5 DEF CoverInv, ShookInv
  <2>2. /\ sc.after \in Nat /\ sc.until \in Nat /\ sc.seen \in Nat /\ sc.pages \in Nat
        /\ x.seq \in Nat
        /\ \A y \in sc.items : y.seq \in Nat
        /\ \A s \in DOMAIN mail : s \in Nat
        /\ sc.start \subseteq Nat /\ sc.looked \subseteq Nat /\ sc.last \in BOOLEAN
    BY <1>1 DEF ReadInv, MailType, ScanRecord, Read
  <2>3. x.seq \in Seqs /\ Seqs' \subseteq Seqs
    BY <1>2 DEF Seqs
  <2>4. StartBefore'
    BY <1>1, <1>2, <2>1, <2>3 DEF StartBefore, relay
  <2>5. x.seq \notin sc.looked
    BY <1>1, <2>1, <2>2 DEF Counted
  <2>6. /\ IsFiniteSet(sc'.looked) /\ sc'.seen = Cardinality(sc'.looked)
        /\ \A l \in sc'.looked : l <= sc'.after
    <3>1. IsFiniteSet(sc.looked \cup {x.seq})
          /\ Cardinality(sc.looked \cup {x.seq}) = Cardinality(sc.looked) + 1
      BY <2>1, <2>5, FS_AddElement DEF Counted
    <3> QED
      BY <1>1, <1>2, <2>1, <2>2, <3>1 DEF Counted
  <2>7. ASSUME NEW s \in sc.start \cap DOMAIN mail, s <= x.seq
        PROVE  s \in sc'.looked
    <3>1. CASE s <= sc.after
      BY <1>2, <2>1, <3>1 DEF Counted
    <3>2. CASE sc.after < s
      <4>1. PICK z \in sc.items : z.seq = s
        BY <2>1, <2>7, <3>2 DEF NoGap
      <4>2. s = x.seq
        BY <1>1, <2>2, <2>7, <4>1 DEF Front
      <4> QED
        BY <1>2, <4>2
    <3> QED
      BY <2>2, <3>1, <3>2
  <2>8. Counted'
    BY <1>1, <1>2, <2>6, <2>7 DEF Counted, relay
  <2>9. ASSUME sc.items = {x}
        PROVE  /\ ~sc.last => MinPage * sc.pages <= sc.seen + 1
               /\ sc.last => \A s \in sc.start \cap DOMAIN mail : s <= x.seq
    <3>1. Seqs = {x.seq}
      BY <2>9 DEF Seqs
    <3>2. Cardinality({x.seq}) = 1
      BY FS_Singleton
    <3> QED
      BY <1>1, <2>1, <2>2, <3>1, <3>2 DEF FullPages
  <2>10. ScanCovers'
    <3> SUFFICES ASSUME sc'.pc = "delete", NEW s \in sc.start \cap DOMAIN mail,
                        s <= sc.until, s \notin sc'.looked
                 PROVE  FALSE
      BY <1>1, <1>2 DEF ScanCovers, relay
    <3>1. x.seq < s /\ s \in Nat
      BY <2>2, <2>7
    <3>2. sc'.looked \subseteq sc.start
      <4>1. \A l \in sc'.looked : l <= s /\ l \in DOMAIN mail \cup sc.looked \cup Seqs
        BY <1>2, <2>1, <2>2, <2>3, <3>1, <1>1 DEF Counted
      <4> QED
        BY <2>1, <4>1 DEF StartBefore
    <3>3. sc.seen + 1 < MaxMailbox
      <4>1. Cardinality(sc'.looked) < MaxMailbox
        BY <2>1, <2>6, <3>2, MissingIsUncounted DEF StartBefore
      <4> QED
        BY <1>2, <2>6, <4>1
    <3>4. \/ sc.seen + 1 = MaxMailbox \/ x.seq = sc.until
          \/ sc.items = {x} /\ (sc.last \/ sc.pages = MaxScanPages)
      BY <1>2 DEF Following, MaxScanEnvelopes
    <3>5. sc.items = {x} /\ ~sc.last /\ sc.pages = MaxScanPages
      BY <2>2, <2>9, <3>1, <3>3, <3>4, RelayAssumption
    <3>6. MinPage * MaxScanPages <= sc.seen + 1
      BY <2>9, <3>5
    <3>7. MinPage * MaxScanPages \in Nat /\ MaxMailbox \in Nat
      BY MinPageFits, RelayAssumption
    <3> QED
      BY <2>2, <3>3, <3>6, <3>7, MinPageFits
  <2>11. FullPages'
    <3>1. CASE sc'.pc = "fetch"
      <4>1. sc.items = {x} /\ ~sc.last
        BY <1>2, <3>1 DEF Following
      <4> QED
        BY <1>2, <2>9, <3>1, <4>1 DEF FullPages
    <3>2. CASE sc'.pc = "items" /\ ~sc.last
      <4>1. IsFiniteSet(Seqs) /\ MinPage * sc.pages <= sc.seen + Cardinality(Seqs)
        BY <1>1, <2>1, <3>2 DEF FullPages
      <4>2. IsFiniteSet(Seqs \ {x.seq}) /\ Cardinality(Seqs \ {x.seq}) = Cardinality(Seqs) - 1
        BY <2>3, <4>1, FS_RemoveElement
      <4>3. Seqs \ {x.seq} \in SUBSET Seqs' /\ Seqs' \in SUBSET Seqs
        BY <1>2, <2>3, <3>2 DEF Seqs
      <4>4. IsFiniteSet(Seqs') /\ Cardinality(Seqs \ {x.seq}) <= Cardinality(Seqs')
        BY <4>1, <4>3, FS_Subset
      <4>5. Cardinality(Seqs) \in Nat /\ Cardinality(Seqs') \in Nat
        BY <4>1, <4>4, FS_CardinalityType
      <4>6. MinPage * sc.pages \in Nat
        BY <2>2, MinPageFits
      <4>7. MinPage * sc.pages <= sc.seen + 1 + Cardinality(Seqs')
        BY <2>2, <4>1, <4>2, <4>4, <4>5, <4>6
      <4> QED
        BY <1>2, <3>2, <4>4, <4>7 DEF FullPages
    <3>3. CASE sc'.pc = "items" /\ sc.last
      <4>1. ASSUME NEW s \in sc.start \cap DOMAIN mail, s > x.seq
            PROVE  s \in Seqs'
        <5>1. s \in Seqs
          BY <1>1, <2>1, <2>2, <3>3, <4>1 DEF FullPages
        <5>2. PICK z \in sc.items : z.seq = s
          BY <5>1 DEF Seqs
        <5>3. z \in sc'.items
          BY <1>2, <2>2, <3>3, <4>1, <5>2
        <5> QED
          BY <5>2, <5>3 DEF Seqs
      <4> QED
        BY <1>1, <1>2, <3>3, <4>1 DEF FullPages, relay
    <3>4. CASE sc'.pc \notin {"fetch", "items"}
      BY <3>4 DEF FullPages
    <3> QED
      BY <2>2, <3>1, <3>2, <3>3, <3>4
  <2> QED
    BY <1>3, <2>4, <2>8, <2>10, <2>11 DEF CoverInv
<1> QED
  BY <1>4, <1>5

\* What others do at the relay.
LEMMA OthersCover ==
    ASSUME ReadInv, CoverInv, Others
    PROVE  CoverInv'
<1>1. UNCHANGED sc
  BY DEF Others
<1>2. Seqs' = Seqs
  BY <1>1 DEF Seqs
<1>3. ASSUME NEW e \in Envelope, Send(e)
      PROVE  CoverInv'
  <2>1. /\ next_seq \in Nat /\ next_seq' = next_seq + 1 /\ conn' = conn
        /\ DOMAIN mail' = DOMAIN mail \cup {next_seq}
        /\ Cardinality(DOMAIN mail) < MaxMailbox
    BY <1>3 DEF Send, ReadInv, MailType
  <2>2. MailCount'
    <3>1. IsFiniteSet(DOMAIN mail \cup {next_seq})
          /\ Cardinality(DOMAIN mail \cup {next_seq}) \in {Cardinality(DOMAIN mail),
                                                          Cardinality(DOMAIN mail) + 1}
      BY FS_AddElement DEF CoverInv, MailCount
    <3>2. Cardinality(DOMAIN mail) \in Nat /\ MaxMailbox \in Nat
      BY FS_CardinalityType, RelayAssumption DEF CoverInv, MailCount
    <3> QED
      BY <2>1, <3>1, <3>2 DEF MailCount
  <2>3. CASE conn /\ sc.pc # "idle"
    <3>1. StartBefore /\ Counted /\ FullPages /\ ScanCovers
      BY <2>3 DEF CoverInv
    <3>2. sc.start \subseteq Nat /\ next_seq \notin sc.start
      BY <2>1, <3>1 DEF StartBefore, ReadInv, ScanType, ScanRecord
    <3>3. StartBefore'
      BY <1>1, <1>2, <2>1, <3>1, <3>2 DEF StartBefore
    <3>4. Counted' /\ FullPages' /\ ScanCovers'
      BY <1>1, <1>2, <2>1, <3>1, <3>2 DEF Counted, FullPages, ScanCovers
    <3> QED
      BY <2>2, <3>3, <3>4 DEF CoverInv
  <2>4. CASE ~(conn /\ sc.pc # "idle")
    BY <1>1, <2>1, <2>2, <2>4 DEF CoverInv
  <2> QED
    BY <2>3, <2>4
<1>4. CASE SendElsewhere
  <2>1. /\ next_seq \in Nat /\ next_seq' = next_seq + 1 /\ UNCHANGED <<mail, conn>>
        /\ sc.start \subseteq Nat
    BY <1>4 DEF SendElsewhere, ReadInv, MailType, ScanType, ScanRecord
  <2> QED
    BY <1>1, <1>2, <2>1 DEF CoverInv, MailCount, StartBefore, Counted, FullPages, ScanCovers
<1>5. ASSUME NEW s, Vanish(s)
      PROVE  CoverInv'
  BY <1>1, <1>5, FewerCovered DEF Vanish
<1>6. ASSUME NEW d \in late, LateDelete(d)
      PROVE  CoverInv'
  BY <1>1, <1>6, FewerCovered DEF LateDelete
<1>7. CASE Restart
  <2>1. ~conn' /\ DOMAIN mail' = {}
    BY <1>7 DEF Restart
  <2> QED
    BY <2>1, FS_EmptySet, RelayAssumption DEF CoverInv, MailCount
<1> QED
  BY <1>3, <1>4, <1>5, <1>6, <1>7 DEF Others

\* Every step keeps CoverInv.
LEMMA StepCovers == ReadInv /\ ShookInv /\ CoverInv /\ [Next]_vars => CoverInv'
<1> SUFFICES ASSUME ReadInv, ShookInv, CoverInv, [Next]_vars
             PROVE  CoverInv'
  OBVIOUS
<1>1. CASE UNCHANGED vars
  BY <1>1 DEF vars, relay, CoverInv, MailCount, StartBefore, Counted, FullPages, Seqs, ScanCovers
<1>2. CASE Next
  BY <1>2, RoundCovers, FetchCovers, BeyondCovers, ItemCovers, EndCovers, OthersCover
     DEF Next, Scan
<1> QED
  BY <1>1, <1>2

\* A pass over the mailbox goes over every envelope in its range that was there when
\* it began and still is, with MAX_SCAN_PAGES pages of at least MIN_PAGE envelopes,
\* whatever the sizes of the envelopes, what is sent, deleted or expires meanwhile and
\* what the pass keeps (scan in sync_round, fetch_after of the relay).
THEOREM ScanCoversHolds == Spec => []ScanCovers
<1>1. Init => CoverInv
  <2> SUFFICES ASSUME Init
               PROVE  CoverInv
    OBVIOUS
  <2>1. ~conn /\ DOMAIN mail = {}
    BY DEF Init, RelayInit
  <2> QED
    BY <2>1, FS_EmptySet, RelayAssumption DEF CoverInv, MailCount
<1>2. CoverInv => ScanCovers
  BY DEF CoverInv, ScanCovers
<1> QED
  BY <1>1, <1>2, InitRead, StepRead, InitShook, StepShook, StepCovers, PTL DEF Spec
=============================================================================
