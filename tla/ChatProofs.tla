---------------------------- MODULE ChatProofs ----------------------------
(***************************************************************************)
(* Proofs about module Chat: what the history shows is true of the text    *)
(* it shows it of, and never goes back, for any number of texts, threads   *)
(* and faults.                                                             *)
(*                                                                         *)
(* The threads write what they read earlier.  The argument is therefore    *)
(* about what a call knows (Known): facts about records that only grow, so *)
(* that no step of another thread can make them false (Grows).  Every step *)
(* changes the records in one of a few ways (Effect), each justified by    *)
(* what its call knows.                                                    *)
(***************************************************************************)
EXTENDS Chat, NaturalsInduction, WellFoundedInduction, TLAPS

-----------------------------------------------------------------------------
(* Types.                                                                  *)

Id == App \cup Incoming \cup {None}
Item == [seq: Nat, e: Entry]

Fields ==
    {"pc", "id", "raw", "todo", "pending", "can_send", "entries", "to",
     "waiting", "committed", "started", "part"}

Call(r) ==
    /\ DOMAIN r = Fields
    /\ r.id \in Id
    /\ r.entries \in SUBSET Item
    /\ r.to \in State \ {"Received"}

RecordTypes ==
    /\ entry \in Seq(Entry)
    /\ claim \in SUBSET App
    /\ sent \in [App -> Sent \cup {None}]
    /\ inbox \in SUBSET Incoming
    /\ seen \in SUBSET Incoming
    /\ left \in SUBSET App
    /\ peerHas \in SUBSET App

WorldTypes ==
    /\ flags \in [conflict: BOOLEAN, accept_only: BOOLEAN]
    /\ session \in Session
    /\ peer \in {"none", "own", "ours"}
    /\ greater \in BOOLEAN

-----------------------------------------------------------------------------
(* What a call knows.                                                      *)

RefreshPc ==
    {"refresh", "texts", "record", "mark", "outbox", "can_send", "entries",
     "each", "advance"}
SyncPc ==
    {"sync", "settle", "send", "set_flag", "fetch", "receive", "republish",
     "resend"}
ResolvePc ==
    {"check", "confirmed", "settled", "only", "list", "not_delivered",
     "abandon", "flags"}

CommittedTexts == {a \in App : sent[a] # None}

\* What shows that an entry may be advanced to a state.
Justified(a, state) ==
    /\ sent[a] # None
    /\ state = "Delivered" => sent[a].state = "acknowledged"
    /\ state = "NotDelivered" => sent[a].state = "abandoned"

\* An entry that was listed is still there, with its id.
Listed(x) ==
    /\ x.seq \in DOMAIN entry
    /\ x.e.id \in App
    /\ entry[x.seq].outgoing
    /\ entry[x.seq].id = x.e.id
    /\ x.e.state # "Queued" => sent[x.e.id] # None

Known(r) ==
    /\ Call(r)
    /\ \A x \in r.entries : Listed(x)
    /\ r.pc \in {"record", "mark"} => r.todo \subseteq Incoming
    /\ r.pc = "mark" => r.id \in Incoming /\ Indexed(r.id)
    /\ r.pc = "queue" => r.id \in App
    /\ r.pc = "raw_send" => r.id \in App \cap claim
    /\ r.pc \in {"sync", "send", "resend"} => r.todo \subseteq CommittedTexts
    /\ r.pc = "not_delivered" => \A x \in r.entries : x.e.state # "Queued"
    /\ r.pc = "receive" => r.todo \cap App \subseteq peerHas
    /\ r.pc = "advance" => /\ r.entries # {}
                           /\ Justified(First(r.entries).e.id, r.to)

\* Which threads are where, and in which part of the round the sync thread is.
Placed(t, r) ==
    /\ r.pc \in ResolvePc => t \in Resolver
    /\ t = Sync /\ r.pc \in RefreshPc => r.part \in 1 .. 4
    /\ t = Sync /\ r.pc \in SyncPc => r.part \in {1, 3}

Calls ==
    /\ DOMAIN th = Thread
    /\ \A t \in Thread : Known(th[t]) /\ Placed(t, th[t])

-----------------------------------------------------------------------------
(* What the records say of each other.                                     *)

Numbered ==
    \A n1, n2 \in DOMAIN entry : entry[n1].id = entry[n2].id => n1 = n2

Kinds ==
    \A n \in DOMAIN entry :
        IF entry[n].outgoing
        THEN entry[n].id \in App /\ entry[n].state # "Received"
        ELSE entry[n].id \in Incoming /\ entry[n].state = "Received"

Shown ==
    \A n \in DOMAIN entry :
        /\ entry[n].state \notin {"Queued", "Received"} => sent[entry[n].id] # None
        /\ entry[n].state = "Delivered" => sent[entry[n].id].state = "acknowledged"

Owned ==
    /\ \A a \in claim : ~Indexed(a)
    /\ \A a \in CommittedTexts :
          /\ sent[a].by = "raw" => a \in claim
          /\ sent[a].by = "chat" => Indexed(a)

Arrived ==
    /\ \A m \in seen : Indexed(m)
    /\ left \subseteq CommittedTexts
    /\ peerHas \subseteq left
    /\ \A a \in CommittedTexts : sent[a].state = "acknowledged" => a \in peerHas

Records == Numbered /\ Kinds /\ Shown /\ Owned /\ Arrived

Inv == RecordTypes /\ WorldTypes /\ Calls /\ Records

-----------------------------------------------------------------------------
(* The effect of a step on the records.                                    *)

Commit(a, by) ==
    /\ sent[a] = None
    /\ by = "chat" => Indexed(a)
    /\ by = "raw" => a \in claim
    /\ \E on \in {"ours", "theirs"} :
          sent' = [sent EXCEPT ![a] = [by |-> by, on |-> on, state |-> "pending"]]

Settle1(a, state) ==
    /\ a \in PendingOutgoing
    /\ state = "acknowledged" => a \in peerHas
    /\ sent' = [sent EXCEPT ![a].state = state]

\* Entries: a new one, or one moved on.
Adds ==
    \/ \E m \in Incoming : ~Indexed(m) /\ Append1(FALSE, m)
    \/ \E a \in App : ~Indexed(a) /\ a \notin claim /\ Append1(TRUE, a)
Moves ==
    \E n \in DOMAIN entry, state \in State, id \in Id :
        /\ entry[n].outgoing
        /\ sent[entry[n].id] # None
        /\ state = "Delivered" => sent[entry[n].id].state = "acknowledged"
        /\ state # "Received"
        /\ entry' = [entry EXCEPT ![n] = Advanced(@, state, id)]

Sends ==
    \/ \E a \in App, by \in {"chat", "raw"} : Commit(a, by)
    \/ \E a \in App, state \in {"acknowledged", "abandoned"} : Settle1(a, state)

Effect ==
    \/ UNCHANGED <<entry, claim, sent, inbox, seen, left, peerHas>>
    \/ (Adds \/ Moves) /\ UNCHANGED <<claim, sent, inbox, seen, left, peerHas>>
    \/ /\ \E a \in App : ~Indexed(a) /\ claim' = claim \cup {a}
       /\ UNCHANGED <<entry, sent, inbox, seen, left, peerHas>>
    \/ Sends /\ UNCHANGED <<entry, claim, inbox, seen, left, peerHas>>
    \/ /\ \E m \in Incoming : inbox' = inbox \cup {m}
       /\ UNCHANGED <<entry, claim, sent, seen, left, peerHas>>
    \/ /\ \E m \in Incoming :
             Indexed(m) /\ inbox' = inbox \ {m} /\ seen' = seen \cup {m}
       /\ UNCHANGED <<entry, claim, sent, left, peerHas>>
    \/ /\ \E a \in CommittedTexts : left' = left \cup {a}
       /\ UNCHANGED <<entry, claim, sent, inbox, seen, peerHas>>
    \/ /\ \E a \in left : peerHas' = peerHas \cup {a}
       /\ UNCHANGED <<entry, claim, sent, inbox, seen, left>>

\* Records only grow.
Grows ==
    /\ \A n \in DOMAIN entry :
          /\ n \in DOMAIN entry'
          /\ entry'[n].id = entry[n].id
          /\ entry'[n].outgoing = entry[n].outgoing
          /\ entry'[n].state # entry[n].state =>
                <<entry[n].state, entry'[n].state>> \in Forward
    /\ claim \subseteq claim'
    /\ \A a \in CommittedTexts :
          /\ sent'[a] # None
          /\ sent'[a].by = sent[a].by
          /\ sent'[a].on = sent[a].on
          /\ sent[a].state # "pending" => sent'[a].state = sent[a].state
    /\ peerHas \subseteq peerHas'

-----------------------------------------------------------------------------
(* Facts about the operators.                                              *)

\* What is appended comes last; the rest stays.
LEMMA Appended ==
    ASSUME entry \in Seq(Entry), NEW o \in BOOLEAN, NEW i \in App \cup Incoming,
           Append1(o, i)
    PROVE  /\ entry' \in Seq(Entry)
           /\ DOMAIN entry' = DOMAIN entry \cup {Len(entry) + 1}
           /\ Len(entry) + 1 \notin DOMAIN entry
           /\ \A n \in DOMAIN entry : entry'[n] = entry[n]
           /\ entry'[Len(entry) + 1] =
                 [outgoing |-> o, id |-> i,
                  state |-> IF o THEN "Queued" ELSE "Received",
                  message_id |-> IF o THEN None ELSE i]
<1> DEFINE e == [outgoing |-> o, id |-> i,
                 state |-> IF o THEN "Queued" ELSE "Received",
                 message_id |-> IF o THEN None ELSE i]
<1>1. e \in Entry
  BY DEF Entry, State
<1>2. entry' = Append(entry, e)
  BY DEF Append1
<1> HIDE DEF e
<1>3. /\ entry' \in Seq(Entry)
      /\ DOMAIN entry' = DOMAIN entry \cup {Len(entry) + 1}
      /\ Len(entry) + 1 \notin DOMAIN entry
      /\ \A n \in DOMAIN entry : entry'[n] = entry[n]
      /\ entry'[Len(entry) + 1] = e
  BY <1>1, <1>2
<1> QED
  BY <1>3 DEF e

\* advance keeps what an entry is of, and its state or moves it forward.
LEMMA AdvancedKeeps ==
    ASSUME NEW e \in Entry, NEW state \in State, NEW id \in Id
    PROVE  /\ Advanced(e, state, id) \in Entry
           /\ Advanced(e, state, id).outgoing = e.outgoing
           /\ Advanced(e, state, id).id = e.id
           /\ \/ Advanced(e, state, id).state = e.state
              \/ /\ Advanced(e, state, id).state = state
                 /\ <<e.state, state>> \in Forward
  BY DEF Advanced, Entry, Id

\* Where entries can go.
LEMMA ForwardFrom ==
    ASSUME NEW s, NEW s2, <<s, s2>> \in Forward
    PROVE  /\ s \in {"Queued", "Pending", "Transmitted"}
           /\ s2 \in {"Pending", "Transmitted", "Delivered", "NotDelivered"}
<1>1. CASE \E x \in {"Pending", "Transmitted", "Delivered", "NotDelivered"} :
              <<s, s2>> = <<"Queued", x>>
  BY <1>1
<1>2. CASE \E x \in {"Transmitted", "Delivered", "NotDelivered"} :
              <<s, s2>> = <<"Pending", x>>
  BY <1>2
<1>3. CASE \E x \in {"Delivered", "NotDelivered"} :
              <<s, s2>> = <<"Transmitted", x>>
  BY <1>3
<1> QED
  BY <1>1, <1>2, <1>3, Zenon DEF Forward

\* A set of numbers that is not empty has a least one.
LEMMA LeastNumber ==
    ASSUME NEW N \in SUBSET Nat, N # {}
    PROVE  \E n \in N : \A k \in N : n <= k
<1>1. PICK n \in N : \A k \in N : ~ (<<k, n>> \in OpToRel(<, Nat))
  BY NatLessThanWellFounded, WFMin
<1>2. \A k \in N : ~ (k < n)
  BY <1>1 DEF OpToRel
<1> QED
  BY <1>2

\* The first of the listed entries is one of them.
LEMMA FirstIn ==
    ASSUME NEW xs \in SUBSET Item, xs # {}
    PROVE  First(xs) \in xs
<1> DEFINE N == {x.seq : x \in xs}
<1>1. N \in SUBSET Nat /\ N # {}
  BY DEF Item
<1>2. \E n \in N : \A k \in N : n <= k
  <2> HIDE DEF N
  <2> QED
    BY <1>1, LeastNumber
<1>3. \E x \in xs : \A y \in xs : x.seq <= y.seq
  BY <1>2
<1> QED
  BY <1>3 DEF First

-----------------------------------------------------------------------------
(* Every effect lets the records grow, and keeps what they say.            *)

\* An effect on one entry.
LEMMA MovesEntry ==
    ASSUME RecordTypes, Kinds, Moves
    PROVE  /\ entry' \in Seq(Entry)
           /\ DOMAIN entry' = DOMAIN entry
           /\ \A n \in DOMAIN entry :
                 /\ entry'[n].id = entry[n].id
                 /\ entry'[n].outgoing = entry[n].outgoing
                 /\ \/ entry'[n].state = entry[n].state
                    \/ /\ <<entry[n].state, entry'[n].state>> \in Forward
                       /\ entry[n].outgoing
                       /\ sent[entry[n].id] # None
                       /\ entry'[n].state = "Delivered" =>
                             sent[entry[n].id].state = "acknowledged"
<1>1. PICK n \in DOMAIN entry, state \in State, id \in Id :
         /\ entry[n].outgoing
         /\ sent[entry[n].id] # None
         /\ state = "Delivered" => sent[entry[n].id].state = "acknowledged"
         /\ entry' = [entry EXCEPT ![n] = Advanced(entry[n], state, id)]
  BY DEF Moves
<1>2. entry[n] \in Entry
  BY DEF RecordTypes
<1>3. PICK e : e = Advanced(entry[n], state, id)
  OBVIOUS
<1>4. /\ e \in Entry
      /\ e.outgoing = entry[n].outgoing
      /\ e.id = entry[n].id
      /\ e.state = entry[n].state \/ (e.state = state /\ <<entry[n].state, state>> \in Forward)
  BY <1>2, <1>3, AdvancedKeeps
<1>5. entry' = [entry EXCEPT ![n] = e]
  BY <1>1, <1>3
<1>6. /\ entry' \in Seq(Entry)
      /\ DOMAIN entry' = DOMAIN entry
      /\ entry'[n] = e
      /\ \A k \in DOMAIN entry : k # n => entry'[k] = entry[k]
  BY <1>4, <1>5 DEF RecordTypes
<1>7. ASSUME NEW k \in DOMAIN entry
      PROVE  /\ entry'[k].id = entry[k].id
             /\ entry'[k].outgoing = entry[k].outgoing
             /\ \/ entry'[k].state = entry[k].state
                \/ /\ <<entry[k].state, entry'[k].state>> \in Forward
                   /\ entry[k].outgoing
                   /\ sent[entry[k].id] # None
                   /\ entry'[k].state = "Delivered" =>
                         sent[entry[k].id].state = "acknowledged"
  <2>1. CASE k = n
    BY <1>1, <1>4, <1>6, <2>1
  <2>2. CASE k # n
    BY <1>6, <2>2
  <2> QED
    BY <2>1, <2>2
<1> QED
  BY <1>6, <1>7

\* And of an entry that is added.
LEMMA AddsEntry ==
    ASSUME RecordTypes, Adds
    PROVE  \E k :
             /\ entry' \in Seq(Entry)
             /\ DOMAIN entry' = DOMAIN entry \cup {k}
             /\ k \notin DOMAIN entry
             /\ \A n \in DOMAIN entry : entry'[n] = entry[n]
             /\ ~Indexed(entry'[k].id)
             /\ \/ /\ entry'[k].outgoing = FALSE
                   /\ entry'[k].id \in Incoming
                   /\ entry'[k].state = "Received"
                \/ /\ entry'[k].outgoing = TRUE
                   /\ entry'[k].id \in App \ claim
                   /\ entry'[k].state = "Queued"
<1> WITNESS Len(entry) + 1
<1>1. ASSUME NEW m \in Incoming, ~Indexed(m), Append1(FALSE, m)
      PROVE  /\ entry' \in Seq(Entry)
             /\ DOMAIN entry' = DOMAIN entry \cup {Len(entry) + 1}
             /\ Len(entry) + 1 \notin DOMAIN entry
             /\ \A n \in DOMAIN entry : entry'[n] = entry[n]
             /\ ~Indexed(entry'[Len(entry) + 1].id)
             /\ entry'[Len(entry) + 1].outgoing = FALSE
             /\ entry'[Len(entry) + 1].id \in Incoming
             /\ entry'[Len(entry) + 1].state = "Received"
  <2>1. entry \in Seq(Entry)
    BY DEF RecordTypes
  <2>2. /\ entry' \in Seq(Entry)
        /\ DOMAIN entry' = DOMAIN entry \cup {Len(entry) + 1}
        /\ Len(entry) + 1 \notin DOMAIN entry
        /\ \A n \in DOMAIN entry : entry'[n] = entry[n]
        /\ entry'[Len(entry) + 1] =
              [outgoing |-> FALSE, id |-> m,
               state |-> IF FALSE THEN "Queued" ELSE "Received",
               message_id |-> IF FALSE THEN None ELSE m]
    BY <1>1, <2>1, Appended, Zenon
  <2> QED
    BY <1>1, <2>2
<1>2. ASSUME NEW a \in App, ~Indexed(a), a \notin claim, Append1(TRUE, a)
      PROVE  /\ entry' \in Seq(Entry)
             /\ DOMAIN entry' = DOMAIN entry \cup {Len(entry) + 1}
             /\ Len(entry) + 1 \notin DOMAIN entry
             /\ \A n \in DOMAIN entry : entry'[n] = entry[n]
             /\ ~Indexed(entry'[Len(entry) + 1].id)
             /\ entry'[Len(entry) + 1].outgoing = TRUE
             /\ entry'[Len(entry) + 1].id \in App \ claim
             /\ entry'[Len(entry) + 1].state = "Queued"
  <2>1. entry \in Seq(Entry)
    BY DEF RecordTypes
  <2>2. /\ entry' \in Seq(Entry)
        /\ DOMAIN entry' = DOMAIN entry \cup {Len(entry) + 1}
        /\ Len(entry) + 1 \notin DOMAIN entry
        /\ \A n \in DOMAIN entry : entry'[n] = entry[n]
        /\ entry'[Len(entry) + 1] =
              [outgoing |-> TRUE, id |-> a,
               state |-> IF TRUE THEN "Queued" ELSE "Received",
               message_id |-> IF TRUE THEN None ELSE a]
    BY <1>2, <2>1, Appended, Zenon
  <2> QED
    BY <1>2, <2>2
<1> QED
  BY <1>1, <1>2 DEF Adds

\* An effect on one send record.
LEMMA SendsRecord ==
    ASSUME RecordTypes, Sends
    PROVE  \E a \in App :
             /\ sent' \in [App -> Sent \cup {None}]
             /\ sent'[a] \in Sent
             /\ \A b \in App : b # a => sent'[b] = sent[b]
             /\ \/ /\ sent[a] = None
                   /\ sent'[a].state = "pending"
                   /\ sent'[a].by = "chat" => Indexed(a)
                   /\ sent'[a].by = "raw" => a \in claim
                \/ /\ sent[a] \in Sent
                   /\ sent[a].state = "pending"
                   /\ sent'[a].by = sent[a].by
                   /\ sent'[a].on = sent[a].on
                   /\ sent'[a].state = "acknowledged" => a \in peerHas
<1>1. ASSUME NEW a \in App, NEW by \in {"chat", "raw"}, Commit(a, by)
      PROVE  /\ sent' \in [App -> Sent \cup {None}]
             /\ sent'[a] \in Sent
             /\ \A b \in App : b # a => sent'[b] = sent[b]
             /\ sent[a] = None
             /\ sent'[a].state = "pending"
             /\ sent'[a].by = "chat" => Indexed(a)
             /\ sent'[a].by = "raw" => a \in claim
  <2>1. PICK on \in {"ours", "theirs"} :
           sent' = [sent EXCEPT ![a] = [by |-> by, on |-> on, state |-> "pending"]]
    BY <1>1 DEF Commit
  <2>2. [by |-> by, on |-> on, state |-> "pending"] \in Sent
    BY DEF Sent
  <2> QED
    BY <1>1, <2>1, <2>2 DEF Commit, RecordTypes
<1>2. ASSUME NEW a \in App, NEW state \in {"acknowledged", "abandoned"},
             Settle1(a, state)
      PROVE  /\ sent' \in [App -> Sent \cup {None}]
             /\ sent'[a] \in Sent
             /\ \A b \in App : b # a => sent'[b] = sent[b]
             /\ sent[a] \in Sent
             /\ sent[a].state = "pending"
             /\ sent'[a].by = sent[a].by
             /\ sent'[a].on = sent[a].on
             /\ sent'[a].state = "acknowledged" => a \in peerHas
  <2>1. PICK s : s = [sent[a] EXCEPT !.state = state]
    OBVIOUS
  <2>2. sent[a] \in Sent /\ sent[a].state = "pending"
    BY <1>2 DEF Settle1, PendingOutgoing, RecordTypes
  <2>3. /\ s \in Sent /\ s.by = sent[a].by /\ s.on = sent[a].on
        /\ s.state = state
    BY <2>1, <2>2 DEF Sent
  <2>4. sent' = [sent EXCEPT ![a] = s]
    BY <1>2, <2>1 DEF Settle1
  <2> QED
    BY <1>2, <2>2, <2>3, <2>4 DEF Settle1, RecordTypes
<1> QED
  BY <1>1, <1>2 DEF Sends

\* The cases of an effect.
LEMMA EffectGrows ==
    ASSUME RecordTypes, Kinds, Effect
    PROVE  Grows
<1>1. CASE Adds /\ UNCHANGED <<claim, sent, inbox, seen, left, peerHas>>
  BY <1>1, AddsEntry DEF Grows, CommittedTexts
<1>2. CASE Moves /\ UNCHANGED <<claim, sent, inbox, seen, left, peerHas>>
  BY <1>2, MovesEntry DEF Grows, CommittedTexts
<1>3. CASE Sends /\ UNCHANGED <<entry, claim, inbox, seen, left, peerHas>>
  BY <1>3, SendsRecord, NoneIsNoRecord DEF Grows, CommittedTexts
<1>4. CASE /\ UNCHANGED <<entry, sent>>
           /\ claim \subseteq claim' /\ peerHas \subseteq peerHas'
  BY <1>4 DEF Grows, CommittedTexts
<1> QED
  BY <1>1, <1>2, <1>3, <1>4 DEF Effect

\* No effect brings two entries of one id.
LEMMA EffectNumbered ==
    ASSUME RecordTypes, Kinds, Numbered, Effect
    PROVE  Numbered'
<1>1. CASE Adds
  <2>1. PICK k :
          /\ DOMAIN entry' = DOMAIN entry \cup {k}
          /\ k \notin DOMAIN entry
          /\ \A n \in DOMAIN entry : entry'[n] = entry[n]
          /\ ~Indexed(entry'[k].id)
          /\ entry'[k].id \in Incoming \cup (App \ claim)
          /\ entry'[k].state \in {"Queued", "Received"}
    BY <1>1, AddsEntry
  <2>2. \A n \in DOMAIN entry : entry[n].id # entry'[k].id
    BY <2>1 DEF Indexed
  <2> QED
    BY <2>1, <2>2 DEF Numbered
<1>2. CASE Moves
  BY <1>2, MovesEntry DEF Numbered
<1>3. CASE UNCHANGED entry
  BY <1>3 DEF Numbered
<1> QED
  BY <1>1, <1>2, <1>3 DEF Effect

\* An entry keeps its kind.
LEMMA EffectKinds ==
    ASSUME RecordTypes, Kinds, Effect
    PROVE  Kinds'
<1>1. CASE Adds
  BY <1>1, AddsEntry DEF Kinds
<1>2. CASE Moves
  <2>1. ASSUME NEW n \in DOMAIN entry
        PROVE  IF entry'[n].outgoing
               THEN entry'[n].id \in App /\ entry'[n].state # "Received"
               ELSE entry'[n].id \in Incoming /\ entry'[n].state = "Received"
    <3>1. CASE entry'[n].state = entry[n].state
      BY <1>2, <3>1, MovesEntry DEF Kinds
    <3>2. CASE <<entry[n].state, entry'[n].state>> \in Forward /\ entry[n].outgoing
      <4>1. entry'[n].state # "Received"
        BY <3>2, ForwardFrom
      <4> QED
        BY <1>2, <3>2, <4>1, MovesEntry DEF Kinds
    <3> QED
      BY <1>2, <3>1, <3>2, MovesEntry
  <2> QED
    BY <1>2, <2>1, MovesEntry DEF Kinds
<1>3. CASE UNCHANGED entry
  BY <1>3 DEF Kinds
<1> QED
  BY <1>1, <1>2, <1>3 DEF Effect

\* What is shown stays justified by the send record.
LEMMA EffectShown ==
    ASSUME RecordTypes, Kinds, Shown, Effect
    PROVE  Shown'
<1>1. CASE Adds /\ UNCHANGED sent
  <2>1. PICK k :
          /\ DOMAIN entry' = DOMAIN entry \cup {k}
          /\ k \notin DOMAIN entry
          /\ \A n \in DOMAIN entry : entry'[n] = entry[n]
          /\ ~Indexed(entry'[k].id)
          /\ entry'[k].id \in Incoming \cup (App \ claim)
          /\ entry'[k].state \in {"Queued", "Received"}
    BY <1>1, AddsEntry
  <2> QED
    BY <1>1, <2>1 DEF Shown
<1>2. CASE Moves /\ UNCHANGED sent
  BY <1>2, MovesEntry DEF Shown
<1>3. CASE UNCHANGED entry
  <2>1. Grows
    BY EffectGrows
  <2>2. ASSUME NEW n \in DOMAIN entry
        PROVE  /\ entry[n].state \notin {"Queued", "Received"} =>
                     sent'[entry[n].id] # None
               /\ entry[n].state = "Delivered" =>
                     sent'[entry[n].id].state = "acknowledged"
    <3>1. CASE entry[n].state \in {"Queued", "Received"}
      BY <3>1
    <3>2. CASE entry[n].state \notin {"Queued", "Received"}
      <4>1. entry[n].id \in CommittedTexts
        BY <3>2 DEF Shown, Kinds, CommittedTexts
      <4> QED
        BY <2>1, <3>2, <4>1 DEF Grows, Shown
    <3> QED
      BY <3>1, <3>2
  <2> QED
    BY <1>3, <2>2 DEF Shown
<1> QED
  BY <1>1, <1>2, <1>3 DEF Effect

\* What has an entry keeps it.
LEMMA StaysIndexed ==
    ASSUME Grows, NEW i, Indexed(i)
    PROVE  Indexed(i)'
  BY DEF Grows, Indexed

\* Each id keeps its owner.
LEMMA EffectOwned ==
    ASSUME RecordTypes, Kinds, Owned, Effect
    PROVE  Owned'
<1>0. Grows
  BY EffectGrows
<1>1. CASE Adds /\ UNCHANGED <<claim, sent>>
  <2>1. PICK k :
          /\ DOMAIN entry' = DOMAIN entry \cup {k}
          /\ k \notin DOMAIN entry
          /\ \A n \in DOMAIN entry : entry'[n] = entry[n]
          /\ ~Indexed(entry'[k].id)
          /\ entry'[k].id \in Incoming \cup (App \ claim)
          /\ entry'[k].state \in {"Queued", "Received"}
    BY <1>1, AddsEntry
  <2>2. ASSUME NEW a \in claim
        PROVE  ~Indexed(a)'
    <3>1. a # entry'[k].id
      BY <2>1, <2>2, ChatAssumption DEF RecordTypes
    <3>2. \A n \in DOMAIN entry : entry[n].id # a
      BY <2>2 DEF Owned, Indexed
    <3> QED
      BY <2>1, <3>1, <3>2 DEF Indexed
  <2> QED
    BY <1>0, <1>1, <2>2, StaysIndexed DEF Owned, CommittedTexts
<1>2. CASE Moves /\ UNCHANGED <<claim, sent>>
  <2>1. ASSUME NEW a \in claim
        PROVE  ~Indexed(a)'
    BY <1>2, <2>1, MovesEntry DEF Owned, Indexed
  <2> QED
    BY <1>0, <1>2, <2>1, StaysIndexed DEF Owned, CommittedTexts
<1>3. CASE (\E a \in App : ~Indexed(a) /\ claim' = claim \cup {a}) /\ UNCHANGED <<entry, sent>>
  BY <1>3 DEF Owned, CommittedTexts, Indexed
<1>4. CASE Sends /\ UNCHANGED <<entry, claim>>
  <2>1. PICK a \in App :
             /\ sent'[a] \in Sent
             /\ \A b \in App : b # a => sent'[b] = sent[b]
             /\ \/ /\ sent[a] = None
                   /\ sent'[a].by = "chat" => Indexed(a)
                   /\ sent'[a].by = "raw" => a \in claim
                \/ /\ sent[a] \in Sent
                   /\ sent'[a].by = sent[a].by
    BY <1>4, SendsRecord
  <2>2. \A b \in App : b # a => sent'[b] = sent[b]
    BY <2>1
  <2>3. /\ sent'[a].by = "raw" => a \in claim
        /\ sent'[a].by = "chat" => Indexed(a)
    BY <2>1, NoneIsNoRecord DEF Owned, CommittedTexts
  <2>4. \A i : Indexed(i)' = Indexed(i)
    BY <1>4 DEF Indexed
  <2> QED
    BY <1>4, <2>2, <2>3, <2>4 DEF Owned, CommittedTexts
<1>5. CASE UNCHANGED <<entry, claim, sent>>
  BY <1>5 DEF Owned, CommittedTexts, Indexed
<1> QED
  BY <1>1, <1>2, <1>3, <1>4, <1>5 DEF Effect

\* What was read has its entry, and what was acknowledged has arrived.
LEMMA EffectArrived ==
    ASSUME RecordTypes, Kinds, Arrived, Effect
    PROVE  Arrived'
<1>0. Grows
  BY EffectGrows
<1>1. CASE UNCHANGED <<sent, seen, left, peerHas>>
  BY <1>0, <1>1, StaysIndexed DEF Arrived, CommittedTexts
<1>2. CASE Sends /\ UNCHANGED <<entry, seen, left, peerHas>>
  <2>1. CommittedTexts \subseteq CommittedTexts'
    BY <1>0 DEF Grows, CommittedTexts
  <2>2. \A a \in CommittedTexts' : sent'[a].state = "acknowledged" => a \in peerHas
    BY <1>2, SendsRecord, NoneIsNoRecord DEF Arrived, CommittedTexts
  <2> QED
    BY <1>0, <1>2, <2>1, <2>2, StaysIndexed DEF Arrived
<1>3. CASE /\ \E m \in Incoming : Indexed(m) /\ seen' = seen \cup {m}
           /\ UNCHANGED <<entry, sent, left, peerHas>>
  BY <1>0, <1>3, StaysIndexed DEF Arrived, CommittedTexts
<1>4. CASE /\ \E a \in CommittedTexts : left' = left \cup {a}
           /\ UNCHANGED <<entry, sent, seen, peerHas>>
  BY <1>0, <1>4, StaysIndexed DEF Arrived, CommittedTexts
<1>5. CASE /\ \E a \in left : peerHas' = peerHas \cup {a}
           /\ UNCHANGED <<entry, sent, seen, left>>
  BY <1>0, <1>5, StaysIndexed DEF Arrived, CommittedTexts
<1> QED
  BY <1>1, <1>2, <1>3, <1>4, <1>5 DEF Effect

\* What a call knows stays true.
LEMMA StaysKnown ==
    ASSUME RecordTypes, Grows, NEW r, Known(r)
    PROVE  Known(r)'
<1>1. \A x \in r.entries : Listed(x)'
  BY DEF Known, Listed, Grows, CommittedTexts
<1>2. r.pc = "mark" => Indexed(r.id)'
  BY StaysIndexed DEF Known
<1>3. CommittedTexts \subseteq CommittedTexts'
  BY DEF Grows, CommittedTexts
<1>4. r.pc = "advance" => Justified(First(r.entries).e.id, r.to)'
  <2> SUFFICES ASSUME r.pc = "advance"
               PROVE  Justified(First(r.entries).e.id, r.to)'
    OBVIOUS
  <2>1. PICK a : a = First(r.entries).e.id
    OBVIOUS
  <2>2. a \in App /\ Justified(a, r.to)
    BY <2>1, FirstIn DEF Known, Listed, Call
  <2>3. Justified(a, r.to)'
    BY <2>2 DEF Justified, Grows, CommittedTexts
  <2> QED
    BY <2>1, <2>3
<1> QED
  BY <1>1, <1>2, <1>3, <1>4 DEF Known, Grows

\* Records keep their types.
LEMMA EffectTypes ==
    ASSUME RecordTypes, Kinds, Effect
    PROVE  RecordTypes'
<1>1. CASE Adds /\ UNCHANGED <<claim, sent, inbox, seen, left, peerHas>>
  BY <1>1, AddsEntry DEF RecordTypes
<1>2. CASE Moves /\ UNCHANGED <<claim, sent, inbox, seen, left, peerHas>>
  BY <1>2, MovesEntry DEF RecordTypes
<1>3. CASE Sends /\ UNCHANGED <<entry, claim, inbox, seen, left, peerHas>>
  BY <1>3, SendsRecord DEF RecordTypes
<1>4. CASE /\ UNCHANGED <<entry, sent>>
           /\ claim' \in SUBSET App /\ inbox' \in SUBSET Incoming
           /\ seen' \in SUBSET Incoming /\ left' \in SUBSET App
           /\ peerHas' \in SUBSET App
  BY <1>4 DEF RecordTypes
<1> QED
  BY <1>1, <1>2, <1>3, <1>4 DEF Effect, RecordTypes, CommittedTexts

-----------------------------------------------------------------------------
(* Every step has an effect, and leaves calls that know what they need.    *)

Good == WorldTypes' /\ Effect /\ Calls'

\* A good step keeps the invariant.
LEMMA GoodKeeps ==
    ASSUME Inv, Good
    PROVE  Inv'
  BY EffectTypes, EffectNumbered, EffectKinds, EffectShown, EffectOwned,
     EffectArrived DEF Inv, Good, Records

\* One call goes on; the others know what they knew.
LEMMA GotoCalls ==
    ASSUME Inv, Effect, NEW t \in Thread, NEW r, Goto(t, r),
           Known(r)', Placed(t, r)
    PROVE  Calls'
<1>1. th' = [th EXCEPT ![t] = r] /\ DOMAIN th = Thread
  BY DEF Goto, Inv, Calls
<1>2. DOMAIN th' = Thread
  BY <1>1
<1>3. ASSUME NEW u \in Thread
      PROVE  Known(th[u])' /\ Placed(u, th'[u])
  <2>1. CASE u = t
    <3>1. th'[u] = r
      BY <1>1, <2>1
    <3> QED
      BY <2>1, <3>1
  <2>2. CASE u # t
    <3>1. PICK c : c = th[u]
      OBVIOUS
    <3>2. th'[u] = c
      BY <1>1, <2>2, <3>1
    <3>3. Known(c) /\ Placed(u, c)
      BY <1>1, <3>1 DEF Inv, Calls
    <3>4. Known(c)'
      BY <3>3, EffectGrows, StaysKnown DEF Inv, Records
    <3> QED
      BY <3>2, <3>3, <3>4
  <2> QED
    BY <2>1, <2>2
<1> QED
  BY <1>2, <1>3 DEF Calls, Placed

\* The call a thread is in.
LEMMA CallOf ==
    ASSUME Inv, NEW t \in Thread
    PROVE  Known(th[t]) /\ Placed(t, th[t])
  BY DEF Inv, Calls

\* A call that ended knows nothing.
LEMMA IdleKnown ==
    ASSUME NEW t
    PROVE  Known(Idle) /\ Placed(t, Idle)
  BY DEF Idle, Call, Fields, Id, State, Known, Placed, ResolvePc, RefreshPc, SyncPc

\* A step that only reads.
LEMMA OnlyGood ==
    ASSUME Inv, NEW t \in Thread, NEW r, Only(t, r), Known(r),
           Placed(t, r)
    PROVE  Good
<1>1. UNCHANGED <<chat, durable, memory, world>> /\ Goto(t, r)
  BY DEF Only
<1>2. Effect
  BY <1>1 DEF Effect, chat, durable, world
<1>3. Known(r)'
  BY <1>1, <1>2, EffectGrows, StaysKnown DEF Inv, Records
<1>4. WorldTypes'
  BY <1>1 DEF Inv, WorldTypes, chat, durable, world
<1> QED
  BY <1>1, <1>2, <1>3, <1>4, GotoCalls DEF Good

\* A call that returns.
LEMMA ReturnGood ==
    ASSUME Inv, NEW t \in Thread, Return(t)
    PROVE  Good
  BY IdleKnown, OnlyGood DEF Return

-----------------------------------------------------------------------------
(* refresh.                                                                *)

\* The reads of refresh.
LEMMA RefreshReads ==
    ASSUME Inv, NEW t \in Thread,
           \/ RefreshBegin(t) \/ RefreshTexts(t) \/ RefreshOutbox(t)
           \/ RefreshCanSend(t)
    PROVE  Good
<1> USE DEF Known, Placed, Call, Fields, RefreshPc, SyncPc, ResolvePc
<1>1. PICK c : c = th[t]
  OBVIOUS
<1>2. Known(c) /\ Placed(t, c)
  BY <1>1, CallOf
<1>3. CASE RefreshBegin(t)
  <2>1. PICK r : r = [c EXCEPT !.pc = IF HasSession THEN "texts" ELSE "entries"]
    OBVIOUS
  <2>2. Only(t, r) /\ c.pc = "refresh"
    BY <1>1, <1>3, <2>1 DEF RefreshBegin, At
  <2>3. Known(r) /\ Placed(t, r)
    BY <1>2, <2>1, <2>2
  <2> QED
    BY <2>2, <2>3, OnlyGood
<1>4. CASE RefreshTexts(t) /\ HasSession
  <2>1. PICK r : r = [c EXCEPT !.todo = inbox,
                               !.pc = IF inbox = {} THEN "outbox" ELSE "record"]
    OBVIOUS
  <2>2. Only(t, r) /\ c.pc = "texts"
    BY <1>1, <1>4, <2>1 DEF RefreshTexts, At
  <2>3. Known(r) /\ Placed(t, r)
    BY <1>2, <2>1, <2>2 DEF Inv, RecordTypes
  <2> QED
    BY <2>2, <2>3, OnlyGood
<1>5. CASE RefreshOutbox(t) /\ HasSession
  <2>1. PICK r : r = [c EXCEPT !.pc = "can_send", !.pending = PendingOutgoing]
    OBVIOUS
  <2>2. Only(t, r) /\ c.pc = "outbox"
    BY <1>1, <1>5, <2>1 DEF RefreshOutbox, At
  <2>3. Known(r) /\ Placed(t, r)
    BY <1>2, <2>1, <2>2
  <2> QED
    BY <2>2, <2>3, OnlyGood
<1>6. CASE RefreshCanSend(t)
  <2>1. PICK r : r = [c EXCEPT !.pc = "entries", !.can_send = CanSend]
    OBVIOUS
  <2>2. Only(t, r) /\ c.pc = "can_send"
    BY <1>1, <1>6, <2>1 DEF RefreshCanSend, At
  <2>3. Known(r) /\ Placed(t, r)
    BY <1>2, <2>1, <2>2
  <2> QED
    BY <2>2, <2>3, OnlyGood
<1>7. CASE (RefreshTexts(t) \/ RefreshOutbox(t)) /\ ~HasSession
  BY <1>7, ReturnGood DEF RefreshTexts, RefreshOutbox
<1> QED
  BY <1>3, <1>4, <1>5, <1>6, <1>7

\* Open entries are listed as they are; what is not queued was committed.
LEMMA SnapshotListed ==
    ASSUME Inv
    PROVE  Snapshot \in SUBSET Item /\ \A x \in Snapshot : Listed(x)
<1> SUFFICES ASSUME NEW n \in DOMAIN entry, Open(entry[n]),
                    NEW x, x = [seq |-> n, e |-> entry[n]]
             PROVE  x \in Item /\ Listed(x)
  BY DEF Snapshot
<1>1. n \in Nat /\ entry[n] \in Entry
  BY DEF Inv, RecordTypes
<1>2. x.seq = n /\ x.e = entry[n]
  OBVIOUS
<1>3. x \in Item
  BY <1>1 DEF Item
<1>4. Listed(x)
  BY <1>2 DEF Inv, Records, Kinds, Shown, Listed, Open
<1> QED
  BY <1>3, <1>4

\* refresh goes through the entries.
LEMMA RefreshLists ==
    ASSUME Inv, NEW t \in Thread, RefreshEntries(t) \/ Waits(t)
    PROVE  Good
<1> USE DEF Known, Placed, Call, Fields, RefreshPc, SyncPc, ResolvePc
<1>1. PICK c : c = th[t]
  OBVIOUS
<1>2. Known(c) /\ Placed(t, c)
  BY <1>1, CallOf
<1>3. CASE RefreshEntries(t)
  <2>1. PICK r : r = [c EXCEPT !.pc = "each", !.entries = Snapshot,
                               !.waiting = FALSE, !.committed = FALSE]
    OBVIOUS
  <2>2. Only(t, r) /\ c.pc = "entries"
    BY <1>1, <1>3, <2>1 DEF RefreshEntries, At
  <2>3. Known(r) /\ Placed(t, r)
    BY <1>2, <2>1, <2>2, SnapshotListed
  <2> QED
    BY <2>2, <2>3, OnlyGood
<1>4. CASE Waits(t)
  <2>1. PICK r : r = [[c EXCEPT !.pc = "each", !.entries = @ \ {Current(t)},
                                !.id = None] EXCEPT !.waiting = TRUE]
    OBVIOUS
  <2>2. Only(t, r) /\ c.pc = "each"
    BY <1>1, <1>4, <2>1 DEF Waits, At, Skip
  <2>3. Known(r) /\ Placed(t, r)
    BY <1>2, <2>1, <2>2 DEF Id
  <2> QED
    BY <2>2, <2>3, OnlyGood
<1> QED
  BY <1>3, <1>4

\* Where a round, or a call, goes on after refresh.
LEMMA RefreshEndGood ==
    ASSUME Inv, NEW t \in Thread, RefreshEnd(t)
    PROVE  Good
<1>1. PICK r : r = Refreshed(t)
  OBVIOUS
<1>2. At(t, "each") /\ Placed(t, th[t]) /\ Only(t, r)
  BY <1>1, CallOf DEF RefreshEnd
<1>3. t = Sync => th[t].part \in 1 .. 4
  BY <1>2 DEF Placed, RefreshPc, At
<1>4. PICK p : p = th[t].part
  OBVIOUS
<1>5. PICK i : i = [Idle EXCEPT !.part = p, !.started = th[t].started,
                                !.waiting = th[t].waiting]
  OBVIOUS
<1>6. /\ DOMAIN i = Fields
      /\ i.part = p /\ i.id = None /\ i.entries = {} /\ i.todo = {}
      /\ i.to = "Queued"
  BY <1>5 DEF Idle, Fields
<1>7. \/ r = Idle
      \/ t = Sync /\ p \in {1, 3} /\ r = [i EXCEPT !.pc = "sync"]
      \/ t = Sync /\ r = [i EXCEPT !.pc = "decide"]
  <2>1. CASE t # Sync
    BY <1>1, <2>1 DEF Refreshed
  <2>2. CASE t = Sync
    <3>1. p = 1 \/ p = 2 \/ p = 3 \/ p = 4
      BY <1>3, <1>4, <2>2
    <3> QED
      BY <1>1, <1>4, <1>5, <1>6, <2>2, <3>1 DEF Refreshed
  <2> QED
    BY <2>1, <2>2
<1>8. Known(r) /\ Placed(t, r)
  <2>1. CASE r = Idle
    BY <2>1, IdleKnown
  <2>2. CASE r # Idle
    BY <1>6, <1>7, <2>2 DEF Call, Fields, Id, State, Known, Placed,
       ResolvePc, RefreshPc, SyncPc
  <2> QED
    BY <2>1, <2>2
<1> QED
  BY <1>2, <1>8, OnlyGood

\* A call still knows what it knew after a step with an effect.
LEMMA KnownAfter ==
    ASSUME Inv, Effect, NEW c, Known(c)
    PROVE  Known(c)'
  BY EffectGrows, StaysKnown DEF Inv, Records

\* record_incoming: an entry for a text that has none.
LEMMA RecordIncomingGood ==
    ASSUME Inv, NEW t \in Thread, RecordIncoming(t)
    PROVE  Good
<1>1. PICK c : c = th[t]
  OBVIOUS
<1>2. Known(c) /\ Placed(t, c) /\ c.pc = "record"
  BY <1>1, CallOf DEF RecordIncoming, At
<1>3. PICK m \in c.todo : Record(m) /\ Goto(t, [c EXCEPT !.pc = "mark", !.id = m])
  BY <1>1 DEF RecordIncoming
<1>4. PICK r : r = [c EXCEPT !.pc = "mark", !.id = m]
  OBVIOUS
<1>5. UNCHANGED <<claim, flags, durable, memory, world>>
  BY DEF RecordIncoming
<1>6. m \in Incoming
  BY <1>2, <1>3 DEF Known
<1>7. Effect
  <2>1. CASE Indexed(m)
    BY <1>3, <1>5, <2>1 DEF Record, Effect, durable, world
  <2>2. CASE ~Indexed(m)
    <3>1. Adds
      BY <1>3, <1>6, <2>2 DEF Record, Adds
    <3> QED
      BY <1>5, <3>1 DEF Effect, durable, world
  <2> QED
    BY <2>1, <2>2
<1>8. Indexed(m)'
  <2>1. CASE Indexed(m)
    BY <1>7, <2>1, EffectGrows, StaysIndexed DEF Inv, Records
  <2>2. CASE ~Indexed(m)
    <3>1. /\ Append1(FALSE, m)
          /\ entry \in Seq(Entry)
      BY <1>3, <2>2 DEF Record, Inv, RecordTypes
    <3>2. /\ DOMAIN entry' = DOMAIN entry \cup {Len(entry) + 1}
          /\ entry'[Len(entry) + 1] =
                 [outgoing |-> FALSE, id |-> m,
                  state |-> IF FALSE THEN "Queued" ELSE "Received",
                  message_id |-> IF FALSE THEN None ELSE m]
      BY <1>6, <3>1, Appended, Zenon
    <3>3. entry'[Len(entry) + 1].id = m
      BY <3>2
    <3> QED
      BY <3>2, <3>3 DEF Indexed
  <2> QED
    BY <2>1, <2>2
<1>9. Known(r)' /\ Placed(t, r)
  BY <1>2, <1>4, <1>6, <1>7, <1>8, KnownAfter DEF Known, Placed, Call, Fields, Id,
     RefreshPc, SyncPc, ResolvePc
<1>10. WorldTypes'
  BY <1>5 DEF Inv, WorldTypes, durable, world
<1> QED
  BY <1>3, <1>4, <1>7, <1>9, <1>10, GotoCalls DEF Good

\* mark_read, after the entry was written.
LEMMA MarkReadGood ==
    ASSUME Inv, NEW t \in Thread, MarkRead(t)
    PROVE  Good
<1>1. CASE ~HasSession
  BY <1>1, ReturnGood DEF MarkRead
<1>2. CASE HasSession
  <2>1. PICK c : c = th[t]
    OBVIOUS
  <2>2. Known(c) /\ Placed(t, c) /\ c.pc = "mark"
    BY <2>1, CallOf DEF MarkRead, At
  <2>3. PICK m : m = c.id
    OBVIOUS
  <2>4. PICK r : r = [c EXCEPT !.todo = c.todo \ {m}, !.id = None,
                       !.pc = IF c.todo \ {m} = {} THEN "outbox" ELSE "record"]
    OBVIOUS
  <2>5. /\ inbox' = inbox \ {m}
        /\ seen' = seen \cup {m}
        /\ Goto(t, r)
        /\ UNCHANGED <<chat, session, sent, memory, world>>
    BY <1>2, <2>1, <2>3, <2>4 DEF MarkRead
  <2>6. m \in Incoming /\ Indexed(m)
    BY <2>2, <2>3 DEF Known
  <2>7. Effect
    BY <2>5, <2>6 DEF Effect, chat, world
  <2>8. Known(r)' /\ Placed(t, r)
    BY <2>2, <2>4, <2>7, KnownAfter DEF Known, Placed, Call, Fields, Id,
       RefreshPc, SyncPc, ResolvePc
  <2>9. WorldTypes'
    BY <2>5 DEF Inv, WorldTypes, chat, world
  <2> QED
    BY <2>5, <2>7, <2>8, <2>9, GotoCalls DEF Good
<1> QED
  BY <1>1, <1>2

\* What the send record says may be shown.
LEMMA ShownJustified ==
    ASSUME Inv, NEW a \in App, sent[a] # None
    PROVE  /\ ShownAs(a) \in {"Pending", "Delivered", "NotDelivered"}
           /\ Justified(a, ShownAs(a))
<1>1. sent[a] \in Sent
  BY DEF Inv, RecordTypes
<1>2. \/ sent[a].state = "pending"
      \/ sent[a].state = "acknowledged"
      \/ sent[a].state = "abandoned"
  BY <1>1 DEF Sent
<1> QED
  BY <1>2 DEF ShownAs, Justified

\* A send that commits writes a record where there was none.
LEMMA CommitsOnce ==
    ASSUME Inv, NEW a \in App, SendCommits(a), NEW by \in {"chat", "raw"},
           by = "chat" => Indexed(a), by = "raw" => a \in claim,
           sent' = Committed(a, by)
    PROVE  Sends /\ sent'[a] # None
<1>1. sent[a] = None
  BY DEF SendCommits, SendReports, SendRefused
<1>2. PICK on \in {"ours", "theirs"} : on = IF session = "theirs" THEN "theirs" ELSE "ours"
  OBVIOUS
<1>3. sent' = [sent EXCEPT ![a] = [by |-> by, on |-> on, state |-> "pending"]]
  BY <1>2 DEF Committed
<1>4. Sends
  BY <1>1, <1>3 DEF Sends, Commit
<1>5. [by |-> by, on |-> on, state |-> "pending"] \in Sent
  BY DEF Sent
<1>6. sent'[a] # None
  BY <1>3, <1>5, NoneIsNoRecord DEF Inv, RecordTypes
<1> QED
  BY <1>4, <1>6

\* A queued text is committed, or reported.
LEMMA SendQueuedGood ==
    ASSUME Inv, NEW t \in Thread, SendQueued(t)
    PROVE  Good
<1>1. PICK c : c = th[t]
  OBVIOUS
<1>2. Known(c) /\ Placed(t, c) /\ c.pc = "each" /\ c.entries # {}
  BY <1>1, CallOf DEF SendQueued, At
<1>3. PICK a : a = First(c.entries).e.id
  OBVIOUS
<1>4. a \in App /\ Indexed(a)
  BY <1>2, <1>3, FirstIn DEF Known, Call, Listed, Indexed
<1>5. Current(t).e.id = a
  BY <1>1, <1>3 DEF Current
<1>6. CASE SendRefused(a) /\ Return(t)
  BY <1>6, ReturnGood
<1>7. CASE /\ SendReports(a)
           /\ Only(t, [th[t] EXCEPT !.pc = "advance", !.to = ShownAs(a), !.id = a,
                                    !.committed = TRUE])
  <2>1. PICK to : to = ShownAs(a)
    OBVIOUS
  <2>2. PICK r : r = [c EXCEPT !.pc = "advance", !.to = to, !.id = a,
                               !.committed = TRUE]
    OBVIOUS
  <2>3. Only(t, r)
    BY <1>1, <1>7, <2>1, <2>2
  <2>4. to \in {"Pending", "Delivered", "NotDelivered"} /\ Justified(a, to)
    BY <1>4, <1>7, <2>1, ShownJustified DEF SendReports
  <2>5. r.entries = c.entries /\ r.to = to /\ r.pc = "advance"
    BY <1>2, <2>2 DEF Known, Call, Fields
  <2>6. Justified(First(r.entries).e.id, r.to)
    BY <1>3, <2>4, <2>5
  <2>7. Known(r) /\ Placed(t, r)
    BY <1>2, <1>4, <2>2, <2>4, <2>6 DEF Known, Placed, Call, Fields, Id, State,
       RefreshPc, SyncPc, ResolvePc
  <2> QED
    BY <2>3, <2>7, OnlyGood
<1>8. CASE /\ SendCommits(a)
           /\ sent' = Committed(a, "chat")
           /\ Goto(t, [th[t] EXCEPT !.pc = "advance", !.to = "Pending", !.id = a,
                                    !.committed = TRUE])
           /\ UNCHANGED <<chat, session, inbox, seen, memory, world>>
  <2>1. PICK r : r = [c EXCEPT !.pc = "advance", !.to = "Pending", !.id = a,
                               !.committed = TRUE]
    OBVIOUS
  <2>2. Goto(t, r)
    BY <1>1, <1>8, <2>1
  <2>3. Sends /\ sent'[a] # None
    BY <1>4, <1>8, CommitsOnce
  <2>4. Effect
    BY <1>8, <2>3 DEF Effect, chat, world
  <2>5. r.entries = c.entries /\ r.to = "Pending" /\ r.pc = "advance"
    BY <1>2, <2>1 DEF Known, Call, Fields
  <2>6. Justified(a, "Pending")'
    BY <2>3 DEF Justified
  <2>7. Justified(First(r.entries).e.id, r.to)'
    BY <1>3, <2>5, <2>6
  <2>8. Known(c)'
    BY <1>2, <2>4, KnownAfter
  <2>9. Known(r)' /\ Placed(t, r)
    BY <1>2, <1>4, <2>1, <2>7, <2>8 DEF Known, Placed, Call, Fields, Id, State,
       RefreshPc, SyncPc, ResolvePc
  <2>10. WorldTypes'
    BY <1>8 DEF Inv, WorldTypes, chat, world
  <2> QED
    BY <2>2, <2>4, <2>9, <2>10, GotoCalls DEF Good
<1>9. CASE /\ SendCommits(a)
           /\ sent' \in {sent, Committed(a, "chat")}
           /\ Unknown
           /\ Goto(t, Idle)
           /\ UNCHANGED <<chat, session, inbox, seen>>
  <2>1. Effect
    <3>1. UNCHANGED <<entry, claim, inbox, seen, left, peerHas>>
      BY <1>9 DEF Unknown, chat
    <3>2. CASE sent' = sent
      BY <3>1, <3>2 DEF Effect
    <3>3. CASE sent' = Committed(a, "chat")
      <4>1. Sends
        BY <1>4, <1>9, <3>3, CommitsOnce
      <4> QED
        BY <3>1, <4>1 DEF Effect
    <3> QED
      BY <1>9, <3>2, <3>3
  <2>2. Known(Idle)' /\ Placed(t, Idle)
    BY <2>1, IdleKnown, KnownAfter
  <2>3. WorldTypes'
    BY <1>9 DEF Inv, WorldTypes, chat, Unknown
  <2> QED
    BY <1>9, <2>1, <2>2, <2>3, GotoCalls DEF Good
<1> QED
  BY <1>5, <1>6, <1>7, <1>8, <1>9 DEF SendQueued

\* A committed text: what is decided is justified by its send record.
LEMMA CheckSentGood ==
    ASSUME Inv, NEW t \in Thread, CheckSent(t)
    PROVE  Good
<1>1. PICK c : c = th[t]
  OBVIOUS
<1>2. Known(c) /\ Placed(t, c) /\ c.pc = "each" /\ c.entries # {}
  BY <1>1, CallOf DEF CheckSent, At
<1>3. PICK x : x = First(c.entries)
  OBVIOUS
<1>4. x \in c.entries /\ Listed(x) /\ x \in Item
  BY <1>2, <1>3, FirstIn DEF Known, Call
<1>5. Current(t) = x
  BY <1>1, <1>3 DEF Current
<1>6. CASE Only(t, Skip(t))
  <2>1. PICK r : r = [c EXCEPT !.pc = "each", !.entries = c.entries \ {x},
                               !.id = None]
    OBVIOUS
  <2>2. Only(t, r)
    BY <1>1, <1>5, <1>6, <2>1 DEF Skip
  <2>3. Known(r) /\ Placed(t, r)
    BY <1>2, <2>1 DEF Known, Placed, Call, Fields, Id,
       RefreshPc, SyncPc, ResolvePc
  <2> QED
    BY <2>2, <2>3, OnlyGood
<1>7. ASSUME NEW state,
             \/ state = "Transmitted"
             \/ state \in WhyGone(x.e.id),
             x.e.state # "Queued",
             Only(t, [th[t] EXCEPT !.pc = "advance", !.to = state])
      PROVE  Good
  <2>1. PICK r : r = [c EXCEPT !.pc = "advance", !.to = state]
    OBVIOUS
  <2>2. Only(t, r)
    BY <1>1, <1>7, <2>1
  <2>3. x.e.id \in App /\ sent[x.e.id] # None
    BY <1>4, <1>7 DEF Listed
  <2>4. /\ state \in {"Transmitted", "Pending", "Delivered", "NotDelivered"}
        /\ Justified(x.e.id, state)
    <3>1. CASE state = "Transmitted"
      BY <2>3, <3>1 DEF Justified
    <3>2. CASE state \in WhyGone(x.e.id)
      <4>1. state = ShownAs(x.e.id)
        BY <3>2 DEF WhyGone
      <4> QED
        BY <2>3, <4>1, ShownJustified
    <3> QED
      BY <1>7, <3>1, <3>2
  <2>5. r.entries = c.entries /\ r.to = state /\ r.pc = "advance"
    BY <1>2, <2>1 DEF Known, Call, Fields
  <2>6. Justified(First(r.entries).e.id, r.to)
    BY <1>3, <2>4, <2>5
  <2>7. Known(r) /\ Placed(t, r)
    BY <1>2, <2>1, <2>4, <2>6 DEF Known, Placed, Call, Fields, State,
       RefreshPc, SyncPc, ResolvePc
  <2> QED
    BY <2>2, <2>7, OnlyGood
<1> QED
  BY <1>5, <1>6, <1>7 DEF CheckSent

\* A listed entry is moved on by a justified state.
LEMMA MovesListed ==
    ASSUME Inv, NEW x, Listed(x), NEW state \in State \ {"Received"}, NEW id \in Id,
           sent[x.e.id] # None,
           state = "Delivered" => sent[x.e.id].state = "acknowledged",
           entry' = [entry EXCEPT ![x.seq] = Advanced(@, state, id)]
    PROVE  Moves
  BY DEF Moves, Listed

\* advance.
LEMMA AdvanceGood ==
    ASSUME Inv, NEW t \in Thread, Advance(t)
    PROVE  Good
<1>1. PICK c : c = th[t]
  OBVIOUS
<1>2. Known(c) /\ Placed(t, c) /\ c.pc = "advance" /\ c.entries # {}
  BY <1>1, CallOf DEF Advance, At, Known
<1>3. PICK x : x = First(c.entries)
  OBVIOUS
<1>4. x \in c.entries /\ Listed(x) /\ Justified(x.e.id, c.to)
  BY <1>2, <1>3, FirstIn DEF Known, Call
<1>5. Current(t) = x
  BY <1>1, <1>3 DEF Current
<1>6. /\ entry' = [entry EXCEPT ![x.seq] = Advanced(@, c.to, c.id)]
      /\ UNCHANGED <<claim, flags, durable, memory, world>>
      /\ Goto(t, [Skip(t) EXCEPT !.to = "Queued"])
  BY <1>1, <1>5 DEF Advance
<1>7. PICK r : r = [[c EXCEPT !.pc = "each", !.entries = c.entries \ {x},
                              !.id = None] EXCEPT !.to = "Queued"]
  OBVIOUS
<1>8. Goto(t, r)
  BY <1>1, <1>5, <1>6, <1>7 DEF Skip
<1>9. c.to \in State \ {"Received"} /\ c.id \in Id
  BY <1>2 DEF Known, Call
<1>10. Moves
  BY <1>4, <1>6, <1>9, MovesListed DEF Justified
<1>11. Effect
  BY <1>6, <1>10 DEF Effect, durable, world
<1>12. Known(c)'
  BY <1>2, <1>11, KnownAfter
<1>13. Known(r)' /\ Placed(t, r)
  BY <1>2, <1>7, <1>12 DEF Known, Placed, Call, Fields, Id, State, RefreshPc,
     SyncPc, ResolvePc
<1>14. WorldTypes'
  BY <1>6 DEF Inv, WorldTypes, durable, world
<1> QED
  BY <1>8, <1>11, <1>13, <1>14, GotoCalls DEF Good

\* refresh.
LEMMA RefreshGood ==
    ASSUME Inv, NEW t \in Thread, Refresh(t)
    PROVE  Good
  BY RefreshReads, RefreshLists, RefreshEndGood, RecordIncomingGood, MarkReadGood,
     SendQueuedGood, CheckSentGood, AdvanceGood DEF Refresh

-----------------------------------------------------------------------------
(* The application's calls.                                                *)

\* A call that starts, at one of its first steps.
LEMMA StartKnown ==
    ASSUME NEW t, NEW r, NEW pc, r = [Idle EXCEPT !.pc = pc],
           pc \in {"refresh", "check"}, t # Sync, pc = "check" => t \in Resolver
    PROVE  Known(r) /\ Placed(t, r)
<1>1. r.pc = pc /\ r.entries = {} /\ r.id = None /\ r.to = "Queued" /\ DOMAIN r = Fields
  BY DEF Idle, Fields
<1> QED
  BY <1>1 DEF Known, Placed, Call, Id, State, RefreshPc, SyncPc, ResolvePc

\* chat_entries and resolve_session_conflict begin.
LEMMA CallsBegin ==
    ASSUME Inv, NEW u \in User, ChatEntries(u) \/ ResolveBegin(u)
    PROVE  Good
<1>0. u \in Thread /\ u # Sync
  BY ChatAssumption DEF User, Thread
<1>1. CASE ChatEntries(u)
  BY <1>0, <1>1, StartKnown, OnlyGood DEF ChatEntries
<1>2. CASE ResolveBegin(u)
  BY <1>0, <1>2, StartKnown, OnlyGood DEF ResolveBegin
<1> QED
  BY <1>1, <1>2

\* chat_send begins.
LEMMA ChatSendGood ==
    ASSUME Inv, NEW u \in User, NEW a \in App, ChatSend(u, a)
    PROVE  Good
<1>1. PICK r : r = [Idle EXCEPT !.pc = "queue", !.id = a, !.raw = sent[a] # None]
  OBVIOUS
<1>2. Only(u, r) /\ u \in Thread /\ u # Sync
  BY <1>1, ChatAssumption DEF ChatSend, User, Thread
<1>3. /\ r.pc = "queue" /\ r.entries = {} /\ r.id = a /\ r.to = "Queued"
      /\ DOMAIN r = Fields
  BY <1>1 DEF Idle, Fields
<1>4. Known(r) /\ Placed(u, r)
  BY <1>3 DEF Known, Placed, Call, Id, State, RefreshPc, SyncPc, ResolvePc
<1> QED
  BY <1>2, <1>4, OnlyGood

\* chat_send's transaction: an id that send_text took gets no entry.
LEMMA QueueGood ==
    ASSUME Inv, NEW u \in User, Queue(u)
    PROVE  Good
<1>0. u \in Thread /\ u # Sync
  BY ChatAssumption DEF User, Thread
<1>1. PICK a : a = th[u].id
  OBVIOUS
<1>2. a \in App
  BY <1>0, <1>1, CallOf DEF Queue, At, Known
<1>3. CASE ~(Indexed(a) \/ ~Taken(u))
  BY <1>0, <1>1, <1>3, ReturnGood DEF Queue
<1>4. CASE Indexed(a) \/ ~Taken(u)
  <2>1. PICK r : r = [Idle EXCEPT !.pc = "refresh"]
    OBVIOUS
  <2>2. /\ IF Indexed(a) THEN UNCHANGED entry ELSE Append1(TRUE, a)
        /\ Goto(u, r)
        /\ UNCHANGED <<claim, flags, durable, memory, world>>
    BY <1>1, <1>4, <2>1 DEF Queue
  <2>3. Effect
    <3>1. CASE Indexed(a)
      BY <2>2, <3>1 DEF Effect, durable, world
    <3>2. CASE ~Indexed(a)
      <4>1. Adds
        BY <1>1, <1>2, <1>4, <2>2, <3>2 DEF Adds, Taken
      <4> QED
        BY <2>2, <4>1 DEF Effect, durable, world
    <3> QED
      BY <3>1, <3>2
  <2>4. Known(r) /\ Placed(u, r)
    BY <1>0, <2>1, StartKnown
  <2>5. Known(r)'
    BY <2>3, <2>4, KnownAfter
  <2>6. WorldTypes'
    BY <2>2 DEF Inv, WorldTypes, durable, world
  <2> QED
    BY <1>0, <2>2, <2>3, <2>4, <2>5, <2>6, GotoCalls DEF Good
<1> QED
  BY <1>3, <1>4

\* send_text: the claim.
LEMMA SendTextGood ==
    ASSUME Inv, NEW u \in User, NEW a \in App, SendText(u, a)
    PROVE  Good
<1>0. u \in Thread /\ u # Sync
  BY ChatAssumption DEF User, Thread
<1>1. PICK r : r = [Idle EXCEPT !.pc = "raw_send", !.id = a]
  OBVIOUS
<1>2. /\ ~Indexed(a)
      /\ Goto(u, r)
      /\ claim' = claim \cup {a}
      /\ UNCHANGED <<entry, flags, durable, memory, world>>
  BY <1>1 DEF SendText
<1>3. Effect
  BY <1>2 DEF Effect, durable, world
<1>4. /\ r.pc = "raw_send" /\ r.entries = {} /\ r.id = a /\ r.to = "Queued"
      /\ DOMAIN r = Fields
  BY <1>1 DEF Idle, Fields
<1>5. Known(r)' /\ Placed(u, r)
  BY <1>2, <1>4 DEF Known, Placed, Call, Id, State, RefreshPc, SyncPc, ResolvePc
<1>6. WorldTypes'
  BY <1>2 DEF Inv, WorldTypes, durable, world
<1> QED
  BY <1>0, <1>2, <1>3, <1>5, <1>6, GotoCalls DEF Good

\* send_text: the commit of an id it claimed.
LEMMA RawSendGood ==
    ASSUME Inv, NEW u \in User, RawSend(u)
    PROVE  Good
<1>0. u \in Thread
  BY DEF User, Thread
<1>1. PICK a : a = th[u].id
  OBVIOUS
<1>2. a \in App /\ a \in claim
  BY <1>0, <1>1, CallOf DEF RawSend, At, Known
<1>3. CASE ~SendCommits(a)
  BY <1>0, <1>1, <1>3, ReturnGood DEF RawSend
<1>4. CASE SendCommits(a)
  <2>1. /\ Goto(u, Idle)
        /\ UNCHANGED <<chat, session, inbox, seen>>
        /\ sent' \in {sent, Committed(a, "raw")}
        /\ UNCHANGED <<left, peer, peerHas, greater>>
    BY <1>1, <1>4 DEF RawSend, Unknown, world
  <2>2. Effect
    <3>1. CASE sent' = sent
      BY <2>1, <3>1 DEF Effect, chat
    <3>2. CASE sent' = Committed(a, "raw")
      <4>1. Sends
        BY <1>2, <1>4, <3>2, CommitsOnce
      <4> QED
        BY <2>1, <4>1 DEF Effect, chat
    <3> QED
      BY <2>1, <3>1, <3>2
  <2>3. Known(Idle)' /\ Placed(u, Idle)
    BY <2>2, IdleKnown, KnownAfter
  <2>4. WorldTypes'
    BY <2>1 DEF Inv, WorldTypes, chat
  <2> QED
    BY <1>0, <2>1, <2>2, <2>3, <2>4, GotoCalls DEF Good
<1> QED
  BY <1>3, <1>4

\* A step that writes the meta record.
LEMMA FlagsGood ==
    ASSUME Inv, NEW t \in Thread, NEW r, Known(r), Placed(t, r), Goto(t, r),
           flags' \in [conflict: BOOLEAN, accept_only: BOOLEAN],
           UNCHANGED <<entry, claim, durable, memory, world>>
    PROVE  Good
<1>1. Effect
  BY DEF Effect, durable, world
<1>2. WorldTypes'
  BY DEF Inv, WorldTypes, durable, world
<1>3. Known(r)'
  BY <1>1, KnownAfter
<1> QED
  BY <1>1, <1>2, <1>3, GotoCalls DEF Good

\* A call that knows nothing but its list goes on to where it needs no more.
LEMMA MovedOn ==
    ASSUME NEW t, NEW c, Known(c), Placed(t, c), NEW pc, NEW r,
           r = [c EXCEPT !.pc = pc],
           \/ pc \in ResolvePc \ {"not_delivered"} /\ c.pc \in ResolvePc
           \/ pc \in SyncPc \ {"send", "resend", "receive", "sync"} /\ c.pc \in SyncPc
           \/ pc = "send" /\ c.pc = "sync"
           \/ pc \in {"clear", "start", "open"}
    PROVE  Known(r) /\ Placed(t, r)
  BY DEF Known, Placed, Call, Fields, RefreshPc, SyncPc, ResolvePc

\* resolve_session_conflict: its checks and what it writes to the meta record.
LEMMA ResolveChecks ==
    ASSUME Inv, NEW u \in User,
           \/ ResolveCheck(u) \/ ResolveConfirmed(u) \/ ResolveSettled(u)
           \/ ResolveAcceptOnly(u) \/ ResolveFlags(u)
    PROVE  Good
<1>0. u \in Thread
  BY DEF User, Thread
<1>1. PICK c : c = th[u]
  OBVIOUS
<1>2. Known(c) /\ Placed(u, c)
  BY <1>0, <1>1, CallOf
<1>3. CASE ResolveCheck(u)
  <2>1. PICK pc : pc = IF HasSession THEN "confirmed" ELSE "flags"
    OBVIOUS
  <2>2. PICK r : r = [c EXCEPT !.pc = pc]
    OBVIOUS
  <2>3. Only(u, r) /\ c.pc = "check" /\ pc \in ResolvePc \ {"not_delivered"}
    BY <1>1, <1>3, <2>1, <2>2 DEF ResolveCheck, At, ResolvePc
  <2>4. Known(r) /\ Placed(u, r)
    BY <1>2, <2>2, <2>3, MovedOn DEF ResolvePc
  <2> QED
    BY <1>0, <2>3, <2>4, OnlyGood
<1>4. CASE ResolveConfirmed(u) /\ HasSession
  <2>1. PICK pc : pc = IF Confirmed THEN "settled" ELSE "only"
    OBVIOUS
  <2>2. PICK r : r = [c EXCEPT !.pc = pc]
    OBVIOUS
  <2>3. Only(u, r) /\ c.pc = "confirmed" /\ pc \in ResolvePc \ {"not_delivered"}
    BY <1>1, <1>4, <2>1, <2>2 DEF ResolveConfirmed, At, ResolvePc
  <2>4. Known(r) /\ Placed(u, r)
    BY <1>2, <2>2, <2>3, MovedOn DEF ResolvePc
  <2> QED
    BY <1>0, <2>3, <2>4, OnlyGood
<1>5. CASE ResolveConfirmed(u) /\ ~HasSession
  BY <1>0, <1>5, ReturnGood DEF ResolveConfirmed
<1>6. CASE ResolveSettled(u)
  BY <1>0, <1>6, IdleKnown, FlagsGood DEF ResolveSettled, UpdateMeta, Inv, WorldTypes
<1>7. CASE ResolveFlags(u)
  BY <1>0, <1>7, IdleKnown, FlagsGood DEF ResolveFlags, UpdateMeta
<1>8. CASE ResolveAcceptOnly(u)
  <2>1. PICK r : r = [c EXCEPT !.pc = "list"]
    OBVIOUS
  <2>2. /\ Goto(u, r) /\ c.pc = "only"
        /\ flags' = [flags EXCEPT !.accept_only = TRUE]
        /\ UNCHANGED <<entry, claim, durable, memory, world>>
    BY <1>1, <1>8, <2>1 DEF ResolveAcceptOnly, UpdateMeta, To, At
  <2>3. Known(r) /\ Placed(u, r)
    BY <1>2, <2>1, <2>2, MovedOn DEF ResolvePc
  <2> QED
    BY <1>0, <2>2, <2>3, FlagsGood DEF Inv, WorldTypes
<1> QED
  BY <1>3, <1>4, <1>5, <1>6, <1>7, <1>8

\* The committed texts are listed, and marked.
LEMMA ResolveMarks ==
    ASSUME Inv, NEW u \in User, ResolveList(u) \/ ResolveMark(u)
    PROVE  Good
<1>0. u \in Thread
  BY DEF User, Thread
<1>1. PICK c : c = th[u]
  OBVIOUS
<1>2. Known(c) /\ Placed(u, c)
  BY <1>0, <1>1, CallOf
<1>3. CASE ResolveList(u)
  <2>1. PICK r : r = [c EXCEPT !.pc = "not_delivered",
                               !.entries = {x \in Snapshot : x.e.state # "Queued"}]
    OBVIOUS
  <2>2. Only(u, r) /\ c.pc = "list"
    BY <1>1, <1>3, <2>1 DEF ResolveList, At
  <2>3. Known(r) /\ Placed(u, r)
    BY <1>2, <2>1, <2>2, SnapshotListed DEF Known, Placed, Call, Fields, RefreshPc,
       SyncPc, ResolvePc
  <2> QED
    BY <1>0, <2>2, <2>3, OnlyGood
<1>4. CASE ResolveMark(u) /\ c.entries # {}
  <2>1. PICK x : x = First(c.entries)
    OBVIOUS
  <2>2. /\ x \in c.entries /\ Listed(x) /\ x.e.state # "Queued"
        /\ c.pc = "not_delivered"
    BY <1>1, <1>2, <1>4, <2>1, FirstIn DEF Known, Call, ResolveMark, At
  <2>3. PICK r : r = [c EXCEPT !.entries = c.entries \ {x}]
    OBVIOUS
  <2>4. /\ entry' = [entry EXCEPT ![x.seq] = Advanced(@, "NotDelivered", None)]
        /\ Goto(u, r)
        /\ UNCHANGED <<claim, flags, durable, memory, world>>
    BY <1>1, <1>4, <2>1, <2>3 DEF ResolveMark, Current
  <2>5. Known(r) /\ Placed(u, r)
    BY <1>2, <2>2, <2>3 DEF Known, Placed, Call, Fields, RefreshPc, SyncPc, ResolvePc
  <2>6. sent[x.e.id] # None
    BY <2>2 DEF Listed
  <2>7. Effect
    <3>1. Moves
      BY <2>2, <2>4, <2>6, MovesListed DEF State, Id
    <3> QED
      BY <2>4, <3>1 DEF Effect, durable, world
  <2>8. Known(r)'
    BY <2>5, <2>7, KnownAfter
  <2>9. WorldTypes'
    BY <2>4 DEF Inv, WorldTypes, durable, world
  <2> QED
    BY <1>0, <2>4, <2>5, <2>7, <2>8, <2>9, GotoCalls DEF Good
<1>5. CASE ResolveMark(u) /\ c.entries = {}
  <2>1. CASE ~HasSession
    BY <1>0, <1>1, <1>5, <2>1, ReturnGood DEF ResolveMark
  <2>2. CASE HasSession
    <3>1. PICK r : r = [c EXCEPT !.pc = "abandon", !.todo = PendingOutgoing]
      OBVIOUS
    <3>2. Only(u, r) /\ c.pc = "not_delivered"
      BY <1>1, <1>5, <2>2, <3>1 DEF ResolveMark, At
    <3>3. Known(r) /\ Placed(u, r)
      BY <1>2, <3>1, <3>2 DEF Known, Placed, Call, Fields, RefreshPc, SyncPc,
         ResolvePc
    <3> QED
      BY <1>0, <3>2, <3>3, OnlyGood
  <2> QED
    BY <2>1, <2>2
<1> QED
  BY <1>3, <1>4, <1>5

\* The outbox is given up, and the session removed.
LEMMA ResolveEnds ==
    ASSUME Inv, NEW u \in User, ResolveAbandon(u) \/ ResolveRemove(u)
    PROVE  Good
<1>0. u \in Thread
  BY DEF User, Thread
<1>1. PICK c : c = th[u]
  OBVIOUS
<1>2. Known(c) /\ Placed(u, c) /\ c.pc = "abandon"
  BY <1>0, <1>1, CallOf DEF ResolveAbandon, ResolveRemove, At
<1>3. CASE ResolveAbandon(u) /\ HasSession
  <2>1. PICK a \in c.todo :
          /\ sent' = IF a \in PendingOutgoing
                     THEN [sent EXCEPT ![a].state = "abandoned"] ELSE sent
          /\ Goto(u, [c EXCEPT !.todo = @ \ {a}])
          /\ UNCHANGED <<chat, session, inbox, seen, memory, world>>
    BY <1>1, <1>3 DEF ResolveAbandon
  <2>2. PICK r : r = [c EXCEPT !.todo = c.todo \ {a}]
    OBVIOUS
  <2>3. Effect
    <3>1. CASE a \notin PendingOutgoing
      BY <2>1, <3>1 DEF Effect, chat, world
    <3>2. CASE a \in PendingOutgoing
      <4>1. Sends
        BY <2>1, <3>2 DEF Sends, Settle1, PendingOutgoing
      <4> QED
        BY <2>1, <4>1 DEF Effect, chat, world
    <3> QED
      BY <3>1, <3>2
  <2>4. Known(r) /\ Placed(u, r)
    BY <1>2, <2>2 DEF Known, Placed, Call, Fields, RefreshPc, SyncPc, ResolvePc
  <2>5. Known(r)'
    BY <2>3, <2>4, KnownAfter
  <2>6. WorldTypes'
    BY <2>1 DEF Inv, WorldTypes, chat, world
  <2> QED
    BY <1>0, <2>1, <2>2, <2>3, <2>4, <2>5, <2>6, GotoCalls DEF Good
<1>4. CASE ResolveRemove(u) /\ Removable
  <2>1. PICK r : r = [c EXCEPT !.pc = "flags"]
    OBVIOUS
  <2>2. /\ session' = "none" /\ Goto(u, r)
        /\ UNCHANGED <<chat, sent, inbox, seen, memory, world>>
    BY <1>1, <1>4, <2>1 DEF ResolveRemove, To
  <2>3. Effect
    BY <2>2 DEF Effect, chat, world
  <2>4. Known(r) /\ Placed(u, r)
    BY <1>2, <2>1, MovedOn DEF ResolvePc
  <2>5. Known(r)'
    BY <2>3, <2>4, KnownAfter
  <2>6. WorldTypes'
    BY <2>2 DEF Inv, WorldTypes, Session, chat, world
  <2> QED
    BY <1>0, <2>2, <2>3, <2>4, <2>5, <2>6, GotoCalls DEF Good
<1>5. CASE (ResolveAbandon(u) /\ ~HasSession) \/ (ResolveRemove(u) /\ ~Removable)
  BY <1>0, <1>5, ReturnGood DEF ResolveAbandon, ResolveRemove
<1> QED
  BY <1>3, <1>4, <1>5

-----------------------------------------------------------------------------
(* The round.                                                              *)

\* The sync thread is one of the threads.
LEMMA SyncThread == Sync \in Thread
  BY DEF Thread

\* The round goes on with a refresh, whatever came before.
LEMMA RoundGoesOn ==
    ASSUME NEW r, NEW p \in 1 .. 4, NEW s,
           \/ r = [Idle EXCEPT !.pc = "refresh", !.part = p]
           \/ r = [Idle EXCEPT !.pc = "refresh", !.part = p, !.started = s]
    PROVE  Known(r) /\ Placed(Sync, r)
<1>1. /\ r.pc = "refresh" /\ r.entries = {} /\ r.id = None /\ r.to = "Queued"
      /\ DOMAIN r = Fields /\ r.part = p
  BY DEF Idle, Fields
<1> QED
  BY <1>1 DEF Known, Placed, Call, Id, State, RefreshPc, SyncPc, ResolvePc

\* After a sync that ended or failed.
LEMMA AfterSyncKnown ==
    ASSUME Inv, th[Sync].pc \in SyncPc
    PROVE  Known(AfterSync) /\ Placed(Sync, AfterSync)
<1>1. PICK p : p = th[Sync].part
  OBVIOUS
<1>2. p + 1 \in 1 .. 4
  BY <1>1, SyncThread, CallOf DEF Placed
<1>3. PICK r : r = [Idle EXCEPT !.pc = "refresh", !.part = p + 1]
  OBVIOUS
<1>4. r = AfterSync
  BY <1>1, <1>3 DEF AfterSync
<1> QED
  BY <1>2, <1>3, <1>4, RoundGoesOn

\* The third part.
LEMMA NextPartKnown ==
    ASSUME NEW s
    PROVE  Known(NextPart(s)) /\ Placed(Sync, NextPart(s))
<1>1. PICK p \in 1 .. 4 : p = 3
  OBVIOUS
<1>2. PICK r : r = [Idle EXCEPT !.pc = "refresh", !.part = p, !.started = s]
  OBVIOUS
<1>3. r = NextPart(s)
  BY <1>1, <1>2 DEF NextPart
<1> QED
  BY <1>2, <1>3, RoundGoesOn

\* Only is used with AfterSync.
LEMMA AfterSyncGood ==
    ASSUME Inv, th[Sync].pc \in SyncPc, Only(Sync, AfterSync)
    PROVE  Good
<1>1. PICK r : r = AfterSync
  OBVIOUS
<1> QED
  BY <1>1, AfterSyncKnown, SyncThread, OnlyGood

\* publish_pending lists texts that were committed.
LEMMA PublishGood ==
    ASSUME Inv, th[Sync].pc \in SyncPc, NEW pc \in {"send", "resend"}, Publish(pc)
    PROVE  Good
<1>1. PICK c : c = th[Sync]
  OBVIOUS
<1>2. Known(c) /\ Placed(Sync, c) /\ c.pc \in SyncPc
  BY <1>1, SyncThread, CallOf
<1>3. PICK r : r = [c EXCEPT !.pc = pc, !.todo = PendingOutgoing]
  OBVIOUS
<1>4. Goto(Sync, r) /\ UNCHANGED <<chat, durable, left, peer, peerHas, greater>>
  BY <1>1, <1>3 DEF Publish
<1>5. Effect
  BY <1>4 DEF Effect, chat, durable
<1>6. PendingOutgoing \subseteq CommittedTexts
  BY DEF PendingOutgoing, CommittedTexts
<1>7. Known(r) /\ Placed(Sync, r)
  BY <1>2, <1>3, <1>6 DEF Known, Placed, Call, Fields, RefreshPc, SyncPc, ResolvePc
<1>8. Known(r)'
  BY <1>5, <1>7, KnownAfter
<1>9. WorldTypes'
  BY <1>4 DEF Inv, WorldTypes, chat, durable
<1> QED
  BY <1>4, <1>5, <1>7, <1>8, <1>9, SyncThread, GotoCalls DEF Good

\* The steps of a sync that only read or publish.
LEMMA SyncReads ==
    ASSUME Inv,
           \/ RoundBegin \/ SyncBegin \/ Settle \/ ProcessHandshake \/ SetConflict
           \/ EndReceive \/ Republish \/ SyncEnd
    PROVE  Good
<1>1. PICK c : c = th[Sync]
  OBVIOUS
<1>2. Known(c) /\ Placed(Sync, c)
  BY <1>1, SyncThread, CallOf
<1>3. CASE RoundBegin
  <2>1. PICK p \in 1 .. 4 : p = 1
    OBVIOUS
  <2>2. PICK r : r = [Idle EXCEPT !.pc = "refresh", !.part = p]
    OBVIOUS
  <2>3. Known(r) /\ Placed(Sync, r)
    BY <2>2, RoundGoesOn
  <2>4. Only(Sync, r)
    BY <1>3, <2>1, <2>2 DEF RoundBegin
  <2> QED
    BY <2>3, <2>4, SyncThread, OnlyGood
<1>4. CASE SyncBegin
  <2>1. PICK pc : pc = IF HasSession THEN "settle" ELSE "send"
    OBVIOUS
  <2>2. PICK r : r = [c EXCEPT !.pc = pc]
    OBVIOUS
  <2>3. Only(Sync, r) /\ c.pc = "sync"
    BY <1>1, <1>4, <2>1, <2>2 DEF SyncBegin, At
  <2>4. Known(r) /\ Placed(Sync, r)
    BY <1>2, <2>1, <2>2, <2>3, MovedOn DEF SyncPc
  <2> QED
    BY <2>3, <2>4, SyncThread, OnlyGood
<1>5. CASE Settle
  <2>1. th[Sync].pc \in SyncPc
    BY <1>5 DEF Settle, At, SyncPc
  <2> QED
    BY <1>5, <2>1, PublishGood, AfterSyncGood DEF Settle
<1>6. CASE ProcessHandshake
  <2>1. PICK pc : pc = IF peer = "own" /\ session = "ours" THEN "set_flag" ELSE "fetch"
    OBVIOUS
  <2>2. PICK r : r = [c EXCEPT !.pc = pc]
    OBVIOUS
  <2>3. Only(Sync, r) /\ c.pc = "send"
    BY <1>1, <1>6, <2>1, <2>2 DEF ProcessHandshake, At
  <2>4. Known(r) /\ Placed(Sync, r)
    BY <1>2, <2>1, <2>2, <2>3, MovedOn DEF SyncPc
  <2> QED
    BY <2>3, <2>4, SyncThread, OnlyGood
<1>7. CASE SetConflict
  <2>1. PICK r : r = [c EXCEPT !.pc = "fetch"]
    OBVIOUS
  <2>2. /\ Goto(Sync, r) /\ c.pc = "set_flag"
        /\ flags' = [flags EXCEPT !.conflict = TRUE]
        /\ UNCHANGED <<entry, claim, durable, memory, world>>
    BY <1>1, <1>7, <2>1 DEF SetConflict, UpdateMeta, At
  <2>3. Known(r) /\ Placed(Sync, r)
    BY <1>2, <2>1, <2>2, MovedOn DEF SyncPc
  <2> QED
    BY <2>2, <2>3, SyncThread, FlagsGood DEF Inv, WorldTypes
<1>8. CASE EndReceive /\ HasSession
  <2>1. PICK r : r = [c EXCEPT !.pc = "republish"]
    OBVIOUS
  <2>2. Only(Sync, r) /\ c.pc = "receive"
    BY <1>1, <1>8, <2>1 DEF EndReceive, Only, To, At
  <2>3. Known(r) /\ Placed(Sync, r)
    BY <1>2, <2>1, <2>2, MovedOn DEF SyncPc
  <2> QED
    BY <2>2, <2>3, SyncThread, OnlyGood
<1>9. CASE EndReceive /\ ~HasSession
  <2>1. th[Sync].pc \in SyncPc /\ Only(Sync, AfterSync)
    BY <1>9 DEF EndReceive, At, SyncPc, Only
  <2> QED
    BY <2>1, AfterSyncGood
<1>10. CASE Republish
  <2>1. th[Sync].pc \in SyncPc
    BY <1>10 DEF Republish, At, SyncPc
  <2> QED
    BY <1>10, <2>1, PublishGood, AfterSyncGood DEF Republish
<1>11. CASE SyncEnd
  <2>1. th[Sync].pc \in SyncPc
    BY <1>11 DEF SyncEnd, At, SyncPc
  <2> QED
    BY <1>11, <2>1, AfterSyncGood DEF SyncEnd
<1> QED
  BY <1>3, <1>4, <1>5, <1>6, <1>7, <1>8, <1>9, <1>10, <1>11

\* A text goes to the relay.
LEMMA SendPendingGood ==
    ASSUME Inv, SendPending
    PROVE  Good
<1>1. PICK c : c = th[Sync]
  OBVIOUS
<1>2. Known(c) /\ Placed(Sync, c) /\ c.pc \in {"send", "resend"}
  BY <1>1, SyncThread, CallOf DEF SendPending
<1>3. PICK a \in c.todo : left' = left \cup {a} /\ Goto(Sync, [c EXCEPT !.todo = @ \ {a}])
  BY <1>1 DEF SendPending, MarkSent
<1>4. PICK r : r = [c EXCEPT !.todo = c.todo \ {a}]
  OBVIOUS
<1>5. UNCHANGED <<chat, durable, peer, peerHas, greater>>
  BY DEF SendPending
<1>6. a \in CommittedTexts
  BY <1>2, <1>3 DEF Known
<1>7. Effect
  BY <1>3, <1>5, <1>6 DEF Effect, chat, durable
<1>8. Known(r) /\ Placed(Sync, r)
  BY <1>2, <1>4 DEF Known, Placed, Call, Fields, RefreshPc, SyncPc, ResolvePc
<1>9. Known(r)'
  BY <1>7, <1>8, KnownAfter
<1>10. WorldTypes'
  BY <1>5 DEF Inv, WorldTypes, chat, durable
<1> QED
  BY <1>3, <1>4, <1>7, <1>8, <1>9, <1>10, SyncThread, GotoCalls DEF Good

\* Receipts are fetched for what the peer has.
LEMMA FetchGood ==
    ASSUME Inv, Fetch
    PROVE  Good
<1>1. PICK c : c = th[Sync]
  OBVIOUS
<1>2. Known(c) /\ Placed(Sync, c) /\ c.pc = "fetch"
  BY <1>1, SyncThread, CallOf DEF Fetch, At
<1>3. PICK todo : todo = IF Shared
                         THEN (Incoming \ (inbox \cup seen))
                              \cup (peerHas \cap PendingOutgoing)
                              \cup IF Confirmed THEN {} ELSE {None}
                         ELSE {}
  OBVIOUS
<1>4. PICK r : r = [c EXCEPT !.pc = "receive", !.todo = todo]
  OBVIOUS
<1>5. Only(Sync, r)
  BY <1>1, <1>3, <1>4 DEF Fetch
<1>6. todo \cap App \subseteq peerHas
  BY <1>3, ChatAssumption
<1>7. Known(r) /\ Placed(Sync, r)
  BY <1>2, <1>4, <1>6 DEF Known, Placed, Call, Fields, RefreshPc, SyncPc, ResolvePc
<1> QED
  BY <1>5, <1>7, SyncThread, OnlyGood

\* What a message that is accepted does to the records.
LEMMA AcceptsEffect ==
    ASSUME Inv, NEW x, x \in App => x \in peerHas, Accepts(x) \/ UNCHANGED durable,
           UNCHANGED <<entry, claim, left, peerHas>>
    PROVE  Effect /\ session' \in Session
<1>1. CASE UNCHANGED durable
  BY <1>1 DEF Effect, durable, Inv, WorldTypes
<1>2. CASE Accepts(x) /\ Shared
  <2>1. /\ session' \in Session
        /\ UNCHANGED seen
        /\ inbox' = IF x \in Incoming THEN inbox \cup {x} ELSE inbox
        /\ sent' = IF x \in PendingOutgoing
                   THEN [sent EXCEPT ![x].state = "acknowledged"] ELSE sent
    BY <1>2 DEF Accepts, Session
  <2>2. CASE x \in PendingOutgoing
    <3>1. x \in App /\ x \notin Incoming
      BY <2>2, ChatAssumption DEF PendingOutgoing
    <3>2. Sends
      BY <2>1, <2>2, <3>1 DEF Sends, Settle1
    <3> QED
      BY <2>1, <3>1, <3>2 DEF Effect
  <2>3. CASE x \notin PendingOutgoing
    BY <2>1, <2>3 DEF Effect
  <2> QED
    BY <2>1, <2>2, <2>3
<1>3. CASE Accepts(x) /\ ~Shared
  BY <1>1, <1>3 DEF Accepts
<1> QED
  BY <1>1, <1>2, <1>3

\* The second pass.
LEMMA ProcessMessageGood ==
    ASSUME Inv, ProcessMessage
    PROVE  Good
<1>1. PICK c : c = th[Sync]
  OBVIOUS
<1>2. Known(c) /\ Placed(Sync, c) /\ c.pc = "receive"
  BY <1>1, SyncThread, CallOf DEF ProcessMessage, At
<1>3. PICK x \in c.todo :
        /\ Goto(Sync, [c EXCEPT !.todo = @ \ {x}])
        /\ UNCHANGED chat
        /\ Accepts(x) \/ UNCHANGED durable
        /\ UNCHANGED <<left, peer, peerHas, greater>>
  BY <1>1 DEF ProcessMessage, Unknown, world
<1>4. PICK r : r = [c EXCEPT !.todo = c.todo \ {x}]
  OBVIOUS
<1>5. x \in App => x \in peerHas
  BY <1>2, <1>3 DEF Known
<1>6. Effect /\ session' \in Session
  BY <1>3, <1>5, AcceptsEffect DEF chat
<1>7. Known(r) /\ Placed(Sync, r)
  BY <1>2, <1>4 DEF Known, Placed, Call, Fields, RefreshPc, SyncPc, ResolvePc
<1>8. Known(r)'
  BY <1>6, <1>7, KnownAfter
<1>9. WorldTypes'
  BY <1>3, <1>6 DEF Inv, WorldTypes, chat
<1> QED
  BY <1>3, <1>4, <1>6, <1>7, <1>8, <1>9, SyncThread, GotoCalls DEF Good

\* Whether to start a session, and start_session.
LEMMA DecideGood ==
    ASSUME Inv, Decide \/ DecideFlags \/ StartSession \/ SendOpen
    PROVE  Good
<1>1. CASE Decide
  <2>1. PICK c : c = th[Sync]
    OBVIOUS
  <2>2. Known(c) /\ Placed(Sync, c)
    BY <2>1, SyncThread, CallOf
  <2>3. \/ Only(Sync, NextPart(FALSE))
        \/ \E pc \in {"clear", "start"} : Only(Sync, [c EXCEPT !.pc = pc])
    BY <1>1, <2>1 DEF Decide
  <2>4. CASE Only(Sync, NextPart(FALSE))
    BY <2>4, NextPartKnown, SyncThread, OnlyGood
  <2>5. ASSUME NEW pc \in {"clear", "start"}, Only(Sync, [c EXCEPT !.pc = pc])
        PROVE  Good
    <3>1. PICK r : r = [c EXCEPT !.pc = pc]
      OBVIOUS
    <3>2. Known(r) /\ Placed(Sync, r)
      BY <2>2, <3>1, MovedOn
    <3> QED
      BY <2>5, <3>1, <3>2, SyncThread, OnlyGood
  <2> QED
    BY <2>3, <2>4, <2>5
<1>2. CASE DecideFlags /\ HasSession
  <2>1. PICK r : r = NextPart(FALSE)
    OBVIOUS
  <2>2. Known(r) /\ Placed(Sync, r)
    BY <2>1, NextPartKnown
  <2>3. /\ Goto(Sync, r)
        /\ flags' = IF Confirmed THEN NoFlags ELSE flags
        /\ UNCHANGED <<entry, claim, durable, memory, world>>
    BY <1>2, <2>1 DEF DecideFlags, UpdateMeta
  <2>4. flags' \in [conflict: BOOLEAN, accept_only: BOOLEAN]
    BY <2>3 DEF NoFlags, Inv, WorldTypes
  <2> QED
    BY <2>2, <2>3, <2>4, SyncThread, FlagsGood
<1>3. CASE DecideFlags /\ ~HasSession
  BY <1>3, SyncThread, ReturnGood DEF DecideFlags
<1>4. CASE StartSession \/ SendOpen
  <2>1. PICK c : c = th[Sync]
    OBVIOUS
  <2>2. \/ \E s \in BOOLEAN : Goto(Sync, NextPart(s))
        \/ Goto(Sync, [c EXCEPT !.pc = "open"])
    BY <1>4, <2>1 DEF StartSession, SendOpen, To
  <2>3. /\ UNCHANGED <<chat, sent, inbox, seen, left, peer, peerHas, greater>>
        /\ session' \in Session
    <3>1. CASE StartSession
      BY <3>1 DEF StartSession, Unknown, world, Session, Inv, WorldTypes
    <3>2. CASE SendOpen
      BY <3>2 DEF SendOpen, durable, world, Inv, WorldTypes
    <3> QED
      BY <1>4, <3>1, <3>2
  <2>4. Effect
    BY <2>3 DEF Effect, chat
  <2>5. WorldTypes'
    BY <2>3 DEF Inv, WorldTypes, chat
  <2>6. CASE \E s \in BOOLEAN : Goto(Sync, NextPart(s))
    <3>1. PICK s \in BOOLEAN : Goto(Sync, NextPart(s))
      BY <2>6
    <3>2. Known(NextPart(s))' /\ Placed(Sync, NextPart(s))
      BY <2>4, NextPartKnown, KnownAfter
    <3> QED
      BY <2>4, <2>5, <3>1, <3>2, SyncThread, GotoCalls DEF Good
  <2>7. CASE Goto(Sync, [c EXCEPT !.pc = "open"])
    <3>1. PICK r : r = [c EXCEPT !.pc = "open"]
      OBVIOUS
    <3>2. Known(c) /\ Placed(Sync, c)
      BY <2>1, SyncThread, CallOf
    <3>3. Known(r) /\ Placed(Sync, r)
      BY <3>1, <3>2, MovedOn
    <3>4. Known(r)'
      BY <2>4, <3>3, KnownAfter
    <3> QED
      BY <2>4, <2>5, <2>7, <3>1, <3>3, <3>4, SyncThread, GotoCalls DEF Good
  <2> QED
    BY <2>2, <2>6, <2>7
<1> QED
  BY <1>1, <1>2, <1>3, <1>4

-----------------------------------------------------------------------------
(* The peer, faults, and every step.                                       *)

\* The peer's steps.
LEMMA PeerGood ==
    ASSUME Inv, PeerStarts \/ PeerTakes \/ PeerRefuses \/ PeerAccepts
    PROVE  Good
<1>1. UNCHANGED <<chat, durable, th, left, greater>>
  BY DEF PeerStarts, PeerTakes, PeerRefuses, PeerAccepts
<1>2. Effect
  BY DEF Effect, PeerStarts, PeerTakes, PeerRefuses, PeerAccepts, chat, durable
<1>3. WorldTypes'
  BY DEF PeerStarts, PeerTakes, PeerRefuses, PeerAccepts, chat, durable, Inv, WorldTypes
<1>4. \A t \in Thread : Known(th[t])'
  <2> SUFFICES ASSUME NEW t \in Thread PROVE Known(th[t])'
    OBVIOUS
  <2>1. PICK c : c = th[t]
    OBVIOUS
  <2>2. Known(c)'
    BY <1>2, <2>1, CallOf, KnownAfter
  <2> QED
    BY <1>1, <2>1, <2>2
<1>5. Calls'
  BY <1>1, <1>4 DEF Calls, Inv, Placed
<1> QED
  BY <1>2, <1>3, <1>5 DEF Good

\* A crash ends every call.
LEMMA CrashGood ==
    ASSUME Inv, Crash
    PROVE  Good
<1>1. UNCHANGED <<chat, durable, left, peer, peerHas, greater>>
  BY DEF Crash
<1>2. Effect
  BY <1>1 DEF Effect, chat, durable
<1>3. WorldTypes'
  BY <1>1 DEF chat, durable, Inv, WorldTypes
<1>4. DOMAIN th' = Thread /\ \A t \in Thread : th'[t] = Idle
  BY DEF Crash
<1>5. \A t \in Thread : Placed(t, Idle)
  BY IdleKnown
<1>6. Known(Idle)'
  BY <1>2, IdleKnown, KnownAfter
<1>7. Calls'
  BY <1>4, <1>5, <1>6 DEF Calls
<1> QED
  BY <1>2, <1>3, <1>7 DEF Good

\* A call that fails ends, or the round goes on.
LEMMA FailsGood ==
    ASSUME Inv, NetworkFails \/ \E t \in Thread : StorageFails(t)
    PROVE  Good
<1>1. UNCHANGED <<chat, durable, left, peer, peerHas, greater>>
  BY DEF NetworkFails, StorageFails
<1>2. Effect
  BY <1>1 DEF Effect, chat, durable
<1>3. WorldTypes'
  BY <1>1 DEF chat, durable, Inv, WorldTypes
<1>4. \/ InSync /\ Goto(Sync, AfterSync)
      \/ Goto(Sync, NextPart(FALSE))
      \/ \E t \in Thread : Goto(t, Idle)
  BY DEF NetworkFails, StorageFails
<1>5. CASE InSync /\ Goto(Sync, AfterSync)
  <2>1. PICK r : r = AfterSync
    OBVIOUS
  <2>2. Known(r) /\ Placed(Sync, r) /\ Goto(Sync, r)
    BY <1>5, <2>1, AfterSyncKnown DEF InSync, SyncPc
  <2> QED
    BY <1>2, <1>3, <2>2, KnownAfter, SyncThread, GotoCalls DEF Good
<1>6. CASE Goto(Sync, NextPart(FALSE))
  <2>1. Known(NextPart(FALSE))' /\ Placed(Sync, NextPart(FALSE))
    BY <1>2, NextPartKnown, KnownAfter
  <2> QED
    BY <1>2, <1>3, <1>6, <2>1, SyncThread, GotoCalls DEF Good
<1>7. CASE \E t \in Thread : Goto(t, Idle)
  <2>1. Known(Idle)' /\ \A t : Placed(t, Idle)
    BY <1>2, IdleKnown, KnownAfter
  <2> QED
    BY <1>2, <1>3, <1>7, <2>1, GotoCalls DEF Good
<1> QED
  BY <1>4, <1>5, <1>6, <1>7

\* Every step of the system is good.
LEMMA NextGood ==
    ASSUME Inv, Next
    PROVE  Good
<1>1. ASSUME NEW u \in User, Work(u)
      PROVE  Good
  <2>1. u \in Thread
    BY DEF Thread
  <2> QED
    BY <1>1, <2>1, RawSendGood, QueueGood, RefreshGood, CallsBegin, ResolveChecks,
       ResolveMarks, ResolveEnds DEF Work, Resolve
<1>2. ASSUME Round
      PROVE  Good
  BY <1>2, SyncReads, SendPendingGood, FetchGood, ProcessMessageGood, DecideGood,
     RefreshGood, SyncThread DEF Round
<1> QED
  BY <1>1, <1>2, CallsBegin, ChatSendGood, SendTextGood, PeerGood, CrashGood,
     FailsGood DEF Next

-----------------------------------------------------------------------------
(* The theorems.                                                           *)

\* The initial states.
LEMMA InitInv == Init => Inv
<1> SUFFICES ASSUME Init PROVE Inv
  OBVIOUS
<1>1. RecordTypes
  BY DEF Init, RecordTypes
<1>2. WorldTypes
  BY DEF Init, WorldTypes, Session, NoFlags
<1>3. Calls
  <2>1. DOMAIN th = Thread /\ \A t \in Thread : th[t] = Idle
    BY DEF Init
  <2> QED
    BY <2>1, IdleKnown DEF Calls
<1>4. DOMAIN entry = {} /\ CommittedTexts = {}
  BY DEF Init, CommittedTexts
<1>5. Records
  BY <1>4 DEF Init, Records, Numbered, Kinds, Shown, Owned, Arrived
<1> QED
  BY <1>1, <1>2, <1>3, <1>5 DEF Inv

\* A step that changes nothing.
LEMMA StutterInv ==
    ASSUME Inv, UNCHANGED vars
    PROVE  Inv'
<1> USE DEF vars, chat, durable, memory, world
<1>1. RecordTypes' /\ WorldTypes'
  BY DEF Inv, RecordTypes, WorldTypes
<1>2. Effect
  BY DEF Effect
<1>3. Calls'
  <2>1. \A t \in Thread : Known(th[t])'
    <3> SUFFICES ASSUME NEW t \in Thread PROVE Known(th[t])'
      OBVIOUS
    <3>1. PICK c : c = th[t]
      OBVIOUS
    <3>2. Known(c)'
      BY <1>2, <3>1, CallOf, KnownAfter
    <3> QED
      BY <3>1, <3>2
  <2> QED
    BY <2>1 DEF Calls, Inv, Placed
<1> QED
  BY <1>1, <1>2, <1>3, GoodKeeps DEF Good

\* The records agree with each other and with what every call knows, whatever
\* the threads interleave.
THEOREM InvHolds == Spec => []Inv
<1>1. Inv /\ [Next]_vars => Inv'
  BY NextGood, GoodKeeps, StutterInv
<1> QED
  BY InitInv, <1>1, PTL DEF Spec

\* send_text and chat_send never commit under each other's id: chat_send looks
\* for a raw text before its transaction, in which it sees the claim.
THEOREM OneOwnerHolds == Spec => []OneOwner
<1>1. Inv => OneOwner
  <2> SUFFICES ASSUME Inv, NEW a \in App
               PROVE  /\ ~(a \in claim /\ Indexed(a))
                      /\ sent[a] # None => (sent[a].by = "chat") = Indexed(a)
    BY DEF OneOwner
  <2>1. ~(a \in claim /\ Indexed(a))
    BY DEF Inv, Records, Owned
  <2>2. ASSUME sent[a] # None PROVE (sent[a].by = "chat") = Indexed(a)
    <3>1. sent[a].by \in {"chat", "raw"} /\ a \in CommittedTexts
      BY <2>2 DEF Inv, RecordTypes, Sent, CommittedTexts
    <3>2. sent[a].by = "chat" => Indexed(a)
      BY <3>1 DEF Inv, Records, Owned
    <3>3. sent[a].by = "raw" => ~Indexed(a)
      BY <3>1 DEF Inv, Records, Owned
    <3>4. sent[a].by = "chat" <=> Indexed(a)
      BY <3>1, <3>2, <3>3
    <3> QED
      BY <3>4 DEF Indexed
  <2> QED
    BY <2>1, <2>2
<1> QED
  BY <1>1, InvHolds, PTL

\* A text of the peer is in the history once, and before it leaves the inbox.
THEOREM ReceivedOnceHolds == Spec => []ReceivedOnce
<1>1. Inv => ReceivedOnce
  BY DEF Inv, Records, Numbered, Arrived, Indexed, ReceivedOnce
<1> QED
  BY <1>1, InvHolds, PTL

\* What is shown as delivered the peer has accepted, and it is the text of this
\* entry.
THEOREM DeliveredTruthHolds == Spec => []DeliveredTruth
<1>1. Inv => DeliveredTruth
  <2> SUFFICES ASSUME Inv, NEW n \in DOMAIN entry, entry[n].state = "Delivered"
               PROVE  entry[n].id \in peerHas /\ sent[entry[n].id].by = "chat"
    BY DEF DeliveredTruth
  <2>1. PICK a : a = entry[n].id
    OBVIOUS
  <2>2. a \in App /\ sent[a] # None /\ sent[a].state = "acknowledged"
    BY <2>1 DEF Inv, Records, Kinds, Shown
  <2>3. a \in peerHas
    BY <2>2 DEF Inv, Records, Arrived, CommittedTexts
  <2>4. sent[a].by \in {"chat", "raw"} /\ a \in CommittedTexts
    BY <2>2 DEF Inv, RecordTypes, Sent, CommittedTexts
  <2>5. Indexed(a)
    BY <2>1 DEF Indexed
  <2> QED
    BY <2>1, <2>3, <2>4, <2>5 DEF Inv, Records, Owned
<1> QED
  BY <1>1, InvHolds, PTL

\* What is shown never goes back.
THEOREM NeverBackHolds == Spec => NeverBack
<1>1. Inv /\ [Next]_vars =>
        [\A n \in DOMAIN entry :
           /\ n \in DOMAIN entry'
           /\ entry'[n].id = entry[n].id
           /\ entry'[n].state # entry[n].state =>
                 <<entry[n].state, entry'[n].state>> \in Forward]_vars
  <2> SUFFICES ASSUME Inv, Next
               PROVE  \A n \in DOMAIN entry :
                         /\ n \in DOMAIN entry'
                         /\ entry'[n].id = entry[n].id
                         /\ entry'[n].state # entry[n].state =>
                               <<entry[n].state, entry'[n].state>> \in Forward
    OBVIOUS
  <2>1. Effect
    BY NextGood DEF Good
  <2>2. Grows
    BY <2>1, EffectGrows DEF Inv, Records
  <2> QED
    BY <2>2 DEF Grows
<1> QED
  BY <1>1, InvHolds, PTL DEF Spec, NeverBack

-----------------------------------------------------------------------------
(* NotDelivered.  A device resolves a conflict only if its key is greater; *)
(* the peer then keeps the session it started, and never accepts a text of *)
(* ours.  That the session does not change while the conflict is resolved  *)
(* needs that no other thread resolves it too.                             *)

OneResolver == \A u, v \in Resolver : u = v

Resolving(u) == th[u].pc \in ResolvePc
GivingUp(u) == th[u].pc \in {"only", "list", "not_delivered", "abandon"}

\* The peer has a session of its own and will keep it.
Refuses == greater /\ peer = "own"
Doomed(a) == a \in CommittedTexts /\ sent[a].on = "ours" /\ Refuses

Conflicted ==
    /\ greater /\ (flags.conflict \/ At(Sync, "set_flag")) => Refuses
    /\ \A u \in Thread : Resolving(u) => Refuses
    /\ \A u \in Thread : GivingUp(u) => session = "ours"
    /\ session = "legacy" =>
          /\ ~flags.conflict
          /\ ~At(Sync, "set_flag")
          /\ \A u \in Thread : ~Resolving(u)

Abandoned ==
    /\ \A a \in CommittedTexts :
          /\ sent[a].on = "theirs" => session = "theirs"
          /\ sent[a].state = "abandoned" => Doomed(a)
    /\ \A a \in peerHas : sent[a].on = "ours" => peer = "ours"
    /\ \A n \in DOMAIN entry :
          entry[n].state = "NotDelivered" => Doomed(entry[n].id)

ConflictInv == Inv /\ Conflicted /\ Abandoned

\* What steps do to the session, the peer and the texts.
Calm ==
    /\ greater' = greater
    /\ Refuses => peer' = peer
    /\ peer = "ours" => peer' = "ours"
    /\ session' # session => session' # "legacy" /\ session # "theirs"
    /\ \A a \in CommittedTexts' :
          IF a \in CommittedTexts
          THEN sent'[a].state = "abandoned" => sent[a].state = "abandoned" \/ Doomed(a)
          ELSE /\ sent'[a].state = "pending"
               /\ sent'[a].on = "theirs" => session = "theirs"
    /\ \A a \in peerHas' \ peerHas : sent[a].on = "ours" => peer' = "ours"
    /\ \A n \in DOMAIN entry' :
          entry'[n].state = "NotDelivered" =>
             \/ n \in DOMAIN entry /\ entry[n].state = "NotDelivered"
             \/ Doomed(entry'[n].id)

\* The calls of the other threads stay, and one goes on outside of a conflict.
Others(t) == DOMAIN th' = Thread /\ \A u \in Thread \ {t} : th'[u] = th[u]
Moved(t) == Others(t) /\ th'[t].pc \notin ResolvePc \cup {"set_flag"}

\* What was given up stays so.
LEMMA CalmAbandoned ==
    ASSUME ConflictInv, Good, Calm
    PROVE  Abandoned'
<1>1. Grows /\ Inv' /\ Inv
  BY EffectGrows, GoodKeeps DEF ConflictInv, Good, Inv, Records
<1>2. ASSUME NEW a, Doomed(a)
      PROVE  Doomed(a)'
  BY <1>1, <1>2 DEF Doomed, Refuses, CommittedTexts, Grows, Calm
<1>3. ASSUME NEW a \in CommittedTexts'
      PROVE  /\ sent'[a].on = "theirs" => session' = "theirs"
             /\ sent'[a].state = "abandoned" => Doomed(a)'
  <2>1. CASE a \in CommittedTexts
    <3>1. sent'[a].on = sent[a].on
      BY <1>1, <2>1 DEF Grows
    <3>2. sent'[a].on = "theirs" => session' = "theirs"
      BY <2>1, <3>1 DEF ConflictInv, Abandoned, Calm
    <3>3. ASSUME sent'[a].state = "abandoned"
          PROVE  Doomed(a)
      BY <1>3, <2>1, <3>3 DEF Calm, ConflictInv, Abandoned
    <3> QED
      BY <1>2, <3>2, <3>3
  <2>2. CASE a \notin CommittedTexts
    BY <1>3, <2>2 DEF Calm
  <2> QED
    BY <2>1, <2>2
<1>4. ASSUME NEW a \in peerHas'
      PROVE  sent'[a].on = "ours" => peer' = "ours"
  <2>1. CASE a \in peerHas
    <3>1. a \in CommittedTexts
      BY <1>1, <2>1 DEF Inv, Records, Arrived
    <3>2. sent'[a].on = sent[a].on
      BY <1>1, <3>1 DEF Grows
    <3> QED
      BY <2>1, <3>2 DEF ConflictInv, Abandoned, Calm
  <2>2. CASE a \notin peerHas
    <3>1. CASE a \in CommittedTexts
      <4>1. sent'[a].on = sent[a].on
        BY <1>1, <3>1 DEF Grows
      <4> QED
        BY <1>4, <2>2, <4>1 DEF Calm
    <3>2. CASE a \notin CommittedTexts
      <4>1. \/ UNCHANGED peerHas
            \/ a \in left
        BY <1>4, <2>2 DEF Good, Effect
      <4> QED
        BY <1>1, <1>4, <2>2, <3>2, <4>1 DEF Inv, Records, Arrived
    <3> QED
      BY <3>1, <3>2
  <2> QED
    BY <2>1, <2>2
<1>5. ASSUME NEW n \in DOMAIN entry', entry'[n].state = "NotDelivered"
      PROVE  Doomed(entry[n].id)'
  <2>1. PICK a : a = entry'[n].id
    OBVIOUS
  <2>2. Doomed(a)
    <3>1. CASE n \in DOMAIN entry /\ entry[n].state = "NotDelivered"
      <4>1. entry[n].id = a
        BY <1>1, <2>1, <3>1 DEF Grows
      <4> QED
        BY <3>1, <4>1 DEF ConflictInv, Abandoned
    <3> QED
      BY <1>5, <2>1, <3>1 DEF Calm
  <2> QED
    BY <1>2, <2>1, <2>2
<1> QED
  BY <1>3, <1>4, <1>5 DEF Abandoned

\* A step outside of a conflict.
LEMMA MovedConflicted ==
    ASSUME ConflictInv, Good, Calm, NEW t \in Thread, Moved(t),
           flags'.conflict => flags.conflict,
           session' # session => \A u \in Thread : ~GivingUp(u)
    PROVE  Conflicted'
<1>1. \A u \in Thread : /\ Resolving(u)' => Resolving(u)
                        /\ GivingUp(u)' => GivingUp(u)
  BY DEF Moved, Others, Resolving, GivingUp, ResolvePc
<1>2. At(Sync, "set_flag")' => At(Sync, "set_flag")
  BY SyncThread DEF Moved, Others, At
<1>3. Refuses => Refuses'
  BY DEF Calm, Refuses
<1>4. session' = "legacy" => session = "legacy"
  BY DEF Calm
<1>5. greater' = greater
  BY DEF Calm
<1> QED
  BY <1>1, <1>2, <1>3, <1>4, <1>5 DEF ConflictInv, Conflicted

\* Where the world and the texts stay as they are.
LEMMA StillCalm ==
    ASSUME UNCHANGED <<session, peer, greater, sent, peerHas, entry>>
    PROVE  Calm
  BY DEF Calm, CommittedTexts

\* A step that only reads.
LEMMA OnlyConflict ==
    ASSUME ConflictInv, Good, NEW t \in Thread, NEW r, Only(t, r),
           r.pc \notin ResolvePc \cup {"set_flag"}
    PROVE  Conflicted' /\ Calm
<1>1. DOMAIN th = Thread
  BY DEF ConflictInv, Inv, Calls
<1>2. Moved(t)
  BY <1>1 DEF Only, Goto, Moved, Others
<1>3. UNCHANGED <<session, peer, greater, sent, peerHas, entry, flags>>
  BY DEF Only, chat, durable, world
<1>4. Calm
  BY <1>3, StillCalm
<1> QED
  BY <1>2, <1>3, <1>4, MovedConflicted

\* A call that goes on, by what is left alone.
LEMMA GotoMoved ==
    ASSUME ConflictInv, NEW t \in Thread, NEW r, Goto(t, r),
           r.pc \notin ResolvePc \cup {"set_flag"}
    PROVE  Moved(t)
  BY DEF ConflictInv, Inv, Calls, Goto, Moved, Others

\* A commit makes a pending text of the session there is.
LEMMA CommitCalm ==
    ASSUME ConflictInv, NEW a \in App, SendCommits(a), NEW by,
           sent' \in {sent, Committed(a, by)},
           UNCHANGED <<session, peer, greater, peerHas, entry>>
    PROVE  Calm
<1>1. CASE sent' = sent
  BY <1>1, StillCalm
<1>2. CASE sent' = Committed(a, by)
  <2>1. sent[a] = None /\ DOMAIN sent = App
    BY DEF SendCommits, SendReports, SendRefused, ConflictInv, Inv, RecordTypes
  <2>2. PICK on : on = IF session = "theirs" THEN "theirs" ELSE "ours"
    OBVIOUS
  <2>3. /\ sent'[a] = [by |-> by, on |-> on, state |-> "pending"]
        /\ \A b \in App : b # a => sent'[b] = sent[b]
    BY <1>2, <2>1, <2>2 DEF Committed
  <2>4. sent'[a].on = on /\ sent'[a].state = "pending"
    BY <2>3
  <2>5. a \notin CommittedTexts
    BY <2>1 DEF CommittedTexts
  <2> QED
    BY <2>2, <2>3, <2>4, <2>5 DEF Calm, CommittedTexts
<1> QED
  BY <1>1, <1>2

\* Adding an entry.
LEMMA AddsCalm ==
    ASSUME ConflictInv, Adds \/ UNCHANGED entry,
           UNCHANGED <<session, peer, greater, peerHas, sent>>
    PROVE  Calm
<1>1. CASE UNCHANGED entry
  BY <1>1, StillCalm
<1>2. CASE Adds
  <2>1. PICK k :
          /\ DOMAIN entry' = DOMAIN entry \cup {k}
          /\ \A n \in DOMAIN entry : entry'[n] = entry[n]
          /\ entry'[k].state \in {"Queued", "Received"}
    BY <1>2, AddsEntry DEF ConflictInv, Inv
  <2> QED
    BY <2>1 DEF Calm, CommittedTexts
<1> QED
  BY <1>1, <1>2

\* Moving an entry to NotDelivered, of a text that the peer refuses.
LEMMA MovesCalm ==
    ASSUME ConflictInv, NEW x, Listed(x), NEW state \in State, NEW id \in Id,
           state = "NotDelivered" => Doomed(x.e.id),
           entry' = [entry EXCEPT ![x.seq] = Advanced(@, state, id)],
           UNCHANGED <<session, peer, greater, peerHas, sent>>
    PROVE  Calm
<1>1. PICK n : n = x.seq
  OBVIOUS
<1>2. n \in DOMAIN entry /\ entry[n].id = x.e.id /\ entry[n] \in Entry
  BY <1>1 DEF Listed, ConflictInv, Inv, RecordTypes
<1>3. PICK e : e = Advanced(entry[n], state, id)
  OBVIOUS
<1>4. e.id = entry[n].id /\ (e.state = entry[n].state \/ e.state = state)
  BY <1>2, <1>3, AdvancedKeeps
<1>5. /\ DOMAIN entry' = DOMAIN entry
      /\ entry'[n] = e
      /\ \A k \in DOMAIN entry : k # n => entry'[k] = entry[k]
  BY <1>1, <1>2, <1>3
<1>6. ASSUME NEW k \in DOMAIN entry', entry'[k].state = "NotDelivered"
      PROVE  \/ k \in DOMAIN entry /\ entry[k].state = "NotDelivered"
             \/ Doomed(entry'[k].id)
  <2>1. CASE k = n
    <3>1. entry'[k].id = x.e.id /\ e.state = "NotDelivered"
      BY <1>2, <1>4, <1>5, <1>6, <2>1
    <3>2. CASE e.state = entry[n].state
      BY <1>2, <2>1, <3>1, <3>2
    <3>3. CASE e.state = state
      BY <3>1, <3>3
    <3> QED
      BY <1>4, <3>2, <3>3
  <2>2. CASE k # n
    BY <1>5, <1>6, <2>2
  <2> QED
    BY <2>1, <2>2
<1> QED
  BY <1>6 DEF Calm, CommittedTexts

\* refresh goes on with what it read.
LEMMA RefreshOnly ==
    ASSUME ConflictInv, NEW t \in Thread,
           \/ RefreshBegin(t) \/ RefreshTexts(t) \/ RefreshOutbox(t)
           \/ RefreshCanSend(t) \/ RefreshEntries(t) \/ Waits(t) \/ CheckSent(t)
           \/ RefreshEnd(t)
    PROVE  \E r : Only(t, r) /\ r.pc \notin ResolvePc \cup {"set_flag"}
<1>1. PICK c : c = th[t]
  OBVIOUS
<1>2. DOMAIN c = Fields
  BY <1>1, CallOf DEF ConflictInv, Known, Call
<1>3. Idle.pc = "idle"
  BY DEF Idle
<1> USE DEF ResolvePc, Fields, Return
<1>4. CASE RefreshBegin(t)
  <2>1. PICK r : r = [c EXCEPT !.pc = IF HasSession THEN "texts" ELSE "entries"]
    OBVIOUS
  <2>2. r.pc \in {"texts", "entries"}
    BY <1>2, <2>1
  <2>3. Only(t, r)
    BY <1>1, <1>4, <2>1 DEF RefreshBegin
  <2> QED
    BY <2>2, <2>3
<1>5. CASE RefreshTexts(t) /\ HasSession
  <2>1. PICK r : r = [c EXCEPT !.todo = inbox,
                               !.pc = IF inbox = {} THEN "outbox" ELSE "record"]
    OBVIOUS
  <2>2. r.pc \in {"outbox", "record"}
    BY <1>2, <2>1
  <2>3. Only(t, r)
    BY <1>1, <1>5, <2>1 DEF RefreshTexts
  <2> QED
    BY <2>2, <2>3
<1>6. CASE RefreshOutbox(t) /\ HasSession
  <2>1. PICK r : r = [c EXCEPT !.pc = "can_send", !.pending = PendingOutgoing]
    OBVIOUS
  <2>2. r.pc \in {"can_send"}
    BY <1>2, <2>1
  <2>3. Only(t, r)
    BY <1>1, <1>6, <2>1 DEF RefreshOutbox
  <2> QED
    BY <2>2, <2>3
<1>7. CASE RefreshCanSend(t)
  <2>1. PICK r : r = [c EXCEPT !.pc = "entries", !.can_send = CanSend]
    OBVIOUS
  <2>2. r.pc \in {"entries"}
    BY <1>2, <2>1
  <2>3. Only(t, r)
    BY <1>1, <1>7, <2>1 DEF RefreshCanSend
  <2> QED
    BY <2>2, <2>3
<1>8. CASE RefreshEntries(t)
  <2>1. PICK r : r = [c EXCEPT !.pc = "each", !.entries = Snapshot,
                               !.waiting = FALSE, !.committed = FALSE]
    OBVIOUS
  <2>2. r.pc \in {"each"}
    BY <1>2, <2>1
  <2>3. Only(t, r)
    BY <1>1, <1>8, <2>1 DEF RefreshEntries
  <2> QED
    BY <2>2, <2>3
<1>9. CASE Waits(t)
  <2>1. PICK r : r = [[c EXCEPT !.pc = "each", !.entries = @ \ {Current(t)},
                                !.id = None] EXCEPT !.waiting = TRUE]
    OBVIOUS
  <2>2. r.pc \in {"each"}
    BY <1>2, <2>1
  <2>3. Only(t, r)
    BY <1>1, <1>9, <2>1 DEF Waits, Skip
  <2> QED
    BY <2>2, <2>3
<1>10. CASE CheckSent(t)
  <2>1. PICK r :
          /\ \/ r = [c EXCEPT !.pc = "each", !.entries = @ \ {Current(t)}, !.id = None]
             \/ \E state : r = [c EXCEPT !.pc = "advance", !.to = state]
          /\ Only(t, r)
    BY <1>1, <1>10 DEF CheckSent, Skip
  <2>2. r.pc \in {"each", "advance"}
    BY <1>2, <2>1
  <2> QED
    BY <2>1, <2>2
<1>11. CASE RefreshEnd(t)
  <2>1. t = Sync => th[t].part \in 1 .. 4
    BY <1>11, CallOf DEF ConflictInv, RefreshEnd, Placed, RefreshPc, At
  <2>2. PICK i : i = [Idle EXCEPT !.part = th[t].part, !.started = th[t].started,
                                  !.waiting = th[t].waiting]
    OBVIOUS
  <2>3. DOMAIN i = Fields /\ i.part = th[t].part
    BY <2>2 DEF Idle
  <2>4. PICK r : r = Refreshed(t)
    OBVIOUS
  <2>5. r = Idle \/ r = [i EXCEPT !.pc = "sync"] \/ r = [i EXCEPT !.pc = "decide"]
    <3>1. CASE t # Sync
      BY <2>4, <3>1 DEF Refreshed
    <3>2. CASE t = Sync
      <4>1. \/ th[t].part = 1 \/ th[t].part = 2 \/ th[t].part = 3 \/ th[t].part = 4
        BY <2>1, <3>2
      <4> QED
        BY <2>2, <2>3, <2>4, <3>2, <4>1 DEF Refreshed
    <3> QED
      BY <3>1, <3>2
  <2>6. r.pc \in {"idle", "sync", "decide"}
    BY <1>3, <2>3, <2>5
  <2>7. Only(t, r)
    BY <1>11, <2>4 DEF RefreshEnd
  <2> QED
    BY <2>6, <2>7
<1>12. CASE (RefreshTexts(t) \/ RefreshOutbox(t)) /\ ~HasSession
  BY <1>3, <1>12 DEF RefreshTexts, RefreshOutbox
<1> QED
  BY <1>4, <1>5, <1>6, <1>7, <1>8, <1>9, <1>10, <1>11, <1>12

\* refresh shows NotDelivered only for what was abandoned.
LEMMA RefreshConflict ==
    ASSUME ConflictInv, Good, NEW t \in Thread, Refresh(t)
    PROVE  Conflicted' /\ Calm
<1>1. PICK c : c = th[t]
  OBVIOUS
<1>2. Known(c) /\ DOMAIN c = Fields
  BY <1>1, CallOf DEF ConflictInv, Known, Call
<1>3. Idle.pc = "idle"
  BY DEF Idle
<1>4. CASE RecordIncoming(t)
  <2>1. PICK m \in c.todo : Record(m) /\ Goto(t, [c EXCEPT !.pc = "mark", !.id = m])
    BY <1>1, <1>4 DEF RecordIncoming
  <2>2. PICK r : r = [c EXCEPT !.pc = "mark", !.id = m]
    OBVIOUS
  <2>3. Goto(t, r) /\ r.pc = "mark"
    BY <1>2, <2>1, <2>2 DEF Fields
  <2>4. Moved(t)
    BY <2>3, GotoMoved DEF ResolvePc
  <2>5. UNCHANGED <<flags, session, peer, greater, peerHas, sent>>
    BY <1>4 DEF RecordIncoming, durable, world
  <2>6. m \in Incoming
    BY <1>1, <1>2, <1>4, <2>1 DEF Known, RecordIncoming, At
  <2>7. Adds \/ UNCHANGED entry
    BY <2>1, <2>6 DEF Record, Adds
  <2>8. Calm
    BY <2>5, <2>7, AddsCalm
  <2> QED
    BY <2>4, <2>5, <2>8, MovedConflicted
<1>5. CASE MarkRead(t) /\ HasSession
  <2>1. PICK r : r = [c EXCEPT !.todo = c.todo \ {c.id}, !.id = None,
                       !.pc = IF c.todo \ {c.id} = {} THEN "outbox" ELSE "record"]
    OBVIOUS
  <2>2. Goto(t, r) /\ UNCHANGED <<chat, session, sent, memory, world>>
    BY <1>1, <1>5, <2>1 DEF MarkRead
  <2>3. r.pc \in {"outbox", "record"}
    BY <1>2, <2>1 DEF Fields
  <2>4. Moved(t)
    BY <2>2, <2>3, GotoMoved DEF ResolvePc
  <2>5. UNCHANGED <<entry, flags, session, peer, greater, peerHas, sent>>
    BY <2>2 DEF chat, world
  <2>6. Calm
    BY <2>5, StillCalm
  <2> QED
    BY <2>4, <2>5, <2>6, MovedConflicted
<1>6. CASE MarkRead(t) /\ ~HasSession
  BY <1>3, <1>6, OnlyConflict DEF MarkRead, Return, ResolvePc
<1>7. CASE SendQueued(t)
  <2>1. PICK a : a = First(c.entries).e.id
    OBVIOUS
  <2>2. a \in App
    BY <1>1, <1>2, <1>7, <2>1, FirstIn DEF Known, Call, Listed, SendQueued
  <2>3. Current(t).e.id = a
    BY <1>1, <2>1 DEF Current
  <2>4. \/ Return(t)
        \/ \E to : Only(t, [c EXCEPT !.pc = "advance", !.to = to, !.id = a,
                                     !.committed = TRUE])
        \/ /\ SendCommits(a)
           /\ sent' \in {sent, Committed(a, "chat")}
           /\ \/ Goto(t, [c EXCEPT !.pc = "advance", !.to = "Pending", !.id = a,
                                   !.committed = TRUE])
              \/ Goto(t, Idle)
           /\ UNCHANGED <<entry, flags, session, peer, greater, peerHas>>
    BY <1>1, <1>7, <2>3 DEF SendQueued, Unknown, chat, world
  <2>5. CASE Return(t)
    BY <1>3, <2>5, OnlyConflict DEF Return, ResolvePc
  <2>6. ASSUME NEW to, Only(t, [c EXCEPT !.pc = "advance", !.to = to, !.id = a,
                                         !.committed = TRUE])
        PROVE  Conflicted' /\ Calm
    <3>1. PICK r : r = [c EXCEPT !.pc = "advance", !.to = to, !.id = a,
                                 !.committed = TRUE]
      OBVIOUS
    <3>2. Only(t, r) /\ r.pc = "advance"
      BY <1>2, <2>6, <3>1 DEF Fields
    <3> QED
      BY <3>2, OnlyConflict DEF ResolvePc
  <2>7. CASE /\ SendCommits(a)
             /\ sent' \in {sent, Committed(a, "chat")}
             /\ \/ Goto(t, [c EXCEPT !.pc = "advance", !.to = "Pending", !.id = a,
                                     !.committed = TRUE])
                \/ Goto(t, Idle)
             /\ UNCHANGED <<entry, flags, session, peer, greater, peerHas>>
    <3>1. PICK r : r = [c EXCEPT !.pc = "advance", !.to = "Pending", !.id = a,
                                 !.committed = TRUE]
      OBVIOUS
    <3>2. (Goto(t, r) \/ Goto(t, Idle)) /\ r.pc = "advance"
      BY <1>2, <2>7, <3>1 DEF Fields
    <3>3. Moved(t)
      BY <1>3, <3>2, GotoMoved DEF ResolvePc
    <3>4. Calm
      BY <2>2, <2>7, CommitCalm
    <3> QED
      BY <2>7, <3>3, <3>4, MovedConflicted
  <2> QED
    BY <2>4, <2>5, <2>6, <2>7
<1>8. CASE Advance(t)
  <2>1. PICK x : x = First(c.entries)
    OBVIOUS
  <2>2. Listed(x) /\ Justified(x.e.id, c.to)
    BY <1>1, <1>2, <1>8, <2>1, FirstIn DEF Known, Call, Advance, At
  <2>3. PICK r : r = [[c EXCEPT !.pc = "each", !.entries = c.entries \ {x},
                                !.id = None] EXCEPT !.to = "Queued"]
    OBVIOUS
  <2>4. /\ entry' = [entry EXCEPT ![x.seq] = Advanced(@, c.to, c.id)]
        /\ UNCHANGED <<claim, flags, durable, memory, world>>
        /\ Goto(t, r)
    BY <1>1, <1>8, <2>1, <2>3 DEF Advance, Skip, Current
  <2>5. r.pc = "each"
    BY <1>2, <2>3 DEF Fields
  <2>6. Moved(t)
    BY <2>4, <2>5, GotoMoved DEF ResolvePc
  <2>7. c.to \in State /\ c.id \in Id
    BY <1>2 DEF Known, Call
  <2>8. c.to = "NotDelivered" => Doomed(x.e.id)
    BY <2>2 DEF Justified, Listed, ConflictInv, Abandoned, CommittedTexts
  <2>9. UNCHANGED <<flags, session, peer, greater, peerHas, sent>>
    BY <2>4 DEF durable, world
  <2>10. Calm
    BY <2>2, <2>4, <2>7, <2>8, <2>9, MovesCalm
  <2> QED
    BY <2>6, <2>9, <2>10, MovedConflicted
<1> QED
  BY <1>4, <1>5, <1>6, <1>7, <1>8, RefreshOnly, OnlyConflict DEF Refresh

\* The application's calls but for resolve_session_conflict.
LEMMA CallsConflict ==
    ASSUME ConflictInv, Good, NEW u \in User,
           \/ \E a \in App : ChatSend(u, a) \/ SendText(u, a)
           \/ ChatEntries(u) \/ Queue(u) \/ RawSend(u)
    PROVE  Conflicted' /\ Calm
<1>0. u \in Thread
  BY DEF Thread
<1>1. Idle.pc = "idle"
  BY DEF Idle
<1>2. ASSUME NEW a \in App, ChatSend(u, a)
      PROVE  Conflicted' /\ Calm
  <2>1. PICK r : r = [Idle EXCEPT !.pc = "queue", !.id = a, !.raw = sent[a] # None]
    OBVIOUS
  <2>2. Only(u, r) /\ r.pc = "queue"
    BY <1>2, <2>1 DEF ChatSend, Idle
  <2> QED
    BY <1>0, <2>2, OnlyConflict DEF ResolvePc
<1>3. CASE ChatEntries(u)
  <2>1. PICK r : r = [Idle EXCEPT !.pc = "refresh"]
    OBVIOUS
  <2>2. Only(u, r) /\ r.pc = "refresh"
    BY <1>3, <2>1 DEF ChatEntries, Idle
  <2> QED
    BY <1>0, <2>2, OnlyConflict DEF ResolvePc
<1>4. ASSUME NEW a \in App, SendText(u, a)
      PROVE  Conflicted' /\ Calm
  <2>1. PICK r : r = [Idle EXCEPT !.pc = "raw_send", !.id = a]
    OBVIOUS
  <2>2. Goto(u, r) /\ r.pc = "raw_send"
    BY <1>4, <2>1 DEF SendText, Idle
  <2>3. UNCHANGED <<flags, session, peer, greater, peerHas, sent, entry>>
    BY <1>4 DEF SendText, durable, world
  <2>4. Moved(u)
    BY <1>0, <2>2, GotoMoved DEF ResolvePc
  <2> QED
    BY <1>0, <2>3, <2>4, StillCalm, MovedConflicted
<1>5. CASE Queue(u) /\ ~Return(u)
  <2>1. PICK r : r = [Idle EXCEPT !.pc = "refresh"]
    OBVIOUS
  <2>2. PICK b : b = th[u].id
    OBVIOUS
  <2>3. b \in App
    BY <1>0, <1>5, <2>2, CallOf DEF ConflictInv, Queue, At, Known
  <2>4. /\ Goto(u, r) /\ r.pc = "refresh"
        /\ UNCHANGED <<claim, flags, durable, memory, world>>
        /\ Indexed(b) \/ ~Taken(u)
        /\ IF Indexed(b) THEN UNCHANGED entry ELSE Append1(TRUE, b)
    BY <1>5, <2>1, <2>2 DEF Queue, Idle
  <2>5. Adds \/ UNCHANGED entry
    BY <2>2, <2>3, <2>4 DEF Adds, Taken
  <2>6. UNCHANGED <<flags, session, peer, greater, peerHas, sent>>
    BY <2>4 DEF durable, world
  <2>7. Calm
    BY <2>5, <2>6, AddsCalm
  <2>8. Moved(u)
    BY <1>0, <2>4, GotoMoved DEF ResolvePc
  <2> QED
    BY <1>0, <2>6, <2>7, <2>8, MovedConflicted
<1>6. CASE RawSend(u) /\ ~Return(u)
  <2>1. PICK b : b = th[u].id
    OBVIOUS
  <2>2. b \in App
    BY <1>0, <1>6, <2>1, CallOf DEF ConflictInv, RawSend, At, Known
  <2>3. /\ SendCommits(b)
        /\ Goto(u, Idle)
        /\ sent' \in {sent, Committed(b, "raw")}
        /\ UNCHANGED <<flags, session, peer, greater, peerHas, entry>>
    BY <1>6, <2>1 DEF RawSend, Unknown, chat, world
  <2>4. Calm
    BY <2>2, <2>3, CommitCalm
  <2>5. Moved(u)
    BY <1>0, <1>1, <2>3, GotoMoved DEF ResolvePc
  <2> QED
    BY <1>0, <2>3, <2>4, <2>5, MovedConflicted
<1>7. CASE Return(u)
  BY <1>0, <1>1, <1>7, OnlyConflict DEF Return, ResolvePc
<1> QED
  BY <1>2, <1>3, <1>4, <1>5, <1>6, <1>7

\* A step of resolve_session_conflict that stays in it: it has passed its check,
\* and the session is ours once it gives up on it.
LEMMA ResolvingConflicted ==
    ASSUME ConflictInv, Good, Calm, NEW u \in Thread, u # Sync, Others(u),
           Refuses, UNCHANGED session,
           th'[u].pc \in {"only", "list", "not_delivered", "abandon"} =>
               session = "ours",
           session # "legacy",
           flags'.conflict => flags.conflict
    PROVE  Conflicted'
<1>1. \A v \in Thread : GivingUp(v)' => session' = "ours"
  BY DEF Others, GivingUp, ConflictInv, Conflicted
<1>2. At(Sync, "set_flag")' => At(Sync, "set_flag")
  BY SyncThread DEF Others, At
<1>3. Refuses'
  BY DEF Calm, Refuses
<1> QED
  BY <1>1, <1>2, <1>3 DEF Conflicted

\* resolve_session_conflict: its checks.
LEMMA ResolveChecksConflict ==
    ASSUME ConflictInv, Good, NEW u \in User,
           \/ ResolveBegin(u) \/ ResolveCheck(u) \/ ResolveConfirmed(u)
           \/ ResolveSettled(u) \/ ResolveAcceptOnly(u) \/ ResolveList(u)
           \/ ResolveFlags(u)
    PROVE  Conflicted' /\ Calm
<1>0. u \in Thread /\ u # Sync
  BY ChatAssumption DEF User, Thread
<1>1. PICK c : c = th[u]
  OBVIOUS
<1>2. DOMAIN c = Fields /\ DOMAIN th = Thread
  BY <1>0, <1>1, CallOf DEF ConflictInv, Known, Call, Inv, Calls
<1>3. Idle.pc = "idle"
  BY DEF Idle
<1>4. UNCHANGED <<session, peer, greater, sent, peerHas, entry>>
  BY DEF ResolveBegin, ResolveCheck, ResolveConfirmed, ResolveSettled,
     ResolveAcceptOnly, ResolveList, ResolveFlags, Only, Return, chat, durable, world
<1>5. Calm
  BY <1>4, StillCalm
<1>6. CASE ResolveBegin(u)
  <2>1. Refuses
    BY <1>6 DEF ResolveBegin, MayResolve, ConflictInv, Conflicted, Refuses
  <2>2. PICK r : r = [Idle EXCEPT !.pc = "check"]
    OBVIOUS
  <2>3. r.pc = "check" /\ Goto(u, r) /\ UNCHANGED flags
    BY <1>6, <2>2 DEF ResolveBegin, Only, Idle, chat
  <2>4. Others(u) /\ th'[u].pc = "check"
    BY <1>0, <1>2, <2>3 DEF Goto, Others
  <2>5. session # "legacy"
    BY <1>6 DEF ResolveBegin, MayResolve, ConflictInv, Conflicted
  <2> QED
    BY <1>0, <1>4, <1>5, <2>1, <2>3, <2>4, <2>5, ResolvingConflicted
<1>7. CASE ~ResolveBegin(u)
  <2>1. c.pc \in ResolvePc
    BY <1>1, <1>7 DEF ResolveCheck, ResolveConfirmed, ResolveSettled,
       ResolveAcceptOnly, ResolveList, ResolveFlags, At, ResolvePc
  <2>2. Refuses /\ session # "legacy"
    BY <1>0, <1>1, <2>1 DEF ConflictInv, Conflicted, Resolving
  <2>3. CASE ResolveCheck(u)
    <3>1. PICK r : r = [c EXCEPT !.pc = IF HasSession THEN "confirmed" ELSE "flags"]
      OBVIOUS
    <3>2. r.pc \in {"confirmed", "flags"} /\ Goto(u, r) /\ UNCHANGED flags
      BY <1>1, <1>2, <2>3, <3>1 DEF ResolveCheck, Only, chat, Fields
    <3>3. Others(u) /\ th'[u].pc \in {"confirmed", "flags"}
      BY <1>0, <1>2, <3>2 DEF Goto, Others
    <3> QED
      BY <1>0, <1>4, <1>5, <2>2, <3>2, <3>3, ResolvingConflicted
  <2>4. CASE ResolveConfirmed(u) /\ HasSession
    <3>1. PICK r : r = [c EXCEPT !.pc = IF Confirmed THEN "settled" ELSE "only"]
      OBVIOUS
    <3>2. /\ r.pc \in {"settled", "only"} /\ Goto(u, r) /\ UNCHANGED flags
          /\ r.pc = "only" => session = "ours"
      BY <1>1, <1>2, <2>2, <2>4, <3>1 DEF ResolveConfirmed, Only, chat, Fields,
         HasSession, Confirmed, ConflictInv, Inv, WorldTypes, Session
    <3>3. Others(u) /\ th'[u].pc = r.pc
      BY <1>0, <1>2, <3>2 DEF Goto, Others
    <3> QED
      BY <1>0, <1>4, <1>5, <2>2, <3>2, <3>3, ResolvingConflicted
  <2>5. CASE ResolveSettled(u) \/ ResolveFlags(u)
    <3>1. Goto(u, Idle) /\ (flags'.conflict => flags.conflict)
      BY <2>5 DEF ResolveSettled, ResolveFlags, UpdateMeta, ConflictInv, Inv, WorldTypes
    <3>2. Moved(u)
      BY <1>0, <1>3, <3>1, GotoMoved DEF ResolvePc
    <3> QED
      BY <1>0, <1>4, <1>5, <3>1, <3>2, MovedConflicted
  <2>6. CASE ResolveAcceptOnly(u)
    <3>1. PICK r : r = [c EXCEPT !.pc = "list"]
      OBVIOUS
    <3>2. r.pc = "list" /\ Goto(u, r) /\ flags'.conflict = flags.conflict
      BY <1>1, <1>2, <2>6, <3>1 DEF ResolveAcceptOnly, To, UpdateMeta, Fields,
         ConflictInv, Inv, WorldTypes
    <3>3. Others(u) /\ th'[u].pc = "list"
      BY <1>0, <1>2, <3>2 DEF Goto, Others
    <3>4. session = "ours"
      BY <1>0, <2>6 DEF ResolveAcceptOnly, At, ConflictInv, Conflicted, GivingUp
    <3> QED
      BY <1>0, <1>4, <1>5, <2>2, <3>2, <3>3, <3>4, ResolvingConflicted
  <2>7. CASE ResolveList(u)
    <3>1. PICK r : r = [c EXCEPT !.pc = "not_delivered",
                                 !.entries = {x \in Snapshot : x.e.state # "Queued"}]
      OBVIOUS
    <3>2. r.pc = "not_delivered" /\ Goto(u, r) /\ UNCHANGED flags
      BY <1>1, <1>2, <2>7, <3>1 DEF ResolveList, Only, chat, Fields
    <3>3. Others(u) /\ th'[u].pc = "not_delivered"
      BY <1>0, <1>2, <3>2 DEF Goto, Others
    <3>4. session = "ours"
      BY <1>0, <2>7 DEF ResolveList, At, ConflictInv, Conflicted, GivingUp
    <3> QED
      BY <1>0, <1>4, <1>5, <2>2, <3>2, <3>3, <3>4, ResolvingConflicted
  <2>8. CASE ResolveConfirmed(u) /\ ~HasSession
    BY <1>0, <1>3, <2>8, OnlyConflict DEF ResolveConfirmed, Return, ResolvePc
  <2> QED
    BY <1>7, <2>3, <2>4, <2>5, <2>6, <2>7, <2>8
<1> QED
  BY <1>5, <1>6, <1>7

\* Texts of our session are given up while the peer refuses it.
LEMMA ResolveEndsConflict ==
    ASSUME ConflictInv, Good, OneResolver, NEW u \in User,
           ResolveMark(u) \/ ResolveAbandon(u) \/ ResolveRemove(u)
    PROVE  Conflicted' /\ Calm
<1>0. u \in Thread /\ u # Sync
  BY ChatAssumption DEF User, Thread
<1>1. PICK c : c = th[u]
  OBVIOUS
<1>2. DOMAIN c = Fields /\ DOMAIN th = Thread /\ Known(c)
  BY <1>0, <1>1, CallOf DEF ConflictInv, Known, Call, Inv, Calls
<1>3. Idle.pc = "idle"
  BY DEF Idle
<1>4. c.pc \in {"not_delivered", "abandon"}
  BY <1>1 DEF ResolveMark, ResolveAbandon, ResolveRemove, At
<1>5. session = "ours" /\ Refuses
  BY <1>0, <1>1, <1>4 DEF ConflictInv, Conflicted, GivingUp, Resolving, ResolvePc
<1>6. \A a \in CommittedTexts : Doomed(a)
  <2> SUFFICES ASSUME NEW a \in CommittedTexts PROVE sent[a].on = "ours"
    BY <1>5 DEF Doomed
  <2>1. sent[a].on \in {"ours", "theirs"}
    BY DEF CommittedTexts, ConflictInv, Inv, RecordTypes, Sent
  <2> QED
    BY <1>5, <2>1 DEF ConflictInv, Abandoned
<1>7. CASE Return(u)
  BY <1>0, <1>3, <1>7, OnlyConflict DEF Return, ResolvePc
<1>8. CASE ResolveMark(u) /\ c.entries # {}
  <2>1. PICK x : x = First(c.entries)
    OBVIOUS
  <2>2. x \in c.entries /\ Listed(x) /\ x.e.state # "Queued"
    BY <1>1, <1>2, <1>8, <2>1, FirstIn DEF Known, Call, ResolveMark, At
  <2>3. PICK r : r = [c EXCEPT !.entries = c.entries \ {x}]
    OBVIOUS
  <2>4. /\ entry' = [entry EXCEPT ![x.seq] = Advanced(@, "NotDelivered", None)]
        /\ Goto(u, r)
        /\ UNCHANGED <<flags, session, peer, greater, peerHas, sent>>
    BY <1>1, <1>8, <2>1, <2>3 DEF ResolveMark, Current, durable, world
  <2>5. Doomed(x.e.id)
    BY <1>6, <2>2 DEF Listed, CommittedTexts
  <2>6. Calm
    BY <2>2, <2>4, <2>5, MovesCalm DEF State, Id
  <2>7. Others(u)
    BY <1>0, <1>2, <2>4 DEF Goto, Others
  <2> QED
    BY <1>0, <1>5, <2>4, <2>6, <2>7, ResolvingConflicted
<1>9. CASE ResolveMark(u) /\ c.entries = {} /\ ~Return(u)
  <2>1. PICK r : r = [c EXCEPT !.pc = "abandon", !.todo = PendingOutgoing]
    OBVIOUS
  <2>2. Goto(u, r) /\ UNCHANGED <<flags, session, peer, greater, peerHas, sent, entry>>
    BY <1>1, <1>9, <2>1 DEF ResolveMark, Only, chat, durable, world
  <2>3. Calm
    BY <2>2, StillCalm
  <2>4. Others(u)
    BY <1>0, <1>2, <2>2 DEF Goto, Others
  <2> QED
    BY <1>0, <1>5, <2>2, <2>3, <2>4, ResolvingConflicted
<1>10. CASE ResolveAbandon(u) /\ HasSession
  <2>1. PICK a \in c.todo :
          /\ sent' = IF a \in PendingOutgoing
                     THEN [sent EXCEPT ![a].state = "abandoned"] ELSE sent
          /\ Goto(u, [c EXCEPT !.todo = @ \ {a}])
          /\ UNCHANGED <<chat, session, inbox, seen, memory, world>>
    BY <1>1, <1>10 DEF ResolveAbandon
  <2>2. UNCHANGED <<flags, session, peer, greater, peerHas, entry>>
    BY <2>1 DEF chat, world
  <2>3. PICK r : r = [c EXCEPT !.todo = c.todo \ {a}]
    OBVIOUS
  <2>4. Others(u)
    BY <1>0, <1>2, <2>1, <2>3 DEF Goto, Others
  <2>5. CommittedTexts' \subseteq CommittedTexts
    BY <2>1 DEF CommittedTexts, PendingOutgoing
  <2>6. Calm
    BY <1>6, <2>2, <2>5 DEF Calm
  <2> QED
    BY <1>0, <1>5, <2>2, <2>4, <2>6, ResolvingConflicted
<1>11. CASE ResolveAbandon(u) /\ ~HasSession
  BY <1>7, <1>11 DEF ResolveAbandon
<1>12. CASE ResolveRemove(u) /\ Removable
  <2>1. PICK r : r = [c EXCEPT !.pc = "flags"]
    OBVIOUS
  <2>2. /\ Goto(u, r) /\ r.pc = "flags" /\ session' = "none"
        /\ UNCHANGED <<flags, peer, greater, peerHas, sent, entry>>
    BY <1>1, <1>2, <1>12, <2>1 DEF ResolveRemove, To, Fields, chat, world
  <2>3. Others(u) /\ th'[u].pc = "flags"
    BY <1>0, <1>2, <2>2 DEF Goto, Others
  <2>4. Calm
    BY <1>5, <2>2 DEF Calm, CommittedTexts
  <2>5. \A v \in Thread : ~GivingUp(v)'
    <3> SUFFICES ASSUME NEW v \in Thread, GivingUp(v)' PROVE FALSE
      OBVIOUS
    <3>1. v # u
      BY <2>3 DEF GivingUp
    <3>2. th'[v] = th[v]
      BY <2>3, <3>1 DEF Others
    <3>3. GivingUp(v)
      BY <3>2 DEF GivingUp
    <3>4. v \in Resolver /\ u \in Resolver
      BY <1>0, <1>1, <1>4, <3>3, CallOf DEF GivingUp, Placed, ResolvePc, ConflictInv
    <3> QED
      BY <3>1, <3>4 DEF OneResolver
  <2>6. At(Sync, "set_flag")' => At(Sync, "set_flag")
    BY <1>0, <2>3, SyncThread DEF Others, At
  <2>7. Refuses'
    BY <1>5, <2>2 DEF Refuses
  <2> QED
    BY <2>2, <2>4, <2>5, <2>6, <2>7 DEF Conflicted
<1>13. CASE ResolveRemove(u) /\ ~Removable
  BY <1>7, <1>13 DEF ResolveRemove
<1> QED
  BY <1>7, <1>8, <1>9, <1>10, <1>11, <1>12, <1>13

\* A step that leaves texts, session and peer alone.
LEMMA StillConflict ==
    ASSUME ConflictInv, Good, NEW t \in Thread, NEW r, Goto(t, r),
           r.pc \notin ResolvePc \cup {"set_flag"},
           UNCHANGED <<session, peer, greater, sent, peerHas, entry>>,
           flags'.conflict => flags.conflict
    PROVE  Conflicted' /\ Calm
  BY StillCalm, GotoMoved, MovedConflicted

\* The places the round goes on at.
LEMMA RoundPlaces ==
    /\ AfterSync.pc = "refresh"
    /\ \A s : NextPart(s).pc = "refresh"
    /\ Idle.pc = "idle"
  BY DEF AfterSync, NextPart, Idle

\* The steps of the round that leave texts, session and peer alone.
LEMMA SyncStill ==
    ASSUME ConflictInv, Good,
           \/ RoundBegin \/ SyncBegin \/ Settle \/ SendPending
           \/ Fetch \/ EndReceive \/ Republish \/ SyncEnd \/ Decide \/ DecideFlags
    PROVE  Conflicted' /\ Calm
<1>1. PICK c : c = th[Sync]
  OBVIOUS
<1>2. DOMAIN c = Fields
  BY <1>1, SyncThread, CallOf DEF ConflictInv, Known, Call
<1>3. /\ UNCHANGED <<session, peer, greater, sent, peerHas, entry>>
      /\ flags'.conflict => flags.conflict
  <2> USE DEF chat, durable, world
  <2>1. CASE RoundBegin \/ SyncBegin \/ Fetch \/ SyncEnd \/ Decide
    BY <2>1 DEF RoundBegin, SyncBegin, Fetch, SyncEnd, Decide, Only
  <2>2. CASE Settle \/ Republish
    <3>1. Only(Sync, AfterSync) \/ Publish("send") \/ Publish("resend")
      BY <2>2 DEF Settle, Republish
    <3> QED
      BY <3>1 DEF Only, Publish
  <2>3. CASE SendPending
    BY <2>3 DEF SendPending
  <2>4. CASE EndReceive
    <3>1. UNCHANGED <<chat, durable, memory, world>>
      BY <2>4 DEF EndReceive
    <3> QED
      BY <3>1
  <2>5. CASE DecideFlags
    <3>1. /\ UNCHANGED <<entry, durable, world>>
          /\ flags' = NoFlags \/ flags' = flags
      BY <2>5 DEF DecideFlags, Return, Only, UpdateMeta
    <3> QED
      BY <3>1 DEF NoFlags
  <2> QED
    BY <2>1, <2>2, <2>3, <2>4, <2>5
<1>4. ASSUME NEW r, Goto(Sync, r), r.pc \notin ResolvePc \cup {"set_flag"}
      PROVE  Conflicted' /\ Calm
  BY <1>3, <1>4, SyncThread, StillConflict
<1>5. CASE Goto(Sync, AfterSync)
  <2>1. PICK r : r = AfterSync
    OBVIOUS
  <2> QED
    BY <1>4, <1>5, <2>1, RoundPlaces DEF ResolvePc
<1>6. CASE Goto(Sync, NextPart(FALSE)) \/ Goto(Sync, Idle)
  BY <1>4, <1>6, RoundPlaces DEF ResolvePc
<1>7. ASSUME NEW pc, NEW todo, pc \notin ResolvePc \cup {"set_flag"},
             \/ Goto(Sync, [c EXCEPT !.pc = pc])
             \/ Goto(Sync, [c EXCEPT !.pc = pc, !.todo = todo])
      PROVE  Conflicted' /\ Calm
  <2>1. PICK r : /\ Goto(Sync, r)
                 /\ \/ r = [c EXCEPT !.pc = pc]
                    \/ r = [c EXCEPT !.pc = pc, !.todo = todo]
    BY <1>7
  <2>2. r.pc = pc
    BY <1>2, <2>1 DEF Fields
  <2> QED
    BY <1>4, <1>7, <2>1, <2>2
<1>8. ASSUME NEW pc \in {"send", "resend"}, Publish(pc)
      PROVE  Conflicted' /\ Calm
  <2>1. Goto(Sync, [c EXCEPT !.pc = pc, !.todo = PendingOutgoing])
    BY <1>1, <1>8 DEF Publish
  <2> QED
    BY <1>7, <2>1 DEF ResolvePc
<1>9. CASE RoundBegin
  <2>1. PICK r : r = [Idle EXCEPT !.pc = "refresh", !.part = 1]
    OBVIOUS
  <2>2. Goto(Sync, r) /\ r.pc = "refresh"
    BY <1>9, <2>1 DEF RoundBegin, Only, Idle
  <2> QED
    BY <1>4, <2>2 DEF ResolvePc
<1>10. CASE SyncBegin
  <2>1. \E pc \in {"settle", "send"} : Goto(Sync, [c EXCEPT !.pc = pc])
    BY <1>1, <1>10 DEF SyncBegin, Only
  <2> QED
    BY <1>7, <2>1 DEF ResolvePc
<1>11. CASE Settle
  BY <1>5, <1>8, <1>11 DEF Settle, Only
<1>12. CASE SendPending
  <2>1. PICK todo : Goto(Sync, [c EXCEPT !.todo = todo])
    BY <1>1, <1>12 DEF SendPending
  <2>2. PICK r : r = [c EXCEPT !.todo = todo]
    OBVIOUS
  <2>3. r.pc \in {"send", "resend"}
    BY <1>1, <1>2, <1>12, <2>2 DEF SendPending, Fields
  <2> QED
    BY <1>4, <2>1, <2>2, <2>3 DEF ResolvePc
<1>13. CASE Fetch
  <2>1. \E todo : Goto(Sync, [c EXCEPT !.pc = "receive", !.todo = todo])
    BY <1>1, <1>13 DEF Fetch, Only
  <2> QED
    BY <1>7, <2>1 DEF ResolvePc
<1>14. CASE EndReceive
  <2>1. Goto(Sync, [c EXCEPT !.pc = "republish"]) \/ Goto(Sync, AfterSync)
    BY <1>1, <1>14 DEF EndReceive, To
  <2> QED
    BY <1>5, <1>7, <2>1 DEF ResolvePc
<1>15. CASE Republish
  BY <1>5, <1>8, <1>15 DEF Republish, Only
<1>16. CASE SyncEnd
  BY <1>5, <1>16 DEF SyncEnd, Only
<1>17. CASE Decide
  <2>1. \/ Goto(Sync, NextPart(FALSE))
        \/ \E pc \in {"clear", "start"} : Goto(Sync, [c EXCEPT !.pc = pc])
    BY <1>1, <1>17 DEF Decide, Only
  <2> QED
    BY <1>6, <1>7, <2>1 DEF ResolvePc
<1>18. CASE DecideFlags
  BY <1>6, <1>18 DEF DecideFlags, Return, Only
<1> QED
  BY <1>9, <1>10, <1>11, <1>12, <1>13, <1>14, <1>15, <1>16, <1>17, <1>18

\* A conflict is found while our session is unconfirmed and the peer has its own.
LEMMA ConflictFound ==
    ASSUME ConflictInv, Good, ProcessHandshake \/ SetConflict
    PROVE  Conflicted' /\ Calm
<1>1. PICK c : c = th[Sync]
  OBVIOUS
<1>2. DOMAIN c = Fields /\ DOMAIN th = Thread
  BY <1>1, SyncThread, CallOf DEF ConflictInv, Known, Call, Inv, Calls
<1>3. UNCHANGED <<session, peer, greater, sent, peerHas, entry>>
  BY DEF ProcessHandshake, SetConflict, Only, chat, durable, world
<1>4. Calm
  BY <1>3, StillCalm
<1>5. PICK pc \in {"set_flag", "fetch"} : Goto(Sync, [c EXCEPT !.pc = pc])
  BY <1>1 DEF ProcessHandshake, SetConflict, Only
<1>6. PICK r : r = [c EXCEPT !.pc = pc]
  OBVIOUS
<1>7. Others(Sync) /\ th'[Sync].pc = pc
  BY <1>2, <1>5, <1>6, SyncThread DEF Fields, Goto, Others
<1>8. \A u \in Thread : /\ Resolving(u)' => Resolving(u)
                        /\ GivingUp(u)' => GivingUp(u)
  BY <1>7 DEF Others, Resolving, GivingUp, ResolvePc
<1>9. CASE ProcessHandshake
  <2>1. pc = "set_flag" => peer = "own" /\ session = "ours"
    <3>1. PICK q : q = IF peer = "own" /\ session = "ours" THEN "set_flag" ELSE "fetch"
      OBVIOUS
    <3>2. PICK s : s = [c EXCEPT !.pc = q]
      OBVIOUS
    <3>3. Goto(Sync, s) /\ s.pc = q
      BY <1>1, <1>2, <1>9, <3>1, <3>2 DEF ProcessHandshake, Only, Fields
    <3>4. th'[Sync].pc = q
      BY <1>2, <3>3, SyncThread DEF Goto
    <3> QED
      BY <1>7, <3>1, <3>4
  <2>2. UNCHANGED flags
    BY <1>9 DEF ProcessHandshake, Only, chat
  <2>3. At(Sync, "set_flag")' => peer = "own" /\ session = "ours"
    BY <1>7, <2>1 DEF At
  <2>4. Refuses' = Refuses
    BY <1>3 DEF Refuses
  <2>5. greater' /\ (flags'.conflict \/ At(Sync, "set_flag")') => Refuses'
    BY <1>3, <2>2, <2>3 DEF ConflictInv, Conflicted, Refuses
  <2> QED
    BY <1>3, <1>4, <1>8, <2>2, <2>3, <2>4, <2>5 DEF ConflictInv, Conflicted
<1>10. CASE SetConflict
  <2>1. At(Sync, "set_flag")
    BY <1>10 DEF SetConflict
  <2>2. (greater => Refuses) /\ session # "legacy"
    BY <2>1 DEF ConflictInv, Conflicted
  <2>3. Refuses' = Refuses
    BY <1>3 DEF Refuses
  <2> QED
    BY <1>3, <1>4, <1>8, <2>2, <2>3 DEF ConflictInv, Conflicted
<1> QED
  BY <1>9, <1>10

\* A message authenticates under a session that is not being given up.
LEMMA AcceptsConflict ==
    ASSUME ConflictInv, Good, ProcessMessage
    PROVE  Conflicted' /\ Calm
<1>1. PICK c : c = th[Sync]
  OBVIOUS
<1>2. DOMAIN c = Fields /\ c.pc = "receive"
  BY <1>1, SyncThread, CallOf DEF ConflictInv, Known, Call, ProcessMessage, At
<1>3. PICK x \in c.todo :
        /\ Goto(Sync, [c EXCEPT !.todo = @ \ {x}])
        /\ UNCHANGED chat
        /\ Accepts(x) \/ UNCHANGED durable
        /\ UNCHANGED <<left, peer, peerHas, greater>>
  BY <1>1 DEF ProcessMessage, Unknown, world
<1>4. PICK r : r = [c EXCEPT !.todo = c.todo \ {x}]
  OBVIOUS
<1>5. Goto(Sync, r) /\ r.pc = "receive"
  BY <1>2, <1>3, <1>4 DEF Fields
<1>6. CASE UNCHANGED durable
  <2>1. UNCHANGED <<session, peer, greater, sent, peerHas, entry, flags>>
    BY <1>3, <1>6 DEF durable, chat
  <2> QED
    BY <1>5, <2>1, SyncThread, StillConflict DEF ResolvePc
<1>7. CASE Accepts(x) /\ Shared
  <2>1. /\ session' = IF peer = "own" THEN "theirs" ELSE "shared"
        /\ sent' = IF x \in PendingOutgoing
                   THEN [sent EXCEPT ![x].state = "acknowledged"] ELSE sent
        /\ UNCHANGED <<entry, flags>>
    BY <1>3, <1>7 DEF Accepts, chat
  <2>2. \A u \in Thread : ~GivingUp(u)
    <3> SUFFICES ASSUME NEW u \in Thread, GivingUp(u) PROVE FALSE
      OBVIOUS
    <3>1. session = "ours" /\ peer = "own"
      BY DEF ConflictInv, Conflicted, GivingUp, Resolving, Refuses, ResolvePc
    <3> QED
      BY <1>7, <3>1 DEF Shared
  <2>3. session' # session => session' # "legacy" /\ session # "theirs"
    BY <1>7, <2>1 DEF Shared
  <2>4. \A a \in CommittedTexts' :
           /\ a \in CommittedTexts
           /\ sent'[a].state = "abandoned" => sent[a].state = "abandoned"
    <3>1. CASE x \notin PendingOutgoing
      BY <2>1, <3>1 DEF CommittedTexts
    <3>2. CASE x \in PendingOutgoing
      <4>1. /\ x \in App /\ sent[x] # None /\ sent[x] \in Sent /\ DOMAIN sent = App
        BY <3>2 DEF PendingOutgoing, ConflictInv, Inv, RecordTypes
      <4>2. PICK s : s = [sent[x] EXCEPT !.state = "acknowledged"]
        OBVIOUS
      <4>3. s.state = "acknowledged"
        BY <4>1, <4>2 DEF Sent
      <4>4. sent'[x] = s /\ \A b \in App : b # x => sent'[b] = sent[b]
        BY <2>1, <3>2, <4>1, <4>2
      <4> QED
        BY <4>1, <4>3, <4>4 DEF CommittedTexts
    <3> QED
      BY <3>1, <3>2
  <2>5. Calm
    BY <1>3, <2>1, <2>3, <2>4 DEF Calm
  <2>6. Moved(Sync)
    BY <1>5, SyncThread, GotoMoved DEF ResolvePc
  <2> QED
    BY <2>1, <2>2, <2>5, <2>6, SyncThread, MovedConflicted
<1> QED
  BY <1>3, <1>6, <1>7 DEF Accepts

\* start_session: there was no session, and none of ours is given up.
LEMMA StartConflict ==
    ASSUME ConflictInv, Good, StartSession \/ SendOpen
    PROVE  Conflicted' /\ Calm
<1>1. PICK r : Goto(Sync, r) /\ r.pc \in {"refresh", "open"}
  <2>1. PICK c : c = th[Sync]
    OBVIOUS
  <2>2. DOMAIN c = Fields
    BY <2>1, SyncThread, CallOf DEF ConflictInv, Known, Call
  <2>3. PICK r : r = [c EXCEPT !.pc = "open"]
    OBVIOUS
  <2>4. r.pc = "open"
    BY <2>2, <2>3 DEF Fields
  <2>5. (\E s \in BOOLEAN : Goto(Sync, NextPart(s))) \/ Goto(Sync, r)
    BY <2>1, <2>3 DEF StartSession, SendOpen, To
  <2> QED
    BY <2>4, <2>5, RoundPlaces
<1>2. /\ UNCHANGED <<entry, flags, sent, peer, peerHas, greater>>
      /\ session' = session \/ (session = "none" /\ session' = "ours")
  BY DEF StartSession, SendOpen, Unknown, chat, durable, world, HasSession
<1>3. Calm
  BY <1>2 DEF Calm, CommittedTexts
<1>4. Moved(Sync)
  BY <1>1, SyncThread, GotoMoved DEF ResolvePc
<1>5. session' # session => \A u \in Thread : ~GivingUp(u)
  BY <1>2 DEF ConflictInv, Conflicted
<1> QED
  BY <1>2, <1>3, <1>4, <1>5, SyncThread, MovedConflicted

\* A peer that refuses our session keeps refusing it.
LEMMA PeerConflict ==
    ASSUME ConflictInv, Good, PeerStarts \/ PeerTakes \/ PeerRefuses \/ PeerAccepts
    PROVE  Conflicted' /\ Calm
<1>1. UNCHANGED <<entry, flags, session, sent, th, greater>>
  BY DEF PeerStarts, PeerTakes, PeerRefuses, PeerAccepts, chat, durable
<1>2. /\ Refuses => peer' = peer
      /\ peer = "ours" => peer' = "ours"
  BY DEF PeerStarts, PeerTakes, PeerRefuses, PeerAccepts, PeerAsked, Refuses
<1>3. \A a \in peerHas' \ peerHas : sent[a].on = "ours" => peer' = "ours"
  <2>1. CASE PeerStarts \/ PeerTakes \/ PeerRefuses
    BY <2>1 DEF PeerStarts, PeerTakes, PeerRefuses
  <2>2. CASE PeerAccepts
    BY <2>2 DEF PeerAccepts
  <2> QED
    BY <2>1, <2>2
<1>4. Calm
  BY <1>1, <1>2, <1>3 DEF Calm, CommittedTexts
<1>5. Refuses => Refuses'
  BY <1>1, <1>2 DEF Refuses
<1> QED
  BY <1>1, <1>4, <1>5 DEF ConflictInv, Conflicted, Resolving, GivingUp, At

\* Faults end calls.
LEMMA FaultsConflict ==
    ASSUME ConflictInv, Good,
           Crash \/ NetworkFails \/ \E t \in Thread : StorageFails(t)
    PROVE  Conflicted' /\ Calm
<1>1. UNCHANGED <<entry, flags, session, sent, peer, peerHas, greater>>
  BY DEF Crash, NetworkFails, StorageFails, chat, durable
<1>2. CASE Crash
  <2>1. \A t \in Thread : th'[t] = Idle
    BY <1>2 DEF Crash
  <2>2. \A t \in Thread : ~Resolving(t)' /\ ~GivingUp(t)' /\ ~At(t, "set_flag")'
    BY <2>1, RoundPlaces DEF Resolving, GivingUp, At, ResolvePc
  <2>3. Refuses' = Refuses
    BY <1>1 DEF Refuses
  <2> QED
    BY <1>1, <2>2, <2>3, StillCalm, SyncThread DEF ConflictInv, Conflicted
<1>3. CASE ~Crash
  <2>1. \/ Goto(Sync, AfterSync) \/ Goto(Sync, NextPart(FALSE))
        \/ \E t \in Thread : Goto(t, Idle)
    BY <1>3 DEF NetworkFails, StorageFails
  <2>2. PICK r : r = AfterSync
    OBVIOUS
  <2>3. \E t \in Thread : Moved(t)
    BY <2>1, <2>2, RoundPlaces, SyncThread, GotoMoved DEF ResolvePc
  <2> QED
    BY <1>1, <2>3, StillCalm, MovedConflicted
<1> QED
  BY <1>2, <1>3

\* Every step.
LEMMA NextConflict ==
    ASSUME OneResolver, ConflictInv, Next
    PROVE  ConflictInv'
<1>1. Good
  BY NextGood DEF ConflictInv
<1>2. Conflicted' /\ Calm
  <2>1. CASE Round
    BY <1>1, <2>1, SyncStill, ConflictFound, AcceptsConflict, StartConflict,
       RefreshConflict, SyncThread DEF Round
  <2>2. ASSUME NEW u \in User, Work(u)
        PROVE  Conflicted' /\ Calm
    <3>1. u \in Thread
      BY DEF Thread
    <3> QED
      BY <1>1, <2>2, <3>1, CallsConflict, RefreshConflict, ResolveChecksConflict,
         ResolveEndsConflict DEF Work, Resolve
  <2> QED
    BY <1>1, <2>1, <2>2, CallsConflict, PeerConflict, FaultsConflict DEF Next
<1>3. Abandoned'
  BY <1>1, <1>2, CalmAbandoned
<1> QED
  BY <1>1, <1>2, <1>3, GoodKeeps DEF ConflictInv

\* What is shown as not delivered the peer has not accepted and will not accept,
\* if one thread resolves conflicts: the answer that confirmed is given does not
\* go stale, since the peer keeps the session it started.
THEOREM NotDeliveredTruthHolds ==
    OneResolver => (Spec => []NotDeliveredTruth)
<1> SUFFICES ASSUME OneResolver PROVE Spec => []NotDeliveredTruth
  OBVIOUS
<1>1. Init => ConflictInv
  <2> SUFFICES ASSUME Init PROVE Conflicted /\ Abandoned
    BY InitInv DEF ConflictInv
  <2>1. \A t \in Thread : th[t] = Idle
    BY DEF Init
  <2>2. \A t \in Thread : ~Resolving(t) /\ ~GivingUp(t) /\ ~At(t, "set_flag")
    BY <2>1, RoundPlaces DEF Resolving, GivingUp, At, ResolvePc
  <2>3. DOMAIN entry = {} /\ CommittedTexts = {} /\ peerHas = {} /\ ~flags.conflict
    BY DEF Init, CommittedTexts, NoFlags
  <2> QED
    BY <2>2, <2>3, SyncThread DEF Conflicted, Abandoned
<1>2. ASSUME ConflictInv, UNCHANGED vars PROVE ConflictInv'
  <2>1. Inv'
    BY <1>2, StutterInv DEF ConflictInv
  <2>2. Conflicted' /\ Abandoned'
    BY <1>2 DEF vars, chat, durable, memory, world, ConflictInv, Conflicted,
       Abandoned, Doomed, Refuses, CommittedTexts, Resolving, GivingUp, At
  <2> QED
    BY <2>1, <2>2 DEF ConflictInv
<1>3. ConflictInv => NotDeliveredTruth
  BY DEF ConflictInv, Abandoned, Doomed, Refuses, NotDeliveredTruth
<1>4. ConflictInv /\ [Next]_vars => ConflictInv'
  BY <1>2, NextConflict
<1> QED
  BY <1>1, <1>3, <1>4, PTL DEF Spec

=============================================================================
