--------------------------- MODULE NetworkProofs ---------------------------
(***************************************************************************)
(* The safety of Network, for every number of texts, faults and minutes    *)
(* and every interleaving of the four threads.                             *)
(*                                                                         *)
(* The argument rests on one asymmetry: only the device with the greater   *)
(* key ever removes a session, and only when the other device holds one it *)
(* started itself, which then stays for good.  So a message of a session   *)
(* that was removed can never be accepted, and a session that received     *)
(* something is held by both.                                              *)
(***************************************************************************)
EXTENDS Network, TLAPS

-----------------------------------------------------------------------------
(* The two devices.                                                        *)

\* Each device has one peer, and is its peer.
LEMMA PeerIs ==
    ASSUME NEW d \in Device
    PROVE  /\ Peer(d) \in Device /\ Peer(d) # d /\ Peer(Peer(d)) = d
           /\ \A e \in Device : e = d \/ e = Peer(d)
<1>1. PICK e \in Device : Device = {d, e} /\ d # e
  BY NetworkAssumption
<1>2. Peer(d) \in Device /\ Peer(d) # d
  BY <1>1 DEF Peer
<1>3. Peer(d) = e
  BY <1>1, <1>2
<1>4. Peer(e) \in Device /\ Peer(e) # e
  BY <1>1 DEF Peer
<1>5. Peer(e) = d
  BY <1>1, <1>4
<1> QED
  BY <1>1, <1>3, <1>5

-----------------------------------------------------------------------------
(* The invariant.                                                          *)

Fields == {"pc", "todo", "cur", "call", "del", "had", "last", "pk"}

\* Every record is there for each device.
Shape ==
    /\ DOMAIN session = Device /\ DOMAIN hsin = Device /\ DOMAIN sent = Device
    /\ DOMAIN acked = Device /\ DOMAIN abandoned = Device
    /\ DOMAIN inbox = Device /\ DOMAIN seen = Device /\ DOMAIN conflict = Device
    /\ DOMAIN mail = Device /\ DOMAIN posted = Device
    /\ DOMAIN round = Device /\ DOMAIN ui = Device
    /\ \A d \in Device : DOMAIN round[d] = Fields /\ DOMAIN ui[d] = {"pc", "list"}

\* The session of d is one that d started.
Own(d) == session[d] # None /\ session[d].by = d

\* A session that d did not start has received: it was made by its first
\* message.  A provisional handshake comes from the peer.
SessionInv ==
    \A d \in Device :
        /\ session[d] # None /\ session[d].by # d => Accepted(d) # {}
        /\ hsin[d] # None => hsin[d].by = Peer(d)

\* What d accepted, the peer committed, on the session d holds now.
AcceptedInv ==
    \A d \in Device : \A x \in Accepted(d) :
        session[d] # None /\ x.sid = session[d] /\ x \in sent[Peer(d)]

\* A receipt names something accepted.  A message of a session that is no
\* longer held was committed by the greater device on a session it started,
\* and the other device holds one of its own.
SentInv ==
    \A d \in Device : \A m \in sent[d] :
        /\ m.cid.kind = "receipt" => m.cid.of \in Accepted(d)
        /\ m.sid # None
        /\ m.sid.by # d => session[d] = m.sid
        /\ m.sid.by = d /\ session[d] # m.sid => d = Greater /\ Own(Peer(d))

\* The relay holds what was committed, and handshakes of sessions the sender
\* started.  The greater device's peer still holds the session of its.
RelayInv ==
    \A d \in Device :
        /\ mail[d] \subseteq posted[d]
        /\ \A e \in posted[d] :
              /\ e.kind \in {"handshake", "message"}
              /\ e.kind = "message" => e.msg \in sent[Peer(d)]
              /\ e.kind = "handshake" =>
                    /\ e.sid # None /\ e.sid.by = Peer(d)
                    /\ d = Greater => session[Peer(d)] = e.sid

StoreInv == SessionInv /\ AcceptedInv /\ SentInv /\ RelayInv

\* What the round r of device d works on.
RoundFacts(d, r) ==
    /\ DOMAIN r = Fields
    /\ r.pc = "inbox" => r.todo \subseteq Accepted(d)
    /\ r.pc = "sending" => r.todo \subseteq sent[d]
    /\ r.pc \in {"handshakes", "flag", "messages"} => r.todo \subseteq posted[d]
    /\ r.pc = "messages" => \A e \in r.todo : e.kind = "message"
    /\ r.call # 0 => r.pc \in {"inbox", "messages"} /\ r.cur \in Accepted(d)
    /\ r.pc = "publish" => r.cur = None
    /\ r.pc = "sending" /\ r.cur # None => r.cur.cid.kind = "receipt"

RoundInv == \A d \in Device : RoundFacts(d, round[d])

\* A conflict at d, from the handshake that shows it to what is given up for it.
Contested(d) ==
    \/ conflict[d] \/ round[d].pc = "flag" \/ ui[d].pc # "idle"
    \/ abandoned[d] # {}

\* At the greater device it means that the other one holds a session it started.
ConflictInv ==
    \A d \in Device :
        /\ d = Greater /\ Contested(d) => Own(Peer(d))
        /\ d # Greater => ui[d].pc = "idle" /\ abandoned[d] = {}
        /\ ui[d].pc \in {"mark", "abandon"} => Own(d)
        /\ \A m \in abandoned[d] : m.sid.by = d

NetworkInv ==
    Shape /\ StoreInv /\ RoundInv /\ ConflictInv /\ ReceiptTruth

-----------------------------------------------------------------------------
(* What a step does to the stores and the relay.                           *)

Others == <<session, hsin, sent, inbox, seen, mail, posted>>

Quiet == UNCHANGED Others

\* Envelopes leave a mailbox, or come back into it.
Moved(d, box) ==
    /\ box \subseteq posted[d]
    /\ mail' = [mail EXCEPT ![d] = box]
    /\ UNCHANGED <<session, hsin, sent, inbox, seen, posted>>

\* A provisional handshake is recorded.
Noted(d, s) ==
    /\ s.by = Peer(d)
    /\ hsin' = [hsin EXCEPT ![d] = s]
    /\ UNCHANGED <<session, sent, inbox, seen, mail, posted>>

\* A message is committed to the outbox.
Committed(d, m) ==
    /\ session[d] # None /\ m.sid = session[d]
    /\ m.cid.kind = "receipt" => m.cid.of \in Accepted(d)
    /\ sent' = [sent EXCEPT ![d] = @ \cup {m}]
    /\ UNCHANGED <<session, hsin, inbox, seen, mail, posted>>

\* An accepted message is consumed.
Consumed(d, m) ==
    /\ m \in Accepted(d)
    /\ inbox' = [inbox EXCEPT ![d] = @ \ {m}]
    /\ seen' = [seen EXCEPT ![d] = @ \cup {m}]
    /\ UNCHANGED <<session, hsin, sent, mail, posted>>

\* A message is accepted, on the session or as its first.
Took(d, m) ==
    /\ m \in sent[Peer(d)]
    /\ inbox' = [inbox EXCEPT ![d] = @ \cup {m}]
    /\ \/ session[d] # None /\ m.sid = session[d] /\ UNCHANGED <<session, hsin>>
       \/ /\ session[d] = None /\ hsin[d] # None /\ m.sid = hsin[d]
          /\ session' = [session EXCEPT ![d] = hsin[d]]
          /\ hsin' = [hsin EXCEPT ![d] = None]
    /\ UNCHANGED <<sent, seen, mail, posted>>

\* An envelope reaches the peer's mailbox.
Posted(d, e) ==
    /\ \/ e = Handshake(session[d]) /\ Own(d)
       \/ \E m \in sent[d] : e = Message(m)
    /\ mail' = [mail EXCEPT ![Peer(d)] = @ \cup {e}]
    /\ posted' = [posted EXCEPT ![Peer(d)] = @ \cup {e}]
    /\ UNCHANGED <<session, hsin, sent, inbox, seen>>

\* A session is started.
Started(d, s) ==
    /\ session[d] = None /\ s.by = d
    /\ session' = [session EXCEPT ![d] = s]
    /\ UNCHANGED <<hsin, sent, inbox, seen, mail, posted>>

\* The greater device gives up an unanswered session of its own.
Removed(d) ==
    /\ d = Greater /\ Own(d) /\ Own(Peer(d)) /\ ~Confirmed(d)
    /\ session' = [session EXCEPT ![d] = None]
    /\ UNCHANGED <<hsin, sent, inbox, seen, mail, posted>>

Effect(d) ==
    \/ Quiet
    \/ \E x : \/ Moved(d, x) \/ Noted(d, x) \/ Committed(d, x) \/ Consumed(d, x)
              \/ Took(d, x) \/ Posted(d, x) \/ Started(d, x)
    \/ Removed(d)

-----------------------------------------------------------------------------
(* The store invariant, effect by effect.                                  *)

\* What was sent, accepted and posted stays so.
Grows ==
    \A d \in Device :
        /\ sent[d] \subseteq sent'[d]
        /\ Accepted(d) \subseteq Accepted(d)'
        /\ posted[d] \subseteq posted'[d]

\* No effect takes a committed, accepted or posted message back.
LEMMA EffectGrows ==
    ASSUME Shape, NEW d \in Device, Effect(d)
    PROVE  Grows
<1> USE PeerIs DEF Shape, Grows, Accepted
<1>1. CASE Quiet
  BY <1>1 DEF Quiet, Others
<1>2. ASSUME NEW x, Moved(d, x) \/ Noted(d, x) \/ Started(d, x) PROVE Grows
  BY <1>2 DEF Moved, Noted, Started
<1>3. ASSUME NEW x, Committed(d, x) PROVE Grows
  BY <1>3 DEF Committed
<1>4. ASSUME NEW x, Consumed(d, x) PROVE Grows
  BY <1>4 DEF Consumed
<1>5. ASSUME NEW x, Took(d, x) PROVE Grows
  BY <1>5 DEF Took
<1>6. ASSUME NEW x, Posted(d, x) PROVE Grows
  BY <1>6 DEF Posted
<1>7. CASE Removed(d)
  BY <1>7 DEF Removed
<1> QED
  BY <1>1, <1>2, <1>3, <1>4, <1>5, <1>6, <1>7 DEF Effect

\* A session the device other than the greater one started is never lost.
LEMMA OwnStays ==
    ASSUME Shape, NEW d \in Device, Effect(d), NEW p \in Device, Own(p),
           p # Greater \/ ~Removed(d)
    PROVE  session'[p] = session[p] /\ Own(p)'
<1>1. session'[p] = session[p]
  <2>1. ASSUME NEW x, Took(d, x) \/ Started(d, x) PROVE session'[p] = session[p]
    BY <2>1 DEF Took, Started, Own, Shape
  <2>2. CASE \/ Quiet
             \/ \E x : \/ Moved(d, x) \/ Noted(d, x) \/ Committed(d, x)
                       \/ Consumed(d, x) \/ Posted(d, x)
    BY <2>2 DEF Quiet, Others, Moved, Noted, Committed, Consumed, Posted
  <2>3. CASE Removed(d)
    BY <2>3 DEF Removed, Shape
  <2> QED
    BY <2>1, <2>2, <2>3 DEF Effect
<1> QED
  BY <1>1 DEF Own

\* Nothing changes, or only where envelopes and handshakes are.
LEMMA QuietStore ==
    ASSUME Shape, StoreInv, NEW d \in Device,
           Quiet \/ \E x : Moved(d, x) \/ Noted(d, x)
    PROVE  StoreInv'
<1> USE DEF StoreInv, SessionInv, AcceptedInv, SentInv, RelayInv, Accepted, Own,
            Shape
<1>1. CASE Quiet
  BY <1>1 DEF Quiet, Others
<1>2. ASSUME NEW x, Moved(d, x) PROVE StoreInv'
  BY <1>2 DEF Moved
<1>3. ASSUME NEW x, Noted(d, x) PROVE StoreInv'
  BY <1>3 DEF Noted
<1> QED
  BY <1>1, <1>2, <1>3

\* A committed message belongs to the session held.
LEMMA CommitStore ==
    ASSUME Shape, StoreInv, NEW d \in Device, NEW m, Committed(d, m)
    PROVE  StoreInv'
<1> USE DEF Accepted, Shape
<1>1. /\ session[d] # None /\ m.sid = session[d]
      /\ m.cid.kind = "receipt" => m.cid.of \in Accepted(d)
      /\ sent'[d] = sent[d] \cup {m}
      /\ \A e \in Device : e # d => sent'[e] = sent[e]
      /\ UNCHANGED <<session, hsin, inbox, seen, mail, posted>>
  BY DEF Committed
<1>2. \A e \in Device : sent[e] \subseteq sent'[e] /\ Peer(e) \in Device
  BY <1>1, PeerIs
<1>3. SessionInv' /\ AcceptedInv'
  BY <1>1, <1>2 DEF StoreInv, SessionInv, AcceptedInv
<1>4. SentInv'
  BY <1>1 DEF StoreInv, SentInv, Own
<1>5. RelayInv'
  BY <1>1, <1>2 DEF StoreInv, RelayInv
<1> QED
  BY <1>3, <1>4, <1>5 DEF StoreInv

\* Consuming a message leaves it accepted.
LEMMA ConsumeStore ==
    ASSUME Shape, StoreInv, NEW d \in Device, NEW m, Consumed(d, m)
    PROVE  StoreInv'
<1>1. \A e \in Device : Accepted(e)' = Accepted(e)
  BY DEF Consumed, Accepted, Shape
<1>2. UNCHANGED <<session, hsin, sent, mail, posted>>
  BY DEF Consumed
<1> HIDE DEF Accepted
<1> QED
  BY <1>1, <1>2 DEF StoreInv, SessionInv, AcceptedInv, SentInv, RelayInv, Own

\* An accepted message is one the peer committed, on the session that is held
\* afterwards.
LEMMA TakeStore ==
    ASSUME Shape, StoreInv, NEW d \in Device, NEW m, Took(d, m)
    PROVE  StoreInv'
<1> USE DEF Shape
<1>1. /\ m \in sent[Peer(d)] /\ Accepted(d)' = Accepted(d) \cup {m}
      /\ \A e \in Device : e # d => Accepted(e)' = Accepted(e)
      /\ UNCHANGED <<sent, mail, posted>>
  BY DEF Took, Accepted
<1>2. Peer(d) \in Device /\ Peer(d) # d
  BY PeerIs
<1>3. CASE session[d] # None /\ m.sid = session[d] /\ UNCHANGED <<session, hsin>>
  BY <1>1, <1>3 DEF StoreInv, SessionInv, AcceptedInv, SentInv, RelayInv, Own
<1>4. CASE /\ session[d] = None /\ hsin[d] # None /\ m.sid = hsin[d]
           /\ session' = [session EXCEPT ![d] = hsin[d]]
           /\ hsin' = [hsin EXCEPT ![d] = None]
  <2>1. /\ session'[d] = hsin[d] /\ \A e \in Device : e # d => session'[e] = session[e]
        /\ hsin'[d] = None /\ \A e \in Device : e # d => hsin'[e] = hsin[e]
    BY <1>4
  <2>2. Accepted(d) = {}
    BY <1>4 DEF StoreInv, AcceptedInv
  <2>3. SessionInv'
    BY <1>1, <2>1 DEF StoreInv, SessionInv
  <2>4. AcceptedInv'
    BY <1>1, <1>4, <2>1, <2>2 DEF StoreInv, AcceptedInv
  <2>5. \A e \in Device : Own(e) => Own(e)'
    BY <1>4, <2>1 DEF Own
  <2>6. \A e \in Device : Peer(e) \in Device
    BY PeerIs
  <2>7. \A x \in sent[d] : x.sid.by = d /\ d = Greater /\ Own(Peer(d))
    BY <1>4 DEF StoreInv, SentInv
  <2>8. SentInv'
    <3> SUFFICES ASSUME NEW e \in Device, NEW x \in sent'[e]
                 PROVE  /\ x.cid.kind = "receipt" => x.cid.of \in Accepted(e)'
                        /\ x.sid # None
                        /\ x.sid.by # e => session'[e] = x.sid
                        /\ x.sid.by = e /\ session'[e] # x.sid =>
                              e = Greater /\ Own(Peer(e))'
      BY DEF SentInv
    <3>1. x \in sent[e]
      BY <1>1
    <3>2. /\ x.cid.kind = "receipt" => x.cid.of \in Accepted(e)'
          /\ x.sid # None
      BY <1>1, <3>1 DEF StoreInv, SentInv
    <3>3. CASE e = d
      BY <2>5, <2>6, <2>7, <3>1, <3>2, <3>3
    <3>4. CASE e # d
      BY <2>1, <2>5, <2>6, <3>1, <3>2, <3>4 DEF StoreInv, SentInv
    <3> QED
      BY <3>3, <3>4
  <2>9. RelayInv'
    <3>1. d # Greater => \A e \in posted[Greater] : e.kind # "handshake"
      <4>1. d # Greater => Peer(Greater) = d
        BY PeerIs, NetworkAssumption
      <4> QED
        BY <1>4, <4>1, NetworkAssumption DEF StoreInv, RelayInv
    <3>2. d = Greater => \A e \in Device : e = Greater => Peer(e) # d
      BY PeerIs
    <3> QED
      BY <1>1, <2>1, <2>6, <3>1, <3>2 DEF StoreInv, RelayInv
  <2> QED
    BY <2>3, <2>4, <2>8, <2>9 DEF StoreInv
<1> QED
  BY <1>3, <1>4 DEF Took

\* What reaches the relay was committed, or is the handshake of a session that
\* its sender started.
LEMMA PostStore ==
    ASSUME Shape, StoreInv, NEW d \in Device, NEW e, Posted(d, e)
    PROVE  StoreInv'
<1> USE DEF Shape
<1>1. Peer(d) \in Device /\ Peer(d) # d /\ Peer(Peer(d)) = d
  BY PeerIs
<1>2. /\ mail'[Peer(d)] = mail[Peer(d)] \cup {e}
      /\ posted'[Peer(d)] = posted[Peer(d)] \cup {e}
      /\ \A f \in Device : f # Peer(d) => mail'[f] = mail[f] /\ posted'[f] = posted[f]
      /\ UNCHANGED <<session, hsin, sent, inbox, seen>>
  BY <1>1 DEF Posted
<1>3. SessionInv' /\ AcceptedInv' /\ SentInv'
  BY <1>2 DEF StoreInv, SessionInv, AcceptedInv, SentInv, Own, Accepted
<1>4. /\ e.kind \in {"handshake", "message"}
      /\ e.kind = "message" => e.msg \in sent[d]
      /\ e.kind = "handshake" => e.sid = session[d] /\ Own(d)
  <2>1. CASE e = Handshake(session[d]) /\ Own(d)
    BY <2>1 DEF Handshake
  <2>2. ASSUME NEW m \in sent[d], e = Message(m)
        PROVE  e.kind = "message" /\ e.msg = m
    BY <2>2 DEF Message
  <2> QED
    BY <2>1, <2>2 DEF Posted
<1>5. RelayInv'
  BY <1>1, <1>2, <1>4 DEF StoreInv, RelayInv, Own
<1> QED
  BY <1>3, <1>5 DEF StoreInv

\* A session is started where there is none and nothing was accepted.
LEMMA StartStore ==
    ASSUME Shape, StoreInv, NEW d \in Device, NEW s, Started(d, s)
    PROVE  StoreInv'
<1> USE DEF Shape
<1>1. /\ session[d] = None /\ s.by = d /\ session'[d] = s
      /\ \A e \in Device : e # d => session'[e] = session[e]
      /\ UNCHANGED <<hsin, sent, inbox, seen, mail, posted>>
  BY DEF Started
<1>2. \A e \in Device : Accepted(e)' = Accepted(e)
  BY <1>1 DEF Accepted
<1>3. Accepted(d) = {}
  BY <1>1 DEF StoreInv, AcceptedInv
<1>4. SessionInv' /\ AcceptedInv'
  BY <1>1, <1>2, <1>3 DEF StoreInv, SessionInv, AcceptedInv
<1>5. \A e \in Device : (Own(e) => Own(e)') /\ Peer(e) \in Device
  BY <1>1, PeerIs DEF Own
<1>6. \A x \in sent[d] : x.sid.by = d /\ d = Greater /\ Own(Peer(d))
  BY <1>1 DEF StoreInv, SentInv
<1>7. SentInv'
  <2> SUFFICES ASSUME NEW e \in Device, NEW x \in sent'[e]
               PROVE  /\ x.cid.kind = "receipt" => x.cid.of \in Accepted(e)'
                      /\ x.sid # None
                      /\ x.sid.by # e => session'[e] = x.sid
                      /\ x.sid.by = e /\ session'[e] # x.sid =>
                            e = Greater /\ Own(Peer(e))'
    BY DEF SentInv
  <2>1. x \in sent[e]
    BY <1>1
  <2>2. /\ x.cid.kind = "receipt" => x.cid.of \in Accepted(e)'
        /\ x.sid # None
    BY <1>2, <2>1 DEF StoreInv, SentInv
  <2>3. CASE e = d
    BY <1>5, <1>6, <2>1, <2>2, <2>3
  <2>4. CASE e # d
    BY <1>1, <1>5, <2>1, <2>2, <2>4 DEF StoreInv, SentInv
  <2> QED
    BY <2>3, <2>4
<1>8. RelayInv'
  <2>1. d # Greater => \A e \in posted[Greater] : e.kind # "handshake"
    <3>1. d # Greater => Peer(Greater) = d
      BY PeerIs, NetworkAssumption
    <3> QED
      BY <1>1, <3>1, NetworkAssumption DEF StoreInv, RelayInv
  <2>2. d = Greater => \A e \in Device : e = Greater => Peer(e) # d
    BY PeerIs
  <2> QED
    BY <1>1, <1>5, <2>1, <2>2 DEF StoreInv, RelayInv
<1> QED
  BY <1>4, <1>7, <1>8 DEF StoreInv

\* What was committed on a removed session is the greater device's, and the
\* other one has a session of its own.
LEMMA RemoveStore ==
    ASSUME Shape, StoreInv, NEW d \in Device, Removed(d)
    PROVE  StoreInv'
<1> USE DEF Shape
<1>1. /\ d = Greater /\ Own(d) /\ Own(Peer(d)) /\ ~Confirmed(d)
      /\ session'[d] = None /\ \A e \in Device : e # d => session'[e] = session[e]
      /\ UNCHANGED <<hsin, sent, inbox, seen, mail, posted>>
  BY DEF Removed
<1>2. \A e \in Device : Accepted(e)' = Accepted(e)
  BY <1>1 DEF Accepted
<1>3. Accepted(d) = {}
  BY <1>1 DEF StoreInv, AcceptedInv, Confirmed
<1>4. SessionInv' /\ AcceptedInv'
  BY <1>1, <1>2, <1>3 DEF StoreInv, SessionInv, AcceptedInv
<1>5. Own(Peer(d))' /\ Peer(d) # d /\ Peer(d) \in Device
  BY <1>1, PeerIs DEF Own
<1>6. \A x \in sent[d] : x.sid.by = d
  BY <1>1 DEF StoreInv, SentInv, Own
<1>7. SentInv'
  <2> SUFFICES ASSUME NEW e \in Device, NEW x \in sent'[e]
               PROVE  /\ x.cid.kind = "receipt" => x.cid.of \in Accepted(e)'
                      /\ x.sid # None
                      /\ x.sid.by # e => session'[e] = x.sid
                      /\ x.sid.by = e /\ session'[e] # x.sid =>
                            e = Greater /\ Own(Peer(e))'
    BY DEF SentInv
  <2>1. x \in sent[e]
    BY <1>1
  <2>2. /\ x.cid.kind = "receipt" => x.cid.of \in Accepted(e)'
        /\ x.sid # None
    BY <1>2, <2>1 DEF StoreInv, SentInv
  <2>3. CASE e = d
    BY <1>1, <1>5, <1>6, <2>1, <2>2, <2>3
  <2>4. CASE e # d
    BY <1>1, <2>1, <2>2, <2>4 DEF StoreInv, SentInv
  <2> QED
    BY <2>3, <2>4
<1>8. RelayInv'
  <2>1. \A e \in Device : (e = Greater => Peer(e) # d) /\ Peer(e) \in Device
    BY <1>1, PeerIs
  <2> QED
    BY <1>1, <2>1 DEF StoreInv, RelayInv
<1> QED
  BY <1>4, <1>7, <1>8 DEF StoreInv

\* Every effect keeps StoreInv.
LEMMA EffectStore ==
    ASSUME Shape, StoreInv, NEW d \in Device, Effect(d)
    PROVE  StoreInv'
  BY QuietStore, CommitStore, ConsumeStore, TakeStore, PostStore, StartStore,
     RemoveStore DEF Effect

-----------------------------------------------------------------------------
(* What a step does to the rest, and that this keeps the invariant.        *)

\* Only receipts, and what the peer has accepted, are acknowledged.
Acks(d) ==
    /\ DOMAIN acked' = Device
    /\ \A e \in Device : e # d => acked'[e] = acked[e]
    /\ \A m \in acked'[d] :
          m \in acked[d] \/ m.cid.kind = "receipt" \/ m \in Accepted(Peer(d))

Rounds(d) ==
    /\ DOMAIN round' = Device
    /\ \A e \in Device : e # d => round'[e] = round[e]
    /\ RoundFacts(d, round[d])'

Conflicts(d) ==
    /\ DOMAIN conflict' = Device /\ DOMAIN abandoned' = Device
    /\ DOMAIN ui' = Device /\ DOMAIN ui'[d] = {"pc", "list"}
    /\ \A e \in Device : e # d =>
          conflict'[e] = conflict[e] /\ ui'[e] = ui[e] /\ abandoned'[e] = abandoned[e]
    /\ d = Greater /\ Contested(d)' => Own(Peer(d))
    /\ d # Greater => ui'[d].pc = "idle" /\ abandoned'[d] = {}
    /\ ui'[d].pc \in {"mark", "abandon"} => Own(d)'
    /\ \A m \in abandoned'[d] : m.sid.by = d

Step(d) == Effect(d) /\ Acks(d) /\ Rounds(d) /\ Conflicts(d)

\* Effects keep the domains.
LEMMA EffectShape ==
    ASSUME Shape, NEW d \in Device, Effect(d)
    PROVE  /\ DOMAIN session' = Device /\ DOMAIN hsin' = Device
           /\ DOMAIN sent' = Device /\ DOMAIN inbox' = Device
           /\ DOMAIN seen' = Device /\ DOMAIN mail' = Device
           /\ DOMAIN posted' = Device
<1> USE DEF Shape
<1>1. CASE Quiet
  BY <1>1 DEF Quiet, Others
<1>2. CASE \E x : Moved(d, x) \/ Noted(d, x) \/ Committed(d, x) \/ Consumed(d, x)
  BY <1>2 DEF Moved, Noted, Committed, Consumed
<1>3. CASE \E x : Took(d, x) \/ Posted(d, x) \/ Started(d, x)
  BY <1>3 DEF Took, Posted, Started
<1>4. CASE Removed(d)
  BY <1>4 DEF Removed
<1> QED
  BY <1>1, <1>2, <1>3, <1>4 DEF Effect

\* A round's facts outlast what the stores and the relay gain.
LEMMA RoundKept ==
    ASSUME Grows, NEW d \in Device, NEW r, RoundFacts(d, r)
    PROVE  RoundFacts(d, r)'
  BY DEF Grows, RoundFacts

\* A step with these effects keeps NetworkInv.
LEMMA StepKeeps ==
    ASSUME NetworkInv, NEW d \in Device, Step(d)
    PROVE  NetworkInv'
<1> USE DEF Step
<1>1. Shape /\ StoreInv /\ RoundInv /\ ConflictInv /\ ReceiptTruth
  BY DEF NetworkInv
<1>2. Grows
  BY <1>1, EffectGrows
<1>3. Shape'
  <2>1. \A e \in Device : DOMAIN round'[e] = Fields /\ DOMAIN ui'[e] = {"pc", "list"}
    BY <1>1 DEF Rounds, RoundFacts, Conflicts, Shape
  <2> QED
    BY <1>1, <2>1, EffectShape DEF Acks, Rounds, Conflicts, Shape
<1>4. StoreInv'
  BY <1>1, EffectStore
<1>5. RoundInv'
  <2> SUFFICES ASSUME NEW e \in Device PROVE RoundFacts(e, round[e])'
    BY DEF RoundInv
  <2>1. CASE e = d
    BY <2>1 DEF Rounds
  <2>2. CASE e # d
    <3>1. PICK r : r = round[e]
      OBVIOUS
    <3>2. RoundFacts(e, r)
      BY <1>1, <3>1 DEF RoundInv
    <3>3. RoundFacts(e, r)'
      BY <1>2, <3>2, RoundKept
    <3>4. round'[e] = r
      BY <2>2, <3>1 DEF Rounds
    <3> QED
      BY <3>3, <3>4 DEF RoundFacts
  <2> QED
    BY <2>1, <2>2
<1>6. ConflictInv'
  <2>1. Own(Peer(Greater)) => Own(Peer(Greater))'
    BY <1>1, OwnStays, PeerIs, NetworkAssumption
  <2>2. \A e \in Device : e # d /\ Own(e) => Own(e)'
    <3> SUFFICES ASSUME NEW e \in Device, e # d, Own(e) PROVE Own(e)'
      OBVIOUS
    <3>1. e # Greater \/ ~Removed(d)
      BY DEF Removed
    <3> QED
      BY <1>1, <3>1, OwnStays
  <2> SUFFICES ASSUME NEW e \in Device
               PROVE  /\ e = Greater /\ Contested(e)' => Own(Peer(e))'
                      /\ e # Greater => ui'[e].pc = "idle" /\ abandoned'[e] = {}
                      /\ ui'[e].pc \in {"mark", "abandon"} => Own(e)'
                      /\ \A m \in abandoned'[e] : m.sid.by = e
    BY DEF ConflictInv
  <2>3. CASE e = d
    BY <2>1, <2>3 DEF Conflicts
  <2>4. CASE e # d
    <3>1. Contested(e)' => Contested(e)
      BY <2>4 DEF Conflicts, Rounds, Contested
    <3> QED
      BY <1>1, <2>1, <2>2, <2>4, <3>1 DEF Conflicts, ConflictInv
  <2> QED
    BY <2>3, <2>4
<1>7. ReceiptTruth'
  <2>1. \A e \in Device : Peer(e) \in Device
    BY PeerIs
  <2> QED
    BY <1>1, <1>2, <2>1 DEF ReceiptTruth, Acks, Grows
<1> QED
  BY <1>3, <1>4, <1>5, <1>6, <1>7 DEF NetworkInv

-----------------------------------------------------------------------------
(* The sync thread, action by action.                                      *)

Flags == <<conflict, abandoned, ui>>

\* A round that goes on to r with everything r needs.
LEMMA Goes ==
    ASSUME Shape, Grows, NEW d \in Device, NEW r, Goto(d, r), RoundFacts(d, r)
    PROVE  Rounds(d) /\ round'[d] = r
<1>1. round'[d] = r /\ DOMAIN round' = Device
      /\ \A e \in Device : e # d => round'[e] = round[e]
  BY DEF Goto, Shape
<1>2. RoundFacts(d, r)'
  BY RoundKept
<1> QED
  BY <1>1, <1>2 DEF Rounds, RoundFacts

\* The conflict's records stay when no flag is about to be set for nothing.
LEMMA Undisputed ==
    ASSUME NetworkInv, NEW d \in Device, UNCHANGED Flags,
           round'[d].pc = "flag" /\ d = Greater => Contested(d) \/ Own(Peer(d)),
           Own(d) => Own(d)'
    PROVE  Conflicts(d)
  BY DEF NetworkInv, Shape, ConflictInv, Flags, Conflicts, Contested

\* A step of the sync thread that only commits, consumes or moves on.
LEMMA SyncStep ==
    ASSUME NetworkInv, NEW d \in Device, Effect(d), UNCHANGED session,
           UNCHANGED Flags, Acks(d),
           NEW r, Goto(d, r), RoundFacts(d, r),
           r.pc = "flag" /\ d = Greater => Own(Peer(d))
    PROVE  Step(d)
<1>1. Rounds(d) /\ round'[d] = r
  BY Goes, EffectGrows DEF NetworkInv
<1>2. Conflicts(d)
  BY <1>1, Undisputed DEF Own
<1> QED
  BY <1>1, <1>2 DEF Step

\* Nothing is acknowledged.
LEMMA NoAcks ==
    ASSUME NetworkInv, NEW d \in Device, UNCHANGED acked
    PROVE  Acks(d)
  BY DEF NetworkInv, Shape, Acks

\* send_committed commits at most one message, on the session.
LEMMA CommitEffect ==
    ASSUME NEW d \in Device, NEW cid, Commit(d, cid), session[d] # None,
           cid.kind = "receipt" => cid.of \in Accepted(d),
           UNCHANGED <<session, hsin, inbox, seen, mail, posted>>
    PROVE  Effect(d)
<1>1. CASE cid \in Cids(d)
  BY <1>1 DEF Commit, Effect, Quiet, Others
<1>2. CASE cid \notin Cids(d)
  <2>1. PICK m : m = [sid |-> session[d], from |-> d, cid |-> cid]
    OBVIOUS
  <2>2. Committed(d, m)
    BY <1>2, <2>1 DEF Commit, Committed
  <2> QED
    BY <2>2 DEF Effect
<1> QED
  BY <1>1, <1>2

\* BeginRound reads the inbox.
LEMMA BeginStep ==
    ASSUME NetworkInv, NEW d \in Device, BeginRound(d)
    PROVE  Step(d)
<1>1. PICK r : r = [Idle EXCEPT !.pc = "inbox", !.had = session[d] # None,
                      !.todo = IF session[d] # None THEN inbox[d] ELSE {}]
  OBVIOUS
<1>2. Goto(d, r) /\ Quiet /\ UNCHANGED session /\ UNCHANGED Flags /\ UNCHANGED acked
  BY <1>1 DEF BeginRound, Quiet, Others, Flags, durable, relay
<1>3. RoundFacts(d, r) /\ r.pc # "flag"
  BY <1>1 DEF RoundFacts, Idle, Fields, Accepted
<1> QED
  BY <1>2, <1>3, NoAcks, SyncStep DEF Effect

\* settle_inbox takes a message of the inbox it read.
LEMMA SettleNextStep ==
    ASSUME NetworkInv, NEW d \in Device, NEW m, SettleNext(d, m)
    PROVE  Step(d)
<1>1. RoundFacts(d, round[d])
  BY DEF NetworkInv, RoundInv
<1>2. PICK r : r = [round[d] EXCEPT !.cur = m, !.call = 1, !.todo = @ \ {m}]
  OBVIOUS
<1>3. Goto(d, r) /\ Quiet /\ UNCHANGED session /\ UNCHANGED Flags /\ UNCHANGED acked
  BY <1>2 DEF SettleNext, Quiet, Others, Flags, durable, relay
<1>4. RoundFacts(d, r) /\ r.pc # "flag"
  BY <1>1, <1>2 DEF SettleNext, RoundFacts, Fields
<1> QED
  BY <1>3, <1>4, NoAcks, SyncStep DEF Effect

\* The mailbox that is read holds what was posted.
LEMMA PublishedStep ==
    ASSUME NetworkInv, NEW d \in Device, Published(d)
    PROVE  Step(d)
<1>1. mail[d] \subseteq posted[d]
  BY DEF NetworkInv, StoreInv, RelayInv
<1>2. PICK r : r = IF round[d].last THEN EndOfSync
                   ELSE [Idle EXCEPT !.pc = "handshakes", !.todo = mail[d]]
  OBVIOUS
<1>3. Goto(d, r) /\ Quiet /\ UNCHANGED session /\ UNCHANGED Flags /\ UNCHANGED acked
  BY <1>2 DEF Published, Quiet, Others, Flags, durable, relay
<1>4. RoundFacts(d, r) /\ r.pc # "flag"
  BY <1>1, <1>2 DEF RoundFacts, Idle, EndOfSync, Fields
<1> QED
  BY <1>3, <1>4, NoAcks, SyncStep DEF Effect

\* settle commits a receipt for what was accepted; what an accepted receipt
\* names, the peer has accepted.
LEMMA SettleFirstStep ==
    ASSUME NetworkInv, NEW d \in Device, SettleFirst(d)
    PROVE  Step(d)
<1> DEFINE m == round[d].cur
<1>1. RoundFacts(d, round[d]) /\ DOMAIN acked = Device
  BY DEF NetworkInv, RoundInv, Shape
<1>2. m \in Accepted(d) /\ session[d] # None
  BY <1>1 DEF SettleFirst, RoundFacts
<1>3. PICK r : r = IF Payload(m).kind = "text"
                   THEN [round[d] EXCEPT !.cur = None, !.call = 0]
                   ELSE [round[d] EXCEPT !.call = 2]
  OBVIOUS
<1>4. /\ Goto(d, r) /\ UNCHANGED Flags
      /\ UNCHANGED <<session, hsin, inbox, seen, mail, posted>>
  BY <1>3 DEF SettleFirst, Flags, relay
<1>5. RoundFacts(d, r)
  BY <1>1, <1>2, <1>3 DEF SettleFirst, RoundFacts, Fields
<1>6. r.pc # "flag"
  BY <1>1, <1>3 DEF SettleFirst, RoundFacts, Fields
<1>7. CASE m.cid.kind = "receipt"
  <2>1. /\ acked' = [acked EXCEPT ![d] = @ \cup ({m.cid.of} \cap Outbox(d))]
        /\ UNCHANGED sent
    BY <1>7 DEF SettleFirst, Payload
  <2>2. m \in sent[Peer(d)] /\ Peer(d) \in Device
    BY <1>2, PeerIs DEF NetworkInv, StoreInv, AcceptedInv
  <2>3. m.cid.of \in Accepted(Peer(d))
    BY <1>7, <2>2 DEF NetworkInv, StoreInv, SentInv
  <2>4. Acks(d)
    BY <1>1, <2>1, <2>3 DEF Acks
  <2>5. Effect(d)
    BY <1>4, <2>1 DEF Effect, Quiet, Others
  <2> QED
    BY <1>4, <1>5, <1>6, <2>4, <2>5, SyncStep
<1>8. CASE m.cid.kind # "receipt"
  <2>1. Commit(d, ReceiptOf(m, 0)) /\ UNCHANGED acked
    BY <1>8 DEF SettleFirst, Payload
  <2>2. ReceiptOf(m, 0).of = m
    BY DEF ReceiptOf
  <2>3. Effect(d)
    BY <1>2, <1>4, <2>1, <2>2, CommitEffect
  <2> QED
    BY <1>4, <1>5, <1>6, <2>1, <2>3, NoAcks, SyncStep
<1> QED
  BY <1>7, <1>8

\* settle consumes what was accepted.
LEMMA SettleSecondStep ==
    ASSUME NetworkInv, NEW d \in Device, SettleSecond(d)
    PROVE  Step(d)
<1>1. RoundFacts(d, round[d])
  BY DEF NetworkInv, RoundInv
<1>2. PICK m : m = round[d].cur
  OBVIOUS
<1>3. PICK r : r = [round[d] EXCEPT !.cur = None, !.call = 0]
  OBVIOUS
<1>4. Goto(d, r) /\ UNCHANGED session /\ UNCHANGED Flags /\ UNCHANGED acked
  BY <1>3 DEF SettleSecond, Flags
<1>5. Consumed(d, m)
  BY <1>1, <1>2 DEF SettleSecond, RoundFacts, Consumed, relay
<1>6. RoundFacts(d, r) /\ r.pc # "flag"
  BY <1>1, <1>3 DEF SettleSecond, RoundFacts, Fields
<1> QED
  BY <1>4, <1>5, <1>6, NoAcks, SyncStep DEF Effect

\* connect and put_bundle touch the prekeys only.
LEMMA PutBundleStep ==
    ASSUME NetworkInv, NEW d \in Device, PutBundle(d)
    PROVE  Step(d)
<1>1. PICK r : r = [Idle EXCEPT !.pc = "publish", !.had = round[d].had]
  OBVIOUS
<1>2. Goto(d, r) /\ Quiet /\ UNCHANGED session /\ UNCHANGED Flags /\ UNCHANGED acked
  BY <1>1 DEF PutBundle, Quiet, Others, Flags
<1>3. RoundFacts(d, r) /\ r.pc # "flag"
  BY <1>1 DEF RoundFacts, Idle, Fields
<1> QED
  BY <1>2, <1>3, NoAcks, SyncStep DEF Effect

\* publish_pending posts the handshake of a session of its own only.
LEMMA PublishStep ==
    ASSUME NetworkInv, NEW d \in Device, Publish(d)
    PROVE  Step(d)
<1> DEFINE had == IF round[d].last THEN session[d] # None ELSE round[d].had
<1>1. RoundFacts(d, round[d])
  BY DEF NetworkInv, RoundInv
<1>2. PICK r : r = IF had /\ session[d] = None THEN EndOfSync
                   ELSE [round[d] EXCEPT !.pc = "sending",
                           !.todo = IF had THEN Outbox(d) ELSE {}]
  OBVIOUS
<1>3. Goto(d, r) /\ UNCHANGED session /\ UNCHANGED Flags /\ UNCHANGED acked
  BY <1>2 DEF Publish, Flags, durable
<1>4. RoundFacts(d, r) /\ r.pc # "flag"
  BY <1>1, <1>2 DEF Publish, RoundFacts, EndOfSync, Idle, Fields, Outbox
<1>5. Effect(d)
  <2>1. PICK e : e = Handshake(session[d])
    OBVIOUS
  <2>2. CASE UNCHANGED <<mail, posted>>
    BY <2>2 DEF Publish, Effect, Quiet, Others, durable
  <2>3. CASE Own(d) /\ Post(d, e)
    <3>1. Posted(d, e)
      BY <2>1, <2>3 DEF Publish, Posted, Post, durable
    <3> QED
      BY <3>1 DEF Effect
  <2> QED
    BY <2>1, <2>2, <2>3 DEF Publish, Own
<1> QED
  BY <1>3, <1>4, <1>5, NoAcks, SyncStep

\* publish_pending posts what was committed.
LEMMA SendPendingStep ==
    ASSUME NetworkInv, NEW d \in Device, NEW m, SendPending(d, m)
    PROVE  Step(d)
<1>1. RoundFacts(d, round[d])
  BY DEF NetworkInv, RoundInv
<1>2. m \in sent[d]
  BY <1>1 DEF SendPending, RoundFacts
<1>3. PICK r : r = IF Due(d, Message(m))
                   THEN [round[d] EXCEPT !.todo = @ \ {m},
                           !.cur = IF DoneWhenSent(m) THEN m ELSE None]
                   ELSE [round[d] EXCEPT !.todo = @ \ {m}]
  OBVIOUS
<1>4. Goto(d, r) /\ UNCHANGED session /\ UNCHANGED Flags /\ UNCHANGED acked
  BY <1>3 DEF SendPending, Flags, durable
<1>5. RoundFacts(d, r) /\ r.pc # "flag"
  BY <1>1, <1>3 DEF SendPending, RoundFacts, DoneWhenSent, Fields
<1>6. Effect(d)
  <2>1. PICK e : e = Message(m)
    OBVIOUS
  <2>2. CASE UNCHANGED <<mail, posted>>
    BY <2>2 DEF SendPending, Effect, Quiet, Others, durable
  <2>3. CASE Post(d, e)
    <3>1. Posted(d, e)
      BY <1>2, <2>1, <2>3 DEF SendPending, Posted, Post, durable
    <3> QED
      BY <3>1 DEF Effect
  <2> QED
    BY <2>1, <2>2, <2>3 DEF SendPending
<1> QED
  BY <1>4, <1>5, <1>6, NoAcks, SyncStep

\* Of what was posted, only a receipt leaves the outbox.
LEMMA ReceiptSentStep ==
    ASSUME NetworkInv, NEW d \in Device, ReceiptSent(d)
    PROVE  Step(d)
<1>1. RoundFacts(d, round[d]) /\ DOMAIN acked = Device
  BY DEF NetworkInv, RoundInv, Shape
<1>2. PICK r : r = [round[d] EXCEPT !.cur = None]
  OBVIOUS
<1>3. Goto(d, r) /\ Quiet /\ UNCHANGED session /\ UNCHANGED Flags
  BY <1>2 DEF ReceiptSent, Quiet, Others, Flags, relay
<1>4. RoundFacts(d, r) /\ r.pc # "flag"
  BY <1>1, <1>2 DEF ReceiptSent, RoundFacts, Fields
<1>5. Acks(d)
  BY <1>1 DEF ReceiptSent, RoundFacts, Acks
<1> QED
  BY <1>3, <1>4, <1>5, SyncStep DEF Effect

\* The handshake that shows the greater device a conflict is that of the
\* session the other device holds.
LEMMA HandshakeStep ==
    ASSUME NetworkInv, NEW d \in Device, NEW e, ProcessHandshake(d, e)
    PROVE  Step(d)
<1>1. RoundFacts(d, round[d])
  BY DEF NetworkInv, RoundInv
<1>2. e \in posted[d] /\ e.kind = "handshake"
  BY <1>1 DEF ProcessHandshake, RoundFacts
<1>3. e.sid # None /\ e.sid.by = Peer(d) /\ (d = Greater => session[Peer(d)] = e.sid)
  BY <1>2 DEF NetworkInv, StoreInv, RelayInv
<1>4. d = Greater => Own(Peer(d))
  BY <1>3 DEF Own
<1>5. PICK r : r = [round[d] EXCEPT
          !.pc = IF session[d] # None /\ session[d].by = d /\ ~Confirmed(d)
                 THEN "flag" ELSE "handshakes",
          !.todo = @ \ {e}, !.del = @ \cup {e}]
  OBVIOUS
<1>6. Goto(d, r) /\ UNCHANGED session /\ UNCHANGED Flags /\ UNCHANGED acked
  BY <1>5 DEF ProcessHandshake, Flags
<1>7. RoundFacts(d, r)
  BY <1>1, <1>5 DEF ProcessHandshake, RoundFacts, Fields
<1>8. Effect(d)
  <2>1. PICK s : s = e.sid
    OBVIOUS
  <2>2. Quiet \/ Noted(d, s)
    BY <1>3, <2>1 DEF ProcessHandshake, Quiet, Others, Noted, relay
  <2> QED
    BY <2>2 DEF Effect
<1> QED
  BY <1>4, <1>6, <1>7, <1>8, NoAcks, SyncStep

\* The flag is set for the handshake that was seen.
LEMMA SetConflictStep ==
    ASSUME NetworkInv, NEW d \in Device, SetConflict(d)
    PROVE  Step(d)
<1>1. RoundFacts(d, round[d]) /\ Shape
  BY DEF NetworkInv, RoundInv
<1>2. PICK r : r = [round[d] EXCEPT !.pc = "handshakes"]
  OBVIOUS
<1>3. Goto(d, r) /\ Quiet /\ UNCHANGED <<session, acked, ui, abandoned>>
  BY <1>2 DEF SetConflict, Quiet, Others, relay
<1>4. RoundFacts(d, r) /\ r.pc # "flag"
  BY <1>1, <1>2 DEF SetConflict, RoundFacts, Fields
<1>5. Effect(d) /\ Grows
  BY <1>1, <1>3, EffectGrows DEF Effect
<1>6. Rounds(d)
  BY <1>1, <1>3, <1>4, <1>5, Goes
<1>7. d = Greater => Own(Peer(d))
  BY DEF SetConflict, NetworkInv, ConflictInv, Contested
<1>8. Conflicts(d)
  BY <1>1, <1>3, <1>7
  DEF SetConflict, NetworkInv, ConflictInv, Shape, Conflicts, Own
<1> QED
  BY <1>3, <1>5, <1>6, <1>8, NoAcks DEF Step

\* The end of a pass deletes what was handled.
LEMMA EndPassStep ==
    ASSUME NetworkInv, NEW d \in Device, EndHandshakes(d) \/ EndMessages(d)
    PROVE  Step(d)
<1>1. RoundFacts(d, round[d])
  BY DEF NetworkInv, RoundInv
<1>2. /\ mail[d] \subseteq posted[d]
      /\ \A e \in posted[d] : e.kind \in {"handshake", "message"}
  BY DEF NetworkInv, StoreInv, RelayInv
<1>3. PICK r : r = IF round[d].pc = "handshakes"
                   THEN [Idle EXCEPT !.pc = "messages",
                           !.todo = round[d].todo \cap mail[d]]
                   ELSE [Idle EXCEPT !.pc = "publish", !.last = TRUE]
  OBVIOUS
<1>4. Goto(d, r) /\ UNCHANGED session /\ UNCHANGED Flags /\ UNCHANGED acked
  BY <1>3 DEF EndHandshakes, EndMessages, Flags, durable
<1>5. RoundFacts(d, r) /\ r.pc # "flag"
  <2>1. CASE EndHandshakes(d)
    BY <1>1, <1>2, <1>3, <2>1 DEF EndHandshakes, RoundFacts, Idle, Fields
  <2>2. CASE EndMessages(d)
    BY <1>3, <2>2 DEF EndMessages, RoundFacts, Idle, Fields
  <2> QED
    BY <2>1, <2>2
<1>6. Effect(d)
  <2>1. PICK box : box = mail[d] \ round[d].del
    OBVIOUS
  <2>2. Moved(d, box)
    BY <1>2, <2>1 DEF EndHandshakes, EndMessages, Moved, durable
  <2> QED
    BY <2>2 DEF Effect
<1> QED
  BY <1>4, <1>5, <1>6, NoAcks, SyncStep

\* What the relay delivers as a message, the peer committed.
LEMMA Delivered ==
    ASSUME NetworkInv, NEW d \in Device, NEW e \in round[d].todo,
           round[d].pc = "messages"
    PROVE  e.msg \in sent[Peer(d)]
  BY DEF NetworkInv, RoundInv, RoundFacts, StoreInv, RelayInv

\* A message is accepted on the session, or makes the peer's the session.
LEMMA AcceptStep ==
    ASSUME NetworkInv, NEW d \in Device, NEW e, AcceptMessage(d, e)
    PROVE  Step(d)
<1>1. RoundFacts(d, round[d]) /\ Shape
  BY DEF NetworkInv, RoundInv
<1>2. PICK m : m = e.msg
  OBVIOUS
<1>3. m \in sent[Peer(d)]
  BY <1>2, Delivered DEF AcceptMessage
<1>4. PICK r : r = [round[d] EXCEPT !.todo = @ \ {e}, !.del = @ \cup {e},
                                    !.cur = m, !.call = 1]
  OBVIOUS
<1>5. /\ Goto(d, r) /\ UNCHANGED Flags /\ UNCHANGED acked
      /\ UNCHANGED <<sent, seen, mail, posted>>
      /\ inbox' = [inbox EXCEPT ![d] = @ \cup {m}]
  BY <1>2, <1>4 DEF AcceptMessage, Flags, relay
<1>6. Took(d, m)
  BY <1>2, <1>3, <1>5 DEF AcceptMessage, FirstMessage, Fresh, Took
<1>7. Effect(d) /\ Grows
  BY <1>1, <1>6, EffectGrows DEF Effect
<1>8. /\ round'[d] = r /\ DOMAIN round' = Device
      /\ \A f \in Device : f # d => round'[f] = round[f]
  BY <1>1, <1>5 DEF Goto, Shape
<1>9. Accepted(d)' = Accepted(d) \cup {m} /\ posted'[d] = posted[d]
  BY <1>1, <1>5 DEF Accepted, Shape
<1>10. Rounds(d) /\ r.pc # "flag"
  <2>1. /\ DOMAIN r = Fields /\ r.pc = "messages" /\ r.todo \subseteq round[d].todo
        /\ r.cur = m
    BY <1>1, <1>4 DEF AcceptMessage, RoundFacts, Fields
  <2> QED
    BY <1>1, <1>8, <1>9, <2>1 DEF AcceptMessage, RoundFacts, Rounds
<1>11. Own(d) => Own(d)'
  BY <1>1, <1>6 DEF Took, Own, Shape
<1>12. Conflicts(d)
  BY <1>5, <1>8, <1>10, <1>11, Undisputed
<1> QED
  BY <1>5, <1>7, <1>10, <1>12, NoAcks DEF Step

\* A duplicate is answered by a receipt for what was accepted.
LEMMA DuplicateStep ==
    ASSUME NetworkInv, NEW d \in Device, NEW e, DuplicateMessage(d, e)
    PROVE  Step(d)
<1>1. RoundFacts(d, round[d])
  BY DEF NetworkInv, RoundInv
<1>2. PICK m : m = e.msg
  OBVIOUS
<1>3. PICK r : r = [round[d] EXCEPT !.todo = @ \ {e}, !.del = @ \cup {e}]
  OBVIOUS
<1>4. /\ Goto(d, r) /\ UNCHANGED Flags /\ UNCHANGED acked
      /\ UNCHANGED <<session, hsin, inbox, seen, mail, posted>>
      /\ session[d] # None /\ m \in Accepted(d) /\ ReceiptAgain(d, m)
  BY <1>2, <1>3 DEF DuplicateMessage, Flags, relay
<1>5. RoundFacts(d, r) /\ r.pc # "flag"
  BY <1>1, <1>3 DEF DuplicateMessage, RoundFacts, Fields
<1>6. PICK n : Commit(d, ReceiptOf(m, n))
  BY <1>4 DEF ReceiptAgain
<1>7. ReceiptOf(m, n).of = m
  BY DEF ReceiptOf
<1>8. Effect(d)
  BY <1>4, <1>6, <1>7, CommitEffect
<1> QED
  BY <1>4, <1>5, <1>8, NoAcks, SyncStep

\* A message that is not accepted changes nothing.
LEMMA OtherStep ==
    ASSUME NetworkInv, NEW d \in Device, NEW e, OtherMessage(d, e)
    PROVE  Step(d)
<1>1. RoundFacts(d, round[d])
  BY DEF NetworkInv, RoundInv
<1>2. PICK r : r = [round[d] EXCEPT !.todo = @ \ {e},
                      !.del = IF session[d] = None /\ hsin[d] = None
                              THEN @ ELSE @ \cup {e}]
  OBVIOUS
<1>3. Goto(d, r) /\ Quiet /\ UNCHANGED session /\ UNCHANGED Flags /\ UNCHANGED acked
  BY <1>2 DEF OtherMessage, Quiet, Others, Flags, durable, relay
<1>4. RoundFacts(d, r) /\ r.pc # "flag"
  BY <1>1, <1>2 DEF OtherMessage, RoundFacts, Fields
<1> QED
  BY <1>3, <1>4, NoAcks, SyncStep DEF Effect

\* The end of the round can only clear the conflict.
LEMMA AfterStep ==
    ASSUME NetworkInv, NEW d \in Device, AfterSync(d)
    PROVE  Step(d)
<1>1. Shape
  BY DEF NetworkInv
<1>2. PICK r : r = IF /\ session[d] = None /\ ~acceptOnly[d]
                      /\ Waiting(d) /\ bundle[Peer(d)] # 0
                   THEN [Idle EXCEPT !.pc = "start", !.pk = bundle[Peer(d)]]
                   ELSE Idle
  OBVIOUS
<1>3. Goto(d, r) /\ Quiet /\ UNCHANGED <<session, acked, ui, abandoned>>
  BY <1>2 DEF AfterSync, Quiet, Others, relay
<1>4. RoundFacts(d, r) /\ r.pc # "flag"
  BY <1>2 DEF RoundFacts, Idle, Fields
<1>5. Effect(d) /\ Grows
  BY <1>1, <1>3, EffectGrows DEF Effect
<1>6. Rounds(d) /\ round'[d] = r
  BY <1>1, <1>3, <1>4, <1>5, Goes
<1>7. /\ DOMAIN conflict' = Device /\ (conflict'[d] => conflict[d])
      /\ \A e \in Device : e # d => conflict'[e] = conflict[e]
  BY <1>1 DEF AfterSync, Shape
<1>8. Conflicts(d)
  BY <1>1, <1>3, <1>4, <1>6, <1>7
  DEF NetworkInv, ConflictInv, Contested, Shape, Conflicts, Own
<1> QED
  BY <1>3, <1>5, <1>6, <1>8, NoAcks DEF Step

\* start_session starts a session where there is none.
LEMMA StartStep ==
    ASSUME NetworkInv, NEW d \in Device, StartSession(d)
    PROVE  Step(d)
<1>1. Shape
  BY DEF NetworkInv
<1>2. PICK r : r = [Idle EXCEPT !.pc = "open"]
  OBVIOUS
<1>3. PICK s : s = [by |-> d, n |-> starts[d], pk |-> round[d].pk]
  OBVIOUS
<1>4. Goto(d, r) /\ UNCHANGED Flags /\ UNCHANGED acked /\ Started(d, s)
  BY <1>2, <1>3 DEF StartSession, Flags, Started, relay
<1>5. RoundFacts(d, r) /\ r.pc # "flag"
  BY <1>2 DEF RoundFacts, Idle, Fields
<1>6. Effect(d) /\ Grows
  BY <1>1, <1>4, EffectGrows DEF Effect
<1>7. Rounds(d) /\ round'[d] = r
  BY <1>1, <1>4, <1>5, <1>6, Goes
<1>8. Conflicts(d)
  BY <1>4, <1>5, <1>7, Undisputed DEF Started, Own
<1> QED
  BY <1>4, <1>6, <1>7, <1>8, NoAcks DEF Step

\* start_session commits the OPEN on the session there is.
LEMMA OpenStep ==
    ASSUME NetworkInv, NEW d \in Device, SendOpen(d)
    PROVE  Step(d)
<1>1. PICK r : r = Idle
  OBVIOUS
<1>2. /\ Goto(d, r) /\ UNCHANGED Flags /\ UNCHANGED acked
      /\ UNCHANGED <<session, hsin, inbox, seen, mail, posted>>
  BY <1>1 DEF SendOpen, Flags, relay
<1>3. RoundFacts(d, r) /\ r.pc # "flag"
  BY <1>1 DEF RoundFacts, Idle, Fields
<1>4. Effect(d)
  <2>1. CASE session[d] # None
    BY <1>2, <2>1, CommitEffect DEF SendOpen, Open
  <2>2. CASE session[d] = None
    BY <1>2, <2>2 DEF SendOpen, Effect, Quiet, Others
  <2> QED
    BY <2>1, <2>2
<1> QED
  BY <1>2, <1>3, <1>4, NoAcks, SyncStep

\* Every step of the sync thread.
LEMMA SyncSteps ==
    ASSUME NetworkInv, NEW d \in Device, Sync(d)
    PROVE  Step(d)
  BY BeginStep, SettleNextStep, SendPendingStep, SettleFirstStep, SettleSecondStep,
     PutBundleStep, PublishStep, ReceiptSentStep, PublishedStep, HandshakeStep,
     AcceptStep, DuplicateStep, OtherStep, SetConflictStep, EndPassStep, AfterStep,
     StartStep, OpenStep
  DEF Sync

-----------------------------------------------------------------------------
(* The user's thread, time and faults.                                     *)

\* A step that leaves the round where it is.
LEMMA Rests ==
    ASSUME NetworkInv, Grows, NEW d \in Device, UNCHANGED round
    PROVE  Rounds(d)
<1>1. PICK r : r = round[d]
  OBVIOUS
<1>2. RoundFacts(d, r)
  BY <1>1 DEF NetworkInv, RoundInv
<1>3. RoundFacts(d, r)'
  BY <1>2, RoundKept
<1> QED
  BY <1>1, <1>3 DEF Rounds, NetworkInv, Shape, RoundFacts

\* A step of the user's thread, or of the world, that only commits, consumes or
\* moves envelopes.
LEMMA UserStep ==
    ASSUME NetworkInv, NEW d \in Device, Effect(d), UNCHANGED session,
           UNCHANGED Flags, UNCHANGED acked, UNCHANGED round
    PROVE  Step(d)
<1>1. Rounds(d)
  BY Rests, EffectGrows DEF NetworkInv
<1>2. Conflicts(d)
  BY Undisputed DEF Own, Contested
<1> QED
  BY <1>1, <1>2, NoAcks DEF Step

\* A text is committed on the session there is.
LEMMA SendTextStep ==
    ASSUME NetworkInv, NEW d \in Device, NEW t, SendText(d, t)
    PROVE  Step(d)
<1>1. PICK cid : cid = Text(t)
  OBVIOUS
<1>2. cid.kind = "text"
  BY <1>1 DEF Text
<1>3. Effect(d)
  BY <1>1, <1>2, CommitEffect DEF SendText, relay
<1> QED
  BY <1>3, UserStep DEF SendText, Flags

\* mark_read consumes what was accepted.
LEMMA MarkReadStep ==
    ASSUME NetworkInv, NEW d \in Device, NEW m, MarkRead(d, m)
    PROVE  Step(d)
<1>1. Consumed(d, m)
  BY DEF MarkRead, Consumed, Accepted, relay
<1>2. Effect(d)
  BY <1>1 DEF Effect
<1> QED
  BY <1>2, UserStep DEF MarkRead, Flags

\* Elapse, Tick and OtherContact leave the messages alone.
LEMMA TimeStep ==
    ASSUME NetworkInv, NEW d \in Device, Elapse(d) \/ Tick \/ OtherContact(d)
    PROVE  Step(d)
<1>1. Quiet
  BY DEF Elapse, Tick, OtherContact, Quiet, Others, durable, relay
<1> QED
  BY <1>1, UserStep DEF Elapse, Tick, OtherContact, Flags, Effect, durable

\* A lost envelope may come back; no other can.
LEMMA MailStep ==
    ASSUME NetworkInv, NEW d \in Device, NEW e, Lose(d, e) \/ Replay(d, e)
    PROVE  Step(d)
<1>1. mail[d] \subseteq posted[d]
  BY DEF NetworkInv, StoreInv, RelayInv
<1>2. PICK box : /\ box \subseteq posted[d]
                 /\ mail' = [mail EXCEPT ![d] = box]
  BY <1>1 DEF Lose, Replay
<1>3. Moved(d, box)
  BY <1>2 DEF Lose, Replay, Moved, durable
<1>4. Effect(d)
  BY <1>3 DEF Effect
<1> QED
  BY <1>4, UserStep DEF Lose, Replay, Flags, durable

\* A failed round ends with nothing in hand.
LEMMA FailStep ==
    ASSUME NetworkInv, NEW d \in Device, RoundFails(d)
    PROVE  Step(d)
<1>1. PICK r : r = IF round[d].pc \in {"after", "start", "open"} THEN Idle
                   ELSE EndOfSync
  OBVIOUS
<1>2. Goto(d, r) /\ Quiet /\ UNCHANGED session /\ UNCHANGED Flags /\ UNCHANGED acked
  BY <1>1 DEF RoundFails, Quiet, Others, Flags, durable, relay
<1>3. RoundFacts(d, r) /\ r.pc # "flag"
  BY <1>1 DEF RoundFacts, Idle, EndOfSync, Fields
<1> QED
  BY <1>2, <1>3, NoAcks, SyncStep DEF Effect

\* A crash ends the round and the call; the flags stay.
LEMMA CrashStep ==
    ASSUME NetworkInv, NEW d \in Device, Crash(d)
    PROVE  Step(d)
<1>1. Shape
  BY DEF NetworkInv
<1>2. PICK r : r = Idle
  OBVIOUS
<1>3. /\ Goto(d, r) /\ Quiet /\ UNCHANGED <<session, acked, conflict, abandoned>>
      /\ ui' = [ui EXCEPT ![d] = UiIdle]
  BY <1>2 DEF Crash, Quiet, Others, durable, relay
<1>4. RoundFacts(d, r) /\ r.pc # "flag"
  BY <1>2 DEF RoundFacts, Idle, Fields
<1>5. Effect(d) /\ Grows
  BY <1>1, <1>3, EffectGrows DEF Effect
<1>6. Rounds(d) /\ round'[d] = r
  BY <1>1, <1>3, <1>4, <1>5, Goes
<1>7. /\ DOMAIN ui' = Device /\ ui'[d] = UiIdle
      /\ \A e \in Device : e # d => ui'[e] = ui[e]
  BY <1>1, <1>3 DEF Shape
<1>8. Conflicts(d)
  BY <1>1, <1>3, <1>4, <1>6, <1>7
  DEF NetworkInv, ConflictInv, Contested, Shape, Conflicts, UiIdle
<1> QED
  BY <1>3, <1>5, <1>6, <1>8, NoAcks DEF Step

\* A session that is not answered is one the device started.
LEMMA UnansweredIsOwn ==
    ASSUME NetworkInv, NEW d \in Device, session[d] # None, ~Confirmed(d)
    PROVE  Own(d)
  BY DEF NetworkInv, StoreInv, SessionInv, AcceptedInv, Confirmed, Own

\* resolve_session_conflict works on a session of the greater device's own,
\* against one of the other device's own.
LEMMA ResolveStep ==
    ASSUME NetworkInv, NEW d \in Device, ResolveConflict(d)
    PROVE  Step(d)
<1> USE DEF Shape, UiIdle
<1>1. Shape /\ ConflictInv
  BY DEF NetworkInv
<1>2. /\ d = Greater /\ Contested(d) => Own(Peer(d))
      /\ d # Greater => ui[d].pc = "idle" /\ abandoned[d] = {}
      /\ ui[d].pc \in {"mark", "abandon"} => Own(d)
      /\ \A m \in abandoned[d] : m.sid.by = d
  BY <1>1 DEF ConflictInv
<1>3. ASSUME Quiet PROVE Effect(d) /\ Grows
  BY <1>1, <1>3, EffectGrows DEF Effect
<1>4. CASE ResolveBegin(d)
  <2>1. Quiet /\ UNCHANGED <<acked, round, session, abandoned>>
    BY <1>4 DEF ResolveBegin, Quiet, Others, relay
  <2>2. d = Greater /\ Own(Peer(d))
    BY <1>2, <1>4 DEF ResolveBegin, MayResolve, Contested
  <2>3. /\ DOMAIN conflict' = Device /\ DOMAIN ui' = Device
        /\ DOMAIN ui'[d] = {"pc", "list"}
        /\ \A e \in Device : e # d => conflict'[e] = conflict[e] /\ ui'[e] = ui[e]
        /\ ui'[d].pc = "mark" => session[d] # None /\ ~Confirmed(d)
        /\ ui'[d].pc # "abandon"
    BY <1>1, <1>4 DEF ResolveBegin
  <2>4. ui'[d].pc \in {"mark", "abandon"} => Own(d)'
    BY <2>1, <2>3, UnansweredIsOwn DEF Own
  <2>5. Conflicts(d)
    BY <1>1, <1>2, <2>1, <2>2, <2>3, <2>4 DEF Conflicts
  <2> QED
    BY <1>3, <2>1, <2>5, NoAcks, Rests DEF Step
<1>5. CASE ResolveMark(d)
  <2>1. Quiet /\ UNCHANGED <<acked, round, session, abandoned, conflict>>
    BY <1>5 DEF ResolveMark, Quiet, Others, relay
  <2>2. d = Greater /\ Own(Peer(d)) /\ Own(d)'
    BY <1>2, <1>5, <2>1 DEF ResolveMark, Contested, Own
  <2>3. /\ DOMAIN ui' = Device /\ DOMAIN ui'[d] = {"pc", "list"}
        /\ \A e \in Device : e # d => ui'[e] = ui[e]
    BY <1>1, <1>5 DEF ResolveMark
  <2>4. Conflicts(d)
    BY <1>1, <1>2, <2>1, <2>2, <2>3 DEF Conflicts
  <2> QED
    BY <1>3, <2>1, <2>4, NoAcks, Rests DEF Step
<1>6. ASSUME NEW m, ResolveAbandon(d, m) PROVE Step(d)
  <2>1. Quiet /\ UNCHANGED <<acked, round, session, conflict>>
    BY <1>6 DEF ResolveAbandon, Quiet, Others, relay
  <2>2. d = Greater /\ Own(Peer(d)) /\ Own(d) /\ Own(d)'
    BY <1>2, <1>6, <2>1 DEF ResolveAbandon, Contested, Own
  <2>3. /\ DOMAIN ui' = Device /\ DOMAIN ui'[d] = {"pc", "list"}
        /\ \A e \in Device : e # d => ui'[e] = ui[e]
    BY <1>1, <1>6 DEF ResolveAbandon
  <2>4. /\ DOMAIN abandoned' = Device
        /\ \A e \in Device : e # d => abandoned'[e] = abandoned[e]
        /\ abandoned'[d] = abandoned[d] \cup ({m} \cap Outbox(d))
    BY <1>1, <1>6 DEF ResolveAbandon
  <2>5. \A x \in Outbox(d) : x.sid.by = d
    BY <2>2 DEF Outbox, Own, NetworkInv, StoreInv, SentInv
  <2>6. Conflicts(d)
    BY <1>1, <1>2, <2>1, <2>2, <2>3, <2>4, <2>5 DEF Conflicts
  <2> QED
    BY <1>3, <2>1, <2>6, NoAcks, Rests DEF Step
<1>7. CASE ResolveRemove(d)
  <2>1. /\ UNCHANGED <<acked, round, conflict, abandoned>>
        /\ UNCHANGED <<hsin, sent, inbox, seen, mail, posted>>
    BY <1>7 DEF ResolveRemove, relay
  <2>2. d = Greater /\ Own(Peer(d)) /\ Own(d)
    BY <1>2, <1>7 DEF ResolveRemove, Contested
  <2>3. Effect(d)
    <3>1. CASE Removable(d)
      <4>1. Removed(d)
        BY <1>7, <2>1, <2>2, <3>1 DEF ResolveRemove, Removable, Removed
      <4> QED
        BY <4>1 DEF Effect
    <3>2. CASE ~Removable(d)
      BY <1>7, <2>1, <3>2 DEF ResolveRemove, Effect, Quiet, Others
    <3> QED
      BY <3>1, <3>2
  <2>4. /\ DOMAIN ui' = Device /\ DOMAIN ui'[d] = {"pc", "list"}
        /\ \A e \in Device : e # d => ui'[e] = ui[e]
        /\ ui'[d].pc \in {"flags", "idle"}
    BY <1>1, <1>7 DEF ResolveRemove
  <2>5. Conflicts(d)
    BY <1>1, <1>2, <2>1, <2>2, <2>4 DEF Conflicts
  <2> QED
    BY <1>1, <2>1, <2>3, <2>5, NoAcks, Rests, EffectGrows DEF Step
<1>8. CASE ResolveFlags(d)
  <2>1. Quiet /\ UNCHANGED <<acked, round, session, abandoned>>
    BY <1>8 DEF ResolveFlags, Quiet, Others, relay
  <2>2. d = Greater /\ Own(Peer(d))
    BY <1>2, <1>8 DEF ResolveFlags, Contested
  <2>3. /\ DOMAIN conflict' = Device /\ DOMAIN ui' = Device
        /\ DOMAIN ui'[d] = {"pc", "list"} /\ ui'[d].pc = "idle"
        /\ \A e \in Device : e # d => conflict'[e] = conflict[e] /\ ui'[e] = ui[e]
    BY <1>1, <1>8 DEF ResolveFlags
  <2>4. Conflicts(d)
    BY <1>1, <1>2, <2>1, <2>2, <2>3 DEF Conflicts
  <2> QED
    BY <1>3, <2>1, <2>4, NoAcks, Rests DEF Step
<1> QED
  BY <1>4, <1>5, <1>6, <1>7, <1>8 DEF ResolveConflict

-----------------------------------------------------------------------------
(* The theorems.                                                           *)

\* The invariant holds at the start.
LEMMA NetworkInit ==
    ASSUME Init
    PROVE  NetworkInv
<1>1. Shape
  BY DEF Init, Shape, Idle, UiIdle, Fields
<1>2. StoreInv
  BY DEF Init, StoreInv, SessionInv, AcceptedInv, SentInv, RelayInv, Accepted
<1>3. RoundInv
  BY DEF Init, RoundInv, RoundFacts, Idle, Fields
<1>4. ConflictInv /\ ReceiptTruth
  BY DEF Init, ConflictInv, Contested, ReceiptTruth, Idle, UiIdle
<1> QED
  BY <1>1, <1>2, <1>3, <1>4 DEF NetworkInv

\* Every step keeps it.
LEMMA NetworkNext ==
    ASSUME NetworkInv, [Next]_vars
    PROVE  NetworkInv'
<1>1. ASSUME NEW d \in Device, Step(d) PROVE NetworkInv'
  BY <1>1, StepKeeps
<1>2. CASE Tick
  BY <1>1, <1>2, TimeStep, NetworkAssumption
<1>3. ASSUME NEW d \in Device,
             \/ Sync(d) \/ Write(d) \/ ResolveConflict(d) \/ Elapse(d)
             \/ \E m \in inbox[d] : MarkRead(d, m)
             \/ \E e \in mail[d] : Lose(d, e)
             \/ \E e \in posted[d] : Replay(d, e)
             \/ RoundFails(d) \/ Crash(d) \/ OtherContact(d)
      PROVE  Step(d)
  BY <1>3, SyncSteps, SendTextStep, ResolveStep, TimeStep, MarkReadStep, MailStep,
     FailStep, CrashStep
  DEF Write
<1>4. CASE UNCHANGED vars
  <2>1. Quiet /\ UNCHANGED <<session, acked, round>> /\ UNCHANGED Flags
    BY <1>4 DEF vars, durable, relay, Quiet, Others, Flags
  <2>2. Step(Greater)
    BY <2>1, UserStep, NetworkAssumption DEF Effect
  <2> QED
    BY <1>1, <2>2, NetworkAssumption
<1> QED
  BY <1>1, <1>2, <1>3, <1>4 DEF Next

\* NetworkInv is an invariant of two devices and the relay.
THEOREM NetworkInvHolds == Spec => []NetworkInv
<1>1. Init => NetworkInv
  BY NetworkInit
<1>2. NetworkInv /\ [Next]_vars => NetworkInv'
  BY NetworkNext
<1> QED
  BY <1>1, <1>2, PTL DEF Spec

\* Delivered means delivered: what a receipt took out of an outbox, the peer
\* has accepted, under every interleaving, loss, replay and crash.
THEOREM ReceiptTruthHolds == Spec => []ReceiptTruth
<1>1. NetworkInv => ReceiptTruth
  BY DEF NetworkInv
<1> QED
  BY <1>1, NetworkInvHolds, PTL

\* Not delivered means not delivered: what resolve_session_conflict gave up was
\* never accepted and never will be, as the other device keeps its own session.
THEOREM AbandonedNeverAcceptedHolds == Spec => []AbandonedNeverAccepted
<1>1. NetworkInv => AbandonedNeverAccepted
  <2> SUFFICES ASSUME NetworkInv, NEW d \in Device, NEW m \in abandoned[d],
                      m \in Accepted(Peer(d))
               PROVE  FALSE
    BY DEF AbandonedNeverAccepted
  <2>1. Peer(d) \in Device /\ Peer(d) # d
    BY PeerIs
  <2>2. m.sid.by = d /\ Own(Peer(d))
    BY DEF NetworkInv, ConflictInv, Contested
  <2>3. m.sid = session[Peer(d)]
    BY <2>1 DEF NetworkInv, StoreInv, AcceptedInv
  <2> QED
    BY <2>1, <2>2, <2>3 DEF Own
<1> QED
  BY <1>1, NetworkInvHolds, PTL

\* A session that received a message is held by both devices.
THEOREM ConfirmedIsSharedHolds == Spec => []ConfirmedIsShared
<1>1. NetworkInv => ConfirmedIsShared
  <2> SUFFICES ASSUME NetworkInv, NEW d \in Device, session[d] # None,
                      NEW m \in Accepted(d), m.sid = session[d],
                      session[Peer(d)] # session[d]
               PROVE  FALSE
    BY DEF ConfirmedIsShared, Confirmed
  <2>1. Peer(d) \in Device /\ Peer(d) # d /\ Peer(Peer(d)) = d
    BY PeerIs
  <2>2. m \in sent[Peer(d)]
    BY DEF NetworkInv, StoreInv, AcceptedInv
  <2>3. m.sid.by = Peer(d) /\ Own(d)
    BY <2>1, <2>2 DEF NetworkInv, StoreInv, SentInv
  <2> QED
    BY <2>1, <2>3 DEF Own
<1> QED
  BY <1>1, NetworkInvHolds, PTL
=============================================================================
