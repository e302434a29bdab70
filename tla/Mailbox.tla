------------------------------ MODULE Mailbox ------------------------------
(***************************************************************************)
(* The reader of a mailbox: the part of NetworkMessenger::sync_round that  *)
(* scans it (crates/mobile-ffi/src/network.rs), composed with the relay.   *)
(*                                                                         *)
(* A round makes two passes: one that processes the handshakes, then one   *)
(* that processes everything else up to where the first pass ended.  Each  *)
(* call to the relay and each envelope processed is a step, and senders,   *)
(* other readers, time and restarts of the relay act between them.  What   *)
(* process decides about an envelope depends on the sessions; here it may  *)
(* delete it, keep it, or end the round with an error.                     *)
(***************************************************************************)
EXTENDS Relay

CONSTANTS
    MaxError      \* bound: rounds that end with an error of the device's own

ASSUME MailboxAssumption == MaxError \in Nat

\* MAX_SCAN_ENVELOPES and MAX_SCAN_PAGES, a division rounded up.
\* Variant: rounded down.
MaxScanEnvelopes == MaxMailbox
PagesRoundedDown == MaxScanEnvelopes \div MinPage
MaxScanPages == (MaxScanEnvelopes + MinPage - 1) \div MinPage

VARIABLES
    sc,         \* the scan in progress
    errors      \* history: rounds that ended with an error

vars == <<relay, sc, errors>>

\* pc: where the round is.  pass, until, after, seen, pages, items, last and
\* delete are the locals of scan.  History: start, what the mailbox held when
\* the pass began; looked, the numbers this pass went over; shook, the
\* handshakes processed in this round.
Idle == [pc |-> "idle", pass |-> "handshakes", until |-> U64Max, after |-> 0,
         seen |-> 0, pages |-> 0, items |-> {}, last |-> FALSE,
         delete |-> {}, start |-> {}, looked |-> {}, shook |-> {}]

\* What a pass processes; the first sees only handshakes, the second the rest,
\* envelopes that do not decode included.
Selected(pass, e) == (e.kind = "handshake") <=> (pass = "handshakes")

BeginPass(pass, until, shook, m) ==
    [Idle EXCEPT !.pc = "fetch", !.pass = pass, !.until = until,
                 !.start = DOMAIN m, !.shook = shook]

\* connect, and the start of the first pass.
BeginRound ==
    /\ sc.pc = "idle"
    /\ conn' = TRUE
    /\ sc' = BeginPass("handshakes", U64Max, {}, mail)
    /\ UNCHANGED <<mail, next_seq, late, restarts, errors>>

\* A page shorter than MIN_PAGE is the last one.
IsLast(page) == Cardinality(page) < MinPage

\* fetch_after.  An empty page ends the pass.
FetchPage ==
    LET page == Page(mail, sc.after)
    IN  /\ sc.pc = "fetch" /\ conn
        /\ sc' = IF page = {}
                 THEN [sc EXCEPT !.pc = "delete"]
                 ELSE [sc EXCEPT
                         !.pc = "items", !.pages = @ + 1, !.last = IsLast(page),
                         !.items = {[seq |-> s, env |-> mail[s]] : s \in page}]
        /\ UNCHANGED <<relay, errors>>

\* The envelope of the page that comes next.
Front(x) == x \in sc.items /\ \A y \in sc.items : x.seq <= y.seq

\* Where the pass goes after the envelope x: its end, the next envelope, or
\* the next page.
Following(x, seen) ==
    IF \/ seen = MaxScanEnvelopes
       \/ x.seq = sc.until
       \/ sc.items = {x} /\ (sc.last \/ sc.pages = MaxScanPages)
    THEN "delete"
    ELSE IF sc.items = {x} THEN "fetch" ELSE "items"

\* One envelope within the range of the pass.
ScanItem(x, fate) ==
    LET sel  == Selected(sc.pass, x.env)
        then == Following(x, sc.seen + 1)
    IN  /\ sc.pc = "items" /\ Front(x)
        /\ sc.after < x.seq /\ x.seq <= sc.until
        /\ fate = "delete" => sel
        /\ x.env.kind = "junk" /\ sel => fate = "delete"
        /\ sc' = [sc EXCEPT
              !.pc = then, !.items = IF then = "items" THEN @ \ {x} ELSE {},
              !.after = x.seq, !.seen = @ + 1,
              !.delete = IF fate = "delete" THEN @ \cup {x} ELSE @,
              !.looked = @ \cup {x.seq},
              !.shook = IF sel /\ sc.pass = "handshakes"
                        THEN @ \cup {x.seq} ELSE @]
        /\ UNCHANGED <<relay, errors>>

\* An envelope beyond the end of the pass ends it.
BeyondUntil(x) ==
    /\ sc.pc = "items" /\ Front(x)
    /\ x.seq > sc.until
    /\ sc' = [sc EXCEPT !.pc = "delete", !.items = {}]
    /\ UNCHANGED <<relay, errors>>

\* What follows a pass: after the handshakes, the messages up to the last
\* number the first pass reached.
\* Variant: the second pass has no end.
NextPassUnbounded(m) ==
    IF sc.pass = "handshakes" /\ sc.after > 0
    THEN BeginPass("messages", U64Max, sc.shook, m) ELSE Idle
NextPass(m) ==
    IF sc.pass = "handshakes" /\ sc.after > 0
    THEN BeginPass("messages", sc.after, sc.shook, m) ELSE Idle

\* The end of a pass: what it decided to delete is deleted, in one request.
EndPass ==
    LET m == Without(mail, {x.seq : x \in sc.delete}) IN
    /\ sc.pc = "delete"
    /\ sc.delete = {} \/ conn
    /\ mail' = m
    /\ sc' = NextPass(m)
    /\ UNCHANGED <<next_seq, late, conn, restarts, errors>>

\* A request on a connection the relay closed fails, and ends the round.
CallFails ==
    /\ ~conn
    /\ \/ sc.pc = "fetch"
       \/ sc.pc = "delete" /\ sc.delete # {}
    /\ sc' = Idle
    /\ UNCHANGED <<relay, errors>>

\* The DELETE was written, but its answer did not arrive in time.
DeleteTimesOut ==
    /\ sc.pc = "delete" /\ sc.delete # {} /\ conn
    /\ errors < MaxError
    /\ late' = late \cup {sc.delete}
    /\ sc' = Idle
    /\ errors' = errors + 1
    /\ UNCHANGED <<mail, next_seq, conn, restarts>>

\* An error of process, of the store, or of the network ends the round; so
\* would a page out of order, which this relay does not return.
RoundFails ==
    /\ sc.pc # "idle"
    /\ errors < MaxError
    /\ sc' = Idle
    /\ errors' = errors + 1
    /\ UNCHANGED relay

Init ==
    /\ RelayInit
    /\ sc = Idle
    /\ errors = 0

Scan ==
    \/ BeginRound
    \/ FetchPage
    \/ \E x \in sc.items : BeyondUntil(x)
    \/ \E x \in sc.items, fate \in {"delete", "keep"} : ScanItem(x, fate)
    \/ EndPass
    \/ CallFails

Others ==
    /\ \/ \E e \in Envelope : Send(e)
       \/ SendElsewhere
       \/ \E s \in DOMAIN mail : Vanish(s)
       \/ \E d \in late : LateDelete(d)
       \/ Restart
    /\ UNCHANGED <<sc, errors>>

Next == Scan \/ Others \/ DeleteTimesOut \/ RoundFails

Spec == Init /\ [][Next]_vars

\* The application runs rounds again and again while it is visible, and a
\* round that can go on does.
FairSpec == Spec /\ WF_vars(Scan)

-----------------------------------------------------------------------------
(* Properties.                                                             *)

Entry == [seq: 1..U64Max, env: Envelope]

\* Types, and a mailbox within its capacity whose numbers were handed out.
TypeOK ==
    /\ next_seq \in 1..U64Max
    /\ DOMAIN mail \subseteq 1..(next_seq - 1)
    /\ Cardinality(DOMAIN mail) <= MaxMailbox
    /\ Range(mail) \subseteq Envelope
    /\ late \subseteq SUBSET Entry
    /\ conn \in BOOLEAN
    /\ sc.pc \in {"idle", "fetch", "items", "delete"}
    /\ sc.pass \in {"handshakes", "messages"}
    /\ {sc.after, sc.until} \subseteq 0..U64Max
    /\ sc.seen <= MaxScanEnvelopes /\ sc.pages <= MaxScanPages
    /\ sc.items \subseteq Entry /\ sc.delete \subseteq Entry

\* A pass misses nothing: when it ends, every envelope that was there when it
\* began, is still there and lies within its range was gone over, whatever was
\* kept before it, sent, deleted or expired meanwhile.
ScanCovers ==
    sc.pc = "delete" /\ conn =>
        \A s \in sc.start \cap DOMAIN mail : s <= sc.until => s \in sc.looked

\* Handshakes before messages: a message is processed only after every
\* handshake that reached the mailbox before it and is still there.
HandshakesFirst ==
    sc.pc = "items" /\ sc.pass = "messages" /\ conn =>
        \A x \in sc.items :
            Front(x) /\ x.seq <= sc.until /\ Selected("messages", x.env) =>
                \A s \in DOMAIN mail :
                    s < x.seq /\ mail[s].kind = "handshake" => s \in sc.shook

\* A DELETE, on time or late, only names envelopes as they were read: no
\* number it carries belongs to another envelope by the time it arrives.
DeletesWhatWasRead ==
    \A x \in (IF conn THEN sc.delete ELSE {}) \cup UNION late :
        x.seq \in DOMAIN mail => mail[x.seq] = x.env

\* Every stored envelope is processed in the end, unless it is deleted by
\* another reader, expires or is lost with the relay: nothing kept in front of
\* it hides it for ever.
EveryEnvelopeProcessed ==
    \A e \in Envelope, s \in 1..U64Max :
        (s \in DOMAIN mail /\ mail[s] = e)
            ~> (\/ s \notin DOMAIN mail
                \/ mail[s] # e
                \/ s \in sc.looked /\ Selected(sc.pass, e))
=============================================================================
