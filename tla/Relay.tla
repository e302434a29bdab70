------------------------------- MODULE Relay -------------------------------
(***************************************************************************)
(* The mailbox of one recipient on the relay of crates/relay: the requests *)
(* SEND, FETCH_AFTER and DELETE of server.rs, the expiry of envelopes, and *)
(* a restart, which loses everything and closes every connection.          *)
(*                                                                         *)
(* A request is handled under the relay's one lock, so it is one step.  An *)
(* envelope is a record of its kind (what Envelope::decode makes of it),   *)
(* who sent it and its encoded size in a response frame.  Mailboxes of     *)
(* other recipients are not kept; they share the sequence counter, which   *)
(* they can move at any time.                                              *)
(***************************************************************************)
EXTENDS Naturals, FiniteSets, FiniteSetsExt, Functions

CONSTANTS
    Envelope,     \* the envelopes senders may hand to the relay
    MaxMailbox,   \* RelayConfig::max_mailbox, DEFAULT_MAX_MAILBOX
    MaxFetch,     \* MAX_FETCH
    Frame,        \* MAX_FRAME without the frame's own fields
    MaxSize,      \* MAX_ENVELOPE with the fields of one entry
    U64Max,       \* u64::MAX
    MaxRestart    \* bound: restarts of the relay

\* MIN_PAGE: that many of the largest envelopes fit in a frame.
MinPage == Frame \div MaxSize

ASSUME RelayAssumption ==
    /\ \A e \in Envelope : e.size \in 1..MaxSize
    /\ {MaxMailbox, MaxFetch, MaxSize, Frame, U64Max, MaxRestart} \subseteq Nat
    /\ 1 <= MaxMailbox /\ 1 <= MaxFetch /\ 1 <= MaxSize
    /\ MaxSize <= Frame /\ MinPage <= MaxFetch

VARIABLES
    mail,       \* the mailbox: sequence number -> envelope
    next_seq,   \* the next sequence number
    late,       \* DELETE requests whose client gave up waiting for the answer
    conn,       \* whether the reader's connection is open
    restarts    \* history: restarts so far

relay == <<mail, next_seq, late, conn, restarts>>


-----------------------------------------------------------------------------
Without(m, seqs) == [s \in DOMAIN m \ seqs |-> m[s]]

\* Whether a response that ends with the envelope s, of those in rest, fits.
Fits(m, rest, s) ==
    LET upto == {t \in rest : t <= s}
    IN  /\ Cardinality(upto) <= MaxFetch
        /\ MapThenSumSet(LAMBDA t : m[t].size, upto) <= Frame

\* fetch_after: the envelopes after the cursor in ascending order, at most
\* MAX_FETCH of them, up to the first that would not fit in the frame.
\* Variant: FETCH, which has no cursor.
PageFromStart(m, after) ==
    {s \in DOMAIN m : \A t \in DOMAIN m : t <= s => Fits(m, DOMAIN m, t)}
Page(m, after) ==
    LET rest == {s \in DOMAIN m : s > after}
    IN  {s \in rest : \A t \in rest : t <= s => Fits(m, rest, t)}

\* SEND of an envelope.  Bytes identical to a stored envelope are not stored
\* again; a full mailbox and an exhausted counter refuse.
Send(e) ==
    /\ e \notin Range(mail)
    /\ Cardinality(DOMAIN mail) < MaxMailbox
    /\ next_seq < U64Max
    /\ mail' = [s \in DOMAIN mail \cup {next_seq} |->
                  IF s = next_seq THEN e ELSE mail[s]]
    /\ next_seq' = next_seq + 1
    /\ UNCHANGED <<late, conn, restarts>>

\* SEND to another recipient: the sequence counter is shared.
SendElsewhere ==
    /\ next_seq < U64Max
    /\ next_seq' = next_seq + 1
    /\ UNCHANGED <<mail, late, conn, restarts>>

\* DELETE by anyone, as deleting is not authenticated; or the envelope
\* outlived the configured time to live, and the next request drops it before
\* it reads the mailbox.
Vanish(s) ==
    /\ s \in DOMAIN mail
    /\ mail' = Without(mail, {s})
    /\ UNCHANGED <<next_seq, late, conn, restarts>>

\* A DELETE request reaches the relay after its client stopped waiting.
LateDelete(d) ==
    /\ d \in late
    /\ mail' = Without(mail, {x.seq : x \in d})
    /\ late' = late \ {d}
    /\ UNCHANGED <<next_seq, conn, restarts>>

\* The relay stops and another one is started: nothing is on disk, numbers
\* start from 1, and every connection with what is in flight on it is closed.
\* Variant: connections survive.
RestartUnnoticed ==
    /\ restarts < MaxRestart
    /\ mail' = << >>
    /\ next_seq' = 1
    /\ restarts' = restarts + 1
    /\ UNCHANGED <<late, conn>>
Restart ==
    /\ restarts < MaxRestart
    /\ mail' = << >>
    /\ next_seq' = 1
    /\ late' = {}
    /\ conn' = FALSE
    /\ restarts' = restarts + 1

RelayInit ==
    /\ mail = << >>
    /\ next_seq = 1
    /\ late = {}
    /\ conn = FALSE
    /\ restarts = 0
=============================================================================
