----------------------------- MODULE Lifecycle -----------------------------
(***************************************************************************)
(* What durable messaging promises, without stores, sessions or instances. *)
(* A logical message is encrypted once, into one wire that belongs to no   *)
(* other logical message, is then pending, and ends acknowledged or        *)
(* abandoned.  An incoming message is accepted once, is undelivered until  *)
(* the application acknowledges it, and is delivered for good.             *)
(***************************************************************************)
CONSTANTS Peer, Cid, None

VARIABLES
    out,    \* out[p][c]: None, or the wire of logical message c and its status
    in      \* in[p]: the undelivered and the delivered messages of peer p

vars == <<out, in>>

Init ==
    /\ out = [p \in Peer |-> [c \in Cid |-> None]]
    /\ in = [p \in Peer |-> [undelivered |-> {}, delivered |-> {}]]

\* The wires of all logical messages.
Used == {out[x[1]][x[2]].wire : x \in {y \in Peer \X Cid : out[y[1]][y[2]] # None}}

\* Any wire will do, as long as no logical message has it.
Encrypt(p, c) ==
    LET w == out'[p][c].wire IN
    /\ out[p][c] = None
    /\ out'[p][c] # None
    /\ w \notin Used
    /\ out' = [out EXCEPT ![p][c] = [wire |-> w, status |-> "pending"]]
    /\ UNCHANGED in

\* A pending message ends: acknowledged or abandoned.
Finish(p, c, status) ==
    /\ out[p][c] # None
    /\ out[p][c].status = "pending"
    /\ out' = [out EXCEPT ![p][c] = [wire |-> out[p][c].wire, status |-> status]]
    /\ UNCHANGED in

Accept(p) ==
    /\ \E m \in in'[p].undelivered :
          /\ m \notin in[p].undelivered \cup in[p].delivered
          /\ in' = [in EXCEPT ![p] =
                      [undelivered |-> in[p].undelivered \cup {m},
                       delivered   |-> in[p].delivered]]
    /\ UNCHANGED out

Deliver(p) ==
    /\ \E m \in in[p].undelivered :
          in' = [in EXCEPT ![p] =
                   [undelivered |-> in[p].undelivered \ {m},
                    delivered   |-> in[p].delivered \cup {m}]]
    /\ UNCHANGED out

Next ==
    \E p \in Peer :
        \/ \E c \in Cid : \/ Encrypt(p, c)
                         \/ Finish(p, c, "acknowledged")
                         \/ Finish(p, c, "abandoned")
        \/ Accept(p)
        \/ Deliver(p)

Spec == Init /\ [][Next]_vars
=============================================================================
