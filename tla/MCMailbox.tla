----------------------------- MODULE MCMailbox -----------------------------
(***************************************************************************)
(* Instances of Mailbox for TLC.                                           *)
(***************************************************************************)
EXTENDS Mailbox

E(kind, id, size) == [kind |-> kind, id |-> id, size |-> size]

\* Handshakes and messages of the largest and of a smaller size, and bytes
\* that do not decode.
Mixed == {E("handshake", 1, 2), E("message", 1, 2), E("junk", 1, 1)}
=============================================================================
