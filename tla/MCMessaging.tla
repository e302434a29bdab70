---------------------------- MODULE MCMessaging ----------------------------
(***************************************************************************)
(* Instances of Messaging for TLC.  A cfg gives the sets as model values   *)
(* and picks among the handle maps and handshake sets defined here.        *)
(***************************************************************************)
EXTENDS Messaging, TLC

CONSTANTS p1, p2, h1, h2

\* One handle per peer.
OneHandle == p1 :> h1
TwoHandles == p1 :> h1 @@ p2 :> h2

Hs(p, n, v) == [role |-> "responder", peer |-> p, n |-> n, prekey |-> v]

NoHandshakes == {}

OneFromP1 == {Hs(p1, 1, 1)}

\* Two handshakes of one peer, from one bundle and from the next.
TwoFromP1 == {Hs(p1, 1, 1), Hs(p1, 1, 2)}

\* Two peers that fetched the same bundle, and one of them the next, too.
FromBoth == TwoFromP1 \cup {Hs(p2, 1, 1)}

Symmetry == Permutations(Instance) \cup Permutations(Cid)
=============================================================================
