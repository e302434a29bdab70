----------------------------- MODULE MCDurable -----------------------------
(***************************************************************************)
(* An instance of Durable for TLC.                                         *)
(***************************************************************************)
EXTENDS Durable, TLC

CONSTANTS n1, n2

MCNamespaceOf == n1 :> "session:" @@ n2 :> "outbox:"

Symmetry == Permutations(Conns) \cup Permutations(Messages)
=============================================================================
