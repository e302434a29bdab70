----------------------------- MODULE MCStorage -----------------------------
(***************************************************************************)
(* An instance of StorageHistory for TLC: two records of one namespace,    *)
(* and a namespace with no record.                                         *)
(***************************************************************************)
EXTENDS StorageHistory, TLC

CONSTANTS n1, n2, n3

MCNamespaceOf == n1 :> "contact:" @@ n2 :> "contact:" @@ n3 :> "identity"

Symmetry == Permutations(Conns) \cup Permutations(Values) \cup Permutations(Names)
=============================================================================
