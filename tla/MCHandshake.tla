---------------------------- MODULE MCHandshake ----------------------------
(***************************************************************************)
(* An instance of Handshake for TLC: alice starts sessions with bob, whose *)
(* bundle two threads publish.                                             *)
(***************************************************************************)
EXTENDS Handshake, TLC

CONSTANTS alice, bob, t1, t2

MCThreads == alice :> {t1} @@ bob :> {t1, t2}
MCMaxPrekeys == alice :> 0 @@ bob :> 2
MCMaxStarts == alice :> 1 @@ bob :> 0
MCMaxAccepts == alice :> 0 @@ bob :> 2
=============================================================================
