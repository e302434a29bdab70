----------------------------- MODULE MCNetwork -----------------------------
(* Network for TLC.  The two rounds take turns: a device whose round is not  *)
(* at rest moves alone, with its user's thread, time and faults.  Between    *)
(* two rests a device calls its own store, which the other does not see, and *)
(* sends to the relay, which the other sees when it next reads.              *)
EXTENDS Network, TLC

CONSTANTS
    A, B,
    Points        \* where, besides between rounds, a round rests

AOrBoth == {{A}, {A, B}}
Both == {{A, B}}

\* Only the user of A writes.
OneWay == (A :> {"t1"}) @@ (B :> {})

\* A round may rest before it reads the mailbox, before it reads it again, and
\* before it reads a bundle.
Rest(d) ==
    /\ round[d].cur = None
    /\ \/ round[d].pc = "idle"
       \/ /\ "fetch" \in Points
          /\ round[d].pc = "sending" /\ ~round[d].last /\ round[d].todo = {}
       \/ /\ "again" \in Points
          /\ round[d].pc = "handshakes"
          /\ \A e \in round[d].todo : e.kind # "handshake"
       \/ "bundle" \in Points /\ round[d].pc = "after"

Of(d) == <<session[d], hsin[d], sent[d], acked[d], abandoned[d], inbox[d], seen[d],
           prekey[d], conflict[d], acceptOnly[d], last_sent[d], round[d], ui[d]>>

Turns == \A d \in Device : ~Rest(d) => Of(Peer(d))' = Of(Peer(d))

TurnSpec == Init /\ [][Next /\ Turns]_vars

\* Two sessions started at once are trouble enough: no fault comes with them.
LiveInit == Init /\ (starters = Device => faults = MaxFault)

\* syncWhileVisible repeats the rounds, time passes, each user writes what is to
\* be written, and the user of the greater device resolves a conflict that is
\* shown.  The fairness is strong because turns, not the code, take a device's
\* next step away.
FairSpec ==
    /\ LiveInit /\ [][Next /\ Turns]_vars
    /\ WF_vars(Tick)
    /\ \A d \in Device : /\ SF_vars(Sync(d) /\ Turns)
                         /\ SF_vars(Write(d) /\ Turns)
                         /\ SF_vars(ResolveConflict(d) /\ Turns)
                         /\ SF_vars(Elapse(d) /\ Turns)
=============================================================================
