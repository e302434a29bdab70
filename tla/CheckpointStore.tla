-------------------------- MODULE CheckpointStore --------------------------
(***************************************************************************)
(* The promise of a checkpoint store (the sealed trait Store of            *)
(* core-protocol's durable.rs): a caller submits a batch of conditional    *)
(* writes, and one atomic step decides it.  This is what Messaging takes a *)
(* transaction for.                                                        *)
(***************************************************************************)
CONSTANTS
    Clients, Names,
    Gone,          \* contents other users of the store may leave
    Holds(_, _),   \* Holds(table, batch): every precondition of the batch
    Apply(_, _)    \* Apply(table, batch): the table with every write made

VARIABLES
    table,    \* [Names -> contents]
    batch,    \* what each client submitted last
    result    \* "none", "running" or "conflict"

vars == <<table, batch, result>>

Init ==
    /\ DOMAIN table = Names
    /\ \A c \in Clients : result[c] = "none"

\* The others' batches stay as they are.
Ends(c, how) ==
    /\ result' = [result EXCEPT ![c] = how]
    /\ \A d \in Clients \ {c} : batch'[d] = batch[d]

Submit(c) ==
    /\ result[c] # "running"
    /\ Ends(c, "running")
    /\ UNCHANGED table

Write(c) ==
    /\ result[c] = "running"
    /\ Holds(table, batch[c])
    /\ table' = Apply(table, batch[c])
    /\ Ends(c, "none")

\* A batch refused for a precondition has one that does not hold.
Conflict(c) ==
    /\ result[c] = "running"
    /\ ~Holds(table, batch[c])
    /\ Ends(c, "conflict")
    /\ UNCHANGED table

\* The batch failed, its outcome is lost, or the client moves on.
Leave(c) ==
    /\ Ends(c, "none")
    /\ UNCHANGED table

\* Another user of the store, or damage, takes one record away.
Other ==
    /\ \E n \in Names :
          /\ table'[n] \in Gone
          /\ \A m \in Names \ {n} : table'[m] = table[m]
    /\ DOMAIN table' = Names
    /\ UNCHANGED <<batch, result>>

Next ==
    \/ \E c \in Clients : Submit(c) \/ Write(c) \/ Conflict(c) \/ Leave(c)
    \/ Other

Spec == Init /\ [][Next]_vars
=============================================================================
