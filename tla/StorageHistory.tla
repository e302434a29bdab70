--------------------------- MODULE StorageHistory ---------------------------
(***************************************************************************)
(* What the callers of the encrypted store can conclude from the answers   *)
(* they got, and whether the table agrees.  The two histories only observe *)
(* the answers; no step of Storage depends on them.                        *)
(***************************************************************************)
EXTENDS Storage

VARIABLES
    told,      \* what the answers so far allow each name to hold
    intended,  \* the writes acknowledged inside each open handle
    answer     \* the last call: operation, connection, name, result

hvars == <<svars, told, intended, answer>>

Namespaces == {NamespaceOf[n] : n \in DOMAIN NamespaceOf}

Answered(op, c, n, res) ==
    answer' = [op |-> op, conn |-> c, name |-> n, res |-> res]

\* A write outside a transaction: the name holds value for certain, or may.
Wrote(op, c, n, value, res) ==
    /\ Answered(op, c, n, res)
    /\ told' = [told EXCEPT ![n] = CASE res = Ok -> {value}
                                     [] res = Err -> @ \cup {value}
                                     [] OTHER -> @]
    /\ UNCHANGED intended

\* What the file holds sealed under the name of n, in whichever row.
SealedFor(n) == {rows[k].v.msg : k \in {j \in DOMAIN rows : rows[j].v.under = n}}

\* Damage: the name may be unreadable, or hold what is sealed under it.
Lost(n) ==
    /\ Answered("write", None, n, Err)
    /\ told' = [told EXCEPT ![n] = @ \cup {Decryption} \cup SealedFor(n)]
    /\ UNCHANGED intended

\* A write inside one.
TxWrote(op, c, n, value, res) ==
    /\ Answered(op, c, n, res)
    /\ intended' = [intended EXCEPT ![c] =
                      [m \in DOMAIN @ \cup {n} |-> IF m = n THEN value ELSE @[m]]]
    /\ UNCHANGED told

\* The handle is gone, and its writes took effect, may have, or did not.
Ended(op, c, res) ==
    LET w == intended[c]
    IN  /\ Answered(op, c, None, res)
        /\ told' = [n \in Names |->
                      IF n \notin DOMAIN w \/ op \in {"rollback", "crash"} THEN told[n]
                      ELSE IF res = Ok THEN {w[n]} ELSE told[n] \cup {w[n]}]
        /\ intended' = [intended EXCEPT ![c] = NoTable]

Nothing(op, c, n, res) == Answered(op, c, n, res) /\ UNCHANGED <<told, intended>>

HistoryInit ==
    /\ StorageInit
    /\ told = [n \in Names |-> {NotFound}]
    /\ intended = [c \in Conns |-> NoTable]
    /\ answer = [op |-> "none", conn |-> None, name |-> None, res |-> Ok]

Calls(c) ==
    \/ Open(c) /\ Nothing("open", c, None, Ok)
    \/ Refuse(c) /\ Nothing("refused", c, None, Invalid)
    \/ TxFails(c) /\ Nothing("tx_error", c, None, Err)
    \/ Rollback(c) /\ Ended("rollback", c, Ok)
    \/ Crash(c) /\ Ended("crash", c, Ok)
    \/ CrashInCommit(c) /\ Ended("commit", c, Err)
    \/ \E res \in {Ok, Err, Busy} :
        \/ Begin(c, res) /\ Nothing("begin", c, None, res)
        \/ Commit(c, res) /\ Ended("commit", c, res)
        \/ \E n \in Names :
            \/ Delete(c, n, res) /\ Wrote("write", c, n, NotFound, res)
            \/ TxDelete(c, n, res) /\ TxWrote("tx_write", c, n, NotFound, res)
            \/ \E v \in Values :
                \/ Put(c, n, v, res) /\ Wrote("write", c, n, v, res)
                \/ TxPut(c, n, v, res) /\ TxWrote("tx_write", c, n, v, res)
    \/ \E n \in Names, res \in Values \cup {NotFound, Decryption} :
        \/ Get(c, n, res) /\ Nothing("get", c, n, res)
        \/ TxGet(c, n, res) /\ Nothing("tx_get", c, n, res)
    \/ \E ns \in Namespaces, res \in SUBSET Names \cup {{Decryption}} :
        ListKeysWithPrefix(c, ns, res) /\ Nothing("list", c, ns, res)

\* An unreadable name, an unreadable value, or another row's value in its place.
DamagedRows(row) ==
    {[row EXCEPT !.ek = BadName], [row EXCEPT !.v = Garbage]}
        \cup {[row EXCEPT !.v = rows[k].v] : k \in DOMAIN rows}

HistoryNext ==
    \/ \E c \in Conns : Calls(c)
    \/ \E n \in {m \in Names : StorageKey(m) \in DOMAIN rows} :
        \E row \in DamagedRows(rows[StorageKey(n)]) :
            Damage(n, row) /\ Lost(n)

HistorySpec == HistoryInit /\ [][HistoryNext]_hvars

-----------------------------------------------------------------------------
(* Properties.                                                             *)

\* What is stored is always something the answers allow for: an acknowledged
\* put, delete or commit is neither lost nor absorbed into a transaction that
\* is later discarded, and what was refused or rolled back never appears.
AckedIsStored == \A n \in Names : Contents[n] \in told[n]

\* A caller reads what is stored, and inside a transaction its own writes: no
\* value of an abandoned transaction, none sealed under another name.  A list
\* names every record of the namespace and no other.
ReadsAreTrue ==
    /\ answer.op = "get" => answer.res \in told[answer.name]
    /\ answer.op = "tx_get" =>
         IF answer.name \in DOMAIN intended[answer.conn]
         THEN answer.res = intended[answer.conn][answer.name]
         ELSE answer.res \in told[answer.name]
    /\ answer.op = "list" /\ answer.res # {Decryption} =>
         \A n \in Names :
            /\ n \in answer.res => NamespaceOf[n] = answer.name /\ told[n] # {NotFound}
            /\ NamespaceOf[n] = answer.name /\ NotFound \notin told[n] => n \in answer.res

\* The table changes by one plain write, or by every write a transaction
\* acknowledged and nothing else, at its commit or at a crash inside it.
AllOrNothing ==
    [][\/ Contents' = Contents
       \/ /\ answer'.op = "write"
          /\ \A n \in Names \ {answer'.name} : Contents'[n] = Contents[n]
       \/ /\ answer'.op = "commit"
          /\ LET w == intended[answer'.conn]
             IN  Contents' = [n \in Names |->
                                IF n \in DOMAIN w THEN w[n] ELSE Contents[n]]]_hvars

=============================================================================
