--------------------------- MODULE ConnectionPool ---------------------------
(***************************************************************************)
(* The connection pool of api/server/server_database.go and those who wait *)
(* for it.  A call is a request or a sync.  An open database transaction   *)
(* keeps a connection until it ends; a statement sent through the plain    *)
(* client keeps one for as long as it runs.  The rule engine sends such a  *)
(* statement while its transaction is open (rule/engine.go:310), so that   *)
(* it needs two at once.                                                   *)
(*                                                                         *)
(* A statement may also wait for a lock an open transaction holds, and     *)
(* keeps its connection meanwhile.  Neither wait has a timeout: no caller  *)
(* sets a deadline.                                                        *)
(***************************************************************************)
EXTENDS Integers, FiniteSets

CONSTANTS
    Calls,     \* concurrent requests and syncs
    Nested,    \* those that send a plain statement inside a transaction
    MaxConns,  \* connectionConfig.MaxConns
    MaxStage,  \* the locks a transaction takes one after the other
    NoCall

ASSUME PoolAssumption ==
    /\ IsFiniteSet(Calls) /\ Nested \subseteq Calls
    /\ MaxConns \in Nat \ {0} /\ MaxStage \in Nat
    /\ NoCall \notin Calls

VARIABLES
    tx,      \* the calls with an open database transaction
    plain,   \* those whose statement on the plain client has a connection
    waiting, \* those that wait for one
    stage,   \* how many of its locks an open transaction has
    blocked  \* the call whose lock a statement waits for, or NoCall

pool == <<tx, plain, waiting, stage, blocked>>

Free == MaxConns - Cardinality(tx) - Cardinality(plain)

PoolInit ==
    /\ tx = {}
    /\ plain = {}
    /\ waiting = {}
    /\ stage = [c \in Calls |-> 0]
    /\ blocked = [c \in Calls |-> NoCall]

(* The call runs: it waits neither for a connection nor for a lock.        *)
Runs(c) == c \notin waiting /\ c \notin plain /\ blocked[c] = NoCall

-----------------------------------------------------------------------------

Begin(c) ==
    /\ Runs(c) /\ c \notin tx
    /\ Free > 0
    /\ tx' = tx \cup {c}
    /\ UNCHANGED <<plain, waiting, stage, blocked>>

(* A statement of the transaction gets the next lock it needs.             *)
TakeLock(c) ==
    /\ Runs(c) /\ c \in tx
    /\ stage[c] < MaxStage
    /\ stage' = [stage EXCEPT ![c] = @ + 1]
    /\ UNCHANGED <<tx, plain, waiting, blocked>>

\* Mutant: a statement beside its transaction waits for a lock of it.
BlockBeside(c, d) ==
    /\ c \in tx \/ c \in plain
    /\ blocked[c] = NoCall /\ c \notin waiting
    /\ d \in tx /\ (stage[c] < stage[d] \/ (c = d /\ c \in plain))
    /\ blocked' = [blocked EXCEPT ![c] = d]
    /\ UNCHANGED <<tx, plain, waiting, stage>>

(* The locks are taken in one order (key of the execution, then row of the *)
(* rule), so that only one who has come further is waited for.  A plain    *)
(* statement of a call without a transaction holds no lock.                *)
Block(c, d) ==
    /\ c \in tx \/ c \in plain
    /\ c \in tx => Runs(c)
    /\ blocked[c] = NoCall
    /\ d \in tx /\ stage[c] < stage[d]
    /\ blocked' = [blocked EXCEPT ![c] = d]
    /\ UNCHANGED <<tx, plain, waiting, stage>>

\* Mutant: a request, too, sends a plain statement in its transaction.
AskAlways(c) ==
    /\ Runs(c)
    /\ waiting' = waiting \cup {c}
    /\ UNCHANGED <<tx, plain, stage, blocked>>

(* A query of the plain client, unless the cache answers it.               *)
Ask(c) ==
    /\ Runs(c)
    /\ c \in tx => c \in Nested
    /\ waiting' = waiting \cup {c}
    /\ UNCHANGED <<tx, plain, stage, blocked>>

Grant(c) ==
    /\ c \in waiting
    /\ Free > 0
    /\ waiting' = waiting \ {c}
    /\ plain' = plain \cup {c}
    /\ UNCHANGED <<tx, stage, blocked>>

GiveBack(c) ==
    /\ c \in plain /\ blocked[c] = NoCall
    /\ plain' = plain \ {c}
    /\ UNCHANGED <<tx, waiting, stage, blocked>>

(* Commit or rollback: the connection and all locks are given back, and    *)
(* the statements that waited for one go on.                               *)
End(c) ==
    /\ Runs(c) /\ c \in tx
    /\ tx' = tx \ {c}
    /\ stage' = [stage EXCEPT ![c] = 0]
    /\ blocked' =
          [d \in Calls |-> IF blocked[d] = c THEN NoCall ELSE blocked[d]]
    /\ UNCHANGED <<plain, waiting>>

PoolStep(c) ==
    \/ Begin(c) \/ TakeLock(c) \/ Ask(c) \/ Grant(c) \/ GiveBack(c) \/ End(c)
    \/ \E d \in Calls : Block(c, d)

PoolNext == \E c \in Calls : PoolStep(c)

PoolSpec == PoolInit /\ [][PoolNext]_pool

-----------------------------------------------------------------------------
(* Properties.                                                             *)

(* The types; who waits for a connection for a statement has none for it   *)
(* yet, and only plain statements outside of a transaction and statements  *)
(* of a transaction wait for locks.                                        *)
PoolType ==
    /\ tx \subseteq Calls /\ plain \subseteq Calls /\ waiting \subseteq Calls
    /\ plain \cap waiting = {}
    /\ tx \cap (plain \cup waiting) \subseteq Nested
    /\ stage \in [Calls -> 0..MaxStage]
    /\ blocked \in [Calls -> Calls \cup {NoCall}]
    /\ \A c \in Calls : blocked[c] # NoCall =>
          /\ c \notin waiting
          /\ c \in tx => c \notin plain
          /\ c \in tx \cup plain /\ blocked[c] \in tx

(* Never more connections than the pool has (server_database.go:24).       *)
WithinLimit == Cardinality(tx) + Cardinality(plain) <= MaxConns

(* All connections are held by calls that wait, for a connection or for a  *)
(* lock: nobody gives one back.                                            *)
Exhausted ==
    /\ Free = 0
    /\ \A c \in tx : c \in waiting \/ blocked[c] # NoCall
    /\ \A c \in plain : blocked[c] # NoCall

(* The pool is exhausted only when as many calls as it has connections are *)
(* there at once, each with one: with fewer concurrent calls than          *)
(* connections the second connection that the engine's notification takes  *)
(* (rule/engine.go:325) never locks the server up.                         *)
ExhaustedAtLimitOnly ==
    Exhausted => Cardinality(tx \cup plain) = MaxConns
=============================================================================
