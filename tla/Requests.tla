------------------------------ MODULE Requests ------------------------------
(***************************************************************************)
(* Authenticated requests: those of TransactionGenerator run as handlers   *)
(* behind the middleware of Sessions (api/server/server_route.go:54-62).   *)
(***************************************************************************)
EXTENDS Sessions, TransactionGenerator

CONSTANT ItemUser   \* column user_id of an item

ASSUME RequestsAssumption == ItemUser \in [Items -> Users]

vars == <<sessions, loops>>

Init == SessionInit /\ GeneratorInit

\* Mutant: the item is not compared with the session.
OwnsAny(r, i) == At(r, "handler")

(* The handler compares the item's user with the session's.  A request it  *)
(* refuses ends as one that changes nothing (Handled).                     *)
Owns(r, i) == At(r, "handler") /\ ItemUser[i] = request[r].user

StartRequest(r, i) == Owns(r, i) /\ StartGenerator(i) /\ Handled(r)

StopRequest(r, i) == Owns(r, i) /\ StopGenerator(i) /\ Handled(r)

Next ==
    \/ ServerRuns /\ UNCHANGED loops
    \/ \E r \in Requests, i \in Items : StartRequest(r, i) \/ StopRequest(r, i)
    \/ \E n \in Starts : LoopStep(n) /\ UNCHANGED sessions
    \/ \E n \in Starts : ContextPanics(n) /\ ServerEnds

Spec == Init /\ [][Next]_vars

-----------------------------------------------------------------------------
(* Properties.                                                             *)

TypeOK == SessionType /\ GeneratorType

(* The refresh of an item is started and stopped only in a request with    *)
(* the session of a login of the item's user, whatever sessions have       *)
(* ended, expired and been saved again meanwhile; but all end with the     *)
(* server.                                                                 *)
OwnersOnly ==
    [][\A i \in Items : generators'[i] # generators[i] =>
          \/ \E r \in Requests :
                At(r, "handler") /\ owner[request[r].sid] = ItemUser[i]
          \/ \E n \in Starts : ContextPanics(n)]_vars

(* A refresh that was started goes on until a request stops it             *)
(* (services/plaid/transaction_generator.go:37): a goroutine does not use  *)
(* the context of a request that has ended (exchange_token.go:110).        *)
RefreshesGoOn ==
    [][\A i \in Items : IsRunning(i) =>
          IsRunning(i)' \/ \E r \in Requests : StopRequest(r, i)]_vars
=============================================================================
