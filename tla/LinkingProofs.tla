--------------------------- MODULE LinkingProofs ---------------------------
(***************************************************************************)
(* Theorems about SyncWorker and Linking for any items, backoffs and       *)
(* number of accounts: how long the worker waits, what the request that    *)
(* links an item makes visible, and that to the worker the request is no   *)
(* more than an item that appears.  What is said of the worker holds as    *)
(* long as the product of calculateBackoff fits a time.Duration: the run   *)
(* worker_overflow shows what becomes of BackoffAsDocumented when it does  *)
(* not.                                                                    *)
(***************************************************************************)
EXTENDS Linking, FiniteSetLemmas

-----------------------------------------------------------------------------
(* The worker.                                                             *)

(* Attempts are few enough for calculateBackoff (sync_worker.go:161).      *)
NoOverflow == \A a \in 0..MaxAttempts : MinBackoff * 2^a \in 0..MaxDuration

(* calculateBackoff has one value then, the documented one.                *)
LEMMA BackoffExact ==
    ASSUME NoOverflow, NEW a \in 0..MaxAttempts
    PROVE  /\ calculateBackoff(a) = {Min({MinBackoff * 2^a, MaxBackoff})}
           /\ Min({MinBackoff * 2^a, MaxBackoff}) \in 0..MaxBackoff
<1> DEFINE f == MinBackoff * 2^a
<1>1. f \in 0..MaxDuration
  BY DEF NoOverflow
<1> HIDE DEF f
<1>2. f \in Int /\ f >= 0 /\ f <= MaxDuration /\ MaxBackoff \in Nat
  BY <1>1, WorkerAssumption
<1>3. Duration(f) = {f}
  BY <1>2 DEF Duration
<1>4. Min({f, MaxBackoff}) = Capped(f)
  BY <1>2, MinOfTwo DEF Capped
<1>5. Capped(f) \in 0..MaxBackoff
  BY <1>2 DEF Capped
<1>6. {Capped(d) : d \in Duration(f)} = {Min({f, MaxBackoff})}
  BY <1>3, <1>4
<1> QED
  BY <1>4, <1>5, <1>6 DEF calculateBackoff, f

IInv == TypeOK /\ BackoffAsDocumented

LEMMA InitIInv == Init => IInv
<1> SUFFICES ASSUME Init PROVE IInv
  OBVIOUS
<1>1. cache \subseteq SUBSET active /\ todo \subseteq active
  BY DEF Init
<1>2. attempt \in 0..MaxAttempts /\ delay \in (-MaxDuration - 1)..MaxBackoff
  BY WorkerAssumption DEF Init
<1> QED
  BY <1>1, <1>2 DEF Init, IInv, TypeOK, BackoffAsDocumented

LEMMA CycleIInv == ASSUME IInv, Cycle PROVE IInv'
<1> USE WorkerAssumption DEF IInv, TypeOK, BackoffAsDocumented, requester
<1>1. CASE QueryItems
  BY <1>1 DEF QueryItems
<1>2. CASE QueryCached
  BY <1>2 DEF QueryCached
<1>3. CASE QueryFails
  BY <1>3 DEF QueryFails
<1>4. CASE NextItem
  BY <1>4 DEF NextItem
<1>5. CASE EndCycle
  BY <1>5 DEF EndCycle
<1>6. CASE NextCycle
  BY <1>6 DEF NextCycle
<1>7. CASE Stop
  BY <1>7 DEF Stop
<1> QED
  BY <1>1, <1>2, <1>3, <1>4, <1>5, <1>6, <1>7 DEF Cycle

LEMMA SyncItemIInv == ASSUME NoOverflow, IInv, SyncItem PROVE IInv'
<1> USE WorkerAssumption DEF IInv, TypeOK, BackoffAsDocumented, requester
<1>1. CASE CallSync
  BY <1>1 DEF CallSync
<1>2. ASSUME Return PROVE IInv'
  BY <1>2 DEF Return
<1>3. CASE ReturnCancelled
  BY <1>2, <1>3 DEF ReturnCancelled
<1>4. ASSUME NEW i \in Items, SyncSucceeds(i) PROVE IInv'
  BY <1>2, <1>4 DEF SyncSucceeds
<1>5. CASE SyncFails
  <2>1. /\ delay' = Min({MinBackoff * 2^attempt, MaxBackoff})
        /\ delay' \in 0..MaxBackoff
    BY <1>5, BackoffExact DEF SyncFails
  <2>2. delay' \in (-MaxDuration - 1)..MaxBackoff
    BY <2>1
  <2> QED
    BY <1>5, <2>1, <2>2 DEF SyncFails
<1>6. CASE Retry
  <2>1. attempt' \in 0..MaxAttempts
    BY <1>6, MinOfTwo DEF Retry
  <2> QED
    BY <1>6, <2>1 DEF Retry
<1> QED
  BY <1>1, <1>3, <1>4, <1>5, <1>6 DEF SyncItem

LEMMA NextIInv == ASSUME NoOverflow, IInv, [Next]_vars PROVE IInv'
<1>1. CASE Environment
  BY <1>1 DEF Environment, LinkItem, Tick, Cancel, IInv, TypeOK,
     BackoffAsDocumented, worker, requester
<1>2. CASE Request
  BY <1>2 DEF Request, SyncAllUserItems, SyncOne, RequestReturns, IInv, TypeOK,
     BackoffAsDocumented, worker
<1>3. CASE UNCHANGED vars
  BY <1>3 DEF IInv, TypeOK, BackoffAsDocumented, vars, worker, requester
<1> QED
  BY <1>1, <1>2, <1>3, CycleIInv, SyncItemIInv DEF Next

(* The types hold in every reachable state: syncItemWithRetry's locals     *)
(* exist in its calls only, and its counter begins anew in each.           *)
THEOREM TypeCorrect == ASSUME NoOverflow PROVE Spec => []TypeOK
<1>1. IInv => TypeOK
  BY DEF IInv
<1>2. IInv /\ [Next]_vars => IInv'
  BY NextIInv
<1> QED
  BY <1>1, <1>2, InitIInv, PTL DEF Spec

(* As long as the products fit, the worker waits min * 2^attempt, capped   *)
(* at max (sync_worker.go:160), before each attempt.                       *)
THEOREM BackoffCorrect == ASSUME NoOverflow PROVE Spec => []BackoffAsDocumented
<1>1. IInv => BackoffAsDocumented
  BY DEF IInv
<1>2. IInv /\ [Next]_vars => IInv'
  BY NextIInv
<1> QED
  BY <1>1, <1>2, InitIInv, PTL DEF Spec

-----------------------------------------------------------------------------
(* How the worker and a request come to an end.                            *)

(* Whatever the worker has loaded are items, and a request that does not   *)
(* run has none left.                                                      *)
ItemsKnown ==
    /\ active \subseteq Items /\ cache \subseteq SUBSET Items
    /\ todo \subseteq Items
    /\ request \in {"idle", "loop"}
    /\ request = "idle" => rtodo = {}

LEMMA InitItems == Init => ItemsKnown
BY DEF Init, ItemsKnown

LEMMA NextItems == ASSUME ItemsKnown, [Next]_vars PROVE ItemsKnown'
<1> USE DEF ItemsKnown, worker, requester
<1>1. CASE Environment \/ UNCHANGED vars
  BY <1>1 DEF Environment, LinkItem, Tick, Cancel, vars
<1>2. CASE QueryItems \/ QueryCached \/ QueryFails
  BY <1>2 DEF QueryItems, QueryCached, QueryFails
<1>3. CASE NextItem \/ EndCycle \/ NextCycle \/ Stop
  BY <1>3 DEF NextItem, EndCycle, NextCycle, Stop
<1>4. CASE SyncItem
  BY <1>4 DEF SyncItem, CallSync, ReturnCancelled, Return, SyncSucceeds,
     SyncFails, Retry
<1>5. CASE Request
  BY <1>5 DEF Request, SyncAllUserItems, SyncOne, RequestReturns
<1> QED
  BY <1>1, <1>2, <1>3, <1>4, <1>5 DEF Next, Cycle

(* How many steps the loop over the items can have before it, once the     *)
(* context is cancelled: four for each item.                               *)
PlaceInItem == [next |-> 0, check |-> 1, backoff |-> 2, sync |-> 3]

InCycle == {"next", "check", "backoff", "sync"}

StepsLeft == 4 * Cardinality(todo) + PlaceInItem[pc]

(* After a cancellation the worker comes nearer to its end with each of    *)
(* its steps; only a tick that it finds beside the cancellation, when it   *)
(* waits for either, has it go through its items once more.                *)
NearsStop ==
    \/ UNCHANGED <<pc, todo>>
    \/ pc = "query" /\ pc' \in {"next", "wait"}
    \/ /\ pc \in InCycle /\ pc' \in InCycle
       /\ StepsLeft \in Nat /\ StepsLeft' < StepsLeft
    \/ pc = "next" /\ pc' = "wait"
    \/ pc = "wait" /\ pc' = "stopped"
    \/ pc = "wait" /\ tick /\ pc' = "query" /\ ~tick'

StopsOnceCancelled == [][cancelled => NearsStop]_vars

LEMMA SyncItemNears ==
    ASSUME ItemsKnown, IsFiniteSet(Items), cancelled, SyncItem
    PROVE  NearsStop
<1>1. Cardinality(todo) \in Nat
  BY FS_Subset, FS_CardinalityType DEF ItemsKnown
<1>2. /\ UNCHANGED todo
      /\ \/ pc \in {"check", "backoff", "sync"} /\ pc' = "next"
         \/ pc = "sync" /\ pc' = "backoff"
         \/ pc = "backoff" /\ pc' = "check"
  BY DEF SyncItem, CallSync, ReturnCancelled, Return, SyncSucceeds, SyncFails,
     Retry
<1>3. StepsLeft \in Nat /\ StepsLeft' < StepsLeft
  BY <1>1, <1>2 DEF StepsLeft, PlaceInItem
<1> QED
  BY <1>2, <1>3 DEF NearsStop, InCycle

LEMMA NextItemNears ==
    ASSUME ItemsKnown, IsFiniteSet(Items), NextItem
    PROVE  NearsStop
<1>1. PICK i \in todo : todo' = todo \ {i}
  BY DEF NextItem
<1>2. pc = "next" /\ pc' = "check"
  BY DEF NextItem
<1>3. IsFiniteSet(todo)
  BY FS_Subset DEF ItemsKnown
<1>4. /\ Cardinality(todo) \in Nat
      /\ Cardinality(todo') = Cardinality(todo) - 1
  BY <1>1, <1>3, FS_CardinalityType, FS_RemoveElement
<1>5. StepsLeft \in Nat /\ StepsLeft' < StepsLeft
  BY <1>2, <1>4 DEF StepsLeft, PlaceInItem
<1> QED
  BY <1>2, <1>5 DEF NearsStop, InCycle

(* A cancelled worker does not go on for ever, not even out of a retry     *)
(* that would never end by itself (sync_worker.go:119, 148): its steps run *)
(* out, unless the ticker gives it more of them.                           *)
THEOREM CancelledRunsOut ==
    ASSUME IsFiniteSet(Items)
    PROVE  Spec => StopsOnceCancelled
<1>1. ASSUME ItemsKnown, [Next]_vars, cancelled
      PROVE  NearsStop
  <2>1. CASE Environment \/ Request \/ UNCHANGED vars
    BY <2>1 DEF Environment, LinkItem, Tick, Cancel, Request,
       SyncAllUserItems, SyncOne, RequestReturns, vars, worker, NearsStop
  <2>2. CASE \/ QueryItems \/ QueryCached \/ QueryFails \/ EndCycle
             \/ NextCycle \/ Stop
    BY <2>2 DEF QueryItems, QueryCached, QueryFails, EndCycle, NextCycle,
       Stop, NearsStop
  <2> QED
    BY <1>1, <2>1, <2>2, SyncItemNears, NextItemNears DEF Next, Cycle
<1> QED
  BY <1>1, InitItems, NextItems, PTL DEF Spec, StopsOnceCancelled

(* An item that a request has loaded stays before it or is tried, and the  *)
(* request does not return before.                                         *)
LoadedStays ==
    \A i \in rtodo : i \in rtodo' \/ (i \in tried' /\ request' = "loop")

KeepsItsItems == [][LoadedStays]_vars

(* No failure and no step of the worker makes a request forget an item     *)
(* (sync_service.go:142).                                                  *)
THEOREM RequestForgetsNone == Spec => KeepsItsItems
<1>1. ASSUME ItemsKnown, [Next]_vars, NEW i \in rtodo
      PROVE  i \in rtodo' \/ (i \in tried' /\ request' = "loop")
  <2>1. request = "loop"
    BY <1>1 DEF ItemsKnown
  <2>2. CASE Request
    BY <1>1, <2>1, <2>2 DEF Request, SyncAllUserItems, SyncOne, RequestReturns
  <2>3. CASE Environment \/ Cycle \/ UNCHANGED vars
    BY <1>1, <2>3 DEF Environment, LinkItem, Tick, Cancel, Cycle, QueryItems,
       QueryCached, QueryFails, NextItem, EndCycle, NextCycle, Stop, vars,
       requester
  <2>4. CASE SyncItem
    BY <1>1, <2>4 DEF SyncItem, CallSync, ReturnCancelled, Return,
       SyncSucceeds, SyncFails, Retry, requester
  <2> QED
    BY <1>1, <2>2, <2>3, <2>4 DEF Next
<1>2. ItemsKnown /\ [Next]_vars => LoadedStays
  BY <1>1 DEF LoadedStays
<1> QED
  BY <1>2, InitItems, NextItems, PTL DEF Spec, KeepsItsItems

-----------------------------------------------------------------------------
(* The request that links an item.                                         *)

LinkType ==
    /\ link \in [Items -> {"none", "accounts", "commit", "linked", "failed"}]
    /\ inserted \in [Items -> Nat]
    /\ accounts \in [Items -> Nat]
    /\ active \subseteq Items

LinkInv == LinkType /\ LinkWhole

LEMMA InitLink == LinkingInit => LinkInv
<1> SUFFICES ASSUME LinkingInit PROVE LinkInv
  OBVIOUS
<1>1. active \subseteq Items /\ NumAccounts \in Nat
  BY LinkingAssumption DEF LinkingInit, Init
<1>2. LinkType
  BY <1>1 DEF LinkingInit, LinkType
<1>3. LinkWhole
  BY DEF LinkingInit, LinkWhole
<1> QED
  BY <1>2, <1>3 DEF LinkInv

(* The worker and the requests link nothing.                               *)
LEMMA WorkerKeepsActive ==
    ASSUME WorkerStep
    PROVE  Next /\ UNCHANGED active
<1>1. ASSUME Tick \/ Cancel \/ Cycle \/ Request
      PROVE  UNCHANGED active
  BY <1>1 DEF Tick, Cancel, Cycle, QueryItems, QueryCached, QueryFails,
     NextItem, EndCycle, NextCycle, Stop, Request, SyncAllUserItems, SyncOne,
     RequestReturns
<1>2. ASSUME CallSync \/ ReturnCancelled \/ SyncFails \/ Retry
      PROVE  UNCHANGED active
  BY <1>2 DEF CallSync, ReturnCancelled, Return, SyncFails, Retry
<1>3. ASSUME NEW i \in Items, SyncFinds(i)
      PROVE  SyncSucceeds(i) /\ UNCHANGED active
  BY <1>3 DEF SyncFinds, SyncSucceeds, Return
<1> QED
  BY <1>1, <1>2, <1>3 DEF WorkerStep, Next, Environment, SyncItem

(* A step of a link is unseen by the worker, or makes an item visible that *)
(* was not before, with all its accounts.                                  *)
LEMMA LinkStepEffect ==
    ASSUME LinkInv, NEW i \in Items, LinkStep(i)
    PROVE  LinkInv' /\ (UNCHANGED vars \/ LinkItem)
<1> USE DEF LinkInv, LinkType
<1>1. CASE InsertItem(i)
  <2>1. UNCHANGED vars /\ UNCHANGED <<active, inserted, accounts>>
    BY <1>1 DEF InsertItem, vars
  <2> QED
    BY <1>1, <2>1 DEF InsertItem, LinkGoesTo, LinkWhole
<1>2. CASE InsertAccount(i)
  <2>1. UNCHANGED vars /\ UNCHANGED <<active, link, accounts>>
    BY <1>2 DEF InsertAccount, vars
  <2> QED
    BY <1>2, <2>1 DEF InsertAccount, LinkWhole
<1>3. CASE StartFirstSync(i)
  <2>1. UNCHANGED vars /\ UNCHANGED <<active, inserted, accounts>>
    BY <1>3 DEF StartFirstSync, vars
  <2> QED
    BY <1>3, <2>1 DEF StartFirstSync, LinkGoesTo, LinkWhole
<1>4. CASE CommitLink(i)
  <2>1. i \notin active /\ inserted[i] = NumAccounts
    BY <1>4 DEF CommitLink, LinkWhole
  <2>2. LinkItem
    BY <1>4, <2>1 DEF CommitLink, LinkItem
  <2>3. LinkInv'
    BY <1>4, <2>1 DEF CommitLink, LinkGoesTo, LinkWhole
  <2> QED
    BY <2>2, <2>3
<1>5. CASE LinkFails(i)
  <2>1. UNCHANGED vars /\ UNCHANGED <<active, accounts>>
    BY <1>5 DEF LinkFails, vars
  <2>2. i \notin active
    BY <1>5 DEF LinkFails, LinkWhole
  <2> QED
    BY <1>5, <2>1, <2>2 DEF LinkFails, LinkGoesTo, LinkWhole
<1>6. CASE FirstSyncFinds(i) \/ FirstSyncMisses(i) \/ MissingExpires(i)
  <2>1. UNCHANGED vars /\ UNCHANGED <<active, link, inserted, accounts>>
    BY <1>6 DEF FirstSyncFinds, FirstSyncMisses, MissingExpires, vars
  <2> QED
    BY <2>1 DEF LinkWhole
<1> QED
  BY <1>1, <1>2, <1>3, <1>4, <1>5, <1>6 DEF LinkStep

LEMMA NextLink ==
    ASSUME LinkInv, [LinkingNext]_allVars
    PROVE  LinkInv' /\ [Next]_vars
<1>1. CASE WorkerStep /\ UNCHANGED links
  BY <1>1, WorkerKeepsActive DEF links, LinkInv, LinkType, LinkWhole
<1>2. ASSUME NEW i \in Items, LinkStep(i)
      PROVE  LinkInv' /\ [Next]_vars
  BY <1>2, LinkStepEffect DEF Next, Environment
<1>3. CASE UNCHANGED allVars
  <2>1. UNCHANGED vars /\ UNCHANGED links
    BY <1>3 DEF allVars
  <2>2. UNCHANGED active
    BY <2>1 DEF vars
  <2> QED
    BY <2>1, <2>2 DEF links, LinkInv, LinkType, LinkWhole
<1> QED
  BY <1>1, <1>2, <1>3 DEF LinkingNext

(* An item is visible with all of its accounts or not at all.              *)
THEOREM LinksWhole == LinkingSpec => []LinkWhole
<1>1. LinkInv /\ [LinkingNext]_allVars => LinkInv'
  BY NextLink
<1>2. LinkInv => LinkWhole
  BY DEF LinkInv
<1> QED
  BY <1>1, <1>2, InitLink, PTL DEF LinkingSpec

(* Linking, with its goroutine and its cache, implements the environment   *)
(* that SyncWorker assumes.                                                *)
THEOREM LinkingImplementsWorker == LinkingSpec => ImplementsWorker
<1>1. LinkInv /\ [LinkingNext]_allVars => LinkInv' /\ [Next]_vars
  BY NextLink
<1>2. LinkingInit => Init
  BY DEF LinkingInit
<1> QED
  BY <1>1, <1>2, InitLink, PTL DEF LinkingSpec, ImplementsWorker, Spec

(* Hence what is proved of the worker holds with the requests that link.   *)
THEOREM LinkingTyped == ASSUME NoOverflow PROVE LinkingSpec => []TypeOK
  BY LinkingImplementsWorker, TypeCorrect, PTL DEF ImplementsWorker

(* So does what is proved of its pauses: an item the cache calls missing   *)
(* is waited for like any other that fails.                                *)
THEOREM LinkingBackoff ==
    ASSUME NoOverflow PROVE LinkingSpec => []BackoffAsDocumented
  BY LinkingImplementsWorker, BackoffCorrect, PTL DEF ImplementsWorker
=============================================================================
