----------------------------- MODULE SyncWorker -----------------------------
(***************************************************************************)
(* Who starts syncs: the worker of                                         *)
(* api/server/services/plaid/sync_worker.go, which goes over all active    *)
(* items again and again and repeats a failed one until it succeeds, and   *)
(* the requests that go over the items of one user                         *)
(* (SyncService.SyncAllUserItems).  What a sync does is in SyncService;    *)
(* here it succeeds or fails.                                              *)
(*                                                                         *)
(* Time is not modelled: a timer fires some time after it was set.  Delays *)
(* are numbers, with the width of time.Duration as a parameter.            *)
(***************************************************************************)
EXTENDS Integers, FiniteSetsExt

CONSTANTS
    Items,        \* the items that may be linked
    UserItems,    \* those of the user whose requests are modelled
    Broken,       \* those whose syncs fail, always
    NoItem,
    MinBackoff,   \* w.minBackoff
    MaxBackoff,   \* w.maxBackoff
    MaxDuration,  \* the largest time.Duration
    MaxAttempts   \* bound: from here on attempt is not counted any further

ASSUME WorkerAssumption ==
    /\ UserItems \subseteq Items /\ Broken \subseteq Items
    /\ NoItem \notin Items
    /\ MinBackoff \in Nat \ {0}
    /\ MaxBackoff \in Nat /\ MinBackoff <= MaxBackoff
    /\ MaxDuration \in Nat /\ MaxBackoff <= MaxDuration
    /\ MaxAttempts \in Nat \ {0}

VARIABLES
    active,     \* table items: the active ones
    cache,      \* the cached answers to the worker's query, at most one
    cancelled,  \* the server's context is
    tick,       \* the channel of the ticker holds a tick
    pc,         \* the statement the worker executes next
    todo,       \* items the cycle has not come to
    item,       \* argument of syncItemWithRetry
    attempt,    \* its counter
    delay,      \* its variable backoff
    request,    \* what the user's request does
    rtodo,      \* items its loop has not come to
    tried       \* those it has called SyncItemTransactions for

worker == <<pc, todo, item, attempt, delay>>
requester == <<request, rtodo, tried>>
vars == <<active, cache, cancelled, tick, worker, requester>>

(* Start runs a cycle before it waits for the first tick.                  *)
Init ==
    /\ active \in SUBSET Items
    /\ cache = {}
    /\ cancelled = FALSE
    /\ tick = FALSE
    /\ pc = "query"
    /\ todo = {}
    /\ item = NoItem
    /\ attempt = 0
    /\ delay = 0
    /\ request = "idle"
    /\ rtodo = {}
    /\ tried = {}

-----------------------------------------------------------------------------
(* The surroundings.                                                       *)

LinkItem ==
    /\ \E i \in Items \ active : active' = active \cup {i}
    /\ UNCHANGED <<cache, cancelled, tick, worker, requester>>

(* A tick that finds the channel full is dropped.                          *)
Tick ==
    /\ ~tick
    /\ pc # "stopped"
    /\ tick' = TRUE
    /\ UNCHANGED <<active, cache, cancelled, worker, requester>>

Cancel ==
    /\ ~cancelled
    /\ cancelled' = TRUE
    /\ UNCHANGED <<active, cache, tick, worker, requester>>

-----------------------------------------------------------------------------
(* Start and runSyncCycle.                                                 *)

QueryItems ==
    /\ pc = "query"
    /\ cache' = {active}
    /\ todo' = active
    /\ pc' = "next"
    /\ UNCHANGED <<active, cancelled, tick, item, attempt, delay, requester>>

QueryCached ==
    /\ pc = "query"
    /\ \E items \in cache : todo' = items
    /\ pc' = "next"
    /\ UNCHANGED <<active, cache, cancelled, tick, item, attempt, delay,
                   requester>>

QueryFails ==
    /\ pc = "query"
    /\ pc' = "wait"
    /\ UNCHANGED <<active, cache, cancelled, tick, todo, item, attempt, delay,
                   requester>>

NextItem ==
    /\ pc = "next"
    /\ \E i \in todo : item' = i /\ todo' = todo \ {i}
    /\ attempt' = 0
    /\ pc' = "check"
    /\ UNCHANGED <<active, cache, cancelled, tick, delay, requester>>

EndCycle ==
    /\ pc = "next"
    /\ todo = {}
    /\ pc' = "wait"
    /\ UNCHANGED <<active, cache, cancelled, tick, todo, item, attempt, delay,
                   requester>>

NextCycle ==
    /\ pc = "wait"
    /\ tick
    /\ tick' = FALSE
    /\ pc' = "query"
    /\ UNCHANGED <<active, cache, cancelled, todo, item, attempt, delay,
                   requester>>

\* Mutant: a tick that is there comes first.
StopWhenIdle ==
    /\ pc = "wait"
    /\ cancelled
    /\ ~tick
    /\ pc' = "stopped"
    /\ UNCHANGED <<active, cache, cancelled, tick, todo, item, attempt, delay,
                   requester>>

Stop ==
    /\ pc = "wait"
    /\ cancelled
    /\ pc' = "stopped"
    /\ UNCHANGED <<active, cache, cancelled, tick, todo, item, attempt, delay,
                   requester>>

-----------------------------------------------------------------------------
(* syncItemWithRetry.                                                      *)

(* It returns to the loop of the cycle.                                    *)
Return ==
    /\ item' = NoItem
    /\ attempt' = 0
    /\ delay' = 0
    /\ pc' = "next"
    /\ UNCHANGED <<active, cache, cancelled, tick, todo, requester>>

CallSync ==
    /\ pc = "check"
    /\ ~cancelled
    /\ pc' = "sync"
    /\ UNCHANGED <<active, cache, cancelled, tick, todo, item, attempt, delay,
                   requester>>

(* Seen before an attempt, or while it waits for the next.                 *)
ReturnCancelled ==
    /\ pc \in {"check", "backoff"}
    /\ cancelled
    /\ Return

\* Mutant: the counter outlives the call.
SyncSucceedsKeepsAttempt(i) ==
    /\ pc = "sync"
    /\ item = i
    /\ i \notin Broken
    /\ item' = NoItem
    /\ delay' = 0
    /\ pc' = "next"
    /\ UNCHANGED <<active, cache, cancelled, tick, todo, attempt, requester>>

SyncSucceeds(i) ==
    /\ pc = "sync"
    /\ item = i
    /\ i \notin Broken
    /\ Return

(* time.Duration(f) of a floating-point number: what does not fit becomes  *)
(* the largest or the smallest integer, as the processor has it.           *)
Duration(f) ==
    IF f <= MaxDuration THEN {f} ELSE {MaxDuration, -MaxDuration - 1}

Capped(d) == IF d > MaxBackoff THEN MaxBackoff ELSE d

\* Mutant: compared before it is multiplied.
calculateBackoffUncapped(a) == Duration(Capped(MinBackoff) * 2^a)

calculateBackoff(a) == {Capped(d) : d \in Duration(MinBackoff * 2^a)}

SyncFails ==
    /\ pc = "sync"
    /\ delay' \in calculateBackoff(attempt)
    /\ pc' = "backoff"
    /\ UNCHANGED <<active, cache, cancelled, tick, todo, item, attempt,
                   requester>>

Retry ==
    /\ pc = "backoff"
    /\ attempt' = Min({attempt + 1, MaxAttempts})
    /\ pc' = "check"
    /\ UNCHANGED <<active, cache, cancelled, tick, todo, item, delay,
                   requester>>

-----------------------------------------------------------------------------
(* SyncAllUserItems, in a request.                                         *)

(* Items are linked and stay: an answer from the cache is a subset.        *)
SyncAllUserItems ==
    /\ request = "idle"
    /\ rtodo' \in SUBSET (active \cap UserItems)
    /\ tried' = {}
    /\ request' = "loop"
    /\ UNCHANGED <<active, cache, cancelled, tick, worker>>

\* Mutant: the request returns at the first failure.
SyncOneOrReturn ==
    /\ request = "loop"
    /\ \E i \in rtodo :
          /\ rtodo' = IF i \in Broken THEN {} ELSE rtodo \ {i}
          /\ tried' = tried \cup {i}
    /\ UNCHANGED <<active, cache, cancelled, tick, worker, request>>

(* A sync that fails is logged, and the loop goes on: both ends look alike *)
(* here.                                                                   *)
SyncOne ==
    /\ request = "loop"
    /\ \E i \in rtodo : rtodo' = rtodo \ {i} /\ tried' = tried \cup {i}
    /\ UNCHANGED <<active, cache, cancelled, tick, worker, request>>

RequestReturns ==
    /\ request = "loop"
    /\ rtodo = {}
    /\ request' = "idle"
    /\ UNCHANGED <<active, cache, cancelled, tick, worker, rtodo, tried>>

-----------------------------------------------------------------------------

Environment == LinkItem \/ Tick \/ Cancel

Cycle ==
    \/ QueryItems \/ QueryCached \/ QueryFails
    \/ NextItem \/ EndCycle \/ NextCycle \/ Stop

SyncItem ==
    \/ CallSync \/ ReturnCancelled
    \/ \E i \in Items : SyncSucceeds(i)
    \/ SyncFails \/ Retry

Request == SyncAllUserItems \/ SyncOne \/ RequestReturns

Next == Environment \/ Cycle \/ SyncItem \/ Request

(* Go schedules the worker and the request, the ticker ticks.  A select    *)
(* with two ready cases takes each of them some time; the cached answer    *)
(* expires between two cycles; and an item that is not broken is synced    *)
(* some time, if it is tried again and again.                              *)
WorkerFairness ==
    /\ WF_vars(Tick)
    /\ WF_vars(Cycle)
    /\ WF_vars(SyncItem)
    /\ WF_vars(SyncOne)
    /\ WF_vars(RequestReturns)
    /\ SF_vars(Stop)
    /\ SF_vars(ReturnCancelled)
    /\ SF_vars(QueryItems)

Fairness == WorkerFairness /\ \A i \in Items : SF_vars(SyncSucceeds(i))

Spec == Init /\ [][Next]_vars
FairSpec == Spec /\ Fairness

-----------------------------------------------------------------------------
(* Properties.                                                             *)

(* The types of the variables; syncItemWithRetry's locals exist only in a  *)
(* call of it, and the counter begins anew in each.                        *)
TypeOK ==
    /\ active \subseteq Items
    /\ cache \subseteq SUBSET active /\ cancelled \in BOOLEAN
    /\ tick \in BOOLEAN
    /\ pc \in {"query", "next", "check", "sync", "backoff", "wait", "stopped"}
    /\ todo \subseteq active
    /\ item \in active \cup {NoItem}
    /\ attempt \in 0..MaxAttempts
    /\ delay \in (-MaxDuration - 1)..MaxBackoff
    /\ request \in {"idle", "loop"}
    /\ rtodo \subseteq UserItems /\ tried \subseteq UserItems
    /\ item # NoItem <=> pc \in {"check", "sync", "backoff"}
    /\ item = NoItem => attempt = 0 /\ delay = 0

(* "Exponential backoff: min * 2^attempt, capped at max"                   *)
(* (sync_worker.go:160), whenever the worker waits to try again.           *)
BackoffAsDocumented ==
    pc = "backoff" => delay = Min({MinBackoff * 2^attempt, MaxBackoff})

(* An item that can be synced is, again and again, unless the worker stays *)
(* with a broken one for good: that is what the code keeps of "one         *)
(* complete sync cycle for all active items" (sync_worker.go:58).  An item *)
(* linked during a cycle or behind a cached answer is not forgotten.       *)
SyncedUnlessStuck ==
    \A i \in Items \ Broken :
        <>(i \in active) =>
            \/ <>cancelled
            \/ []<><<SyncSucceeds(i)>>_vars
            \/ <>[](item \in Broken)

(* The worker ends after the server's context is cancelled, also out of a  *)
(* retry that would never end by itself (sync_worker.go:49, 119, 148).     *)
StopsWhenCancelled == cancelled ~> pc = "stopped"

(* A request reaches each of the items it has loaded, whatever fails       *)
(* before it ("Continue with other items", sync_service.go:142), and       *)
(* whatever the worker hangs on.                                           *)
RequestReachesAll == \A i \in Items : i \in rtodo ~> i \in tried
=============================================================================
