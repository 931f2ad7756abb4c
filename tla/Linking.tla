------------------------------ MODULE Linking ------------------------------
(***************************************************************************)
(* How an item comes to the worker of SyncWorker: ExchangeToken of         *)
(* api/server/handlers/plaid/exchange_token.go.  The request asks Plaid,   *)
(* inserts the item and its accounts in a database transaction, starts a   *)
(* first sync in a goroutine of its own and returns; a deferred function   *)
(* commits after that.  The first sync may therefore look for the item     *)
(* before it is visible, and the cache remembers that there is none.       *)
(***************************************************************************)
EXTENDS SyncWorker

CONSTANT NumAccounts   \* accounts of an item

ASSUME LinkingAssumption == NumAccounts \in Nat

VARIABLES
    link,      \* the statement of the request that links an item
    inserted,  \* accounts its open database transaction has inserted
    accounts,  \* table accounts: how many an item has
    firstSync, \* the goroutine of a link
    missing    \* items of which the cache says that there is none

links == <<link, inserted, accounts, firstSync, missing>>
allVars == <<vars, links>>

LinkingInit ==
    /\ Init
    /\ link = [i \in Items |-> IF i \in active THEN "linked" ELSE "none"]
    /\ inserted = [i \in Items |-> 0]
    /\ accounts = [i \in Items |-> IF i \in active THEN NumAccounts ELSE 0]
    /\ firstSync = [i \in Items |-> "none"]
    /\ missing = {}

LinkGoesTo(i, at) == link' = [link EXCEPT ![i] = at]

(* Plaid has answered both calls; the item is inserted.  A failure before  *)
(* changes nothing here.                                                   *)
InsertItem(i) ==
    /\ link[i] = "none"
    /\ LinkGoesTo(i, "accounts")
    /\ UNCHANGED <<vars, inserted, accounts, firstSync, missing>>

InsertAccount(i) ==
    /\ link[i] = "accounts"
    /\ inserted[i] < NumAccounts
    /\ inserted' = [inserted EXCEPT ![i] = @ + 1]
    /\ UNCHANGED <<vars, link, accounts, firstSync, missing>>

StartFirstSync(i) ==
    /\ link[i] = "accounts"
    /\ inserted[i] = NumAccounts
    /\ LinkGoesTo(i, "commit")
    /\ firstSync' = [firstSync EXCEPT ![i] = "load"]
    /\ UNCHANGED <<vars, inserted, accounts, missing>>

CommitLink(i) ==
    /\ link[i] = "commit"
    /\ active' = active \cup {i}
    /\ accounts' = [accounts EXCEPT ![i] = inserted[i]]
    /\ inserted' = [inserted EXCEPT ![i] = 0]
    /\ LinkGoesTo(i, "linked")
    /\ UNCHANGED <<cache, cancelled, tick, worker, requester, firstSync,
                   missing>>

(* A statement or the commit fails, or the server crashes: nothing of the  *)
(* database transaction remains.  Plaid's item does, unrecorded.           *)
LinkFails(i) ==
    /\ link[i] \in {"accounts", "commit"}
    /\ inserted' = [inserted EXCEPT ![i] = 0]
    /\ LinkGoesTo(i, "failed")
    /\ UNCHANGED <<vars, accounts, firstSync, missing>>

\* Mutant: an item whose first sync fails is made inactive.
FirstSyncDeactivates(i) ==
    /\ firstSync[i] = "load"
    /\ i \in active
    /\ firstSync' = [firstSync EXCEPT ![i] = "found"]
    /\ active' = active \ {i}
    /\ UNCHANGED <<cache, cancelled, tick, worker, requester, link, inserted,
                   accounts, missing>>

(* SyncItemTransactions in the goroutine: its query finds the item, and    *)
(* the sync succeeds or fails without being tried again, ...               *)
FirstSyncFinds(i) ==
    /\ firstSync[i] = "load"
    /\ i \in active
    /\ firstSync' = [firstSync EXCEPT ![i] = "found"]
    /\ UNCHANGED <<vars, link, inserted, accounts, missing>>

(* ... or it finds none, and the cache keeps that answer.                  *)
FirstSyncMisses(i) ==
    /\ firstSync[i] = "load"
    /\ i \notin active
    /\ firstSync' = [firstSync EXCEPT ![i] = "missed"]
    /\ missing' = missing \cup {i}
    /\ UNCHANGED <<vars, link, inserted, accounts>>

\* Mutant: an empty answer is kept for good.
MissingIsKept(i) == FALSE

(* 30 seconds later.                                                       *)
MissingExpires(i) ==
    /\ i \in missing
    /\ missing' = missing \ {i}
    /\ UNCHANGED <<vars, link, inserted, accounts, firstSync>>

LinkStep(i) ==
    \/ InsertItem(i) \/ InsertAccount(i) \/ StartFirstSync(i)
    \/ CommitLink(i) \/ LinkFails(i)
    \/ FirstSyncFinds(i) \/ FirstSyncMisses(i) \/ MissingExpires(i)

-----------------------------------------------------------------------------
(* The worker and the requests of SyncWorker: while the cache has an item  *)
(* for missing, SyncItemTransactions fails at once.                        *)

SyncFinds(i) == i \notin missing /\ SyncSucceeds(i)

WorkerStep ==
    \/ Tick \/ Cancel \/ Cycle \/ Request
    \/ CallSync \/ ReturnCancelled \/ SyncFails \/ Retry
    \/ \E i \in Items : SyncFinds(i)

LinkingNext ==
    \/ WorkerStep /\ UNCHANGED links
    \/ \E i \in Items : LinkStep(i)

(* That of SyncWorker, and the cache forgets.                              *)
LinkingFairness ==
    /\ WorkerFairness
    /\ \A i \in Items :
          WF_allVars(MissingExpires(i)) /\ SF_vars(SyncFinds(i))

LinkingSpec == LinkingInit /\ [][LinkingNext]_allVars
FairLinkingSpec == LinkingSpec /\ LinkingFairness

-----------------------------------------------------------------------------
(* Properties.                                                             *)

(* An item is visible to the worker with all of its accounts or not at     *)
(* all, whatever fails while it is linked (exchange_token.go:44-106).      *)
LinkWhole ==
    \A i \in Items :
        /\ accounts[i] = IF i \in active THEN NumAccounts ELSE 0
        /\ link[i] = "linked" <=> i \in active
        /\ link[i] = "commit" => inserted[i] = NumAccounts

(* To the worker all this is an item that appears and syncs that succeed   *)
(* or fail.                                                                *)
ImplementsWorker == Spec
=============================================================================
