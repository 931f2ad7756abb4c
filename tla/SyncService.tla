---------------------------- MODULE SyncService ----------------------------
(***************************************************************************)
(* SyncService of api/server/services/plaid/sync_service.go: one bank      *)
(* link (an item), its sync cursor and its transactions.                   *)
(*                                                                         *)
(* A sync is one call of SyncItemTransactions: by the background worker,   *)
(* by a request, or by the goroutine a new link starts.  Nothing keeps two *)
(* of them from working on one item at a time.  A step is one statement    *)
(* sent to the database or one request to Plaid.                           *)
(*                                                                         *)
(* Plaid keeps a log of what happened to the item's transactions; a cursor *)
(* is a position in it.  The item's row is there and never changes.  The   *)
(* rule engine is reduced to what concerns the transactions: it may save   *)
(* for the row it finds (RuleEngine models the engine itself).             *)
(***************************************************************************)
EXTENDS Integers, Sequences, FiniteSets, FiniteSetsExt

CONSTANTS
    Syncs,       \* concurrent calls of SyncItemTransactions
    Txs,         \* Plaid's transaction identifiers
    RowIds,      \* identities of the rows of table transactions
    PageSize,    \* events Plaid answers at most at once
    Faults,      \* what may fail: "plaid", "database", "row"
    None,        \* no row
    MaxLog,      \* bound on Plaid's log
    MaxFailures, \* bound on the failures counted
    MaxCrashes   \* bound on the deaths of the process

ASSUME BoundsAssumption ==
    /\ PageSize \in Nat \ {0}
    /\ MaxLog \in Nat /\ MaxFailures \in Nat /\ MaxCrashes \in Nat

VARIABLES
    log,        \* Plaid's log of the item
    rows,       \* table transactions, by its unique column plaid_id
    executions, \* the transactions a rule has saved for, with their rows
    cursorRow,  \* the item's row of table sync_cursors
    cache,      \* entcache: {} or the answer to the query of that row
    balance,    \* the log's length when the stored balances were read
    handled,    \* events some sync has dealt with (no variable of the code)
    crashes,    \* deaths of the process so far
    pc,         \* the statement or request a sync sends next
    cur,        \* local variable currentCursor
    todo,       \* the events of the page not dealt with yet
    end,        \* result.Cursor
    more,       \* result.HasMore
    seen,       \* the balances GetAccounts returned
    failures    \* consecutive failures read by recordSyncError

store == <<rows, executions, cursorRow, balance>>
locals == <<pc, cur, todo, end, more, seen, failures>>
vars == <<log, rows, executions, cursorRow, cache, balance, handled, crashes,
          pc, cur, todo, end, more, seen, failures>>

(* An event of pending FALSE is a transaction the bank has settled.        *)
Event == [op : {"added", "modified", "removed"}, tx : Txs, pending : BOOLEAN]

Row == [id : RowIds, event : Nat]

CursorRow == [cursor : Nat, failures : Nat]

(* The marker is no row.                                                   *)
ASSUME MarkerAssumption == None \notin Row /\ None \notin CursorRow

Labels == {"idle", "cursor", "create", "fetch", "row", "engine", "balances",
           "accounts", "success", "error", "failure"}

(* The last event of a transaction among the first c of the log, or 0.     *)
Upto(t, c) == Max({0} \cup {e \in 1..c : log[e].tx = t})

\* Mutant: the removed transactions are processed first.
RankRemovedFirst(op) == CASE op = "removed" -> 0 [] op = "added" -> 1
                          [] op = "modified" -> 2
(* A page has three lists, processed one after the other.                  *)
Rank(op) == CASE op = "added" -> 1 [] op = "modified" -> 2
              [] op = "removed" -> 3

\* Mutant: the foreign key refers nowhere.
NeverReferenced(row) == FALSE
(* The foreign key of rule_executions.                                     *)
Referenced(row) == \E x \in executions : x.row = row.id

UnusedRowIds ==
    RowIds \ ({rows[t].id : t \in {s \in Txs : rows[s] # None}} \cup
              {x.row : x \in executions})

-----------------------------------------------------------------------------
Init ==
    /\ log = <<>>
    /\ rows = [t \in Txs |-> None]
    /\ executions = {}
    /\ cursorRow = None
    /\ cache = {}
    /\ balance = 0
    /\ handled = {}
    /\ crashes = 0
    /\ pc = [p \in Syncs |-> "idle"]
    /\ cur = [p \in Syncs |-> 0]
    /\ todo = [p \in Syncs |-> {}]
    /\ end = [p \in Syncs |-> 0]
    /\ more = [p \in Syncs |-> FALSE]
    /\ seen = [p \in Syncs |-> 0]
    /\ failures = [p \in Syncs |-> 0]

Goto(p, label) == pc' = [pc EXCEPT ![p] = label]

(* The locals go out of scope.                                             *)
Return(p) ==
    /\ Goto(p, "idle")
    /\ cur' = [cur EXCEPT ![p] = 0]
    /\ todo' = [todo EXCEPT ![p] = {}]
    /\ end' = [end EXCEPT ![p] = 0]
    /\ more' = [more EXCEPT ![p] = FALSE]
    /\ seen' = [seen EXCEPT ![p] = 0]
    /\ failures' = [failures EXCEPT ![p] = 0]

(* One of the error returns that call recordSyncError first.               *)
Fail(p) ==
    /\ Goto(p, "error")
    /\ UNCHANGED <<log, store, cache, handled, crashes, cur, todo, end, more,
                   seen, failures>>

-----------------------------------------------------------------------------
(* Plaid: a transaction is added once, may be modified while it is there,  *)
(* and is removed once.                                                    *)

PlaidEvent(t) ==
    /\ Len(log) < MaxLog
    /\ \E op \in {"added", "modified", "removed"}, pending \in BOOLEAN :
          LET last == Upto(t, Len(log)) IN
          /\ op = "added" <=> last = 0
          /\ last # 0 => log[last].op # "removed"
          /\ op = "removed" => ~pending
          /\ log' = Append(log, [op |-> op, tx |-> t, pending |-> pending])
    /\ UNCHANGED <<store, cache, handled, crashes, locals>>

-----------------------------------------------------------------------------
(* SyncItemTransactions.                                                   *)

SyncItemTransactions(p) ==
    /\ pc[p] = "idle"
    /\ Goto(p, "cursor")
    /\ UNCHANGED <<log, store, cache, handled, crashes, cur, todo, end, more,
                   seen, failures>>

(* The query of the cursor's row is answered by the cache, which may be up *)
(* to 30 seconds behind, or by the database; that no row was found is an   *)
(* answer too.                                                             *)
GetCursor(p) ==
    /\ pc[p] = "cursor"
    /\ \E answer \in {cursorRow} \cup cache :
          /\ cache' = {answer}
          /\ IF answer = None
             THEN Goto(p, "create") /\ UNCHANGED cur
             ELSE /\ Goto(p, "fetch")
                  /\ cur' = [cur EXCEPT ![p] = answer.cursor]
    /\ UNCHANGED <<log, store, handled, crashes, todo, end, more, seen,
                   failures>>

(* item_id is unique: the insert fails when another sync was faster.       *)
CreateCursor(p) ==
    /\ pc[p] = "create"
    /\ IF cursorRow = None
       THEN /\ cursorRow' = [cursor |-> 0, failures |-> 0]
            /\ Goto(p, "fetch")
       ELSE /\ Goto(p, "error")
            /\ UNCHANGED cursorRow
    /\ UNCHANGED <<log, rows, executions, cache, balance, handled, crashes,
                   cur, todo, end, more, seen, failures>>

\* Mutant: the request does not carry the cursor.
FetchFromStart(p) ==
    LET k == Min({PageSize, Len(log)}) IN
    /\ pc[p] = "fetch"
    /\ end' = [end EXCEPT ![p] = k]
    /\ todo' = [todo EXCEPT ![p] = 1..k]
    /\ more' = [more EXCEPT ![p] = k < Len(log)]
    /\ Goto(p, "row")
    /\ UNCHANGED <<log, store, cache, handled, crashes, cur, seen, failures>>

\* Mutant: the cursor is saved with the answer, before the page's rows are.
FetchSavesCursor(p) ==
    LET k == Min({cur[p] + PageSize, Len(log)}) IN
    /\ pc[p] = "fetch"
    /\ end' = [end EXCEPT ![p] = k]
    /\ todo' = [todo EXCEPT ![p] = (cur[p] + 1)..k]
    /\ more' = [more EXCEPT ![p] = k < Len(log)]
    /\ cursorRow' = [cursorRow EXCEPT !.cursor = k]
    /\ Goto(p, "row")
    /\ UNCHANGED <<log, rows, executions, balance, cache, handled, crashes,
                   cur, seen, failures>>

(* Plaid answers a page of what the log holds behind the cursor.           *)
Fetch(p) ==
    LET k == Min({cur[p] + PageSize, Len(log)}) IN
    /\ pc[p] = "fetch"
    /\ end' = [end EXCEPT ![p] = k]
    /\ todo' = [todo EXCEPT ![p] = (cur[p] + 1)..k]
    /\ more' = [more EXCEPT ![p] = k < Len(log)]
    /\ Goto(p, "row")
    /\ UNCHANGED <<log, store, cache, handled, crashes, cur, seen, failures>>

-----------------------------------------------------------------------------
(* The three processing functions: one event after the other.              *)

IsNext(p, e) ==
    /\ e \in todo[p]
    /\ \A f \in todo[p] :
          \/ Rank(log[e].op) < Rank(log[f].op)
          \/ Rank(log[e].op) = Rank(log[f].op) /\ e <= f

(* The loop goes on to the next transaction.                               *)
Done(p, e) ==
    /\ Goto(p, "row")
    /\ todo' = [todo EXCEPT ![p] = @ \ {e}]
    /\ handled' = handled \cup {e}

(* Only what the bank has settled is handed to the rule engine.            *)
ThenEngine(p, e) ==
    IF log[e].pending
    THEN Done(p, e)
    ELSE Goto(p, "engine") /\ UNCHANGED <<todo, handled>>

(* The upsert on plaid_id keeps the id of a row that is there.             *)
AddTransaction(p, e) ==
    LET t == log[e].tx IN
    /\ pc[p] = "row" /\ IsNext(p, e) /\ log[e].op = "added"
    /\ \E id \in IF rows[t] = None THEN UnusedRowIds ELSE {rows[t].id} :
          rows' = [rows EXCEPT ![t] = [id |-> id, event |-> e]]
    /\ ThenEngine(p, e)
    /\ UNCHANGED <<log, executions, cursorRow, cache, balance, crashes, cur,
                   end, more, seen, failures>>

(* An update that finds no row is no error.                                *)
ModifyTransaction(p, e) ==
    LET t == log[e].tx IN
    /\ pc[p] = "row" /\ IsNext(p, e) /\ log[e].op = "modified"
    /\ rows' = IF rows[t] = None THEN rows
               ELSE [rows EXCEPT ![t].event = e]
    /\ ThenEngine(p, e)
    /\ UNCHANGED <<log, executions, cursorRow, cache, balance, crashes, cur,
                   end, more, seen, failures>>

(* The delete of a row an execution references fails: logged, and the next *)
(* transaction follows.                                                    *)
RemoveTransaction(p, e) ==
    LET t == log[e].tx IN
    /\ pc[p] = "row" /\ IsNext(p, e) /\ log[e].op = "removed"
    /\ rows' = IF rows[t] # None /\ Referenced(rows[t]) THEN rows
               ELSE [rows EXCEPT ![t] = None]
    /\ Done(p, e)
    /\ UNCHANGED <<log, executions, cursorRow, cache, balance, crashes, cur,
                   end, more, seen, failures>>

(* The engine works on the row it reads back, perhaps from the cache.  It  *)
(* may save for that row as long as it is in the table.                    *)
RunEngine(p, e) ==
    LET t == log[e].tx IN
    /\ pc[p] = "engine" /\ IsNext(p, e)
    /\ \/ UNCHANGED executions
       \/ /\ rows[t] # None
          /\ executions' = executions \cup {[tx |-> t, row |-> rows[t].id]}
    /\ Done(p, e)
    /\ UNCHANGED <<log, rows, cursorRow, cache, balance, crashes, cur, end,
                   more, seen, failures>>

(* Any statement about one transaction may fail; that is logged only.      *)
RowFails(p, e) ==
    /\ "row" \in Faults
    /\ pc[p] \in {"row", "engine"} /\ IsNext(p, e)
    /\ Done(p, e)
    /\ UNCHANGED <<log, store, cache, crashes, cur, end, more, seen, failures>>

\* Mutant: the next page is asked for with the cursor of this one.
FinishPageSameCursor(p) ==
    /\ pc[p] = "row"
    /\ todo[p] = {}
    /\ Goto(p, IF more[p] THEN "fetch" ELSE "balances")
    /\ UNCHANGED <<log, store, cache, handled, crashes, cur, todo, end, more,
                   seen, failures>>

FinishPage(p) ==
    /\ pc[p] = "row"
    /\ todo[p] = {}
    /\ cur' = [cur EXCEPT ![p] = end[p]]
    /\ Goto(p, IF more[p] THEN "fetch" ELSE "balances")
    /\ UNCHANGED <<log, store, cache, handled, crashes, todo, end, more, seen,
                   failures>>

-----------------------------------------------------------------------------
(* syncAccountBalances, recordSyncSuccess and recordSyncError.             *)

\* Mutant: the balances are read for a new link only.
GetAccountsOnce(p) ==
    /\ pc[p] = "balances"
    /\ seen' = [seen EXCEPT ![p] = IF balance = 0 THEN Len(log) ELSE balance]
    /\ Goto(p, "accounts")
    /\ UNCHANGED <<log, store, cache, handled, crashes, cur, todo, end, more,
                   failures>>

GetAccounts(p) ==
    /\ pc[p] = "balances"
    /\ seen' = [seen EXCEPT ![p] = Len(log)]
    /\ Goto(p, "accounts")
    /\ UNCHANGED <<log, store, cache, handled, crashes, cur, todo, end, more,
                   failures>>

UpdateAccounts(p) ==
    /\ pc[p] = "accounts"
    /\ balance' = seen[p]
    /\ Goto(p, "success")
    /\ UNCHANGED <<log, rows, executions, cursorRow, cache, handled, crashes,
                   cur, todo, end, more, seen, failures>>

(* Balances that could not be read or written fail no sync.                *)
BalancesFail(p) ==
    /\ \/ "plaid" \in Faults /\ pc[p] = "balances"
       \/ "database" \in Faults /\ pc[p] = "accounts"
    /\ Goto(p, "success")
    /\ UNCHANGED <<log, store, cache, handled, crashes, cur, todo, end, more,
                   seen, failures>>

RecordSuccess(p) ==
    /\ pc[p] = "success"
    /\ cursorRow' = [cursor |-> cur[p], failures |-> 0]
    /\ Return(p)
    /\ UNCHANGED <<log, rows, executions, cache, balance, handled, crashes>>

QueryFailures(p) ==
    /\ pc[p] = "error"
    /\ \E answer \in {cursorRow} \cup cache :
          /\ cache' = {answer}
          /\ IF answer = None
             THEN Return(p)
             ELSE /\ failures' = [failures EXCEPT ![p] = answer.failures]
                  /\ Goto(p, "failure")
                  /\ UNCHANGED <<cur, todo, end, more, seen>>
    /\ UNCHANGED <<log, store, handled, crashes>>

(* The counter stops at its bound.                                         *)
RecordError(p) ==
    /\ pc[p] = "failure"
    /\ cursorRow' = [cursorRow EXCEPT !.failures =
                        Min({failures[p] + 1, MaxFailures})]
    /\ Return(p)
    /\ UNCHANGED <<log, rows, executions, cache, balance, handled, crashes>>

-----------------------------------------------------------------------------
(* Failures of Plaid and of the database, and the death of the process.    *)

(* The item or its cursor cannot be loaded, or Plaid does not answer.      *)
CallFails(p) ==
    /\ \/ "database" \in Faults /\ pc[p] \in {"cursor", "create"}
       \/ "plaid" \in Faults /\ pc[p] = "fetch"
    /\ Fail(p)

(* Neither the success nor the error can be recorded.                      *)
RecordFails(p) ==
    /\ "database" \in Faults
    /\ pc[p] \in {"success", "error", "failure"}
    /\ Return(p)
    /\ UNCHANGED <<log, store, cache, handled, crashes>>

(* The locals are lost; the database and the cache remain.                 *)
Crash ==
    /\ crashes < MaxCrashes
    /\ \E p \in Syncs : pc[p] # "idle"
    /\ crashes' = crashes + 1
    /\ pc' = [p \in Syncs |-> "idle"]
    /\ cur' = [p \in Syncs |-> 0]
    /\ todo' = [p \in Syncs |-> {}]
    /\ end' = [p \in Syncs |-> 0]
    /\ more' = [p \in Syncs |-> FALSE]
    /\ seen' = [p \in Syncs |-> 0]
    /\ failures' = [p \in Syncs |-> 0]
    /\ UNCHANGED <<log, store, cache, handled>>

ProcessEvent(p) ==
    \E e \in todo[p] : \/ AddTransaction(p, e)
                      \/ ModifyTransaction(p, e)
                      \/ RemoveTransaction(p, e)
                      \/ RunEngine(p, e)

Progress(p) ==
    \/ GetCursor(p)
    \/ CreateCursor(p)
    \/ Fetch(p)
    \/ ProcessEvent(p)
    \/ FinishPage(p)
    \/ GetAccounts(p)
    \/ UpdateAccounts(p)
    \/ RecordSuccess(p)
    \/ QueryFailures(p)
    \/ RecordError(p)

Fault(p) ==
    \/ \E e \in todo[p] : RowFails(p, e)
    \/ BalancesFail(p)
    \/ CallFails(p)
    \/ RecordFails(p)

Next ==
    \/ \E t \in Txs : PlaidEvent(t)
    \/ \E p \in Syncs : SyncItemTransactions(p) \/ Progress(p) \/ Fault(p)
    \/ Crash

(* The worker's ticker starts syncs for ever, Go schedules every goroutine *)
(* and a request that is repeated for ever is answered some time: a page   *)
(* behind each cursor, the query and the update of the cursor's row.  The  *)
(* cached answer to that query expires in 30 seconds, so that some query   *)
(* of a sync repeated for ever is answered by the database.                *)
Fairness ==
    \A p \in Syncs :
        /\ WF_vars(SyncItemTransactions(p) \/ Progress(p))
        /\ SF_vars(GetCursor(p) /\ cache' = {cursorRow})
        /\ SF_vars(CreateCursor(p))
        /\ \A c \in 0..MaxLog : SF_vars(cur[p] = c /\ Fetch(p))
        /\ SF_vars(RecordSuccess(p))

Spec == Init /\ [][Next]_vars
FairSpec == Spec /\ Fairness

-----------------------------------------------------------------------------
(* Properties.                                                             *)

StoreType ==
    /\ log \in Seq(Event)
    /\ rows \in [Txs -> {None} \cup Row]
    /\ executions \subseteq [tx : Txs, row : RowIds]
    /\ cursorRow \in {None} \cup CursorRow
    /\ cache \subseteq {None} \cup CursorRow
    /\ cursorRow = None => cache \subseteq {None}
    /\ balance \in Nat
    /\ handled \subseteq 1..Len(log)
    /\ crashes \in Nat

LocalsType ==
    /\ pc \in [Syncs -> Labels]
    /\ cur \in [Syncs -> Nat]
    /\ todo \in [Syncs -> SUBSET (1..Len(log))]
    /\ end \in [Syncs -> Nat]
    /\ more \in [Syncs -> BOOLEAN]
    /\ seen \in [Syncs -> Nat]
    /\ failures \in [Syncs -> Nat]

(* What is known at a label: a row to count in, an event to work on.       *)
LocalsInScope ==
    \A p \in Syncs :
        /\ pc[p] \in {"fetch", "row", "engine", "balances", "accounts",
                      "success", "failure"} => cursorRow # None
        /\ pc[p] = "engine" => todo[p] # {}
        /\ pc[p] \in {"row", "engine"} => todo[p] \subseteq (cur[p] + 1)..end[p]

(* The types of the tables and of the locals, and what a sync knows at     *)
(* each of its statements.                                                 *)
TypeOK == StoreType /\ LocalsType /\ LocalsInScope

(* The stored cursor never runs ahead of the work: every event it has      *)
(* passed was dealt with by some sync, up to the call of the engine for a  *)
(* settled transaction, although the cursor is only saved after the last   *)
(* page and although other syncs save theirs in between, fail or die       *)
(* (sync_service.go:63-117).                                               *)
NoUpdateSkipped ==
    cursorRow # None => 1..cursorRow.cursor \subseteq handled

(* All that was ever saved for a transaction of the bank hangs on one row, *)
(* through replays, races and removals: the unique index on (rule_id,      *)
(* transaction_id) makes a rule save once per row only.                    *)
OneRowPerTransaction ==
    \A x, y \in executions : x.tx = y.tx => x.row = y.row

Idle == \A p \in Syncs : pc[p] = "idle"

(* The row of t is not older than the stored cursor.                       *)
UpToDate(t) ==
    LET last == Upto(t, cursorRow.cursor)
        now == Upto(t, Len(log)) IN
    last # 0 =>
        IF log[last].op = "removed"
        THEN rows[t] # None => Referenced(rows[t])
        ELSE IF rows[t] = None
             THEN log[now].op = "removed"
             ELSE rows[t].event >= last

(* While no sync runs the table is what Plaid said up to the cursor, or  *)
(* newer: "synchronizes transactions for a single Item"                    *)
(* (sync_service.go:39), with a cursor that "tracks the sync state for     *)
(* each Item" (sync_cursor.go:14).                                         *)
NeverBehind ==
    Idle /\ cursorRow # None => \A t \in Txs : UpToDate(t)

(* A sync that nothing interrupts leaves balances that include every       *)
(* transaction behind its cursor (sync_service.go:105 "Sync account        *)
(* balances after syncing all transactions").                              *)
BalancesCurrent ==
    Idle /\ cursorRow # None => balance >= cursorRow.cursor

(* Once the bank reports nothing new the cursor reaches the end of the log *)
(* and stays there, whatever failed on the way.                            *)
CatchesUp == <>[](cursorRow # None /\ cursorRow.cursor = Len(log))
=============================================================================
