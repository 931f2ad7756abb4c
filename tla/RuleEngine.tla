----------------------------- MODULE RuleEngine -----------------------------
(***************************************************************************)
(* The rule engine of api/server/services/rule/engine.go, the rule         *)
(* handlers that write the rows it reads, and the constraints of the       *)
(* PostgreSQL schema it relies on.                                         *)
(*                                                                         *)
(* A worker is one call of Engine.ProcessTransaction: the background sync  *)
(* worker, a manual sync and the sync started by a new bank link run such  *)
(* calls concurrently, for the same transaction too.  A step of a worker   *)
(* is one statement sent to the database (or one in-memory evaluation      *)
(* between two statements), so that statements of different workers and    *)
(* of the HTTP handlers interleave.                                        *)
(*                                                                         *)
(* A database transaction is the buffer txn[p]: its writes are invisible   *)
(* until Commit and disappear with Rollback or Crash.  The database runs   *)
(* READ COMMITTED: an insert whose unique key is held by an open           *)
(* transaction waits for it, and so do an update of a locked row and a     *)
(* delete of a row an open transaction references.                         *)
(***************************************************************************)
EXTENDS Integers, Sequences, FiniteSets, FiniteSetsExt

CONSTANTS
    Workers,         \* concurrent calls of ProcessTransaction
    Users,
    Accounts,
    Rules,           \* identities of the rows of table rules
    Txs,             \* identities of the rows of table transactions
    ExecIds,         \* identities of the rows of table rule_executions
    AccountUser,     \* accounts.user_id
    SavingsAccounts, \* the accounts of type "savings"
    Terms,           \* what a request may set of a rule: condition and action
    TxRows,          \* contents a transaction row may have
    FallsShort,      \* <<amount, value>> whose float64 product falls short
    NoLimit,         \* NULL in min_amount_cents and max_amount_cents
    None,            \* no row was ever inserted; nothing is cached
    Deleted          \* the row was deleted; an identity is never used again

(* Amounts are in cents and a rule's value in hundredths.                  *)
AnyTerms == [category : STRING, min : Nat \cup {NoLimit},
             max : Nat \cup {NoLimit}, action : {"multiply", "fixed"},
             value : Nat, priority : Nat]

AnyTx == [account : Accounts, category : STRING, amount : Int,
          pending : BOOLEAN]

ASSUME SetsAssumption ==
    /\ IsFiniteSet(Rules) /\ IsFiniteSet(ExecIds)
    /\ AccountUser \in [Accounts -> Users]
    /\ SavingsAccounts \subseteq Accounts

(* Rounding a product of float64 numbers takes some that are whole numbers *)
(* below them, as 100 * 0.29 = 28.999999999999996.                         *)
ASSUME FloatAssumption ==
    \A pair \in FallsShort :
        /\ pair \in Nat \X Nat
        /\ pair[1] * pair[2] > 0 /\ (pair[1] * pair[2]) % 100 = 0

ASSUME RowsAssumption ==
    /\ Terms \subseteq AnyTerms
    /\ TxRows \subseteq AnyTx
    /\ NoLimit \notin Nat

VARIABLES
    rules,        \* table rules
    transactions, \* table transactions
    executions,   \* table rule_executions
    transfers,    \* table savings_transfers
    ruleCache,    \* entcache: the answer to a user's active-rules query
    txCache,      \* entcache: the answer to the query of one transaction
    notified,     \* <<rule, tx>> a push told the user money was moved for
    pc,           \* the statement a worker sends next
    call,         \* the argument of ProcessTransaction
    loaded,       \* local variable rules of ProcessTransaction
    at,           \* index of its range loop
    txn,          \* the worker's open database transaction
    failed        \* the rules whose error this call has logged

tables == <<rules, transactions, executions, transfers>>
caches == <<ruleCache, txCache>>
locals == <<pc, call, loaded, at, txn, failed>>
vars == <<rules, transactions, executions, transfers, ruleCache, txCache,
          notified, pc, call, loaded, at, txn, failed>>

-----------------------------------------------------------------------------
(* Rows.                                                                   *)

Live(table, k) == table[k] \notin {None, Deleted}

RuleRow == [user : Users, target : Accounts, active : BOOLEAN,
            terms : Terms, count : Nat, total : Nat]

LoadedRule == [id : Rules, user : Users, target : Accounts, terms : Terms]

Execution == [id : ExecIds, rule : Rules, tx : Txs, user : Users,
              amount : Nat, source : Accounts, target : Accounts,
              status : {"pending", "completed"}]

Transfer == [execution : ExecIds, user : Users, amount : Nat,
             source : Accounts, target : Accounts, status : {"suggested"}]

(* What an open database transaction has written: its execution and its    *)
(* transfer once inserted, and whether it holds the lock of the rule's row. *)
Txn == [execution : SUBSET Execution, transfer : SUBSET Transfer,
        stats : BOOLEAN]

NoTxn == [execution |-> {}, transfer |-> {}, stats |-> FALSE]

Call == [tx : Txs, row : TxRows]

(* The statements of executeRule.                                          *)
InRule == {"execution", "transfer", "stats", "complete", "notify", "commit"}

(* The markers are two and no rows.                                        *)
ASSUME MarkersAssumption ==
    /\ None # Deleted
    /\ \A m \in {None, Deleted} : m \notin RuleRow /\ m \notin TxRows

-----------------------------------------------------------------------------
(* The pure part of the engine.                                            *)

Abs(n) == IF n < 0 THEN -n ELSE n

MatchesRule(row, rule) ==
    LET t == rule.terms IN
    /\ row.category = t.category
    /\ t.min # NoLimit => Abs(row.amount) >= t.min
    /\ t.max # NoLimit => Abs(row.amount) <= t.max

(* int64 of the float64 product of an amount and a value, truncated.       *)
Product(amount, value) ==
    (amount * value) \div 100 - IF <<amount, value>> \in FallsShort THEN 1 ELSE 0

(* A fixed value is in dollars.                                            *)
CalculateSavingsAmount(row, rule) ==
    IF rule.terms.action = "multiply"
    THEN Product(Abs(row.amount), rule.terms.value)
    ELSE Product(100, rule.terms.value)

\* Mutant: the query forgets the user.
ActiveRulesOfAnyone(u) ==
    {[id |-> r, user |-> rules[r].user, target |-> rules[r].target,
      terms |-> rules[r].terms] :
        r \in {q \in Rules : Live(rules, q) /\ rules[q].active}}
(* The rows the active-rules query returns, in any order by priority.      *)
ActiveRules(u) ==
    {[id |-> r, user |-> rules[r].user, target |-> rules[r].target,
      terms |-> rules[r].terms] :
        r \in {q \in Rules : /\ Live(rules, q)
                             /\ rules[q].user = u
                             /\ rules[q].active}}

ByPriority(S) ==
    {s \in [1..Cardinality(S) -> S] :
        \A i, j \in 1..Cardinality(S) :
            i < j => /\ s[i] # s[j]
                     /\ s[i].terms.priority <= s[j].terms.priority}

-----------------------------------------------------------------------------
(* The database: what the open transactions of the workers hold.           *)

Inserted(p, r, t) == \E e \in txn[p].execution : e.rule = r /\ e.tx = t

KeyHeld(r, t) == \E q \in Workers : Inserted(q, r, t)

\* Mutant: looks at committed rows only, as a query before the delete would.
RuleReferencedByCommitted(r) == \E e \in executions : e.rule = r
RuleReferenced(r) ==
    \/ \E e \in executions : e.rule = r
    \/ \E q \in Workers : \E e \in txn[q].execution : e.rule = r

TxReferenced(t) ==
    \/ \E e \in executions : e.tx = t
    \/ \E q \in Workers : \E e \in txn[q].execution : e.tx = t

RuleLocked(r) ==
    \E q \in Workers : txn[q].stats /\ \E e \in txn[q].execution : e.rule = r

\* Mutant: no unique index on (rule_id, transaction_id).
ForeignKeyError(r, t) == ~Live(rules, r) \/ ~Live(transactions, t)
(* A foreign key finds no row, or the unique index finds one.              *)
ConstraintError(r, t) ==
    \/ ~Live(rules, r)
    \/ ~Live(transactions, t)
    \/ \E e \in executions : e.rule = r /\ e.tx = t

UnusedExecIds ==
    ExecIds \ ({e.id : e \in executions} \cup
               UNION {{e.id : e \in txn[q].execution} : q \in Workers})

-----------------------------------------------------------------------------
Init ==
    /\ rules = [r \in Rules |-> None]
    /\ transactions = [t \in Txs |-> None]
    /\ executions = {}
    /\ transfers = {}
    /\ ruleCache = [u \in Users |-> None]
    /\ txCache = [t \in Txs |-> None]
    /\ notified = {}
    /\ pc = [p \in Workers |-> "idle"]
    /\ call = [p \in Workers |-> None]
    /\ loaded = [p \in Workers |-> <<>>]
    /\ at = [p \in Workers |-> 1]
    /\ txn = [p \in Workers |-> NoTxn]
    /\ failed = [p \in Workers |-> {}]

Goto(p, label) == pc' = [pc EXCEPT ![p] = label]

CurrentRule(p) == loaded[p][at[p]]

(* The worker's locals go out of scope.                                    *)
Return(p) ==
    /\ Goto(p, "idle")
    /\ call' = [call EXCEPT ![p] = None]
    /\ loaded' = [loaded EXCEPT ![p] = <<>>]
    /\ at' = [at EXCEPT ![p] = 1]
    /\ failed' = [failed EXCEPT ![p] = {}]

\* Mutant: the index is advanced twice.
NextRuleButOne(p) ==
    /\ Goto(p, "match")
    /\ at' = [at EXCEPT ![p] = @ + 2]
(* The range loop goes on to the next rule.                                *)
NextRule(p) ==
    /\ Goto(p, "match")
    /\ at' = [at EXCEPT ![p] = @ + 1]

-----------------------------------------------------------------------------
(* ProcessTransaction.                                                     *)

(* A sync calls the engine with the row it reads back, which the cache may *)
(* answer as it was, even when it is deleted by now: the entry expires at   *)
(* an unknown time, so that a read takes what is cached or what is stored. *)
(* A pending transaction and a transfer are left alone.                    *)
ProcessTransaction(p, t) ==
    /\ pc[p] = "idle"
    /\ \E row \in TxRows \cap {transactions[t], txCache[t]} :
          /\ txCache' = [txCache EXCEPT ![t] = row]
          /\ IF row.pending \/ row.category = "Transfer"
             THEN UNCHANGED <<call, pc>>
             ELSE /\ call' = [call EXCEPT ![p] = [tx |-> t, row |-> row]]
                  /\ Goto(p, "rules")
    /\ UNCHANGED <<tables, ruleCache, notified, loaded, at, txn, failed>>

(* The account is queried with the rules: accounts.user_id never changes.  *)
LoadRules(p) ==
    LET u == AccountUser[call[p].row.account] IN
    /\ pc[p] = "rules"
    /\ \E s \in ByPriority(ActiveRules(u)) \cup ({ruleCache[u]} \ {None}) :
          /\ loaded' = [loaded EXCEPT ![p] = s]
          /\ ruleCache' = [ruleCache EXCEPT ![u] = s]
    /\ Goto(p, "match")
    /\ UNCHANGED <<tables, txCache, notified, call, at, txn, failed>>

(* Either query fails and the call returns its error.                      *)
LoadFails(p) ==
    /\ pc[p] = "rules"
    /\ Return(p)
    /\ UNCHANGED <<tables, caches, notified, txn>>

EvaluateRule(p) ==
    /\ pc[p] = "match"
    /\ at[p] <= Len(loaded[p])
    /\ IF MatchesRule(call[p].row, CurrentRule(p))
       THEN Goto(p, "execution") /\ UNCHANGED at
       ELSE NextRule(p)
    /\ UNCHANGED <<tables, caches, notified, call, loaded, txn, failed>>

FinishCall(p) ==
    /\ pc[p] = "match"
    /\ at[p] > Len(loaded[p])
    /\ Return(p)
    /\ UNCHANGED <<tables, caches, notified, txn>>

-----------------------------------------------------------------------------
(* executeRule: one database transaction of four statements.               *)

InsertExecution(p) ==
    LET rule == CurrentRule(p)
        t == call[p].tx IN
    /\ pc[p] = "execution"
    /\ ~KeyHeld(rule.id, t)
    /\ ~ConstraintError(rule.id, t)
    /\ \E id \in UnusedExecIds :
          txn' = [txn EXCEPT ![p].execution =
              {[id |-> id, rule |-> rule.id, tx |-> t,
                user |-> AccountUser[call[p].row.account],
                amount |-> CalculateSavingsAmount(call[p].row, rule),
                source |-> call[p].row.account, target |-> rule.target,
                status |-> "pending"]}]
    /\ Goto(p, "transfer")
    /\ UNCHANGED <<tables, caches, notified, call, loaded, at, failed>>

\* Mutant: a duplicate that is not committed yet counts as executed.
SkipUncommitted(p) ==
    /\ pc[p] = "execution"
    /\ \/ KeyHeld(CurrentRule(p).id, call[p].tx)
       \/ ConstraintError(CurrentRule(p).id, call[p].tx)
    /\ NextRule(p)
    /\ UNCHANGED <<tables, caches, notified, call, loaded, txn, failed>>

(* Every constraint error is taken for the duplicate of the unique index:  *)
(* executeRule returns nil.                                                *)
SkipExecuted(p) ==
    LET r == CurrentRule(p).id
        t == call[p].tx IN
    /\ pc[p] = "execution"
    /\ ~KeyHeld(r, t)
    /\ ConstraintError(r, t)
    /\ NextRule(p)
    /\ UNCHANGED <<tables, caches, notified, call, loaded, txn, failed>>

InsertTransfer(p) ==
    /\ pc[p] = "transfer"
    /\ txn' = [txn EXCEPT ![p].transfer =
          {[execution |-> e.id, user |-> e.user, amount |-> e.amount,
            source |-> e.source, target |-> e.target,
            status |-> "suggested"] : e \in txn[p].execution}]
    /\ Goto(p, "stats")
    /\ UNCHANGED <<tables, caches, notified, call, loaded, at, failed>>

\* Mutant: the counters are updated outside of the database transaction.
UpdateStatsAtOnce(p) ==
    LET r == CurrentRule(p).id IN
    /\ pc[p] = "stats"
    /\ ~RuleLocked(r)
    /\ \E e \in txn[p].execution :
          rules' = [rules EXCEPT ![r].count = @ + 1,
                                 ![r].total = @ + e.amount]
    /\ Goto(p, "complete")
    /\ UNCHANGED <<transactions, executions, transfers, caches, notified,
                   call, loaded, at, txn, failed>>

UpdateRuleStats(p) ==
    /\ pc[p] = "stats"
    /\ ~RuleLocked(CurrentRule(p).id)
    /\ txn' = [txn EXCEPT ![p].stats = TRUE]
    /\ Goto(p, "complete")
    /\ UNCHANGED <<tables, caches, notified, call, loaded, at, failed>>

MarkCompleted(p) ==
    /\ pc[p] = "complete"
    /\ txn' = [txn EXCEPT ![p].execution =
                  {[e EXCEPT !.status = "completed"] : e \in @}]
    /\ Goto(p, "notify")
    /\ UNCHANGED <<tables, caches, notified, call, loaded, at, failed>>

(* The push reaches a browser of the user or it does not; either way       *)
(* executeRule goes on.                                                    *)
SendNotification(p) ==
    /\ pc[p] = "notify"
    /\ \/ notified' = notified \cup {<<e.rule, e.tx>> : e \in txn[p].execution}
       \/ UNCHANGED notified
    /\ Goto(p, "commit")
    /\ UNCHANGED <<tables, caches, call, loaded, at, txn, failed>>

\* Mutant: the total grows by the amount the transaction has by now.
CommitCurrentAmount(p) ==
    LET t == call[p].tx
        rule == CurrentRule(p) IN
    /\ pc[p] = "commit"
    /\ executions' = executions \cup txn[p].execution
    /\ transfers' = transfers \cup txn[p].transfer
    /\ rules' = [rules EXCEPT
          ![rule.id].count = @ + 1,
          ![rule.id].total = @ + CalculateSavingsAmount(transactions[t], rule)]
    /\ txn' = [txn EXCEPT ![p] = NoTxn]
    /\ NextRule(p)
    /\ UNCHANGED <<transactions, caches, notified, call, loaded, failed>>

(* The deferred hooks.Rollback commits because ret is nil.                 *)
Commit(p) ==
    /\ pc[p] = "commit"
    /\ executions' = executions \cup txn[p].execution
    /\ transfers' = transfers \cup txn[p].transfer
    /\ rules' = [r \in Rules |->
          IF txn[p].stats /\ \E e \in txn[p].execution : e.rule = r
          THEN LET e == CHOOSE e \in txn[p].execution : TRUE
               IN  [rules[r] EXCEPT !.count = @ + 1, !.total = @ + e.amount]
          ELSE rules[r]]
    /\ txn' = [txn EXCEPT ![p] = NoTxn]
    /\ NextRule(p)
    /\ UNCHANGED <<transactions, caches, notified, call, loaded, failed>>

\* Mutant: the deferred function commits what the statements wrote.
RollbackCommits(p) ==
    /\ pc[p] \in InRule \ {"notify"}
    /\ executions' = executions \cup txn[p].execution
    /\ transfers' = transfers \cup txn[p].transfer
    /\ txn' = [txn EXCEPT ![p] = NoTxn]
    /\ failed' = [failed EXCEPT ![p] = @ \cup {CurrentRule(p).id}]
    /\ NextRule(p)
    /\ UNCHANGED <<rules, transactions, caches, notified, call, loaded>>

\* Mutant: an error returns without the rollback.
RollbackForgotten(p) ==
    /\ pc[p] \in InRule \ {"notify"}
    /\ failed' = [failed EXCEPT ![p] = @ \cup {CurrentRule(p).id}]
    /\ NextRule(p)
    /\ UNCHANGED <<tables, caches, notified, call, loaded, txn>>

(* A statement or the commit fails: executeRule returns the error, the     *)
(* deferred function rolls back and ProcessTransaction logs and continues. *)
Rollback(p) ==
    /\ pc[p] \in InRule \ {"notify"}
    /\ txn' = [txn EXCEPT ![p] = NoTxn]
    /\ failed' = [failed EXCEPT ![p] = @ \cup {CurrentRule(p).id}]
    /\ NextRule(p)
    /\ UNCHANGED <<tables, caches, notified, call, loaded>>

Progress(p) ==
    \/ LoadRules(p)
    \/ EvaluateRule(p)
    \/ FinishCall(p)
    \/ InsertExecution(p)
    \/ SkipExecuted(p)
    \/ InsertTransfer(p)
    \/ UpdateRuleStats(p)
    \/ MarkCompleted(p)
    \/ SendNotification(p)
    \/ Commit(p)

(* Any statement may fail: the context is cancelled, the connection lost.  *)
Fault(p) == LoadFails(p) \/ Rollback(p)

-----------------------------------------------------------------------------
(* The HTTP handlers of api/server/handlers/rule.                          *)

(* The target account belongs to the user and is a savings account.        *)
CreateRule(r, u) ==
    /\ rules[r] = None
    /\ \E a \in SavingsAccounts, t \in Terms :
          /\ AccountUser[a] = u
          /\ rules' = [rules EXCEPT ![r] =
                [user |-> u, target |-> a, active |-> TRUE, terms |-> t,
                 count |-> 0, total |-> 0]]
    /\ UNCHANGED <<transactions, executions, transfers, caches, notified,
                   locals>>

(* A request replaces condition, action and priority, never the target.    *)
UpdateRule(r) ==
    /\ Live(rules, r)
    /\ ~RuleLocked(r)
    /\ \E t \in Terms : rules' = [rules EXCEPT ![r].terms = t]
    /\ UNCHANGED <<transactions, executions, transfers, caches, notified,
                   locals>>

(* The value written is the negation of one read earlier, from the cache   *)
(* perhaps: it can be either.                                              *)
ToggleRule(r) ==
    /\ Live(rules, r)
    /\ ~RuleLocked(r)
    /\ \E b \in BOOLEAN : rules' = [rules EXCEPT ![r].active = b]
    /\ UNCHANGED <<transactions, executions, transfers, caches, notified,
                   locals>>

(* The foreign key of rule_executions lets no executed rule go.            *)
DeleteRule(r) ==
    /\ Live(rules, r)
    /\ ~RuleReferenced(r)
    /\ rules' = [rules EXCEPT ![r] = Deleted]
    /\ UNCHANGED <<transactions, executions, transfers, caches, notified,
                   locals>>

-----------------------------------------------------------------------------
(* What the sync service does to table transactions, and the death of the  *)
(* process.                                                                *)

(* processAddedTransactions and processModifiedTransactions: a row may go  *)
(* to another account of its user.                                         *)
WriteTransaction(t) ==
    /\ transactions[t] # Deleted
    /\ \E row \in TxRows :
          /\ Live(transactions, t) =>
                AccountUser[row.account] = AccountUser[transactions[t].account]
          /\ transactions' = [transactions EXCEPT ![t] = row]
    /\ UNCHANGED <<rules, executions, transfers, caches, notified, locals>>

RemoveTransaction(t) ==
    /\ Live(transactions, t)
    /\ ~TxReferenced(t)
    /\ transactions' = [transactions EXCEPT ![t] = Deleted]
    /\ UNCHANGED <<rules, executions, transfers, caches, notified, locals>>

(* The process dies; the database rolls its transactions back, Redis keeps *)
(* the cache.                                                              *)
Crash ==
    /\ \E p \in Workers : pc[p] # "idle"
    /\ pc' = [p \in Workers |-> "idle"]
    /\ call' = [p \in Workers |-> None]
    /\ loaded' = [p \in Workers |-> <<>>]
    /\ at' = [p \in Workers |-> 1]
    /\ txn' = [p \in Workers |-> NoTxn]
    /\ failed' = [p \in Workers |-> {}]
    /\ UNCHANGED <<tables, caches, notified>>

Handler ==
    \/ \E r \in Rules : \/ \E u \in Users : CreateRule(r, u)
                        \/ UpdateRule(r)
                        \/ ToggleRule(r)
                        \/ DeleteRule(r)
    \/ \E t \in Txs : WriteTransaction(t) \/ RemoveTransaction(t)

Next ==
    \/ \E p \in Workers : \/ \E t \in Txs : ProcessTransaction(p, t)
                          \/ Progress(p)
                          \/ Fault(p)
    \/ Handler
    \/ Crash

(* Go schedules every goroutine, the database answers every statement and  *)
(* grants a lock to its waiters in turn.  Faults may happen, or never.     *)
Fairness == \A p \in Workers : SF_vars(Progress(p))

Spec == Init /\ [][Next]_vars

-----------------------------------------------------------------------------
(* Properties.                                                             *)

TablesType ==
    /\ rules \in [Rules -> {None, Deleted} \cup RuleRow]
    /\ transactions \in [Txs -> {None, Deleted} \cup TxRows]
    /\ executions \subseteq Execution
    /\ transfers \subseteq Transfer
    /\ ruleCache \in [Users -> {None} \cup Seq(LoadedRule)]
    /\ txCache \in [Txs -> {None} \cup TxRows]
    /\ notified \subseteq Rules \X Txs

LocalsType ==
    /\ pc \in [Workers -> {"idle", "rules", "match"} \cup InRule]
    /\ call \in [Workers -> {None} \cup Call]
    /\ loaded \in [Workers -> Seq(LoadedRule)]
    /\ at \in [Workers -> Nat]
    /\ txn \in [Workers -> Txn]
    /\ failed \in [Workers -> SUBSET Rules]

(* What a worker has where: past "idle" its argument, in executeRule the   *)
(* rule of a valid index, an open transaction only there.                  *)
LocalsInScope ==
    \A p \in Workers :
        /\ pc[p] # "idle" => call[p] \in Call
        /\ pc[p] \in {"idle", "rules"} => at[p] = 1
        /\ at[p] \in 1..(Len(loaded[p]) + 1)
        /\ pc[p] \in InRule => at[p] <= Len(loaded[p])
        /\ pc[p] \notin InRule \ {"execution"} => txn[p] = NoTxn

(* The types of the tables and of the workers' locals, and which locals a  *)
(* worker has at each of its statements.                                   *)
TypeOK == TablesType /\ LocalsType /\ LocalsInScope

(* A rule saves at most once for a transaction, however many syncs hand    *)
(* the transaction to the engine, whatever they changed in it meanwhile    *)
(* and whichever of their statements failed (engine.go:228 "rely on unique *)
(* constraint for idempotency").                                           *)
OncePerTransaction ==
    \A e, f \in executions : e.rule = f.rule /\ e.tx = f.tx => e = f

(* The virtual ledger is whole: every execution a reader can see is        *)
(* completed and has exactly one transfer, of its amount and between its   *)
(* accounts, and every transfer belongs to such an execution               *)
(* (engine.go:221 "a database transaction for atomicity").                 *)
LedgerWhole ==
    /\ \A e \in executions :
          /\ e.status = "completed"
          /\ \E x \in transfers :
                /\ x.execution = e.id
                /\ x.amount = e.amount
                /\ x.source = e.source /\ x.target = e.target
                /\ x.user = e.user
    /\ \A x \in transfers : \E e \in executions : e.id = x.execution
    /\ \A x, y \in transfers : x.execution = y.execution => x = y

ExecutionsOf(r) == {e \in executions : e.rule = r}

(* The execution count shown with a rule is the number of its executions,  *)
(* although the handlers rewrite the row concurrently (engine.go:276-280). *)
ExecutionCountsMatch ==
    \A r \in Rules : Live(rules, r) =>
        rules[r].count = Cardinality(ExecutionsOf(r))

(* The total saved shown with a rule is the sum of its transfers.          *)
SavedTotalsMatch ==
    \A r \in Rules : Live(rules, r) =>
        rules[r].total = MapThenSumSet(LAMBDA e : e.amount, ExecutionsOf(r))

(* Deleting a rule or a removed transaction never orphans an execution,    *)
(* not even one whose database transaction is open.                        *)
NoOrphans ==
    \A e \in executions \cup UNION {txn[p].execution : p \in Workers} :
        Live(rules, e.rule) /\ Live(transactions, e.tx)

(* Money stays with its owner: user, rule and both accounts of an          *)
(* execution and its transfer are of one user.                             *)
OneOwner ==
    /\ \A e \in executions :
          /\ AccountUser[e.source] = e.user
          /\ AccountUser[e.target] = e.user
          /\ rules[e.rule].user = e.user
    /\ \A x \in transfers : x.target \in SavingsAccounts

(* No match is lost: behind its loop index a call has an execution of each *)
(* matching rule it loaded, its own or one of another call, unless it      *)
(* reported an error of the rule or the rule or the transaction is gone.   *)
(* An error of one rule must not cost the others theirs (engine.go:126),   *)
(* and a duplicate may be skipped only once the other insert is committed. *)
NoMatchLost ==
    \A p \in Workers : \A i \in 1..(at[p] - 1) :
        LET r == loaded[p][i].id
            t == call[p].tx IN
        MatchesRule(call[p].row, loaded[p][i]) =>
            \/ \E e \in executions : e.rule = r /\ e.tx = t
            \/ r \in failed[p]
            \/ ~Live(rules, r)
            \/ ~Live(transactions, t)

(* The ledger is append-only: no step takes back or rewrites an execution  *)
(* or a transfer, although a transaction's amount and category may change. *)
AppendOnly ==
    [][executions \subseteq executions' /\ transfers \subseteq transfers']_vars

(* Every call of ProcessTransaction returns (engine.go:54): while it waits *)
(* for another call's unique key or row lock, whose database transaction   *)
(* goes on to its end, and whatever fails at one of its rules.             *)
CallsReturn == \A p \in Workers : pc[p] # "idle" ~> pc[p] = "idle"

(* A transfer seen as an entry of the abstract ledger.                     *)
Entries ==
    {[rule |-> pair[1].rule, tx |-> pair[1].tx, amount |-> pair[2].amount,
      source |-> pair[2].source, target |-> pair[2].target] :
        pair \in {q \in executions \X transfers : q[2].execution = q[1].id}}

Ledger == INSTANCE SavingsLedger WITH
    saved <- Entries,
    count <- [r \in Rules |-> IF Live(rules, r) THEN rules[r].count ELSE 0],
    total <- [r \in Rules |-> IF Live(rules, r) THEN rules[r].total ELSE 0]

(* The engine implements the ledger it promises: entry, count and total    *)
(* appear in one step, and no other step is seen.                          *)
ImplementsLedger == Ledger!Spec

(* A user is never told again of savings already committed: a call about to *)
(* send the notification, which it does before its own commit              *)
(* (engine.go:310), does so for a pair no other call has saved.            *)
NoSecondNotice ==
    \A p \in Workers : pc[p] = "notify" =>
        \A e \in executions :
            e.rule = CurrentRule(p).id => e.tx # call[p].tx
=============================================================================
