-------------------------- MODULE RuleEngineProofs --------------------------
(***************************************************************************)
(* Theorems about RuleEngine for every set of workers, rules, transactions *)
(* and accounts.                                                           *)
(***************************************************************************)
EXTENDS RuleEngine, FiniteSetLemmas

-----------------------------------------------------------------------------
(* The pure operators.                                                     *)

(* A product of an amount and a value is a number of cents, also where it  *)
(* falls short of the exact one.                                           *)
LEMMA ProductType ==
    ASSUME NEW a \in Nat, NEW v \in Nat
    PROVE  Product(a, v) \in Nat
<1> DEFINE n == a * v
<1>1. n \in Nat
  OBVIOUS
<1>2. <<a, v>> \in FallsShort => n > 0 /\ n % 100 = 0
  BY FloatAssumption
<1> HIDE DEF n
<1>3. n \div 100 \in Nat
  BY <1>1
<1>4. <<a, v>> \in FallsShort => n \div 100 > 0
  BY <1>1, <1>2
<1>5. Product(a, v) = (n \div 100) - IF <<a, v>> \in FallsShort THEN 1 ELSE 0
  BY DEF Product, n
<1> QED
  BY <1>3, <1>4, <1>5

(* What a rule saves for a transaction is a number of cents, never less    *)
(* than zero, for debits and credits alike.                                *)
LEMMA SavingsAmountType ==
    ASSUME NEW row \in TxRows, NEW rule \in LoadedRule
    PROVE  CalculateSavingsAmount(row, rule) \in Nat
<1>1. Abs(row.amount) \in Nat /\ rule.terms.value \in Nat
  BY RowsAssumption DEF AnyTx, Abs, LoadedRule, AnyTerms
<1> QED
  BY <1>1, ProductType DEF CalculateSavingsAmount

(* The rules a query returns are a sequence of loaded rules.               *)
LEMMA QueryType ==
    ASSUME TypeOK, NEW u \in Users, NEW s \in ByPriority(ActiveRules(u))
    PROVE  s \in Seq(LoadedRule)
<1> DEFINE found == {q \in Rules : /\ Live(rules, q)
                                  /\ rules[q].user = u
                                  /\ rules[q].active}
           row(r) == [id |-> r, user |-> rules[r].user,
                      target |-> rules[r].target, terms |-> rules[r].terms]
<1>1. ActiveRules(u) = {row(r) : r \in found}
  BY DEF ActiveRules
<1>2. IsFiniteSet(found)
  BY FS_Subset, SetsAssumption
<1>3. IsFiniteSet({row(r) : r \in found})
  <2> DEFINE f == [r \in found |-> row(r)]
  <2>1. f \in Surjection(found, {row(r) : r \in found})
    BY DEF Surjection
  <2> QED
    BY <1>2, <2>1, FS_Surjection
<1>4. Cardinality(ActiveRules(u)) \in Nat
  BY <1>1, <1>3, FS_CardinalityType
<1>5. ActiveRules(u) \subseteq LoadedRule
  BY DEF TypeOK, TablesType, ActiveRules, Live, RuleRow, LoadedRule
<1> QED
  BY <1>4, <1>5 DEF ByPriority

-----------------------------------------------------------------------------
(* Type correctness.  The counters of a rule are only numbers because the  *)
(* commit finds the rule's row, hence NoOrphans among the hypotheses.      *)

LEMMA InitType == Init => TypeOK
<1> SUFFICES ASSUME Init PROVE TypeOK
  OBVIOUS
<1>1. TablesType
  BY DEF Init, TablesType
<1>2. LocalsType
  BY DEF Init, LocalsType, Txn, NoTxn
<1>3. LocalsInScope
  BY DEF Init, LocalsInScope, InRule
<1> QED
  BY <1>1, <1>2, <1>3 DEF TypeOK

(* LoadRules: what is found or was cached has the type of the local.       *)
LEMMA LoadRulesType ==
    ASSUME TypeOK, NEW p \in Workers, LoadRules(p)
    PROVE  TypeOK'
<1> DEFINE u == AccountUser[call[p].row.account]
<1> USE DEF TypeOK, tables, caches, Goto
<1>1. u \in Users
  BY SetsAssumption, RowsAssumption
     DEF LoadRules, LocalsInScope, Call, AnyTx
<1>2. PICK s \in ByPriority(ActiveRules(u)) \cup ({ruleCache[u]} \ {None}) :
          /\ loaded' = [loaded EXCEPT ![p] = s]
          /\ ruleCache' = [ruleCache EXCEPT ![u] = s]
  BY DEF LoadRules
<1>3. s \in Seq(LoadedRule)
  BY <1>1, <1>2, QueryType DEF TablesType
<1>4. TablesType'
  BY <1>1, <1>2, <1>3 DEF LoadRules, TablesType
<1>5. LocalsType'
  BY <1>2, <1>3 DEF LoadRules, LocalsType
<1>6. LocalsInScope'
  BY <1>2, <1>3 DEF LoadRules, LocalsType, LocalsInScope, InRule
<1> QED
  BY <1>4, <1>5, <1>6

(* InsertExecution: the row inserted has the columns of the table.         *)
LEMMA InsertExecutionType ==
    ASSUME TypeOK, NEW p \in Workers, InsertExecution(p)
    PROVE  TypeOK'
<1> DEFINE rule == CurrentRule(p)
           row == call[p].row
<1> USE DEF TypeOK, tables, caches, Goto
<1>1. call[p] \in Call /\ rule \in LoadedRule
  BY DEF InsertExecution, LocalsType, LocalsInScope, InRule, CurrentRule
<1>2. /\ row \in TxRows /\ row.account \in Accounts
      /\ AccountUser[row.account] \in Users
  BY <1>1, SetsAssumption, RowsAssumption DEF Call, AnyTx
<1>3. CalculateSavingsAmount(row, rule) \in Nat
  BY <1>1, <1>2, SavingsAmountType
<1>4. PICK id \in UnusedExecIds :
          txn' = [txn EXCEPT ![p].execution =
              {[id |-> id, rule |-> rule.id, tx |-> call[p].tx,
                user |-> AccountUser[row.account],
                amount |-> CalculateSavingsAmount(row, rule),
                source |-> row.account, target |-> rule.target,
                status |-> "pending"]}]
  BY DEF InsertExecution
<1> DEFINE e == [id |-> id, rule |-> rule.id, tx |-> call[p].tx,
                 user |-> AccountUser[row.account],
                 amount |-> CalculateSavingsAmount(row, rule),
                 source |-> row.account, target |-> rule.target,
                 status |-> "pending"]
<1>5. e \in Execution
  <2>1. id \in ExecIds /\ rule.id \in Rules /\ rule.target \in Accounts
    BY <1>1, <1>4 DEF UnusedExecIds, LoadedRule
  <2>2. call[p].tx \in Txs
    BY <1>1 DEF Call
  <2> HIDE DEF rule, row
  <2> QED
    BY <2>1, <2>2, <1>2, <1>3 DEF Execution
<1>6. txn' = [txn EXCEPT ![p].execution = {e}]
  BY <1>4
<1> HIDE DEF e, rule, row
<1>7. TablesType'
  BY DEF InsertExecution, TablesType
<1>8. LocalsType'
  BY <1>5, <1>6 DEF InsertExecution, LocalsType, InRule, Txn
<1>9. LocalsInScope'
  BY <1>6 DEF InsertExecution, LocalsType, LocalsInScope, InRule
<1> QED
  BY <1>7, <1>8, <1>9

(* The statements that only write the worker's open transaction.           *)
LEMMA StatementType ==
    ASSUME TypeOK, NEW p \in Workers,
           InsertTransfer(p) \/ UpdateRuleStats(p) \/ MarkCompleted(p)
    PROVE  TypeOK'
<1> USE DEF TypeOK, tables, caches, Goto
<1>1. TablesType'
  BY DEF InsertTransfer, UpdateRuleStats, MarkCompleted, TablesType
<1>2. LocalsInScope'
  BY DEF InsertTransfer, UpdateRuleStats, MarkCompleted, LocalsType,
         LocalsInScope, InRule
<1>3. txn[p] \in Txn
  BY DEF LocalsType
<1>4. CASE InsertTransfer(p)
  <2> DEFINE X == {[execution |-> e.id, user |-> e.user,
                    amount |-> e.amount, source |-> e.source,
                    target |-> e.target, status |-> "suggested"] :
                       e \in txn[p].execution}
  <2>1. X \subseteq Transfer
    BY <1>3 DEF Txn, Execution, Transfer
  <2>2. txn' = [txn EXCEPT ![p].transfer = X]
    BY <1>4 DEF InsertTransfer
  <2> HIDE DEF X
  <2>3. LocalsType'
    BY <1>4, <2>1, <2>2 DEF InsertTransfer, LocalsType, InRule, Txn
  <2> QED
    BY <1>1, <1>2, <2>3
<1>5. CASE UpdateRuleStats(p)
  <2>1. LocalsType'
    BY <1>5 DEF UpdateRuleStats, LocalsType, InRule, Txn
  <2> QED
    BY <1>1, <1>2, <2>1
<1>6. CASE MarkCompleted(p)
  <2> DEFINE E == {[e EXCEPT !.status = "completed"] : e \in txn[p].execution}
  <2>1. E \subseteq Execution
    BY <1>3 DEF Txn, Execution
  <2>2. txn' = [txn EXCEPT ![p].execution = E]
    BY <1>6, <1>3 DEF MarkCompleted, LocalsType
  <2> HIDE DEF E
  <2>3. LocalsType'
    BY <1>6, <2>1, <2>2 DEF MarkCompleted, LocalsType, InRule, Txn
  <2> QED
    BY <1>1, <1>2, <2>3
<1> QED
  BY <1>4, <1>5, <1>6

(* Commit: the counters stay numbers because the rule's row is there.      *)
LEMMA CommitType ==
    ASSUME TypeOK, NoOrphans, NEW p \in Workers, Commit(p)
    PROVE  TypeOK'
<1> USE DEF TypeOK
<1>1. txn[p] \in Txn
  BY DEF LocalsType
<1>2. rules' \in [Rules -> {None, Deleted} \cup RuleRow]
  <2> SUFFICES ASSUME NEW r \in Rules
               PROVE  rules'[r] \in {None, Deleted} \cup RuleRow
    BY DEF Commit
  <2>1. CASE txn[p].stats /\ \E e \in txn[p].execution : e.rule = r
    <3> DEFINE e == CHOOSE e \in txn[p].execution : TRUE
    <3>1. e \in txn[p].execution
      BY <2>1
    <3>2. e.amount \in Nat
      BY <1>1, <3>1 DEF Txn, Execution
    <3>3. Live(rules, r)
      BY <2>1 DEF NoOrphans
    <3>4. rules[r] \in RuleRow
      BY <3>3 DEF TablesType, Live
    <3>5. rules'[r] = [rules[r] EXCEPT !.count = @ + 1, !.total = @ + e.amount]
      BY <2>1 DEF Commit
    <3> HIDE DEF e
    <3>6. /\ rules[r].count + 1 \in Nat
          /\ rules[r].total + e.amount \in Nat
      BY <3>2, <3>4 DEF RuleRow
    <3>7. rules'[r] \in RuleRow
      BY <3>4, <3>5, <3>6 DEF RuleRow
    <3> QED
      BY <3>7
  <2>2. CASE ~(txn[p].stats /\ \E e \in txn[p].execution : e.rule = r)
    BY <2>2 DEF Commit, TablesType
  <2> QED
    BY <2>1, <2>2
<1>3. executions' \subseteq Execution /\ transfers' \subseteq Transfer
  BY <1>1 DEF Commit, TablesType, Txn
<1>4. TablesType'
  BY <1>2, <1>3 DEF Commit, caches, TablesType
<1>5. NoTxn \in Txn
  BY DEF NoTxn, Txn
<1>6. /\ pc' = [pc EXCEPT ![p] = "match"]
      /\ at' = [at EXCEPT ![p] = @ + 1]
      /\ txn' = [txn EXCEPT ![p] = NoTxn]
      /\ UNCHANGED <<call, loaded, failed>>
      /\ pc[p] = "commit"
  BY DEF Commit, NextRule, Goto
<1>7. LocalsType'
  BY <1>5, <1>6 DEF LocalsType
<1>8. LocalsInScope'
  BY <1>6 DEF LocalsType, LocalsInScope, InRule
<1> QED
  BY <1>4, <1>7, <1>8

(* The steps of a worker that write no table and open no transaction.      *)
LEMMA ControlType ==
    ASSUME TypeOK, NEW p \in Workers,
           \/ \E t \in Txs : ProcessTransaction(p, t)
           \/ EvaluateRule(p) \/ FinishCall(p) \/ SkipExecuted(p)
           \/ SendNotification(p) \/ Fault(p)
    PROVE  TypeOK'
<1> USE DEF TypeOK, tables, caches, Goto
<1>1. CASE \E t \in Txs : ProcessTransaction(p, t)
  <2> PICK t \in Txs : ProcessTransaction(p, t)
    BY <1>1
  <2>1. PICK row \in TxRows :
            /\ txCache' = [txCache EXCEPT ![t] = row]
            /\ \/ UNCHANGED <<call, pc>>
               \/ /\ call' = [call EXCEPT ![p] = [tx |-> t, row |-> row]]
                  /\ pc' = [pc EXCEPT ![p] = "rules"]
    BY DEF ProcessTransaction
  <2>2. TablesType'
    BY <2>1 DEF ProcessTransaction, TablesType
  <2>3. [tx |-> t, row |-> row] \in Call
    BY DEF Call
  <2>4. LocalsType' /\ LocalsInScope'
    BY <2>1, <2>3 DEF ProcessTransaction, LocalsType, LocalsInScope, InRule
  <2> QED
    BY <2>2, <2>4
<1>2. CASE EvaluateRule(p)
  <2>1. TablesType'
    BY <1>2 DEF EvaluateRule, TablesType
  <2>2. /\ pc[p] = "match" /\ at[p] <= Len(loaded[p])
        /\ UNCHANGED <<call, loaded, txn, failed>>
        /\ \/ pc' = [pc EXCEPT ![p] = "execution"] /\ at' = at
           \/ /\ pc' = [pc EXCEPT ![p] = "match"]
              /\ at' = [at EXCEPT ![p] = @ + 1]
    BY <1>2 DEF EvaluateRule, NextRule
  <2>3. CASE pc' = [pc EXCEPT ![p] = "execution"] /\ at' = at
    <3>1. LocalsType'
      BY <2>2, <2>3 DEF LocalsType, InRule
    <3>2. LocalsInScope'
      BY <2>2, <2>3 DEF LocalsType, LocalsInScope, InRule
    <3> QED
      BY <2>1, <3>1, <3>2
  <2>4. CASE /\ pc' = [pc EXCEPT ![p] = "match"]
             /\ at' = [at EXCEPT ![p] = @ + 1]
    <3>1. LocalsType'
      BY <2>2, <2>4 DEF LocalsType, InRule
    <3>2. LocalsInScope'
      BY <2>2, <2>4 DEF LocalsType, LocalsInScope, InRule
    <3> QED
      BY <2>1, <3>1, <3>2
  <2> QED
    BY <2>2, <2>3, <2>4
<1>3. CASE FinishCall(p)
  <2>1. TablesType'
    BY <1>3 DEF FinishCall, TablesType
  <2>2. LocalsType' /\ LocalsInScope'
    BY <1>3 DEF FinishCall, Return, LocalsType, LocalsInScope, InRule
  <2> QED
    BY <2>1, <2>2
<1>4. CASE SkipExecuted(p)
  <2>1. TablesType'
    BY <1>4 DEF SkipExecuted, TablesType
  <2>2. txn' = txn /\ txn[p] = txn'[p]
    BY <1>4 DEF SkipExecuted
  <2>3. LocalsType'
    BY <1>4 DEF SkipExecuted, NextRule, LocalsType, InRule
  <2>4. LocalsInScope'
    BY <1>4 DEF SkipExecuted, NextRule, LocalsType, LocalsInScope, InRule
  <2> QED
    BY <2>1, <2>3, <2>4
<1>5. CASE SendNotification(p)
  <2>1. TablesType'
    BY <1>5 DEF SendNotification, TablesType, LocalsType, Txn, Execution
  <2>2. LocalsType' /\ LocalsInScope'
    BY <1>5 DEF SendNotification, LocalsType, LocalsInScope, InRule
  <2> QED
    BY <2>1, <2>2
<1>6. CASE LoadFails(p)
  <2>1. TablesType'
    BY <1>6 DEF LoadFails, TablesType
  <2>2. LocalsType' /\ LocalsInScope'
    BY <1>6 DEF LoadFails, Return, LocalsType, LocalsInScope, InRule
  <2> QED
    BY <2>1, <2>2
<1>7. CASE Rollback(p)
  <2>1. TablesType'
    BY <1>7 DEF Rollback, TablesType
  <2>2. CurrentRule(p).id \in Rules
    <3>1. loaded[p] \in Seq(LoadedRule) /\ at[p] \in 1..Len(loaded[p])
      BY <1>7 DEF Rollback, LocalsType, LocalsInScope
    <3>2. loaded[p][at[p]] \in LoadedRule
      BY <3>1
    <3> QED
      BY <3>2 DEF CurrentRule, LoadedRule
  <2>3. LocalsType' /\ LocalsInScope'
    BY <1>7, <2>2 DEF Rollback, NextRule, LocalsType, LocalsInScope, InRule,
                      Txn, NoTxn
  <2> QED
    BY <2>1, <2>3
<1> QED
  BY <1>1, <1>2, <1>3, <1>4, <1>5, <1>6, <1>7 DEF Fault

(* The handlers, the sync, the cache and a crash.                          *)
LEMMA EnvironmentType ==
    ASSUME TypeOK, Handler \/ Crash
    PROVE  TypeOK'
<1> USE DEF TypeOK, tables, caches, locals
<1>1. ASSUME NEW r \in Rules,
             \/ \E u \in Users : CreateRule(r, u)
             \/ UpdateRule(r) \/ ToggleRule(r) \/ DeleteRule(r)
      PROVE  TypeOK'
  <2>1. LocalsType' /\ LocalsInScope'
    BY <1>1 DEF CreateRule, UpdateRule, ToggleRule, DeleteRule, LocalsType,
                LocalsInScope
  <2>2. /\ UNCHANGED <<transactions, executions, transfers, caches, notified>>
        /\ \E row \in {None, Deleted} \cup RuleRow :
              rules' = [rules EXCEPT ![r] = row]
    <3>1. CASE \E u \in Users : CreateRule(r, u)
      BY <3>1, SetsAssumption DEF CreateRule, RuleRow
    <3>2. CASE UpdateRule(r)
      <4>1. rules[r] \in RuleRow
        BY <3>2 DEF UpdateRule, Live, TablesType
      <4>2. PICK t \in Terms : rules' = [rules EXCEPT ![r].terms = t]
        BY <3>2 DEF UpdateRule
      <4>3. [rules[r] EXCEPT !.terms = t] \in RuleRow
        BY <4>1 DEF RuleRow
      <4> QED
        BY <3>2, <4>2, <4>3 DEF UpdateRule, TablesType
    <3>3. CASE ToggleRule(r)
      <4>1. rules[r] \in RuleRow
        BY <3>3 DEF ToggleRule, Live, TablesType
      <4>2. PICK b \in BOOLEAN : rules' = [rules EXCEPT ![r].active = b]
        BY <3>3 DEF ToggleRule
      <4>3. [rules[r] EXCEPT !.active = b] \in RuleRow
        BY <4>1 DEF RuleRow
      <4> QED
        BY <3>3, <4>2, <4>3 DEF ToggleRule, TablesType
    <3>4. CASE DeleteRule(r)
      BY <3>4 DEF DeleteRule
    <3> QED
      BY <1>1, <3>1, <3>2, <3>3, <3>4
  <2>3. TablesType'
    BY <2>2 DEF TablesType
  <2> QED
    BY <2>1, <2>3
<1>2. ASSUME NEW t \in Txs, WriteTransaction(t) \/ RemoveTransaction(t)
      PROVE  TypeOK'
  <2>1. LocalsType' /\ LocalsInScope'
    BY <1>2 DEF WriteTransaction, RemoveTransaction, LocalsType, LocalsInScope
  <2>2. TablesType'
    BY <1>2 DEF WriteTransaction, RemoveTransaction, TablesType
  <2> QED
    BY <2>1, <2>2
<1>3. CASE Crash
  <2>1. TablesType'
    BY <1>3 DEF Crash, TablesType
  <2>2. LocalsType'
    BY <1>3 DEF Crash, LocalsType, Txn, NoTxn
  <2>3. LocalsInScope'
    BY <1>3 DEF Crash, LocalsInScope, InRule
  <2> QED
    BY <2>1, <2>2, <2>3
<1> QED
  BY <1>1, <1>2, <1>3 DEF Handler

LEMMA NextType ==
    ASSUME TypeOK, NoOrphans, [Next]_vars
    PROVE  TypeOK'
<1>1. CASE Next
  BY <1>1, ControlType, LoadRulesType, InsertExecutionType, StatementType,
     CommitType, EnvironmentType DEF Next, Progress
<1>2. CASE UNCHANGED vars
  BY <1>2 DEF vars, TypeOK, TablesType, LocalsType, LocalsInScope
<1> QED
  BY <1>1, <1>2

-----------------------------------------------------------------------------
(* What the open transactions and the executions together satisfy.         *)

SameKey(e, f) == e.rule = f.rule /\ e.tx = f.tx

Distinct(e, f) == ~SameKey(e, f) /\ e.id # f.id

(* OncePerTransaction is not inductive: it must hold of the rows of the    *)
(* open transactions too, among themselves and against the committed ones. *)
(* What holds of the key holds of the id.                                  *)
KeysUnique ==
    /\ \A e, f \in executions : e = f \/ Distinct(e, f)
    /\ \A p \in Workers : \A e, f \in txn[p].execution : e = f
    /\ \A p \in Workers : \A e \in txn[p].execution, f \in executions :
          Distinct(e, f)
    /\ \A p, q \in Workers : p # q =>
          \A e \in txn[p].execution, f \in txn[q].execution : Distinct(e, f)

(* No statement but the insert, the completion and the end of a database   *)
(* transaction touches an execution.                                       *)
LEMMA OtherStepsKeepExecutions ==
    ASSUME LocalsType, NEW p \in Workers,
           \/ \E t \in Txs : ProcessTransaction(p, t)
           \/ LoadRules(p) \/ EvaluateRule(p) \/ FinishCall(p)
           \/ SkipExecuted(p) \/ InsertTransfer(p) \/ UpdateRuleStats(p)
           \/ SendNotification(p) \/ LoadFails(p)
    PROVE  /\ UNCHANGED <<executions, rules, transactions>>
           /\ \A q \in Workers : txn'[q].execution = txn[q].execution
<1>1. UNCHANGED <<executions, rules, transactions>>
  BY DEF ProcessTransaction, LoadRules, EvaluateRule, FinishCall,
         SkipExecuted, InsertTransfer, UpdateRuleStats, SendNotification,
         LoadFails, tables, caches
<1>2. CASE InsertTransfer(p)
  <2>1. PICK X : txn' = [txn EXCEPT ![p].transfer = X]
    BY <1>2 DEF InsertTransfer
  <2> QED
    BY <1>1, <2>1 DEF LocalsType, Txn
<1>3. CASE UpdateRuleStats(p)
  BY <1>1, <1>3 DEF UpdateRuleStats, LocalsType, Txn
<1>4. CASE txn' = txn
  BY <1>1, <1>4
<1> QED
  BY <1>2, <1>3, <1>4
     DEF ProcessTransaction, LoadRules, EvaluateRule, FinishCall,
         SkipExecuted, SendNotification, LoadFails

LEMMA HandlersKeepExecutions ==
    ASSUME Handler \/ UNCHANGED vars
    PROVE  UNCHANGED <<executions, txn>>
  BY DEF Handler, CreateRule, UpdateRule, ToggleRule, DeleteRule,
         WriteTransaction, RemoveTransaction, vars, locals,
         tables, caches

LEMMA EndOfTransaction ==
    ASSUME LocalsType, NEW p \in Workers, Commit(p) \/ Rollback(p)
    PROVE  /\ txn' = [txn EXCEPT ![p] = NoTxn]
           /\ txn'[p].execution = {}
           /\ \A q \in Workers \ {p} : txn'[q] = txn[q]
<1>1. txn' = [txn EXCEPT ![p] = NoTxn]
  BY DEF Commit, Rollback
<1>2. txn'[p] = NoTxn /\ \A q \in Workers \ {p} : txn'[q] = txn[q]
  BY <1>1 DEF LocalsType
<1>3. NoTxn.execution = {}
  BY DEF NoTxn
<1> QED
  BY <1>1, <1>2, <1>3

(* The row an insert adds to its open transaction has a key and an id that *)
(* neither a committed nor another open execution has.                     *)
LEMMA InsertedRow ==
    ASSUME LocalsType, NEW p \in Workers, InsertExecution(p)
    PROVE  \E e :
              /\ txn' = [txn EXCEPT ![p].execution = {e}]
              /\ UNCHANGED executions
              /\ e.rule = CurrentRule(p).id /\ e.tx = call[p].tx
              /\ e.status = "pending"
              /\ \A f \in executions : Distinct(e, f)
              /\ \A q \in Workers : \A f \in txn[q].execution : Distinct(e, f)
<1>1. PICK id \in UnusedExecIds :
          txn' = [txn EXCEPT ![p].execution =
              {[id |-> id, rule |-> CurrentRule(p).id, tx |-> call[p].tx,
                user |-> AccountUser[call[p].row.account],
                amount |-> CalculateSavingsAmount(call[p].row, CurrentRule(p)),
                source |-> call[p].row.account,
                target |-> CurrentRule(p).target, status |-> "pending"]}]
  BY DEF InsertExecution
<1> DEFINE e == [id |-> id, rule |-> CurrentRule(p).id, tx |-> call[p].tx,
                 user |-> AccountUser[call[p].row.account],
                 amount |-> CalculateSavingsAmount(call[p].row, CurrentRule(p)),
                 source |-> call[p].row.account,
                 target |-> CurrentRule(p).target, status |-> "pending"]
<1>2. txn' = [txn EXCEPT ![p].execution = {e}] /\ UNCHANGED executions
  BY <1>1 DEF InsertExecution, tables, caches
<1>3. /\ e.rule = CurrentRule(p).id /\ e.tx = call[p].tx
      /\ e.status = "pending" /\ e.id = id
  OBVIOUS
<1> HIDE DEF e
<1>4. \A f \in executions : Distinct(e, f)
  BY <1>1, <1>3 DEF InsertExecution, ConstraintError, SameKey, Distinct,
                    UnusedExecIds
<1>5. \A q \in Workers : \A f \in txn[q].execution : Distinct(e, f)
  BY <1>1, <1>3 DEF InsertExecution, KeyHeld, Inserted, SameKey, Distinct,
                    UnusedExecIds
<1> QED
  BY <1>2, <1>3, <1>4, <1>5

(* Completing an execution changes nothing but its status.                 *)
LEMMA CompletedRows ==
    ASSUME LocalsType, NEW p \in Workers, MarkCompleted(p)
    PROVE  /\ UNCHANGED <<executions, rules, transactions>>
           /\ \A q \in Workers \ {p} : txn'[q] = txn[q]
           /\ txn'[p].execution =
                 {[e EXCEPT !.status = "completed"] : e \in txn[p].execution}
           /\ \A e \in txn'[p].execution :
                 \E f \in txn[p].execution :
                    /\ e = [f EXCEPT !.status = "completed"]
                    /\ SameKey(e, f) /\ e.id = f.id
<1>1. /\ UNCHANGED <<executions, rules, transactions>>
      /\ \A q \in Workers \ {p} : txn'[q] = txn[q]
  BY DEF MarkCompleted, tables, caches, LocalsType
<1>2. txn'[p].execution =
         {[e EXCEPT !.status = "completed"] : e \in txn[p].execution}
  BY DEF MarkCompleted, LocalsType, Txn
<1>3. txn[p].execution \subseteq Execution
  BY DEF LocalsType, Txn
<1> QED
  BY <1>1, <1>2, <1>3 DEF Execution, SameKey

-----------------------------------------------------------------------------
(* A rule saves at most once for a transaction.                            *)

LEMMA InitKeys == Init => KeysUnique
  BY DEF Init, KeysUnique, NoTxn

LEMMA NextKeys ==
    ASSUME LocalsType, KeysUnique, [Next]_vars
    PROVE  KeysUnique'
<1> USE DEF KeysUnique
<1>1. ASSUME NEW p \in Workers, InsertExecution(p)
      PROVE  KeysUnique'
  <2>1. PICK e :
           /\ txn' = [txn EXCEPT ![p].execution = {e}]
           /\ UNCHANGED executions
           /\ \A f \in executions : Distinct(e, f)
           /\ \A q \in Workers : \A f \in txn[q].execution : Distinct(e, f)
    BY <1>1, InsertedRow
  <2>2. txn'[p].execution = {e}
    BY <2>1 DEF LocalsType, Txn
  <2>3. \A q \in Workers : q # p => txn'[q] = txn[q]
    BY <2>1 DEF LocalsType
  <2> QED
    BY <2>1, <2>2, <2>3 DEF SameKey, Distinct
<1>2. ASSUME NEW p \in Workers, MarkCompleted(p)
      PROVE  KeysUnique'
  <2>1. /\ UNCHANGED executions
        /\ \A q \in Workers \ {p} : txn'[q] = txn[q]
        /\ \A e \in txn'[p].execution :
              \E f \in txn[p].execution :
                 /\ e = [f EXCEPT !.status = "completed"]
                 /\ SameKey(e, f) /\ e.id = f.id
    BY <1>2, CompletedRows
  <2> QED
    BY <2>1 DEF SameKey, Distinct
<1>3. ASSUME NEW p \in Workers, Commit(p)
      PROVE  KeysUnique'
  <2>1. executions' = executions \cup txn[p].execution
    BY <1>3 DEF Commit
  <2>2. /\ txn'[p].execution = {}
        /\ \A q \in Workers \ {p} : txn'[q] = txn[q]
    BY <1>3, EndOfTransaction
  <2> QED
    BY <2>1, <2>2 DEF SameKey, Distinct
<1>4. ASSUME NEW p \in Workers, Rollback(p)
      PROVE  KeysUnique'
  <2>1. UNCHANGED executions
    BY <1>4 DEF Rollback, tables, caches
  <2>2. /\ txn'[p].execution = {}
        /\ \A q \in Workers \ {p} : txn'[q] = txn[q]
    BY <1>4, EndOfTransaction
  <2> QED
    BY <2>1, <2>2 DEF SameKey, Distinct
<1>5. CASE Crash
  BY <1>5 DEF Crash, tables, caches, NoTxn
<1>6. ASSUME NEW p \in Workers,
             \/ \E t \in Txs : ProcessTransaction(p, t)
             \/ LoadRules(p) \/ EvaluateRule(p) \/ FinishCall(p)
             \/ SkipExecuted(p) \/ InsertTransfer(p) \/ UpdateRuleStats(p)
             \/ SendNotification(p) \/ LoadFails(p)
      PROVE  KeysUnique'
  BY <1>6, OtherStepsKeepExecutions DEF SameKey, Distinct
<1>7. CASE Handler \/ UNCHANGED vars
  BY <1>7, HandlersKeepExecutions DEF SameKey, Distinct
<1> QED
  BY <1>1, <1>2, <1>3, <1>4, <1>5, <1>6, <1>7 DEF Next, Progress, Fault

-----------------------------------------------------------------------------
(* No execution, committed or open, is orphaned.                           *)

LEMMA InitOrphans == Init => NoOrphans
  BY DEF Init, NoOrphans, NoTxn

(* Every execution of the next state has the key of one of this state, and *)
(* the rows those refer to stay.                                           *)
LEMMA OrphanFrame ==
    ASSUME NoOrphans,
           \A e \in executions' : \/ e \in executions
                                  \/ \E p \in Workers : e \in txn[p].execution,
           \A p \in Workers : \A e \in txn'[p].execution :
              \E f \in txn[p].execution : SameKey(e, f),
           \A r : RuleReferenced(r) /\ Live(rules, r) => Live(rules', r),
           \A t : TxReferenced(t) /\ Live(transactions, t)
                     => Live(transactions', t)
    PROVE  NoOrphans'
<1>1. ASSUME NEW e \in executions'
      PROVE  Live(rules', e.rule) /\ Live(transactions', e.tx)
  BY <1>1 DEF NoOrphans, RuleReferenced, TxReferenced
<1>2. ASSUME NEW p \in Workers, NEW e \in txn'[p].execution
      PROVE  Live(rules', e.rule) /\ Live(transactions', e.tx)
  <2>1. PICK f \in txn[p].execution : SameKey(e, f)
    BY <1>2
  <2> QED
    BY <2>1 DEF NoOrphans, RuleReferenced, TxReferenced, SameKey
<1> QED
  BY <1>1, <1>2 DEF NoOrphans

(* A commit and the handlers but the delete leave a rule's row in place.   *)
LEMMA CommitKeepsRules ==
    ASSUME TypeOK, NoOrphans, NEW p \in Workers, Commit(p), NEW r,
           Live(rules, r), RuleReferenced(r)
    PROVE  Live(rules', r)
<1>1. r \in Rules
  BY DEF RuleReferenced, TypeOK, TablesType, LocalsType, Txn, Execution
<1>2. rules[r] \in RuleRow
  BY <1>1 DEF TypeOK, TablesType, Live
<1>3. CASE rules'[r] = rules[r]
  BY <1>3 DEF Live
<1>4. CASE rules'[r] # rules[r]
  <2> DEFINE e == CHOOSE e \in txn[p].execution : TRUE
  <2>1. /\ rules'[r] = [rules[r] EXCEPT !.count = @ + 1,
                                       !.total = @ + e.amount]
        /\ e \in txn[p].execution
    BY <1>1, <1>4 DEF Commit
  <2>2. e.amount \in Nat
    BY <2>1 DEF TypeOK, LocalsType, Txn, Execution
  <2> HIDE DEF e
  <2>3. rules[r].count + 1 \in Nat /\ rules[r].total + e.amount \in Nat
    BY <1>2, <2>2 DEF RuleRow
  <2>4. rules'[r] \in RuleRow
    BY <1>2, <2>1, <2>3 DEF RuleRow
  <2> QED
    BY <2>4, MarkersAssumption DEF Live
<1> QED
  BY <1>3, <1>4

LEMMA HandlerKeepsRows ==
    ASSUME TypeOK, NoOrphans, Handler
    PROVE  /\ \A r : RuleReferenced(r) /\ Live(rules, r) => Live(rules', r)
           /\ \A t : TxReferenced(t) /\ Live(transactions, t)
                        => Live(transactions', t)
<1> USE DEF TypeOK
<1>1. ASSUME NEW q \in Rules,
             (\E u \in Users : CreateRule(q, u)) \/ DeleteRule(q)
      PROVE  /\ UNCHANGED transactions
             /\ \A r : RuleReferenced(r) /\ Live(rules, r) => Live(rules', r)
  BY <1>1 DEF CreateRule, DeleteRule, Live, TablesType, RuleReferenced,
              LocalsType, Txn, Execution
<1>2. ASSUME NEW q \in Rules, UpdateRule(q) \/ ToggleRule(q)
      PROVE  /\ UNCHANGED transactions
             /\ \A r : RuleReferenced(r) /\ Live(rules, r) => Live(rules', r)
  <2>1. rules[q] \in RuleRow
    BY <1>2 DEF UpdateRule, ToggleRule, Live, TablesType
  <2>2. PICK row \in RuleRow : rules' = [rules EXCEPT ![q] = row]
    <3>1. CASE UpdateRule(q)
      <4>1. PICK t \in Terms : rules' = [rules EXCEPT ![q].terms = t]
        BY <3>1 DEF UpdateRule
      <4>2. [rules[q] EXCEPT !.terms = t] \in RuleRow
        BY <2>1 DEF RuleRow
      <4> QED
        BY <4>1, <4>2 DEF TablesType
    <3>2. CASE ToggleRule(q)
      <4>1. PICK b \in BOOLEAN : rules' = [rules EXCEPT ![q].active = b]
        BY <3>2 DEF ToggleRule
      <4>2. [rules[q] EXCEPT !.active = b] \in RuleRow
        BY <2>1 DEF RuleRow
      <4> QED
        BY <4>1, <4>2 DEF TablesType
    <3> QED
      BY <1>2, <3>1, <3>2
  <2>3. UNCHANGED transactions
    BY <1>2 DEF UpdateRule, ToggleRule
  <2>4. \A r : Live(rules, r) /\ r \in Rules => Live(rules', r)
    BY <2>2, MarkersAssumption DEF Live, TablesType
  <2>5. \A r : RuleReferenced(r) => r \in Rules
    BY DEF RuleReferenced, TablesType, LocalsType, Txn, Execution
  <2> QED
    BY <2>3, <2>4, <2>5
<1>3. ASSUME NEW q \in Txs, WriteTransaction(q) \/ RemoveTransaction(q)
      PROVE  /\ UNCHANGED rules
             /\ \A t : TxReferenced(t) /\ Live(transactions, t)
                          => Live(transactions', t)
  <2>1. \A t : TxReferenced(t) => t \in Txs
    BY DEF TxReferenced, TablesType, LocalsType, Txn, Execution
  <2> QED
    BY <1>3, <2>1, MarkersAssumption
       DEF WriteTransaction, RemoveTransaction, Live, TablesType
<1> QED
  BY <1>1, <1>2, <1>3 DEF Handler

LEMMA NextOrphans ==
    ASSUME TypeOK, NoOrphans, [Next]_vars
    PROVE  NoOrphans'
<1>1. ASSUME NEW p \in Workers, InsertExecution(p)
      PROVE  NoOrphans'
  <2>1. PICK e :
           /\ txn' = [txn EXCEPT ![p].execution = {e}]
           /\ e.rule = CurrentRule(p).id /\ e.tx = call[p].tx
    BY <1>1, InsertedRow DEF TypeOK
  <2>2. /\ txn'[p].execution = {e}
        /\ \A q \in Workers : q # p => txn'[q] = txn[q]
    BY <2>1 DEF TypeOK, LocalsType, Txn
  <2>3. Live(rules, e.rule) /\ Live(transactions, e.tx)
    BY <1>1, <2>1 DEF InsertExecution, ConstraintError
  <2>4. UNCHANGED <<rules, transactions, executions>>
    BY <1>1 DEF InsertExecution, tables, caches
  <2> QED
    BY <2>2, <2>3, <2>4 DEF NoOrphans
<1>2. ASSUME NEW p \in Workers, MarkCompleted(p)
      PROVE  NoOrphans'
  <2>1. /\ UNCHANGED <<executions, rules, transactions>>
        /\ \A q \in Workers : \A e \in txn'[q].execution :
              \E f \in txn[q].execution : SameKey(e, f)
    BY <1>2, CompletedRows DEF TypeOK, SameKey
  <2> QED
    BY <2>1, OrphanFrame
<1>3. ASSUME NEW p \in Workers, Commit(p)
      PROVE  NoOrphans'
  <2>1. executions' = executions \cup txn[p].execution /\ UNCHANGED transactions
    BY <1>3 DEF Commit
  <2>2. /\ txn'[p].execution = {}
        /\ \A q \in Workers \ {p} : txn'[q] = txn[q]
    BY <1>3, EndOfTransaction DEF TypeOK
  <2>3. \A q \in Workers : \A e \in txn'[q].execution :
           \E f \in txn[q].execution : SameKey(e, f)
    BY <2>2 DEF SameKey
  <2>4. \A r : RuleReferenced(r) /\ Live(rules, r) => Live(rules', r)
    BY <1>3, CommitKeepsRules
  <2> QED
    BY <2>1, <2>3, <2>4, OrphanFrame
<1>4. ASSUME NEW p \in Workers, Rollback(p)
      PROVE  NoOrphans'
  <2>1. UNCHANGED tables
    BY <1>4 DEF Rollback
  <2>2. /\ txn'[p].execution = {}
        /\ \A q \in Workers \ {p} : txn'[q] = txn[q]
    BY <1>4, EndOfTransaction DEF TypeOK
  <2> QED
    BY <2>1, <2>2, OrphanFrame DEF SameKey, tables
<1>5. CASE Crash
  BY <1>5 DEF Crash, tables, caches, NoTxn, NoOrphans
<1>6. ASSUME NEW p \in Workers,
             \/ \E t \in Txs : ProcessTransaction(p, t)
             \/ LoadRules(p) \/ EvaluateRule(p) \/ FinishCall(p)
             \/ SkipExecuted(p) \/ InsertTransfer(p) \/ UpdateRuleStats(p)
             \/ SendNotification(p) \/ LoadFails(p)
      PROVE  NoOrphans'
  BY <1>6, OtherStepsKeepExecutions, OrphanFrame DEF TypeOK, SameKey
<1>7. CASE Handler
  BY <1>7, HandlersKeepExecutions, HandlerKeepsRows, OrphanFrame DEF SameKey
<1>8. CASE UNCHANGED vars
  BY <1>8, HandlersKeepExecutions, OrphanFrame
     DEF SameKey, vars, tables
<1> QED
  BY <1>1, <1>2, <1>3, <1>4, <1>5, <1>6, <1>7, <1>8 DEF Next, Progress, Fault

-----------------------------------------------------------------------------
(* The ledger is whole.                                                    *)

TransferOf(e) ==
    [execution |-> e.id, user |-> e.user, amount |-> e.amount,
     source |-> e.source, target |-> e.target, status |-> "suggested"]

Written == InRule \ {"execution"}

(* What an open database transaction holds at each statement: from the     *)
(* insert on one execution, then its transfer, then the lock, and at the   *)
(* end a completed execution.  The commit makes all of it visible.         *)
OpenWhole ==
    \A p \in Workers :
        /\ pc[p] \in Written => \E e : txn[p].execution = {e}
        /\ pc[p] \in Written \ {"transfer"} =>
              txn[p].transfer = {TransferOf(e) : e \in txn[p].execution}
        /\ pc[p] \in {"complete", "notify", "commit"} => txn[p].stats
        /\ pc[p] \in {"notify", "commit"} =>
              \A e \in txn[p].execution : e.status = "completed"

(* The committed tables: the transfers are the executions seen from the    *)
(* account side.                                                           *)
TablesWhole ==
    /\ \A e \in executions : e.status = "completed"
    /\ transfers = {TransferOf(e) : e \in executions}

LEMMA InitWhole == Init => OpenWhole /\ TablesWhole
<1> SUFFICES ASSUME Init PROVE OpenWhole /\ TablesWhole
  OBVIOUS
<1>1. OpenWhole
  BY DEF Init, OpenWhole, Written, InRule
<1>2. TablesWhole
  BY DEF Init, TablesWhole
<1> QED
  BY <1>1, <1>2

LEMMA NextOpenWhole ==
    ASSUME TypeOK, OpenWhole, [Next]_vars
    PROVE  OpenWhole'
<1> USE DEF TypeOK, Goto
<1>1. ASSUME NEW p \in Workers, InsertExecution(p)
      PROVE  OpenWhole'
  <2>1. PICK e : txn' = [txn EXCEPT ![p].execution = {e}]
    BY <1>1, InsertedRow
  <2>2. pc' = [pc EXCEPT ![p] = "transfer"]
    BY <1>1 DEF InsertExecution
  <2>3. txn'[p].execution = {e}
    BY <2>1 DEF LocalsType, Txn
  <2>4. \A q \in Workers \ {p} : pc'[q] = pc[q] /\ txn'[q] = txn[q]
    BY <2>1, <2>2 DEF LocalsType
  <2>5. pc'[p] = "transfer"
    BY <2>2 DEF LocalsType
  <2> QED
    BY <2>3, <2>4, <2>5 DEF OpenWhole, Written, InRule
<1>2. ASSUME NEW p \in Workers, InsertTransfer(p)
      PROVE  OpenWhole'
  <2> DEFINE X == {TransferOf(e) : e \in txn[p].execution}
  <2>1. txn' = [txn EXCEPT ![p].transfer = X]
    BY <1>2 DEF InsertTransfer, TransferOf
  <2>2. /\ pc[p] = "transfer" /\ pc'[p] = "stats"
        /\ \A q \in Workers \ {p} : pc'[q] = pc[q] /\ txn'[q] = txn[q]
    BY <1>2, <2>1 DEF InsertTransfer, LocalsType
  <2>3. txn'[p].execution = txn[p].execution /\ txn'[p].transfer = X
    BY <2>1 DEF LocalsType, Txn
  <2> QED
    BY <2>2, <2>3 DEF OpenWhole, Written, InRule
<1>3. ASSUME NEW p \in Workers, UpdateRuleStats(p)
      PROVE  OpenWhole'
  <2>1. /\ pc[p] = "stats" /\ pc'[p] = "complete"
        /\ \A q \in Workers \ {p} : pc'[q] = pc[q] /\ txn'[q] = txn[q]
        /\ txn'[p].execution = txn[p].execution
        /\ txn'[p].transfer = txn[p].transfer
        /\ txn'[p].stats
    BY <1>3 DEF UpdateRuleStats, LocalsType, Txn
  <2> QED
    BY <2>1 DEF OpenWhole, Written, InRule
<1>4. ASSUME NEW p \in Workers, MarkCompleted(p)
      PROVE  OpenWhole'
  <2>1. /\ pc[p] = "complete" /\ pc'[p] = "notify"
        /\ \A q \in Workers \ {p} : pc'[q] = pc[q] /\ txn'[q] = txn[q]
        /\ txn'[p].transfer = txn[p].transfer
        /\ txn'[p].stats = txn[p].stats
    BY <1>4 DEF MarkCompleted, LocalsType, Txn
  <2>2. PICK e : txn[p].execution = {e}
    BY <2>1 DEF OpenWhole, Written, InRule
  <2> DEFINE f == [e EXCEPT !.status = "completed"]
  <2>3. txn'[p].execution = {f}
    BY <1>4, <2>2, CompletedRows
  <2>4. e \in Execution
    BY <2>2 DEF LocalsType, Txn
  <2>5. f.status = "completed" /\ TransferOf(f) = TransferOf(e)
    BY <2>4 DEF Execution, TransferOf
  <2>6. txn[p].transfer = {TransferOf(e)}
    BY <2>1, <2>2 DEF OpenWhole, Written, InRule
  <2> HIDE DEF f
  <2>7. txn'[p].transfer = {TransferOf(g) : g \in txn'[p].execution}
    BY <2>1, <2>3, <2>5, <2>6
  <2> QED
    BY <2>1, <2>3, <2>5, <2>7 DEF OpenWhole, Written, InRule
<1>5. ASSUME NEW p \in Workers, SendNotification(p)
      PROVE  OpenWhole'
  BY <1>5 DEF SendNotification, OpenWhole, LocalsType, Written, InRule
<1>6. ASSUME NEW p \in Workers,
             \/ \E t \in Txs : ProcessTransaction(p, t)
             \/ LoadRules(p) \/ EvaluateRule(p) \/ FinishCall(p)
             \/ SkipExecuted(p) \/ LoadFails(p) \/ Commit(p) \/ Rollback(p)
      PROVE  OpenWhole'
  <2>1. /\ pc'[p] \notin Written
        /\ \A q \in Workers \ {p} : pc'[q] = pc[q]
    BY <1>6 DEF ProcessTransaction, LoadRules, EvaluateRule, FinishCall,
                SkipExecuted, LoadFails, Commit, Rollback, NextRule, Return,
                LocalsType, Written, InRule
  <2>2. \A q \in Workers \ {p} : txn'[q] = txn[q]
    <3>1. CASE Commit(p) \/ Rollback(p)
      BY <3>1, EndOfTransaction
    <3>2. CASE txn' = txn
      BY <3>2
    <3> QED
      BY <1>6, <3>1, <3>2 DEF ProcessTransaction, LoadRules, EvaluateRule,
         FinishCall, SkipExecuted, LoadFails
  <2> QED
    BY <2>1, <2>2 DEF OpenWhole, Written, InRule
<1>7. CASE Crash
  BY <1>7 DEF Crash, OpenWhole, Written, InRule
<1>8. CASE Handler \/ UNCHANGED vars
  <2>1. UNCHANGED <<pc, txn>>
    BY <1>8 DEF Handler, CreateRule, UpdateRule, ToggleRule, DeleteRule,
       WriteTransaction, RemoveTransaction, vars, locals
  <2> QED
    BY <2>1 DEF OpenWhole
<1> QED
  BY <1>1, <1>2, <1>3, <1>4, <1>5, <1>6, <1>7, <1>8 DEF Next, Progress, Fault

LEMMA NextTablesWhole ==
    ASSUME LocalsType, OpenWhole, TablesWhole, [Next]_vars
    PROVE  TablesWhole'
<1>1. ASSUME NEW p \in Workers, Commit(p)
      PROVE  TablesWhole'
  <2>1. /\ \A e \in txn[p].execution : e.status = "completed"
        /\ txn[p].transfer = {TransferOf(e) : e \in txn[p].execution}
    BY <1>1 DEF Commit, OpenWhole, Written, InRule
  <2>2. /\ executions' = executions \cup txn[p].execution
        /\ transfers' = transfers \cup txn[p].transfer
    BY <1>1 DEF Commit
  <2> QED
    BY <2>1, <2>2 DEF TablesWhole
<1>2. CASE UNCHANGED <<executions, transfers>>
  BY <1>2 DEF TablesWhole
<1>3. [Next]_vars => \/ \E p \in Workers : Commit(p)
                     \/ UNCHANGED <<executions, transfers>>
  BY DEF Next, Progress, Fault, Handler, ProcessTransaction, LoadRules,
         LoadFails, EvaluateRule, FinishCall, InsertExecution, SkipExecuted,
         InsertTransfer, UpdateRuleStats, MarkCompleted, SendNotification,
         Rollback, CreateRule, UpdateRule, ToggleRule, DeleteRule,
         WriteTransaction, RemoveTransaction, Crash, tables, caches, vars
<1> QED
  BY <1>1, <1>2, <1>3

-----------------------------------------------------------------------------
(* The counters.                                                           *)

(* A rule's count is that of its executions, and a rule never executed has *)
(* saved nothing.                                                          *)
Counted ==
    /\ IsFiniteSet(executions)
    /\ ExecutionCountsMatch
    /\ SavedTotalsMatch

LEMMA TotalsAreAmounts ==
    SavedTotalsMatch <=>
        \A r \in Rules : Live(rules, r) =>
            rules[r].total = AmountOf(ExecutionsOf(r))
  BY DEF SavedTotalsMatch, AmountOf

LEMMA InitCounted == Init => Counted
  BY FS_EmptySet, TotalsAreAmounts
     DEF Init, Counted, ExecutionCountsMatch, Live

(* What a commit does to the tables: one execution that was not there, and *)
(* the counters of its rule.                                               *)
LEMMA CommitEffect ==
    ASSUME TypeOK, KeysUnique, NoOrphans, OpenWhole,
           NEW p \in Workers, Commit(p)
    PROVE  \E e \in Execution :
              /\ e \notin executions
              /\ \A f \in executions : ~SameKey(e, f)
              /\ executions' = executions \cup {e}
              /\ Live(rules, e.rule) /\ rules[e.rule] \in RuleRow
              /\ rules'[e.rule].count = rules[e.rule].count + 1
              /\ rules'[e.rule].total = rules[e.rule].total + e.amount
              /\ \A r \in Rules : r # e.rule => rules'[r] = rules[r]
<1>1. /\ pc[p] = "commit"
      /\ executions' = executions \cup txn[p].execution
  BY DEF Commit
<1>2. PICK e : txn[p].execution = {e}
  BY <1>1 DEF OpenWhole, Written, InRule
<1>3. e \in Execution /\ txn[p].stats
  BY <1>1, <1>2 DEF TypeOK, LocalsType, Txn, OpenWhole
<1>4. \A f \in executions : Distinct(e, f)
  BY <1>2 DEF KeysUnique
<1>5. e \notin executions /\ \A f \in executions : ~SameKey(e, f)
  BY <1>4 DEF Distinct
<1>6. Live(rules, e.rule) /\ rules[e.rule] \in RuleRow
  BY <1>2, <1>3 DEF NoOrphans, TypeOK, TablesType, Live, Execution
<1>7. /\ rules'[e.rule] = [rules[e.rule] EXCEPT !.count = @ + 1,
                                                !.total = @ + e.amount]
      /\ \A r \in Rules : r # e.rule => rules'[r] = rules[r]
  <2>1. (CHOOSE f \in txn[p].execution : TRUE) = e
    BY <1>2
  <2> QED
    BY <1>2, <1>3, <2>1 DEF Commit, Execution
<1>8. /\ rules'[e.rule].count = rules[e.rule].count + 1
      /\ rules'[e.rule].total = rules[e.rule].total + e.amount
  BY <1>6, <1>7 DEF RuleRow
<1> QED
  BY <1>1, <1>2, <1>3, <1>5, <1>6, <1>7, <1>8

(* Whatever else writes the rules leaves the counters of a row alone,      *)
(* creates a row with zero counters or deletes one never executed.         *)
LEMMA HandlerEffect ==
    ASSUME TypeOK, Handler, NEW r \in Rules
    PROVE  \/ rules'[r] = rules[r]
           \/ /\ rules[r] = None
              /\ rules'[r].count = 0 /\ rules'[r].total = 0
           \/ /\ Live(rules, r) /\ rules[r] \in RuleRow
              /\ rules'[r].count = rules[r].count
              /\ rules'[r].total = rules[r].total
              /\ Live(rules', r)
           \/ /\ Live(rules, r) /\ ~RuleReferenced(r)
              /\ rules'[r] = Deleted
<1>1. CASE \E u \in Users : CreateRule(r, u)
  BY <1>1 DEF CreateRule, TypeOK, TablesType
<1>2. CASE UpdateRule(r) \/ ToggleRule(r)
  <2>1. rules[r] \in RuleRow
    BY <1>2 DEF UpdateRule, ToggleRule, TypeOK, TablesType, Live
  <2>2. /\ rules'[r] \in RuleRow
        /\ rules'[r].count = rules[r].count
        /\ rules'[r].total = rules[r].total
    BY <1>2, <2>1
       DEF UpdateRule, ToggleRule, TypeOK, TablesType, RuleRow
  <2> QED
    BY <1>2, <2>1, <2>2, MarkersAssumption DEF UpdateRule, ToggleRule, Live
<1>3. CASE DeleteRule(r)
  BY <1>3 DEF DeleteRule, TypeOK, TablesType
<1>4. CASE \E t \in Txs : WriteTransaction(t) \/ RemoveTransaction(t)
  BY <1>4 DEF WriteTransaction, RemoveTransaction
<1>5. ASSUME NEW q \in Rules, q # r,
             \/ \E u \in Users : CreateRule(q, u)
             \/ UpdateRule(q) \/ ToggleRule(q) \/ DeleteRule(q)
      PROVE  rules'[r] = rules[r]
  BY <1>5 DEF CreateRule, UpdateRule, ToggleRule, DeleteRule, TypeOK,
              TablesType
<1> QED
  BY <1>1, <1>2, <1>3, <1>4, <1>5 DEF Handler

(* Every other step leaves both tables alone.                              *)
LEMMA OnlyCommitAndHandlers ==
    ASSUME [Next]_vars
    PROVE  \/ \E p \in Workers : Commit(p)
           \/ Handler
           \/ UNCHANGED <<rules, executions, transfers>>
  BY DEF Next, Progress, Fault, ProcessTransaction, LoadRules,
         LoadFails, EvaluateRule, FinishCall, InsertExecution, SkipExecuted,
         InsertTransfer, UpdateRuleStats, MarkCompleted, SendNotification,
         Rollback, Crash, tables, caches, vars

LEMMA HandlersKeepLedger == Handler => UNCHANGED <<executions, transfers>>
  BY DEF Handler, CreateRule, UpdateRule, ToggleRule, DeleteRule,
         WriteTransaction, RemoveTransaction

LEMMA NextCounted ==
    ASSUME TypeOK, KeysUnique, NoOrphans, OpenWhole, Counted, [Next]_vars
    PROVE  Counted'
<1> USE DEF Counted, ExecutionCountsMatch
<1>0. ASSUME \A r \in Rules : Live(rules', r) =>
                rules'[r].total = AmountOf(ExecutionsOf(r)')
      PROVE  SavedTotalsMatch'
  <2>1. (SavedTotalsMatch <=>
            \A r \in Rules : Live(rules, r) =>
                rules[r].total = AmountOf(ExecutionsOf(r)))'
    BY TotalsAreAmounts, PTL
  <2> QED
    BY <1>0, <2>1 DEF Live
<1>1. ASSUME NEW p \in Workers, Commit(p)
      PROVE  Counted'
  <2>1. PICK e \in Execution :
           /\ e \notin executions
           /\ executions' = executions \cup {e}
           /\ Live(rules, e.rule) /\ rules[e.rule] \in RuleRow
           /\ rules'[e.rule].count = rules[e.rule].count + 1
           /\ rules'[e.rule].total = rules[e.rule].total + e.amount
           /\ \A r \in Rules : r # e.rule => rules'[r] = rules[r]
    BY <1>1, CommitEffect
  <2>2. IsFiniteSet(executions')
    BY <2>1, FS_AddElement
  <2>3. ASSUME NEW r \in Rules, Live(rules', r), r # e.rule
        PROVE  /\ rules'[r].count = Cardinality(ExecutionsOf(r)')
               /\ rules'[r].total = AmountOf(ExecutionsOf(r)')
    <3>1. ExecutionsOf(r)' = ExecutionsOf(r) /\ rules'[r] = rules[r]
      BY <2>1, <2>3 DEF ExecutionsOf, TypeOK, TablesType
    <3> QED
      BY <2>3, <3>1, TotalsAreAmounts DEF Live
  <2>4. ASSUME NEW r \in Rules, r = e.rule
        PROVE  /\ rules'[r].count = Cardinality(ExecutionsOf(r)')
               /\ rules'[r].total = AmountOf(ExecutionsOf(r)')
    <3>1. ExecutionsOf(r)' = ExecutionsOf(r) \cup {e}
      BY <2>1, <2>4 DEF ExecutionsOf
    <3>2. e \notin ExecutionsOf(r) /\ IsFiniteSet(ExecutionsOf(r))
      BY <2>1, FS_Subset DEF ExecutionsOf
    <3>3. Cardinality(ExecutionsOf(r)') = Cardinality(ExecutionsOf(r)) + 1
      BY <3>1, <3>2, FS_AddElement
    <3>4. rules'[r].count = rules[r].count + 1
      BY <2>1, <2>4
    <3>5. AmountOf(ExecutionsOf(r)') = AmountOf(ExecutionsOf(r)) + e.amount
      <4>1. /\ IsFiniteSet(ExecutionsOf(r)') /\ e \in ExecutionsOf(r)'
            /\ ExecutionsOf(r)' \ {e} = ExecutionsOf(r)
        BY <3>1, <3>2, FS_AddElement
      <4>2. \A x \in ExecutionsOf(r)' : x.amount \in Nat
        BY <3>1 DEF ExecutionsOf, TypeOK, TablesType, Execution
      <4> QED
        BY <4>1, <4>2, AmountWithout
    <3>6. rules'[r].total = rules[r].total + e.amount
      BY <2>1, <2>4
    <3>7. rules[r].total = AmountOf(ExecutionsOf(r))
      BY <2>1, <2>4, TotalsAreAmounts
    <3> QED
      BY <2>1, <2>4, <3>3, <3>4, <3>5, <3>6, <3>7
  <2> QED
    BY <1>0, <2>2, <2>3, <2>4
<1>2. CASE Handler
  <2>1. UNCHANGED executions
    BY <1>2, HandlersKeepLedger
  <2>2. ASSUME NEW r \in Rules, Live(rules', r)
        PROVE  /\ rules'[r].count = Cardinality(ExecutionsOf(r))
               /\ rules'[r].total = AmountOf(ExecutionsOf(r))
    <3>1. CASE rules'[r] = rules[r]
      BY <2>2, <3>1, TotalsAreAmounts DEF Live
    <3>2. CASE /\ rules[r] = None
               /\ rules'[r].count = 0 /\ rules'[r].total = 0
      <4>1. ExecutionsOf(r) = {}
        BY <3>2 DEF ExecutionsOf, NoOrphans, Live
      <4> QED
        BY <3>2, <4>1, FS_EmptySet, AmountStep
    <3>3. CASE /\ Live(rules, r)
               /\ rules'[r].count = rules[r].count
               /\ rules'[r].total = rules[r].total
      BY <3>3, TotalsAreAmounts
    <3> QED
      BY <1>2, <2>2, <3>1, <3>2, <3>3, HandlerEffect DEF Live
  <2>3. \A r \in Rules : ExecutionsOf(r)' = ExecutionsOf(r)
    BY <2>1 DEF ExecutionsOf
  <2> QED
    BY <1>0, <2>1, <2>2, <2>3
<1>3. CASE UNCHANGED <<rules, executions>>
  <2>1. \A r \in Rules : /\ ExecutionsOf(r)' = ExecutionsOf(r)
                         /\ Live(rules', r) => Live(rules, r)
    BY <1>3 DEF ExecutionsOf, Live
  <2> QED
    BY <1>0, <1>3, <2>1, TotalsAreAmounts
<1> QED
  BY <1>1, <1>2, <1>3, OnlyCommitAndHandlers

-----------------------------------------------------------------------------
(* The inductive invariant and the theorems.                               *)

IInv ==
    /\ TypeOK
    /\ KeysUnique
    /\ NoOrphans
    /\ OpenWhole
    /\ TablesWhole
    /\ Counted

(* The invariant is inductive: true at the start and kept by every step of *)
(* every worker, handler, sync and crash.                                  *)
THEOREM Inductive == Spec => []IInv
<1>1. Init => IInv
  BY InitType, InitKeys, InitOrphans, InitWhole, InitCounted DEF IInv
<1>2. IInv /\ [Next]_vars => IInv'
  <2> SUFFICES ASSUME IInv, [Next]_vars PROVE IInv'
    OBVIOUS
  <2>1. LocalsType
    BY DEF IInv, TypeOK
  <2> QED
    BY <2>1, NextType, NextKeys, NextOrphans, NextOpenWhole, NextTablesWhole,
       NextCounted DEF IInv
<1> QED
  BY <1>1, <1>2, PTL DEF Spec

(* Type correctness.                                                       *)
THEOREM TypeCorrect == Spec => []TypeOK
<1>1. IInv => TypeOK
  BY DEF IInv
<1> QED
  BY <1>1, Inductive, PTL

(* However many syncs process a transaction, a rule saves once for it.     *)
THEOREM SavesOnce == Spec => []OncePerTransaction
<1>1. IInv => OncePerTransaction
  BY DEF IInv, KeysUnique, OncePerTransaction, Distinct, SameKey
<1> QED
  BY <1>1, Inductive, PTL

(* No interleaving with a delete orphans an execution.                     *)
THEOREM NothingOrphaned == Spec => []NoOrphans
<1>1. IInv => NoOrphans
  BY DEF IInv
<1> QED
  BY <1>1, Inductive, PTL

(* Every visible execution is completed and has exactly its transfer.      *)
THEOREM LedgerIsWhole == Spec => []LedgerWhole
<1>1. ASSUME IInv PROVE LedgerWhole
  <2>1. \A e, f \in executions : e.id = f.id => e = f
    BY <1>1 DEF IInv, KeysUnique, Distinct
  <2>2. \A e \in executions :
          /\ e.status = "completed"
          /\ TransferOf(e) \in transfers
    BY <1>1 DEF IInv, TablesWhole
  <2>3. \A x \in transfers : \E e \in executions : x = TransferOf(e)
    BY <1>1 DEF IInv, TablesWhole
  <2>4. ASSUME NEW e \in executions
        PROVE  \E x \in transfers :
                  /\ x.execution = e.id
                  /\ x.amount = e.amount
                  /\ x.source = e.source /\ x.target = e.target
                  /\ x.user = e.user
    BY <2>2 DEF TransferOf
  <2>5. \A x \in transfers : \E e \in executions : e.id = x.execution
    BY <2>3 DEF TransferOf
  <2>6. \A x, y \in transfers : x.execution = y.execution => x = y
    BY <2>1, <2>3 DEF TransferOf
  <2> QED
    BY <2>2, <2>4, <2>5, <2>6 DEF LedgerWhole
<1> QED
  BY <1>1, Inductive, PTL

(* The execution count shown with a rule is exact.                         *)
THEOREM CountsExact == Spec => []ExecutionCountsMatch
<1>1. IInv => ExecutionCountsMatch
  BY DEF IInv, Counted
<1> QED
  BY <1>1, Inductive, PTL

(* The total saved shown with a rule is the sum of what its executions     *)
(* saved, whatever the handlers write to the row meanwhile.                *)
THEOREM TotalsExact == Spec => []SavedTotalsMatch
<1>1. IInv => SavedTotalsMatch
  BY DEF IInv, Counted
<1> QED
  BY <1>1, Inductive, PTL

(* No step takes back or rewrites an execution or a transfer.              *)
THEOREM NothingTakenBack == Spec => AppendOnly
<1>1. [Next]_vars => [executions \subseteq executions' /\
                      transfers \subseteq transfers']_vars
  <2> SUFFICES ASSUME [Next]_vars
               PROVE  executions \subseteq executions' /\
                      transfers \subseteq transfers'
    OBVIOUS
  <2>1. ASSUME NEW p \in Workers, Commit(p)
        PROVE  executions \subseteq executions' /\
               transfers \subseteq transfers'
    BY <2>1 DEF Commit
  <2> QED
    BY <2>1, OnlyCommitAndHandlers, HandlersKeepLedger
<1> QED
  BY <1>1, PTL DEF Spec, AppendOnly

-----------------------------------------------------------------------------
(* Who waits for whom.                                                     *)

(* The insert of p waits for q, which has inserted the same key, or its    *)
(* update waits for q, which has updated the row of the rule.              *)
AwaitsKey(p, q) ==
    pc[p] = "execution" /\ Inserted(q, CurrentRule(p).id, call[p].tx)

AwaitsRow(p, q) ==
    /\ pc[p] = "stats" /\ txn[q].stats
    /\ \E e \in txn[q].execution : e.rule = CurrentRule(p).id

Awaits(p, q) == AwaitsKey(p, q) \/ AwaitsRow(p, q)

(* One who waits for a key waits for one who waits for a row at most, and  *)
(* that one for one who waits for nobody: the database never finds the     *)
(* statements of executeRule in a deadlock (engine.go:228, 276), however   *)
(* many calls process the same transactions.                               *)
WaitsEnd ==
    \A p, q \in Workers : Awaits(p, q) =>
        /\ p # q
        /\ AwaitsRow(p, q) => \A s \in Workers : ~Awaits(q, s)
        /\ \A s \in Workers : ~AwaitsKey(q, s)

(* A transaction locks the row of its rule last.                           *)
RowLockedLast ==
    \A p \in Workers : pc[p] \in {"transfer", "stats"} => ~txn[p].stats

LEMMA InitRowLock == Init => RowLockedLast
  BY DEF Init, RowLockedLast

LEMMA NextRowLock ==
    ASSUME TypeOK, RowLockedLast, [Next]_vars
    PROVE  RowLockedLast'
<1> USE DEF TypeOK, Goto
<1>1. ASSUME NEW p \in Workers, InsertExecution(p)
      PROVE  RowLockedLast'
  <2>1. PICK e : txn' = [txn EXCEPT ![p].execution = {e}]
    BY <1>1, InsertedRow
  <2>2. pc[p] = "execution" /\ pc' = [pc EXCEPT ![p] = "transfer"]
    BY <1>1 DEF InsertExecution
  <2>3. txn[p] = NoTxn
    BY <2>2 DEF LocalsInScope
  <2>4. ~txn'[p].stats
    BY <2>1, <2>3 DEF LocalsType, NoTxn
  <2>5. \A q \in Workers \ {p} : pc'[q] = pc[q] /\ txn'[q] = txn[q]
    BY <2>1, <2>2 DEF LocalsType
  <2> QED
    BY <2>4, <2>5 DEF RowLockedLast
<1>2. ASSUME NEW p \in Workers, InsertTransfer(p)
      PROVE  RowLockedLast'
  <2>1. /\ pc[p] = "transfer" /\ txn'[p].stats = txn[p].stats
        /\ \A q \in Workers \ {p} : pc'[q] = pc[q] /\ txn'[q] = txn[q]
    BY <1>2 DEF InsertTransfer, LocalsType, Txn
  <2> QED
    BY <2>1 DEF RowLockedLast
<1>3. ASSUME NEW p \in Workers,
             \/ \E t \in Txs : ProcessTransaction(p, t)
             \/ LoadRules(p) \/ EvaluateRule(p) \/ FinishCall(p)
             \/ SkipExecuted(p) \/ LoadFails(p) \/ Commit(p) \/ Rollback(p)
             \/ UpdateRuleStats(p) \/ MarkCompleted(p) \/ SendNotification(p)
      PROVE  RowLockedLast'
  <2>1. /\ pc'[p] \notin {"transfer", "stats"}
        /\ \A q \in Workers \ {p} : pc'[q] = pc[q]
    BY <1>3 DEF ProcessTransaction, LoadRules, EvaluateRule, FinishCall,
                SkipExecuted, LoadFails, Commit, Rollback, UpdateRuleStats,
                MarkCompleted, SendNotification, NextRule, Return,
                LocalsType, InRule
  <2>2. \A q \in Workers \ {p} : txn'[q] = txn[q]
    BY <1>3, EndOfTransaction
       DEF ProcessTransaction, LoadRules, EvaluateRule, FinishCall,
           SkipExecuted, LoadFails, UpdateRuleStats, MarkCompleted,
           SendNotification, LocalsType
  <2> QED
    BY <2>1, <2>2 DEF RowLockedLast
<1>4. CASE Crash
  BY <1>4 DEF Crash, RowLockedLast
<1>5. CASE Handler \/ UNCHANGED vars
  <2>1. UNCHANGED <<pc, txn>>
    BY <1>5 DEF Handler, CreateRule, UpdateRule, ToggleRule, DeleteRule,
       WriteTransaction, RemoveTransaction, vars, locals
  <2> QED
    BY <2>1 DEF RowLockedLast
<1> QED
  BY <1>1, <1>2, <1>3, <1>4, <1>5 DEF Next, Progress, Fault

(* The statements of a transaction take their locks in one order.          *)
THEOREM NoWaitInCircle == Spec => []WaitsEnd
<1>1. ASSUME IInv, RowLockedLast PROVE WaitsEnd
  <2>1. SUFFICES ASSUME NEW p \in Workers, NEW q \in Workers, Awaits(p, q)
                 PROVE  /\ p # q
                        /\ AwaitsRow(p, q) => \A s \in Workers : ~Awaits(q, s)
                        /\ \A s \in Workers : ~AwaitsKey(q, s)
    BY DEF WaitsEnd
  <2>2. txn[q].execution # {}
    BY <2>1 DEF Awaits, AwaitsKey, AwaitsRow, Inserted
  <2>3. pc[q] \in InRule \ {"execution"}
    <3>1. txn[q] # NoTxn
      BY <2>2 DEF NoTxn
    <3> QED
      BY <1>1, <3>1 DEF IInv, TypeOK, LocalsInScope
  <2>4. \A s \in Workers : ~AwaitsKey(q, s)
    BY <2>3 DEF AwaitsKey
  <2>5. ASSUME AwaitsRow(p, q)
        PROVE  pc[q] \notin {"transfer", "stats"}
    BY <1>1, <2>5 DEF AwaitsRow, RowLockedLast
  <2>6. p # q
    BY <2>1, <2>3, <2>5 DEF Awaits, AwaitsKey, AwaitsRow
  <2> QED
    BY <2>4, <2>5, <2>6 DEF Awaits, AwaitsRow
<1>2. IInv /\ RowLockedLast /\ [Next]_vars => RowLockedLast'
  BY NextRowLock DEF IInv
<1> QED
  BY <1>1, <1>2, InitRowLock, Inductive, PTL DEF Spec

(* How many statements and evaluations a call can have before it, once it  *)
(* has loaded its rules.                                                   *)
PlaceInRule ==
    [match |-> 6, execution |-> 5, transfer |-> 4, stats |-> 3,
     complete |-> 2, notify |-> 1, commit |-> 0]

InLoop == {"match"} \cup InRule

StepsLeft(p) == 7 * (Len(loaded[p]) + 1 - at[p]) + PlaceInRule[pc[p]]

(* A call begins, loads its rules and comes nearer to its end with each of *)
(* its steps: it never returns to a rule, not even to one whose statement  *)
(* failed (engine.go:126), and what others write meanwhile gives it no     *)
(* more to do.                                                             *)
NearsItsEnd(p) ==
    \/ UNCHANGED <<pc[p], at[p], loaded[p]>>
    \/ pc'[p] = "idle"
    \/ pc[p] = "idle" /\ pc'[p] = "rules"
    \/ pc[p] = "rules" /\ pc'[p] = "match"
    \/ /\ pc[p] \in InLoop /\ pc'[p] \in InLoop
       /\ StepsLeft(p) \in Nat /\ StepsLeft(p)' < StepsLeft(p)

CallsNearTheirEnd == [][\A p \in Workers : NearsItsEnd(p)]_vars

LEMMA StepsLeftType ==
    ASSUME TypeOK, NEW p \in Workers, pc[p] \in InLoop
    PROVE  StepsLeft(p) \in Nat
<1>1. at[p] \in 1..(Len(loaded[p]) + 1) /\ Len(loaded[p]) \in Nat
  BY DEF TypeOK, LocalsType, LocalsInScope
<1>2. PlaceInRule[pc[p]] \in 0..6
  BY DEF PlaceInRule, InLoop, InRule
<1> DEFINE n == Len(loaded[p]) + 1 - at[p]
           m == PlaceInRule[pc[p]]
<1>3. n \in Nat /\ m \in Nat
  BY <1>1, <1>2
<1> HIDE DEF n, m
<1>4. 7 * n + m \in Nat
  BY <1>3
<1> QED
  BY <1>4 DEF StepsLeft, n, m

(* A step of a worker is a step of its call only.                          *)
LEMMA StepOfCall ==
    ASSUME TypeOK, NEW p \in Workers,
           \/ \E t \in Txs : ProcessTransaction(p, t)
           \/ Progress(p) \/ Fault(p)
    PROVE  /\ NearsItsEnd(p)
           /\ \A q \in Workers \ {p} : UNCHANGED <<pc[q], at[q], loaded[q]>>
<1> USE DEF TypeOK, LocalsType, Goto
<1>1. CASE \E t \in Txs : ProcessTransaction(p, t)
  BY <1>1 DEF ProcessTransaction, NearsItsEnd
<1>2. CASE LoadRules(p)
  BY <1>2 DEF LoadRules, NearsItsEnd
<1>3. CASE LoadFails(p) \/ FinishCall(p)
  BY <1>3 DEF LoadFails, FinishCall, Return, NearsItsEnd
<1>4. /\ at[p] \in Nat /\ Len(loaded[p]) \in Nat
      /\ pc[p] \in InLoop => PlaceInRule[pc[p]] \in 0..6
  BY DEF PlaceInRule, InLoop, InRule
<1>5. ASSUME NextRule(p), UNCHANGED loaded, pc[p] \in InLoop
      PROVE  /\ NearsItsEnd(p)
             /\ \A q \in Workers \ {p} : UNCHANGED <<pc[q], at[q], loaded[q]>>
  <2>1. /\ pc'[p] = "match" /\ at'[p] = at[p] + 1 /\ loaded'[p] = loaded[p]
        /\ \A q \in Workers \ {p} : UNCHANGED <<pc[q], at[q], loaded[q]>>
    BY <1>5 DEF NextRule
  <2>2. PlaceInRule["match"] = 6 /\ PlaceInRule[pc[p]] >= 0
    BY <1>4, <1>5 DEF PlaceInRule
  <2>3. pc[p] # "match" => at[p] \in Nat
    BY <1>4
  <2>4. StepsLeft(p)' < StepsLeft(p)
    BY <1>4, <1>5, <2>1, <2>2 DEF StepsLeft
  <2> QED
    BY <1>5, <2>1, <2>4, StepsLeftType DEF NearsItsEnd, InLoop
<1>6. ASSUME NEW l \in InLoop, UNCHANGED <<at, loaded>>,
             pc' = [pc EXCEPT ![p] = l], pc[p] \in InLoop,
             PlaceInRule[l] < PlaceInRule[pc[p]]
      PROVE  /\ NearsItsEnd(p)
             /\ \A q \in Workers \ {p} : UNCHANGED <<pc[q], at[q], loaded[q]>>
  <2>1. PlaceInRule[l] \in 0..6
    BY <1>6 DEF PlaceInRule, InLoop, InRule
  <2>2. StepsLeft(p)' < StepsLeft(p)
    BY <1>4, <1>6, <2>1 DEF StepsLeft
  <2> QED
    BY <1>6, <2>2, StepsLeftType DEF NearsItsEnd
<1>7. CASE EvaluateRule(p)
  BY <1>5, <1>6, <1>7 DEF EvaluateRule, PlaceInRule, InLoop, InRule
<1>8. CASE SkipExecuted(p) \/ Commit(p) \/ Rollback(p)
  BY <1>5, <1>8 DEF SkipExecuted, Commit, Rollback, InLoop, InRule
<1>9. CASE InsertExecution(p)
  BY <1>6, <1>9 DEF InsertExecution, PlaceInRule, InLoop, InRule
<1>10. CASE InsertTransfer(p) \/ UpdateRuleStats(p)
  BY <1>6, <1>10
     DEF InsertTransfer, UpdateRuleStats, PlaceInRule, InLoop, InRule
<1>11. CASE MarkCompleted(p) \/ SendNotification(p)
  BY <1>6, <1>11
     DEF MarkCompleted, SendNotification, PlaceInRule, InLoop, InRule
<1> QED
  BY <1>1, <1>2, <1>3, <1>7, <1>8, <1>9, <1>10, <1>11 DEF Progress, Fault

(* Calls have finitely many steps, however many rules they have loaded,    *)
(* whatever fails and whatever the others do: each step but the first two  *)
(* takes something from a natural number.                                  *)
THEOREM CallsRunOut == Spec => CallsNearTheirEnd
<1>1. ASSUME IInv, [Next]_vars
      PROVE  \A p \in Workers : NearsItsEnd(p)
  <2> SUFFICES ASSUME NEW p \in Workers PROVE NearsItsEnd(p)
    OBVIOUS
  <2>1. ASSUME NEW q \in Workers,
               \/ \E t \in Txs : ProcessTransaction(q, t)
               \/ Progress(q) \/ Fault(q)
        PROVE  NearsItsEnd(p)
    BY <1>1, <2>1, StepOfCall DEF IInv, NearsItsEnd
  <2>2. CASE Handler \/ UNCHANGED vars
    <3>1. UNCHANGED <<pc, at, loaded>>
      BY <2>2 DEF Handler, CreateRule, UpdateRule, ToggleRule, DeleteRule,
         WriteTransaction, RemoveTransaction, vars, locals
    <3> QED
      BY <3>1 DEF NearsItsEnd
  <2>3. CASE Crash
    BY <2>3 DEF Crash, NearsItsEnd
  <2> QED
    BY <1>1, <2>1, <2>2, <2>3 DEF Next
<1>2. IInv /\ [Next]_vars => [\A p \in Workers : NearsItsEnd(p)]_vars
  BY <1>1
<1> QED
  BY <1>2, Inductive, PTL DEF Spec, CallsNearTheirEnd

-----------------------------------------------------------------------------
(* Refinement.                                                             *)

EntryOf(e) == [rule |-> e.rule, tx |-> e.tx, amount |-> e.amount,
               source |-> e.source, target |-> e.target]

Count == [r \in Rules |-> IF Live(rules, r) THEN rules[r].count ELSE 0]
Total == [r \in Rules |-> IF Live(rules, r) THEN rules[r].total ELSE 0]

LEMMA EntriesOfExecutions ==
    ASSUME KeysUnique, TablesWhole
    PROVE  Entries = {EntryOf(e) : e \in executions}
<1>1. ASSUME NEW e \in executions PROVE EntryOf(e) \in Entries
  <2>1. <<e, TransferOf(e)>> \in
           {q \in executions \X transfers : q[2].execution = q[1].id}
    BY DEF TablesWhole, TransferOf
  <2> QED
    BY <2>1 DEF Entries, EntryOf, TransferOf
<1>2. ASSUME NEW y \in Entries PROVE \E e \in executions : y = EntryOf(e)
  <2>1. PICK q \in executions \X transfers :
           /\ q[2].execution = q[1].id
           /\ y = [rule |-> q[1].rule, tx |-> q[1].tx,
                   amount |-> q[2].amount, source |-> q[2].source,
                   target |-> q[2].target]
    BY DEF Entries
  <2>2. PICK f \in executions : q[2] = TransferOf(f)
    BY <2>1 DEF TablesWhole
  <2>3. f = q[1]
    BY <2>1, <2>2 DEF TransferOf, KeysUnique, Distinct
  <2> QED
    BY <2>1, <2>2, <2>3 DEF TransferOf, EntryOf
<1> QED
  BY <1>1, <1>2

(* The engine implements the ledger it promises: a commit is one entry     *)
(* with its counters, every other step is invisible.                       *)
THEOREM EngineImplementsLedger == Spec => ImplementsLedger
<1>1. Init => Ledger!Init
  BY DEF Init, Ledger!Init, Entries, Live
<1>2. IInv => Entries = {EntryOf(e) : e \in executions}
  BY EntriesOfExecutions DEF IInv
<1>3. (IInv => Entries = {EntryOf(e) : e \in executions})'
  BY <1>2, PTL
<1>4. ASSUME IInv, IInv', [Next]_vars
      PROVE  [Ledger!Save]_<<Entries, Count, Total>>
  <2>1. /\ Entries = {EntryOf(e) : e \in executions}
        /\ Entries' = {EntryOf(e) : e \in executions'}
    BY <1>2, <1>3, <1>4
  <2>2. ASSUME NEW p \in Workers, Commit(p)
        PROVE  Ledger!Save
    <3>1. PICK e \in Execution :
           /\ \A f \in executions : ~SameKey(e, f)
           /\ executions' = executions \cup {e}
           /\ Live(rules, e.rule)
           /\ rules'[e.rule].count = rules[e.rule].count + 1
           /\ rules'[e.rule].total = rules[e.rule].total + e.amount
           /\ \A r \in Rules : r # e.rule => rules'[r] = rules[r]
      BY <1>4, <2>2, CommitEffect DEF IInv
    <3>2. Live(rules', e.rule)
      BY <1>4, <3>1 DEF IInv, NoOrphans
    <3>3. /\ Count' = [Count EXCEPT ![e.rule] = @ + 1]
          /\ Total' = [Total EXCEPT ![e.rule] = @ + e.amount]
      BY <3>1, <3>2 DEF Count, Total, Live, Execution
    <3>4. \A x \in Entries : x.rule # e.rule \/ x.tx # e.tx
      BY <2>1, <3>1 DEF EntryOf, SameKey
    <3>5. EntryOf(e) \in Entries' \ Entries
      BY <2>1, <3>1, <3>4 DEF EntryOf
    <3>6. Entries' = Entries \cup {EntryOf(e)}
      BY <2>1, <3>1
    <3>7. EntryOf(e) \in Ledger!Entry
      BY DEF EntryOf, Ledger!Entry, Execution
    <3>8. /\ EntryOf(e).rule = e.rule /\ EntryOf(e).tx = e.tx
          /\ EntryOf(e).amount = e.amount
      BY DEF EntryOf
    <3> DEFINE y == EntryOf(e)
    <3>9. /\ y \in Entries' \ Entries /\ y \in Ledger!Entry
          /\ \A x \in Entries : x.rule # y.rule \/ x.tx # y.tx
          /\ Entries' = Entries \cup {y}
          /\ Count' = [Count EXCEPT ![y.rule] = @ + 1]
          /\ Total' = [Total EXCEPT ![y.rule] = @ + y.amount]
      BY <3>3, <3>4, <3>5, <3>6, <3>7, <3>8
    <3> HIDE DEF y
    <3> QED
      BY <3>9 DEF Ledger!Save, Count, Total
  <2>3. CASE Handler
    <3>1. UNCHANGED executions
      BY <2>3, HandlersKeepLedger
    <3>2. ASSUME NEW r \in Rules
          PROVE  Count'[r] = Count[r] /\ Total'[r] = Total[r]
      <4>1. CASE rules'[r] = rules[r]
        BY <4>1 DEF Count, Total, Live
      <4>2. CASE /\ rules[r] = None
                 /\ rules'[r].count = 0 /\ rules'[r].total = 0
        BY <4>2 DEF Count, Total, Live
      <4>3. CASE /\ Live(rules, r) /\ rules[r] \in RuleRow
                 /\ rules'[r].count = rules[r].count
                 /\ rules'[r].total = rules[r].total
                 /\ Live(rules', r)
        BY <4>3 DEF Count, Total, Live
      <4>4. CASE /\ Live(rules, r) /\ ~RuleReferenced(r)
                 /\ rules'[r] = Deleted
        <5>1. ExecutionsOf(r) = {}
          BY <4>4 DEF RuleReferenced, ExecutionsOf
        <5>2. rules[r].count = 0 /\ rules[r].total = 0
          BY <1>4, <4>4, <5>1, FS_EmptySet, AmountStep, TotalsAreAmounts
             DEF IInv, Counted, ExecutionCountsMatch
        <5> QED
          BY <4>4, <5>2 DEF Count, Total, Live
      <4> QED
        BY <1>4, <2>3, <4>1, <4>2, <4>3, <4>4, HandlerEffect DEF IInv
    <3> QED
      BY <2>1, <3>1, <3>2 DEF Count, Total
  <2>4. CASE UNCHANGED <<rules, executions, transfers>>
    BY <2>4 DEF Entries, Count, Total, Live
  <2> QED
    BY <1>4, <2>2, <2>3, <2>4, OnlyCommitAndHandlers
<1> QED
  BY <1>1, <1>4, Inductive, PTL DEF Spec, ImplementsLedger, Ledger!Spec, Count, Total
=============================================================================
