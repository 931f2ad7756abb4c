----------------------- MODULE RuleEngineCallsProofs -----------------------
(***************************************************************************)
(* What the calls of RuleEngine know of the rules and transactions they    *)
(* have loaded, perhaps from the cache, and what follows for the owners of *)
(* what they write, for the matches they find and for those they notify.   *)
(* All of it rests on the inductive invariant IInv of RuleEngineProofs.    *)
(***************************************************************************)
EXTENDS RuleEngineProofs

(* The accounts of a rule's owner, of which the target is a savings one.   *)
OwnTarget(target, u) ==
    AccountUser[target] = u /\ target \in SavingsAccounts

(* A loaded rule is that of the user it was loaded for.  Its row was there *)
(* once and is still the same user's, or deleted.                          *)
OwnRule(l, u) ==
    /\ l.user = u /\ OwnTarget(l.target, u)
    /\ rules[l.id] # None
    /\ Live(rules, l.id) => rules[l.id].user = u

Caller(p) == AccountUser[call[p].row.account]

RowsOwned ==
    \A r \in Rules : Live(rules, r) => OwnTarget(rules[r].target, rules[r].user)

RulesKnown ==
    /\ \A u \in Users : ruleCache[u] # None =>
          \A i \in 1..Len(ruleCache[u]) : OwnRule(ruleCache[u][i], u)
    /\ \A p \in Workers : \A i \in 1..Len(loaded[p]) :
          OwnRule(loaded[p][i], Caller(p))
    /\ \A p \in Workers : pc[p] \in {"idle", "rules"} => loaded[p] = <<>>

(* A transaction a call or the cache knows of was stored once.             *)
TxsKnown ==
    /\ \A t \in Txs : txCache[t] # None => transactions[t] # None
    /\ \A p \in Workers : pc[p] # "idle" => transactions[call[p].tx] # None

(* An open execution is of the rule the call is at.                        *)
OpenKeys ==
    \A p \in Workers : pc[p] \in Written =>
        \A e \in txn[p].execution :
            e.rule = CurrentRule(p).id /\ e.tx = call[p].tx

OwnedBy(e) ==
    /\ AccountUser[e.source] = e.user
    /\ OwnTarget(e.target, e.user)
    /\ rules[e.rule].user = e.user

Owned ==
    /\ \A e \in executions : OwnedBy(e)
    /\ \A p \in Workers : \A e \in txn[p].execution : OwnedBy(e)

-----------------------------------------------------------------------------
(* How a step changes the row of a rule or a transaction.                  *)

(* A row is created for its user's savings account; then its user and its  *)
(* target never change, and once deleted it stays so.                      *)
LEMMA RuleSteps ==
    ASSUME TypeOK, NoOrphans, [Next]_vars, NEW r \in Rules
    PROVE  \/ rules'[r] = rules[r]
           \/ /\ rules[r] = None /\ Live(rules', r)
              /\ OwnTarget(rules'[r].target, rules'[r].user)
           \/ Live(rules, r) /\ rules'[r] = Deleted
           \/ /\ Live(rules, r) /\ Live(rules', r)
              /\ rules'[r].user = rules[r].user
              /\ rules'[r].target = rules[r].target
<1> USE DEF TypeOK
<1>1. ASSUME NEW p \in Workers, Commit(p), rules'[r] # rules[r]
      PROVE  /\ Live(rules, r) /\ Live(rules', r)
             /\ rules'[r].user = rules[r].user
             /\ rules'[r].target = rules[r].target
  <2> DEFINE e == CHOOSE e \in txn[p].execution : TRUE
  <2>1. /\ rules'[r] = [rules[r] EXCEPT !.count = @ + 1,
                                        !.total = @ + e.amount]
        /\ \E f \in txn[p].execution : f.rule = r
    BY <1>1 DEF Commit
  <2> HIDE DEF e
  <2>2. Live(rules, r) /\ RuleReferenced(r)
    BY <2>1 DEF NoOrphans, RuleReferenced
  <2>3. rules[r] \in RuleRow
    BY <2>2 DEF Live, TablesType
  <2>4. Live(rules', r)
    BY <1>1, <2>2, CommitKeepsRules
  <2> QED
    BY <2>1, <2>2, <2>3, <2>4 DEF RuleRow
<1>2. ASSUME NEW u \in Users, CreateRule(r, u)
      PROVE  /\ rules[r] = None /\ Live(rules', r)
             /\ OwnTarget(rules'[r].target, rules'[r].user)
  <2>1. PICK a \in SavingsAccounts, t \in Terms :
           /\ AccountUser[a] = u
           /\ rules'[r] = [user |-> u, target |-> a, active |-> TRUE,
                           terms |-> t, count |-> 0, total |-> 0]
    BY <1>2 DEF CreateRule, TablesType
  <2>2. rules'[r] \in RuleRow
    BY <2>1, SetsAssumption DEF RuleRow
  <2>3. Live(rules', r)
    BY <2>2, MarkersAssumption DEF Live
  <2>4. rules'[r].target = a /\ rules'[r].user = u
    BY <2>1
  <2>5. OwnTarget(rules'[r].target, rules'[r].user)
    BY <2>1, <2>4 DEF OwnTarget
  <2> QED
    BY <1>2, <2>3, <2>5 DEF CreateRule
<1>3. ASSUME UpdateRule(r) \/ ToggleRule(r)
      PROVE  /\ Live(rules, r) /\ Live(rules', r)
             /\ rules'[r].user = rules[r].user
             /\ rules'[r].target = rules[r].target
  <2>1. Live(rules, r) /\ rules[r] \in RuleRow
    BY <1>3 DEF UpdateRule, ToggleRule, Live, TablesType
  <2>2. /\ rules'[r] \in RuleRow
        /\ rules'[r].user = rules[r].user
        /\ rules'[r].target = rules[r].target
    BY <1>3, <2>1 DEF UpdateRule, ToggleRule, TablesType, RuleRow
  <2> QED
    BY <2>1, <2>2, MarkersAssumption DEF Live
<1>4. CASE DeleteRule(r)
  BY <1>4 DEF DeleteRule, TablesType
<1>5. ASSUME NEW q \in Rules, q # r,
             \/ \E u \in Users : CreateRule(q, u)
             \/ UpdateRule(q) \/ ToggleRule(q) \/ DeleteRule(q)
      PROVE  rules'[r] = rules[r]
  BY <1>5 DEF CreateRule, UpdateRule, ToggleRule, DeleteRule, TablesType
<1>6. CASE \E t \in Txs : WriteTransaction(t) \/ RemoveTransaction(t)
  BY <1>6 DEF WriteTransaction, RemoveTransaction
<1> QED
  BY <1>1, <1>2, <1>3, <1>4, <1>5, <1>6, OnlyCommitAndHandlers DEF Handler

(* A transaction once stored is stored or deleted, and deleted for good.   *)
LEMMA TxSteps ==
    ASSUME TypeOK, [Next]_vars, NEW t \in Txs, transactions[t] # None
    PROVE  /\ transactions'[t] # None
           /\ ~Live(transactions, t) => ~Live(transactions', t)
<1> USE DEF TypeOK, Live
<1>1. ASSUME NEW s \in Txs, WriteTransaction(s)
      PROVE  /\ transactions'[t] # None
             /\ ~Live(transactions, t) => ~Live(transactions', t)
  BY <1>1, MarkersAssumption DEF WriteTransaction, TablesType
<1>2. ASSUME NEW s \in Txs, RemoveTransaction(s)
      PROVE  /\ transactions'[t] # None
             /\ ~Live(transactions, t) => ~Live(transactions', t)
  BY <1>2, MarkersAssumption DEF RemoveTransaction, TablesType
<1>3. [Next]_vars => \/ \E s \in Txs : WriteTransaction(s) \/ RemoveTransaction(s)
                     \/ UNCHANGED transactions
  BY DEF Next, Progress, Fault, Handler, ProcessTransaction, LoadRules,
         LoadFails, EvaluateRule, FinishCall, InsertExecution, SkipExecuted,
         InsertTransfer, UpdateRuleStats, MarkCompleted, SendNotification,
         Commit, Rollback, CreateRule, UpdateRule, ToggleRule, DeleteRule,
         Crash, tables, vars
<1> QED
  BY <1>1, <1>2, <1>3

(* OwnRule of the next state for what this state has loaded or cached.     *)
StillOwn(l, u) ==
    /\ l.user = u /\ OwnTarget(l.target, u)
    /\ rules'[l.id] # None
    /\ Live(rules', l.id) => rules'[l.id].user = u

LEMMA OwnRuleStays ==
    ASSUME TypeOK, NoOrphans, [Next]_vars,
           NEW l \in LoadedRule, NEW u, OwnRule(l, u)
    PROVE  /\ StillOwn(l, u)
           /\ ~Live(rules, l.id) => ~Live(rules', l.id)
<1>1. l.id \in Rules
  BY DEF LoadedRule
<1> QED
  BY <1>1, RuleSteps, MarkersAssumption DEF OwnRule, StillOwn, Live

-----------------------------------------------------------------------------
(* What is loaded and cached.                                              *)

LEMMA NextRowsOwned ==
    ASSUME TypeOK, NoOrphans, RowsOwned, [Next]_vars
    PROVE  RowsOwned'
<1> SUFFICES ASSUME NEW r \in Rules, Live(rules', r)
             PROVE  OwnTarget(rules'[r].target, rules'[r].user)
  BY DEF RowsOwned, OwnTarget
<1>1. CASE rules'[r] = rules[r]
  BY <1>1 DEF RowsOwned, Live
<1>2. CASE /\ Live(rules, r)
           /\ rules'[r].user = rules[r].user
           /\ rules'[r].target = rules[r].target
  BY <1>2 DEF RowsOwned
<1> QED
  BY <1>1, <1>2, RuleSteps DEF Live

(* What LoadRules finds or gets from the cache is the caller's.            *)
LEMMA LoadedAreOwn ==
    ASSUME TypeOK, RowsOwned, RulesKnown, NEW u \in Users,
           NEW s \in ByPriority(ActiveRules(u)) \cup ({ruleCache[u]} \ {None}),
           NEW i \in 1..Len(s)
    PROVE  OwnRule(s[i], u)
<1>1. CASE s \in ByPriority(ActiveRules(u))
  <2>1. s \in Seq(LoadedRule)
    BY <1>1, QueryType
  <2>2. i \in DOMAIN s
    BY <2>1
  <2>3. s[i] \in ActiveRules(u)
    BY <1>1, <2>2 DEF ByPriority
  <2>4. PICK r \in Rules :
           /\ Live(rules, r) /\ rules[r].user = u
           /\ s[i] = [id |-> r, user |-> rules[r].user,
                      target |-> rules[r].target, terms |-> rules[r].terms]
    BY <2>3 DEF ActiveRules
  <2>5. OwnTarget(rules[r].target, u)
    BY <2>4 DEF RowsOwned
  <2> QED
    BY <2>4, <2>5 DEF OwnRule, Live
<1>2. CASE s = ruleCache[u] /\ s # None
  BY <1>2 DEF RulesKnown
<1> QED
  BY <1>1, <1>2

(* Besides LoadRules, a step keeps what a call has loaded or forgets it.   *)
LEMMA LoadedSteps ==
    ASSUME TypeOK, RulesKnown, [Next]_vars, NEW q \in Workers,
           \A p \in Workers : ~LoadRules(p)
    PROVE  /\ ruleCache' = ruleCache
           /\ \/ loaded'[q] = <<>>
              \/ /\ loaded'[q] = loaded[q] /\ call'[q] = call[q]
                 /\ pc'[q] \in {"idle", "rules"} => pc[q] \in {"idle", "rules"}
<1> USE DEF TypeOK, LocalsType
<1>1. ASSUME NEW p \in Workers, NEW t \in Txs, ProcessTransaction(p, t)
      PROVE  /\ ruleCache' = ruleCache
             /\ \/ loaded'[q] = <<>>
                \/ /\ loaded'[q] = loaded[q] /\ call'[q] = call[q]
                   /\ pc'[q] = pc[q]
  <2>1. CASE q = p
    BY <1>1, <2>1 DEF ProcessTransaction, RulesKnown
  <2>2. CASE q # p
    BY <1>1, <2>2 DEF ProcessTransaction, Goto
  <2> QED
    BY <2>1, <2>2
<1>2. ASSUME NEW p \in Workers, FinishCall(p) \/ LoadFails(p)
      PROVE  /\ ruleCache' = ruleCache
             /\ \/ loaded'[q] = <<>>
                \/ /\ loaded'[q] = loaded[q] /\ call'[q] = call[q]
                   /\ pc'[q] = pc[q]
  BY <1>2 DEF FinishCall, LoadFails, Return, Goto, caches
<1>3. ASSUME NEW p \in Workers,
             \/ EvaluateRule(p) \/ InsertExecution(p) \/ SkipExecuted(p)
             \/ InsertTransfer(p) \/ UpdateRuleStats(p) \/ MarkCompleted(p)
             \/ SendNotification(p) \/ Commit(p) \/ Rollback(p)
      PROVE  /\ UNCHANGED <<ruleCache, loaded, call>>
             /\ pc'[q] \in {"idle", "rules"} => pc[q] \in {"idle", "rules"}
  BY <1>3 DEF EvaluateRule, InsertExecution, SkipExecuted, InsertTransfer,
     UpdateRuleStats, MarkCompleted, SendNotification, Commit, Rollback,
     NextRule, Goto, caches, InRule
<1>4. CASE Crash
  BY <1>4 DEF Crash, caches
<1>5. CASE Handler \/ UNCHANGED vars
  BY <1>5 DEF Handler, CreateRule, UpdateRule, ToggleRule, DeleteRule,
     WriteTransaction, RemoveTransaction, vars, locals, caches
<1> QED
  BY <1>1, <1>2, <1>3, <1>4, <1>5 DEF Next, Progress, Fault

LEMMA NextRulesKnown ==
    ASSUME TypeOK, NoOrphans, RowsOwned, RulesKnown, [Next]_vars
    PROVE  RulesKnown'
<1>1. ASSUME NEW u \in Users, NEW i \in 1..Len(ruleCache[u]),
             ruleCache[u] # None
      PROVE  StillOwn(ruleCache[u][i], u)
  <2>1. ruleCache[u] \in Seq(LoadedRule)
    BY <1>1 DEF TypeOK, TablesType
  <2>2. ruleCache[u][i] \in LoadedRule
    BY <1>1, <2>1
  <2>3. OwnRule(ruleCache[u][i], u)
    BY <1>1 DEF RulesKnown
  <2> QED
    BY <2>2, <2>3, OwnRuleStays
<1>2. ASSUME NEW p \in Workers, NEW i \in 1..Len(loaded[p])
      PROVE  StillOwn(loaded[p][i], Caller(p))
  <2>1. loaded[p] \in Seq(LoadedRule)
    BY <1>2 DEF TypeOK, LocalsType
  <2>2. loaded[p][i] \in LoadedRule
    BY <1>2, <2>1
  <2>3. OwnRule(loaded[p][i], Caller(p))
    BY <1>2 DEF RulesKnown
  <2> QED
    BY <2>2, <2>3, OwnRuleStays
<1>3. ASSUME NEW p \in Workers, LoadRules(p)
      PROVE  RulesKnown'
  <2> DEFINE u == Caller(p)
  <2>1. u \in Users
    BY <1>3, SetsAssumption, RowsAssumption
       DEF Caller, LoadRules, TypeOK, LocalsInScope, Call, AnyTx
  <2>2. PICK s \in ByPriority(ActiveRules(u)) \cup ({ruleCache[u]} \ {None}) :
            /\ loaded' = [loaded EXCEPT ![p] = s]
            /\ ruleCache' = [ruleCache EXCEPT ![u] = s]
    BY <1>3 DEF LoadRules, Caller
  <2>3. /\ UNCHANGED <<rules, call>>
        /\ pc' = [pc EXCEPT ![p] = "match"]
    BY <1>3 DEF LoadRules, Goto, tables
  <2>4. \A i \in 1..Len(s) : OwnRule(s[i], u)
    BY <2>1, LoadedAreOwn
  <2>5. /\ loaded'[p] = s /\ pc'[p] = "match"
        /\ \A q \in Workers \ {p} : loaded'[q] = loaded[q] /\ pc'[q] = pc[q]
        /\ ruleCache'[u] = s
        /\ \A v \in Users \ {u} : ruleCache'[v] = ruleCache[v]
    BY <2>1, <2>2, <2>3 DEF TypeOK, LocalsType, TablesType
  <2> HIDE DEF u
  <2>6. \A v \in Users : ruleCache'[v] # None =>
          \A i \in 1..Len(ruleCache'[v]) : OwnRule(ruleCache'[v][i], v)
    BY <2>4, <2>5 DEF RulesKnown
  <2>7. \A q \in Workers : \A i \in 1..Len(loaded'[q]) :
          OwnRule(loaded'[q][i], Caller(q))
    BY <2>4, <2>5 DEF RulesKnown, u
  <2>8. \A q \in Workers : pc'[q] \in {"idle", "rules"} => loaded'[q] = <<>>
    BY <2>5 DEF RulesKnown
  <2> QED
    BY <2>3, <2>6, <2>7, <2>8 DEF RulesKnown, OwnRule, Live, Caller
<1>4. CASE \A p \in Workers : ~LoadRules(p)
  <2>1. UNCHANGED ruleCache
    <3>1. CASE Workers = {}
      BY <3>1 DEF Next, Handler, CreateRule, UpdateRule, ToggleRule,
         DeleteRule, WriteTransaction, RemoveTransaction, Crash, vars, caches
    <3>2. CASE Workers # {}
      BY <1>4, <3>2, LoadedSteps
    <3> QED
      BY <3>1, <3>2
  <2>2. \A u \in Users : ruleCache'[u] # None =>
          \A i \in 1..Len(ruleCache'[u]) : StillOwn(ruleCache'[u][i], u)
    BY <1>1, <2>1
  <2>3. ASSUME NEW p \in Workers
        PROVE  /\ \A i \in 1..Len(loaded'[p]) : StillOwn(loaded'[p][i], Caller(p)')
               /\ pc'[p] \in {"idle", "rules"} => loaded'[p] = <<>>
    <3>1. CASE loaded'[p] = <<>>
      BY <3>1
    <3>2. CASE /\ loaded'[p] = loaded[p] /\ call'[p] = call[p]
               /\ pc'[p] \in {"idle", "rules"} => pc[p] \in {"idle", "rules"}
      <4>1. Caller(p)' = Caller(p)
        BY <3>2 DEF Caller
      <4> QED
        BY <1>2, <3>2, <4>1 DEF RulesKnown
    <3> QED
      BY <1>4, <3>1, <3>2, LoadedSteps
  <2> QED
    BY <2>2, <2>3 DEF RulesKnown, OwnRule, StillOwn, Live
<1> QED
  BY <1>3, <1>4

(* A call and the cache go on to know of stored transactions only.         *)
LEMMA NextTxsKnown ==
    ASSUME TypeOK, TxsKnown, [Next]_vars
    PROVE  TxsKnown'
<1> USE DEF TypeOK
<1>1. ASSUME NEW p \in Workers, NEW t \in Txs, ProcessTransaction(p, t)
      PROVE  TxsKnown'
  <2>1. PICK row \in TxRows \cap {transactions[t], txCache[t]} :
           /\ txCache' = [txCache EXCEPT ![t] = row]
           /\ \/ UNCHANGED <<call, pc>>
              \/ /\ call' = [call EXCEPT ![p] = [tx |-> t, row |-> row]]
                 /\ pc' = [pc EXCEPT ![p] = "rules"]
    BY <1>1 DEF ProcessTransaction, Goto
  <2>2. transactions[t] # None
    BY <2>1, MarkersAssumption DEF TxsKnown
  <2>3. UNCHANGED transactions
    BY <1>1 DEF ProcessTransaction, tables
  <2>4. \A s \in Txs : txCache'[s] # None => transactions[s] # None
    BY <2>1, <2>2 DEF TxsKnown, TablesType
  <2>5. \A q \in Workers : pc'[q] # "idle" => transactions[call'[q].tx] # None
    <3>1. CASE UNCHANGED <<call, pc>>
      BY <3>1 DEF TxsKnown
    <3>2. CASE call' = [call EXCEPT ![p] = [tx |-> t, row |-> row]]
               /\ pc' = [pc EXCEPT ![p] = "rules"]
      <4>1. call'[p].tx = t
        BY <3>2 DEF LocalsType
      <4>2. \A q \in Workers \ {p} : call'[q] = call[q] /\ pc'[q] = pc[q]
        BY <3>2 DEF LocalsType
      <4> QED
        BY <2>2, <4>1, <4>2 DEF TxsKnown
    <3> QED
      BY <2>1, <3>1, <3>2
  <2> QED
    BY <2>3, <2>4, <2>5 DEF TxsKnown
<1>2. CASE /\ txCache' = txCache
           /\ \A q \in Workers : \/ pc'[q] = "idle"
                                 \/ call'[q] = call[q] /\ pc[q] # "idle"
  <2>1. \A q \in Workers : pc[q] # "idle" => call[q].tx \in Txs
    BY DEF LocalsInScope, Call
  <2>2. \A t \in Txs : transactions[t] # None => transactions'[t] # None
    BY TxSteps
  <2> QED
    BY <1>2, <2>1, <2>2 DEF TxsKnown
<1>3. ASSUME NEW p \in Workers, Progress(p) \/ Fault(p), NEW q \in Workers
      PROVE  /\ txCache' = txCache
             /\ \/ pc'[q] = "idle"
                \/ call'[q] = call[q] /\ pc[q] # "idle"
  BY <1>3 DEF Progress, Fault, LoadRules, LoadFails, FinishCall, Return,
     EvaluateRule, InsertExecution, SkipExecuted, InsertTransfer,
     UpdateRuleStats, MarkCompleted, SendNotification, Commit, Rollback,
     NextRule, Goto, caches, InRule, LocalsType
<1>4. CASE Crash \/ Handler \/ UNCHANGED vars
  <2>1. /\ txCache' = txCache
        /\ \/ \A q \in Workers : pc'[q] = "idle"
           \/ UNCHANGED <<pc, call>>
    BY <1>4 DEF Crash, Handler, CreateRule, UpdateRule, ToggleRule, DeleteRule,
       WriteTransaction, RemoveTransaction, vars, locals, caches
  <2> QED
    BY <1>2, <2>1
<1> QED
  BY <1>1, <1>2, <1>3, <1>4 DEF Next

-----------------------------------------------------------------------------
(* What is written.                                                        *)

LEMMA NextOpenKeys ==
    ASSUME TypeOK, OpenKeys, [Next]_vars
    PROVE  OpenKeys'
<1> USE DEF TypeOK, Goto
<1>1. ASSUME NEW p \in Workers, InsertExecution(p)
      PROVE  OpenKeys'
  <2>1. PICK e : /\ txn' = [txn EXCEPT ![p].execution = {e}]
                 /\ e.rule = CurrentRule(p).id /\ e.tx = call[p].tx
    BY <1>1, InsertedRow
  <2>2. /\ UNCHANGED <<call, loaded, at>>
        /\ pc' = [pc EXCEPT ![p] = "transfer"]
    BY <1>1 DEF InsertExecution
  <2>3. /\ txn'[p].execution = {e}
        /\ \A q \in Workers \ {p} : pc'[q] = pc[q] /\ txn'[q] = txn[q]
    BY <2>1, <2>2 DEF LocalsType, Txn
  <2> QED
    BY <2>1, <2>2, <2>3 DEF OpenKeys, CurrentRule
<1>2. ASSUME NEW p \in Workers, MarkCompleted(p)
      PROVE  OpenKeys'
  <2>1. /\ \A q \in Workers \ {p} : txn'[q] = txn[q]
        /\ \A e \in txn'[p].execution :
              \E f \in txn[p].execution : SameKey(e, f)
    BY <1>2, CompletedRows
  <2>2. /\ UNCHANGED <<call, loaded, at>> /\ pc[p] \in Written
        /\ \A q \in Workers \ {p} : pc'[q] = pc[q]
    BY <1>2 DEF MarkCompleted, LocalsType, Written, InRule
  <2> QED
    BY <2>1, <2>2 DEF OpenKeys, CurrentRule, SameKey
<1>3. ASSUME NEW p \in Workers,
             \/ \E t \in Txs : ProcessTransaction(p, t)
             \/ LoadRules(p) \/ EvaluateRule(p) \/ FinishCall(p)
             \/ SkipExecuted(p) \/ LoadFails(p) \/ Commit(p) \/ Rollback(p)
      PROVE  OpenKeys'
  <2>1. /\ pc'[p] \notin Written
        /\ \A q \in Workers \ {p} :
              /\ pc'[q] = pc[q] /\ txn'[q] = txn[q] /\ call'[q] = call[q]
              /\ loaded'[q] = loaded[q] /\ at'[q] = at[q]
    BY <1>3 DEF ProcessTransaction, LoadRules, EvaluateRule, FinishCall,
                SkipExecuted, LoadFails, Commit, Rollback, NextRule, Return,
                LocalsType, Written, InRule
  <2> QED
    BY <2>1 DEF OpenKeys, CurrentRule
<1>4. ASSUME NEW p \in Workers,
             InsertTransfer(p) \/ UpdateRuleStats(p) \/ SendNotification(p)
      PROVE  OpenKeys'
  <2>1. /\ UNCHANGED <<call, loaded, at>> /\ pc[p] \in Written
        /\ \A q \in Workers \ {p} : pc'[q] = pc[q]
    BY <1>4 DEF InsertTransfer, UpdateRuleStats, SendNotification, LocalsType,
                Written, InRule
  <2>2. \A q \in Workers : txn'[q].execution = txn[q].execution
    BY <1>4, OtherStepsKeepExecutions
  <2> QED
    BY <2>1, <2>2 DEF OpenKeys, CurrentRule
<1>5. CASE Crash
  BY <1>5 DEF Crash, OpenKeys, NoTxn
<1>6. CASE Handler \/ UNCHANGED vars
  <2>1. UNCHANGED <<pc, txn, call, loaded, at>>
    BY <1>6 DEF Handler, CreateRule, UpdateRule, ToggleRule, DeleteRule,
       WriteTransaction, RemoveTransaction, vars, locals
  <2> QED
    BY <2>1 DEF OpenKeys, CurrentRule
<1> QED
  BY <1>1, <1>2, <1>3, <1>4, <1>5, <1>6 DEF Next, Progress, Fault

(* An execution of which the next state still has the rule keeps its owner *)
(* whatever the handlers do to the rule's row.                             *)
LEMMA OwnersFrame ==
    ASSUME TypeOK, NoOrphans, Owned, [Next]_vars, NEW e,
           \/ e \in executions
           \/ \E p \in Workers : e \in txn[p].execution,
           Live(rules', e.rule)
    PROVE  /\ AccountUser[e.source] = e.user /\ OwnTarget(e.target, e.user)
           /\ rules'[e.rule].user = e.user
<1>1. e \in Execution
  BY DEF TypeOK, TablesType, LocalsType, Txn
<1>2. e.rule \in Rules
  BY <1>1 DEF Execution
<1>3. Live(rules, e.rule) /\ OwnedBy(e)
  BY DEF NoOrphans, Owned
<1> QED
  BY <1>2, <1>3, RuleSteps DEF OwnedBy, Live

LEMMA InsertOwned ==
    ASSUME TypeOK, RulesKnown, NEW p \in Workers, InsertExecution(p)
    PROVE  \E e : /\ txn' = [txn EXCEPT ![p].execution = {e}]
                  /\ OwnedBy(e)
<1> DEFINE rule == CurrentRule(p)
<1>1. PICK id \in UnusedExecIds :
          txn' = [txn EXCEPT ![p].execution =
              {[id |-> id, rule |-> rule.id, tx |-> call[p].tx,
                user |-> Caller(p),
                amount |-> CalculateSavingsAmount(call[p].row, rule),
                source |-> call[p].row.account,
                target |-> rule.target, status |-> "pending"]}]
  BY DEF InsertExecution, Caller
<1>2. at[p] \in 1..Len(loaded[p])
  BY DEF InsertExecution, TypeOK, LocalsInScope, LocalsType, InRule
<1>3. OwnRule(rule, Caller(p))
  BY <1>2 DEF RulesKnown, CurrentRule
<1>4. Live(rules, rule.id)
  BY DEF InsertExecution, ConstraintError
<1> DEFINE e == [id |-> id, rule |-> rule.id, tx |-> call[p].tx,
                 user |-> Caller(p),
                 amount |-> CalculateSavingsAmount(call[p].row, rule),
                 source |-> call[p].row.account,
                 target |-> rule.target, status |-> "pending"]
<1> HIDE DEF rule
<1>5. /\ e.source = call[p].row.account /\ e.target = rule.target
      /\ e.user = Caller(p) /\ e.rule = rule.id
  OBVIOUS
<1>6. OwnedBy(e)
  BY <1>3, <1>4, <1>5 DEF OwnedBy, OwnRule, Caller
<1> QED
  BY <1>1, <1>6

LEMMA NextOwned ==
    ASSUME TypeOK, NoOrphans, NoOrphans', RulesKnown, Owned, [Next]_vars
    PROVE  Owned'
<1> DEFINE Old(e) == \/ e \in executions
                     \/ \E p \in Workers : e \in txn[p].execution
           StillOwned(e) == /\ AccountUser[e.source] = e.user
                            /\ OwnTarget(e.target, e.user)
                            /\ rules'[e.rule].user = e.user
<1>1. \A e : Old(e) /\ Live(rules', e.rule) => StillOwned(e)
  BY OwnersFrame
<1>2. SUFFICES /\ \A e \in executions' : StillOwned(e)
               /\ \A p \in Workers : \A e \in txn'[p].execution : StillOwned(e)
  BY DEF Owned, OwnedBy, OwnTarget
<1>3. /\ \A e \in executions' : Live(rules', e.rule)
      /\ \A p \in Workers : \A e \in txn'[p].execution : Live(rules', e.rule)
  BY DEF NoOrphans, Live
<1>4. CASE /\ \A e \in executions' : Old(e)
           /\ \A p \in Workers : \A e \in txn'[p].execution : Old(e)
  BY <1>1, <1>3, <1>4
<1>5. ASSUME NEW p \in Workers, InsertExecution(p)
      PROVE  /\ \A e \in executions' : StillOwned(e)
             /\ \A q \in Workers : \A e \in txn'[q].execution : StillOwned(e)
  <2>1. PICK e : txn' = [txn EXCEPT ![p].execution = {e}] /\ OwnedBy(e)
    BY <1>5, InsertOwned
  <2>2. UNCHANGED <<executions, rules>>
    BY <1>5 DEF InsertExecution, tables
  <2>3. /\ txn'[p].execution = {e}
        /\ \A q \in Workers \ {p} : txn'[q] = txn[q]
    BY <2>1 DEF TypeOK, LocalsType, Txn
  <2> QED
    BY <2>1, <2>2, <2>3 DEF Owned, OwnedBy
<1>6. ASSUME NEW p \in Workers, MarkCompleted(p)
      PROVE  /\ \A e \in executions' : StillOwned(e)
             /\ \A q \in Workers : \A e \in txn'[q].execution : StillOwned(e)
  <2>1. LocalsType
    BY DEF TypeOK
  <2>2. /\ UNCHANGED <<executions, rules>>
        /\ \A q \in Workers \ {p} : txn'[q] = txn[q]
        /\ \A e \in txn'[p].execution : \E f \in txn[p].execution :
              e = [f EXCEPT !.status = "completed"]
    BY <1>6, <2>1, CompletedRows
  <2>3. ASSUME NEW f \in txn[p].execution
        PROVE  StillOwned([f EXCEPT !.status = "completed"])
    <3>1. f \in Execution /\ OwnedBy(f)
      BY <2>1 DEF LocalsType, Txn, Owned
    <3> QED
      BY <2>2, <3>1 DEF Execution, OwnedBy
  <2>4. \A e \in txn'[p].execution : StillOwned(e)
    BY <2>2, <2>3
  <2>5. \A e \in executions' : StillOwned(e)
    BY <2>2 DEF Owned, OwnedBy
  <2>6. ASSUME NEW q \in Workers \ {p}, NEW e \in txn'[q].execution
        PROVE  StillOwned(e)
    BY <2>2, <2>6 DEF Owned, OwnedBy
  <2> HIDE DEF StillOwned
  <2> QED
    BY <2>4, <2>5, <2>6
<1>7. ASSUME NEW p \in Workers, Commit(p) \/ Rollback(p)
      PROVE  /\ \A e \in executions' : Old(e)
             /\ \A q \in Workers : \A e \in txn'[q].execution : Old(e)
  <2>1. LocalsType
    BY DEF TypeOK
  <2>2. \A e \in executions' : Old(e)
    BY <1>7 DEF Commit, Rollback, tables
  <2> QED
    BY <1>7, <2>1, <2>2, EndOfTransaction
<1>8. CASE Crash
  BY <1>4, <1>8 DEF Crash, NoTxn, tables
<1>9. ASSUME NEW p \in Workers,
             \/ \E t \in Txs : ProcessTransaction(p, t)
             \/ LoadRules(p) \/ EvaluateRule(p) \/ FinishCall(p)
             \/ SkipExecuted(p) \/ InsertTransfer(p) \/ UpdateRuleStats(p)
             \/ SendNotification(p) \/ LoadFails(p)
      PROVE  /\ \A e \in executions' : Old(e)
             /\ \A q \in Workers : \A e \in txn'[q].execution : Old(e)
  BY <1>9, OtherStepsKeepExecutions DEF TypeOK
<1>10. CASE Handler \/ UNCHANGED vars
  BY <1>4, <1>10, HandlersKeepExecutions
<1> QED
  BY <1>4, <1>5, <1>6, <1>7, <1>8, <1>9, <1>10 DEF Next, Progress, Fault

-----------------------------------------------------------------------------
(* No match is lost.                                                       *)

(* How a call comes past a rule: it does not match, it is executed, by     *)
(* this call or another, or its error is reported.                         *)
PastRule(p) ==
    \/ ~MatchesRule(call[p].row, CurrentRule(p))
    \/ ~Live(rules, CurrentRule(p).id)
    \/ ~Live(transactions, call[p].tx)
    \/ \E e \in executions' :
          e.rule = CurrentRule(p).id /\ e.tx = call[p].tx
    \/ CurrentRule(p).id \in failed'[p]

LEMMA IndexSteps ==
    ASSUME TypeOK, OpenWhole, OpenKeys, RulesKnown, [Next]_vars,
           NEW q \in Workers
    PROVE  \/ at'[q] = 1
           \/ /\ loaded'[q] = loaded[q] /\ call'[q] = call[q]
              /\ pc[q] # "idle" /\ failed[q] \subseteq failed'[q]
              /\ \/ at'[q] = at[q]
                 \/ at'[q] = at[q] + 1 /\ PastRule(q)
<1> DEFINE Goal == \/ at'[q] = 1
                   \/ /\ loaded'[q] = loaded[q] /\ call'[q] = call[q]
                      /\ pc[q] # "idle" /\ failed[q] \subseteq failed'[q]
                      /\ \/ at'[q] = at[q]
                         \/ at'[q] = at[q] + 1 /\ PastRule(q)
<1>0. /\ pc[q] \in {"idle", "rules"} => at[q] = 1
      /\ at \in [Workers -> Nat] /\ failed \in [Workers -> SUBSET Rules]
  BY DEF TypeOK, LocalsInScope, LocalsType
<1>1. CASE UNCHANGED <<at, loaded, call, failed>>
  BY <1>0, <1>1
<1>2. CASE at'[q] = 1
  BY <1>2
<1>3. CASE /\ at'[q] = at[q] /\ loaded'[q] = loaded[q] /\ call'[q] = call[q]
           /\ pc[q] # "idle" /\ failed'[q] = failed[q]
  BY <1>3
<1>4. ASSUME NEW p \in Workers,
             \/ \E t \in Txs : ProcessTransaction(p, t)
             \/ LoadRules(p) \/ LoadFails(p) \/ FinishCall(p)
      PROVE  Goal
  BY <1>0, <1>1, <1>4 DEF ProcessTransaction, LoadRules, LoadFails, FinishCall,
     Return, TypeOK, LocalsType
<1>5. ASSUME NEW p \in Workers, EvaluateRule(p)
      PROVE  Goal
  <2>1. UNCHANGED <<loaded, call, failed>> /\ pc[p] = "match"
    BY <1>5 DEF EvaluateRule
  <2>2. CASE at' = at
    BY <1>1, <2>1, <2>2
  <2>3. CASE at' = [at EXCEPT ![p] = @ + 1]
             /\ ~MatchesRule(call[p].row, CurrentRule(p))
    BY <1>0, <2>1, <2>3 DEF PastRule
  <2> QED
    BY <1>5, <2>2, <2>3 DEF EvaluateRule, NextRule
<1>6. ASSUME NEW p \in Workers, SkipExecuted(p)
      PROVE  Goal
  <2>1. /\ UNCHANGED <<loaded, call, failed, executions>>
        /\ pc[p] = "execution" /\ at' = [at EXCEPT ![p] = @ + 1]
    BY <1>6 DEF SkipExecuted, NextRule, tables
  <2>2. PastRule(p)
    BY <1>6, <2>1 DEF SkipExecuted, ConstraintError, PastRule
  <2> QED
    BY <1>0, <2>1, <2>2
<1>7. ASSUME NEW p \in Workers, Commit(p)
      PROVE  Goal
  <2>1. /\ UNCHANGED <<loaded, call, failed>>
        /\ executions' = executions \cup txn[p].execution
        /\ pc[p] = "commit" /\ at' = [at EXCEPT ![p] = @ + 1]
    BY <1>7 DEF Commit, NextRule
  <2>2. PICK e : txn[p].execution = {e}
    BY <2>1 DEF OpenWhole, Written, InRule
  <2>3. e.rule = CurrentRule(p).id /\ e.tx = call[p].tx
    BY <2>1, <2>2 DEF OpenKeys, Written, InRule
  <2>4. PastRule(p)
    BY <2>1, <2>2, <2>3 DEF PastRule
  <2> QED
    BY <1>0, <2>1, <2>4
<1>8. ASSUME NEW p \in Workers, Rollback(p)
      PROVE  Goal
  <2>1. /\ UNCHANGED <<loaded, call>>
        /\ failed' = [failed EXCEPT ![p] = @ \cup {CurrentRule(p).id}]
        /\ pc[p] # "idle" /\ at' = [at EXCEPT ![p] = @ + 1]
    BY <1>8 DEF Rollback, NextRule, InRule
  <2>2. PastRule(p)
    BY <1>0, <2>1 DEF PastRule
  <2>3. \A r \in Workers : failed[r] \subseteq failed'[r]
    BY <1>0, <2>1
  <2> QED
    BY <1>0, <2>1, <2>2, <2>3
<1>9. ASSUME NEW p \in Workers,
             \/ InsertExecution(p) \/ InsertTransfer(p) \/ UpdateRuleStats(p)
             \/ MarkCompleted(p) \/ SendNotification(p)
      PROVE  Goal
  BY <1>1, <1>9 DEF InsertExecution, InsertTransfer, UpdateRuleStats,
     MarkCompleted, SendNotification
<1>10. CASE Crash
  BY <1>10 DEF Crash
<1>11. CASE Handler \/ UNCHANGED vars
  BY <1>1, <1>11 DEF Handler, CreateRule, UpdateRule, ToggleRule, DeleteRule,
     WriteTransaction, RemoveTransaction, vars, locals
<1> QED
  BY <1>4, <1>5, <1>6, <1>7, <1>8, <1>9, <1>10, <1>11 DEF Next, Progress, Fault

LEMMA NextMatches ==
    ASSUME TypeOK, TypeOK', NoOrphans, OpenWhole, OpenKeys, RulesKnown,
           TxsKnown, NoMatchLost, [Next]_vars
    PROVE  NoMatchLost'
<1> SUFFICES ASSUME NEW p \in Workers, NEW i \in 1..(at'[p] - 1),
                    MatchesRule(call'[p].row, loaded'[p][i])
             PROVE  \/ \E e \in executions' : /\ e.rule = loaded'[p][i].id
                                             /\ e.tx = call'[p].tx
                    \/ loaded'[p][i].id \in failed'[p]
                    \/ ~Live(rules', loaded'[p][i].id)
                    \/ ~Live(transactions', call'[p].tx)
  BY DEF NoMatchLost
<1> DEFINE rule == loaded[p][i]
           t == call[p].tx
<1>1. at'[p] \in Nat /\ at[p] \in Nat /\ at[p] \in 1..(Len(loaded[p]) + 1)
  BY DEF TypeOK, LocalsType, LocalsInScope
<1>2. at'[p] # 1
  BY <1>1
<1>3. /\ loaded'[p] = loaded[p] /\ call'[p] = call[p]
      /\ pc[p] # "idle" /\ failed[p] \subseteq failed'[p]
      /\ \/ at'[p] = at[p]
         \/ at'[p] = at[p] + 1 /\ PastRule(p)
  BY <1>2, IndexSteps
<1>4. /\ t \in Txs /\ transactions[t] # None
  BY <1>3 DEF TypeOK, LocalsInScope, Call, TxsKnown
<1>5. ~Live(transactions, t) => ~Live(transactions', t)
  BY <1>4, TxSteps
<1>6. executions \subseteq executions'
  <2>1. ASSUME NEW q \in Workers, Commit(q) PROVE executions \subseteq executions'
    BY <2>1 DEF Commit
  <2> QED
    BY <2>1, OnlyCommitAndHandlers, HandlersKeepLedger
<1>7. i \in 1..Len(loaded[p])
  <2>1. loaded'[p] \in Seq(LoadedRule) /\ at'[p] \in 1..(Len(loaded'[p]) + 1)
    BY DEF TypeOK, LocalsType, LocalsInScope
  <2>2. Len(loaded'[p]) \in Nat
    BY <2>1
  <2> QED
    BY <1>3, <2>1, <2>2
<1>8. ~Live(rules, rule.id) => ~Live(rules', rule.id)
  <2>1. loaded[p] \in Seq(LoadedRule)
    BY DEF TypeOK, LocalsType
  <2>2. rule \in LoadedRule /\ OwnRule(rule, Caller(p))
    BY <1>7, <2>1 DEF RulesKnown
  <2> QED
    BY <2>2, OwnRuleStays
<1>9. \/ \E e \in executions' : e.rule = rule.id /\ e.tx = t
      \/ rule.id \in failed'[p]
      \/ ~Live(rules, rule.id)
      \/ ~Live(transactions, t)
  <2>1. CASE i \in 1..(at[p] - 1)
    BY <1>3, <1>6, <2>1 DEF NoMatchLost
  <2>2. CASE i = at[p] /\ PastRule(p)
    BY <1>3, <2>2 DEF PastRule, CurrentRule
  <2> QED
    BY <1>1, <1>3, <2>1, <2>2
<1> QED
  BY <1>3, <1>5, <1>8, <1>9

-----------------------------------------------------------------------------
(* The inductive invariant and the theorems.                               *)

CInv ==
    /\ RowsOwned
    /\ RulesKnown
    /\ TxsKnown
    /\ OpenKeys
    /\ Owned
    /\ NoMatchLost

LEMMA InitCalls == Init => CInv
<1> SUFFICES ASSUME Init PROVE CInv
  OBVIOUS
<1>1. RowsOwned
  BY DEF Init, RowsOwned, Live
<1>2. RulesKnown
  BY DEF Init, RulesKnown
<1>3. TxsKnown /\ OpenKeys
  BY DEF Init, TxsKnown, OpenKeys, Written, InRule
<1>4. Owned
  BY DEF Init, Owned, NoTxn
<1>5. NoMatchLost
  BY DEF Init, NoMatchLost
<1> QED
  BY <1>1, <1>2, <1>3, <1>4, <1>5 DEF CInv

LEMMA NextCalls ==
    ASSUME IInv, IInv', CInv, [Next]_vars
    PROVE  CInv'
<1>1. /\ TypeOK /\ TypeOK' /\ NoOrphans /\ NoOrphans' /\ OpenWhole
      /\ RowsOwned /\ RulesKnown /\ TxsKnown /\ OpenKeys /\ Owned
      /\ NoMatchLost
  BY DEF IInv, CInv
<1>2. RowsOwned' /\ RulesKnown'
  BY <1>1, NextRowsOwned, NextRulesKnown
<1>3. TxsKnown' /\ OpenKeys'
  BY <1>1, NextTxsKnown, NextOpenKeys
<1>4. Owned'
  BY <1>1, NextOwned
<1>5. NoMatchLost'
  BY <1>1, NextMatches
<1> QED
  BY <1>2, <1>3, <1>4, <1>5 DEF CInv

(* What the calls know holds in every reachable state, along with IInv.    *)
THEOREM CallsInductive == Spec => [](IInv /\ CInv)
<1>1. IInv /\ IInv' /\ CInv /\ [Next]_vars => CInv'
  BY NextCalls
<1> QED
  BY <1>1, InitCalls, Inductive, PTL DEF Spec

(* Users, rules and accounts of the ledger belong together, although rules *)
(* are read from a cache and change while a call goes through them.        *)
THEOREM OwnersKept == Spec => []OneOwner
<1>1. ASSUME IInv, CInv PROVE OneOwner
  <2>1. \A e \in executions : OwnedBy(e)
    BY <1>1 DEF CInv, Owned
  <2>2. transfers = {TransferOf(e) : e \in executions}
    BY <1>1 DEF IInv, TablesWhole
  <2>3. \A x \in transfers : x.target \in SavingsAccounts
    BY <2>1, <2>2 DEF TransferOf, OwnedBy, OwnTarget
  <2> QED
    BY <2>1, <2>3 DEF OneOwner, OwnedBy, OwnTarget
<1> QED
  BY <1>1, CallsInductive, PTL

(* A call comes past a matching rule only with an execution, an error it   *)
(* reports or a row that is gone.                                          *)
THEOREM MatchesKept == Spec => []NoMatchLost
<1>1. CInv => NoMatchLost
  BY DEF CInv
<1> QED
  BY <1>1, CallsInductive, PTL

(* No user is notified of what another call has saved already.             *)
THEOREM NoticesOnce == Spec => []NoSecondNotice
<1>1. ASSUME IInv, CInv PROVE NoSecondNotice
  <2> SUFFICES ASSUME NEW p \in Workers, pc[p] = "notify",
                      NEW f \in executions, f.rule = CurrentRule(p).id
               PROVE  f.tx # call[p].tx
    BY DEF NoSecondNotice
  <2>1. PICK e : txn[p].execution = {e}
    BY <1>1 DEF IInv, OpenWhole, Written, InRule
  <2>2. e.rule = CurrentRule(p).id /\ e.tx = call[p].tx
    BY <1>1, <2>1 DEF CInv, OpenKeys, Written, InRule
  <2>3. Distinct(e, f)
    BY <1>1, <2>1 DEF IInv, KeysUnique
  <2> QED
    BY <2>2, <2>3 DEF Distinct, SameKey
<1> QED
  BY <1>1, CallsInductive, PTL
=============================================================================
