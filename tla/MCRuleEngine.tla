---------------------------- MODULE MCRuleEngine ----------------------------
(***************************************************************************)
(* Small instances of RuleEngine: accounts c1 (checking) and s1 (savings)  *)
(* of user u1, c2 and s2 of user u2.                                       *)
(***************************************************************************)
EXTENDS RuleEngine, TLC

CONSTANTS u1, u2, c1, s1, c2, s2, p1, p2, r1, r2, t1, t2,
          e1, e2, e3, e4

OneUser == [a \in {c1, s1} |-> u1]
TwoUsers == c1 :> u1 @@ s1 :> u1 @@ c2 :> u2 @@ s2 :> u2

(* A multiply rule for purchases of 3 cents and more: it saves one and two *)
(* fifths of the amount.  A fixed rule for all purchases: it saves 29      *)
(* cents.  Both products fall short for one of the amounts.                *)
Multiply == [category |-> "Dining", min |-> 3, max |-> NoLimit,
             action |-> "multiply", value |-> 140, priority |-> 1]
Fixed == [category |-> "Dining", min |-> NoLimit, max |-> 1000,
          action |-> "fixed", value |-> 29, priority |-> 0]
Short == {<<45, 140>>, <<100, 29>>}

MultiplyTerms == {Multiply}
BothTerms == {Multiply, Fixed}

Row(a, n) == [account |-> a, category |-> "Dining", amount |-> n,
              pending |-> FALSE]

Large == Row(c1, 45)
Small == Row(c1, 1)
LargeAndSmall == {Large, Small}
DebitsAndCredit == {Large, Row(s1, -4), Row(c2, 45)}

WorkersAndExecs ==
    Permutations({p1, p2}) \cup Permutations({e1, e2, e3, e4})

(* Two rules and two transactions are there.  Calls wait for each other's  *)
(* unique keys and row locks, and find rules deleted.  Bound: no other     *)
(* handler changes anything.                                               *)
NewRule(t) == [user |-> u1, target |-> s1, active |-> TRUE, terms |-> t,
               count |-> 0, total |-> 0]

CallsInit ==
    /\ rules = r1 :> NewRule(Fixed) @@ r2 :> NewRule(Multiply)
    /\ transactions = t1 :> Large @@ t2 :> Small
    /\ executions = {} /\ transfers = {} /\ notified = {}
    /\ ruleCache = [u \in Users |-> None]
    /\ txCache = [t \in Txs |-> None]
    /\ pc = [p \in Workers |-> "idle"]
    /\ call = [p \in Workers |-> None]
    /\ loaded = [p \in Workers |-> <<>>]
    /\ at = [p \in Workers |-> 1]
    /\ txn = [p \in Workers |-> NoTxn]
    /\ failed = [p \in Workers |-> {}]

CallsNext ==
    \/ \E p \in Workers : \/ \E t \in Txs : ProcessTransaction(p, t)
                          \/ Progress(p)
                          \/ Fault(p)
    \/ \E r \in Rules : DeleteRule(r)
    \/ Crash

CallsSpec == CallsInit /\ [][CallsNext]_vars /\ Fairness
=============================================================================
