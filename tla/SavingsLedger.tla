--------------------------- MODULE SavingsLedger ---------------------------
(***************************************************************************)
(* What the rule engine promises a user: a ledger of suggested savings in  *)
(* which a rule saves at most once for a transaction, nothing is ever      *)
(* taken back, and the counters shown with a rule change together with     *)
(* the entry they count.  RuleEngine implements it.                        *)
(***************************************************************************)
EXTENDS Naturals

CONSTANTS Rules, Txs, Accounts

Entry == [rule : Rules, tx : Txs, amount : Nat,
          source : Accounts, target : Accounts]

VARIABLES
    saved, \* the entries of the ledger
    count, \* times a rule was triggered
    total  \* cents a rule has saved

Init ==
    /\ saved = {}
    /\ count = [r \in Rules |-> 0]
    /\ total = [r \in Rules |-> 0]

(* The next entry is any entry whose rule and transaction are new together.*)
Save ==
    \E e \in saved' \ saved :
        /\ e \in Entry
        /\ \A f \in saved : f.rule # e.rule \/ f.tx # e.tx
        /\ saved' = saved \cup {e}
        /\ count' = [count EXCEPT ![e.rule] = @ + 1]
        /\ total' = [total EXCEPT ![e.rule] = @ + e.amount]

Spec == Init /\ [][Save]_<<saved, count, total>>
=============================================================================
