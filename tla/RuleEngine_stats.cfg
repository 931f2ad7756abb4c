\* Two concurrent calls for two transactions of two users, one rule: row locks,
\* counters and every handler.
SPECIFICATION Spec
CONSTANTS
    u1 = u1
    u2 = u2
    c1 = c1
    s1 = s1
    c2 = c2
    s2 = s2
    p1 = p1
    p2 = p2
    r1 = r1
    r2 = r2
    t1 = t1
    t2 = t2
    e1 = e1
    e2 = e2
    e3 = e3
    e4 = e4
    Workers = {p1, p2}
    Users = {u1, u2}
    Accounts = {c1, s1, c2, s2}
    Rules = {r1}
    Txs = {t1, t2}
    ExecIds = {e1, e2, e3, e4}
    AccountUser <- TwoUsers
    SavingsAccounts = {s1, s2}
    Terms <- MultiplyTerms
    TxRows <- DebitsAndCredit
    FallsShort <- Short
    NoLimit = NoLimit
    None = None
    Deleted = Deleted
SYMMETRY WorkersAndExecs
INVARIANTS TypeOK OneOwner ExecutionCountsMatch SavedTotalsMatch NoOrphans
PROPERTIES ImplementsLedger
\* The system may come to rest: every rule and transaction deleted, no call.
CHECK_DEADLOCK FALSE
