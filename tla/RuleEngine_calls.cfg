\* Two concurrent calls for two transactions, two rules: calls wait for each
\* other's unique keys and row locks, and go on after errors.
SPECIFICATION CallsSpec
CONSTANTS
    u1 = u1
    u2 = u2
    c1 = c1
    s1 = s1
    c2 = c2
    s2 = s2
    p1 = p1
    p2 = p2
    r1 = r1
    r2 = r2
    t1 = t1
    t2 = t2
    e1 = e1
    e2 = e2
    e3 = e3
    e4 = e4
    Workers = {p1, p2}
    Users = {u1}
    Accounts = {c1, s1}
    Rules = {r1, r2}
    Txs = {t1, t2}
    ExecIds = {e1, e2, e3}
    AccountUser <- OneUser
    SavingsAccounts = {s1}
    Terms <- BothTerms
    TxRows <- LargeAndSmall
    FallsShort <- Short
    NoLimit = NoLimit
    None = None
    Deleted = Deleted
INVARIANTS OncePerTransaction LedgerWhole NoMatchLost NoSecondNotice
PROPERTIES CallsReturn
