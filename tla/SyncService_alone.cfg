\* One sync at a time that nothing interrupts, two transactions.
SPECIFICATION Spec
CONSTANTS
    p1 = p1
    p2 = p2
    t1 = t1
    t2 = t2
    i1 = i1
    i2 = i2
    i3 = i3
    Syncs = {p1}
    Txs = {t1, t2}
    RowIds = {i1, i2, i3}
    PageSize = 2
    Faults = {}
    None = None
    MaxLog = 4
    MaxFailures = 1
    MaxCrashes = 0
SYMMETRY Ids
INVARIANTS NeverBehind BalancesCurrent
