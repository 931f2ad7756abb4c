\* Two syncs that nothing interrupts.
SPECIFICATION Spec
CONSTANTS
    p1 = p1
    p2 = p2
    t1 = t1
    t2 = t2
    i1 = i1
    i2 = i2
    i3 = i3
    Syncs = {p1, p2}
    Txs = {t1}
    RowIds = {i1, i2}
    PageSize = 2
    Faults = {}
    None = None
    MaxLog = 2
    MaxFailures = 1
    MaxCrashes = 0
INVARIANTS NeverBehind
