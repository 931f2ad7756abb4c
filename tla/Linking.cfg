\* Two items, one of which can never be synced; five attempts fit.
SPECIFICATION FairLinkingSpec
CONSTANTS
    i1 = i1
    i2 = i2
    Items = {i1, i2}
    UserItems = {i1, i2}
    Broken = {i1}
    NoItem = NoItem
    MinBackoff = 2
    MaxBackoff = 12
    MaxDuration = 127
    MaxAttempts = 5
    NumAccounts = 1
INVARIANTS TypeOK BackoffAsDocumented
PROPERTIES ImplementsWorker SyncedUnlessStuck StopsWhenCancelled RequestReachesAll
