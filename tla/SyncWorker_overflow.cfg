\* The same until attempt 7, where the product does not fit any more.
SPECIFICATION Spec
CONSTANTS
    i1 = i1
    i2 = i2
    Items = {i1, i2}
    UserItems = {i1, i2}
    Broken = {i1}
    NoItem = NoItem
    MinBackoff = 2
    MaxBackoff = 12
    MaxDuration = 127
    MaxAttempts = 7
INVARIANTS BackoffAsDocumented
