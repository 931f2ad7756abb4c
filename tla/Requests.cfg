\* Two users, two sessions, two concurrent requests; an item whose refresh is
\* started three times.
SPECIFICATION Spec
CONSTANTS
    u1 = u1
    u2 = u2
    s1 = s1
    s2 = s2
    r1 = r1
    r2 = r2
    i1 = i1
    Users = {u1, u2}
    Sids = {s1, s2}
    Requests = {r1, r2}
    None = None
    Items = {i1}
    ItemUser <- OfFirst
    MaxStarts = 3
    NoGenerator = NoGenerator
SYMMETRY SidsAndRequests
INVARIANTS TypeOK SessionsExpire OneLoopPerItem StatusIsTrue
PROPERTIES GoneForGood OwnersOnly
\* The system may come to rest: both accounts deleted, no request.
CHECK_DEADLOCK FALSE
