\* A rule execution that notifies and another call share two connections; the
\* user who is notified has one endpoint and gets, and gives back, another.
SPECIFICATION SubscribedSpec
CONSTANTS
    s1 = s1
    c1 = c1
    r1 = r1
    u1 = u1
    u2 = u2
    e1 = e1
    e2 = e2
    Calls = {s1, c1}
    Nested = {s1}
    MaxConns = 2
    MaxStage = 1
    NoCall = NoCall
    Senders = {s1}
    Requests = {r1}
    Users = {u1, u2}
    UserOf <- OneUser
    Savers = {u1}
    Endpoints = {e1, e2}
    MaxRows = 3
    None = None
    Unknown = Unknown
INVARIANTS TypeOK ExhaustedAtLimitOnly
PROPERTIES UnsubscribedStaysSilent DeactivatesOnlyGone NotifierEnds GoneAreDeactivated
\* The pool may be exhausted for good, and the rows used up.
CHECK_DEADLOCK FALSE
