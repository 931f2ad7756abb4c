\* Two workers, four requests, one retry each.
SPECIFICATION FairSpec
CONSTANTS
    w1 = w1
    w2 = w2
    Workers = {w1, w2}
    NumRequests = 4
    MaxRetries = 1
    Configured = {TRUE, FALSE}
INVARIANTS TypeOK OwnAnswerOrError NoSendOnClosed RoomForEveryResult
PROPERTIES BatchEnds
