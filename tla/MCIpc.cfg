SPECIFICATION MCFairSpec
CONSTANTS
    Clients = {c1, c2}
    Requests = {r1}
    NoRequest = NoRequest
    MaxQueueSize = 1
    MaxBegun = 2
    MaxToggles = 0
    MaxStarts = 0
CHECK_DEADLOCK FALSE
PROPERTY AcceptedIsSent
PROPERTY CallsReturn
PROPERTY StopReturns
PROPERTY PendingExpires
PROPERTY OthersSettle
