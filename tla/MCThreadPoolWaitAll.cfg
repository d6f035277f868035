SPECIFICATION FairSpec
CONSTANTS
    t1 = t1
    t2 = t2
    t3 = t3
    None = None
    Worker = {w1, w2}
    Submitter = {c1}
    Waiter = {c2}
    Task = {t1}
    Prio <- MCPrio
    Timed <- MCTimed
    Limits = {2}
PROPERTY WaitAllReturns
CHECK_DEADLOCK FALSE
