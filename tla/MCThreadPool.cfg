SPECIFICATION Spec
CONSTANTS
    t1 = t1
    t2 = t2
    t3 = t3
    None = None
    Worker = {w1, w2}
    Submitter = {c1, c2}
    Waiter = {c2}
    Task = {t1, t2, t3}
    Prio <- MCPrio
    Timed <- MCTimed
    Limits = {1, 2}
SYMMETRY MCSymmetry
INVARIANTS
    TypeOK
    TaskHeldOnce
    FifoAmongEquals
    QueueBounded
    DrainedForGood
    QuietAfterJoin
PROPERTY WaitAllMissesPopped
CHECK_DEADLOCK FALSE
