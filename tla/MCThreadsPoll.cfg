CONSTANTS
    t1 = t1
    t2 = t2
    t3 = t3
    Tasks = {t1, t2, t3}
    Idle = Idle
    Null = Null
    NumPriorities = 2
    Prio <- TwoPrios
    MaxIoWaiters = 3
    Procs = {p1, p2}
    p1 = p1
    p2 = p2
    ProcOf <- MCProcOf
    TaskList <- MCTaskList
    MaxSleep = 2
    EfdMax = 1
    Semaphore = FALSE
    Calls <- MixedCalls
SPECIFICATION Spec
INVARIANT
    PollDeadline
CHECK_DEADLOCK FALSE
