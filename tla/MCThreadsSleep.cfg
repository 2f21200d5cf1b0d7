CONSTANTS
    t1 = t1
    t2 = t2
    t3 = t3
    Tasks = {t1, t2, t3}
    Idle = Idle
    Null = Null
    NumPriorities = 1
    Prio <- SamePrio
    MaxIoWaiters = 3
    Procs = {p1, p2}
    p1 = p1
    p2 = p2
    ProcOf <- MCProcOf
    TaskList <- MCTaskList
    MaxSleep = 2
    EfdMax = 2
    Semaphore = TRUE
    Calls <- SleepCalls
SPECIFICATION FairSpec
INVARIANTS
    SleepListSound
    NoOversleep
PROPERTIES
    SleepersWake
    RunnableRuns
