CONSTANTS
    t1 = t1
    t2 = t2
    t3 = t3
    t4 = t4
    a1 = a1
    Tasks = {t1, t2, t3}
    Idle = Idle
    Null = Null
    NumPriorities = 1
    Prio <- SamePrio
    MaxIoWaiters = 1
    MaxPid = 2
    Addrs = {a1}
    Joining = {1}
    Traps = TRUE
SPECIFICATION Spec
INVARIANT
    NoHungParent
