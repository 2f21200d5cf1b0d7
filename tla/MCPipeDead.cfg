CONSTANTS
    sh = sh
    rd = rd
    wr = wr
    rd2 = rd2
    Tasks = {sh, rd, rd2, wr}
    Shell = sh
    Idle = Idle
    Null = Null
    NumPriorities = 1
    Prio <- SamePrio
    MaxIoWaiters = 1
    N = 2
    Bytes = {0, 1}
    MaxSize = 1
    Calls <- KillCalls
SPECIFICATION Spec
INVARIANT
    KilledNeverRuns
