CONSTANTS
    sh = sh
    rd = rd
    wr = wr
    rd2 = rd2
    Tasks = {sh, rd, wr}
    Shell = sh
    Idle = Idle
    Null = Null
    NumPriorities = 1
    Prio <- SamePrio
    MaxIoWaiters = 1
    N = 2
    Bytes = {0, 1}
    MaxSize = 2
    Calls <- KillCalls
SPECIFICATION Spec
INVARIANT
    TypeOK
PROPERTY
    RefinesFIFO
\* A dead task that is resumed in a freed pipe is not followed any further.
CHECK_DEADLOCK FALSE
