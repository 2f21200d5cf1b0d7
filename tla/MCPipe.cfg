CONSTANTS
    sh = sh
    rd = rd
    wr = wr
    rd2 = rd2
    Tasks = {sh, rd, wr}
    Shell = sh
    Idle = Idle
    Null = Null
    NumPriorities = 1
    Prio <- SamePrio
    MaxIoWaiters = 1
    N = 2
    Bytes = {0}
    MaxSize = 3
    Calls <- PipelineCalls
SPECIFICATION FairSpec
INVARIANTS
    NoLostWakeup
    SlotsExact
    
PROPERTIES
    ReaderReturns
    WriterReturns
