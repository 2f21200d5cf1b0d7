----------------------------- MODULE MCThreads -----------------------------
(***************************************************************************)
(* Three threads of two processes.                                         *)
(***************************************************************************)
EXTENDS Threads

CONSTANTS t1, t2, t3, p1, p2

\* Two threads share a process; the third one is of another.
MCProcOf == [t \in Tasks |-> IF t = t3 THEN p2 ELSE p1]

MCTaskList == <<t1, t3, t2>>

SamePrio == [t \in Tasks |-> 0]

\* A timed waiter that also sleeps, a sleeper that polls, and the thread that
\* wakes and signals them.
MixedCalls == [t \in Tasks |->
    IF t = t1 THEN {"futex_timed", "nanosleep", "read"}
    ELSE IF t = t2 THEN {"futex", "poll"}
    ELSE {"store", "wake", "write", "stop", "cont", "handled"}]

\* Every thread sleeps, reads, writes and polls; one stops the others.
SleepCalls == [t \in Tasks |->
    IF t = t3 THEN {"nanosleep", "write", "stop"}
    ELSE {"nanosleep", "read", "write", "poll"}]

TwoPrios == [t \in Tasks |-> IF t = t1 THEN 1 ELSE 0]
=============================================================================
