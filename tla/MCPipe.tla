------------------------------- MODULE MCPipe -------------------------------
(***************************************************************************)
(* A shell, a reader and a writer on a pipe of two bytes, for TLC.         *)
(***************************************************************************)
EXTENDS Pipe

CONSTANTS sh, rd, wr, rd2

SamePrio == [t \in Tasks |-> 0]

\* The shell starts a pipeline and closes its own ends.
PipelineCalls ==
    [t \in Tasks |-> IF t = sh THEN {"fork"} ELSE IF t = wr THEN {"write"} ELSE {"read"}]

\* The shell may also kill.
KillCalls ==
    [t \in Tasks |-> IF t = sh THEN {"fork", "kill"} ELSE IF t = wr THEN {"write"} ELSE {"read"}]
=============================================================================
