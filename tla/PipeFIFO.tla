------------------------------ MODULE PipeFIFO ------------------------------
(***************************************************************************)
(* What a pipe promises: a bounded queue of bytes.  A read returns the     *)
(* oldest bytes, in order and at least one, or the end of the file, which  *)
(* it sees only when the write end is closed and every byte has been read. *)
(***************************************************************************)
EXTENDS Naturals, Sequences

CONSTANTS N, Bytes

VARIABLES
    q,          \* the bytes in the pipe, oldest first
    out,        \* what the last read returned
    closed      \* the write end is closed

Init == q = <<>> /\ out = <<>> /\ closed = FALSE

Put(b) ==
    /\ Len(q) < N
    /\ q' = Append(q, b)
    /\ UNCHANGED <<out, closed>>

Get(m) ==
    /\ m <= Len(q)
    /\ out' = SubSeq(q, 1, m)
    /\ q' = SubSeq(q, m + 1, Len(q))
    /\ UNCHANGED closed

EndOfFile ==
    /\ closed /\ q = <<>>
    /\ out' = <<>>
    /\ UNCHANGED <<q, closed>>

Close ==
    /\ closed' = TRUE
    /\ UNCHANGED <<q, out>>

Next ==
    \/ \E b \in Bytes : Put(b)
    \/ \E m \in 1 .. N : Get(m)
    \/ EndOfFile
    \/ Close

Spec == Init /\ [][Next]_<<q, out, closed>>
=============================================================================
