-------------------------------- MODULE Pipe --------------------------------
(***************************************************************************)
(* One pipe between tasks (src/kernel/proc/pipe.c): the ring buffer, the *)
(* one slot for a blocked reader and the one for a blocked writer, the two *)
(* ends, exit and kill while a task is blocked.  Each task is a process of *)
(* its own, with its descriptors.                                          *)
(*                                                                         *)
(* Reads and writes are atomic up to the sched_yield they make.  A write   *)
(* takes one step per byte; busy is the task in its loop, and nothing else *)
(* happens until it blocks or returns.                                     *)
(***************************************************************************)
EXTENDS SchedOps

CONSTANTS
    N,              \* PIPE_BUF_SIZE
    Bytes,
    MaxSize,        \* largest read or write
    Calls,          \* task -> the system calls it makes in this workload
    Shell           \* the task that runs first, the parent of the others

ASSUME PipeAssumption ==
    /\ N \in Nat \ {0} /\ MaxSize \in Nat \ {0}
    /\ Bytes # {} /\ Shell \in Tasks

VARIABLES
    s,              \* the scheduler
    buf, read_pos, write_pos, count,
    read_closed, write_closed,
    blocked_reader, blocked_writer,
    holds,          \* task -> the ends it has a descriptor of
    busy,           \* the task in the loop of pipe_write_op, or Null
    at,             \* task -> where it continues: "user", or in "read" or "write"
    size,           \* task -> the size of its read
    todo,           \* task -> the bytes it has still to write
    got,            \* what the last read returned
    dead            \* the tasks that exited or were killed

ring == <<buf, read_pos, write_pos, count>>
ends == <<read_closed, write_closed, holds>>
slots == <<blocked_reader, blocked_writer>>
calls == <<busy, at, size, todo>>
vars == <<s, ring, ends, slots, calls, got, dead>>

\* ref_count is 0 and the pipe is freed.
Freed == read_closed /\ write_closed

Resumed(t, where) == busy = Null /\ s.cur = t /\ at[t] = where

InUser(t) == Resumed(t, "user")

\* The shell has created the pipe and holds both ends.
Init ==
    /\ s = SchedInit(Shell)
    /\ buf = [i \in 0 .. (N - 1) |-> CHOOSE b \in Bytes : TRUE]
    /\ read_pos = 0 /\ write_pos = 0 /\ count = 0
    /\ read_closed = FALSE /\ write_closed = FALSE
    /\ blocked_reader = Null /\ blocked_writer = Null
    /\ holds = [t \in Tasks |-> IF t = Shell THEN {"r", "w"} ELSE {}]
    /\ busy = Null
    /\ at = [t \in Tasks |-> "user"]
    /\ size = [t \in Tasks |-> 0]
    /\ todo = [t \in Tasks |-> <<>>]
    /\ got = <<>>
    /\ dead = {}

\* The shell forks the others; each gets copies of its descriptors.
fork(t, u) ==
    /\ InUser(t) /\ "fork" \in Calls[t]
    /\ s.state[u] = "ZOMBIE" /\ u \notin dead
    /\ s' = sched_enqueue(s, u)
    /\ holds' = [holds EXCEPT ![u] = holds[t]]
    /\ UNCHANGED <<ring, read_closed, write_closed, slots, calls, got, dead>>

-----------------------------------------------------------------------------
Content == [i \in 1 .. count |-> buf[(read_pos + i - 1) % N]]

\* Unblocks the task in a slot, if there is one.
UnblockSlot(s0, slot) == IF slot = Null THEN s0 ELSE sched_unblock(s0, slot)

\* The loop of pipe_read_op, from its test, for a read of n bytes.
ReadLoop(t, n) ==
    LET m == IF n < count THEN n ELSE count
    IN  \/ /\ count = 0 /\ ~ write_closed
           /\ blocked_reader' = t
           /\ s' = sched_switch(sched_block(s, t))
           /\ at' = [at EXCEPT ![t] = "read"]
           /\ size' = [size EXCEPT ![t] = n]
           /\ UNCHANGED <<ring, blocked_writer, got>>
        \/ /\ count = 0 /\ write_closed
           /\ got' = <<>>
           /\ at' = [at EXCEPT ![t] = "user"]
           /\ size' = [size EXCEPT ![t] = 0]
           /\ UNCHANGED <<s, ring, blocked_writer>>
           /\ blocked_reader' = IF at[t] = "read" THEN Null ELSE blocked_reader
        \/ /\ count > 0
           /\ got' = SubSeq(Content, 1, m)
           /\ read_pos' = (read_pos + m) % N
           /\ count' = count - m
           /\ s' = UnblockSlot(s, blocked_writer)
           /\ blocked_writer' = Null
           /\ blocked_reader' = IF at[t] = "read" THEN Null ELSE blocked_reader
           /\ at' = [at EXCEPT ![t] = "user"]
           /\ size' = [size EXCEPT ![t] = 0]
           /\ UNCHANGED <<buf, write_pos>>

\* The task must have the read end; a resumed read goes on without that test.
read(t, n) ==
    /\ InUser(t) /\ "read" \in Calls[t] /\ "r" \in holds[t]
    /\ ReadLoop(t, n)
    /\ UNCHANGED <<ends, busy, todo, dead>>

read_resume(t) ==
    /\ Resumed(t, "read") /\ ~ Freed
    /\ ReadLoop(t, size[t])
    /\ UNCHANGED <<ends, busy, todo, dead>>

-----------------------------------------------------------------------------
\* pipe_write_op starts: EPIPE when the read end is closed.
write(t, data) ==
    /\ InUser(t) /\ "write" \in Calls[t] /\ "w" \in holds[t]
    /\ ~ read_closed
    /\ todo' = [todo EXCEPT ![t] = data]
    /\ at' = [at EXCEPT ![t] = "write"]
    /\ busy' = t
    /\ UNCHANGED <<s, ring, ends, slots, size, got, dead>>

\* A blocked writer is resumed and goes on with its loop.
write_resume(t) ==
    /\ Resumed(t, "write") /\ ~ Freed
    /\ blocked_writer' = Null
    /\ busy' = t
    /\ UNCHANGED <<s, ring, ends, blocked_reader, at, size, todo, got, dead>>

Return(t) ==
    /\ todo' = [todo EXCEPT ![t] = <<>>]
    /\ at' = [at EXCEPT ![t] = "user"]
    /\ busy' = Null

\* Mutant of write_step: one byte too many fits.
write_step_OffByOne(t) ==
    /\ busy = t
    /\ \/ /\ todo[t] = <<>> \/ (count > N /\ read_closed)
          /\ Return(t)
          /\ UNCHANGED <<s, ring, slots>>
       \/ /\ todo[t] # <<>> /\ count > N /\ ~ read_closed
          /\ blocked_writer' = t
          /\ s' = sched_switch(sched_block(s, t))
          /\ busy' = Null
          /\ UNCHANGED <<ring, blocked_reader, at, todo>>
       \/ /\ todo[t] # <<>> /\ count <= N
          /\ buf' = [buf EXCEPT ![write_pos] = Head(todo[t])]
          /\ write_pos' = (write_pos + 1) % N
          /\ count' = count + 1
          /\ s' = UnblockSlot(WakeAll(s), blocked_reader)
          /\ blocked_reader' = Null
          /\ todo' = [todo EXCEPT ![t] = Tail(@)]
          /\ UNCHANGED <<read_pos, blocked_writer, busy, at>>
    /\ UNCHANGED <<ends, size, got, dead>>

\* Mutant of write_step: a blocked writer is not in the slot.
write_step_NoSlot(t) ==
    /\ busy = t
    /\ \/ /\ todo[t] = <<>> \/ (count >= N /\ read_closed)
          /\ Return(t)
          /\ UNCHANGED <<s, ring, slots>>
       \/ /\ todo[t] # <<>> /\ count >= N /\ ~ read_closed
          /\ UNCHANGED blocked_writer
          /\ s' = sched_switch(sched_block(s, t))
          /\ busy' = Null
          /\ UNCHANGED <<ring, blocked_reader, at, todo>>
       \/ /\ todo[t] # <<>> /\ count < N
          /\ buf' = [buf EXCEPT ![write_pos] = Head(todo[t])]
          /\ write_pos' = (write_pos + 1) % N
          /\ count' = count + 1
          /\ s' = UnblockSlot(WakeAll(s), blocked_reader)
          /\ blocked_reader' = Null
          /\ todo' = [todo EXCEPT ![t] = Tail(@)]
          /\ UNCHANGED <<read_pos, blocked_writer, busy, at>>
    /\ UNCHANGED <<ends, size, got, dead>>

\* One iteration: the write returns, blocks on a full buffer, or puts a byte and
\* wakes the I/O waiters and the blocked reader.
write_step(t) ==
    /\ busy = t
    /\ \/ /\ todo[t] = <<>> \/ (count >= N /\ read_closed)
          /\ Return(t)
          /\ UNCHANGED <<s, ring, slots>>
       \/ /\ todo[t] # <<>> /\ count >= N /\ ~ read_closed
          /\ blocked_writer' = t
          /\ s' = sched_switch(sched_block(s, t))
          /\ busy' = Null
          /\ UNCHANGED <<ring, blocked_reader, at, todo>>
       \/ /\ todo[t] # <<>> /\ count < N
          /\ buf' = [buf EXCEPT ![write_pos] = Head(todo[t])]
          /\ write_pos' = (write_pos + 1) % N
          /\ count' = count + 1
          /\ s' = UnblockSlot(WakeAll(s), blocked_reader)
          /\ blocked_reader' = Null
          /\ todo' = [todo EXCEPT ![t] = Tail(@)]
          /\ UNCHANGED <<read_pos, blocked_writer, busy, at>>
    /\ UNCHANGED <<ends, size, got, dead>>

-----------------------------------------------------------------------------

\* The ends whose last descriptor goes when task t drops those of es.
LastEnds(t, es) ==
    {e \in es \cap holds[t] : \A u \in Tasks \ {t} : e \notin holds[u]}

\* Mutant of CloseWakes: closing the write end wakes nobody.
CloseWakes_NoReader(last, s0) ==
    IF "r" \in last THEN UnblockSlot(s0, blocked_writer) ELSE s0

\* Mutant of CloseWakes: closing the read end wakes nobody.
CloseWakes_NoWriter(last, s0) ==
    IF "w" \in last THEN UnblockSlot(s0, blocked_reader) ELSE s0

\* pipe_read_close_op and pipe_write_close_op unblock the peer in its slot.
CloseWakes(last, s0) ==
    LET s1 == IF "r" \in last THEN UnblockSlot(s0, blocked_writer) ELSE s0
    IN  IF "w" \in last THEN UnblockSlot(s1, blocked_reader) ELSE s1

\* What else they do.
CloseEnds(t, es) ==
    LET last == LastEnds(t, es)
    IN  /\ holds' = [holds EXCEPT ![t] = @ \ es]
        /\ read_closed' = (read_closed \/ "r" \in last)
        /\ write_closed' = (write_closed \/ "w" \in last)
        /\ blocked_writer' = IF "r" \in last THEN Null ELSE blocked_writer
        /\ blocked_reader' = IF "w" \in last THEN Null ELSE blocked_reader

Both == {"r", "w"}

close(t, e) ==
    /\ InUser(t) /\ e \in holds[t]
    /\ CloseEnds(t, {e})
    /\ s' = CloseWakes(LastEnds(t, {e}), s)
    /\ UNCHANGED <<ring, calls, got, dead>>

\* The exit of a child wakes the shell when it is BLOCKED, whatever it waits for.
WakeShell(s0) == IF s0.state[Shell] = "BLOCKED" THEN sched_unblock(s0, Shell) ELSE s0

Die(s0, t) == [s0 EXCEPT !.state[t] = "ZOMBIE"]

exit(t) ==
    /\ InUser(t)
    /\ CloseEnds(t, Both)
    /\ s' = sched_switch(Die(WakeShell(CloseWakes(LastEnds(t, Both), s)), t))
    /\ dead' = dead \cup {t}
    /\ UNCHANGED <<ring, calls, got>>

\* kill of another task.  A slot that holds it keeps it.
kill(t, u) ==
    /\ InUser(t) /\ "kill" \in Calls[t] /\ u # t /\ s.state[u] # "ZOMBIE"
    /\ CloseEnds(u, Both)
    /\ s' = WakeShell(CloseWakes(LastEnds(u, Both), sched_forget(Die(s, u), u)))
    /\ dead' = dead \cup {u}
    /\ UNCHANGED <<ring, calls, got>>

\* The timer interrupts user code or the idle loop.
preempt ==
    /\ busy = Null
    /\ s.cur # Idle => at[s.cur] = "user"
    /\ s' = sched_switch(s)
    /\ UNCHANGED <<ring, ends, slots, calls, got, dead>>

Data == UNION {[1 .. n -> Bytes] : n \in 1 .. MaxSize}

UserStep == \E t \in Tasks :
    \/ \E u \in Tasks : fork(t, u) \/ kill(t, u)
    \/ \E n \in 1 .. MaxSize : read(t, n)
    \/ \E data \in Data : write(t, data)
    \/ \E e \in Both : close(t, e)
    \/ exit(t)

KernelStep == \E t \in Tasks : read_resume(t) \/ write_resume(t) \/ write_step(t)

Next == UserStep \/ KernelStep \/ preempt

Spec == Init /\ [][Next]_vars

\* The kernel has a step of its own to take: this is ENABLED KernelStep as long
\* as no dead task is resumed.
KernelBusy == busy # Null \/ (s.cur # Idle /\ at[s.cur] # "user")

\* Kernel code runs to its end, and the timer keeps interrupting.
FairSpec ==
    /\ Spec
    /\ []<>(~ KernelBusy) \/ []<><<KernelStep>>_vars
    /\ SF_vars(preempt)

-----------------------------------------------------------------------------
TypeOK ==
    /\ s \in SchedType
    /\ buf \in [0 .. (N - 1) -> Bytes]
    /\ read_pos \in 0 .. (N - 1) /\ write_pos \in 0 .. (N - 1) /\ count \in 0 .. N
    /\ read_closed \in BOOLEAN /\ write_closed \in BOOLEAN
    /\ blocked_reader \in Tasks \cup {Null} /\ blocked_writer \in Tasks \cup {Null}
    /\ holds \in [Tasks -> SUBSET Both]
    /\ busy \in Tasks \cup {Null}
    /\ at \in [Tasks -> {"user", "read", "write"}]
    /\ size \in [Tasks -> 0 .. MaxSize]
    /\ todo \in [Tasks -> Seq(Bytes)] /\ got \in Seq(Bytes)
    /\ dead \in SUBSET Tasks

\* The ring buffer, seen as the queue of its bytes, is the pipe that PipeFIFO
\* promises: nothing is lost, duplicated or reordered when the positions wrap,
\* and the end of file comes after the last byte (pipe_read_op, pipe_write_op).
FIFO == INSTANCE PipeFIFO WITH q <- Content, out <- got, closed <- write_closed

RefinesFIFO == FIFO!Spec

\* No wake-up is lost between one reader and one writer: a reader is blocked only
\* on an empty pipe that can still be written, a writer only on a full one that
\* can still be read.
NoLostWakeup ==
    busy = Null =>
        \A t \in Tasks \ dead : s.state[t] = "BLOCKED" =>
            /\ at[t] = "read" => count = 0 /\ ~ write_closed
            /\ at[t] = "write" => count = N /\ ~ read_closed

\* A task blocked in the pipe is in its slot, so that its peer finds it.
SlotsExact ==
    \A t \in Tasks \ dead : s.state[t] = "BLOCKED" =>
        /\ at[t] = "read" => blocked_reader = t
        /\ at[t] = "write" => blocked_writer = t


\* A task that was killed never runs again.
KilledNeverRuns == s.cur \notin dead

\* A reader returns once there is something to read or nobody to write it, a
\* writer goes on once there is room or nobody to read.
ReaderReturns ==
    \A t \in Tasks : at[t] = "read" /\ (count > 0 \/ write_closed) ~> at[t] = "user"

WriterReturns ==
    \A t \in Tasks : at[t] = "write" /\ read_closed ~> at[t] = "user"
=============================================================================
