------------------------------ MODULE Threads ------------------------------
(***************************************************************************)
(* User threads on the scheduler: the system calls that put a thread to    *)
(* sleep or wake one (yield, nanosleep, eventfd, poll, futex, the signals  *)
(* that stop, continue or interrupt) and the timer interrupt.              *)
(*                                                                         *)
(* A system call runs with interrupts off, so it is atomic up to the       *)
(* sched_yield it makes; at[t] says where thread t continues.  The loops   *)
(* that wake several tasks take one step per iteration; k says which loop  *)
(* the kernel is in, and nothing else happens until it is back in "run".   *)
(* Time is relative: until and left are ticks to go.                       *)
(***************************************************************************)
EXTENDS SchedOps

CONSTANTS
    Procs, ProcOf,  \* processes, and the process of each thread
    TaskList,       \* task_list, the order in which wakers visit the threads
    MaxSleep,       \* longest sleep or timeout, in ticks
    EfdMax,         \* UINT64_MAX - 1, the largest eventfd counter
    Semaphore,      \* EFD_SEMAPHORE
    Calls           \* thread -> the system calls it makes in this workload

ASSUME ThreadAssumption ==
    /\ ProcOf \in [Tasks -> Procs]
    /\ TaskList \in Seq(Tasks) \ {<<>>}
    /\ MaxSleep \in Nat \ {0} /\ EfdMax \in Nat \ {0}
    /\ Semaphore \in BOOLEAN

VARIABLES
    s,          \* the scheduler
    k,          \* the loop the kernel is in
    at,         \* thread -> where it continues when it runs
    futex_addr, \* thread -> it waits on the futex (one virtual address)
    word,       \* process -> the futex word at that address
    expect,     \* thread -> the val it passed to FUTEX_WAIT
    count,      \* eventfd_t.count
    wval,       \* thread -> the value eventfd_write is adding
    left,       \* thread -> ticks left to the timeout of poll
    scan, job   \* tasks a waker's loop has still to visit, and what for

vars == <<s, k, at, futex_addr, word, expect, count, wval, left, scan, job>>

Resumed(t, where) == ~ s.hung /\ k = "run" /\ s.cur = t /\ at[t] = where

InUser(t) == Resumed(t, "user")

NoJob == [what |-> "none"]

\* The boot thread runs; the others have not been created.
Init ==
    /\ s = SchedInit(TaskList[1])
    /\ k = "run"
    /\ at = [t \in Tasks |-> "user"]
    /\ futex_addr = [t \in Tasks |-> FALSE]
    /\ word = [p \in Procs |-> 0]
    /\ expect = [t \in Tasks |-> 0]
    /\ count = 0
    /\ wval = [t \in Tasks |-> 0]
    /\ left = [t \in Tasks |-> 0]
    /\ scan = <<>> /\ job = NoJob

-----------------------------------------------------------------------------
\* The current thread creates thread u, which is queued.
clone(t, u) ==
    /\ InUser(t) /\ s.state[u] = "ZOMBIE"
    /\ s' = sched_enqueue(s, u)
    /\ UNCHANGED <<k, at, futex_addr, word, expect, count, wval, left, scan, job>>

Yield(t) ==
    /\ InUser(t)
    /\ s' = sched_switch(s)
    /\ UNCHANGED <<k, at, futex_addr, word, expect, count, wval, left, scan, job>>

nanosleep(t, d) ==
    /\ "nanosleep" \in Calls[t] /\ InUser(t)
    /\ s' = SleepAndYield(s, d)
    /\ at' = [at EXCEPT ![t] = "nap"]
    /\ UNCHANGED <<k, futex_addr, word, expect, count, wval, left, scan, job>>

nanosleep_return(t) ==
    /\ Resumed(t, "nap")
    /\ at' = [at EXCEPT ![t] = "user"]
    /\ UNCHANGED <<s, k, futex_addr, word, expect, count, wval, left, scan, job>>

-----------------------------------------------------------------------------
\* Mutant of ReadLoop: the reader sleeps without registering as a waiter.
ReadLoop_NoPrepare(t, s0) ==
    IF count = 0
    THEN /\ s' = SleepAndYield(s0, 2)
         /\ at' = [at EXCEPT ![t] = "read"]
         /\ UNCHANGED count
    ELSE /\ s' = s0
         /\ at' = [at EXCEPT ![t] = "user"]
         /\ count' = IF Semaphore THEN count - 1 ELSE 0

\* The loop of eventfd_read, from its test; s0 is the scheduler at that point.
ReadLoop(t, s0) ==
    IF count = 0
    THEN /\ s' = SleepAndYield(io_wait_prepare(s0), 2)
         /\ at' = [at EXCEPT ![t] = "read"]
         /\ UNCHANGED count
    ELSE /\ s' = s0
         /\ at' = [at EXCEPT ![t] = "user"]
         /\ count' = IF Semaphore THEN count - 1 ELSE 0

eventfd_read(t) ==
    /\ \/ "read" \in Calls[t] /\ InUser(t) /\ ReadLoop(t, s)
       \/ Resumed(t, "read") /\ ReadLoop(t, io_wait_done(s))
    /\ UNCHANGED <<k, futex_addr, word, expect, wval, left, scan, job>>

\* Mutant of WriteLoop: the counter is never found full.
WriteLoop_NoLimit(t, v) ==
    /\ count' = count + v
    /\ wval' = [wval EXCEPT ![t] = 0]
    /\ k' = "wake_sys"
    /\ at' = [at EXCEPT ![t] = "user"]
    /\ UNCHANGED s

\* The loop of eventfd_write: a full counter is tried again every tick.
WriteLoop(t, v) ==
    IF EfdMax - count < v
    THEN /\ s' = SleepAndYield(s, 1)
         /\ at' = [at EXCEPT ![t] = "write"]
         /\ wval' = [wval EXCEPT ![t] = v]
         /\ UNCHANGED <<k, count>>
    ELSE /\ count' = count + v
         /\ wval' = [wval EXCEPT ![t] = 0]
         /\ k' = "wake_sys"
         /\ at' = [at EXCEPT ![t] = "user"]
         /\ UNCHANGED s

eventfd_write(t) ==
    /\ \/ "write" \in Calls[t] /\ InUser(t) /\ \E v \in 1 .. EfdMax : WriteLoop(t, v)
       \/ Resumed(t, "write") /\ WriteLoop(t, wval[t])
    /\ UNCHANGED <<futex_addr, word, expect, left, scan, job>>

\* The loop of sys_poll_handler on the eventfd, from its test.
PollLoop(t, s0, l) ==
    IF count > 0 \/ l = 0
    THEN /\ s' = s0
         /\ at' = [at EXCEPT ![t] = "user"]
         /\ left' = [left EXCEPT ![t] = 0]
    ELSE /\ s' = SleepAndYield(io_wait_prepare(s0), 2)
         /\ at' = [at EXCEPT ![t] = "poll"]
         /\ left' = [left EXCEPT ![t] = l]

poll(t) ==
    /\ \/ "poll" \in Calls[t] /\ InUser(t) /\ count = 0 /\ \E l \in 1 .. MaxSleep : PollLoop(t, s, l)
       \/ Resumed(t, "poll") /\ PollLoop(t, io_wait_done(s), left[t])
    /\ UNCHANGED <<k, futex_addr, word, expect, count, wval, scan, job>>

-----------------------------------------------------------------------------
\* A thread changes the futex word in user mode; it then calls FUTEX_WAKE.
store(t) ==
    /\ "store" \in Calls[t] /\ InUser(t)
    /\ word' = [word EXCEPT ![ProcOf[t]] = 1 - @]
    /\ at' = [at EXCEPT ![t] = "stored"]
    /\ UNCHANGED <<s, k, futex_addr, expect, count, wval, left, scan, job>>


\* FUTEX_WAIT without a timeout, with the val the thread last read.
futex_wait(t, v) ==
    /\ "futex" \in Calls[t] /\ InUser(t)
    /\ word[ProcOf[t]] = v
    /\ futex_addr' = [futex_addr EXCEPT ![t] = TRUE]
    /\ expect' = [expect EXCEPT ![t] = v]
    /\ s' = sched_switch(sched_block(s, t))
    /\ at' = [at EXCEPT ![t] = "futex"]
    /\ UNCHANGED <<k, word, count, wval, left, scan, job>>

\* FUTEX_WAIT with a timeout of d ticks.
futex_wait_timed(t, v, d) ==
    /\ "futex_timed" \in Calls[t] /\ InUser(t)
    /\ word[ProcOf[t]] = v
    /\ futex_addr' = [futex_addr EXCEPT ![t] = TRUE]
    /\ expect' = [expect EXCEPT ![t] = v]
    /\ s' = SleepAndYield(s, d)
    /\ at' = [at EXCEPT ![t] = "futex_timed"]
    /\ UNCHANGED <<k, word, count, wval, left, scan, job>>

\* Back from FUTEX_WAIT: 0, or ETIMEDOUT when futex_addr is still set.
futex_return(t) ==
    /\ Resumed(t, "futex") \/ Resumed(t, "futex_timed")
    /\ futex_addr' = [futex_addr EXCEPT ![t] = FALSE]
    /\ expect' = [expect EXCEPT ![t] = 0]
    /\ at' = [at EXCEPT ![t] = "user"]
    /\ UNCHANGED <<s, k, word, count, wval, left, scan, job>>

\* FUTEX_WAKE starts to visit the task list: n threads, or all (INT_MAX)
\* after the thread has changed the word.
futex_wake(t) ==
    /\ \/ Resumed(t, "stored") /\ job' = [what |-> "wake", quota |-> Cardinality(Tasks)]
       \/ "wake" \in Calls[t] /\ InUser(t) /\ job' = [what |-> "wake", quota |-> 1]
    /\ k' = "scan" /\ scan' = TaskList
    /\ at' = [at EXCEPT ![t] = "user"]
    /\ UNCHANGED <<s, futex_addr, word, expect, count, wval, left>>

\* One iteration of FUTEX_WAKE.  The address is virtual and is compared with
\* those of every process.
WakeVisit(t) ==
    IF ~ futex_addr[t] THEN UNCHANGED <<s, futex_addr, job>> /\ scan' = Tail(scan)
    ELSE /\ futex_addr' = [futex_addr EXCEPT ![t] = FALSE]
         /\ s' = IF s.state[t] \in {"BLOCKED", "SLEEPING"} THEN sched_unblock(s, t) ELSE s
         /\ job' = [job EXCEPT !.quota = @ - 1]
         /\ scan' = IF job.quota <= 1 THEN <<>> ELSE Tail(scan)

-----------------------------------------------------------------------------
\* kill: stop, continue, or a signal with a handler, sent to a process.
kill(t, p, sig) ==
    /\ sig \in Calls[t] /\ InUser(t)
    /\ k' = "scan" /\ scan' = TaskList
    /\ job' = [what |-> sig, proc |-> p]
    /\ UNCHANGED <<s, at, futex_addr, word, expect, count, wval, left>>

\* One iteration of sys_kill_handler.
KillVisit(t) ==
    /\ s' = IF ProcOf[t] # job.proc \/ s.state[t] = "ZOMBIE" THEN s
            ELSE IF job.what = "stop" THEN sched_block(s, t)
            ELSE IF job.what = "cont" \/ s.state[t] \in {"BLOCKED", "SLEEPING"}
            THEN sched_unblock(s, t)
            ELSE s
    /\ scan' = Tail(scan)
    /\ UNCHANGED <<futex_addr, job>>

\* The loop over task_list of FUTEX_WAKE and of kill.
visit ==
    /\ ~ s.hung /\ k = "scan" /\ scan # <<>>
    /\ IF job.what = "wake" THEN WakeVisit(Head(scan)) ELSE KillVisit(Head(scan))
    /\ UNCHANGED <<k, at, word, expect, count, wval, left>>

visit_end ==
    /\ ~ s.hung /\ k = "scan" /\ scan = <<>>
    /\ k' = "run" /\ job' = NoJob
    /\ UNCHANGED <<s, at, futex_addr, word, expect, count, wval, left, scan>>

-----------------------------------------------------------------------------
\* The timer interrupts user code or the idle loop.
timer_callback ==
    /\ ~ s.hung /\ k = "run"
    /\ s.cur # Idle => at[s.cur] \in {"user", "stored"}
    /\ s' = Elapse(s)
    /\ left' = [t \in Tasks |-> IF left[t] = 0 THEN 0 ELSE left[t] - 1]
    /\ k' = "tick"
    /\ UNCHANGED <<at, futex_addr, word, expect, count, wval, scan, job>>

\* sched_timer_tick: wake the head of the sleep list when it has expired.
sched_timer_tick ==
    /\ ~ s.hung /\ k = "tick" /\ HeadExpired(s)
    /\ s' = PopExpired(s)
    /\ UNCHANGED <<k, at, futex_addr, word, expect, count, wval, left, scan, job>>

\* The rest of the interrupt.  Polling the mouse and the network may wake the
\* I/O waiters; the interrupt ends with schedule.
timer_end ==
    /\ ~ s.hung /\ k = "tick" /\ ~ HeadExpired(s)
    /\ \/ k' = "wake_irq" /\ UNCHANGED s
       \/ k' = "run" /\ s' = sched_switch(s)
    /\ UNCHANGED <<at, futex_addr, word, expect, count, wval, left, scan, job>>

\* io_wake_all, from a system call or from the timer interrupt.
io_wake_all ==
    /\ ~ s.hung /\ k \in {"wake_sys", "wake_irq"} /\ s.iow # <<>>
    /\ s' = WakeFirst(s)
    /\ UNCHANGED <<k, at, futex_addr, word, expect, count, wval, left, scan, job>>

io_wake_end ==
    /\ ~ s.hung /\ k \in {"wake_sys", "wake_irq"} /\ s.iow = <<>>
    /\ s' = IF k = "wake_irq" THEN sched_switch(s) ELSE s
    /\ k' = "run"
    /\ UNCHANGED <<at, futex_addr, word, expect, count, wval, left, scan, job>>

-----------------------------------------------------------------------------
Signals == {"stop", "cont", "handled"}

\* What a thread asks of the kernel: nothing obliges it to.
UserStep == \E t \in Tasks :
    \/ Yield(t)
    \/ \E u \in Tasks : clone(t, u)
    \/ \E d \in 1 .. MaxSleep : nanosleep(t, d)
    \/ InUser(t) /\ (eventfd_read(t) \/ eventfd_write(t) \/ poll(t))
    \/ store(t)
    \/ \E v \in {0, 1} : futex_wait(t, v)
    \/ \E v \in {0, 1}, d \in 1 .. MaxSleep : futex_wait_timed(t, v, d)
    \/ futex_wake(t)
    \/ \E p \in Procs, sig \in Signals : kill(t, p, sig)

\* What the kernel goes on to do by itself.
KernelStep ==
    \/ \E t \in Tasks :
          \/ nanosleep_return(t) \/ futex_return(t)
          \/ ~ InUser(t) /\ (eventfd_read(t) \/ eventfd_write(t) \/ poll(t))
    \/ visit \/ visit_end
    \/ sched_timer_tick \/ timer_end \/ io_wake_all \/ io_wake_end

Next == UserStep \/ KernelStep \/ timer_callback

Spec == Init /\ [][Next]_vars

\* The kernel has a step of its own to take: this is ENABLED KernelStep.
KernelBusy ==
    /\ ~ s.hung
    /\ k # "run" \/ (s.cur # Idle /\ at[s.cur] \notin {"user", "stored"})

\* Kernel code runs to its end: weak fairness of KernelStep.  The timer keeps
\* interrupting: an interrupt raised during a system call stays pending in the
\* APIC and is taken when the call returns to user mode, hence strong fairness.
FairSpec ==
    /\ Spec
    /\ []<>(~ KernelBusy) \/ []<><<KernelStep>>_vars
    /\ SF_vars(timer_callback)

-----------------------------------------------------------------------------
TypeOK ==
    /\ s \in SchedType
    /\ k \in {"run", "tick", "wake_irq", "wake_sys", "scan"}
    /\ at \in [Tasks -> {"user", "nap", "read", "write", "poll", "stored",
                         "futex", "futex_timed"}]
    /\ futex_addr \in [Tasks -> BOOLEAN]
    /\ word \in [Procs -> {0, 1}] /\ expect \in [Tasks -> {0, 1}]
    /\ count \in 0 .. EfdMax
    /\ wval \in [Tasks -> 0 .. EfdMax] /\ left \in [Tasks -> 0 .. MaxSleep]
    /\ scan \in Seq(Tasks)

\* The run queues hold exactly the RUNNABLE tasks, each once, at its own
\* priority: no wake-up loses a task between its state and its queue, none
\* queues it twice (the two guards of sched_enqueue and sched_dequeue), and no
\* stopped, sleeping or dead task is ever picked.
RunQueueExact == QueuesExact(s)

\* When the processor changes hands it goes to a RUNNABLE task that no other
\* RUNNABLE task outranks, and to the idle task only when none is RUNNABLE
\* (sched_switch).
StrictPriority ==
    [][s'.cur # s.cur =>
          \A t \in Tasks : s'.state[t] = "RUNNABLE" =>
              /\ s'.cur \in Tasks /\ s'.state[s'.cur] = "RUNNABLE"
              /\ Prio[s'.cur] <= Prio[t]]_vars

\* The sleep list is a list, sorted by deadline; it holds every SLEEPING task,
\* and of the others only those that were stopped in their sleep.
SleepListSound ==
    /\ ~ SleepCycle(s) /\ ~ s.hung
    /\ \A t \in Asleep(s) :
          /\ s.state[t] \in {"SLEEPING", "BLOCKED"}
          /\ s.snext[t] # Null => s.until[t] <= s.until[s.snext[t]]
    /\ \A t \in Tasks : s.state[t] = "SLEEPING" => t \in Asleep(s)

\* Once the timer interrupt is over nobody sleeps past its deadline: the short
\* deadline of poll and of the blocking reads is what makes them look again.
NoOversleep ==
    k = "run" => \A t \in Tasks : s.state[t] = "SLEEPING" => s.until[t] > 0

\* The same for the threads in poll.
PollDeadline ==
    k = "run" => \A t \in Tasks :
        at[t] = "poll" /\ s.state[t] = "SLEEPING" => s.until[t] > 0

\* A producer wakes all I/O waiters: when its system call is over, a thread
\* that reads or polls a non-empty eventfd is not asleep (io_wait_prepare,
\* io_wake_all).
NoLostEvent ==
    k = "run" /\ count > 0 =>
        \A t \in Tasks : at[t] \in {"read", "poll"} => s.state[t] # "SLEEPING"


\* Every sleeper wakes up.
SleepersWake ==
    \A t \in Tasks : s.state[t] = "SLEEPING" ~> s.state[t] # "SLEEPING"

\* Every RUNNABLE thread runs: the timer puts the current one behind all others
\* of its priority.
RunnableRuns ==
    \A t \in Tasks : s.state[t] = "RUNNABLE" ~> (s.cur = t \/ s.state[t] # "RUNNABLE")
=============================================================================
