------------------------------ MODULE SchedOps ------------------------------
(***************************************************************************)
(* The scheduler, src/kernel/proc/sched.c, as operators from a scheduler   *)
(* state to the next one.  The modules that model system calls apply them  *)
(* in the order the code calls them.                                       *)
(*                                                                         *)
(* A scheduler state s is a record:                                        *)
(*   state  task -> TASK_STATE_*                                           *)
(*   runq   priority -> the run queue (run_queues, run_queues_tail and the *)
(*          sched_next/sched_prev links; the bitmap is the set of          *)
(*          priorities with a non-empty queue)                             *)
(*   shead, snext  sleep_queue_head and the sleep_next links, kept as      *)
(*          links because the code can relink a task that is still on the  *)
(*          list                                                           *)
(*   until  task -> the ticks left to sleep_until, 0 when it has passed    *)
(*   iow    io_waiters                                                     *)
(*   cur    current_task                                                   *)
(*   hung   a walk along the sleep list never ends: the kernel spins with  *)
(*          interrupts off and nothing happens any more                    *)
(*                                                                         *)
(* sched_forget is used by the modules that free tasks.                    *)
(***************************************************************************)
EXTENDS Naturals, Sequences, FiniteSets

CONSTANTS
    Tasks,          \* every task but the idle task
    Idle,           \* idle_task
    Null,
    NumPriorities,
    Prio,           \* task -> priority; set when the task is created
    MaxIoWaiters    \* MAX_IO_WAITERS

Priorities == 0 .. (NumPriorities - 1)

ASSUME TaskAssumption == Idle \notin Tasks /\ Null \notin Tasks

ASSUME PrioAssumption == NumPriorities \in Nat /\ Prio \in [Tasks -> Priorities]

States == {"RUNNABLE", "BLOCKED", "SLEEPING", "ZOMBIE"}

\* The places of t in the sequence q, the first of some places, and q without
\* its i-th element.
Places(q, t) == {i \in 1 .. Len(q) : q[i] = t}

First(places) == CHOOSE n \in places : \A m \in places : n <= m

DropAt(q, i) == SubSeq(q, 1, i - 1) \o SubSeq(q, i + 1, Len(q))

Queued(s, t) == \E i \in 1 .. Len(s.runq[Prio[t]]) : s.runq[Prio[t]][i] = t

-----------------------------------------------------------------------------
\* Mutant of sched_enqueue: the duplicate-insertion guard is dropped.
sched_enqueue_NoGuard(s, t) ==
    [s EXCEPT !.state[t] = "RUNNABLE", !.runq[Prio[t]] = Append(@, t)]

\* A task that is queued is left alone, its state included.
sched_enqueue(s, t) ==
    IF Queued(s, t)
    THEN s
    ELSE [s EXCEPT !.state[t] = "RUNNABLE", !.runq[Prio[t]] = Append(@, t)]

\* Nothing happens to a task that is not queued.
sched_dequeue(s, t) ==
    LET q == s.runq[Prio[t]]
    IN  IF Queued(s, t)
        THEN [s EXCEPT !.runq[Prio[t]] =
                 DropAt(q, CHOOSE i \in 1 .. Len(q) : q[i] = t)]
        ELSE s

sched_block(s, t) == [sched_dequeue(s, t) EXCEPT !.state[t] = "BLOCKED"]

sched_unblock(s, t) == sched_enqueue(s, t)

-----------------------------------------------------------------------------
\* The sleep list: SleepNode(s)[n] is the task n links behind the head.
SleepNode(s) ==
    LET node[n \in 0 .. Cardinality(Tasks)] ==
            IF n = 0 THEN s.shead
            ELSE LET c == node[n - 1] IN IF c = Null THEN Null ELSE s.snext[c]
    IN  node

\* A list that does not end within the number of tasks is a cycle.
SleepCycle(s) == SleepNode(s)[Cardinality(Tasks)] # Null

Asleep(s) == {t \in Tasks : \E n \in 0 .. Cardinality(Tasks) : SleepNode(s)[n] = t}

\* The task behind which make_sleep inserts a sleeper of d ticks, Null when
\* the walk never ends.
InsertAfter(s, d) ==
    LET node == SleepNode(s)
        Stops(c) == c # Null /\ (s.snext[c] = Null \/ s.until[s.snext[c]] > d)
        stops == {n \in 0 .. Cardinality(Tasks) : Stops(node[n])}
    IN  IF stops = {} THEN Null ELSE node[First(stops)]

\* Mutant of sched_make_sleep: every sleeper goes to the head of the list.
sched_make_sleep_AtHead(s, t, d) ==
    [s EXCEPT !.state[t] = "SLEEPING", !.until[t] = d,
              !.snext[t] = s.shead, !.shead = t]

\* The sleeper is linked in by its deadline.  Neither its place on the run
\* queue nor a link it may already have on the sleep list is undone first.
sched_make_sleep(s, t, d) ==
    LET s1 == [s EXCEPT !.state[t] = "SLEEPING", !.until[t] = d, !.snext[t] = Null]
        c  == InsertAfter(s1, d)
    IN  IF s1.shead = Null \/ d < s1.until[s1.shead]
        THEN [s1 EXCEPT !.snext[t] = s1.shead, !.shead = t]
        ELSE IF c \in Tasks
        THEN LET s2 == [s1 EXCEPT !.snext[t] = s1.snext[c]]
             IN  [s2 EXCEPT !.snext[c] = t]
        ELSE [s1 EXCEPT !.hung = TRUE]

\* Unlinks the first link to t.  The search ends at t or at the end of the list.
Unlink(s, t) ==
    LET at == {n \in 0 .. Cardinality(Tasks) : SleepNode(s)[n] = t}
    IN  IF at = {} THEN [s EXCEPT !.hung = @ \/ SleepCycle(s)]
        ELSE IF s.shead = t THEN [s EXCEPT !.shead = s.snext[t]]
        ELSE [s EXCEPT !.snext[SleepNode(s)[First(at) - 1]] = s.snext[t]]

sched_wake(s, t) ==
    IF s.state[t] # "SLEEPING" THEN s
    ELSE sched_enqueue([Unlink(s, t) EXCEPT !.snext[t] = Null, !.until[t] = 0], t)

\* One iteration of sched_timer_tick: the head of the list has expired.
HeadExpired(s) == s.shead # Null /\ s.until[s.shead] = 0

\* Mutant of PopExpired: the sleeper is unlinked and not queued.
PopExpired_Dropped(s) ==
    [s EXCEPT !.shead = s.snext[s.shead], !.snext[s.shead] = Null]

PopExpired(s) ==
    LET t == s.shead
    IN  sched_enqueue([s EXCEPT !.shead = s.snext[t], !.snext[t] = Null], t)

\* The passing of one tick, seen from the deadlines.
Elapse(s) == [s EXCEPT !.until = [t \in Tasks |-> IF @[t] = 0 THEN 0 ELSE @[t] - 1]]

-----------------------------------------------------------------------------
\* Removing an entry of io_waiters moves the last entry into its place.
DropWaiter(w, t) ==
    IF Places(w, t) = {} THEN w
    ELSE SubSeq([w EXCEPT ![First(Places(w, t))] = w[Len(w)]], 1, Len(w) - 1)

io_wait_prepare(s) ==
    IF Places(s.iow, s.cur) # {} \/ Len(s.iow) >= MaxIoWaiters THEN s
    ELSE [s EXCEPT !.iow = Append(@, s.cur)]

io_wait_done(s) == [s EXCEPT !.iow = DropWaiter(@, s.cur)]

\* One iteration of io_wake_all; the table is empty when it returns.
WakeFirst(s) == [sched_wake(s, Head(s.iow)) EXCEPT !.iow = Tail(@)]

\* io_wake_all as one step.
WakeAll(s) ==
    IF s.iow = <<>> THEN s
    ELSE LET w[i \in 0 .. Len(s.iow)] == IF i = 0 THEN s ELSE sched_wake(w[i - 1], s.iow[i])
         IN  [w[Len(s.iow)] EXCEPT !.iow = <<>>]

sched_forget(s, t) ==
    [Unlink(sched_dequeue(s, t), t) EXCEPT
        !.snext[t] = Null, !.iow = DropWaiter(@, t)]

-----------------------------------------------------------------------------
\* Mutant of Pick: the lowest priority of the bitmap is served first.
Pick_Lowest(s) ==
    LET ready == {p \in Priorities : s.runq[p] # <<>>}
    IN  IF ready = {} THEN Idle
        ELSE s.runq[CHOOSE p \in ready : \A q \in ready : q <= p][1]

\* The head of the best non-empty queue; the smallest number is the best.
Pick(s) ==
    LET ready == {p \in Priorities : s.runq[p] # <<>>}
    IN  IF ready = {} THEN Idle
        ELSE s.runq[CHOOSE p \in ready : \A q \in ready : p <= q][1]

\* Mutant of sched_switch: a RUNNABLE current task keeps its place.
sched_switch_NoRotate(s) ==
    LET s1 == IF s.cur = Idle \/ s.state[s.cur] = "RUNNABLE" THEN s
              ELSE sched_dequeue(s, s.cur)
    IN  [s1 EXCEPT !.cur = Pick(s1)]

\* A current task that is still RUNNABLE goes to the tail of its queue.
sched_switch(s) ==
    LET s1 == IF s.cur = Idle THEN s
              ELSE IF s.state[s.cur] = "RUNNABLE"
              THEN sched_enqueue(sched_dequeue(s, s.cur), s.cur)
              ELSE sched_dequeue(s, s.cur)
    IN  [s1 EXCEPT !.cur = Pick(s1)]

\* sched_make_sleep of the current task, then sched_yield.
SleepAndYield(s, d) == sched_switch(sched_make_sleep(s, s.cur, d))

\* The run queues hold exactly the RUNNABLE tasks, each once, at its own
\* priority.
QueuesOrdered(s) ==
    \A p \in Priorities : \A i \in 1 .. Len(s.runq[p]) :
        /\ Prio[s.runq[p][i]] = p
        /\ \A j \in 1 .. Len(s.runq[p]) : s.runq[p][i] = s.runq[p][j] => i = j

QueuesExact(s) ==
    /\ QueuesOrdered(s)
    /\ \A t \in Tasks : Queued(s, t) <=> s.state[t] = "RUNNABLE"

\* The type of a scheduler state.
SchedType ==
    [state : [Tasks -> States], runq : [Priorities -> Seq(Tasks)],
     shead : Tasks \cup {Null}, snext : [Tasks -> Tasks \cup {Null}],
     until : [Tasks -> Nat], iow : Seq(Tasks),
     cur : Tasks \cup {Idle}, hung : BOOLEAN]

\* sched_init: one task exists and runs.  A task that has not been created is
\* on no list and counts as ZOMBIE.
SchedInit(first) ==
    [state |-> [t \in Tasks |-> IF t = first THEN "RUNNABLE" ELSE "ZOMBIE"],
     runq  |-> [p \in Priorities |-> IF p = Prio[first] THEN <<first>> ELSE <<>>],
     shead |-> Null,
     snext |-> [t \in Tasks |-> Null],
     until |-> [t \in Tasks |-> 0],
     iow   |-> <<>>,
     cur   |-> first,
     hung  |-> FALSE]
=============================================================================
