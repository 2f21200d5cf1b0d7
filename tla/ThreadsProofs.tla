--------------------------- MODULE ThreadsProofs ---------------------------
(***************************************************************************)
(* Proofs about the threads and the scheduler they run on, for any number  *)
(* of tasks, priorities and waiters and any workload.                      *)
(***************************************************************************)
EXTENDS Threads, SchedProofs

-----------------------------------------------------------------------------
Inv == TypeOK /\ RunQueueExact

LEMMA InitInv == Init => Inv
<1> SUFFICES ASSUME Init PROVE Inv
  OBVIOUS
<1> DEFINE f == TaskList[1]
           r == [p \in Priorities |-> IF p = Prio[f] THEN <<f>> ELSE <<>>]
           a == [t \in Tasks |-> IF t = f THEN "RUNNABLE" ELSE "ZOMBIE"]
<1>1. f \in Tasks
  BY ThreadAssumption
<1>2. /\ s.state = a /\ s.runq = r /\ s.shead = Null /\ s.cur = f
      /\ s = SchedInit(f)
  BY DEF Init, SchedInit
<1> HIDE DEF f
<1>3. <<f>> \in Seq(Tasks) /\ Len(<<f>>) = 1 /\ <<f>>[1] = f
      /\ <<>> \in Seq(Tasks) /\ Len(<<>>) = 0
  BY <1>1
<1>4. r \in [Priorities -> Seq(Tasks)] /\ a \in [Tasks -> States]
  BY <1>1, <1>3, PrioAssumption DEF States
<1>5. s \in SchedType
  BY <1>1, <1>2, <1>3, <1>4 DEF SchedInit, SchedType
<1>6. Prio[f] \in Priorities
  BY <1>1, PrioAssumption
<1>7. QueuesOrdered(s)
  <2> SUFFICES ASSUME NEW p \in Priorities, NEW i \in 1 .. Len(r[p]), NEW j \in 1 .. Len(r[p])
               PROVE  Prio[r[p][i]] = p /\ (r[p][i] = r[p][j] => i = j)
    BY <1>2 DEF QueuesOrdered
  <2>1. CASE p = Prio[f]
    BY <1>3, <2>1
  <2>2. CASE p # Prio[f]
    BY <1>3, <2>2
  <2> QED BY <2>1, <2>2
<1>8. ASSUME NEW t \in Tasks
      PROVE  Queued(s, t) <=> s.state[t] = "RUNNABLE"
  <2>1. Prio[t] \in Priorities /\ s.runq[Prio[t]] = IF Prio[t] = Prio[f] THEN <<f>> ELSE <<>>
    BY <1>2, PrioAssumption
  <2>2. s.state[t] = "RUNNABLE" <=> t = f
    BY <1>2
  <2>3. CASE Prio[t] = Prio[f]
    BY <1>3, <2>1, <2>2, <2>3 DEF Queued
  <2>4. CASE Prio[t] # Prio[f]
    BY <1>3, <2>1, <2>2, <2>4 DEF Queued
  <2> QED BY <2>3, <2>4
<1>9. /\ scan \in Seq(Tasks) /\ k \in {"run", "tick", "wake_irq", "wake_sys", "scan"}
      /\ count \in 0 .. EfdMax
      /\ at \in [Tasks -> {"user", "nap", "read", "write", "poll", "stored",
                           "futex", "futex_timed"}]
      /\ futex_addr \in [Tasks -> BOOLEAN]
      /\ word \in [Procs -> {0, 1}] /\ expect \in [Tasks -> {0, 1}]
      /\ wval \in [Tasks -> 0 .. EfdMax] /\ left \in [Tasks -> 0 .. MaxSleep]
  BY ThreadAssumption DEF Init
<1> QED BY <1>5, <1>7, <1>8, <1>9 DEF Inv, TypeOK, RunQueueExact, QueuesExact

\* Every step keeps the scheduler sound, and one that changes the current task
\* picks a best one.
LEMMA StepSound ==
    ASSUME Inv, Next
    PROVE  Sound(s') /\ (s'.cur = s.cur \/ Best(s'))
<1>0. Sound(s)
  BY DEF Inv, TypeOK, RunQueueExact, Sound
<1>1. s' = s => Sound(s') /\ s'.cur = s.cur
  BY <1>0
<1>2. ASSUME NEW t \in Tasks, \E u \in Tasks : clone(t, u)
      PROVE  Sound(s') /\ s'.cur = s.cur
  BY <1>0, <1>2, EnqueueSound DEF clone
<1>3. ASSUME NEW t \in Tasks, Yield(t)
      PROVE  Sound(s') /\ Best(s')
  BY <1>0, <1>3, SwitchSound DEF Yield
<1>4. ASSUME NEW t \in Tasks, s.cur = t, NEW d \in Nat
      PROVE  /\ Sound(SleepAndYield(s, d)) /\ Best(SleepAndYield(s, d))
             /\ Sound(SleepAndYield(io_wait_prepare(s), d)) /\ Best(SleepAndYield(io_wait_prepare(s), d))
             /\ Sound(SleepAndYield(io_wait_prepare(io_wait_done(s)), d))
             /\ Best(SleepAndYield(io_wait_prepare(io_wait_done(s)), d))
  <2>1. Sound(io_wait_prepare(s)) /\ io_wait_prepare(s).cur = t
    BY <1>0, <1>4, IoWaitSound
  <2>2. Sound(io_wait_done(s)) /\ io_wait_done(s).cur = t
    BY <1>0, <1>4, IoWaitSound
  <2>3. /\ Sound(io_wait_prepare(io_wait_done(s)))
        /\ io_wait_prepare(io_wait_done(s)).cur = t
    BY <2>2, IoWaitSound
  <2> QED BY <1>0, <1>4, <2>1, <2>3, SleepSound
<1>5. ASSUME NEW t \in Tasks, s.cur = t
      PROVE  Sound(sched_switch(sched_block(s, t))) /\ Best(sched_switch(sched_block(s, t)))
  BY <1>0, BlockSound, SwitchSound
<1>6. ASSUME NEW t \in Tasks, NEW d \in 1 .. MaxSleep, nanosleep(t, d)
      PROVE  Sound(s') /\ Best(s')
  BY <1>4, <1>6, ThreadAssumption DEF nanosleep, InUser, Resumed
<1>7. ASSUME NEW t \in Tasks, eventfd_read(t)
      PROVE  Sound(s') /\ (s'.cur = s.cur \/ Best(s'))
  <2>1. s.cur = t
    BY <1>7 DEF eventfd_read, InUser, Resumed
  <2>2. Sound(io_wait_done(s)) /\ io_wait_done(s).cur = s.cur
    BY <1>0, IoWaitSound
  <2>3. \/ s' = s \/ s' = io_wait_done(s)
        \/ s' = SleepAndYield(io_wait_prepare(s), 2)
        \/ s' = SleepAndYield(io_wait_prepare(io_wait_done(s)), 2)
    BY <1>7 DEF eventfd_read, ReadLoop
  <2> QED BY <1>1, <1>4, <2>1, <2>2, <2>3
<1>8. ASSUME NEW t \in Tasks, eventfd_write(t)
      PROVE  Sound(s') /\ (s'.cur = s.cur \/ Best(s'))
  <2>1. s.cur = t
    BY <1>8 DEF eventfd_write, InUser, Resumed
  <2>2. s' = s \/ s' = SleepAndYield(s, 1)
    BY <1>8 DEF eventfd_write, WriteLoop
  <2> QED BY <1>1, <1>4, <2>1, <2>2
<1>9. ASSUME NEW t \in Tasks, poll(t)
      PROVE  Sound(s') /\ (s'.cur = s.cur \/ Best(s'))
  <2>1. s.cur = t
    BY <1>9 DEF poll, InUser, Resumed
  <2>2. Sound(io_wait_done(s)) /\ io_wait_done(s).cur = s.cur
    BY <1>0, IoWaitSound
  <2>3. \/ s' = s \/ s' = io_wait_done(s)
        \/ s' = SleepAndYield(io_wait_prepare(s), 2)
        \/ s' = SleepAndYield(io_wait_prepare(io_wait_done(s)), 2)
    BY <1>9 DEF poll, PollLoop
  <2> QED BY <1>1, <1>4, <2>1, <2>2, <2>3
<1>10. ASSUME NEW t \in Tasks, NEW v \in {0, 1}, futex_wait(t, v)
       PROVE  Sound(s') /\ Best(s')
  BY <1>5, <1>10 DEF futex_wait, InUser, Resumed
<1>11. ASSUME NEW t \in Tasks, NEW v \in {0, 1}, NEW d \in 1 .. MaxSleep,
              futex_wait_timed(t, v, d)
       PROVE  Sound(s') /\ Best(s')
  BY <1>4, <1>11, ThreadAssumption DEF futex_wait_timed, InUser, Resumed
<1>12. ASSUME NEW t \in Tasks,
              \/ store(t) \/ futex_wake(t) \/ nanosleep_return(t) \/ futex_return(t)
              \/ \E p \in Procs, sig \in Signals : kill(t, p, sig)
       PROVE  s' = s
  BY <1>12 DEF store, futex_wake, nanosleep_return, futex_return, kill
<1>13. ASSUME visit
       PROVE  Sound(s') /\ s'.cur = s.cur
  <2> DEFINE t == Head(scan)
  <2>1. t \in Tasks
    BY <1>13 DEF visit, Inv, TypeOK
  <2> HIDE DEF t
  <2>2. s' = s \/ s' = sched_enqueue(s, t) \/ s' = sched_block(s, t)
    BY <1>13 DEF visit, WakeVisit, KillVisit, sched_unblock, t
  <2> QED BY <1>0, <2>1, <2>2, EnqueueSound, BlockSound
<1>14. ASSUME timer_callback
       PROVE  Sound(s') /\ s'.cur = s.cur
  BY <1>0, <1>14, ElapseSound DEF timer_callback
<1>15. ASSUME sched_timer_tick
       PROVE  Sound(s') /\ s'.cur = s.cur
  BY <1>0, <1>15, PopSound DEF sched_timer_tick
<1>16. ASSUME timer_end
       PROVE  Sound(s') /\ (s'.cur = s.cur \/ Best(s'))
  BY <1>0, <1>16, SwitchSound DEF timer_end
<1>17. ASSUME io_wake_all
       PROVE  Sound(s') /\ s'.cur = s.cur
  BY <1>0, <1>17, WakeFirstSound DEF io_wake_all
<1>18. ASSUME io_wake_end
       PROVE  Sound(s') /\ (s'.cur = s.cur \/ Best(s'))
  BY <1>0, <1>18, SwitchSound DEF io_wake_end
<1>19. ASSUME visit_end
       PROVE  s' = s
  BY <1>19 DEF visit_end
<1>20. CASE UserStep
  BY <1>1, <1>2, <1>3, <1>6, <1>7, <1>8, <1>9, <1>10, <1>11, <1>12, <1>20 DEF UserStep
<1>21. CASE KernelStep
  BY <1>1, <1>7, <1>8, <1>9, <1>12, <1>13, <1>15, <1>16, <1>17, <1>18, <1>19, <1>21
     DEF KernelStep
<1> QED BY <1>14, <1>20, <1>21 DEF Next

\* The rest of the type invariant.
LocalTypes ==
    /\ k \in {"run", "tick", "wake_irq", "wake_sys", "scan"}
    /\ at \in [Tasks -> {"user", "nap", "read", "write", "poll", "stored",
                         "futex", "futex_timed"}]
    /\ futex_addr \in [Tasks -> BOOLEAN]
    /\ word \in [Procs -> {0, 1}] /\ expect \in [Tasks -> {0, 1}]
    /\ count \in 0 .. EfdMax
    /\ wval \in [Tasks -> 0 .. EfdMax] /\ left \in [Tasks -> 0 .. MaxSleep]
    /\ scan \in Seq(Tasks)

LEMMA StepTypes ==
    ASSUME Inv, Next
    PROVE  LocalTypes'
<1>0. LocalTypes
  BY DEF Inv, TypeOK, LocalTypes
<1>1. /\ EfdMax \in Nat /\ MaxSleep \in Nat /\ TaskList \in Seq(Tasks)
      /\ ProcOf \in [Tasks -> Procs]
  BY ThreadAssumption
<1>2. ASSUME NEW t \in Tasks, Yield(t) \/ \E u \in Tasks : clone(t, u)
      PROVE  LocalTypes'
  BY <1>0, <1>2 DEF Yield, clone, LocalTypes
<1>3. ASSUME NEW t \in Tasks, nanosleep_return(t) \/ \E d \in 1 .. MaxSleep : nanosleep(t, d)
      PROVE  LocalTypes'
  BY <1>0, <1>3 DEF nanosleep, nanosleep_return, LocalTypes
<1>4. ASSUME NEW t \in Tasks, eventfd_read(t)
      PROVE  LocalTypes'
  <2>1. count' \in 0 .. EfdMax
    BY <1>0, <1>1, <1>4 DEF eventfd_read, ReadLoop, LocalTypes
  <2>2. at' = [at EXCEPT ![t] = "read"] \/ at' = [at EXCEPT ![t] = "user"]
    BY <1>4 DEF eventfd_read, ReadLoop
  <2> QED BY <1>0, <1>4, <2>1, <2>2 DEF eventfd_read, LocalTypes
<1>5. ASSUME NEW t \in Tasks, eventfd_write(t)
      PROVE  LocalTypes'
  <2>1. PICK v \in 0 .. EfdMax : WriteLoop(t, v)
    BY <1>0, <1>1, <1>5 DEF eventfd_write, LocalTypes
  <2>2. count' \in 0 .. EfdMax
    BY <1>0, <1>1, <2>1 DEF WriteLoop, LocalTypes
  <2>3. at' = [at EXCEPT ![t] = "write"] \/ at' = [at EXCEPT ![t] = "user"]
    BY <2>1 DEF WriteLoop
  <2>4. wval' = [wval EXCEPT ![t] = v] \/ wval' = [wval EXCEPT ![t] = 0]
    BY <2>1 DEF WriteLoop
  <2>5. k' = k \/ k' = "wake_sys"
    BY <2>1 DEF WriteLoop
  <2>6. 0 \in 0 .. EfdMax
    BY <1>1
  <2>7. wval' \in [Tasks -> 0 .. EfdMax]
    BY <1>0, <2>4, <2>6 DEF LocalTypes
  <2> QED BY <1>0, <1>5, <2>2, <2>3, <2>5, <2>7 DEF eventfd_write, LocalTypes
<1>6. ASSUME NEW t \in Tasks, poll(t)
      PROVE  LocalTypes'
  <2>1. PICK l \in 0 .. MaxSleep : PollLoop(t, s, l) \/ PollLoop(t, io_wait_done(s), l)
    BY <1>0, <1>1, <1>6 DEF poll, LocalTypes
  <2>2. at' = [at EXCEPT ![t] = "poll"] \/ at' = [at EXCEPT ![t] = "user"]
    BY <2>1 DEF PollLoop
  <2>3. left' = [left EXCEPT ![t] = l] \/ left' = [left EXCEPT ![t] = 0]
    BY <2>1 DEF PollLoop
  <2>4. left' \in [Tasks -> 0 .. MaxSleep]
    BY <1>0, <1>1, <2>1, <2>3 DEF LocalTypes
  <2> QED BY <1>0, <1>6, <2>2, <2>4 DEF poll, LocalTypes
<1>7. ASSUME NEW t \in Tasks, store(t)
      PROVE  LocalTypes'
  <2> DEFINE p == ProcOf[t]
             w == 1 - word[p]
  <2>3. p \in Procs /\ word \in [Procs -> {0, 1}]
    BY <1>0, <1>1 DEF LocalTypes
  <2>4. word[p] = 0 \/ word[p] = 1
    BY <2>3
  <2>5. w \in {0, 1}
    BY <2>4
  <2>2. word' = [word EXCEPT ![p] = w]
    BY <1>7 DEF store
  <2> HIDE DEF p, w
  <2>1. word' \in [Procs -> {0, 1}]
    BY <2>2, <2>3, <2>5
  <2> QED BY <1>0, <1>7, <2>1 DEF store, LocalTypes
<1>8. ASSUME NEW t \in Tasks, NEW v \in {0, 1},
             futex_wait(t, v) \/ \E d \in 1 .. MaxSleep : futex_wait_timed(t, v, d)
      PROVE  LocalTypes'
  BY <1>0, <1>8 DEF futex_wait, futex_wait_timed, LocalTypes
<1>9. ASSUME NEW t \in Tasks, futex_return(t)
      PROVE  LocalTypes'
  BY <1>0, <1>9 DEF futex_return, LocalTypes
<1>10. ASSUME NEW t \in Tasks, futex_wake(t) \/ \E p \in Procs, sig \in Signals : kill(t, p, sig)
       PROVE  LocalTypes'
  BY <1>0, <1>1, <1>10 DEF futex_wake, kill, LocalTypes
<1>11. ASSUME visit
       PROVE  LocalTypes'
  <2>1. scan # <<>> /\ Head(scan) \in Tasks /\ Tail(scan) \in Seq(Tasks) /\ <<>> \in Seq(Tasks)
    BY <1>0, <1>11 DEF visit, LocalTypes
  <2>2. scan' = <<>> \/ scan' = Tail(scan)
    BY <1>11 DEF visit, WakeVisit, KillVisit
  <2>3. futex_addr' = futex_addr \/ futex_addr' = [futex_addr EXCEPT ![Head(scan)] = FALSE]
    BY <1>11 DEF visit, WakeVisit, KillVisit
  <2>4. futex_addr' \in [Tasks -> BOOLEAN]
    BY <1>0, <2>1, <2>3 DEF LocalTypes
  <2> QED BY <1>0, <1>11, <2>1, <2>2, <2>4 DEF visit, LocalTypes
<1>12. ASSUME visit_end \/ sched_timer_tick \/ timer_end \/ io_wake_all \/ io_wake_end
       PROVE  LocalTypes'
  BY <1>0, <1>12 DEF visit_end, sched_timer_tick, timer_end, io_wake_all, io_wake_end, LocalTypes
<1>13. ASSUME timer_callback
       PROVE  LocalTypes'
  BY <1>0, <1>1, <1>13 DEF timer_callback, LocalTypes
<1>14. CASE UserStep
  BY <1>2, <1>3, <1>4, <1>5, <1>6, <1>7, <1>8, <1>10, <1>14 DEF UserStep
<1>15. CASE KernelStep
  BY <1>3, <1>4, <1>5, <1>6, <1>9, <1>11, <1>12, <1>15 DEF KernelStep
<1> QED BY <1>13, <1>14, <1>15 DEF Next

LEMMA InvStep == Inv /\ [Next]_vars => Inv'
<1>1. ASSUME Inv, Next PROVE Inv'
  BY <1>1, StepSound, StepTypes DEF Inv, TypeOK, RunQueueExact, Sound, LocalTypes
<1>2. ASSUME Inv, UNCHANGED vars PROVE Inv'
  BY <1>2 DEF Inv, TypeOK, RunQueueExact, vars
<1> QED BY <1>1, <1>2

\* For any tasks, priorities, waiter table and workload the variables keep
\* their types: in particular the current task is always a task or idle, and
\* the lists hold tasks only.
THEOREM Types == Spec => []TypeOK
<1>1. Inv => TypeOK
  BY DEF Inv
<1> QED BY <1>1, InitInv, InvStep, PTL DEF Spec

\* The run queues always hold exactly the RUNNABLE tasks, each once and at its
\* own priority, whatever sleeps, wakes, stops and signals interleave.
THEOREM ExactRunQueues == Spec => []RunQueueExact
<1>1. Inv => RunQueueExact
  BY DEF Inv
<1> QED BY <1>1, InitInv, InvStep, PTL DEF Spec

\* Every change of the current task picks a RUNNABLE task that no RUNNABLE task
\* outranks, or the idle task when there is none.
THEOREM SwitchesToBest == Spec => StrictPriority
<1> DEFINE A == s'.cur # s.cur =>
                  \A t \in Tasks : s'.state[t] = "RUNNABLE" =>
                      /\ s'.cur \in Tasks /\ s'.state[s'.cur] = "RUNNABLE"
                      /\ Prio[s'.cur] <= Prio[t]
<1>1. Inv /\ [Next]_vars => [A]_vars
  <2>1. ASSUME Inv, Next PROVE A
    BY <2>1, StepSound DEF Best
  <2> QED BY <2>1
<1> QED BY <1>1, InitInv, InvStep, PTL DEF Spec, StrictPriority
=============================================================================
