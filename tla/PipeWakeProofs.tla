--------------------------- MODULE PipeWakeProofs ---------------------------
(***************************************************************************)
(* Between one reader and one writer no wake-up is lost, whatever is       *)
(* closed, killed or preempted meanwhile.                                  *)
(***************************************************************************)
EXTENDS PipeProofs

\* The workload has one task that reads the pipe and one that writes it.  The
\* code has one slot for each.
OneEach ==
    \A t, u \in Tasks : \A c \in {"read", "write"} :
        c \in Calls[t] /\ c \in Calls[u] => t = u

\* The current task is RUNNABLE.
CurRuns(x) == x.cur \in Tasks => x.state[x.cur] = "RUNNABLE"

\* A switch changes no state, and the task it picks is RUNNABLE.
LEMMA SwitchStates ==
    ASSUME NEW x \in SchedType, ExactBut(x, x.cur)
    PROVE  /\ CurRuns(sched_switch(x))
           /\ \A u \in Tasks : sched_switch(x).state[u] = x.state[u]
<1> DEFINE y == sched_switch(x)
<1>1. y \in SchedType /\ QueuesExact(y)
  BY SwitchExact
<1>2. y.cur = Pick(y)
  <2> DEFINE x1 == IF x.cur = Idle THEN x
                   ELSE IF x.state[x.cur] = "RUNNABLE"
                   THEN sched_enqueue(sched_dequeue(x, x.cur), x.cur)
                   ELSE sched_dequeue(x, x.cur)
  <2>1. y = [x1 EXCEPT !.cur = Pick(x1)]
    BY DEF sched_switch
  <2>2. x1 \in SchedType
    <3>1. QueuesOrdered(x) /\ x.cur \in Tasks \cup {Idle}
      BY DEF ExactBut, SchedType
    <3>2. CASE x.cur = Idle
      BY <3>2
    <3>3. CASE x.cur \in Tasks
      <4>1. sched_dequeue(x, x.cur) \in SchedType /\ QueuesOrdered(sched_dequeue(x, x.cur))
        BY <3>1, <3>3, DequeueEffect
      <4>2. sched_enqueue(sched_dequeue(x, x.cur), x.cur) \in SchedType
        BY <3>3, <4>1, EnqueueEffect
      <4> QED BY <4>1, <4>2
    <3> QED BY <3>1, <3>2, <3>3
  <2> HIDE DEF x1, y
  <2>3. y.cur = Pick(x1) /\ y.runq = x1.runq
    BY <2>1, <2>2 DEF SchedType
  <2> QED BY <2>3 DEF Pick
<1>3. \A u \in Tasks : y.state[u] = x.state[u]
  <2>1. CASE x.cur = Idle
    BY <2>1 DEF sched_switch, SchedType
  <2>2. CASE x.cur \in Tasks
    <3> DEFINE d == sched_dequeue(x, x.cur)
               e == sched_enqueue(d, x.cur)
    <3>1. d \in SchedType /\ QueuesOrdered(d) /\ d.state = x.state
      BY <2>2, DequeueEffect DEF ExactBut
    <3> HIDE DEF d
    <3>2. e \in SchedType
          /\ \A u \in Tasks : e.state[u] =
                IF u = x.cur /\ ~ Queued(d, x.cur) THEN "RUNNABLE" ELSE d.state[u]
      BY <2>2, <3>1, EnqueueEffect
    <3> HIDE DEF e
    <3>3. y = IF x.state[x.cur] = "RUNNABLE" THEN [e EXCEPT !.cur = Pick(e)]
              ELSE [d EXCEPT !.cur = Pick(d)]
      BY <2>2, TaskAssumption DEF sched_switch, d, e
    <3>4. y.state = IF x.state[x.cur] = "RUNNABLE" THEN e.state ELSE d.state
      BY <3>1, <3>2, <3>3 DEF SchedType
    <3> QED BY <2>2, <3>1, <3>2, <3>4
  <2> QED BY <2>1, <2>2 DEF SchedType
<1> HIDE DEF y
<1>4. CurRuns(y)
  <2> SUFFICES ASSUME y.cur \in Tasks PROVE y.state[y.cur] = "RUNNABLE"
    BY DEF CurRuns
  <2>1. QueuesOrdered(y) /\ \A u \in Tasks : Queued(y, u) <=> y.state[u] = "RUNNABLE"
    BY <1>1 DEF QueuesExact
  <2>2. PICK p \in Priorities : y.runq[p] # <<>>
    BY <1>2, TaskAssumption DEF Pick
  <2>3. y.runq[p] \in Seq(Tasks) /\ 1 \in 1 .. Len(y.runq[p])
    BY <1>1, <2>2 DEF SchedType
  <2>4. y.runq[p][1] \in Tasks /\ Prio[y.runq[p][1]] = p
    BY <2>1, <2>3 DEF QueuesOrdered
  <2>5. Queued(y, y.runq[p][1])
    BY <2>3, <2>4 DEF Queued
  <2>6. Queued(y, Pick(y))
    BY <1>1, <2>1, <2>4, <2>5, PickBest
  <2> QED BY <1>2, <2>1, <2>6
<1> QED BY <1>3, <1>4 DEF y

\* Enqueueing a task makes it RUNNABLE and leaves the others alone.
LEMMA EnqueueStates ==
    ASSUME NEW x, Sound(x), NEW t \in Tasks
    PROVE  \A u \in Tasks : sched_enqueue(x, t).state[u] =
              IF u = t THEN "RUNNABLE" ELSE x.state[u]
<1>1. x \in SchedType /\ QueuesOrdered(x)
      /\ \A u \in Tasks : Queued(x, u) <=> x.state[u] = "RUNNABLE"
  BY DEF Sound, QueuesExact
<1>2. \A u \in Tasks : sched_enqueue(x, t).state[u] =
          IF u = t /\ ~ Queued(x, t) THEN "RUNNABLE" ELSE x.state[u]
  BY <1>1, EnqueueEffect
<1> QED BY <1>1, <1>2

\* y is x but for wake-ups, of the tasks of W at least.
Woken(x, y, W) ==
    /\ y.cur = x.cur
    /\ \A u \in Tasks : \/ y.state[u] = x.state[u] /\ u \notin W
                        \/ y.state[u] = "RUNNABLE"

LEMMA UnblockStates ==
    ASSUME NEW x, Sound(x), NEW slot \in Tasks \cup {Null}
    PROVE  /\ Woken(x, UnblockSlot(x, slot), {slot})
           /\ Sound(UnblockSlot(x, slot))
<1>1. CASE slot = Null
  BY <1>1, TaskAssumption DEF Woken, UnblockSlot
<1>2. CASE slot \in Tasks
  <2>1. UnblockSlot(x, slot) = sched_enqueue(x, slot)
    BY <1>2, TaskAssumption DEF UnblockSlot, sched_unblock
  <2>2. Sound(sched_enqueue(x, slot)) /\ sched_enqueue(x, slot).cur = x.cur
    BY <1>2, EnqueueSound
  <2>3. \A u \in Tasks : sched_enqueue(x, slot).state[u] =
            IF u = slot THEN "RUNNABLE" ELSE x.state[u]
    BY <1>2, EnqueueStates
  <2> QED BY <2>1, <2>2, <2>3 DEF Woken
<1> QED BY <1>1, <1>2

LEMMA WakesStates ==
    ASSUME NEW x, Sound(x), CallInv, NEW last
    PROVE  /\ Woken(x, CloseWakes(last, x),
                    {u \in Tasks : \/ "r" \in last /\ u = blocked_writer
                                   \/ "w" \in last /\ u = blocked_reader})
           /\ Sound(CloseWakes(last, x))
           /\ Woken(x, WakeShell(x), {}) /\ Sound(WakeShell(x))
<1> DEFINE x1 == IF "r" \in last THEN UnblockSlot(x, blocked_writer) ELSE x
           x2 == IF "w" \in last THEN UnblockSlot(x1, blocked_reader) ELSE x1
<1>1. /\ blocked_reader \in Tasks \cup {Null} /\ blocked_writer \in Tasks \cup {Null}
  BY DEF CallInv
<1>2. Sound(x1) /\ Woken(x, x1, IF "r" \in last THEN {blocked_writer} ELSE {})
  BY <1>1, UnblockStates DEF Woken
<1> HIDE DEF x1
<1>3. Sound(x2) /\ Woken(x1, x2, IF "w" \in last THEN {blocked_reader} ELSE {})
  BY <1>1, <1>2, UnblockStates DEF Woken
<1> HIDE DEF x2
<1>4. CloseWakes(last, x) = x2
  BY DEF CloseWakes, x1, x2
<1>5. Woken(x, x2, {u \in Tasks : \/ "r" \in last /\ u = blocked_writer
                                  \/ "w" \in last /\ u = blocked_reader})
  BY <1>2, <1>3 DEF Woken
<1>6. Woken(x, WakeShell(x), {}) /\ Sound(WakeShell(x))
  <2>1. Shell \in Tasks /\ Shell # Null
    BY PipeAssumption, TaskAssumption
  <2>2. Woken(x, UnblockSlot(x, Shell), {Shell}) /\ Sound(UnblockSlot(x, Shell))
    BY <2>1, UnblockStates
  <2> QED BY <2>1, <2>2 DEF WakeShell, UnblockSlot, Woken
<1> QED BY <1>3, <1>4, <1>5, <1>6

LEMMA ForgetStates ==
    ASSUME NEW x \in SchedType, NEW t \in Tasks
    PROVE  /\ sched_forget(Die(x, t), t).cur = x.cur
           /\ \A u \in Tasks \ {t} : sched_forget(Die(x, t), t).state[u] = x.state[u]
<1> DEFINE d == sched_dequeue(Die(x, t), t)
           z == Unlink(d, t)
<1>1. Die(x, t).cur = x.cur
      /\ \A u \in Tasks \ {t} : Die(x, t).state[u] = x.state[u]
  BY DEF Die, SchedType
<1>2. Die(x, t) \in SchedType
  BY DEF Die, SchedType, States
<1>3. d.cur = Die(x, t).cur /\ d.state = Die(x, t).state
      /\ DOMAIN d = DOMAIN Die(x, t)
  BY <1>2 DEF sched_dequeue, SchedType
<1>4. DOMAIN d = DOMAIN x
  BY <1>2, <1>3 DEF SchedType
<1> HIDE DEF d
<1>5. z.cur = d.cur /\ z.state = d.state /\ DOMAIN z = DOMAIN d
  BY <1>4 DEF Unlink, SchedType
<1> HIDE DEF z
<1>6. sched_forget(Die(x, t), t) =
          [z EXCEPT !.snext[t] = Null, !.iow = DropWaiter(z.iow, t)]
  BY DEF sched_forget, z, d
<1>7. sched_forget(Die(x, t), t).cur = z.cur /\ sched_forget(Die(x, t), t).state = z.state
  BY <1>4, <1>5, <1>6 DEF SchedType
<1> QED BY <1>1, <1>3, <1>5, <1>7

-----------------------------------------------------------------------------
\* A task blocked in the pipe is in its slot, and what it waits for has not come.
WakeInv ==
    /\ \A t \in Tasks : at[t] # "user" => at[t] \in Calls[t]
    /\ busy # Null => at[busy] = "write"
    /\ \A t \in Tasks \ dead : s.state[t] = "BLOCKED" =>
          /\ at[t] = "read" => blocked_reader = t /\ count = 0 /\ ~ write_closed
          /\ at[t] = "write" => blocked_writer = t /\ count = N /\ ~ read_closed
    /\ CurRuns(s)

LEMMA ReadWakes ==
    ASSUME OneEach, PipeInv, WakeInv, NEW t \in Tasks, NEW n, ReadLoop(t, n),
           "read" \in Calls[t], busy = Null, s.cur = t,
           UNCHANGED <<ends, busy, todo, dead>>
    PROVE  WakeInv'
<1>1. /\ Sound(s) /\ s \in SchedType
      /\ at \in [Tasks -> {"user", "read", "write"}]
      /\ blocked_writer \in Tasks \cup {Null} /\ Null \notin Tasks
      /\ N \in Nat \ {0} /\ count \in 0 .. N
      /\ read_closed' = read_closed /\ write_closed' = write_closed
  BY TaskAssumption, PipeAssumption
     DEF PipeInv, Quiet, Sound, SimInv, CallInv, RingInv, ends
<1>2. CASE /\ count = 0 /\ ~ write_closed
           /\ blocked_reader' = t
           /\ s' = sched_switch(sched_block(s, t))
           /\ at' = [at EXCEPT ![t] = "read"]
           /\ UNCHANGED <<ring, blocked_writer>>
  <2> DEFINE b == sched_block(s, t)
  <2>1. Sound(b) /\ b \in SchedType
    BY <1>1, BlockSound DEF Sound
  <2>2. \A u \in Tasks : b.state[u] = IF u = t THEN "BLOCKED" ELSE s.state[u]
    BY <1>1 DEF sched_block, sched_dequeue, SchedType
  <2>3. ExactBut(b, b.cur)
    BY <2>1 DEF Sound, QueuesExact, ExactBut
  <2> HIDE DEF b
  <2>4. CurRuns(s') /\ \A u \in Tasks : s'.state[u] = b.state[u]
    BY <1>2, <2>1, <2>3, SwitchStates DEF b
  <2>5. \A u \in Tasks : at'[u] = IF u = t THEN "read" ELSE at[u]
    BY <1>1, <1>2
  <2>6. ASSUME NEW u \in Tasks \ dead, u # t, s.state[u] = "BLOCKED", at[u] = "read"
        PROVE  FALSE
    BY <2>6 DEF WakeInv, OneEach
  <2>7. count' = count
    BY <1>2 DEF ring
  <2> QED BY <1>1, <1>2, <2>2, <2>4, <2>5, <2>6, <2>7 DEF WakeInv
<1>3. CASE /\ count = 0 /\ write_closed
           /\ at' = [at EXCEPT ![t] = "user"]
           /\ UNCHANGED <<s, ring, blocked_writer>>
  <2>1. \A u \in Tasks : at'[u] = IF u = t THEN "user" ELSE at[u]
    BY <1>1, <1>3
  <2>2. count' = count
    BY <1>3 DEF ring
  <2> QED BY <1>1, <1>3, <2>1, <2>2 DEF WakeInv
<1>4. CASE /\ count > 0
           /\ s' = UnblockSlot(s, blocked_writer)
           /\ at' = [at EXCEPT ![t] = "user"]
  <2>1. \A u \in Tasks : at'[u] = IF u = t THEN "user" ELSE at[u]
    BY <1>1, <1>4
  <2>2. Woken(s, s', {blocked_writer})
    BY <1>1, <1>4, UnblockStates
  <2>3. \A u \in Tasks \ dead : s'.state[u] = "BLOCKED" => at[u] # "read" /\ at[u] # "write"
    BY <1>1, <1>4, <2>2 DEF WakeInv, Woken
  <2>4. CurRuns(s')
    BY <2>2 DEF WakeInv, Woken, CurRuns
  <2> QED BY <2>1, <2>3, <2>4 DEF WakeInv
<1> QED BY <1>2, <1>3, <1>4 DEF ReadLoop

LEMMA WriteWakes ==
    ASSUME OneEach, PipeInv, WakeInv, NEW t \in Tasks, write_step(t)
    PROVE  WakeInv'
<1>1. /\ Sound(s) /\ s \in SchedType
      /\ at \in [Tasks -> {"user", "read", "write"}]
      /\ blocked_reader \in Tasks \cup {Null} /\ Null \notin Tasks
      /\ N \in Nat \ {0} /\ count \in 0 .. N
      /\ at[t] = "write" /\ "write" \in Calls[t] /\ t # Null
  BY TaskAssumption, PipeAssumption
     DEF PipeInv, Quiet, Sound, SimInv, CallInv, RingInv, WakeInv, write_step
<1>2. read_closed' = read_closed /\ write_closed' = write_closed /\ dead' = dead
      /\ s.cur = t /\ busy = t
  BY <1>1 DEF write_step, ends, PipeInv
<1>3. CASE Return(t) /\ UNCHANGED <<s, ring, slots>>
  <2>1. \A u \in Tasks : at'[u] = IF u = t THEN "user" ELSE at[u]
    BY <1>1, <1>3 DEF Return
  <2>2. busy' = Null /\ count' = count /\ UNCHANGED <<s, blocked_reader, blocked_writer>>
    BY <1>3 DEF Return, ring, slots
  <2> QED BY <1>2, <2>1, <2>2 DEF WakeInv
<1>4. CASE /\ count >= N /\ ~ read_closed
           /\ blocked_writer' = t
           /\ s' = sched_switch(sched_block(s, t))
           /\ busy' = Null
           /\ UNCHANGED <<ring, blocked_reader, at>>
  <2> DEFINE b == sched_block(s, t)
  <2>1. Sound(b) /\ b \in SchedType
    BY <1>1, BlockSound DEF Sound
  <2>2. \A u \in Tasks : b.state[u] = IF u = t THEN "BLOCKED" ELSE s.state[u]
    BY <1>1 DEF sched_block, sched_dequeue, SchedType
  <2>3. ExactBut(b, b.cur)
    BY <2>1 DEF Sound, QueuesExact, ExactBut
  <2> HIDE DEF b
  <2>4. CurRuns(s') /\ \A u \in Tasks : s'.state[u] = b.state[u]
    BY <1>4, <2>1, <2>3, SwitchStates DEF b
  <2>5. ASSUME NEW u \in Tasks \ dead, u # t, s.state[u] = "BLOCKED", at[u] = "write"
        PROVE  FALSE
    BY <1>1, <2>5 DEF WakeInv, OneEach
  <2>6. count' = count /\ count = N
    BY <1>1, <1>4 DEF ring
  <2> QED BY <1>1, <1>2, <1>4, <2>2, <2>4, <2>5, <2>6 DEF WakeInv
<1>5. CASE /\ count < N
           /\ s' = UnblockSlot(WakeAll(s), blocked_reader)
           /\ UNCHANGED <<busy, at>>
  <2>1. WakeAll(s) = s
    BY DEF WakeAll, PipeInv, Quiet
  <2>2. Woken(s, s', {blocked_reader})
    BY <1>1, <1>5, <2>1, UnblockStates
  <2>3. \A u \in Tasks \ dead : s'.state[u] = "BLOCKED" => at[u] # "read" /\ at[u] # "write"
    BY <1>1, <1>5, <2>2 DEF WakeInv, Woken
  <2>4. CurRuns(s')
    BY <2>2 DEF WakeInv, Woken, CurRuns
  <2> QED BY <1>1, <1>2, <1>5, <2>3, <2>4 DEF WakeInv
<1> QED BY <1>3, <1>4, <1>5 DEF write_step

\* A close wakes the peer whose wait it ends.
LEMMA CloseKeeps ==
    ASSUME PipeInv, WakeInv, NEW t \in Tasks, NEW es, CloseEnds(t, es), NEW x, NEW dd,
           \A u \in Tasks \ dd : x.state[u] = "BLOCKED" =>
               u \notin dead /\ s.state[u] = "BLOCKED",
           Sound(x)
    PROVE  \A u \in Tasks \ dd : CloseWakes(LastEnds(t, es), x).state[u] = "BLOCKED" =>
               /\ x.state[u] = "BLOCKED"
               /\ at[u] = "read" => blocked_reader' = u /\ count = 0 /\ ~ write_closed'
               /\ at[u] = "write" => blocked_writer' = u /\ count = N /\ ~ read_closed'
<1> DEFINE last == LastEnds(t, es)
           y == CloseWakes(last, x)
<1>1. CallInv
  BY DEF PipeInv, SimInv
<1>2. Woken(x, y, {u \in Tasks : \/ "r" \in last /\ u = blocked_writer
                                 \/ "w" \in last /\ u = blocked_reader})
  BY <1>1, WakesStates
<1>3. /\ read_closed' = (read_closed \/ "r" \in last)
      /\ write_closed' = (write_closed \/ "w" \in last)
      /\ blocked_writer' = IF "r" \in last THEN Null ELSE blocked_writer
      /\ blocked_reader' = IF "w" \in last THEN Null ELSE blocked_reader
  BY DEF CloseEnds
<1> HIDE DEF last, y
<1>4. ASSUME NEW u \in Tasks \ dd, y.state[u] = "BLOCKED"
      PROVE  /\ x.state[u] = "BLOCKED"
             /\ at[u] = "read" => blocked_reader' = u /\ count = 0 /\ ~ write_closed'
             /\ at[u] = "write" => blocked_writer' = u /\ count = N /\ ~ read_closed'
  <2>1. /\ x.state[u] = "BLOCKED"
        /\ ~ ("r" \in last /\ u = blocked_writer)
        /\ ~ ("w" \in last /\ u = blocked_reader)
    BY <1>2, <1>4 DEF Woken
  <2>2. u \in Tasks \ dead /\ s.state[u] = "BLOCKED"
    BY <2>1
  <2>3. /\ at[u] = "read" => blocked_reader = u /\ count = 0 /\ ~ write_closed
        /\ at[u] = "write" => blocked_writer = u /\ count = N /\ ~ read_closed
    BY <2>2 DEF WakeInv
  <2> QED BY <1>3, <2>1, <2>3
<1> QED BY <1>4 DEF last, y

LEMMA WakeStep ==
    ASSUME OneEach, PipeInv, WakeInv, [Next]_vars
    PROVE  WakeInv'
<1>1. /\ Sound(s) /\ s \in SchedType /\ CallInv /\ Null \notin Tasks
      /\ at \in [Tasks -> {"user", "read", "write"}]
  BY TaskAssumption DEF PipeInv, Quiet, Sound, SimInv, CallInv
<1>2. ASSUME NEW t \in Tasks, NEW u \in Tasks, fork(t, u)
      PROVE  WakeInv'
  <2>1. /\ UNCHANGED <<ring, slots, calls, read_closed, write_closed, dead>>
        /\ s' = sched_enqueue(s, u) /\ s'.cur = s.cur
    BY <1>1, <1>2, EnqueueSound DEF fork
  <2>2. \A v \in Tasks : s'.state[v] = IF v = u THEN "RUNNABLE" ELSE s.state[v]
    BY <1>1, <2>1, EnqueueStates
  <2> QED BY <2>1, <2>2 DEF WakeInv, ring, slots, calls, CurRuns
<1>3. ASSUME NEW t \in Tasks, NEW u \in Tasks, kill(t, u)
      PROVE  WakeInv'
  <2> DEFINE x0 == sched_forget(Die(s, u), u)
             x1 == CloseWakes(LastEnds(u, Both), x0)
             x2 == WakeShell(x1)
  <2>1. /\ CloseEnds(u, Both) /\ s' = x2 /\ dead' = dead \cup {u} /\ s.cur = t /\ u # t
        /\ UNCHANGED <<ring, calls>>
    BY <1>3 DEF kill, InUser, Resumed
  <2>2. Sound(x0)
    BY ForgetQuiet DEF PipeInv, Quiet
  <2>3. x0.cur = s.cur /\ \A v \in Tasks \ {u} : x0.state[v] = s.state[v]
    BY <1>1, ForgetStates
  <2> HIDE DEF x0
  <2>4. \A v \in Tasks \ (dead \cup {u}) : x0.state[v] = "BLOCKED" =>
            v \notin dead /\ s.state[v] = "BLOCKED"
    BY <2>3
  <2>5. \A v \in Tasks \ (dead \cup {u}) : x1.state[v] = "BLOCKED" =>
            /\ x0.state[v] = "BLOCKED"
            /\ at[v] = "read" => blocked_reader' = v /\ count = 0 /\ ~ write_closed'
            /\ at[v] = "write" => blocked_writer' = v /\ count = N /\ ~ read_closed'
    BY <2>1, <2>2, <2>4, CloseKeeps
  <2>6. PICK W : Sound(x1) /\ Woken(x0, x1, W)
    BY <1>1, <2>2, WakesStates
  <2> HIDE DEF x1
  <2>7. Woken(x1, x2, {})
    BY <1>1, <2>6, WakesStates
  <2> HIDE DEF x2
  <2>8. CurRuns(s')
    BY <2>1, <2>3, <2>6, <2>7 DEF Woken, CurRuns, WakeInv
  <2>9. \A v \in Tasks \ dead' : s'.state[v] = "BLOCKED" => x1.state[v] = "BLOCKED"
    BY <2>1, <2>7 DEF Woken
  <2> QED BY <2>1, <2>5, <2>8, <2>9 DEF WakeInv, ring, calls
<1>4. ASSUME NEW t \in Tasks, NEW n, read(t, n) \/ read_resume(t)
      PROVE  WakeInv'
  <2>1. /\ ReadLoop(t, n) \/ ReadLoop(t, size[t])
        /\ busy = Null /\ s.cur = t /\ UNCHANGED <<ends, busy, todo, dead>>
        /\ "read" \in Calls[t]
    BY <1>4 DEF read, read_resume, InUser, Resumed, WakeInv
  <2> QED BY <2>1, ReadWakes
<1>5. ASSUME NEW t \in Tasks, NEW data, write(t, data)
      PROVE  WakeInv'
  <2>1. /\ at' = [at EXCEPT ![t] = "write"] /\ busy' = t /\ "write" \in Calls[t]
        /\ s.cur = t /\ UNCHANGED <<s, ring, ends, slots, dead>>
    BY <1>5 DEF write, InUser, Resumed
  <2>2. \A u \in Tasks : at'[u] = IF u = t THEN "write" ELSE at[u]
    BY <1>1, <2>1
  <2>3. s.state[t] = "RUNNABLE"
    BY <2>1 DEF WakeInv, CurRuns
  <2> QED BY <2>1, <2>2, <2>3 DEF WakeInv, ring, ends, slots, CurRuns
<1>6. ASSUME NEW t \in Tasks, NEW e \in Both, close(t, e)
      PROVE  WakeInv'
  <2> DEFINE es == {e}
             x1 == CloseWakes(LastEnds(t, es), s)
  <2>1. /\ CloseEnds(t, es) /\ s' = x1 /\ dead' = dead /\ UNCHANGED <<ring, calls>>
    BY <1>6 DEF close
  <2>2. \A v \in Tasks \ dead : x1.state[v] = "BLOCKED" =>
            /\ s.state[v] = "BLOCKED"
            /\ at[v] = "read" => blocked_reader' = v /\ count = 0 /\ ~ write_closed'
            /\ at[v] = "write" => blocked_writer' = v /\ count = N /\ ~ read_closed'
    <3>1. \A v \in Tasks \ dead : s.state[v] = "BLOCKED" =>
              v \notin dead /\ s.state[v] = "BLOCKED"
      OBVIOUS
    <3>2. CloseEnds(t, es) /\ Sound(s)
      BY <1>1, <2>1
    <3> HIDE DEF es
    <3> QED BY <3>1, <3>2, CloseKeeps
  <2>3. PICK W : Woken(s, x1, W)
    BY <1>1, WakesStates
  <2> HIDE DEF x1
  <2>4. CurRuns(s')
    BY <2>1, <2>3 DEF Woken, CurRuns, WakeInv
  <2> QED BY <2>1, <2>2, <2>4 DEF WakeInv, ring, calls
<1>7. ASSUME NEW t \in Tasks, exit(t)
      PROVE  WakeInv'
  <2> DEFINE x1 == CloseWakes(LastEnds(t, Both), s)
             x2 == WakeShell(x1)
             x3 == Die(x2, t)
  <2>1. /\ CloseEnds(t, Both) /\ s' = sched_switch(x3) /\ dead' = dead \cup {t}
        /\ UNCHANGED <<ring, calls>> /\ s.cur = t
    BY <1>7 DEF exit, InUser, Resumed
  <2>2. \A v \in Tasks \ dead : x1.state[v] = "BLOCKED" =>
            /\ s.state[v] = "BLOCKED"
            /\ at[v] = "read" => blocked_reader' = v /\ count = 0 /\ ~ write_closed'
            /\ at[v] = "write" => blocked_writer' = v /\ count = N /\ ~ read_closed'
    <3>1. \A v \in Tasks \ dead : s.state[v] = "BLOCKED" =>
              v \notin dead /\ s.state[v] = "BLOCKED"
      OBVIOUS
    <3>2. CloseEnds(t, Both) /\ Sound(s)
      BY <1>1, <2>1
    <3> HIDE DEF x2, x3
    <3> QED BY <3>1, <3>2, CloseKeeps
  <2>3. PICK W : Sound(x1) /\ Woken(s, x1, W)
    BY <1>1, WakesStates
  <2> HIDE DEF x1
  <2>4. Sound(x2) /\ Woken(x1, x2, {})
    BY <1>1, <2>3, WakesStates
  <2> HIDE DEF x2
  <2>5. x2 \in SchedType /\ QueuesOrdered(x2) /\ x2.cur = t
        /\ \A u \in Tasks : Queued(x2, u) <=> x2.state[u] = "RUNNABLE"
    BY <2>1, <2>3, <2>4 DEF Sound, QueuesExact, Woken
  <2>6. /\ x3 \in SchedType /\ x3.runq = x2.runq /\ x3.cur = t
        /\ \A u \in Tasks \ {t} : x3.state[u] = x2.state[u]
    BY <2>5 DEF Die, SchedType, States
  <2> HIDE DEF x3
  <2>7. ExactBut(x3, x3.cur)
    BY <2>5, <2>6 DEF ExactBut, QueuesOrdered, Queued
  <2>8. CurRuns(s') /\ \A u \in Tasks : s'.state[u] = x3.state[u]
    BY <2>1, <2>6, <2>7, SwitchStates
  <2>9. \A v \in Tasks \ dead' : s'.state[v] = "BLOCKED" => x1.state[v] = "BLOCKED"
    BY <2>1, <2>4, <2>6, <2>8 DEF Woken
  <2> QED BY <2>1, <2>2, <2>8, <2>9 DEF WakeInv, ring, calls
<1>8. ASSUME NEW t \in Tasks, write_resume(t)
      PROVE  WakeInv'
  <2>1. /\ blocked_writer' = Null /\ busy' = t /\ at[t] = "write" /\ s.cur = t
        /\ UNCHANGED <<s, ring, ends, blocked_reader, at, dead>>
    BY <1>8 DEF write_resume, Resumed
  <2>2. s.state[t] = "RUNNABLE" /\ "write" \in Calls[t]
    BY <2>1 DEF WakeInv, CurRuns
  <2>3. \A u \in Tasks \ dead : s.state[u] = "BLOCKED" => at[u] # "write"
    BY <2>2 DEF WakeInv, OneEach
  <2> QED BY <2>1, <2>3 DEF WakeInv, ring, ends, CurRuns
<1>9. ASSUME preempt
      PROVE  WakeInv'
  <2>1. s' = sched_switch(s) /\ UNCHANGED <<ring, ends, slots, calls, dead>>
    BY <1>9 DEF preempt
  <2>2. ExactBut(s, s.cur)
    BY <1>1 DEF Sound, QueuesExact, ExactBut
  <2>3. CurRuns(s') /\ \A u \in Tasks : s'.state[u] = s.state[u]
    BY <1>1, <2>1, <2>2, SwitchStates
  <2> QED BY <2>1, <2>3 DEF WakeInv, ring, ends, slots, calls
<1>10. ASSUME UNCHANGED vars
       PROVE  WakeInv'
  BY <1>10 DEF WakeInv, vars, ring, ends, slots, calls, CurRuns
<1>11. CASE UserStep
  BY <1>2, <1>3, <1>4, <1>5, <1>6, <1>7, <1>11 DEF UserStep
<1>12. CASE KernelStep
  BY <1>4, <1>8, <1>12, WriteWakes DEF KernelStep
<1> QED BY <1>9, <1>10, <1>11, <1>12 DEF Next

LEMMA WakeInit == ASSUME Init PROVE WakeInv
BY PipeAssumption DEF Init, SchedInit, WakeInv, CurRuns

\* With one reader and one writer, no wake-up is lost: whoever is blocked in
\* pipe_read_op or pipe_write_op still has to wait, whatever else was closed, killed
\* or preempted, for every size of the buffer and of the calls.
THEOREM NoWakeupIsLost ==
    ASSUME OneEach
    PROVE  Spec => []NoLostWakeup
<1>1. Init => PipeInv /\ WakeInv
  BY PipeInit, WakeInit
<1>2. PipeInv /\ WakeInv /\ [Next]_vars => (PipeInv /\ WakeInv)'
  BY PipeStep, WakeStep
<1>3. WakeInv => NoLostWakeup
  BY DEF WakeInv, NoLostWakeup
<1> QED BY <1>1, <1>2, <1>3, PTL DEF Spec

\* Under the same assumption, a task blocked in the pipe is in its slot.
THEOREM SlotsAreExact ==
    ASSUME OneEach
    PROVE  Spec => []SlotsExact
<1>1. Init => PipeInv /\ WakeInv
  BY PipeInit, WakeInit
<1>2. PipeInv /\ WakeInv /\ [Next]_vars => (PipeInv /\ WakeInv)'
  BY PipeStep, WakeStep
<1>3. WakeInv => SlotsExact
  BY DEF WakeInv, SlotsExact
<1> QED BY <1>1, <1>2, <1>3, PTL DEF Spec
=============================================================================
