---------------------------- MODULE SchedProofs ----------------------------
(***************************************************************************)
(* What the scheduler's operations keep, for any number of tasks,          *)
(* priorities and waiters: the lemmas behind the proofs about the modules  *)
(* that call them.                                                         *)
(***************************************************************************)
EXTENDS SchedOps, TLAPS, SequenceTheorems, WellFoundedInduction, NaturalsInduction

\* Removing position i keeps the other elements, in order.
LEMMA DropAtFacts ==
    ASSUME NEW S, NEW q \in Seq(S), NEW i \in 1 .. Len(q)
    PROVE  /\ DropAt(q, i) \in Seq(S)
           /\ Len(DropAt(q, i)) = Len(q) - 1
           /\ \A j \in 1 .. (Len(q) - 1) :
                 DropAt(q, i)[j] = IF j < i THEN q[j] ELSE q[j + 1]
<1> DEFINE a == SubSeq(q, 1, i - 1)
           b == SubSeq(q, i + 1, Len(q))
<1>1. /\ a \in Seq(S) /\ Len(a) = i - 1
      /\ \A j \in 1 .. (i - 1) : a[j] = q[j]
  OBVIOUS
<1>2. /\ b \in Seq(S) /\ Len(b) = Len(q) - i
      /\ \A j \in 1 .. (Len(q) - i) : b[j] = q[i + j]
  OBVIOUS
<1>3. DropAt(q, i) = a \o b
  BY DEF DropAt
<1> HIDE DEF a, b
<1>4. /\ a \o b \in Seq(S) /\ Len(a \o b) = Len(q) - 1
      /\ \A j \in 1 .. (Len(q) - 1) : (a \o b)[j] = IF j < i THEN q[j] ELSE q[j + 1]
  <2>1. \A j \in 1 .. (Len(a) + Len(b)) :
            (a \o b)[j] = IF j <= Len(a) THEN a[j] ELSE b[j - Len(a)]
    BY <1>1, <1>2, ConcatProperties
  <2>2. Len(a) + Len(b) = Len(q) - 1 /\ a \o b \in Seq(S) /\ Len(a \o b) = Len(q) - 1
    <3>1. Len(q) \in Nat /\ i \in Nat
      OBVIOUS
    <3>2. a \o b \in Seq(S) /\ Len(a \o b) = Len(a) + Len(b)
      BY <1>1, <1>2, ConcatProperties
    <3> QED BY <1>1, <1>2, <3>1, <3>2
  <2>3. ASSUME NEW j \in 1 .. (Len(q) - 1)
        PROVE  (a \o b)[j] = IF j < i THEN q[j] ELSE q[j + 1]
    <3>1. CASE j < i
      BY <1>1, <2>1, <2>2, <3>1
    <3>2. CASE ~ (j < i)
      <4>1. j - Len(a) \in 1 .. (Len(q) - i) /\ i + (j - Len(a)) = j + 1 /\ ~ (j <= Len(a))
        BY <1>1, <3>2
      <4> QED BY <1>2, <2>1, <2>2, <3>2, <4>1
    <3> QED BY <3>1, <3>2
  <2> QED BY <2>2, <2>3
<1> QED BY <1>3, <1>4

\* sched_enqueue queues t and makes it RUNNABLE, or finds it queued.
LEMMA EnqueueEffect ==
    ASSUME NEW x \in SchedType, NEW t \in Tasks, QueuesOrdered(x)
    PROVE  /\ sched_enqueue(x, t) \in SchedType
           /\ QueuesOrdered(sched_enqueue(x, t))
           /\ \A u \in Tasks : Queued(sched_enqueue(x, t), u) <=> Queued(x, u) \/ u = t
           /\ \A u \in Tasks : sched_enqueue(x, t).state[u] =
                 IF u = t /\ ~ Queued(x, t) THEN "RUNNABLE" ELSE x.state[u]
           /\ sched_enqueue(x, t).cur = x.cur
<1> DEFINE y == sched_enqueue(x, t)
<1>1. CASE Queued(x, t)
  BY <1>1 DEF sched_enqueue
<1>2. CASE ~ Queued(x, t)
  <2> DEFINE p0 == Prio[t]
             q == x.runq[p0]
  <2>1. y = [x EXCEPT !.state[t] = "RUNNABLE", !.runq[p0] = Append(q, t)]
    BY <1>2 DEF sched_enqueue
  <2>2. p0 \in Priorities /\ q \in Seq(Tasks)
    BY PrioAssumption DEF SchedType
  <2>3. /\ Append(q, t) \in Seq(Tasks) /\ Len(Append(q, t)) = Len(q) + 1
        /\ \A i \in 1 .. Len(q) : Append(q, t)[i] = q[i]
        /\ Append(q, t)[Len(q) + 1] = t
    BY <2>2
  <2> HIDE DEF q, p0, y
  <2>4. y \in SchedType
    <3>1. [x.state EXCEPT ![t] = "RUNNABLE"] \in [Tasks -> States]
      BY DEF SchedType, States
    <3>2. [x.runq EXCEPT ![p0] = Append(q, t)] \in [Priorities -> Seq(Tasks)]
      BY <2>2, <2>3 DEF SchedType
    <3> QED BY <2>1, <3>1, <3>2 DEF SchedType
  <2>5. /\ y.runq = [x.runq EXCEPT ![p0] = Append(q, t)]
        /\ y.state = [x.state EXCEPT ![t] = "RUNNABLE"] /\ y.cur = x.cur
    BY <2>1 DEF SchedType
  <2>6. y.runq[p0] = Append(q, t) /\ \A p \in Priorities \ {p0} : y.runq[p] = x.runq[p]
    BY <2>2, <2>5 DEF SchedType
  <2>7. \A i \in 1 .. Len(q) : q[i] # t /\ Prio[q[i]] = p0
    BY <1>2, <2>2 DEF Queued, QueuesOrdered, q, p0
  <2>8. QueuesOrdered(y)
    <3> SUFFICES ASSUME NEW p \in Priorities, NEW i \in 1 .. Len(y.runq[p]),
                        NEW j \in 1 .. Len(y.runq[p])
                 PROVE  /\ Prio[y.runq[p][i]] = p
                        /\ y.runq[p][i] = y.runq[p][j] => i = j
      BY DEF QueuesOrdered
    <3>1. CASE p = p0
      <4>1. \A m, n \in 1 .. Len(q) : q[m] = q[n] => m = n
        BY <2>2 DEF QueuesOrdered, q
      <4>2. Len(q) \in Nat /\ i \in 1 .. (Len(q) + 1) /\ j \in 1 .. (Len(q) + 1) /\ p0 = Prio[t]
        BY <2>2, <2>3, <2>6, <3>1 DEF p0
      <4> QED BY <2>3, <2>6, <2>7, <3>1, <4>1, <4>2
    <3>2. CASE p # p0
      BY <2>6, <3>2 DEF QueuesOrdered
    <3> QED BY <3>1, <3>2
  <2>9. ASSUME NEW u \in Tasks
        PROVE  Queued(y, u) <=> Queued(x, u) \/ u = t
    <3>1. CASE Prio[u] = p0
      <4>1. Queued(y, u) <=> \E i \in 1 .. (Len(q) + 1) : Append(q, t)[i] = u
        BY <2>3, <2>6, <3>1 DEF Queued
      <4>2. Queued(x, u) <=> \E i \in 1 .. Len(q) : q[i] = u
        BY <3>1 DEF Queued, q
      <4>3. Len(q) \in Nat
        BY <2>2
      <4> QED BY <2>3, <4>1, <4>2, <4>3
    <3>2. CASE Prio[u] # p0
      BY <2>6, <3>2, PrioAssumption DEF Queued, p0
    <3> QED BY <3>1, <3>2
  <2> QED BY <1>2, <2>4, <2>5, <2>8, <2>9 DEF SchedType, y
<1> QED BY <1>1, <1>2

\* sched_dequeue takes t off its queue, or finds it on none.
LEMMA DequeueEffect ==
    ASSUME NEW x \in SchedType, NEW t \in Tasks, QueuesOrdered(x)
    PROVE  /\ sched_dequeue(x, t) \in SchedType
           /\ QueuesOrdered(sched_dequeue(x, t))
           /\ \A u \in Tasks : Queued(sched_dequeue(x, t), u) <=> Queued(x, u) /\ u # t
           /\ sched_dequeue(x, t).state = x.state
           /\ sched_dequeue(x, t).cur = x.cur
<1> DEFINE y == sched_dequeue(x, t)
<1>1. CASE ~ Queued(x, t)
  BY <1>1 DEF sched_dequeue
<1>2. CASE Queued(x, t)
  <2> DEFINE p0 == Prio[t]
             q == x.runq[p0]
             h == CHOOSE i \in 1 .. Len(q) : q[i] = t
             r == DropAt(q, h)
  <2>1. y = [x EXCEPT !.runq[p0] = r]
    BY <1>2 DEF sched_dequeue
  <2>2. p0 \in Priorities /\ q \in Seq(Tasks)
    BY PrioAssumption DEF SchedType
  <2>3. h \in 1 .. Len(q) /\ q[h] = t
    BY <1>2 DEF Queued
  <2> HIDE DEF h
  <2>4. /\ r \in Seq(Tasks) /\ Len(r) = Len(q) - 1
        /\ \A j \in 1 .. (Len(q) - 1) : r[j] = IF j < h THEN q[j] ELSE q[j + 1]
    BY <2>2, <2>3, DropAtFacts
  <2> HIDE DEF r, q, p0, y
  <2>5. y \in SchedType
    <3>1. [x.runq EXCEPT ![p0] = r] \in [Priorities -> Seq(Tasks)]
      BY <2>2, <2>4 DEF SchedType
    <3> QED BY <2>1, <3>1 DEF SchedType
  <2>6. /\ y.runq[p0] = r /\ \A p \in Priorities \ {p0} : y.runq[p] = x.runq[p]
        /\ y.state = x.state /\ y.cur = x.cur
    BY <2>1, <2>2 DEF SchedType
  <2>7. \A m, n \in 1 .. Len(q) : Prio[q[m]] = p0 /\ (q[m] = q[n] => m = n)
    BY <2>2 DEF QueuesOrdered, q
  <2>8. Len(q) \in Nat /\ h \in Nat
    BY <2>2, <2>3
  <2>9. QueuesOrdered(y)
    <3> SUFFICES ASSUME NEW p \in Priorities, NEW i \in 1 .. Len(y.runq[p]),
                        NEW j \in 1 .. Len(y.runq[p])
                 PROVE  /\ Prio[y.runq[p][i]] = p
                        /\ y.runq[p][i] = y.runq[p][j] => i = j
      BY DEF QueuesOrdered
    <3>1. CASE p = p0
      <4>1. i \in 1 .. (Len(q) - 1) /\ j \in 1 .. (Len(q) - 1)
        BY <2>4, <2>6, <3>1
      <4> QED BY <2>3, <2>4, <2>6, <2>7, <2>8, <3>1, <4>1
    <3>2. CASE p # p0
      BY <2>6, <3>2 DEF QueuesOrdered
    <3> QED BY <3>1, <3>2
  <2>10. ASSUME NEW u \in Tasks
         PROVE  Queued(y, u) <=> Queued(x, u) /\ u # t
    <3>1. CASE Prio[u] = p0
      <4>1. Queued(y, u) <=> \E i \in 1 .. (Len(q) - 1) : r[i] = u
        BY <2>4, <2>6, <3>1 DEF Queued
      <4>2. Queued(x, u) <=> \E i \in 1 .. Len(q) : q[i] = u
        BY <3>1 DEF Queued, q
      <4>3. ASSUME NEW i \in 1 .. (Len(q) - 1), r[i] = u
            PROVE  u # t /\ \E j \in 1 .. Len(q) : q[j] = u
        <5>1. CASE i < h
          BY <2>3, <2>4, <2>7, <2>8, <4>3, <5>1
        <5>2. CASE ~ (i < h)
          <6>1. i + 1 \in 1 .. Len(q) /\ i + 1 # h /\ q[i + 1] = u
            BY <2>3, <2>4, <2>8, <4>3, <5>2
          <6> QED BY <2>3, <2>7, <6>1
        <5> QED BY <5>1, <5>2
      <4>4. ASSUME NEW i \in 1 .. Len(q), q[i] = u, u # t
            PROVE  \E j \in 1 .. (Len(q) - 1) : r[j] = u
        <5>1. CASE i < h
          <6>1. i \in 1 .. (Len(q) - 1) /\ r[i] = u
            BY <2>3, <2>4, <2>8, <4>4, <5>1
          <6> QED BY <6>1
        <5>2. CASE ~ (i < h)
          <6>1. i - 1 \in 1 .. (Len(q) - 1) /\ ~ (i - 1 < h) /\ (i - 1) + 1 = i
            BY <2>3, <2>8, <4>4, <5>2
          <6>2. r[i - 1] = u
            BY <2>4, <4>4, <6>1
          <6> QED BY <6>1, <6>2
        <5> QED BY <5>1, <5>2
      <4> QED BY <4>1, <4>2, <4>3, <4>4
    <3>2. CASE Prio[u] # p0
      BY <2>6, <3>2, PrioAssumption DEF Queued, p0
    <3> QED BY <3>1, <3>2
  <2> QED BY <1>2, <2>5, <2>6, <2>9, <2>10 DEF y
<1> QED BY <1>1, <1>2

\* The task picked is queued, and no queued task outranks it.
LEMMA PickBest ==
    ASSUME NEW x \in SchedType, QueuesOrdered(x)
    PROVE  /\ Pick(x) \in Tasks \cup {Idle}
           /\ \A u \in Tasks : Queued(x, u) =>
                 /\ Pick(x) \in Tasks /\ Queued(x, Pick(x))
                 /\ Prio[Pick(x)] <= Prio[u]
<1> DEFINE ready == {p \in Priorities : x.runq[p] # <<>>}
           m == CHOOSE p \in ready : \A q \in ready : p <= q
<1>1. CASE ready = {}
  <2>1. \A u \in Tasks : ~ Queued(x, u)
    BY <1>1, PrioAssumption DEF Queued
  <2> QED BY <1>1, <2>1 DEF Pick
<1>2. CASE ready # {}
  <2>1. \E p \in ready : \A q \in ready : p <= q
    <3>1. ready \subseteq Nat
      BY PrioAssumption DEF Priorities
    <3>2. \E p \in ready : \A q \in ready : ~ (<<q, p>> \in OpToRel(<, Nat))
      BY <1>2, <3>1, NatLessThanWellFounded, WFMin
    <3>3. \A p, q \in Nat : q < p => <<q, p>> \in OpToRel(<, Nat)
      BY DEF OpToRel
    <3>4. \A p, q \in Nat : ~ (q < p) => p <= q
      OBVIOUS
    <3> QED BY <3>1, <3>2, <3>3, <3>4
  <2>2. m \in ready /\ \A q \in ready : m <= q
    BY <2>1
  <2> HIDE DEF m
  <2>3. Pick(x) = x.runq[m][1]
    BY <1>2 DEF Pick, m
  <2>4. x.runq[m] \in Seq(Tasks) /\ Len(x.runq[m]) \in Nat \ {0} /\ 1 \in 1 .. Len(x.runq[m])
    BY <2>2, EmptySeq DEF SchedType
  <2>5. Pick(x) \in Tasks /\ Prio[Pick(x)] = m /\ Queued(x, Pick(x))
    BY <2>2, <2>3, <2>4 DEF QueuesOrdered, Queued
  <2>6. ASSUME NEW u \in Tasks, Queued(x, u)
        PROVE  Prio[u] \in ready
    BY <2>6, PrioAssumption DEF Queued
  <2> QED BY <2>2, <2>5, <2>6
<1> QED BY <1>1, <1>2

-----------------------------------------------------------------------------
\* Every RUNNABLE task but c is queued, and no other task but c is.
ExactBut(x, c) ==
    /\ QueuesOrdered(x)
    /\ \A u \in Tasks \ {c} : Queued(x, u) <=> x.state[u] = "RUNNABLE"

\* Whatever state the current task is in, sched_switch leaves exact queues and
\* picks a task that no RUNNABLE task outranks.
LEMMA SwitchExact ==
    ASSUME NEW x \in SchedType, ExactBut(x, x.cur)
    PROVE  /\ sched_switch(x) \in SchedType
           /\ QueuesExact(sched_switch(x))
           /\ \A u \in Tasks : sched_switch(x).state[u] = "RUNNABLE" =>
                 /\ sched_switch(x).cur \in Tasks
                 /\ sched_switch(x).state[sched_switch(x).cur] = "RUNNABLE"
                 /\ Prio[sched_switch(x).cur] <= Prio[u]
<1> DEFINE c == x.cur
           d == sched_dequeue(x, c)
           x1 == IF c = Idle THEN x
                 ELSE IF x.state[c] = "RUNNABLE" THEN sched_enqueue(d, c)
                 ELSE d
           y == [x1 EXCEPT !.cur = Pick(x1)]
<1>1. sched_switch(x) = y
  BY DEF sched_switch
<1>2. c \in Tasks \cup {Idle}
  BY DEF SchedType
<1>3. x1 \in SchedType /\ QueuesExact(x1)
  <2>1. CASE c = Idle
    BY <2>1, TaskAssumption DEF ExactBut, QueuesExact
  <2>2. CASE c \in Tasks
    <3>0. c # Idle
      BY <2>2, TaskAssumption
    <3>1. /\ d \in SchedType /\ QueuesOrdered(d) /\ d.state = x.state
          /\ \A u \in Tasks : Queued(d, u) <=> Queued(x, u) /\ u # c
      BY <2>2, DequeueEffect DEF ExactBut
    <3>2. CASE x.state[c] = "RUNNABLE"
      <4> DEFINE e == sched_enqueue(d, c)
      <4> HIDE DEF d
      <4>1. /\ e \in SchedType /\ QueuesOrdered(e)
            /\ \A u \in Tasks : Queued(e, u) <=> Queued(d, u) \/ u = c
            /\ \A u \in Tasks : e.state[u] =
                  IF u = c /\ ~ Queued(d, c) THEN "RUNNABLE" ELSE d.state[u]
        BY <2>2, <3>1, EnqueueEffect
      <4>2. x1 = e
        BY <3>0, <3>2
      <4> HIDE DEF e, x1, c
      <4> QED BY <2>2, <3>1, <4>1, <4>2 DEF ExactBut, QueuesExact, c
    <3>3. CASE x.state[c] # "RUNNABLE"
      <4>1. x1 = d
        BY <3>0, <3>3
      <4> HIDE DEF d, x1, c
      <4> QED BY <2>2, <3>1, <3>3, <4>1 DEF ExactBut, QueuesExact, c
    <3> QED BY <3>2, <3>3
  <2> QED BY <1>2, <2>1, <2>2
<1> HIDE DEF x1
<1>4. /\ Pick(x1) \in Tasks \cup {Idle}
      /\ \A u \in Tasks : Queued(x1, u) =>
            /\ Pick(x1) \in Tasks /\ Queued(x1, Pick(x1))
            /\ Prio[Pick(x1)] <= Prio[u]
  BY <1>3, PickBest DEF QueuesExact
<1>5. /\ y \in SchedType /\ y.runq = x1.runq /\ y.state = x1.state /\ y.cur = Pick(x1)
  BY <1>3, <1>4 DEF SchedType
<1> HIDE DEF y
<1>6. QueuesExact(y)
  BY <1>3, <1>5 DEF QueuesExact, QueuesOrdered, Queued
<1> QED BY <1>1, <1>3, <1>4, <1>5, <1>6 DEF QueuesExact

-----------------------------------------------------------------------------
\* The current task is RUNNABLE and no RUNNABLE task outranks it.
Best(x) ==
    \A u \in Tasks : x.state[u] = "RUNNABLE" =>
        /\ x.cur \in Tasks /\ x.state[x.cur] = "RUNNABLE"
        /\ Prio[x.cur] <= Prio[u]

\* A scheduler state that is well typed and has exact queues.
Sound(x) == x \in SchedType /\ QueuesExact(x)

LEMMA SwitchSound ==
    ASSUME NEW x, Sound(x)
    PROVE  Sound(sched_switch(x)) /\ Best(sched_switch(x))
<1>1. ExactBut(x, x.cur)
  BY DEF Sound, QueuesExact, ExactBut
<1>2. x \in SchedType
  BY DEF Sound
<1> QED BY <1>1, <1>2, SwitchExact DEF Sound, Best

LEMMA EnqueueSound ==
    ASSUME NEW x, Sound(x), NEW t \in Tasks
    PROVE  Sound(sched_enqueue(x, t)) /\ sched_enqueue(x, t).cur = x.cur
<1> DEFINE y == sched_enqueue(x, t)
<1>1. x \in SchedType /\ QueuesOrdered(x)
  BY DEF Sound, QueuesExact
<1>2. /\ y \in SchedType
      /\ QueuesOrdered(y)
      /\ \A u \in Tasks : Queued(y, u) <=> Queued(x, u) \/ u = t
      /\ \A u \in Tasks : y.state[u] = IF u = t /\ ~ Queued(x, t) THEN "RUNNABLE" ELSE x.state[u]
      /\ y.cur = x.cur
  BY <1>1, EnqueueEffect
<1> HIDE DEF y
<1> QED BY <1>2 DEF Sound, QueuesExact, y

LEMMA BlockSound ==
    ASSUME NEW x, Sound(x), NEW t \in Tasks
    PROVE  Sound(sched_block(x, t)) /\ sched_block(x, t).cur = x.cur
<1> DEFINE d == sched_dequeue(x, t)
           y == [d EXCEPT !.state[t] = "BLOCKED"]
<1>1. x \in SchedType /\ QueuesOrdered(x)
  BY DEF Sound, QueuesExact
<1>2. /\ d \in SchedType
      /\ QueuesOrdered(d)
      /\ \A u \in Tasks : Queued(d, u) <=> Queued(x, u) /\ u # t
      /\ d.state = x.state
      /\ d.cur = x.cur
  BY <1>1, DequeueEffect
<1>3. sched_block(x, t) = y
  BY DEF sched_block
<1> HIDE DEF d
<1>4. [d.state EXCEPT ![t] = "BLOCKED"] \in [Tasks -> States]
  BY <1>2 DEF SchedType, States
<1>5. /\ y \in SchedType /\ y.runq = d.runq /\ y.cur = d.cur
      /\ y.state = [d.state EXCEPT ![t] = "BLOCKED"]
  BY <1>2, <1>4 DEF SchedType
<1> HIDE DEF y
<1>6. /\ y.state[t] = "BLOCKED" /\ \A u \in Tasks \ {t} : y.state[u] = x.state[u]
  BY <1>1, <1>2, <1>5 DEF SchedType
<1>7. QueuesOrdered(y) /\ \A u \in Tasks : Queued(y, u) <=> Queued(d, u)
  BY <1>2, <1>5 DEF QueuesOrdered, Queued
<1> QED BY <1>2, <1>3, <1>5, <1>6, <1>7 DEF Sound, QueuesExact

\* make_sleep touches neither the queues nor the state of another task.
LEMMA MakeSleepEffect ==
    ASSUME NEW x \in SchedType, NEW t \in Tasks, NEW d \in Nat
    PROVE  /\ sched_make_sleep(x, t, d) \in SchedType
           /\ sched_make_sleep(x, t, d).runq = x.runq
           /\ sched_make_sleep(x, t, d).cur = x.cur
           /\ \A u \in Tasks \ {t} : sched_make_sleep(x, t, d).state[u] = x.state[u]
           /\ sched_make_sleep(x, t, d).state[t] = "SLEEPING"
<1> DEFINE s1 == [x EXCEPT !.state[t] = "SLEEPING", !.until[t] = d, !.snext[t] = Null]
           c == InsertAfter(s1, d)
           s2 == [s1 EXCEPT !.snext[t] = s1.snext[c]]
           y == sched_make_sleep(x, t, d)
<1>1. /\ [x.state EXCEPT ![t] = "SLEEPING"] \in [Tasks -> States]
      /\ [x.until EXCEPT ![t] = d] \in [Tasks -> Nat]
      /\ [x.snext EXCEPT ![t] = Null] \in [Tasks -> Tasks \cup {Null}]
  BY DEF SchedType, States
<1>2. /\ s1 \in SchedType /\ s1.runq = x.runq /\ s1.cur = x.cur
      /\ s1.state = [x.state EXCEPT ![t] = "SLEEPING"]
  BY <1>1 DEF SchedType
<1>3. /\ s1.state[t] = "SLEEPING"
      /\ \A u \in Tasks \ {t} : s1.state[u] = x.state[u]
  BY <1>2 DEF SchedType
<1> HIDE DEF s1
<1>4. y = IF s1.shead = Null \/ d < s1.until[s1.shead]
          THEN [s1 EXCEPT !.snext[t] = s1.shead, !.shead = t]
          ELSE IF c \in Tasks THEN [s2 EXCEPT !.snext[c] = t]
          ELSE [s1 EXCEPT !.hung = TRUE]
  BY DEF sched_make_sleep, s1
<1> HIDE DEF c, y
<1>5. CASE y = [s1 EXCEPT !.snext[t] = s1.shead, !.shead = t]
  <2>1. [s1.snext EXCEPT ![t] = s1.shead] \in [Tasks -> Tasks \cup {Null}]
    BY <1>2 DEF SchedType
  <2>2. y \in SchedType /\ y.runq = s1.runq /\ y.cur = s1.cur /\ y.state = s1.state
    BY <1>2, <1>5, <2>1 DEF SchedType
  <2> QED BY <1>2, <1>3, <2>2 DEF y
<1>6. CASE c \in Tasks /\ y = [s2 EXCEPT !.snext[c] = t]
  <2>1. [s1.snext EXCEPT ![t] = s1.snext[c]] \in [Tasks -> Tasks \cup {Null}]
    BY <1>2, <1>6 DEF SchedType
  <2>2. s2 \in SchedType /\ s2.runq = s1.runq /\ s2.cur = s1.cur /\ s2.state = s1.state
    BY <1>2, <2>1 DEF SchedType
  <2> HIDE DEF s2
  <2>3. [s2.snext EXCEPT ![c] = t] \in [Tasks -> Tasks \cup {Null}]
    BY <2>2 DEF SchedType
  <2>4. y \in SchedType /\ y.runq = s2.runq /\ y.cur = s2.cur /\ y.state = s2.state
    BY <1>6, <2>2, <2>3 DEF SchedType
  <2> QED BY <1>2, <1>3, <2>2, <2>4 DEF y
<1>7. CASE y = [s1 EXCEPT !.hung = TRUE]
  <2>1. y \in SchedType /\ y.runq = s1.runq /\ y.cur = s1.cur /\ y.state = s1.state
    BY <1>2, <1>7 DEF SchedType
  <2> QED BY <1>2, <1>3, <2>1 DEF y
<1> QED BY <1>4, <1>5, <1>6, <1>7

\* A task that puts itself to sleep leaves its queue with the switch.
LEMMA SleepSound ==
    ASSUME NEW x, Sound(x), x.cur \in Tasks, NEW d \in Nat
    PROVE  Sound(SleepAndYield(x, d)) /\ Best(SleepAndYield(x, d))
<1> DEFINE y == sched_make_sleep(x, x.cur, d)
<1>1. x \in SchedType /\ QueuesOrdered(x)
      /\ \A u \in Tasks : Queued(x, u) <=> x.state[u] = "RUNNABLE"
  BY DEF Sound, QueuesExact
<1>2. /\ y \in SchedType /\ y.runq = x.runq /\ y.cur = x.cur
      /\ \A u \in Tasks \ {x.cur} : y.state[u] = x.state[u]
  BY <1>1, MakeSleepEffect
<1> HIDE DEF y
<1>3. ExactBut(y, y.cur)
  BY <1>1, <1>2 DEF ExactBut, QueuesOrdered, Queued
<1> QED BY <1>2, <1>3, SwitchExact DEF SleepAndYield, Sound, Best, y

-----------------------------------------------------------------------------
\* A change that leaves the states, the queues and the current task alone.
LEMMA SameSound ==
    ASSUME NEW x, Sound(x), NEW y \in SchedType,
           y.state = x.state, y.runq = x.runq
    PROVE  Sound(y)
BY DEF Sound, QueuesExact, QueuesOrdered, Queued

LEMMA UnlinkSound ==
    ASSUME NEW x, Sound(x), NEW t \in Tasks
    PROVE  /\ Sound(Unlink(x, t))
           /\ Unlink(x, t).cur = x.cur /\ Unlink(x, t).iow = x.iow
<1> DEFINE y == Unlink(x, t)
           found == {n \in 0 .. Cardinality(Tasks) : SleepNode(x)[n] = t}
           b == SleepNode(x)[First(found) - 1]
           cycle == SleepCycle(x)
<1>1. x \in SchedType
  BY DEF Sound
<1>2. cycle \in BOOLEAN
  BY DEF SleepCycle
<1>3. y = IF found = {} THEN [x EXCEPT !.hung = @ \/ cycle]
          ELSE IF x.shead = t THEN [x EXCEPT !.shead = x.snext[t]]
          ELSE [x EXCEPT !.snext[b] = x.snext[t]]
  BY DEF Unlink
<1> HIDE DEF y, found, b, cycle
<1>4. /\ x.snext[t] \in Tasks \cup {Null}
      /\ [x.snext EXCEPT ![b] = x.snext[t]] \in [Tasks -> Tasks \cup {Null}]
      /\ (x.hung \/ cycle) \in BOOLEAN
  BY <1>1, <1>2 DEF SchedType
<1>5. /\ y \in SchedType /\ y.state = x.state /\ y.runq = x.runq
      /\ y.cur = x.cur /\ y.iow = x.iow
  <2>1. CASE y = [x EXCEPT !.hung = @ \/ cycle]
    BY <1>1, <1>4, <2>1 DEF SchedType
  <2>2. CASE y = [x EXCEPT !.shead = x.snext[t]]
    BY <1>1, <1>4, <2>2 DEF SchedType
  <2>3. CASE y = [x EXCEPT !.snext[b] = x.snext[t]]
    BY <1>1, <1>4, <2>3 DEF SchedType
  <2> QED BY <1>3, <2>1, <2>2, <2>3
<1> QED BY <1>5, SameSound DEF y

LEMMA WakeSound ==
    ASSUME NEW x, Sound(x), NEW t \in Tasks
    PROVE  /\ Sound(sched_wake(x, t))
           /\ sched_wake(x, t).cur = x.cur /\ sched_wake(x, t).iow = x.iow
<1> DEFINE y == Unlink(x, t)
           z == [y EXCEPT !.snext[t] = Null, !.until[t] = 0]
<1>1. Sound(y) /\ y.cur = x.cur /\ y.iow = x.iow
  BY UnlinkSound
<1>2. sched_wake(x, t) = IF x.state[t] # "SLEEPING" THEN x ELSE sched_enqueue(z, t)
  BY DEF sched_wake
<1> HIDE DEF y
<1>3. y \in SchedType
  BY <1>1 DEF Sound
<1>4. /\ [y.snext EXCEPT ![t] = Null] \in [Tasks -> Tasks \cup {Null}]
      /\ [y.until EXCEPT ![t] = 0] \in [Tasks -> Nat]
  BY <1>3 DEF SchedType
<1>5. /\ z \in SchedType /\ z.state = y.state /\ z.runq = y.runq
      /\ z.cur = y.cur /\ z.iow = y.iow
  BY <1>3, <1>4 DEF SchedType
<1> HIDE DEF z
<1>6. Sound(z)
  BY <1>1, <1>5, SameSound
<1>7. Sound(sched_enqueue(z, t)) /\ sched_enqueue(z, t).cur = z.cur
  BY <1>6, EnqueueSound
<1>8. sched_enqueue(z, t).iow = z.iow
  BY <1>5 DEF sched_enqueue, SchedType
<1> QED BY <1>1, <1>2, <1>5, <1>7, <1>8

LEMMA PopSound ==
    ASSUME NEW x, Sound(x), HeadExpired(x)
    PROVE  Sound(PopExpired(x)) /\ PopExpired(x).cur = x.cur
<1> DEFINE t == x.shead
           z == [x EXCEPT !.shead = x.snext[t], !.snext[t] = Null]
<1>1. x \in SchedType /\ t \in Tasks
  BY DEF Sound, SchedType, HeadExpired
<1>2. PopExpired(x) = sched_enqueue(z, t)
  BY DEF PopExpired
<1> HIDE DEF t
<1>3. [x.snext EXCEPT ![t] = Null] \in [Tasks -> Tasks \cup {Null}]
      /\ x.snext[t] \in Tasks \cup {Null}
  BY <1>1 DEF SchedType
<1>4. /\ z \in SchedType /\ z.state = x.state /\ z.runq = x.runq /\ z.cur = x.cur
  BY <1>1, <1>3 DEF SchedType
<1> HIDE DEF z
<1>5. Sound(z)
  BY <1>4, SameSound
<1> QED BY <1>1, <1>2, <1>4, <1>5, EnqueueSound

LEMMA ElapseSound ==
    ASSUME NEW x, Sound(x)
    PROVE  Sound(Elapse(x)) /\ Elapse(x).cur = x.cur
<1> DEFINE u == [t \in Tasks |-> IF x.until[t] = 0 THEN 0 ELSE x.until[t] - 1]
           y == [x EXCEPT !.until = u]
<1>1. x \in SchedType
  BY DEF Sound
<1>2. u \in [Tasks -> Nat]
  BY <1>1 DEF SchedType
<1>3. Elapse(x) = y
  BY DEF Elapse
<1> HIDE DEF u
<1>4. y \in SchedType /\ y.state = x.state /\ y.runq = x.runq /\ y.cur = x.cur
  BY <1>1, <1>2 DEF SchedType
<1> HIDE DEF y
<1> QED BY <1>3, <1>4, SameSound

\* A change of the table of I/O waiters alone.
LEMMA WaitersSound ==
    ASSUME NEW x, Sound(x), NEW w \in Seq(Tasks)
    PROVE  Sound([x EXCEPT !.iow = w]) /\ [x EXCEPT !.iow = w].cur = x.cur
<1> DEFINE y == [x EXCEPT !.iow = w]
<1>1. x \in SchedType
  BY DEF Sound
<1>2. y \in SchedType /\ y.state = x.state /\ y.runq = x.runq /\ y.cur = x.cur
  BY <1>1 DEF SchedType
<1> HIDE DEF y
<1> QED BY <1>2, SameSound DEF y

LEMMA IoWaitSound ==
    ASSUME NEW x, Sound(x)
    PROVE  /\ Sound(io_wait_done(x)) /\ io_wait_done(x).cur = x.cur
           /\ x.cur \in Tasks => Sound(io_wait_prepare(x)) /\ io_wait_prepare(x).cur = x.cur
<1>1. x \in SchedType /\ x.iow \in Seq(Tasks)
  BY DEF Sound, SchedType
<1>2. DropWaiter(x.iow, x.cur) \in Seq(Tasks)
  <2> DEFINE w == x.iow
             found == Places(w, x.cur)
             v == [w EXCEPT ![First(found)] = w[Len(w)]]
  <2>1. CASE found = {}
    BY <1>1, <2>1 DEF DropWaiter
  <2>2. CASE found # {}
    <3>1. w \in Seq(Tasks) /\ Len(w) \in Nat /\ Len(w) >= 1
      BY <1>1, <2>2 DEF Places
    <3>2. w \in [1 .. Len(w) -> Tasks] /\ w[Len(w)] \in Tasks
      BY <3>1
    <3>3. DropWaiter(x.iow, x.cur) = SubSeq(v, 1, Len(w) - 1)
      BY <2>2 DEF DropWaiter
    <3> DEFINE m == First(found)
    <3> HIDE DEF w, m
    <3>4. [w EXCEPT ![m] = w[Len(w)]] \in [1 .. Len(w) -> Tasks]
      BY <3>2
    <3>5. v \in [1 .. Len(w) -> Tasks]
      BY <3>4 DEF m
    <3> HIDE DEF v
    <3>6. v \in Seq(Tasks) /\ Len(v) = Len(w)
      BY <3>1, <3>5, LenProperties, SeqDef
    <3>7. SubSeq(v, 1, Len(w) - 1) \in Seq(Tasks)
      BY <3>1, <3>6, SubSeqProperties
    <3> QED BY <3>3, <3>7
  <2> QED BY <2>1, <2>2
<1>3. x.cur \in Tasks => Append(x.iow, x.cur) \in Seq(Tasks)
  BY <1>1
<1> QED BY <1>2, <1>3, WaitersSound DEF io_wait_done, io_wait_prepare

LEMMA WakeFirstSound ==
    ASSUME NEW x, Sound(x), x.iow # <<>>
    PROVE  Sound(WakeFirst(x)) /\ WakeFirst(x).cur = x.cur
<1> DEFINE t == Head(x.iow)
           y == sched_wake(x, t)
<1>1. x.iow \in Seq(Tasks)
  BY DEF Sound, SchedType
<1>2. t \in Tasks /\ Tail(x.iow) \in Seq(Tasks)
  BY <1>1
<1>3. Sound(y) /\ y.cur = x.cur /\ y.iow = x.iow
  BY <1>2, WakeSound
<1>4. WakeFirst(x) = [y EXCEPT !.iow = Tail(y.iow)]
  BY DEF WakeFirst
<1> DEFINE w == Tail(y.iow)
<1> HIDE DEF y
<1>5. w \in Seq(Tasks)
  BY <1>2, <1>3
<1>6. WakeFirst(x) = [y EXCEPT !.iow = w]
  BY <1>4
<1> HIDE DEF w
<1> QED BY <1>3, <1>5, <1>6, WaitersSound
=============================================================================
