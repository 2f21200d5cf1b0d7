-------------------------------- MODULE Proc --------------------------------
(***************************************************************************)
(* The life of processes and threads: clone, exit, exit_group, kill, fatal *)
(* faults, wait4, the reaping of orphans, and pthread_join through the     *)
(* clear_child_tid futex (src/kernel/proc/syscall.c, core/panic.c).        *)
(*                                                                         *)
(* Every system call runs with interrupts off and is atomic up to the      *)
(* sched_yield it makes.  k is the kernel's state, a record:               *)
(*   s       the scheduler (SchedOps)                                      *)
(*   list    task_list behind its head, the kernel's init task             *)
(*   proc    task -> its process                                           *)
(*   parent, exited, open  process -> parent_pid, exited, and whether it   *)
(*           still holds its descriptors                                   *)
(*   futex   task -> futex_addr;  ctid  task -> clear_child_tid            *)
(*   word    process -> the tid words of its threads that are not zero yet *)
(*           (the user memory of its address space)                        *)
(*   next    next_pid                                                      *)
(*   at      task -> where it continues: "user", or inside "join" or "wait" *)
(*   want    task -> the pid it waits for, 0 for any child                 *)
(* The task list is circular in the code and is walked once around from    *)
(* its head.  A freed task has the fields of a task never created.  The    *)
(* init task, the parent (pid 0) of the first process, is not modelled.    *)
(***************************************************************************)
EXTENDS SchedOps, SequencesExt

CONSTANTS
    MaxPid,     \* the largest pid a behaviour reaches
    Addrs,      \* user addresses of tid words
    Joining,    \* the processes whose threads call pthread_join
    Traps       \* user code may raise a CPU exception other than a page fault

Procs == 1 .. MaxPid

ASSUME ProcAssumption == MaxPid \in Nat \ {0} /\ Traps \in BOOLEAN

VARIABLE k

Listed(x) == ToSet(x.list)

Live(x, p) == {u \in Listed(x) : x.proc[u] = p /\ x.s.state[u] # "ZOMBIE"}

Resumed(t, where) == k.s.cur = t /\ k.at[t] = where

InUser(t) == Resumed(t, "user")

\* The first process is the shell: the kernel started it, so its parent is 0.
Init ==
    \E t \in Tasks :
        k = [s      |-> SchedInit(t),
             list   |-> <<t>>,
             proc   |-> [u \in Tasks |-> IF u = t THEN 1 ELSE 0],
             parent |-> [p \in Procs |-> 0],
             exited |-> [p \in Procs |-> FALSE],
             open   |-> [p \in Procs |-> p = 1],
             futex  |-> [u \in Tasks |-> Null],
             ctid   |-> [u \in Tasks |-> Null],
             word   |-> [p \in Procs |-> {}],
             next   |-> 2,
             at     |-> [u \in Tasks |-> "user"],
             want   |-> [u \in Tasks |-> 0]]

-----------------------------------------------------------------------------
\* process_has_other_live_tasks: the current task is not counted.
OtherLive(x, p) == Live(x, p) \ {x.s.cur} # {}

\* Mutant of wake_parent_of: only the first thread of the parent is tried.
wake_parent_of_First(x, p) ==
    LET i == SelectInSeq(x.list, LAMBDA u : x.proc[u] = x.parent[p])
    IN  IF i > 0 /\ x.s.state[x.list[i]] = "BLOCKED"
        THEN [x EXCEPT !.s = sched_unblock(@, x.list[i])] ELSE x

\* Mutant of wake_parent_of: the state of the parent's threads is not looked at.
wake_parent_of_Any(x, p) ==
    LET Wake(s, u) == IF x.proc[u] = x.parent[p] THEN sched_unblock(s, u) ELSE s
    IN  [x EXCEPT !.s = FoldLeft(Wake, @, x.list)]

\* Every BLOCKED thread of the parent is woken, whatever it is blocked in.
wake_parent_of(x, p) ==
    LET Wake(s, u) == IF x.proc[u] = x.parent[p] /\ s.state[u] = "BLOCKED"
                      THEN sched_unblock(s, u) ELSE s
    IN  [x EXCEPT !.s = FoldLeft(Wake, @, x.list)]

\* FUTEX_WAKE of one waiter.  The address is compared with those of all tasks.
FutexWakeOne(x, a) ==
    LET i == SelectInSeq(x.list, LAMBDA u : x.futex[u] = a)
        u == x.list[i]
    IN  IF i = 0 THEN x
        ELSE [x EXCEPT !.futex[u] = Null,
                       !.s = IF @.state[u] \in {"BLOCKED", "SLEEPING"}
                             THEN sched_unblock(@, u) ELSE @]

\* Mutant of ClearTid: the word is zeroed and nobody is woken.
ClearTid_NoWake(x, t) ==
    IF x.ctid[t] = Null THEN x
    ELSE [x EXCEPT !.word[x.proc[t]] = @ \ {x.ctid[t]}, !.ctid[t] = Null]

\* CLONE_CHILD_CLEARTID: the tid word is zeroed and a joiner woken.
ClearTid(x, t) ==
    IF x.ctid[t] = Null THEN x
    ELSE [FutexWakeOne([x EXCEPT !.word[x.proc[t]] = @ \ {x.ctid[t]}], x.ctid[t])
             EXCEPT !.ctid[t] = Null]

\* Mutant of sys_exit: the last thread leaves the descriptors open.
sys_exit_KeepsFiles(x) ==
    LET t  == x.s.cur
        p  == x.proc[t]
        x1 == [ClearTid(x, t) EXCEPT !.exited[p] = TRUE]
        x2 == wake_parent_of(x1, p)
    IN  [x2 EXCEPT !.s = sched_switch([@ EXCEPT !.state[t] = "ZOMBIE"])]

\* Mutant of sys_exit: no wake-up of the parent.
sys_exit_NoParent(x) ==
    LET t  == x.s.cur
        p  == x.proc[t]
        x1 == [ClearTid(x, t) EXCEPT !.exited[p] = TRUE]
        x2 == [x1 EXCEPT !.open[p] = @ /\ OtherLive(x1, p)]
    IN  [x2 EXCEPT !.s = sched_switch([@ EXCEPT !.state[t] = "ZOMBIE"])]

\* sys_exit_handler, for the current task.
sys_exit(x) ==
    LET t  == x.s.cur
        p  == x.proc[t]
        x1 == [ClearTid(x, t) EXCEPT !.exited[p] = TRUE]
        x2 == wake_parent_of([x1 EXCEPT !.open[p] = @ /\ OtherLive(x1, p)], p)
    IN  [x2 EXCEPT !.s = sched_switch([@ EXCEPT !.state[t] = "ZOMBIE"])]

\* process_terminate_task, for a task that is not the current one.
process_terminate_task(x, u) ==
    LET p  == x.proc[u]
        x1 == [x EXCEPT !.s = sched_forget([@ EXCEPT !.state[u] = "ZOMBIE"], u),
                        !.exited[p] = TRUE]
    IN  IF OtherLive(x1, p) THEN x1
        ELSE wake_parent_of([x1 EXCEPT !.open[p] = FALSE], p)

\* Mutant of free_task_struct: the task stays on its run queue.
free_task_struct_NoForget(x, u) ==
    [x EXCEPT !.list = Remove(@, u), !.proc[u] = 0,
              !.futex[u] = Null, !.ctid[u] = Null, !.at[u] = "user", !.want[u] = 0]

\* free_task_struct: off every list, and freed.
free_task_struct(x, u) ==
    [x EXCEPT !.s = [sched_forget(@, u) EXCEPT !.state[u] = "ZOMBIE"],
              !.list = Remove(@, u), !.proc[u] = 0,
              !.futex[u] = Null, !.ctid[u] = Null, !.at[u] = "user", !.want[u] = 0]

\* release_task: every other task of the process goes with it, the current one
\* excepted, and the process is freed.
release_task(x, u) ==
    LET p    == x.proc[u]
        dead == SelectSeq(x.list, LAMBDA v : x.proc[v] = p /\ v # u /\ v # x.s.cur)
    IN  [free_task_struct(FoldLeft(free_task_struct, x, dead), u) EXCEPT
            !.parent[p] = 0, !.exited[p] = FALSE, !.word[p] = {}]

\* Mutant of Orphan: the parent may still be alive.
Orphan_LiveParent(x, u) ==
    /\ u # x.s.cur /\ x.s.state[u] = "ZOMBIE"
    /\ x.parent[x.proc[u]] # 0
    /\ \A v \in Listed(x) \ {u} : x.proc[v] # x.proc[u]

\* A zombie whose parent is gone, the only task of its process.
Orphan(x, u) ==
    /\ u # x.s.cur /\ x.s.state[u] = "ZOMBIE"
    /\ x.parent[x.proc[u]] # 0 /\ Live(x, x.parent[x.proc[u]]) = {}
    /\ \A v \in Listed(x) \ {u} : x.proc[v] # x.proc[u]

\* reap_orphan_zombies.  Releasing an orphan makes no other task one.
reap_orphan_zombies(x) == FoldLeft(release_task, x, SelectSeq(x.list, LAMBDA u : Orphan(x, u)))

-----------------------------------------------------------------------------
\* A new task goes first behind the init task, and on its run queue.
AddTask(x, u, p) ==
    [x EXCEPT !.list = <<u>> \o @, !.proc[u] = p, !.s = sched_enqueue(@, u)]

\* Mutant of fork: next_pid does not move on.
fork_SamePid(t, u) ==
    LET x == reap_orphan_zombies(k)
        p == x.next
    IN  /\ InUser(t) /\ u \notin Listed(k) /\ p <= MaxPid
        /\ k' = AddTask([x EXCEPT !.parent[p] = x.proc[t],
                                  !.open[p] = TRUE, !.word[p] = x.word[x.proc[t]]], u, p)

\* clone without CLONE_THREAD: the child gets copies of the descriptors and of
\* the memory, the tid words with it.
fork(t, u) ==
    LET x == reap_orphan_zombies(k)
        p == x.next
    IN  /\ InUser(t) /\ u \notin Listed(k) /\ p <= MaxPid
        /\ k' = AddTask([x EXCEPT !.next = p + 1, !.parent[p] = x.proc[t],
                                  !.open[p] = TRUE, !.word[p] = x.word[x.proc[t]]], u, p)

\* clone with CLONE_THREAD, CLONE_PARENT_SETTID and CLONE_CHILD_CLEARTID.
thread_create(t, u, a) ==
    LET x == reap_orphan_zombies(k)
        p == x.proc[t]
    IN  /\ InUser(t) /\ u \notin Listed(k) /\ a \notin x.word[p]
        /\ k' = AddTask([x EXCEPT !.word[p] = @ \cup {a}, !.ctid[u] = a], u, p)

\* clone that fails for lack of memory has reaped the orphans.
clone_fail(t) == InUser(t) /\ k' = reap_orphan_zombies(k)

\* SYS_EXIT; a page fault in user mode ends the same way.
exit(t) ==
    /\ InUser(t)
    /\ k' = sys_exit(k)

\* SYS_EXIT_GROUP: every other thread of the process is stopped, then SYS_EXIT.
exit_group(t) ==
    LET Stop(x, u) == IF u = t \/ x.proc[u] # x.proc[t] \/ x.s.state[u] = "ZOMBIE" THEN x
                      ELSE [x EXCEPT !.s = sched_forget([@ EXCEPT !.state[u] = "ZOMBIE"], u)]
    IN  /\ InUser(t)
        /\ k' = sys_exit(FoldLeft(Stop, k, k.list))

\* kill with SIGKILL or SIGTERM: everyone else of the process first.
kill(t, p) ==
    LET x == reap_orphan_zombies(k)
        Visit(y, u) == IF y.proc[u] # p \/ y.s.state[u] = "ZOMBIE" \/ u = t THEN y
                       ELSE process_terminate_task(y, u)
        z == FoldLeft(Visit, x, x.list)
    IN  /\ InUser(t)
        /\ k' = IF k.proc[t] = p THEN sys_exit(z) ELSE z

\* A CPU exception in user mode other than a page fault: panic_handler.
trap(t) ==
    /\ Traps /\ InUser(t)
    /\ k' = [k EXCEPT !.exited[k.proc[t]] = TRUE,
                      !.s = sched_switch([@ EXCEPT !.state[t] = "ZOMBIE"])]

-----------------------------------------------------------------------------
Children(x, p, pid) ==
    {u \in Listed(x) : x.parent[x.proc[u]] = p /\ (pid = 0 \/ x.proc[u] = pid)}

\* The child wait4 can take: a zombie, or any task of a process that has exited.
Reapable(x, u) == x.s.state[u] = "ZOMBIE" \/ x.exited[x.proc[u]]

\* The loop of sys_wait4_handler, from its top; WNOHANG when hang is FALSE.
WaitLoop(t, pid, hang) ==
    LET mine == Children(k, k.proc[t], pid)
        i == SelectInSeq(k.list, LAMBDA u : u \in mine /\ Reapable(k, u))
        Return(x) == k' = [x EXCEPT !.at[t] = "user", !.want[t] = 0]
    IN  \/ i > 0 /\ Return(release_task(k, k.list[i]))
        \/ i = 0 /\ (mine = {} \/ ~ hang) /\ Return(k)
        \/ /\ i = 0 /\ mine # {} /\ hang
           /\ k' = [k EXCEPT !.s = sched_switch(sched_block(@, t)),
                             !.at[t] = "wait", !.want[t] = pid]

wait4(t, pid, hang) == InUser(t) /\ WaitLoop(t, pid, hang)

wait4_resume(t) == Resumed(t, "wait") /\ WaitLoop(t, k.want[t], TRUE)

\* pthread_join: FUTEX_WAIT while the tid word is not zero.  No two threads of a
\* process join the same thread.
join(t, a) ==
    /\ InUser(t) /\ k.proc[t] \in Joining
    /\ a \in k.word[k.proc[t]] /\ k.ctid[t] # a
    /\ \A u \in Live(k, k.proc[t]) : k.futex[u] # a
    /\ k' = [k EXCEPT !.futex[t] = a, !.at[t] = "join",
                      !.s = sched_switch(sched_block(@, t))]

join_return(t) ==
    /\ Resumed(t, "join")
    /\ k' = [k EXCEPT !.futex[t] = Null, !.at[t] = "user"]

\* The timer interrupts user code or the idle loop.
preempt ==
    /\ k.s.cur # Idle => k.at[k.s.cur] = "user"
    /\ k' = [k EXCEPT !.s = sched_switch(@)]

UserStep == \E t \in Tasks :
    \/ \E u \in Tasks : fork(t, u) \/ \E a \in Addrs : thread_create(t, u, a)
    \/ clone_fail(t) \/ exit(t) \/ exit_group(t) \/ trap(t)
    \/ \E p \in Procs : kill(t, p)
    \/ \E pid \in Procs \cup {0}, hang \in BOOLEAN : wait4(t, pid, hang)
    \/ \E a \in Addrs : join(t, a)

KernelStep == \E t \in Tasks : wait4_resume(t) \/ join_return(t)

Next == UserStep \/ KernelStep \/ preempt

Spec == Init /\ [][Next]_k

\* Kernel code runs to its end, and the timer keeps interrupting.
FairSpec == Spec /\ WF_k(KernelStep) /\ SF_k(preempt)

-----------------------------------------------------------------------------
TypeOK ==
    /\ k.s \in SchedType
    /\ k.list \in Seq(Tasks) /\ IsInjective(k.list)
    /\ k.next \in 2 .. (MaxPid + 1)
    /\ k.proc \in [Tasks -> 0 .. (k.next - 1)] /\ k.want \in [Tasks -> 0 .. MaxPid]
    /\ k.at \in [Tasks -> {"user", "join", "wait"}]
    /\ k.parent \in [Procs -> 0 .. MaxPid]
    /\ k.exited \in [Procs -> BOOLEAN] /\ k.open \in [Procs -> BOOLEAN]
    /\ k.word \in [Procs -> SUBSET Addrs]
    /\ k.futex \in [Tasks -> Addrs \cup {Null}] /\ k.ctid \in [Tasks -> Addrs \cup {Null}]

\* The scheduler never holds a freed task: the run queues hold exactly the
\* RUNNABLE tasks, all of them on the task list, and the current task is one of
\* them (free_task_struct and process_terminate_task call sched_forget, exit
\* leaves its queue in sched_switch).
NoDangling ==
    /\ QueuesExact(k.s)
    /\ \A t \in Tasks : Queued(k.s, t) => t \in Listed(k)
    /\ k.s.cur # Idle => Queued(k.s, k.s.cur)

\* wait4 loses no wake-up: a thread blocked in it has a child to wait for, and
\* none that it could take (sys_wait4_handler tests and blocks as one step; exit,
\* exit_group, kill and page faults wake the parent).
NoHungParent ==
    \A t \in Listed(k) :
        k.at[t] = "wait" /\ k.s.state[t] = "BLOCKED" =>
            LET mine == Children(k, k.proc[t], k.want[t])
            IN  mine # {} /\ \A u \in mine : ~ Reapable(k, u)

\* The exit of a thread wakes the thread that joins it: nobody is blocked in
\* pthread_join on a tid word that is zero (sys_exit_handler, FUTEX_WAKE).
JoinNotLost ==
    \A t \in Listed(k) :
        k.at[t] = "join" /\ k.s.state[t] = "BLOCKED" => k.futex[t] \in k.word[k.proc[t]]

\* A process all of whose tasks are zombies holds no descriptor, so that the
\* other ends of its pipes see the end of file (sys_exit_handler,
\* process_terminate_task).
FilesReleased ==
    \A t \in Listed(k) : Live(k, k.proc[t]) = {} => ~ k.open[k.proc[t]]

\* The same for a process that is gone.
NoLeakedFiles ==
    \A p \in 1 .. (k.next - 1) : Live(k, p) = {} => ~ k.open[p]

\* A task that is dead is never made RUNNABLE again: it only leaves the list.
DeadStayDead ==
    [][\A t \in Listed(k) :
          k.s.state[t] = "ZOMBIE" => k'.s.state[t] = "ZOMBIE" \/ t \notin Listed(k')]_k

\* A process disappears only through its parent's wait4, or when it can have no
\* live parent to wait for it (reap_orphan_zombies in clone and kill).
NoStolenChild ==
    [][\A t \in Listed(k) \ Listed(k') :
          LET parent == k.parent[k.proc[t]]
          IN  k.proc[k.s.cur] = parent \/ Live(k, parent) = {}]_k

\* A dead child that a thread waits for in wait4 is reaped, unless the thread
\* returns with another child or dies.
WaitReaps ==
    \A t \in Tasks, p \in Procs :
        (/\ k.at[t] = "wait"
         /\ \E u \in Children(k, k.proc[t], k.want[t]) : k.proc[u] = p /\ Reapable(k, u))
        ~> \/ k.at[t] = "user" \/ k.s.state[t] = "ZOMBIE"
           \/ \A u \in Listed(k) : k.proc[u] # p
=============================================================================
