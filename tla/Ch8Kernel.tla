----------------------------- MODULE Ch8Kernel -----------------------------
(***************************************************************************)
(* The multi-threaded kernel of chapter 8 (ch8/src/main.rs): the scheduling*)
(* loop of rust_main over PThreadManager and the system calls that create, *)
(* end, block and wake threads, with the blocking primitives of the sync   *)
(* crate and the part of signal handling that ends a thread.               *)
(*                                                                         *)
(* The kernel is single-core, takes no timer interrupt and is not          *)
(* re-entered: between find_next and the next trap one user thread runs,   *)
(* and a trap is served to its end before the next thread is looked for.   *)
(* So there is one action for find_next (Dispatch) and one for each kind   *)
(* of trap; what a user thread does next is free.                          *)
(*                                                                         *)
(* Signals are taken to SIGKILL, unmasked and without a handler running:   *)
(* Process.killed is "SIGKILL is in `received`".  Slot i of a primitive    *)
(* list is the code's id i - 1.                                            *)
(***************************************************************************)
EXTENDS PThreadManager, Sync, FiniteSets

CONSTANTS
    MaxPid, MaxTid,   \* bounds: largest process and thread id handed out
    MaxSync,          \* bound: primitives of each kind per process
    MaxCount,         \* bound: largest semaphore count
    ExitCodes,        \* what user code passes to exit
    ResCounts,        \* initial counts passed to semaphore_create
    Calls,            \* the traps user programs make
    Disciplined       \* users unlock what they hold, and nothing else

CallNames ==
    {"exit", "fork", "exec", "wait", "waittid", "thread_create", "kill",
     "mutex_create", "mutex_lock", "mutex_unlock",
     "semaphore_create", "semaphore_up", "semaphore_down",
     "condvar_create", "condvar_signal", "condvar_wait",
     "other", "unsupported", "fault"}

ASSUME KernelConstants ==
    /\ MaxPid \in Nat /\ MaxTid \in Nat /\ MaxSync \in Nat /\ MaxCount \in Nat
    /\ ExitCodes \subseteq Int
    /\ ResCounts \subseteq Nat
    /\ Calls \subseteq CallNames
    /\ Disciplined \in BOOLEAN

VARIABLES
    mgr,      \* PROCESSOR: the PThreadManager
    ids,      \* the counters behind ProcId::new and ThreadId::new
    status,   \* "run", "no task" (loop left, shutdown), "panic"
    holds     \* history: <<pid, slot, tid>>, tid has been given that mutex

vars == <<mgr, ids, status, holds>>

KilledCode == -9
NoMutex == [none |-> TRUE]

NewProcess ==
    [mutex_list |-> <<>>, semaphore_list |-> <<>>, condvar_list |-> <<>>,
     killed |-> FALSE]

\* initproc: from_elf, add_proc with no parent, add.
Init ==
    /\ mgr = Add(AddProc(NewManager, InitProc, NewProcess, NoProc), 0, InitProc)
    /\ ids = [pid |-> 1, tid |-> 1]
    /\ status = "run"
    /\ holds = {}
-----------------------------------------------------------------------------
\* The running thread, its process and that process's entity.
self == mgr.current
here == CurrentProc(mgr)
proc == mgr.procs[here]

Running == status = "run" /\ mgr.current # NoThread

Trap(id) == Running /\ id \in Calls

Dispatch ==
    /\ status = "run"
    /\ mgr.current = NoThread
    /\ mgr' = FindNext(mgr)
    /\ status' = IF mgr'.current = NoThread THEN "no task" ELSE "run"
    /\ UNCHANGED <<ids, holds>>

Blocking == {"semaphore_down", "mutex_lock", "condvar_wait"}

\* Mutant of Return: a call that could not be served is treated as any other.
ReturnNeverBlocks(m, id, ret) ==
    LET p == CurrentProc(m)
    IN  IF m.procs[p].killed
        THEN MakeCurrentExited([m EXCEPT !.procs[p].killed = FALSE], KilledCode)
        ELSE IF id \in {"exit", "unsupported"} THEN MakeCurrentExited(m, ret)
        ELSE MakeCurrentSuspend(m)

\* What the loop does with a served system call: handle_signals first
\* (SIGKILL is taken out of `received` and ends the calling thread, whatever
\* the call did), then the call's own way out.
Return(m, id, ret) ==
    LET p == CurrentProc(m)
    IN  CASE m.procs[p].killed ->
               MakeCurrentExited([m EXCEPT !.procs[p].killed = FALSE], KilledCode)
          [] ~m.procs[p].killed /\ id \in {"exit", "unsupported"} ->
               MakeCurrentExited(m, ret)
          [] ~m.procs[p].killed /\ id \in Blocking /\ ret = -1 ->
               MakeCurrentBlocked(m)
          [] OTHER -> MakeCurrentSuspend(m)

\* The trap ends in manager state m; h is the history without the processes
\* that are gone.
Settle(m, h) ==
    /\ mgr' = m
    /\ status' = IF m.panicked THEN "panic" ELSE "run"
    /\ holds' = {x \in h : x[1] \in DOMAIN m.procs}

Finish(m, id, ret, h) == Settle(Return(m, id, ret), h)

Panic == status' = "panic" /\ UNCHANGED <<mgr, ids, holds>>

\* Mutant of Wake: the result of the primitive is used unchecked.
WakeUnchecked(m, tid) == ReEnque(m, tid)

Wake(m, tid) == IF tid = NoWaiter THEN m ELSE ReEnque(m, tid)
-----------------------------------------------------------------------------
Exit(code) ==
    /\ Trap("exit")
    /\ Disciplined => \A x \in holds : x[3] # self
    /\ Finish(mgr, "exit", code, holds)
    /\ UNCHANGED ids

\* Mutant of Fork: the child starts with copies of the parent's primitives.
ForkInherits ==
    /\ Trap("fork")
    /\ ids.pid <= MaxPid /\ ids.tid <= MaxTid
    /\ LET child == AddProc(mgr, ids.pid, [proc EXCEPT !.killed = FALSE], here)
       IN  Finish(Add(child, ids.tid, ids.pid), "fork", ids.pid, holds)
    /\ ids' = [pid |-> ids.pid + 1, tid |-> ids.tid + 1]

Fork ==
    /\ Trap("fork")
    /\ ids.pid <= MaxPid /\ ids.tid <= MaxTid
    /\ LET child == AddProc(mgr, ids.pid, NewProcess, here)
       IN  Finish(Add(child, ids.tid, ids.pid), "fork", ids.pid, holds)
    /\ ids' = [pid |-> ids.pid + 1, tid |-> ids.tid + 1]

\* from_elf draws a process and a thread id that nothing will carry; the
\* image of threads[0] is replaced, which the manager does not see.
Exec ==
    /\ Trap("exec")
    /\ ids.pid <= MaxPid /\ ids.tid <= MaxTid
    /\ Finish(mgr, "exec", 0, holds)
    /\ ids' = [pid |-> ids.pid + 1, tid |-> ids.tid + 1]

WaitPid(pid) ==
    /\ Trap("wait")
    /\ LET w == Wait(mgr, pid)
       IN  Finish(w.m, "wait", IF w.ret = NoResult THEN -1 ELSE w.ret[1], holds)
    /\ UNCHANGED ids

WaitTidCall(tid) ==
    /\ Trap("waittid")
    /\ LET w == IF tid = self THEN [m |-> mgr, ret |-> NoResult]
                              ELSE WaitTid(mgr, tid)
       IN  Finish(w.m, "waittid", IF w.ret = NoResult THEN -1 ELSE w.ret[1],
                  holds)
    /\ UNCHANGED ids

ThreadCreate ==
    /\ Trap("thread_create")
    /\ ids.tid <= MaxTid
    /\ Finish(Add(mgr, ids.tid, here), "thread_create", ids.tid, holds)
    /\ ids' = [ids EXCEPT !.tid = @ + 1]

Kill(pid) ==
    /\ Trap("kill")
    /\ IF pid \in DOMAIN mgr.procs
       THEN Finish([mgr EXCEPT !.procs[pid].killed = TRUE], "kill", 0, holds)
       ELSE Finish(mgr, "kill", -1, holds)
    /\ UNCHANGED ids

\* Every call that leaves threads, processes and primitives alone.
Other ==
    /\ Trap("other")
    /\ Finish(mgr, "other", 0, holds)
    /\ UNCHANGED ids

Unsupported ==
    /\ Trap("unsupported")
    /\ Finish(mgr, "unsupported", -2, holds)
    /\ UNCHANGED ids

\* Any trap that is not a system call; signals are not looked at.
Fault ==
    /\ Trap("fault")
    /\ Settle(MakeCurrentExited(mgr, -3), holds)
    /\ UNCHANGED ids
-----------------------------------------------------------------------------
\* The first empty slot if there is one, otherwise a new one.
MutexCreate(blocking) ==
    /\ Trap("mutex_create")
    /\ LET list == proc.mutex_list
           new  == IF blocking THEN NewMutex ELSE NoMutex
           idx  == SelectInSeq(list, LAMBDA x : x = NoMutex)
           list2 == IF idx # 0 THEN [list EXCEPT ![idx] = new]
                               ELSE Append(list, new)
       IN  /\ Len(list2) <= MaxSync
           /\ Finish([mgr EXCEPT !.procs[here].mutex_list = list2],
                     "mutex_create", 0, holds)
    /\ UNCHANGED ids

HasMutex(i) == i \in DOMAIN proc.mutex_list /\ proc.mutex_list[i] # NoMutex

MutexLock(i) ==
    /\ Trap("mutex_lock")
    /\ HasMutex(i)
    /\ Disciplined => <<here, i, self>> \notin holds
    /\ LET r == Lock(proc.mutex_list[i], self)
       IN  Finish([mgr EXCEPT !.procs[here].mutex_list[i] = r.mutex],
                  "mutex_lock", IF r.ok THEN 0 ELSE -1,
                  IF r.ok THEN holds \cup {<<here, i, self>>} ELSE holds)
    /\ UNCHANGED ids

\* The history when self gives slot i up and tid is handed it.
HandOver(i, tid) ==
    (holds \ {<<here, i, self>>})
        \cup (IF tid = NoWaiter THEN {} ELSE {<<here, i, tid>>})

MutexUnlock(i) ==
    /\ Trap("mutex_unlock")
    /\ HasMutex(i)
    /\ Disciplined => <<here, i, self>> \in holds
    /\ LET r == Unlock(proc.mutex_list[i])
       IN  IF UnlockPanics(proc.mutex_list[i])
           THEN Panic
           ELSE /\ Finish(Wake([mgr EXCEPT !.procs[here].mutex_list[i] = r.mutex],
                               r.waking),
                          "mutex_unlock", 0, HandOver(i, r.waking))
                /\ UNCHANGED ids

SemaphoreCreate(n) ==
    /\ Trap("semaphore_create")
    /\ Len(proc.semaphore_list) < MaxSync
    /\ Finish([mgr EXCEPT !.procs[here].semaphore_list =
                              Append(@, NewSemaphore(n))],
              "semaphore_create", 0, holds)
    /\ UNCHANGED ids

SemaphoreUp(i) ==
    /\ Trap("semaphore_up")
    /\ i \in DOMAIN proc.semaphore_list
    /\ proc.semaphore_list[i].count < MaxCount
    /\ LET r == Up(proc.semaphore_list[i])
       IN  Finish(Wake([mgr EXCEPT !.procs[here].semaphore_list[i] = r.sem],
                       r.waking),
                  "semaphore_up", 0, holds)
    /\ UNCHANGED ids

SemaphoreDown(i) ==
    /\ Trap("semaphore_down")
    /\ i \in DOMAIN proc.semaphore_list
    /\ LET r == Down(proc.semaphore_list[i], self)
       IN  Finish([mgr EXCEPT !.procs[here].semaphore_list[i] = r.sem],
                  "semaphore_down", IF r.ok THEN 0 ELSE -1, holds)
    /\ UNCHANGED ids

CondvarCreate ==
    /\ Trap("condvar_create")
    /\ Len(proc.condvar_list) < MaxSync
    /\ Finish([mgr EXCEPT !.procs[here].condvar_list = Append(@, NewCondvar)],
              "condvar_create", 0, holds)
    /\ UNCHANGED ids

CondvarSignal(i) ==
    /\ Trap("condvar_signal")
    /\ i \in DOMAIN proc.condvar_list
    /\ LET r == Signal(proc.condvar_list[i])
       IN  Finish(Wake([mgr EXCEPT !.procs[here].condvar_list[i] = r.condvar],
                       r.waking),
                  "condvar_signal", 0, holds)
    /\ UNCHANGED ids

CondvarWait(c, i) ==
    /\ Trap("condvar_wait")
    /\ c \in DOMAIN proc.condvar_list
    /\ HasMutex(i)
    /\ Disciplined => <<here, i, self>> \in holds
    /\ LET r == WaitWithMutex(proc.mutex_list[i], self)
       IN  IF WaitWithMutexPanics(proc.mutex_list[i])
           THEN Panic
           ELSE /\ Finish(Wake([mgr EXCEPT !.procs[here].mutex_list[i] = r.mutex],
                               r.waking),
                          "condvar_wait", IF r.ok THEN 0 ELSE -1,
                          HandOver(i, r.waking))
                /\ UNCHANGED ids

\* An index past the list, or the unwrap() of an empty mutex slot.
MissingPrimitive(i) ==
    /\ \/ /\ \/ Trap("mutex_lock") \/ Trap("mutex_unlock")
             \/ Trap("condvar_wait")
          /\ ~HasMutex(i)
       \/ /\ \/ Trap("semaphore_up") \/ Trap("semaphore_down")
          /\ i \notin DOMAIN proc.semaphore_list
       \/ /\ \/ Trap("condvar_signal") \/ Trap("condvar_wait")
          /\ i \notin DOMAIN proc.condvar_list
    /\ ~Disciplined
    /\ Panic
-----------------------------------------------------------------------------
\* shutdown() and the panic handler do not come back.
PoweredOff == status # "run" /\ UNCHANGED vars

Next ==
    \/ Dispatch
    \/ \E code \in ExitCodes : Exit(code)
    \/ Fork \/ Exec \/ ThreadCreate
    \/ \E pid \in {NoProc} \cup 0..MaxPid : WaitPid(pid)
    \/ \E tid \in 0..MaxTid : WaitTidCall(tid)
    \/ \E pid \in 0..MaxPid : Kill(pid)
    \/ Other \/ Unsupported \/ Fault
    \/ \E blocking \in BOOLEAN : MutexCreate(blocking)
    \/ \E n \in ResCounts : SemaphoreCreate(n)
    \/ CondvarCreate
    \/ \E i \in 1..MaxSync :
         \/ MutexLock(i) \/ MutexUnlock(i)
         \/ SemaphoreUp(i) \/ SemaphoreDown(i)
         \/ CondvarSignal(i) \/ \E c \in 1..MaxSync : CondvarWait(c, i)
         \/ MissingPrimitive(i)
    \/ PoweredOff

Spec == Init /\ [][Next]_vars
-----------------------------------------------------------------------------
\* The wait queues of the kernel: one per primitive of a live process.
Kinds == {"mutex", "semaphore", "condvar"}
Primitives(p, kind) ==
    CASE kind = "mutex"     -> mgr.procs[p].mutex_list
      [] kind = "semaphore" -> mgr.procs[p].semaphore_list
      [] kind = "condvar"   -> mgr.procs[p].condvar_list
Queues ==
    {q \in (DOMAIN mgr.procs) \X Kinds \X (1..MaxSync) :
        /\ q[3] \in DOMAIN Primitives(q[1], q[2])
        /\ Primitives(q[1], q[2])[q[3]] # NoMutex}
WaitQueue(q) == Primitives(q[1], q[2])[q[3]].wait_queue
Waiting == UNION {ToSet(WaitQueue(q)) : q \in Queues}

Mutex == [locked : BOOLEAN, wait_queue : Seq(Nat)]
Process ==
    [mutex_list     : Seq(Mutex \cup {NoMutex}),
     semaphore_list : Seq([count : Int, wait_queue : Seq(Nat)]),
     condvar_list   : Seq([wait_queue : Seq(Nat)]),
     killed         : BOOLEAN]
\* Types of the manager's tables, the id counters and the history.
TypeOK ==
    /\ ManagerType(mgr)
    /\ mgr.procs \in [DOMAIN mgr.procs -> Process]
    /\ ids \in [pid : Nat, tid : Nat]
    /\ status \in {"run", "no task", "panic"}
    /\ holds \in SUBSET (Nat \X Nat \X Nat)

\* The tables that PThreadManager updates one after the other agree whenever
\* a trap has been served: every thread entity has an owner (tid2pid) that
\* lists it once, a process has a family record exactly when it has an entity,
\* and it has both exactly as long as it has a thread.  The unwrap()s of
\* make_current_exited, get_current_proc, wait and fork rely on this.
TablesAgree == Tables(mgr)

\* A live thread is in exactly one place: it runs, or it is once in the ready
\* queue, or it is once in one wait queue.  In no place it would never run
\* again; in two it would be resumed while it waits, or run twice per turn.
ThreadPlacement ==
    /\ IsInjective(mgr.ready)
    /\ mgr.current \notin ToSet(mgr.ready)
    /\ Waiting \cap (ToSet(mgr.ready) \cup {mgr.current}) = {}
    /\ \A q \in Queues : IsInjective(WaitQueue(q))
    /\ \A q, r \in Queues :
         q # r => ToSet(WaitQueue(q)) \cap ToSet(WaitQueue(r)) = {}
    /\ \A t \in mgr.tasks :
         t = mgr.current \/ t \in ToSet(mgr.ready) \/ t \in Waiting

\* A live thread waits only on a primitive of its own process, so del_proc
\* never drops a queue in which somebody waits.
WaitersAtHome ==
    \A q \in Queues : \A t \in ToSet(WaitQueue(q)) :
        t \in mgr.tasks => mgr.tid2pid[t] = q[1]

\* parent and children are two views of one tree, rooted in process 0, in
\* which a parent is older than its children: del_proc moves orphans to
\* process 0 on both sides and leaves no process behind.
ProcessTree ==
    ~mgr.panicked =>
      \A p \in DOMAIN mgr.rel :
        /\ mgr.rel[p].children =
              {c \in DOMAIN mgr.rel : mgr.rel[c].parent = p}
        /\ p # InitProc => /\ mgr.rel[p].parent \in DOMAIN mgr.rel
                           /\ mgr.rel[p].parent < p

\* An exit status waits in one place to be reaped: a dead child or a dead
\* thread is listed once, by one process, and is not alive.
ExitStatusOnce ==
    \A p \in DOMAIN mgr.rel :
      LET dead == mgr.rel[p].dead_children IN
      /\ \A i \in DOMAIN dead :
           /\ dead[i][1] \notin DOMAIN mgr.rel
           /\ \A r \in DOMAIN mgr.rel : \A j \in DOMAIN mgr.rel[r].dead_children :
                mgr.rel[r].dead_children[j][1] = dead[i][1] => r = p /\ j = i
      /\ \A d, e \in mgr.rel[p].dead_threads :
           d[1] \notin mgr.tasks /\ (d[1] = e[1] => d = e)

\* No wake-up is lost: nobody is queued on a free mutex or on a semaphore
\* with resources left, and a negative count is the number of queued threads
\* (the comment at the head of semaphore.rs).
NoLostWakeup ==
    \A q \in Queues :
      LET x == Primitives(q[1], q[2])[q[3]] IN
      /\ q[2] = "mutex" /\ ~x.locked => x.wait_queue = <<>>
      /\ q[2] = "semaphore" =>
           Len(x.wait_queue) = IF x.count < 0 THEN -x.count ELSE 0

\* Hand-over of a mutex keeps it exclusive, and it is held exactly while its
\* `locked` flag is set.  For users that unlock only what they hold.
MutualExclusion ==
    /\ \A x, y \in holds : x[1] = y[1] /\ x[2] = y[2] => x[3] = y[3]
    /\ \A q \in Queues : q[2] = "mutex" =>
         (Primitives(q[1], q[2])[q[3]].locked <=>
            \E x \in holds : x[1] = q[1] /\ x[2] = q[3])

\* The loop gives up ("no task") only when no live thread could have run.
NoTaskOnlyWhenIdle ==
    status = "no task" => ToSet(mgr.ready) \cap mgr.tasks = {}

\* No assertion or unwrap() of the kernel fails.
NoPanic == status # "panic"

\* While a process lives, a child leaves its children only into its
\* dead_children, and a status leaves dead_children only by a trap of one of
\* its own threads (del_child, wait).
ChildrenReported ==
    [][\A p \in (DOMAIN mgr.rel) \cap (DOMAIN mgr'.rel) :
         /\ \A c \in mgr.rel[p].children :
              \/ c \in mgr'.rel[p].children
              \/ \E d \in ToSet(mgr'.rel[p].dead_children) : d[1] = c
         /\ ToSet(mgr.rel[p].dead_children) \ ToSet(mgr'.rel[p].dead_children)
              # {} => Running /\ here = p]_vars
-----------------------------------------------------------------------------
\* Progress.  ch8 has no timer, so a turn ends only when the running thread
\* traps: weak fairness of Next says that it does, and that the loop runs on.
\* The second assumption is about users: a thread that keeps running with a
\* mutex held unlocks it in the end.
FairSpec ==
    /\ Spec
    /\ WF_vars(Next)
    /\ \A i \in 1..MaxSync : \A t \in 0..MaxTid :
         SF_vars(self = t /\ MutexUnlock(i))

\* The FIFO ready queue starves nobody: a queued thread gets the processor.
ReadyRuns == \A t \in 0..MaxTid : t \in ToSet(mgr.ready) ~> self = t

\* A thread queued on a mutex is handed it, whatever the others go on to do.
WaiterGetsLock ==
    \A t \in 0..MaxTid : t \in Waiting ~> \E x \in holds : x[3] = t
-----------------------------------------------------------------------------
\* What the documentation says and the code does not do.

\* ch8/README.md: condvar_wait atomically releases the lock, blocks, and has
\* the lock again when it is woken.  Called by the holder of the mutex it is
\* an ordinary blocking call, after which the kernel runs on.
CondvarWaitReturns ==
    [][\A c, i \in 1..MaxSync : CondvarWait(c, i) => status' = "run"]_vars

\* ch8/README.md: the caller of condvar_wait is put on the wait queue of the
\* condition variable (where condvar_signal looks for a thread to wake).
CondvarWaitQueues ==
    [][\A c, i \in 1..MaxSync : CondvarWait(c, i) /\ status' = "run" =>
         self \in ToSet(mgr'.procs[here].condvar_list[c].wait_queue)]_vars

\* proc_thread_rel.rs: wait for any child pops the head of dead_children.
WaitAnyPopsHead ==
    \A p \in DOMAIN mgr.rel : mgr.rel[p].dead_children # <<>> =>
        WaitAnyChild(mgr.rel[p]).ret = Head(mgr.rel[p].dead_children)

\* thread_manager.rs: the result -2 of waittid means that the thread is alive
\* and must be waited for again.
WaitTidMeansAlive ==
    \A p \in DOMAIN mgr.rel : \A t \in 0..MaxTid :
        WaitThread(mgr.rel[p], t).ret = <<StillRunning>> => t \in mgr.tasks

\* ch7/src/main.rs, which ch8 says its signals are the same as: on a
\* terminating signal the process exits.  Once its SIGKILL has been taken out
\* of `received`, the process is gone.
KillEndsProcess ==
    [][\A p \in (DOMAIN mgr.procs) \cap (DOMAIN mgr'.procs) :
         mgr.procs[p].killed => mgr'.procs[p].killed]_vars

\* thread_manager.rs: after the deletion of a process all its children are
\* handed to process 0.
OrphansAdopted ==
    [][\A p \in (DOMAIN mgr.rel) \ (DOMAIN mgr'.rel) :
         mgr.rel[p].children # {} =>
           /\ InitProc \in DOMAIN mgr'.rel
           /\ mgr.rel[p].children \subseteq mgr'.rel[InitProc].children]_vars
=============================================================================
