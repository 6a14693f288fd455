-------------------------- MODULE Ch8KernelProofs --------------------------
(***************************************************************************)
(* TypeOK and TablesAgree are invariants of Ch8Kernel for every value of   *)
(* its constants, whatever the user threads call.                          *)
(*                                                                         *)
(* The inductive invariant adds to the two that every id in the tables is  *)
(* below the counter that hands ids out: without it a new thread or        *)
(* process could overwrite a live one.                                     *)
(***************************************************************************)
EXTENDS ManagerProofs

\* Every id of m has been handed out before the counters i.
Below(m, i) ==
    /\ \A t \in m.tasks : t < i.tid
    /\ \A p \in DOMAIN m.procs : p < i.pid

IInv ==
    /\ Good(mgr)
    /\ Below(mgr, ids)
    /\ ids \in [pid : Nat, tid : Nat]
    /\ status \in {"run", "no task", "panic"}
    /\ holds \in SUBSET (Nat \X Nat \X Nat)

\* The boot state: process 0 with thread 0.
LEMMA InitIInv == Init => IInv
<1>. SUFFICES ASSUME Init PROVE IInv
  OBVIOUS
<1>. DEFINE e == AddProc(NewManager, InitProc, NewProcess, NoProc)
            n == Add(e, 0, InitProc)
<1>1. NewProcess \in Process
  BY DEF NewProcess, Process
<1>2. /\ DOMAIN e = {"tasks", "procs", "ready", "current", "tid2pid", "rel", "panicked"}
      /\ e.tasks = {} /\ e.procs = [x \in {0} |-> NewProcess]
      /\ e.ready = <<>> /\ e.current = NoThread
      /\ e.tid2pid = EmptyMap /\ e.rel = [x \in {0} |-> New(NoProc)]
      /\ e.panicked = FALSE
  BY DEF AddProc, NewManager, EmptyMap, MapInsert, InitProc
<1>3. New(NoProc) \in Rel /\ New(NoProc).threads = <<>>
  BY DEF New, Rel
<1>. HIDE DEF e
<1>4. ManagerType(e)
  <2>1. DOMAIN EmptyMap = {} /\ EmptyMap \in [{} -> Nat]
    BY DEF EmptyMap
  <2>2. QED
    BY <1>2, <1>3, <2>1 DEF ManagerType, NoThread
<1>5. Owns(e, 0)
  <2>1. ToSet(<<>>) = {} /\ IsInjective(<<>>)
    BY DEF ToSet, IsInjective
  <2>2. QED BY <1>2, <1>3, <2>1 DEF Owns
<1>6. GoodBut(e, 0)
  BY <1>1, <1>2, <1>4, <1>5 DEF GoodBut, EmptyMap, NoThread
<1>7. Good(n) /\ n.tasks = {0} /\ n.procs = e.procs
  BY <1>2, <1>6, AddGood DEF InitProc
<1>8. mgr = n
  BY DEF Init, e
<1>. HIDE DEF n
<1>9. QED
  BY <1>2, <1>7, <1>8 DEF Init, IInv, Below

\* The end of a trap: a good manager is left, with no id from the future.
LEMMA SettleIInv ==
    ASSUME NEW m, NEW h \in SUBSET (Nat \X Nat \X Nat),
           Good(m), Below(m, ids'), ids' \in [pid : Nat, tid : Nat],
           Settle(m, h)
    PROVE  IInv'
BY DEF Settle, IInv, Good, Below

\* The end of a system call, after the handler has left manager m.
LEMMA FinishIInv ==
    ASSUME NEW m, NEW h \in SUBSET (Nat \X Nat \X Nat), NEW id, NEW ret,
           Good(m), m.current # NoThread,
           id \in {"exit", "unsupported"} => ret \in Int,
           Below(m, ids'), ids' \in [pid : Nat, tid : Nat],
           Finish(m, id, ret, h)
    PROVE  IInv'
<1>. DEFINE n == Return(m, id, ret)
<1>1. Good(n) /\ NoNew(m, n)
  BY ReturnGood
<1>2. Settle(n, h)
  BY DEF Finish
<1>. HIDE DEF n
<1>3. Below(n, ids')
  BY <1>1 DEF NoNew, Below
<1>4. QED BY <1>1, <1>2, <1>3, SettleIInv

\* A call that changes one process entity, and may wake a thread.
LEMMA EntityGood ==
    ASSUME NEW m, Good(m), m.current # NoThread, NEW i, Below(m, i),
           NEW p \in DOMAIN m.procs, NEW q \in Process,
           NEW t \in Nat \cup {NoWaiter}
    PROVE  LET n == [m EXCEPT !.procs[p] = q]
           IN  /\ Good(n) /\ Below(n, i) /\ n.current # NoThread
               /\ Good(Wake(n, t)) /\ Below(Wake(n, t), i)
               /\ Wake(n, t).current # NoThread
<1>. DEFINE P == [m.procs EXCEPT ![p] = q]
            n == [m EXCEPT !.procs[p] = q]
<1>1. P \in [DOMAIN m.procs -> Process] /\ n = [m EXCEPT !.procs = P]
  BY DEF Good
<1>. HIDE DEF n, P
<1>2. Good(n) /\ NoNew(m, n) /\ n.current = m.current
  BY <1>1, ProcsGood
<1>3. Below(n, i)
  BY <1>2 DEF NoNew, Below
<1>4. CASE t = NoWaiter
  BY <1>2, <1>3, <1>4 DEF Wake, n
<1>5. CASE t \in Nat
  <2>1. Wake(n, t) = ReEnque(n, t)
    BY <1>5 DEF Wake, NoWaiter
  <2>2. OnlyQueue(n, ReEnque(n, t)) /\ ReEnque(n, t).current = n.current
    BY <1>2, <1>5, SwitchesQueue
  <2>3. Good(ReEnque(n, t)) /\ NoNew(n, ReEnque(n, t))
    BY <1>2, <2>2, QueueGood
  <2>4. Below(ReEnque(n, t), i)
    BY <1>3, <2>3 DEF NoNew, Below
  <2>5. QED BY <1>2, <1>3, <2>1, <2>2, <2>3, <2>4 DEF n
<1>6. QED BY <1>4, <1>5

\* Where a system call starts: the tables and the caller's process.
LEMMA Caller ==
    ASSUME IInv, Running
    PROVE  /\ Good(mgr) /\ mgr.current # NoThread
           /\ self \in Nat /\ self \in mgr.tasks
           /\ here \in Nat /\ here \in DOMAIN mgr.procs /\ here \in DOMAIN mgr.rel
           /\ proc \in Process
BY DEF IInv, Good, ManagerType, Tables, Running, self, here, proc, CurrentProc

\* The history stays typed when a mutex is taken or handed over.
LEMMA HoldsTyped ==
    ASSUME IInv, Running, NEW i \in Nat, NEW t \in Nat \cup {NoWaiter}
    PROVE  /\ holds \cup {<<here, i, self>>} \in SUBSET (Nat \X Nat \X Nat)
           /\ HandOver(i, t) \in SUBSET (Nat \X Nat \X Nat)
<1>1. /\ here \in Nat /\ self \in Nat
      /\ holds \in SUBSET (Nat \X Nat \X Nat)
  BY Caller DEF IInv
<1>2. CASE t = NoWaiter
  BY <1>1, <1>2 DEF HandOver
<1>3. CASE t \in Nat
  BY <1>1, <1>3 DEF HandOver, NoWaiter
<1>4. QED BY <1>2, <1>3

\* The sync crate: a primitive stays one, and names a thread or nobody.
LEMMA SyncTypes ==
    ASSUME NEW t \in Nat
    PROVE  /\ \A x \in Mutex :
                /\ Lock(x, t).mutex \in Mutex
                /\ Unlock(x).mutex \in Mutex
                /\ Unlock(x).waking \in Nat \cup {NoWaiter}
                /\ WaitWithMutex(x, t).mutex \in Mutex
                /\ WaitWithMutex(x, t).waking \in Nat \cup {NoWaiter}
           /\ \A x \in [count : Int, wait_queue : Seq(Nat)] :
                /\ Up(x).sem \in [count : Int, wait_queue : Seq(Nat)]
                /\ Up(x).waking \in Nat \cup {NoWaiter}
                /\ Down(x, t).sem \in [count : Int, wait_queue : Seq(Nat)]
           /\ \A x \in [wait_queue : Seq(Nat)] :
                /\ Signal(x).condvar \in [wait_queue : Seq(Nat)]
                /\ Signal(x).waking \in Nat \cup {NoWaiter}
<1>1. ASSUME NEW q \in Seq(Nat)
      PROVE  /\ PopFront(q) \in Seq(Nat)
             /\ FrontWaiter(q) \in Nat \cup {NoWaiter}
             /\ Append(q, t) \in Seq(Nat)
  BY TailSet DEF PopFront, FrontWaiter
<1>2. ASSUME NEW x \in Mutex
      PROVE  /\ Lock(x, t).mutex \in Mutex
             /\ Unlock(x).mutex \in Mutex
             /\ Unlock(x).waking \in Nat \cup {NoWaiter}
  <2>1. x.wait_queue \in Seq(Nat)
    BY DEF Mutex
  <2>2. QED BY <1>1, <2>1 DEF Mutex, Lock, Unlock
<1>3. ASSUME NEW x \in Mutex
      PROVE  /\ WaitWithMutex(x, t).mutex \in Mutex
             /\ WaitWithMutex(x, t).waking \in Nat \cup {NoWaiter}
  <2>. HIDE DEF Mutex
  <2>1. /\ WaitWithMutex(x, t).mutex = Lock(Unlock(x).mutex, t).mutex
        /\ WaitWithMutex(x, t).waking = Unlock(x).waking
    BY DEF WaitWithMutex
  <2>2. QED BY <1>2, <2>1
<1>4. ASSUME NEW x \in [count : Int, wait_queue : Seq(Nat)]
      PROVE  /\ Up(x).sem \in [count : Int, wait_queue : Seq(Nat)]
             /\ Up(x).waking \in Nat \cup {NoWaiter}
             /\ Down(x, t).sem \in [count : Int, wait_queue : Seq(Nat)]
  <2>1. x.wait_queue \in Seq(Nat) /\ x.count + 1 \in Int /\ x.count - 1 \in Int
    OBVIOUS
  <2>2. QED BY <1>1, <2>1 DEF Up, Down
<1>5. ASSUME NEW x \in [wait_queue : Seq(Nat)]
      PROVE  /\ Signal(x).condvar \in [wait_queue : Seq(Nat)]
             /\ Signal(x).waking \in Nat \cup {NoWaiter}
  BY <1>1 DEF Signal
<1>6. QED BY <1>2, <1>3, <1>4, <1>5

\* A whole system call that changes the caller's process entity.
LEMMA EntityIInv ==
    ASSUME IInv, Running, UNCHANGED ids, NEW p \in DOMAIN mgr.procs,
           NEW q \in Process, NEW t \in Nat \cup {NoWaiter},
           NEW h \in SUBSET (Nat \X Nat \X Nat), NEW ret,
           NEW id, id \notin {"exit", "unsupported"},
           \/ Finish([mgr EXCEPT !.procs[p] = q], id, ret, h)
           \/ Finish(Wake([mgr EXCEPT !.procs[p] = q], t), id, ret, h)
    PROVE  IInv'
<1>. DEFINE n == [mgr EXCEPT !.procs[p] = q]
<1>1. /\ Good(n) /\ Below(n, ids) /\ n.current # NoThread
      /\ Good(Wake(n, t)) /\ Below(Wake(n, t), ids)
      /\ Wake(n, t).current # NoThread
  BY Caller, EntityGood DEF IInv
<1>2. ids' = ids /\ ids' \in [pid : Nat, tid : Nat]
  BY DEF IInv
<1>3. Finish(n, id, ret, h) \/ Finish(Wake(n, t), id, ret, h)
  OBVIOUS
<1>. HIDE DEF n
<1>4. CASE Finish(n, id, ret, h)
  BY <1>1, <1>2, <1>4, FinishIInv
<1>5. CASE Finish(Wake(n, t), id, ret, h)
  <2>. DEFINE w == Wake(n, t)
  <2>1. Good(w) /\ Below(w, ids') /\ w.current # NoThread /\ Finish(w, id, ret, h)
    BY <1>1, <1>2, <1>5
  <2>. HIDE DEF w
  <2>2. QED BY <1>2, <2>1, FinishIInv
<1>6. QED BY <1>3, <1>4, <1>5

\* exit, the calls without effect on the tables, and faults.
LEMMA EndIInv ==
    ASSUME IInv
    PROVE  /\ \A code \in ExitCodes : Exit(code) => IInv'
           /\ Other \/ Unsupported \/ Fault => IInv'
<1>1. holds \in SUBSET (Nat \X Nat \X Nat) /\ ids \in [pid : Nat, tid : Nat]
  BY DEF IInv
<1>2. ASSUME NEW code \in ExitCodes, Exit(code) PROVE IInv'
  <2>1. code \in Int /\ Running /\ ids' = ids /\ Finish(mgr, "exit", code, holds)
    BY <1>2, KernelConstants DEF Exit, Trap
  <2>2. Good(mgr) /\ mgr.current # NoThread /\ Below(mgr, ids')
    BY <2>1, Caller DEF IInv
  <2>3. QED BY <1>1, <2>1, <2>2, FinishIInv
<1>3. ASSUME Other PROVE IInv'
  <2>1. Running /\ ids' = ids /\ Finish(mgr, "other", 0, holds)
    BY <1>3 DEF Other, Trap
  <2>2. Good(mgr) /\ mgr.current # NoThread /\ Below(mgr, ids')
    BY <2>1, Caller DEF IInv
  <2>3. QED BY <1>1, <2>1, <2>2, FinishIInv
<1>4. ASSUME Unsupported PROVE IInv'
  <2>1. Running /\ ids' = ids /\ Finish(mgr, "unsupported", -2, holds)
    BY <1>4 DEF Unsupported, Trap
  <2>2. Good(mgr) /\ mgr.current # NoThread /\ Below(mgr, ids')
    BY <2>1, Caller DEF IInv
  <2>3. QED BY <1>1, <2>1, <2>2, FinishIInv
<1>5. ASSUME Fault PROVE IInv'
  <2>. DEFINE n == MakeCurrentExited(mgr, -3)
  <2>1. Running /\ ids' = ids /\ Settle(n, holds)
    BY <1>5 DEF Fault, Trap
  <2>2. Good(n) /\ NoNew(mgr, n)
    BY <2>1, Caller, ExitedGood
  <2>. HIDE DEF n
  <2>3. Below(n, ids')
    BY <2>1, <2>2 DEF IInv, NoNew, Below
  <2>4. QED BY <1>1, <2>1, <2>2, <2>3, SettleIInv
<1>6. QED BY <1>2, <1>3, <1>4, <1>5

\* fork, exec and thread_create draw ids; only the first and the last use them.
LEMMA CreateIInv ==
    ASSUME IInv
    PROVE  Fork \/ Exec \/ ThreadCreate => IInv'
<1>1. /\ holds \in SUBSET (Nat \X Nat \X Nat) /\ ids \in [pid : Nat, tid : Nat]
      /\ ids.pid \in Nat /\ ids.tid \in Nat /\ Below(mgr, ids)
  BY DEF IInv
<1>2. mgr.tasks \in SUBSET Nat /\ DOMAIN mgr.procs \in SUBSET Nat
  BY DEF IInv, Good, ManagerType
<1>3. ids.pid \notin DOMAIN mgr.procs /\ ids.tid \notin mgr.tasks
  BY <1>1, <1>2 DEF Below
<1>4. ASSUME Fork PROVE IInv'
  <2>. DEFINE c == AddProc(mgr, ids.pid, NewProcess, here)
              n == Add(c, ids.tid, ids.pid)
  <2>1. Running /\ Finish(n, "fork", ids.pid, holds)
        /\ ids' = [pid |-> ids.pid + 1, tid |-> ids.tid + 1]
    BY <1>4 DEF Fork, Trap
  <2>2. NewProcess \in Process
    BY DEF NewProcess, Process
  <2>3. DOMAIN mgr.rel = DOMAIN mgr.procs
    BY DEF IInv, Good, Tables
  <2>4. /\ GoodBut(c, ids.pid) /\ c.tasks = mgr.tasks
        /\ DOMAIN c.procs = DOMAIN mgr.procs \cup {ids.pid}
        /\ c.current = mgr.current
    BY <1>1, <1>3, <2>1, <2>2, <2>3, Caller, AddProcGood
  <2>. HIDE DEF c
  <2>5. ids.pid \in DOMAIN c.rel
    BY <2>4 DEF GoodBut
  <2>6. /\ Good(n) /\ n.tasks = mgr.tasks \cup {ids.tid}
        /\ n.procs = c.procs /\ n.current = mgr.current
    BY <1>1, <1>3, <2>4, <2>5, AddGood
  <2>. HIDE DEF n
  <2>7. ids' \in [pid : Nat, tid : Nat] /\ Below(n, ids')
    BY <1>1, <1>2, <2>1, <2>4, <2>6 DEF Below
  <2>8. n.current # NoThread
    BY <2>1, <2>6 DEF Running
  <2>9. QED BY <1>1, <2>1, <2>6, <2>7, <2>8, FinishIInv
<1>5. ASSUME Exec PROVE IInv'
  <2>1. Running /\ Finish(mgr, "exec", 0, holds)
        /\ ids' = [pid |-> ids.pid + 1, tid |-> ids.tid + 1]
    BY <1>5 DEF Exec, Trap
  <2>2. ids' \in [pid : Nat, tid : Nat] /\ Below(mgr, ids')
    BY <1>1, <1>2, <2>1 DEF Below
  <2>3. QED BY <1>1, <2>1, <2>2, Caller, FinishIInv
<1>6. ASSUME ThreadCreate PROVE IInv'
  <2>. DEFINE n == Add(mgr, ids.tid, here)
  <2>1. Running /\ Finish(n, "thread_create", ids.tid, holds)
        /\ ids' = [ids EXCEPT !.tid = ids.tid + 1]
    BY <1>6 DEF ThreadCreate, Trap
  <2>2. here \in DOMAIN mgr.rel /\ GoodBut(mgr, here)
    BY <2>1, Caller, GoodIsGoodBut
  <2>3. /\ Good(n) /\ n.tasks = mgr.tasks \cup {ids.tid}
        /\ n.procs = mgr.procs /\ n.current = mgr.current
    BY <1>1, <1>3, <2>2, AddGood
  <2>. HIDE DEF n
  <2>4. ids' \in [pid : Nat, tid : Nat] /\ Below(n, ids')
    BY <1>1, <1>2, <2>1, <2>3 DEF Below
  <2>5. n.current # NoThread
    BY <2>1, <2>3 DEF Running
  <2>6. QED BY <1>1, <2>1, <2>3, <2>4, <2>5, FinishIInv
<1>7. QED BY <1>4, <1>5, <1>6

\* wait and waittid.
LEMMA WaitIInv ==
    ASSUME IInv, NEW c
    PROVE  WaitPid(c) \/ WaitTidCall(c) => IInv'
<1>1. holds \in SUBSET (Nat \X Nat \X Nat) /\ ids \in [pid : Nat, tid : Nat]
  BY DEF IInv
<1>2. ASSUME NEW m, NEW ret, NEW id, id \notin {"exit", "unsupported"},
             Good(m), NoNew(mgr, m), m.current = mgr.current, Running,
             ids' = ids, Finish(m, id, ret, holds)
      PROVE  IInv'
  <2>1. Below(m, ids') /\ m.current # NoThread
    BY <1>2 DEF IInv, NoNew, Below, Running
  <2>2. QED BY <1>1, <1>2, <2>1, FinishIInv
<1>3. ASSUME WaitPid(c) PROVE IInv'
  <2>. DEFINE m   == Wait(mgr, c).m
              ret == IF Wait(mgr, c).ret = NoResult THEN -1 ELSE Wait(mgr, c).ret[1]
  <2>1. Running /\ ids' = ids /\ Finish(m, "wait", ret, holds)
    BY <1>3 DEF WaitPid, Trap
  <2>2. Good(m) /\ NoNew(mgr, m) /\ m.current = mgr.current
    BY <2>1, Caller, WaitGood
  <2>. HIDE DEF m, ret
  <2>3. QED BY <1>2, <2>1, <2>2
<1>4. ASSUME WaitTidCall(c) PROVE IInv'
  <2>. DEFINE w   == IF c = self THEN [m |-> mgr, ret |-> NoResult]
                                 ELSE WaitTid(mgr, c)
              m   == w.m
              ret == IF w.ret = NoResult THEN -1 ELSE w.ret[1]
  <2>1. Running /\ ids' = ids /\ Finish(m, "waittid", ret, holds)
    BY <1>4 DEF WaitTidCall, Trap
  <2>2. Good(m) /\ NoNew(mgr, m) /\ m.current = mgr.current
    <3>1. CASE c = self
      BY <2>1, <3>1, Caller DEF NoNew
    <3>2. CASE c # self
      BY <2>1, <3>2, Caller, WaitGood
    <3>3. QED BY <3>1, <3>2
  <2>. HIDE DEF m, ret
  <2>3. QED BY <1>2, <2>1, <2>2
<1>5. QED BY <1>3, <1>4

\* kill sets the pending SIGKILL of a process that exists.
LEMMA KillIInv == ASSUME IInv, NEW pid, Kill(pid) PROVE IInv'
<1>1. /\ holds \in SUBSET (Nat \X Nat \X Nat) /\ ids \in [pid : Nat, tid : Nat]
      /\ Running /\ ids' = ids
  BY DEF IInv, Kill, Trap
<1>2. CASE pid \in DOMAIN mgr.procs
  <2>. DEFINE q == [mgr.procs[pid] EXCEPT !.killed = TRUE]
  <2>1. q \in Process
    BY <1>2 DEF IInv, Good, Process
  <2>2. Finish([mgr EXCEPT !.procs[pid] = q], "kill", 0, holds)
    BY <1>2 DEF Kill
  <2>. HIDE DEF q
  <2>3. QED BY <1>1, <1>2, <2>1, <2>2, EntityIInv DEF NoWaiter
<1>3. CASE pid \notin DOMAIN mgr.procs
  <2>1. Finish(mgr, "kill", -1, holds)
    BY <1>3 DEF Kill
  <2>2. Good(mgr) /\ mgr.current # NoThread /\ Below(mgr, ids')
    BY <1>1, Caller DEF IInv
  <2>3. QED BY <1>1, <2>1, <2>2, FinishIInv
<1>4. QED BY <1>2, <1>3

\* The three lists of primitives a process entity carries.
LEMMA ListTypes ==
    ASSUME NEW p \in Process
    PROVE  /\ p.mutex_list \in Seq(Mutex \cup {NoMutex})
           /\ p.semaphore_list \in Seq([count : Int, wait_queue : Seq(Nat)])
           /\ p.condvar_list \in Seq([wait_queue : Seq(Nat)])
           /\ \A l \in Seq(Mutex \cup {NoMutex}) :
                [p EXCEPT !.mutex_list = l] \in Process
           /\ \A l \in Seq([count : Int, wait_queue : Seq(Nat)]) :
                [p EXCEPT !.semaphore_list = l] \in Process
           /\ \A l \in Seq([wait_queue : Seq(Nat)]) :
                [p EXCEPT !.condvar_list = l] \in Process
BY DEF Process

\* Replacing or appending an element of such a list.
LEMMA ListUpdate ==
    ASSUME NEW S, NEW l \in Seq(S), NEW x \in S, NEW i
    PROVE  [l EXCEPT ![i] = x] \in Seq(S) /\ Append(l, x) \in Seq(S)
<1>1. l \in [1..Len(l) -> S] /\ Len(l) \in Nat
  OBVIOUS
<1>2. [l EXCEPT ![i] = x] \in [1..Len(l) -> S]
  BY <1>1
<1>3. QED BY <1>1, <1>2, SeqDef

\* mutex_create, semaphore_create, condvar_create.
LEMMA CreateSyncIInv ==
    ASSUME IInv
    PROVE  /\ \A blocking \in BOOLEAN : MutexCreate(blocking) => IInv'
           /\ \A n \in ResCounts : SemaphoreCreate(n) => IInv'
           /\ CondvarCreate => IInv'
<1>1. holds \in SUBSET (Nat \X Nat \X Nat)
  BY DEF IInv
<1>2. ASSUME NEW blocking \in BOOLEAN, MutexCreate(blocking) PROVE IInv'
  <2>. DEFINE list == proc.mutex_list
              new  == IF blocking THEN NewMutex ELSE NoMutex
              idx  == SelectInSeq(list, LAMBDA x : x = NoMutex)
              list2 == IF idx # 0 THEN [list EXCEPT ![idx] = new]
                                  ELSE Append(list, new)
              q    == [proc EXCEPT !.mutex_list = list2]
  <2>1. Running /\ ids' = ids
    BY <1>2 DEF MutexCreate, Trap
  <2>2. Finish([mgr EXCEPT !.procs[here] = q], "mutex_create", 0, holds)
    BY <1>2 DEF MutexCreate, proc
  <2>3. proc \in Process /\ here \in DOMAIN mgr.procs
    BY <2>1, Caller
  <2>4. new \in Mutex \cup {NoMutex}
    BY DEF NewMutex, Mutex
  <2>5. list \in Seq(Mutex \cup {NoMutex})
    BY <2>3, ListTypes
  <2>. HIDE DEF list, new, idx
  <2>6. list2 \in Seq(Mutex \cup {NoMutex})
    BY <2>4, <2>5, ListUpdate
  <2>. HIDE DEF list2
  <2>7. q \in Process
    BY <2>3, <2>6, ListTypes
  <2>. HIDE DEF q
  <2>8. QED BY <1>1, <2>1, <2>2, <2>3, <2>7, EntityIInv DEF NoWaiter
<1>3. ASSUME NEW n \in ResCounts, SemaphoreCreate(n) PROVE IInv'
  <2>. DEFINE list2 == Append(proc.semaphore_list, NewSemaphore(n))
              q     == [proc EXCEPT !.semaphore_list = list2]
  <2>1. Running /\ ids' = ids
    BY <1>3 DEF SemaphoreCreate, Trap
  <2>2. Finish([mgr EXCEPT !.procs[here] = q], "semaphore_create", 0, holds)
    BY <1>3 DEF SemaphoreCreate, proc
  <2>3. proc \in Process /\ here \in DOMAIN mgr.procs
    BY <2>1, Caller
  <2>4. NewSemaphore(n) \in [count : Int, wait_queue : Seq(Nat)]
    BY KernelConstants DEF NewSemaphore
  <2>5. list2 \in Seq([count : Int, wait_queue : Seq(Nat)])
    BY <2>3, <2>4, ListTypes, ListUpdate
  <2>. HIDE DEF list2
  <2>6. q \in Process
    BY <2>3, <2>5, ListTypes
  <2>. HIDE DEF q
  <2>7. QED BY <1>1, <2>1, <2>2, <2>3, <2>6, EntityIInv DEF NoWaiter
<1>4. ASSUME CondvarCreate PROVE IInv'
  <2>. DEFINE list2 == Append(proc.condvar_list, NewCondvar)
              q     == [proc EXCEPT !.condvar_list = list2]
  <2>1. Running /\ ids' = ids
    BY <1>4 DEF CondvarCreate, Trap
  <2>2. Finish([mgr EXCEPT !.procs[here] = q], "condvar_create", 0, holds)
    BY <1>4 DEF CondvarCreate, proc
  <2>3. proc \in Process /\ here \in DOMAIN mgr.procs
    BY <2>1, Caller
  <2>4. NewCondvar \in [wait_queue : Seq(Nat)]
    BY DEF NewCondvar
  <2>5. list2 \in Seq([wait_queue : Seq(Nat)])
    BY <2>3, <2>4, ListTypes, ListUpdate
  <2>. HIDE DEF list2
  <2>6. q \in Process
    BY <2>3, <2>5, ListTypes
  <2>. HIDE DEF q
  <2>7. QED BY <1>1, <2>1, <2>2, <2>3, <2>6, EntityIInv DEF NoWaiter
<1>5. QED BY <1>2, <1>3, <1>4

\* A panic leaves everything as it is.
LEMMA PanicIInv == ASSUME IInv, Panic PROVE IInv'
BY DEF Panic, IInv, Good, Below

\* mutex_lock, mutex_unlock, condvar_wait: mutex i of the caller's process.
LEMMA MutexIInv ==
    ASSUME IInv, NEW i \in Nat
    PROVE  /\ MutexLock(i) => IInv'
           /\ MutexUnlock(i) => IInv'
           /\ \A c : CondvarWait(c, i) => IInv'
<1>. DEFINE x    == proc.mutex_list[i]
            q(y) == [proc EXCEPT !.mutex_list = [proc.mutex_list EXCEPT ![i] = y]]
<1>1. ASSUME Running, HasMutex(i), NEW y \in Mutex
      PROVE  /\ here \in DOMAIN mgr.procs /\ self \in Nat
             /\ x \in Mutex /\ q(y) \in Process
  <2>1. here \in DOMAIN mgr.procs /\ self \in Nat /\ proc \in Process
    BY <1>1, Caller
  <2>2. proc.mutex_list \in Seq(Mutex \cup {NoMutex})
    BY <2>1, ListTypes
  <2>3. x \in Mutex
    BY <1>1, <2>2 DEF HasMutex
  <2>4. y \in Mutex \cup {NoMutex}
    BY <1>1
  <2>5. [proc.mutex_list EXCEPT ![i] = y] \in Seq(Mutex \cup {NoMutex})
    BY <2>2, <2>4, ListUpdate
  <2>6. QED BY <2>1, <2>3, <2>5, ListTypes
<1>2. NewMutex \in Mutex
  BY DEF NewMutex, Mutex
<1>3. ASSUME MutexLock(i) PROVE IInv'
  <2>. DEFINE r == Lock(x, self)
              h == IF r.ok THEN holds \cup {<<here, i, self>>} ELSE holds
  <2>1. Running /\ HasMutex(i) /\ ids' = ids
    BY <1>3 DEF MutexLock, Trap
  <2>2. Finish([mgr EXCEPT !.procs[here] = q(r.mutex)], "mutex_lock",
               IF r.ok THEN 0 ELSE -1, h)
    BY <1>3 DEF MutexLock, proc
  <2>3. here \in DOMAIN mgr.procs /\ self \in Nat /\ x \in Mutex
    BY <1>1, <1>2, <2>1
  <2>4. r.mutex \in Mutex
    BY <2>3, SyncTypes
  <2>5. h \in SUBSET (Nat \X Nat \X Nat)
    BY <2>1, HoldsTyped DEF IInv
  <2>. HIDE DEF r, h, x
  <2>6. q(r.mutex) \in Process
    BY <1>1, <2>1, <2>4
  <2>. HIDE DEF q
  <2>7. QED BY <2>1, <2>2, <2>3, <2>5, <2>6, EntityIInv DEF NoWaiter
<1>4. ASSUME MutexUnlock(i) PROVE IInv'
  <2>. DEFINE r == Unlock(x)
  <2>1. Running /\ HasMutex(i)
    BY <1>4 DEF MutexUnlock, Trap
  <2>2. \/ Panic
        \/ /\ ids' = ids
           /\ Finish(Wake([mgr EXCEPT !.procs[here] = q(r.mutex)], r.waking),
                     "mutex_unlock", 0, HandOver(i, r.waking))
    BY <1>4 DEF MutexUnlock, proc
  <2>3. here \in DOMAIN mgr.procs /\ self \in Nat /\ x \in Mutex
    BY <1>1, <1>2, <2>1
  <2>4. r.mutex \in Mutex /\ r.waking \in Nat \cup {NoWaiter}
    BY <2>3, SyncTypes
  <2>. HIDE DEF r, x
  <2>5. HandOver(i, r.waking) \in SUBSET (Nat \X Nat \X Nat)
    BY <2>1, <2>4, HoldsTyped
  <2>6. q(r.mutex) \in Process
    BY <1>1, <2>1, <2>4
  <2>. HIDE DEF q
  <2>7. QED BY <2>1, <2>2, <2>3, <2>4, <2>5, <2>6, EntityIInv, PanicIInv
<1>5. ASSUME NEW c, CondvarWait(c, i) PROVE IInv'
  <2>. DEFINE r == WaitWithMutex(x, self)
  <2>1. Running /\ HasMutex(i)
    BY <1>5 DEF CondvarWait, Trap
  <2>2. \/ Panic
        \/ /\ ids' = ids
           /\ Finish(Wake([mgr EXCEPT !.procs[here] = q(r.mutex)], r.waking),
                     "condvar_wait", IF r.ok THEN 0 ELSE -1,
                     HandOver(i, r.waking))
    BY <1>5 DEF CondvarWait, proc
  <2>3. here \in DOMAIN mgr.procs /\ self \in Nat /\ x \in Mutex
    BY <1>1, <1>2, <2>1
  <2>4. r.mutex \in Mutex /\ r.waking \in Nat \cup {NoWaiter}
    BY <2>3, SyncTypes
  <2>. HIDE DEF r, x
  <2>5. HandOver(i, r.waking) \in SUBSET (Nat \X Nat \X Nat)
    BY <2>1, <2>4, HoldsTyped
  <2>6. q(r.mutex) \in Process
    BY <1>1, <2>1, <2>4
  <2>. HIDE DEF q
  <2>7. QED BY <2>1, <2>2, <2>3, <2>4, <2>5, <2>6, EntityIInv, PanicIInv
<1>6. QED BY <1>3, <1>4, <1>5

\* semaphore_up, semaphore_down, condvar_signal.
LEMMA SemaphoreIInv ==
    ASSUME IInv, NEW i \in Nat
    PROVE  SemaphoreUp(i) \/ SemaphoreDown(i) \/ CondvarSignal(i) => IInv'
<1>. DEFINE Sem  == [count : Int, wait_queue : Seq(Nat)]
            Cond == [wait_queue : Seq(Nat)]
            q(y) == [proc EXCEPT !.semaphore_list =
                                   [proc.semaphore_list EXCEPT ![i] = y]]
            z(y) == [proc EXCEPT !.condvar_list =
                                   [proc.condvar_list EXCEPT ![i] = y]]
<1>1. holds \in SUBSET (Nat \X Nat \X Nat)
  BY DEF IInv
<1>2. ASSUME Running
      PROVE  /\ here \in DOMAIN mgr.procs /\ self \in Nat
             /\ i \in DOMAIN proc.semaphore_list => proc.semaphore_list[i] \in Sem
             /\ i \in DOMAIN proc.condvar_list => proc.condvar_list[i] \in Cond
             /\ \A y \in Sem : q(y) \in Process
             /\ \A y \in Cond : z(y) \in Process
  <2>1. here \in DOMAIN mgr.procs /\ self \in Nat /\ proc \in Process
    BY <1>2, Caller
  <2>2. proc.semaphore_list \in Seq(Sem) /\ proc.condvar_list \in Seq(Cond)
    BY <2>1, ListTypes
  <2>3. \A y \in Sem : q(y) \in Process
    <3>1. TAKE y \in Sem
    <3>2. [proc.semaphore_list EXCEPT ![i] = y] \in Seq(Sem)
      BY <2>2, <3>1, ListUpdate
    <3>3. QED BY <2>1, <3>2, ListTypes
  <2>4. \A y \in Cond : z(y) \in Process
    <3>1. TAKE y \in Cond
    <3>2. [proc.condvar_list EXCEPT ![i] = y] \in Seq(Cond)
      BY <2>2, <3>1, ListUpdate
    <3>3. QED BY <2>1, <3>2, ListTypes
  <2>. HIDE DEF Sem, Cond, q, z
  <2>5. QED BY <2>1, <2>2, <2>3, <2>4
<1>3. ASSUME SemaphoreUp(i) PROVE IInv'
  <2>. DEFINE r == Up(proc.semaphore_list[i])
  <2>1. Running /\ i \in DOMAIN proc.semaphore_list /\ ids' = ids
    BY <1>3 DEF SemaphoreUp, Trap
  <2>2. Finish(Wake([mgr EXCEPT !.procs[here] = q(r.sem)], r.waking),
               "semaphore_up", 0, holds)
    BY <1>3 DEF SemaphoreUp, proc
  <2>3. r.sem \in Sem /\ r.waking \in Nat \cup {NoWaiter}
    BY <1>2, <2>1, SyncTypes
  <2>. HIDE DEF r, q, z
  <2>4. here \in DOMAIN mgr.procs /\ q(r.sem) \in Process
    BY <1>2, <2>1, <2>3
  <2>. DEFINE e == q(r.sem)
              w == r.waking
  <2>5. /\ e \in Process /\ w \in Nat \cup {NoWaiter}
        /\ \E id \in {"semaphore_up", "condvar_signal"} :
             Finish(Wake([mgr EXCEPT !.procs[here] = e], w), id, 0, holds)
    BY <2>2, <2>3, <2>4
  <2>. HIDE DEF e, w
  <2>6. QED BY <1>1, <2>1, <2>4, <2>5, EntityIInv
<1>4. ASSUME SemaphoreDown(i) PROVE IInv'
  <2>. DEFINE r == Down(proc.semaphore_list[i], self)
  <2>1. Running /\ i \in DOMAIN proc.semaphore_list /\ ids' = ids
    BY <1>4 DEF SemaphoreDown, Trap
  <2>2. Finish([mgr EXCEPT !.procs[here] = q(r.sem)],
               "semaphore_down", IF r.ok THEN 0 ELSE -1, holds)
    BY <1>4 DEF SemaphoreDown, proc
  <2>3. r.sem \in Sem
    BY <1>2, <2>1, SyncTypes
  <2>. HIDE DEF r, q, z
  <2>4. here \in DOMAIN mgr.procs /\ q(r.sem) \in Process
    BY <1>2, <2>1, <2>3
  <2>5. QED BY <1>1, <2>1, <2>2, <2>4, EntityIInv DEF NoWaiter
<1>5. ASSUME CondvarSignal(i) PROVE IInv'
  <2>. DEFINE r == Signal(proc.condvar_list[i])
  <2>1. Running /\ i \in DOMAIN proc.condvar_list /\ ids' = ids
    BY <1>5 DEF CondvarSignal, Trap
  <2>2. Finish(Wake([mgr EXCEPT !.procs[here] = z(r.condvar)], r.waking),
               "condvar_signal", 0, holds)
    BY <1>5 DEF CondvarSignal, proc
  <2>3. r.condvar \in Cond /\ r.waking \in Nat \cup {NoWaiter}
    BY <1>2, <2>1, SyncTypes
  <2>. HIDE DEF r, q, z
  <2>4. here \in DOMAIN mgr.procs /\ z(r.condvar) \in Process
    BY <1>2, <2>1, <2>3
  <2>. DEFINE e == z(r.condvar)
              w == r.waking
  <2>5. /\ e \in Process /\ w \in Nat \cup {NoWaiter}
        /\ \E id \in {"semaphore_up", "condvar_signal"} :
             Finish(Wake([mgr EXCEPT !.procs[here] = e], w), id, 0, holds)
    BY <2>2, <2>3, <2>4
  <2>. HIDE DEF e, w
  <2>6. QED BY <1>1, <2>1, <2>4, <2>5, EntityIInv
<1>6. QED BY <1>3, <1>4, <1>5

\* Every step of the kernel keeps the inductive invariant.
LEMMA NextIInv == IInv /\ [Next]_vars => IInv'
<1>. SUFFICES ASSUME IInv, [Next]_vars PROVE IInv'
  OBVIOUS
<1>1. ASSUME Dispatch PROVE IInv'
  <2>. DEFINE n == FindNext(mgr)
  <2>1. mgr' = n /\ ids' = ids /\ holds' = holds /\ status' \in {"no task", "run"}
    BY <1>1 DEF Dispatch
  <2>2. Good(n) /\ NoNew(mgr, n)
    BY FindNextGood DEF IInv
  <2>. HIDE DEF n
  <2>3. Below(n, ids)
    BY <2>2 DEF IInv, NoNew, Below
  <2>4. QED BY <2>1, <2>2, <2>3 DEF IInv, Good, Below
<1>2. ASSUME NEW code \in ExitCodes, Exit(code) PROVE IInv'
  BY <1>2, EndIInv
<1>3. ASSUME Fork \/ Exec \/ ThreadCreate PROVE IInv'
  BY <1>3, CreateIInv
<1>4. ASSUME NEW c, WaitPid(c) \/ WaitTidCall(c) PROVE IInv'
  BY <1>4, WaitIInv
<1>5. ASSUME NEW pid, Kill(pid) PROVE IInv'
  BY <1>5, KillIInv
<1>6. ASSUME Other \/ Unsupported \/ Fault PROVE IInv'
  BY <1>6, EndIInv
<1>7. ASSUME \/ \E blocking \in BOOLEAN : MutexCreate(blocking)
             \/ \E n \in ResCounts : SemaphoreCreate(n)
             \/ CondvarCreate
      PROVE  IInv'
  BY <1>7, CreateSyncIInv
<1>8. ASSUME NEW i \in 1..MaxSync,
             \/ MutexLock(i) \/ MutexUnlock(i) \/ \E c : CondvarWait(c, i)
             \/ SemaphoreUp(i) \/ SemaphoreDown(i) \/ CondvarSignal(i)
      PROVE  IInv'
  <2>1. i \in Nat
    OBVIOUS
  <2>2. QED BY <1>8, <2>1, MutexIInv, SemaphoreIInv
<1>9. ASSUME NEW i \in 1..MaxSync, MissingPrimitive(i) PROVE IInv'
  BY <1>9, PanicIInv DEF MissingPrimitive
<1>10. ASSUME PoweredOff \/ UNCHANGED vars PROVE IInv'
  BY <1>10 DEF PoweredOff, vars, IInv, Good, Below
<1>11. QED
  BY <1>1, <1>2, <1>3, <1>4, <1>5, <1>6, <1>7, <1>8, <1>9, <1>10 DEF Next

\* The inductive invariant holds always.
THEOREM Invariance == Spec => []IInv
BY InitIInv, NextIInv, PTL DEF Spec

\* The tables, the counters and the primitives keep their types: every index,
\* id and list that a handler of ch8/src/main.rs uses is one.
THEOREM TypeCorrect == Spec => []TypeOK
<1>1. IInv => TypeOK
  BY DEF IInv, Good, TypeOK
<1>2. QED BY <1>1, Invariance, PTL

\* Whatever the user threads call, and in whatever order, the tables that
\* PThreadManager updates one after the other agree after every trap.
THEOREM TablesCorrect == Spec => []TablesAgree
<1>1. IInv => TablesAgree
  BY DEF IInv, Good, TablesAgree
<1>2. QED BY <1>1, Invariance, PTL
=============================================================================
