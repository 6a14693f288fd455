--------------------------- MODULE PThreadManager ---------------------------
(***************************************************************************)
(* The two-level task manager of chapter 8: PThreadManager                 *)
(* (task-manage/src/thread_manager.rs) over the entity tables and the FIFO *)
(* ready queue of ch8/src/processor.rs.                                    *)
(*                                                                         *)
(* The manager is a record `m`:                                            *)
(*   tasks    tids that have a Thread entity                               *)
(*   procs    pid -> Process, the process entities                         *)
(*   ready    the ready queue                                              *)
(*   current  the running thread, or NoThread                              *)
(*   tid2pid  tid -> owning pid                                            *)
(*   rel      pid -> ProcThreadRel                                         *)
(*   panicked an unwrap() of the manager has met None                      *)
(* and each method is a pure operator on it.  The kernel runs a trap to    *)
(* completion before it looks at another, so a handler is a composition of *)
(* these operators inside one action.                                      *)
(***************************************************************************)
EXTENDS ProcThreadRel

NoThread == -1

\* `ProcId::from_usize(usize::MAX)`: initproc's parent, and "any child".
NoProc == -1

InitProc == 0

\* BTreeMap::new, insert and remove.
EmptyMap == [x \in {} |-> x]
MapInsert(f, k, v) ==
    [x \in DOMAIN f \cup {k} |-> IF x = k THEN v ELSE f[x]]
MapRemove(f, k) == [x \in DOMAIN f \ {k} |-> f[x]]

NewManager ==
    [tasks |-> {}, procs |-> EmptyMap, ready |-> <<>>, current |-> NoThread,
     tid2pid |-> EmptyMap, rel |-> EmptyMap, panicked |-> FALSE]

\* The result is None (no thread runs) exactly when current stays NoThread:
\* the queue is empty, or the popped id has no entity any more.
FindNext(m) ==
    IF m.ready = <<>> THEN m
    ELSE IF Head(m.ready) \in m.tasks
    THEN [m EXCEPT !.ready = Tail(@), !.current = Head(m.ready)]
    ELSE [m EXCEPT !.ready = Tail(@)]

\* Mutant of MakeCurrentSuspend: the thread goes to the head of the queue.
MakeCurrentSuspendFirst(m) ==
    [m EXCEPT !.ready = <<m.current>> \o @, !.current = NoThread]

MakeCurrentSuspend(m) ==
    [m EXCEPT !.ready = Append(@, m.current), !.current = NoThread]

MakeCurrentBlocked(m) == [m EXCEPT !.current = NoThread]

ReEnque(m, id) == [m EXCEPT !.ready = Append(@, id)]

\* Thread entity, ready queue, and the two sides of the ownership relation.
Add(m, id, pid) ==
    LET entered == [m EXCEPT !.tasks = @ \cup {id}, !.ready = Append(@, id)]
    IN  IF pid \in DOMAIN m.rel
        THEN [entered EXCEPT !.rel[pid] = AddThread(@, id),
                             !.tid2pid  = MapInsert(@, id, pid)]
        ELSE entered

AddProc(m, id, proc, parent) ==
    LET withChild == IF parent \in DOMAIN m.rel
                     THEN [m.rel EXCEPT ![parent] = AddChild(@, id)]
                     ELSE m.rel
    IN  [m EXCEPT !.procs = MapInsert(@, id, proc),
                  !.rel   = MapInsert(withChild, id, New(parent))]

\* Mutant of DelProc: the children keep a parent that is gone.
DelProcOrphans(m, id, exit_code) ==
    LET gone    == m.rel[id]
        removed == MapRemove(m.rel, id)
    IN  [m EXCEPT !.procs = MapRemove(@, id),
                  !.rel   = IF gone.parent \in DOMAIN removed
                            THEN [removed EXCEPT ![gone.parent] =
                                                   DelChild(@, id, exit_code)]
                            ELSE removed]

\* Mutant of DelProc: the exit is reported to process 0 as well.
DelProcTellsBoth(m, id, exit_code) ==
    LET gone    == m.rel[id]
        removed == MapRemove(m.rel, id)
        tell(r) == [r EXCEPT !.dead_children = Append(@, <<id, exit_code>>),
                             !.children = @ \ {id}]
    IN  [m EXCEPT !.procs = MapRemove(@, id),
                  !.rel   = [p \in DOMAIN removed |->
                               IF p \in {gone.parent, InitProc}
                               THEN tell(removed[p]) ELSE removed[p]]]

\* The exit is recorded with the parent if that still exists; the children
\* move to process 0 (both sides), and the family record of `id`, its
\* unreaped dead_children included, is dropped.  The unwrap() of process 0
\* fails when it is process 0 that exits and has children.
DelProc(m, id, exit_code) ==
    LET gone    == m.rel[id]
        removed == MapRemove(m.rel, id)
        told    == IF gone.parent \in DOMAIN removed
                   THEN [removed EXCEPT ![gone.parent] =
                                            DelChild(@, id, exit_code)]
                   ELSE removed
        adopted == [p \in DOMAIN told |->
                      [told[p] EXCEPT
                         !.parent   = IF p \in gone.children
                                      THEN InitProc ELSE @,
                         !.children = IF p = InitProc
                                      THEN @ \cup gone.children ELSE @]]
    IN  [m EXCEPT !.procs = MapRemove(@, id),
                  !.rel   = adopted,
                  !.panicked = gone.children # {} /\ InitProc \notin DOMAIN told]

\* Mutant of MakeCurrentExited: the owner entry of the thread stays.
MakeCurrentExitedKeepsOwner(m, exit_code) ==
    LET pid  == m.tid2pid[m.current]
        left == [m EXCEPT !.tasks    = @ \ {m.current},
                          !.rel[pid] = DelThread(@, m.current, exit_code),
                          !.current  = NoThread]
    IN  IF left.rel[pid].threads = <<>>
        THEN DelProc(left, pid, exit_code)
        ELSE left

\* Mutant of MakeCurrentExited: the thread is queued again before it goes.
MakeCurrentExitedSuspends(m, exit_code) ==
    LET id   == m.current
        pid  == m.tid2pid[id]
        left == [m EXCEPT !.tasks   = @ \ {id},
                          !.ready   = Append(@, id),
                          !.tid2pid = MapRemove(@, id),
                          !.rel[pid] = DelThread(@, id, exit_code),
                          !.current = NoThread]
    IN  IF left.rel[pid].threads = <<>>
        THEN DelProc(left, pid, exit_code)
        ELSE left

\* The process goes with its last thread.
MakeCurrentExited(m, exit_code) ==
    LET id   == m.current
        pid  == m.tid2pid[id]
        left == [m EXCEPT !.tasks   = @ \ {id},
                          !.tid2pid = MapRemove(@, id),
                          !.rel[pid] = DelThread(@, id, exit_code),
                          !.current = NoThread]
    IN  IF left.rel[pid].threads = <<>>
        THEN DelProc(left, pid, exit_code)
        ELSE left

CurrentProc(m) == m.tid2pid[m.current]

\* wait and waittid: the value is what the caller gets, the record what stays.
Wait(m, child_pid) ==
    LET pid == CurrentProc(m)
        w   == IF child_pid = NoProc THEN WaitAnyChild(m.rel[pid])
                                     ELSE WaitChild(m.rel[pid], child_pid)
    IN  [m |-> [m EXCEPT !.rel[pid] = w.rel], ret |-> w.ret]

WaitTid(m, thread_tid) ==
    LET pid == CurrentProc(m)
        w   == WaitThread(m.rel[pid], thread_tid)
    IN  [m |-> [m EXCEPT !.rel[pid] = w.rel], ret |-> w.ret]
-----------------------------------------------------------------------------
Rel ==
    [parent : Nat \cup {NoProc}, children : SUBSET Nat,
     dead_children : Seq(Nat \X Int), threads : Seq(Nat),
     dead_threads : SUBSET (Nat \X Int)]

\* Types of the manager's fields (the process entities are the kernel's).
ManagerType(m) ==
    /\ DOMAIN m = {"tasks", "procs", "ready", "current", "tid2pid", "rel",
                   "panicked"}
    /\ m.tasks \in SUBSET Nat
    /\ DOMAIN m.procs \in SUBSET Nat
    /\ m.ready \in Seq(Nat)
    /\ m.current \in Nat \cup {NoThread}
    /\ DOMAIN m.tid2pid \in SUBSET Nat
    /\ m.tid2pid \in [DOMAIN m.tid2pid -> Nat]
    /\ DOMAIN m.rel \in SUBSET Nat
    /\ m.rel \in [DOMAIN m.rel -> Rel]
    /\ m.panicked \in BOOLEAN

\* The threads that tid2pid gives to process p are those p lists, once each.
Owns(m, p) ==
    /\ IsInjective(m.rel[p].threads)
    /\ ToSet(m.rel[p].threads) = {t \in m.tasks : m.tid2pid[t] = p}

\* The tables agree on which threads and processes exist.
Tables(m) ==
    /\ DOMAIN m.tid2pid = m.tasks
    /\ DOMAIN m.rel = DOMAIN m.procs
    /\ \A t \in m.tasks : m.tid2pid[t] \in DOMAIN m.rel
    /\ \A p \in DOMAIN m.rel : Owns(m, p) /\ m.rel[p].threads # <<>>
=============================================================================
