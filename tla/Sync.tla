-------------------------------- MODULE Sync --------------------------------
(***************************************************************************)
(* The blocking primitives of the sync crate (sync/src): mutex.rs,         *)
(* semaphore.rs and condvar.rs.  A primitive never touches the scheduler:  *)
(* it reports through its result whether the caller must block and which   *)
(* thread must be re-enqueued, and the kernel does the rest.  Every method *)
(* runs under UPIntrFreeCell::exclusive_access, so it is one atomic        *)
(* operator here.                                                          *)
(***************************************************************************)
EXTENDS Integers, Sequences

\* The None of `Option<ThreadId>`.
NoWaiter == -1

NewMutex     == [locked |-> FALSE, wait_queue |-> <<>>]
NewSemaphore(res_count) == [count |-> res_count, wait_queue |-> <<>>]
NewCondvar   == [wait_queue |-> <<>>]

\* VecDeque::pop_front, as the value it returns.
FrontWaiter(q) == IF q = <<>> THEN NoWaiter ELSE Head(q)

\* VecDeque::pop_front, as the queue it leaves.
PopFront(q) == IF q = <<>> THEN q ELSE Tail(q)

\* Mutant of Lock: the newest waiter is the first.
LockLifo(mutex, tid) ==
    IF mutex.locked
    THEN [mutex |-> [mutex EXCEPT !.wait_queue = <<tid>> \o @], ok |-> FALSE]
    ELSE [mutex |-> [mutex EXCEPT !.locked = TRUE], ok |-> TRUE]

\* ok: the caller owns the mutex now; otherwise it has been queued.
Lock(mutex, tid) ==
    IF mutex.locked
    THEN [mutex |-> [mutex EXCEPT !.wait_queue = Append(@, tid)], ok |-> FALSE]
    ELSE [mutex |-> [mutex EXCEPT !.locked = TRUE], ok |-> TRUE]

\* `assert!(mutex_inner.locked)`
UnlockPanics(mutex) == ~mutex.locked

\* Mutant of Unlock: the flag is cleared although a waiter is woken.
UnlockClears(mutex) ==
    [mutex  |-> [mutex EXCEPT !.wait_queue = PopFront(@), !.locked = FALSE],
     waking |-> FrontWaiter(mutex.wait_queue)]

\* `locked` is left set when a waiter is popped: the lock is handed over.
Unlock(mutex) ==
    [mutex  |-> [mutex EXCEPT !.wait_queue = PopFront(@),
                              !.locked = mutex.wait_queue # <<>>],
     waking |-> FrontWaiter(mutex.wait_queue)]

\* Mutant of Up: a waiter is woken only when a resource is left over.
UpLate(sem) ==
    IF sem.count + 1 > 0
    THEN [sem    |-> [sem EXCEPT !.count = @ + 1, !.wait_queue = PopFront(@)],
          waking |-> FrontWaiter(sem.wait_queue)]
    ELSE [sem |-> [sem EXCEPT !.count = @ + 1], waking |-> NoWaiter]

Up(sem) ==
    [sem    |-> [sem EXCEPT !.count = @ + 1, !.wait_queue = PopFront(@)],
     waking |-> FrontWaiter(sem.wait_queue)]

Down(sem, tid) ==
    IF sem.count - 1 < 0
    THEN [sem |-> [sem EXCEPT !.count = @ - 1, !.wait_queue = Append(@, tid)],
          ok  |-> FALSE]
    ELSE [sem |-> [sem EXCEPT !.count = @ - 1], ok |-> TRUE]

Signal(condvar) ==
    [condvar |-> [condvar EXCEPT !.wait_queue = PopFront(@)],
     waking  |-> FrontWaiter(condvar.wait_queue)]

\* `mutex.unlock().unwrap()` fails when the mutex is free and also when no
\* thread is queued on it.
WaitWithMutexPanics(mutex) == UnlockPanics(mutex) \/ mutex.wait_queue = <<>>

\* Mutant of WaitWithMutex: the caller is told that it has the lock again.
WaitWithMutexReturns(mutex, tid) ==
    LET released == Unlock(mutex)
    IN  [mutex |-> Lock(released.mutex, tid).mutex, ok |-> TRUE,
         waking |-> released.waking]

\* The condvar's own queue is not touched.
WaitWithMutex(mutex, tid) ==
    LET released == Unlock(mutex)
        locked   == Lock(released.mutex, tid)
    IN  [mutex |-> locked.mutex, ok |-> locked.ok, waking |-> released.waking]
=============================================================================
