--------------------------- MODULE ProcThreadRel ---------------------------
(***************************************************************************)
(* The family record that the thread-aware task manager keeps for every    *)
(* process (task-manage/src/proc_thread_rel.rs): its parent, its live and  *)
(* its exited children, its live and its exited threads.                   *)
(*                                                                         *)
(* Each method of the Rust type is a pure operator on the record `r`; a    *)
(* method that also returns a value yields [rel, ret].  children and       *)
(* dead_threads are only ever searched by id, so they are sets;            *)
(* dead_children is popped from one end and threads[0] has a meaning (the  *)
(* main thread), so those two keep their order.                            *)
(***************************************************************************)
EXTENDS Integers, Sequences, SequencesExt

\* The id returned for "a child exists but none has exited": usize of -2.
StillRunning == -2

\* The None of the Option results.
NoResult == <<>>

New(parent_pid) ==
    [parent        |-> parent_pid,
     children      |-> {},
     dead_children |-> <<>>,
     threads       |-> <<>>,
     dead_threads  |-> {}]

AddChild(r, child_pid) == [r EXCEPT !.children = @ \cup {child_pid}]

\* Mutant of DelChild: the exit status is not recorded.
DelChildForgets(r, child_pid, exit_code) ==
    [r EXCEPT !.children = @ \ {child_pid}]

DelChild(r, child_pid, exit_code) ==
    IF child_pid \in r.children
    THEN [r EXCEPT !.children = @ \ {child_pid},
                   !.dead_children = Append(@, <<child_pid, exit_code>>)]
    ELSE r

\* `dead_children.pop()`: the child that exited last is returned first.
WaitAnyChild(r) ==
    IF r.dead_children # <<>>
    THEN [rel |-> [r EXCEPT !.dead_children = Front(@)],
          ret |-> Last(r.dead_children)]
    ELSE [rel |-> r,
          ret |-> IF r.children = {} THEN NoResult ELSE <<StillRunning, -1>>]

WaitChild(r, child_pid) ==
    LET idx == SelectInSeq(r.dead_children, LAMBDA d : d[1] = child_pid)
    IN  IF idx # 0
        THEN [rel |-> [r EXCEPT !.dead_children = RemoveAt(@, idx)],
              ret |-> r.dead_children[idx]]
        ELSE [rel |-> r,
              ret |-> IF child_pid \in r.children
                      THEN <<StillRunning, -1>> ELSE NoResult]

AddThread(r, tid) == [r EXCEPT !.threads = Append(@, tid)]

DelThread(r, tid, exit_code) ==
    IF tid \in ToSet(r.threads)
    THEN [r EXCEPT !.threads = RemoveFirst(@, tid),
                   !.dead_threads = @ \cup {<<tid, exit_code>>}]
    ELSE r

\* The result is a 1-tuple <<value>>, or NoResult.
WaitThread(r, thread_tid) ==
    LET found == {d \in r.dead_threads : d[1] = thread_tid}
        dead  == CHOOSE d \in found : TRUE
    IN  IF found # {}
        THEN [rel |-> [r EXCEPT !.dead_threads = @ \ {dead}],
              ret |-> <<dead[2]>>]
        ELSE [rel |-> r,
              ret |-> IF thread_tid \in ToSet(r.threads)
                      THEN <<StillRunning>> ELSE NoResult]
=============================================================================
