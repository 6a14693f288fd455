--------------------------- MODULE ManagerProofs ---------------------------
(***************************************************************************)
(* Each method of PThreadManager keeps its tables typed and in agreement   *)
(* (`Good`), and so does their composition at the end of a system call     *)
(* (Return).  MakeCurrentExited, Fork and Add leave the tables for a       *)
(* moment with a process that has no thread; GoodBut describes that.       *)
(***************************************************************************)
EXTENDS Ch8Kernel, SeqFacts

\* What the manager satisfies between two methods of a trap handler.
Good(m) ==
    /\ ManagerType(m)
    /\ m.procs \in [DOMAIN m.procs -> Process]
    /\ Tables(m)
    /\ m.current # NoThread => m.current \in m.tasks

\* m2 has no threads or processes that m has not.
NoNew(m, m2) ==
    m2.tasks \subseteq m.tasks /\ DOMAIN m2.procs \subseteq DOMAIN m.procs

\* n is m but for the ready queue and the running thread.
OnlyQueue(m, n) ==
    /\ DOMAIN n = DOMAIN m
    /\ n.tasks = m.tasks /\ n.procs = m.procs /\ n.tid2pid = m.tid2pid
    /\ n.rel = m.rel /\ n.panicked = m.panicked
    /\ n.ready \in Seq(Nat)
    /\ n.current \in {NoThread} \cup m.tasks

\* The tables do not depend on the ready queue and the running thread.
LEMMA QueueGood ==
    ASSUME NEW m, Good(m), NEW n, OnlyQueue(m, n)
    PROVE  Good(n) /\ NoNew(m, n)
<1>1. ManagerType(n)
  BY DEF Good, ManagerType, OnlyQueue
<1>2. Tables(n)
  BY DEF Good, Tables, Owns, OnlyQueue
<1>3. QED
  BY <1>1, <1>2 DEF Good, NoNew, OnlyQueue

\* make_current_suspend, make_current_blocked and re_enque change only those.
LEMMA SwitchesQueue ==
    ASSUME NEW m, Good(m), m.current # NoThread
    PROVE  /\ OnlyQueue(m, MakeCurrentSuspend(m))
           /\ OnlyQueue(m, MakeCurrentBlocked(m))
           /\ \A t \in Nat : /\ OnlyQueue(m, ReEnque(m, t))
                             /\ ReEnque(m, t).current = m.current
<1>1. m.current \in Nat /\ m.current \in m.tasks /\ m.ready \in Seq(Nat)
  BY DEF Good, ManagerType
<1>2. OnlyQueue(m, MakeCurrentSuspend(m))
  BY <1>1 DEF Good, ManagerType, OnlyQueue, MakeCurrentSuspend
<1>3. OnlyQueue(m, MakeCurrentBlocked(m))
  BY <1>1 DEF Good, ManagerType, OnlyQueue, MakeCurrentBlocked
<1>4. ASSUME NEW t \in Nat
      PROVE  OnlyQueue(m, ReEnque(m, t)) /\ ReEnque(m, t).current = m.current
  BY <1>1 DEF Good, ManagerType, OnlyQueue, ReEnque
<1>5. QED BY <1>2, <1>3, <1>4

\* find_next takes a thread from the queue.
LEMMA FindNextGood ==
    ASSUME NEW m, Good(m)
    PROVE  Good(FindNext(m)) /\ NoNew(m, FindNext(m))
<1>1. m.ready \in Seq(Nat) /\ m.current \in {NoThread} \cup m.tasks
  BY DEF Good, ManagerType
<1>2. CASE m.ready = <<>>
  BY <1>2 DEF FindNext, NoNew
<1>3. CASE m.ready # <<>> /\ Head(m.ready) \in m.tasks
  <2>1. OnlyQueue(m, [m EXCEPT !.ready = Tail(m.ready), !.current = Head(m.ready)])
    BY <1>1, <1>3 DEF Good, ManagerType, OnlyQueue
  <2>2. QED BY <1>3, <2>1, QueueGood DEF FindNext
<1>4. CASE m.ready # <<>> /\ Head(m.ready) \notin m.tasks
  <2>1. OnlyQueue(m, [m EXCEPT !.ready = Tail(m.ready)])
    BY <1>1, <1>4 DEF Good, ManagerType, OnlyQueue
  <2>2. QED BY <1>4, <2>1, QueueGood DEF FindNext
<1>5. QED BY <1>2, <1>3, <1>4

\* A system call that only changes process entities.
LEMMA ProcsGood ==
    ASSUME NEW m, Good(m), NEW P \in [DOMAIN m.procs -> Process]
    PROVE  /\ Good([m EXCEPT !.procs = P])
           /\ NoNew(m, [m EXCEPT !.procs = P])
           /\ [m EXCEPT !.procs = P].current = m.current
<1>. DEFINE n == [m EXCEPT !.procs = P]
<1>1. /\ DOMAIN n = DOMAIN m
      /\ n.tasks = m.tasks /\ n.procs = P /\ n.tid2pid = m.tid2pid
      /\ n.rel = m.rel /\ n.panicked = m.panicked /\ n.ready = m.ready
      /\ n.current = m.current
  BY DEF Good, ManagerType
<1>. HIDE DEF n
<1>2. ManagerType(n)
  BY <1>1 DEF Good, ManagerType
<1>3. Tables(n)
  BY <1>1 DEF Good, Tables, Owns
<1>4. QED
  BY <1>1, <1>2, <1>3 DEF Good, NoNew, n

\* wait and waittid: a change of the lists of exited children and threads.
LEMMA RelGood ==
    ASSUME NEW m, Good(m), NEW p \in DOMAIN m.rel,
           NEW r \in Rel, r.threads = m.rel[p].threads
    PROVE  /\ Good([m EXCEPT !.rel[p] = r])
           /\ NoNew(m, [m EXCEPT !.rel[p] = r])
           /\ [m EXCEPT !.rel[p] = r].current = m.current
<1>. DEFINE n == [m EXCEPT !.rel[p] = r]
<1>1. /\ DOMAIN n = DOMAIN m
      /\ n.tasks = m.tasks /\ n.procs = m.procs /\ n.tid2pid = m.tid2pid
      /\ n.rel = [m.rel EXCEPT ![p] = r] /\ n.panicked = m.panicked
      /\ n.ready = m.ready /\ n.current = m.current
  BY DEF Good, ManagerType
<1>2. /\ DOMAIN n.rel = DOMAIN m.rel
      /\ n.rel \in [DOMAIN m.rel -> Rel]
      /\ \A x \in DOMAIN m.rel : n.rel[x].threads = m.rel[x].threads
  BY <1>1 DEF Good, ManagerType
<1>. HIDE DEF n
<1>3. ManagerType(n)
  BY <1>1, <1>2 DEF Good, ManagerType
<1>4. Tables(n)
  BY <1>1, <1>2 DEF Good, Tables, Owns
<1>5. QED
  BY <1>1, <1>3, <1>4 DEF Good, NoNew, n

\* The same while process `new` has been entered and has no thread yet.
GoodBut(m, new) ==
    /\ ManagerType(m)
    /\ m.procs \in [DOMAIN m.procs -> Process]
    /\ DOMAIN m.tid2pid = m.tasks
    /\ DOMAIN m.rel = DOMAIN m.procs
    /\ \A t \in m.tasks : m.tid2pid[t] \in DOMAIN m.rel
    /\ \A p \in DOMAIN m.rel :
         Owns(m, p) /\ (p # new => m.rel[p].threads # <<>>)
    /\ m.current # NoThread => m.current \in m.tasks

\* add_proc: a new process, child of a live one.
LEMMA AddProcGood ==
    ASSUME NEW m, Good(m), NEW id \in Nat, id \notin DOMAIN m.rel,
           NEW p \in Process, NEW parent \in DOMAIN m.rel
    PROVE  /\ GoodBut(AddProc(m, id, p, parent), id)
           /\ AddProc(m, id, p, parent).tasks = m.tasks
           /\ DOMAIN AddProc(m, id, p, parent).procs = DOMAIN m.procs \cup {id}
           /\ AddProc(m, id, p, parent).current = m.current
<1>. DEFINE n  == AddProc(m, id, p, parent)
            wc == [m.rel EXCEPT ![parent] = AddChild(m.rel[parent], id)]
<1>1. /\ DOMAIN n = DOMAIN m
      /\ n.tasks = m.tasks /\ n.procs = MapInsert(m.procs, id, p)
      /\ n.tid2pid = m.tid2pid /\ n.rel = MapInsert(wc, id, New(parent))
      /\ n.panicked = m.panicked /\ n.ready = m.ready /\ n.current = m.current
  BY DEF Good, ManagerType, AddProc
<1>2. m.rel[parent] \in Rel /\ parent \in Nat
  BY DEF Good, ManagerType
<1>3. /\ AddChild(m.rel[parent], id) \in Rel
      /\ AddChild(m.rel[parent], id).threads = m.rel[parent].threads
  BY <1>2 DEF Rel, AddChild
<1>4. New(parent) \in Rel /\ New(parent).threads = <<>>
  BY <1>2 DEF Rel, New
<1>5. /\ wc \in [DOMAIN m.rel -> Rel]
      /\ \A x \in DOMAIN m.rel : wc[x].threads = m.rel[x].threads
  BY <1>3 DEF Good, ManagerType
<1>. HIDE DEF n, wc
<1>6. /\ DOMAIN n.rel = DOMAIN m.rel \cup {id}
      /\ n.rel \in [DOMAIN m.rel \cup {id} -> Rel]
      /\ n.rel[id].threads = <<>>
      /\ \A x \in DOMAIN m.rel : n.rel[x].threads = m.rel[x].threads
  BY <1>1, <1>4, <1>5 DEF MapInsert
<1>7. /\ DOMAIN n.procs = DOMAIN m.procs \cup {id}
      /\ n.procs \in [DOMAIN m.procs \cup {id} -> Process]
  BY <1>1 DEF Good, MapInsert
<1>8. ManagerType(n)
  BY <1>1, <1>6, <1>7 DEF Good, ManagerType
<1>9. ASSUME NEW x \in DOMAIN n.rel
      PROVE  Owns(n, x) /\ (x # id => n.rel[x].threads # <<>>)
  <2>1. CASE x = id
    <3>1. {t \in m.tasks : m.tid2pid[t] = id} = {}
      BY DEF Good, Tables
    <3>2. IsInjective(<<>>) /\ ToSet(<<>>) = {}
      BY DEF IsInjective, ToSet
    <3>3. QED
      BY <1>1, <1>6, <2>1, <3>1, <3>2 DEF Owns
  <2>2. CASE x # id
    BY <1>1, <1>6, <2>2 DEF Good, Tables, Owns
  <2>3. QED BY <2>1, <2>2
<1>10. QED
  BY <1>1, <1>6, <1>7, <1>8, <1>9 DEF Good, GoodBut, Tables, n

\* add: a new thread of a live process, the first thread or a further one.
LEMMA AddGood ==
    ASSUME NEW m, NEW pid \in DOMAIN m.rel, GoodBut(m, pid), NEW id \in Nat, id \notin m.tasks
    PROVE  /\ Good(Add(m, id, pid))
           /\ Add(m, id, pid).tasks = m.tasks \cup {id}
           /\ Add(m, id, pid).procs = m.procs
           /\ Add(m, id, pid).current = m.current
<1>. DEFINE n == Add(m, id, pid)
            r == AddThread(m.rel[pid], id)
<1>1. /\ DOMAIN n = DOMAIN m
      /\ n.tasks = m.tasks \cup {id} /\ n.procs = m.procs
      /\ n.tid2pid = MapInsert(m.tid2pid, id, pid)
      /\ n.rel = [m.rel EXCEPT ![pid] = r] /\ n.panicked = m.panicked
      /\ n.ready = Append(m.ready, id) /\ n.current = m.current
  <2>. DEFINE k == [m EXCEPT !.tasks = m.tasks \cup {id},
                             !.ready = Append(m.ready, id)]
  <2>1. /\ DOMAIN k = DOMAIN m
        /\ k.tasks = m.tasks \cup {id} /\ k.procs = m.procs
        /\ k.tid2pid = m.tid2pid /\ k.rel = m.rel /\ k.panicked = m.panicked
        /\ k.ready = Append(m.ready, id) /\ k.current = m.current
    BY DEF GoodBut, ManagerType
  <2>2. n = [k EXCEPT !.rel[pid] = AddThread(k.rel[pid], id),
                      !.tid2pid  = MapInsert(k.tid2pid, id, pid)]
    BY DEF Add
  <2>. HIDE DEF n, k
  <2>3. QED
    BY <2>1, <2>2 DEF GoodBut, ManagerType
<1>2. /\ r \in Rel
      /\ r.threads = Append(m.rel[pid].threads, id)
  <2>1. m.rel[pid] \in Rel
    BY DEF GoodBut, ManagerType
  <2>2. Append(m.rel[pid].threads, id) \in Seq(Nat)
    BY <2>1 DEF Rel
  <2>3. QED
    BY <2>1, <2>2 DEF Rel, AddThread
<1>. HIDE DEF n, r
<1>3. /\ DOMAIN n.rel = DOMAIN m.rel
      /\ n.rel \in [DOMAIN m.rel -> Rel]
      /\ n.rel[pid] = r
      /\ \A x \in DOMAIN m.rel : x # pid => n.rel[x] = m.rel[x]
  BY <1>1, <1>2 DEF GoodBut, ManagerType
<1>4. /\ DOMAIN n.tid2pid = m.tasks \cup {id}
      /\ n.tid2pid[id] = pid
      /\ \A t \in m.tasks : n.tid2pid[t] = m.tid2pid[t]
      /\ n.tid2pid \in [m.tasks \cup {id} -> Nat]
  BY <1>1 DEF GoodBut, ManagerType, MapInsert
<1>5. ManagerType(n)
  <2>1. n.ready \in Seq(Nat)
    BY <1>1 DEF GoodBut, ManagerType
  <2>2. QED
    BY <1>1, <1>3, <1>4, <2>1 DEF GoodBut, ManagerType
<1>6. Tables(n)
  <2>1. ASSUME NEW x \in DOMAIN m.rel
        PROVE  Owns(n, x) /\ n.rel[x].threads # <<>>
    <3>1. CASE x = pid
      <4>1. /\ m.rel[pid].threads \in Seq(Nat)
            /\ IsInjective(m.rel[pid].threads)
            /\ ToSet(m.rel[pid].threads) =
                 {t \in m.tasks : m.tid2pid[t] = pid}
        BY DEF GoodBut, ManagerType, Owns, Rel
      <4>2. /\ ToSet(r.threads) = ToSet(m.rel[pid].threads) \cup {id}
            /\ IsInjective(r.threads)
            /\ r.threads # <<>>
        BY <1>2, <4>1, AppendSet
      <4>3. {t \in m.tasks \cup {id} : n.tid2pid[t] = pid} =
              {t \in m.tasks : m.tid2pid[t] = pid} \cup {id}
        BY <1>4
      <4>4. QED
        BY <1>1, <1>3, <3>1, <4>1, <4>2, <4>3 DEF Owns
    <3>2. CASE x # pid
      <4>1. {t \in m.tasks \cup {id} : n.tid2pid[t] = x} =
              {t \in m.tasks : m.tid2pid[t] = x}
        BY <1>4, <3>2
      <4>2. QED
        BY <1>1, <1>3, <3>2, <4>1 DEF GoodBut, Owns
    <3>3. QED BY <3>1, <3>2
  <2>2. QED
    BY <1>1, <1>3, <1>4, <2>1 DEF GoodBut, Tables
<1>7. QED
  BY <1>1, <1>5, <1>6 DEF Good, GoodBut, n

\* Between methods nothing is missing.
LEMMA GoodIsGoodBut == ASSUME NEW m, Good(m), NEW p PROVE GoodBut(m, p)
BY DEF Good, GoodBut, Tables

\* del_proc: a process without threads goes, its children are moved.
LEMMA DelProcGood ==
    ASSUME NEW m, NEW pid \in DOMAIN m.rel, GoodBut(m, pid),
           m.rel[pid].threads = <<>>, NEW code \in Int
    PROVE  /\ Good(DelProc(m, pid, code))
           /\ NoNew(m, DelProc(m, pid, code))
<1>. DEFINE gone    == m.rel[pid]
            removed == MapRemove(m.rel, pid)
            told    == IF gone.parent \in DOMAIN removed
                       THEN [removed EXCEPT ![gone.parent] =
                                          DelChild(removed[gone.parent], pid, code)]
                       ELSE removed
            rest(p) == [told[p] EXCEPT
                         !.parent   = IF p \in gone.children
                                      THEN InitProc ELSE told[p].parent,
                         !.children = IF p = InitProc
                                      THEN told[p].children \cup gone.children
                                      ELSE told[p].children]
            adopted == [p \in DOMAIN told |-> rest(p)]
            n       == DelProc(m, pid, code)
            D       == DOMAIN m.rel \ {pid}
<1>1. /\ DOMAIN n = DOMAIN m
      /\ n.tasks = m.tasks /\ n.procs = MapRemove(m.procs, pid)
      /\ n.tid2pid = m.tid2pid /\ n.rel = adopted
      /\ n.panicked \in BOOLEAN /\ n.ready = m.ready /\ n.current = m.current
  BY DEF GoodBut, ManagerType, DelProc
<1>2. gone \in Rel /\ pid \in Nat
  BY DEF GoodBut, ManagerType
<1>3. /\ removed \in [D -> Rel]
      /\ \A x \in D : removed[x].threads = m.rel[x].threads
  BY DEF GoodBut, ManagerType, MapRemove
<1>. HIDE DEF n, removed, gone
<1>4. /\ told \in [D -> Rel]
      /\ \A x \in D : told[x].threads = m.rel[x].threads
  <2>1. CASE gone.parent \in DOMAIN removed
    <3>. DEFINE r == removed[gone.parent]
    <3>1. r \in Rel /\ gone.parent \in D
      BY <1>3, <2>1
    <3>2. Append(r.dead_children, <<pid, code>>) \in Seq(Nat \X Int)
      BY <1>2, <3>1 DEF Rel
    <3>3. DelChild(r, pid, code) \in Rel /\ DelChild(r, pid, code).threads = r.threads
      BY <3>1, <3>2 DEF Rel, DelChild
    <3>4. told = [removed EXCEPT ![gone.parent] = DelChild(r, pid, code)]
      BY <2>1
    <3>. HIDE DEF told, r
    <3>5. QED
      BY <1>3, <3>1, <3>3, <3>4 DEF r
  <2>2. CASE gone.parent \notin DOMAIN removed
    BY <1>3, <2>2
  <2>3. QED BY <2>1, <2>2
<1>. HIDE DEF told
<1>5. ASSUME NEW x \in D
      PROVE  rest(x) \in Rel /\ rest(x).threads = m.rel[x].threads
  <2>1. told[x] \in Rel /\ gone.children \in SUBSET Nat
    BY <1>2, <1>4 DEF Rel
  <2>2. QED
    BY <1>4, <2>1 DEF Rel, InitProc
<1>6. /\ DOMAIN n.rel = D
      /\ n.rel \in [D -> Rel]
      /\ \A x \in D : n.rel[x].threads = m.rel[x].threads
  <2>. HIDE DEF rest
  <2>1. QED BY <1>1, <1>4, <1>5
<1>. HIDE DEF adopted
<1>7. /\ DOMAIN n.procs = D
      /\ n.procs \in [D -> Process]
  BY <1>1 DEF GoodBut, MapRemove
<1>8. ManagerType(n)
  BY <1>1, <1>6, <1>7 DEF GoodBut, ManagerType
<1>9. {t \in m.tasks : m.tid2pid[t] = pid} = {}
  BY DEF GoodBut, Owns, ToSet
<1>10. Tables(n)
  BY <1>1, <1>6, <1>7, <1>9 DEF GoodBut, Tables, Owns
<1>11. QED
  BY <1>1, <1>7, <1>8, <1>10 DEF Good, GoodBut, NoNew, n

\* make_current_exited: the running thread goes, and with the last thread the
\* process.
LEMMA ExitedGood ==
    ASSUME NEW m, Good(m), m.current # NoThread, NEW code \in Int
    PROVE  /\ Good(MakeCurrentExited(m, code))
           /\ NoNew(m, MakeCurrentExited(m, code))
<1>. DEFINE id   == m.current
            pid  == m.tid2pid[id]
            r    == DelThread(m.rel[pid], id, code)
            left == [m EXCEPT !.tasks   = m.tasks \ {id},
                              !.tid2pid = MapRemove(m.tid2pid, id),
                              !.rel[pid] = r,
                              !.current = NoThread]
<1>1. /\ id \in m.tasks /\ pid \in DOMAIN m.rel /\ id \in Nat
      /\ m.rel[pid] \in Rel
  BY DEF Good, ManagerType, Tables
<1>2. /\ m.rel[pid].threads \in Seq(Nat)
      /\ IsInjective(m.rel[pid].threads)
      /\ ToSet(m.rel[pid].threads) = {t \in m.tasks : m.tid2pid[t] = pid}
      /\ id \in ToSet(m.rel[pid].threads)
  BY <1>1 DEF Good, Tables, Owns, Rel
<1>3. /\ r \in Rel
      /\ IsInjective(r.threads)
      /\ ToSet(r.threads) = {t \in m.tasks : m.tid2pid[t] = pid} \ {id}
  <2>1. r = [m.rel[pid] EXCEPT
               !.threads = RemoveFirst(m.rel[pid].threads, id),
               !.dead_threads = m.rel[pid].dead_threads \cup {<<id, code>>}]
    BY <1>2 DEF DelThread
  <2>2. /\ RemoveFirst(m.rel[pid].threads, id) \in Seq(Nat)
        /\ ToSet(RemoveFirst(m.rel[pid].threads, id)) =
             ToSet(m.rel[pid].threads) \ {id}
        /\ IsInjective(RemoveFirst(m.rel[pid].threads, id))
    BY <1>2, RemoveFirstSet
  <2>3. <<id, code>> \in Nat \X Int
    BY <1>1
  <2>. HIDE DEF id, pid, r
  <2>4. QED
    BY <1>1, <1>2, <2>1, <2>2, <2>3 DEF Rel
<1>4. /\ DOMAIN left = DOMAIN m
      /\ left.tasks = m.tasks \ {id} /\ left.procs = m.procs
      /\ left.tid2pid = MapRemove(m.tid2pid, id)
      /\ left.rel = [m.rel EXCEPT ![pid] = r]
      /\ left.panicked = m.panicked /\ left.ready = m.ready
      /\ left.current = NoThread
  <2>. HIDE DEF id, pid, r
  <2>1. QED BY DEF Good, ManagerType
<1>5. MakeCurrentExited(m, code) =
        IF left.rel[pid].threads = <<>> THEN DelProc(left, pid, code) ELSE left
  BY DEF MakeCurrentExited
<1>. HIDE DEF left, r
<1>6. /\ left.rel \in [DOMAIN m.rel -> Rel]
      /\ left.rel[pid] = r
      /\ \A x \in DOMAIN m.rel : x # pid => left.rel[x] = m.rel[x]
  BY <1>1, <1>3, <1>4 DEF Good, ManagerType
<1>7. /\ DOMAIN left.tid2pid = m.tasks \ {id}
      /\ left.tid2pid \in [m.tasks \ {id} -> Nat]
      /\ \A t \in m.tasks \ {id} : left.tid2pid[t] = m.tid2pid[t]
  BY <1>4 DEF Good, ManagerType, Tables, MapRemove
<1>8. ManagerType(left)
  BY <1>4, <1>6, <1>7 DEF Good, ManagerType
<1>9. ASSUME NEW x \in DOMAIN m.rel
      PROVE  Owns(left, x) /\ (x # pid => left.rel[x].threads # <<>>)
  <2>1. CASE x = pid
    <3>1. {t \in m.tasks \ {id} : left.tid2pid[t] = pid} =
            {t \in m.tasks : m.tid2pid[t] = pid} \ {id}
      BY <1>7
    <3>2. QED
      BY <1>3, <1>4, <1>6, <2>1, <3>1 DEF Owns
  <2>2. CASE x # pid
    <3>1. {t \in m.tasks \ {id} : left.tid2pid[t] = x} =
            {t \in m.tasks : m.tid2pid[t] = x}
      BY <1>7, <2>2
    <3>2. QED
      BY <1>4, <1>6, <2>2, <3>1 DEF Good, Tables, Owns
  <2>3. QED BY <2>1, <2>2
<1>10. GoodBut(left, pid)
  BY <1>4, <1>6, <1>7, <1>8, <1>9 DEF Good, GoodBut, Tables
<1>11. NoNew(m, left)
  BY <1>4 DEF NoNew
<1>12. CASE left.rel[pid].threads = <<>>
  <2>1. Good(DelProc(left, pid, code)) /\ NoNew(left, DelProc(left, pid, code))
    BY <1>1, <1>6, <1>10, <1>12, DelProcGood
  <2>2. QED
    BY <1>5, <1>11, <1>12, <2>1 DEF NoNew
<1>13. CASE left.rel[pid].threads # <<>>
  <2>1. Good(left)
    BY <1>6, <1>10, <1>13 DEF Good, GoodBut, Tables
  <2>2. QED
    BY <1>5, <1>11, <1>13, <2>1
<1>14. QED BY <1>12, <1>13

\* The tail of a system call keeps the tables, whichever way it goes.
LEMMA ReturnGood ==
    ASSUME NEW m, Good(m), m.current # NoThread, NEW id, NEW ret,
           id \in {"exit", "unsupported"} => ret \in Int
    PROVE  /\ Good(Return(m, id, ret))
           /\ NoNew(m, Return(m, id, ret))
<1>. DEFINE p == CurrentProc(m)
            k == [m EXCEPT !.procs[p].killed = FALSE]
<1>1. p \in DOMAIN m.procs /\ m.current \in m.tasks /\ m.current \in Nat
  BY DEF Good, ManagerType, Tables, CurrentProc
<1>2. Good(k) /\ NoNew(m, k) /\ k.current = m.current
  <2>. DEFINE P == [m.procs EXCEPT ![p] = [m.procs[p] EXCEPT !.killed = FALSE]]
  <2>1. P \in [DOMAIN m.procs -> Process]
    BY <1>1 DEF Good, Process
  <2>2. k = [m EXCEPT !.procs = P]
    OBVIOUS
  <2>. HIDE DEF P, k
  <2>3. QED BY <2>1, <2>2, ProcsGood
<1>3. Good(MakeCurrentExited(k, KilledCode)) /\ NoNew(m, MakeCurrentExited(k, KilledCode))
  <2>. HIDE DEF k
  <2>1. KilledCode \in Int
    BY DEF KilledCode
  <2>2. QED
    BY <1>2, <2>1, ExitedGood DEF NoNew
<1>4. ret \in Int => /\ Good(MakeCurrentExited(m, ret))
                     /\ NoNew(m, MakeCurrentExited(m, ret))
  BY ExitedGood
<1>5. Good(MakeCurrentBlocked(m)) /\ NoNew(m, MakeCurrentBlocked(m))
  BY SwitchesQueue, QueueGood
<1>6. Good(MakeCurrentSuspend(m)) /\ NoNew(m, MakeCurrentSuspend(m))
  BY SwitchesQueue, QueueGood
<1>. HIDE DEF p, k
<1>7. \/ Return(m, id, ret) = MakeCurrentExited(k, KilledCode)
      \/ ret \in Int /\ Return(m, id, ret) = MakeCurrentExited(m, ret)
      \/ Return(m, id, ret) = MakeCurrentBlocked(m)
      \/ Return(m, id, ret) = MakeCurrentSuspend(m)
  BY DEF Return, p, k
<1>8. QED BY <1>3, <1>4, <1>5, <1>6, <1>7

\* What wait and waittid take is an exit status; the threads stay.
LEMMA WaitRel ==
    ASSUME NEW r \in Rel, NEW c
    PROVE  /\ WaitAnyChild(r).rel \in Rel
           /\ WaitAnyChild(r).rel.threads = r.threads
           /\ WaitChild(r, c).rel \in Rel
           /\ WaitChild(r, c).rel.threads = r.threads
           /\ WaitThread(r, c).rel \in Rel
           /\ WaitThread(r, c).rel.threads = r.threads
<1>1. /\ r.dead_children \in Seq(Nat \X Int)
      /\ r.dead_threads \in SUBSET (Nat \X Int)
  BY DEF Rel
<1>2. ASSUME NEW d \in Seq(Nat \X Int)
      PROVE  /\ [r EXCEPT !.dead_children = d] \in Rel
             /\ [r EXCEPT !.dead_children = d].threads = r.threads
  BY DEF Rel
<1>3. ASSUME NEW d \in SUBSET (Nat \X Int)
      PROVE  /\ [r EXCEPT !.dead_threads = d] \in Rel
             /\ [r EXCEPT !.dead_threads = d].threads = r.threads
  BY DEF Rel
<1>4. WaitAnyChild(r).rel \in Rel /\ WaitAnyChild(r).rel.threads = r.threads
  <2>1. CASE r.dead_children = <<>>
    BY <2>1 DEF WaitAnyChild
  <2>2. CASE r.dead_children # <<>>
    <3>1. Front(r.dead_children) \in Seq(Nat \X Int)
      BY <1>1, <2>2, FrontSeq
    <3>2. WaitAnyChild(r).rel = [r EXCEPT !.dead_children = Front(r.dead_children)]
      BY <2>2 DEF WaitAnyChild
    <3>3. QED BY <1>2, <3>1, <3>2
  <2>3. QED BY <2>1, <2>2
<1>5. WaitChild(r, c).rel \in Rel /\ WaitChild(r, c).rel.threads = r.threads
  <2>. DEFINE I   == {i \in 1..Len(r.dead_children) : r.dead_children[i][1] = c}
              idx == SelectInSeq(r.dead_children, LAMBDA d : d[1] = c)
  <2>1. idx = IF I # {} THEN Min(I) ELSE 0
    BY DEF SelectInSeq
  <2>2. WaitChild(r, c).rel =
          IF idx # 0
          THEN [r EXCEPT !.dead_children = RemoveAt(r.dead_children, idx)]
          ELSE r
    BY DEF WaitChild
  <2>3. I \in SUBSET Nat /\ I \subseteq 1..Len(r.dead_children)
    OBVIOUS
  <2>. HIDE DEF I, idx
  <2>4. idx # 0 => idx \in 1..Len(r.dead_children)
    BY <2>1, <2>3, MinIndex
  <2>5. idx # 0 => RemoveAt(r.dead_children, idx) \in Seq(Nat \X Int)
    BY <1>1, <2>4, RemoveAtProperties
  <2>6. QED BY <1>2, <2>2, <2>5
<1>6. WaitThread(r, c).rel \in Rel /\ WaitThread(r, c).rel.threads = r.threads
  <2>. DEFINE dead == CHOOSE d \in {d \in r.dead_threads : d[1] = c} : TRUE
  <2>1. \/ WaitThread(r, c).rel = r
        \/ WaitThread(r, c).rel =
             [r EXCEPT !.dead_threads = r.dead_threads \ {dead}]
    BY DEF WaitThread
  <2>. HIDE DEF dead
  <2>2. r.dead_threads \ {dead} \in SUBSET (Nat \X Int)
    BY <1>1
  <2>3. QED BY <1>3, <2>1, <2>2
<1>7. QED BY <1>4, <1>5, <1>6

\* wait and waittid keep the tables and the running thread.
LEMMA WaitGood ==
    ASSUME NEW m, Good(m), m.current # NoThread, NEW c
    PROVE  /\ Good(Wait(m, c).m) /\ NoNew(m, Wait(m, c).m)
           /\ Wait(m, c).m.current = m.current
           /\ Good(WaitTid(m, c).m) /\ NoNew(m, WaitTid(m, c).m)
           /\ WaitTid(m, c).m.current = m.current
<1>. DEFINE p == CurrentProc(m)
            w == IF c = NoProc THEN WaitAnyChild(m.rel[p])
                               ELSE WaitChild(m.rel[p], c)
            v == WaitThread(m.rel[p], c)
<1>1. p \in DOMAIN m.rel /\ m.rel[p] \in Rel
  BY DEF Good, ManagerType, Tables, CurrentProc
<1>2. /\ Wait(m, c).m = [m EXCEPT !.rel[p] = w.rel]
      /\ WaitTid(m, c).m = [m EXCEPT !.rel[p] = v.rel]
  BY DEF Wait, WaitTid
<1>3. /\ w.rel \in Rel /\ w.rel.threads = m.rel[p].threads
      /\ v.rel \in Rel /\ v.rel.threads = m.rel[p].threads
  BY <1>1, WaitRel
<1>. HIDE DEF p, w, v
<1>4. /\ Good(Wait(m, c).m) /\ NoNew(m, Wait(m, c).m)
      /\ Wait(m, c).m.current = m.current
  <2>. DEFINE r == w.rel
  <2>1. r \in Rel /\ r.threads = m.rel[p].threads /\ Wait(m, c).m = [m EXCEPT !.rel[p] = r]
    BY <1>2, <1>3
  <2>. HIDE DEF r
  <2>2. QED BY <1>1, <2>1, RelGood
<1>5. /\ Good(WaitTid(m, c).m) /\ NoNew(m, WaitTid(m, c).m)
      /\ WaitTid(m, c).m.current = m.current
  <2>. DEFINE r == v.rel
  <2>1. /\ r \in Rel /\ r.threads = m.rel[p].threads
        /\ WaitTid(m, c).m = [m EXCEPT !.rel[p] = r]
    BY <1>2, <1>3
  <2>. HIDE DEF r
  <2>2. QED BY <1>1, <2>1, RelGood
<1>6. QED BY <1>4, <1>5
=============================================================================
