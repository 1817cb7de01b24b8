--------------------------- MODULE ProcessProofs ----------------------------
(***************************************************************************)
(* Proofs about Process, for any set of threads.                           *)
(***************************************************************************)
EXTENDS Process, ListProofs
-----------------------------------------------------------------------------
(* Where a thread is tells its state: it is in thread_list_ from AddThread    *)
(* until RemoveThread has erased it, and DYING once it runs Exiting.          *)
Waits == {"kill", "kill_locked"}
Creates == {"start", "add"}
Leaves == {"remove", "erase", "cleanup"}

ThreadInv ==
  \A t \in Threads :
    /\ InList(list, t) <=> pc[t] \notin {"none", "cleanup", "gone"}
    /\ tstate[t] \in {"INITIAL", "INITIALIZED"} <=> pc[t] = "none"
    /\ tstate[t] = "DEAD" <=> pc[t] = "gone"
    /\ pc[t] \in {"exiting"} \cup Leaves => tstate[t] = "DYING"
    /\ t \in signal => tstate[t] \in GoingDown
    /\ t \in handle => pc[t] # "none"

(* A thread that is created has one creator; what is to be killed exists.     *)
TodoInv ==
  /\ \A t \in Threads : tstate[t] = "INITIALIZED" =>
       \E c \in Threads : pc[c] \in Creates /\ todo[c] = <<t>>
  /\ \A t \in Threads :
       /\ pc[t] \in Creates => \E u \in Threads : /\ todo[t] = <<u>> /\ tlock[u] = t
                                                  /\ tstate[u] = "INITIALIZED"
       /\ pc[t] = "add_handle" => \E u \in Threads : todo[t] = <<u>> /\ pc[u] # "none"
       /\ pc[t] \in Waits => \A u \in Threads : InList(todo[t], u) => pc[u] # "none"
       /\ pc[t] = "kill_locked" => todo[t] # <<>>

(* Who holds the mutexes. *)
LockInv ==
  /\ \A t \in Threads :
       /\ plock = t => pc[t] \in {"sweep", "erase", "cleanup"} \cup Waits
       /\ pc[t] \in {"sweep", "erase", "cleanup"} => plock = t
       /\ llock = t <=> plock = t /\ pc[t] \in {"cleanup"} \cup Waits
       /\ pc[t] \in Leaves => tlock[t] = t
  /\ \A t, u \in Threads : tlock[u] = t => \/ pc[t] \in Creates /\ todo[t] = <<u>>
                                           \/ u = t /\ pc[t] \in Leaves

TableLockInv == hlock # None => bad_handle_exit

(* The process: a sweep that is on its way has what is left to kill on its    *)
(* list.                                                                      *)
ProcessInv ==
  /\ state = "INITIAL" => \A t \in Threads : tstate[t] = "INITIAL"
  /\ state = "DEAD" => list = <<>>
  /\ \A t \in Threads : pc[t] = "cleanup" => state = "DEAD"
  /\ \A t \in Threads : llock = t /\ pc[t] \in Waits =>
       \A u \in Threads : InList(list, u) => tstate[u] \in GoingDown \/ InList(todo[t], u)

ProcInv == TypeOK /\ ThreadInv /\ TodoInv /\ LockInv /\ TableLockInv /\ ProcessInv

Labels == {"none", "user", "start", "add", "add_handle", "exit", "crash", "sweep", "kill",
           "kill_locked", "thread_exit", "exiting", "remove", "erase", "cleanup", "gone"}

(* A list is empty when nothing is in it. *)
LEMMA NothingIn ==
  ASSUME NEW S, NEW q \in Seq(S), \A x \in S : ~InList(q, x)
  PROVE  q = <<>>
<1>1. CASE q # <<>>
  <2>1. 1 \in DOMAIN q /\ q[1] \in S
    BY <1>1
  <2> QED
    BY Zenon, <2>1 DEF InList
<1> QED
  BY Zenon, <1>1

(* The list of one element. *)
LEMMA OneIn ==
  ASSUME NEW u
  PROVE  Head(<<u>>) = u /\ <<u>> # <<>> /\ \A x : InList(<<u>>, x) <=> x = u
  BY DEF InList

(* Nothing has happened yet. *)
LEMMA ProcInit == Init => ProcInv
<1> SUFFICES ASSUME Init PROVE ProcInv
  BY Zenon
<1>1. \A x : ~InList(<<>>, x) /\ NoRepeat(<<>>)
  BY DEF InList, NoRepeat
<1>2. bad_handle_exit \in BOOLEAN
  BY Zenon DEF Init
<1>3. TypeOK
  BY <1>1, <1>2 DEF Init, TypeOK, GoingDown
<1>4. ThreadInv
  BY Zenon, <1>1 DEF Init, ThreadInv, GoingDown, Leaves
<1>5. TodoInv
  BY Zenon DEF Init, TodoInv, Creates, Waits
<1>6. LockInv
  BY Zenon, ProcessAssumption DEF Init, LockInv, Creates, Waits, Leaves
<1>7. ProcessInv
  BY Zenon DEF Init, ProcessInv, Waits
<1>8. TableLockInv
  BY Zenon DEF Init, TableLockInv
<1> QED
  BY Zenon, <1>3, <1>4, <1>5, <1>6, <1>7, <1>8 DEF ProcInv

(* What TypeOK says of the variables that most steps change. *)
LEMMA ProcTypes ==
  ASSUME TypeOK
  PROVE  /\ list \in Seq(Threads) /\ NoRepeat(list)
         /\ pc \in [Threads -> Labels] /\ todo \in [Threads -> Seq(Threads)]
         /\ tstate \in [Threads -> {"INITIAL", "INITIALIZED", "RUNNING", "DYING", "DEAD"}]
         /\ tlock \in [Threads -> Threads \cup {None}]
<1>1. {"INITIAL", "INITIALIZED", "RUNNING"} \cup GoingDown
        = {"INITIAL", "INITIALIZED", "RUNNING", "DYING", "DEAD"}
  BY Zenon DEF GoingDown
<1> QED
  BY <1>1, Zenon DEF TypeOK, Labels

(* A thread that moves between places where it holds and owes nothing. *)
Plain == {"user", "exit", "crash", "thread_exit"}

LEMMA PlainMove ==
  ASSUME ProcInv, NEW t \in Threads, NEW l \in Plain, pc[t] \in Plain, Goto(t, l),
         UNCHANGED <<state, list, plock, llock, threads, todo>>,
         TableLockInv', TypeOK'
  PROVE  ProcInv'
<1> USE DEF ProcInv
<1>1. /\ pc'[t] = l /\ \A u \in Threads : u # t => pc'[u] = pc[u]
      /\ UNCHANGED <<tstate, tlock, signal, handle>>
  BY Zenon, ProcTypes DEF Goto, threads
<1>2. ThreadInv'
  BY Zenon, <1>1 DEF ThreadInv, Plain, Leaves
<1>3. TodoInv'
  BY <1>1 DEF TodoInv, Plain, Creates, Waits
<1>4. LockInv'
  BY <1>1 DEF LockInv, Plain, Leaves, Creates, Waits
<1>5. ProcessInv'
  BY Zenon, <1>1 DEF ProcessInv, Plain, Waits
<1> QED
  BY Zenon, <1>2, <1>3, <1>4, <1>5

(* A step that changes nothing but panic, to one of the assertions that fire. *)
LEMMA PanicMove ==
  ASSUME ProcInv, UNCHANGED bad_handle_exit, UNCHANGED <<process, plocks, threads, pc, todo>>,
         panic' \in {"no", "destroy", "start", "add", "exit", "relock"}
  PROVE  ProcInv'
<1>1. /\ UNCHANGED <<state, retcode, list, plock, llock, hlock>>
      /\ UNCHANGED <<tstate, tlock, signal, handle, pc, todo>>
  BY Zenon DEF process, plocks, threads
<1>2. TypeOK'
  BY <1>1, Zenon DEF ProcInv, TypeOK
<1>3. ThreadInv' /\ TableLockInv'
  <2>1. ThreadInv'
    BY Zenon, <1>1 DEF ProcInv, ThreadInv
  <2>2. TableLockInv'
    BY <1>1, Zenon DEF ProcInv, TableLockInv
  <2> QED
    BY Zenon, <2>1, <2>2
<1>4. TodoInv'
  BY <1>1 DEF ProcInv, TodoInv
<1>5. LockInv'
  BY Zenon, <1>1 DEF ProcInv, LockInv
<1>6. ProcessInv'
  BY Zenon, <1>1 DEF ProcInv, ProcessInv
<1> QED
  BY <1>2, <1>3, <1>4, <1>5, <1>6, Zenon DEF ProcInv

LEMMA PanicSteps ==
  ASSUME ProcInv, UNCHANGED bad_handle_exit,
         NEW why \in {"no", "destroy", "start", "add", "exit", "relock"}, Panic(why)
  PROVE  ProcInv'
  BY PanicMove, Zenon DEF Panic

(* What a thread in user mode asks for without touching another one. *)
LEMMA UserMoves ==
  ASSUME ProcInv, UNCHANGED bad_handle_exit, NEW t \in Threads,
         SysThreadExit(t) \/ SysExit(t) \/ Crash(t) \/ BadHandle(t)
  PROVE  ProcInv'
<1>1. PICK l : l \in {"thread_exit", "exit", "crash"} /\ Goto(t, l)
  <2>1. Goto(t, "thread_exit") \/ Goto(t, "exit") \/ Goto(t, "crash")
    BY Zenon DEF SysThreadExit, SysExit, Crash, BadHandle
  <2> QED
    BY Zenon, <2>1
<1>2. /\ pc[t] = "user"
      /\ UNCHANGED <<state, retcode, list, plock, llock, tstate, tlock, signal, handle, todo, panic>>
  BY Zenon DEF SysThreadExit, SysExit, Crash, BadHandle, process, plocks, threads
<1>3. pc' \in [Threads -> Labels]
  BY Zenon, <1>1, ProcTypes DEF ProcInv, Goto, Labels
<1>4. hlock' \in Threads \cup {None} /\ TableLockInv'
  <2>1. CASE BadHandle(t)
    BY <2>1, Zenon DEF BadHandle, TableLockInv
  <2>2. CASE ~BadHandle(t)
    <3>1. UNCHANGED hlock
      BY <2>2, Zenon DEF SysThreadExit, SysExit, Crash, plocks
    <3>2. hlock \in Threads \cup {None}
      BY Zenon DEF ProcInv, TypeOK
    <3> QED
      BY <3>1, <3>2, Zenon DEF ProcInv, TableLockInv
  <2> QED
    BY Zenon, <2>1, <2>2
<1>5. TypeOK'
  <2>1. {plock, llock, hlock'} \subseteq Threads \cup {None}
    BY Zenon, <1>4 DEF ProcInv, TypeOK
  <2> QED
    BY <1>2, <1>3, <2>1, Zenon DEF ProcInv, TypeOK, Labels
<1>6. UNCHANGED <<state, list, plock, llock, threads, todo>>
  BY <1>2, Zenon DEF threads
<1>7. l \in Plain /\ pc[t] \in Plain
  BY Zenon, <1>1, <1>2 DEF Plain
<1> QED
  BY <1>1, <1>4, <1>5, <1>6, <1>7, PlainMove, Zenon

(* The last handle of a thread is closed: there is one thread to kill. *)
LEMMA CloseMove ==
  ASSUME ProcInv, UNCHANGED bad_handle_exit, NEW t \in Threads, NEW u \in Threads,
         CloseThreadHandle(t, u)
  PROVE  ProcInv'
<1> USE DEF ProcInv
<1>1. /\ pc[t] = "user" /\ u \in handle /\ handle' = handle \ {u}
      /\ todo' = [todo EXCEPT ![t] = <<u>>] /\ pc' = [pc EXCEPT ![t] = "kill"]
      /\ UNCHANGED <<state, retcode, list, plock, llock, hlock, tstate, tlock, signal, panic>>
  BY Zenon DEF CloseThreadHandle, Goto, process, plocks
<1>2. /\ pc' \in [Threads -> Labels] /\ pc'[t] = "kill"
      /\ \A v \in Threads : v # t => pc'[v] = pc[v]
      /\ todo' \in [Threads -> Seq(Threads)] /\ todo'[t] = <<u>>
      /\ \A v \in Threads : v # t => todo'[v] = todo[v]
  <2>1. <<u>> \in Seq(Threads)
    OBVIOUS
  <2> QED
    BY Zenon, <1>1, <2>1, ProcTypes DEF Labels
<1>3. TypeOK'
  <2>1. handle' \subseteq Threads
    BY Zenon, <1>1 DEF TypeOK
  <2> QED
    BY <1>1, <1>2, <2>1, Zenon DEF TypeOK, Labels
<1>4. ThreadInv'
  BY Zenon, <1>1, <1>2 DEF ThreadInv, Leaves
<1>5. TodoInv'
  <2>1. pc[u] # "none" /\ \A x : InList(<<u>>, x) <=> x = u
    BY Zenon, <1>1, OneIn DEF ThreadInv
  <2> QED
    BY <1>1, <1>2, <2>1 DEF TodoInv, Creates, Waits
<1>6. LockInv' /\ TableLockInv'
  <2>1. LockInv'
    BY <1>1, <1>2 DEF LockInv, Leaves, Creates, Waits
  <2>2. TableLockInv'
    BY <1>1, Zenon DEF TableLockInv
  <2> QED
    BY Zenon, <2>1, <2>2
<1>7. ProcessInv'
  <2>1. plock # t
    BY Zenon, <1>1 DEF LockInv, Waits
  <2>2. llock # t
    BY Zenon, <2>1 DEF LockInv
  <2> QED
    BY Zenon, <1>1, <1>2, <2>2 DEF ProcessInv, Waits
<1> QED
  BY Zenon, <1>3, <1>4, <1>5, <1>6, <1>7

(* The kill signal is seen. *)
LEMMA NoticeMove ==
  ASSUME ProcInv, UNCHANGED bad_handle_exit, NEW t \in Threads, NoticeKill(t)
  PROVE  ProcInv'
<1> USE DEF ProcInv
<1>1. /\ pc[t] = "user" /\ t \in signal /\ signal' = signal \ {t}
      /\ pc' = [pc EXCEPT ![t] = "exiting"]
      /\ UNCHANGED <<state, retcode, list, plock, llock, hlock, tstate, tlock, handle, todo, panic>>
  BY Zenon DEF NoticeKill, Goto, process, plocks
<1>2. /\ pc' \in [Threads -> Labels] /\ pc'[t] = "exiting"
      /\ \A v \in Threads : v # t => pc'[v] = pc[v]
  BY Zenon, <1>1, ProcTypes DEF Labels
<1>3. TypeOK'
  <2>1. signal' \subseteq Threads
    BY Zenon, <1>1 DEF TypeOK
  <2> QED
    BY <1>1, <1>2, <2>1, Zenon DEF TypeOK, Labels
<1>4. ThreadInv'
  <2>1. tstate[t] = "DYING"
    BY Zenon, <1>1 DEF ThreadInv, GoingDown
  <2> QED
    BY Zenon, <1>1, <1>2, <2>1 DEF ThreadInv, Leaves
<1>5. TodoInv'
  BY <1>1, <1>2 DEF TodoInv, Creates, Waits
<1>6. LockInv'
  BY <1>1, <1>2 DEF LockInv, Leaves, Creates, Waits
<1>7. TableLockInv'
  BY <1>1, Zenon DEF TableLockInv
<1>8. ProcessInv'
  BY Zenon, <1>1, <1>2 DEF ProcessInv, Waits
<1> QED
  BY Zenon, <1>3, <1>4, <1>5, <1>6, <1>7, <1>8

(* ProcessDispatcher::Start. *)
LEMMA StartMove ==
  ASSUME ProcInv, UNCHANGED bad_handle_exit, Start, panic = "no"
  PROVE  ProcInv'
<1> USE DEF ProcInv
<1>1. CASE Panic("start")
  BY Zenon, <1>1, PanicSteps
<1>2. CASE state = "INITIAL"
  <2>0. \A t \in Threads : tstate[t] = "INITIAL" /\ pc[t] = "none" /\ ~InList(list, t)
    BY Zenon, <1>2 DEF ProcessInv, ThreadInv
  <2>1. list = <<>>
    BY Zenon, <2>0, NothingIn, ProcTypes
  <2>2. CASE /\ CreateFails
             /\ state' = IF panic' = "no" THEN "DEAD" ELSE state
             /\ UNCHANGED <<retcode, list, plocks, threads, pc, todo>>
    <3>1. /\ UNCHANGED <<retcode, list, plock, llock, hlock, tstate, tlock, signal, handle, pc, todo>>
          /\ panic' \in {"no", "destroy"} /\ state' \in {"INITIAL", "DEAD"}
      BY Zenon, <1>2, <2>2 DEF CreateFails, plocks, threads
    <3>2. TypeOK'
      <4>1. panic' \in {"no", "destroy", "start", "add", "exit", "relock"}
        BY Zenon, <3>1
      <4>2. state' \in {"INITIAL", "RUNNING"} \cup GoingDown
        BY Zenon, <3>1 DEF GoingDown
      <4> QED
        BY <3>1, <4>1, <4>2, Zenon DEF TypeOK
    <3>3. ThreadInv'
      BY Zenon, <3>1 DEF ThreadInv
    <3>4. TodoInv'
      BY <3>1 DEF TodoInv
    <3>5. LockInv'
      BY Zenon, <3>1 DEF LockInv
    <3>6. TableLockInv'
      BY <3>1, Zenon DEF TableLockInv
    <3>7. ProcessInv'
      BY Zenon, <2>0, <2>1, <3>1 DEF ProcessInv, Waits
    <3> QED
      BY Zenon, <3>2, <3>3, <3>4, <3>5, <3>6, <3>7
  <2>3. CASE /\ state' = "RUNNING" /\ list' = Append(list, Main)
             /\ tstate' = [tstate EXCEPT ![Main] = "RUNNING"]
             /\ Goto(Main, "user")
             /\ UNCHANGED <<retcode, plocks, tlock, signal, handle, todo, panic>>
    <3>1. /\ state' = "RUNNING"
          /\ UNCHANGED <<retcode, plock, llock, hlock, tlock, signal, handle, todo, panic>>
      BY <2>3, Zenon DEF plocks
    <3>2. /\ pc' \in [Threads -> Labels] /\ pc'[Main] = "user"
          /\ \A v \in Threads : v # Main => pc'[v] = pc[v]
          /\ tstate' \in [Threads -> {"INITIAL", "INITIALIZED", "RUNNING", "DYING", "DEAD"}]
          /\ tstate'[Main] = "RUNNING"
          /\ \A v \in Threads : v # Main => tstate'[v] = tstate[v]
      BY Zenon, <2>3, ProcTypes, ProcessAssumption DEF Labels, Goto
    <3>3. /\ list' \in Seq(Threads) /\ NoRepeat(list')
          /\ \A v : InList(list', v) <=> InList(list, v) \/ v = Main
      <4>1. PICK q, r : q = list /\ r = list'
        BY Zenon
      <4>2. q \in Seq(Threads) /\ NoRepeat(q) /\ ~InList(q, Main) /\ r = Append(q, Main)
        BY Zenon, <2>0, <2>3, <4>1, ProcTypes, ProcessAssumption
      <4> QED
        BY <4>1, <4>2, AppendIn, ProcessAssumption
    <3>4. TypeOK'
      <4>1. tstate' \in [Threads -> {"INITIAL", "INITIALIZED", "RUNNING"} \cup GoingDown]
        <5>1. {"INITIAL", "INITIALIZED", "RUNNING"} \cup GoingDown
                = {"INITIAL", "INITIALIZED", "RUNNING", "DYING", "DEAD"}
          BY Zenon DEF GoingDown
        <5> QED
          BY Zenon, <3>2, <5>1
      <4>2. state' \in {"INITIAL", "RUNNING"} \cup GoingDown
        BY Zenon, <3>1
      <4> QED
        BY <3>1, <3>2, <3>3, <4>1, <4>2, Zenon DEF TypeOK, Labels
    <3>5. ThreadInv'
      BY Zenon, <2>0, <3>1, <3>2, <3>3 DEF ThreadInv, Leaves, GoingDown
    <3>6. TodoInv'
      BY Zenon, <2>0, <3>1, <3>2 DEF TodoInv, Creates, Waits
    <3>7. LockInv'
      BY Zenon, <2>0, <3>1, <3>2 DEF LockInv, Leaves, Creates, Waits
    <3>8. TableLockInv'
      BY <3>1, Zenon DEF TableLockInv
    <3>9. ProcessInv'
      BY Zenon, <2>0, <3>1, <3>2 DEF ProcessInv, Waits
    <3> QED
      BY <3>4, <3>5, <3>6, <3>7, <3>8, <3>9
  <2> QED
    BY <1>1, <1>2, <2>2, <2>3, Zenon DEF Start
<1> QED
  BY <1>1, <1>2, Zenon DEF Start

(* sys_thread_create: one of the threads there may be is initialized, locked  *)
(* by its creator.                                                            *)
LEMMA CreateMove ==
  ASSUME ProcInv, UNCHANGED bad_handle_exit, NEW t \in Threads, NEW u \in Threads,
         ThreadCreate(t, u), panic = "no"
  PROVE  ProcInv'
<1> USE DEF ProcInv
<1>1. CASE CreateFails /\ UNCHANGED <<tstate, tlock, todo, pc>>
  <2>1. /\ panic' \in {"no", "destroy", "start", "add", "exit", "relock"}
        /\ UNCHANGED <<process, plocks, threads, pc, todo>>
    BY Zenon, <1>1 DEF ThreadCreate, CreateFails, threads
  <2> QED
    BY Zenon, <2>1, PanicMove
<1>2. CASE /\ tstate' = [tstate EXCEPT ![u] = "INITIALIZED"]
           /\ tlock' = [tlock EXCEPT ![u] = t]
           /\ todo' = [todo EXCEPT ![t] = <<u>>]
           /\ Goto(t, "start")
           /\ UNCHANGED panic
  <2>1. /\ pc[t] = "user" /\ tstate[u] = "INITIAL"
        /\ UNCHANGED <<state, retcode, list, plock, llock, hlock, signal, handle, panic>>
    BY <1>2, Zenon DEF ThreadCreate, process, plocks
  <2>2. /\ pc[u] = "none" /\ u # t
        /\ tstate[t] \notin {"INITIAL", "INITIALIZED"}
    BY Zenon, <2>1 DEF ThreadInv
  <2>3. /\ pc' \in [Threads -> Labels] /\ pc'[t] = "start"
        /\ \A v \in Threads : v # t => pc'[v] = pc[v]
    BY Zenon, <1>2, ProcTypes DEF Labels, Goto
  <2>4. /\ todo' \in [Threads -> Seq(Threads)] /\ todo'[t] = <<u>>
        /\ \A v \in Threads : v # t => todo'[v] = todo[v]
    <3>1. <<u>> \in Seq(Threads)
      OBVIOUS
    <3> QED
      BY Zenon, <1>2, <3>1, ProcTypes
  <2>5. /\ tstate' \in [Threads -> {"INITIAL", "INITIALIZED", "RUNNING", "DYING", "DEAD"}]
        /\ tstate'[u] = "INITIALIZED"
        /\ \A v \in Threads : v # u => tstate'[v] = tstate[v]
    BY Zenon, <1>2, ProcTypes
  <2>6. /\ tlock' \in [Threads -> Threads \cup {None}] /\ tlock'[u] = t
        /\ \A v \in Threads : v # u => tlock'[v] = tlock[v]
    BY Zenon, <1>2, ProcTypes
  <2>7. TypeOK'
    <3>1. {"INITIAL", "INITIALIZED", "RUNNING"} \cup GoingDown
            = {"INITIAL", "INITIALIZED", "RUNNING", "DYING", "DEAD"}
      BY Zenon DEF GoingDown
    <3> QED
      BY <2>1, <2>3, <2>4, <2>5, <2>6, <3>1, Zenon DEF TypeOK, Labels
  <2>8. ThreadInv'
    BY Zenon, <2>1, <2>2, <2>3, <2>5 DEF ThreadInv, Leaves, GoingDown
  <2>9. TodoInv'
    <3>1. \A v \in Threads : tstate'[v] = "INITIALIZED" =>
            \E c \in Threads : pc'[c] \in Creates /\ todo'[c] = <<v>>
      <4> SUFFICES ASSUME NEW v \in Threads, tstate'[v] = "INITIALIZED"
                   PROVE  \E c \in Threads : pc'[c] \in Creates /\ todo'[c] = <<v>>
        BY Zenon
      <4>1. CASE v = u
        BY Zenon, <2>3, <2>4, <4>1 DEF Creates
      <4>2. CASE v # u
        <5>1. PICK c \in Threads : pc[c] \in Creates /\ todo[c] = <<v>>
          BY <2>5, <4>2 DEF TodoInv
        <5>2. c # t
          BY Zenon, <2>1, <5>1 DEF Creates
        <5> QED
          BY Zenon, <2>3, <2>4, <5>1, <5>2
      <4> QED
        BY Zenon, <4>1, <4>2
    <3>2. \A v \in Threads : pc'[v] \in Creates =>
            \E x \in Threads : todo'[v] = <<x>> /\ tlock'[x] = v /\ tstate'[x] = "INITIALIZED"
      <4> SUFFICES ASSUME NEW v \in Threads, pc'[v] \in Creates
                   PROVE  \E x \in Threads : todo'[v] = <<x>> /\ tlock'[x] = v /\ tstate'[x] = "INITIALIZED"
        BY Zenon
      <4>1. CASE v = t
        BY Zenon, <2>4, <2>5, <2>6, <4>1
      <4>2. CASE v # t
        <5>1. PICK x \in Threads : todo[v] = <<x>> /\ tlock[x] = v /\ tstate[x] = "INITIALIZED"
          BY Zenon, <2>3, <4>2 DEF TodoInv
        <5>2. x # u
          BY Zenon, <2>1, <5>1
        <5> QED
          BY Zenon, <2>4, <2>5, <2>6, <4>2, <5>1, <5>2
      <4> QED
        BY Zenon, <4>1, <4>2
    <3>3. \A v \in Threads :
            /\ pc'[v] = "add_handle" => \E x \in Threads : todo'[v] = <<x>> /\ pc'[x] # "none"
            /\ pc'[v] \in Waits => \A x \in Threads : InList(todo'[v], x) => pc'[x] # "none"
            /\ pc'[v] = "kill_locked" => todo'[v] # <<>>
      <4>1. \A x \in Threads : pc[x] # "none" => pc'[x] # "none"
        BY Zenon, <2>3
      <4> SUFFICES ASSUME NEW v \in Threads
                   PROVE  /\ pc'[v] = "add_handle" => \E x \in Threads : todo'[v] = <<x>> /\ pc'[x] # "none"
                          /\ pc'[v] \in Waits => \A x \in Threads : InList(todo'[v], x) => pc'[x] # "none"
                          /\ pc'[v] = "kill_locked" => todo'[v] # <<>>
        BY Zenon
      <4>2. CASE v = t
        BY Zenon, <2>3, <4>2 DEF Waits
      <4>3. CASE v # t
        <5>1. pc'[v] = pc[v] /\ todo'[v] = todo[v]
          BY Zenon, <2>3, <2>4, <4>3
        <5> QED
          BY <4>1, <5>1 DEF TodoInv
      <4> QED
        BY Zenon, <4>2, <4>3
    <3> QED
      BY Zenon, <3>1, <3>2, <3>3 DEF TodoInv
  <2>10. LockInv'
    <3>1. \A v, x \in Threads : tlock'[x] = v => \/ pc'[v] \in Creates /\ todo'[v] = <<x>>
                                                 \/ x = v /\ pc'[v] \in Leaves
      <4> SUFFICES ASSUME NEW v \in Threads, NEW x \in Threads, tlock'[x] = v
                   PROVE  \/ pc'[v] \in Creates /\ todo'[v] = <<x>>
                          \/ x = v /\ pc'[v] \in Leaves
        BY Zenon
      <4>1. CASE x = u
        BY Zenon, <2>3, <2>4, <2>6, <4>1 DEF Creates
      <4>2. CASE x # u
        <5>1. \/ pc[v] \in Creates /\ todo[v] = <<x>>
              \/ x = v /\ pc[v] \in Leaves
          BY Zenon, <2>6, <4>2 DEF LockInv
        <5>2. v # t
          BY Zenon, <2>1, <5>1 DEF Creates, Leaves
        <5> QED
          BY Zenon, <2>3, <2>4, <5>1, <5>2
      <4> QED
        BY Zenon, <4>1, <4>2
    <3>2. \A v \in Threads :
            /\ plock' = v => pc'[v] \in {"sweep", "erase", "cleanup"} \cup Waits
            /\ pc'[v] \in {"sweep", "erase", "cleanup"} => plock' = v
            /\ llock' = v <=> plock' = v /\ pc'[v] \in {"cleanup"} \cup Waits
            /\ pc'[v] \in Leaves => tlock'[v] = v
      BY <2>1, <2>2, <2>3, <2>6 DEF LockInv, Leaves, Waits
    <3> QED
      BY Zenon, <3>1, <3>2 DEF LockInv
  <2>11. TableLockInv'
    BY <2>1, Zenon DEF TableLockInv
  <2>12. ProcessInv'
    <3>1. state # "INITIAL"
      BY Zenon, <2>2 DEF ProcessInv
    <3>2. ~InList(list, u)
      BY Zenon, <2>2 DEF ThreadInv
    <3> QED
      BY Zenon, <2>1, <2>3, <2>4, <2>5, <3>1, <3>2 DEF ProcessInv, Waits
  <2> QED
    BY Zenon, <2>7, <2>8, <2>9, <2>10, <2>11, <2>12
<1> QED
  BY <1>1, <1>2, Zenon DEF ThreadCreate

(* AddThread looks at the state of the process. *)
LEMMA StartChecksMove ==
  ASSUME ProcInv, UNCHANGED bad_handle_exit, NEW t \in Threads, StartChecks(t)
  PROVE  ProcInv'
<1> USE DEF ProcInv
<1>1. CASE Panic("add")
  BY Zenon, <1>1, PanicSteps
<1>2. CASE Goto(t, "add") /\ UNCHANGED <<process, plocks, threads, todo, panic>>
  <2>1. /\ pc[t] = "start"
        /\ UNCHANGED <<state, retcode, list, plock, llock, hlock, tstate, tlock, signal, handle, todo, panic>>
    BY <1>2, Zenon DEF StartChecks, process, plocks, threads
  <2>2. /\ pc' \in [Threads -> Labels] /\ pc'[t] = "add"
        /\ \A v \in Threads : v # t => pc'[v] = pc[v]
    BY Zenon, <1>2, ProcTypes DEF Labels, Goto
  <2>3. TypeOK'
    BY <2>1, <2>2, Zenon DEF TypeOK, Labels
  <2>4. ThreadInv'
    BY Zenon, <2>1, <2>2 DEF ThreadInv, Leaves
  <2>5. TodoInv'
    BY <2>1, <2>2 DEF TodoInv, Creates, Waits
  <2>6. LockInv'
    BY <2>1, <2>2 DEF LockInv, Leaves, Creates, Waits
  <2>7. TableLockInv'
    BY <2>1, Zenon DEF TableLockInv
  <2>8. ProcessInv'
    BY Zenon, <2>1, <2>2 DEF ProcessInv, Waits
  <2> QED
    BY <2>3, <2>4, <2>5, <2>6, <2>7, <2>8
<1> QED
  BY <1>1, <1>2, Zenon DEF StartChecks

(* The new thread is added to the list, unlocked, and runs. *)
LEMMA AddMove ==
  ASSUME ProcInv, UNCHANGED bad_handle_exit, NEW t \in Threads, AddThread(t)
  PROVE  ProcInv'
<1> USE DEF ProcInv
<1>1. pc[t] = "add" /\ llock = None
  BY Zenon DEF AddThread, Add
<1>2. PICK u \in Threads : todo[t] = <<u>> /\ tlock[u] = t /\ tstate[u] = "INITIALIZED"
  BY Zenon, <1>1 DEF TodoInv, Creates
<1>3. Head(todo[t]) = u
  BY <1>2
<1>4. /\ list' = Append(list, u)
      /\ tstate' = [tstate EXCEPT ![u] = "RUNNING"]
      /\ tlock' = [tlock EXCEPT ![u] = None]
      /\ pc' = [pc EXCEPT ![t] = "add_handle", ![u] = "user"]
      /\ UNCHANGED <<state, retcode, plock, llock, hlock, signal, handle, todo, panic>>
  BY <1>3, Zenon DEF AddThread, Add, plocks
<1>5. pc[u] = "none" /\ u # t /\ tstate[t] # "INITIALIZED" /\ ~InList(list, u)
  BY Zenon, <1>1, <1>2 DEF ThreadInv
<1>6. /\ pc' \in [Threads -> Labels] /\ pc'[t] = "add_handle" /\ pc'[u] = "user"
      /\ \A v \in Threads : v # t /\ v # u => pc'[v] = pc[v]
  BY Zenon, <1>4, <1>5, ProcTypes DEF Labels
<1>7. /\ tstate' \in [Threads -> {"INITIAL", "INITIALIZED", "RUNNING", "DYING", "DEAD"}]
      /\ tstate'[u] = "RUNNING"
      /\ \A v \in Threads : v # u => tstate'[v] = tstate[v]
  BY Zenon, <1>4, ProcTypes
<1>8. /\ tlock' \in [Threads -> Threads \cup {None}] /\ tlock'[u] = None
      /\ \A v \in Threads : v # u => tlock'[v] = tlock[v]
  BY Zenon, <1>4, ProcTypes
<1>9. /\ list' \in Seq(Threads) /\ NoRepeat(list')
      /\ \A v : InList(list', v) <=> InList(list, v) \/ v = u
  <2>1. PICK q, r : q = list /\ r = list'
    BY Zenon
  <2>2. q \in Seq(Threads) /\ NoRepeat(q) /\ ~InList(q, u) /\ r = Append(q, u)
    BY Zenon, <1>4, <1>5, <2>1, ProcTypes
  <2> QED
    BY <2>1, <2>2, AppendIn
<1>10. TypeOK'
  <2>1. {"INITIAL", "INITIALIZED", "RUNNING"} \cup GoingDown
          = {"INITIAL", "INITIALIZED", "RUNNING", "DYING", "DEAD"}
    BY Zenon DEF GoingDown
  <2> QED
    BY <1>4, <1>6, <1>7, <1>8, <1>9, <2>1, Zenon DEF TypeOK, Labels
<1>11. ThreadInv'
  BY <1>1, <1>4, <1>5, <1>6, <1>7, <1>9 DEF ThreadInv, Leaves, GoingDown
<1>12. TodoInv'
  <2>1. \A v \in Threads : tstate'[v] = "INITIALIZED" =>
          \E c \in Threads : pc'[c] \in Creates /\ todo'[c] = <<v>>
    <3> SUFFICES ASSUME NEW v \in Threads, tstate'[v] = "INITIALIZED"
                 PROVE  \E c \in Threads : pc'[c] \in Creates /\ todo'[c] = <<v>>
      BY Zenon
    <3>1. v # u /\ tstate[v] = "INITIALIZED"
      BY Zenon, <1>7
    <3>2. PICK c \in Threads : pc[c] \in Creates /\ todo[c] = <<v>>
      BY Zenon, <3>1 DEF TodoInv
    <3>3. c # t /\ c # u
      BY <1>2, <1>5, <3>1, <3>2 DEF Creates
    <3> QED
      BY Zenon, <1>4, <1>6, <3>2, <3>3
  <2>2. \A v \in Threads : pc'[v] \in Creates =>
          \E x \in Threads : todo'[v] = <<x>> /\ tlock'[x] = v /\ tstate'[x] = "INITIALIZED"
    <3> SUFFICES ASSUME NEW v \in Threads, pc'[v] \in Creates
                 PROVE  \E x \in Threads : todo'[v] = <<x>> /\ tlock'[x] = v /\ tstate'[x] = "INITIALIZED"
      BY Zenon
    <3>1. v # t /\ v # u /\ pc[v] \in Creates
      BY Zenon, <1>6 DEF Creates
    <3>2. PICK x \in Threads : todo[v] = <<x>> /\ tlock[x] = v /\ tstate[x] = "INITIALIZED"
      BY Zenon, <3>1 DEF TodoInv
    <3>3. x # u
      BY Zenon, <1>2, <3>1, <3>2
    <3> QED
      BY Zenon, <1>4, <1>7, <1>8, <3>2, <3>3
  <2>3. \A v \in Threads :
          /\ pc'[v] = "add_handle" => \E x \in Threads : todo'[v] = <<x>> /\ pc'[x] # "none"
          /\ pc'[v] \in Waits => \A x \in Threads : InList(todo'[v], x) => pc'[x] # "none"
          /\ pc'[v] = "kill_locked" => todo'[v] # <<>>
    <3>1. \A x \in Threads : pc[x] # "none" => pc'[x] # "none"
      BY Zenon, <1>6
    <3> SUFFICES ASSUME NEW v \in Threads
                 PROVE  /\ pc'[v] = "add_handle" => \E x \in Threads : todo'[v] = <<x>> /\ pc'[x] # "none"
                        /\ pc'[v] \in Waits => \A x \in Threads : InList(todo'[v], x) => pc'[x] # "none"
                        /\ pc'[v] = "kill_locked" => todo'[v] # <<>>
      BY Zenon
    <3>2. CASE v = t
      BY Zenon, <1>2, <1>4, <1>6, <3>2 DEF Waits
    <3>3. CASE v = u
      BY Zenon, <1>6, <3>3 DEF Waits
    <3>4. CASE v # t /\ v # u
      BY <1>4, <1>6, <3>1, <3>4 DEF TodoInv
    <3> QED
      BY Zenon, <3>2, <3>3, <3>4
  <2> QED
    BY Zenon, <2>1, <2>2, <2>3 DEF TodoInv
<1>13. LockInv'
  <2>1. \A v, x \in Threads : tlock'[x] = v => \/ pc'[v] \in Creates /\ todo'[v] = <<x>>
                                               \/ x = v /\ pc'[v] \in Leaves
    <3> SUFFICES ASSUME NEW v \in Threads, NEW x \in Threads, tlock'[x] = v
                 PROVE  \/ pc'[v] \in Creates /\ todo'[v] = <<x>>
                        \/ x = v /\ pc'[v] \in Leaves
      BY Zenon
    <3>1. x # u /\ tlock[x] = v
      BY Zenon, <1>8, ProcessAssumption
    <3>2. \/ pc[v] \in Creates /\ todo[v] = <<x>>
          \/ x = v /\ pc[v] \in Leaves
      BY Zenon, <3>1 DEF LockInv
    <3>3. v # t /\ v # u
      BY <1>1, <1>2, <1>5, <3>1, <3>2 DEF Creates, Leaves
    <3> QED
      BY Zenon, <1>4, <1>6, <3>2, <3>3
  <2>2. \A v \in Threads :
          /\ plock' = v => pc'[v] \in {"sweep", "erase", "cleanup"} \cup Waits
          /\ pc'[v] \in {"sweep", "erase", "cleanup"} => plock' = v
          /\ llock' = v <=> plock' = v /\ pc'[v] \in {"cleanup"} \cup Waits
          /\ pc'[v] \in Leaves => tlock'[v] = v
    BY Zenon, <1>1, <1>4, <1>5, <1>6, <1>8 DEF LockInv, Leaves, Waits
  <2> QED
    BY Zenon, <2>1, <2>2 DEF LockInv
<1>14. TableLockInv'
  BY <1>4, Zenon DEF TableLockInv
<1>15. ProcessInv'
  <2>1. state # "INITIAL"
    BY Zenon, <1>2 DEF ProcessInv
  <2>2. state # "DEAD"
    <3>1. InList(list, t)
      BY Zenon, <1>1 DEF ThreadInv
    <3>2. list # <<>>
      BY <3>1 DEF InList
    <3> QED
      BY Zenon, <3>2 DEF ProcessInv
  <2> QED
    BY Zenon, <1>1, <1>4, <1>6, <2>1, <2>2, ProcessAssumption DEF ProcessInv
<1> QED
  BY Zenon, <1>10, <1>11, <1>12, <1>13, <1>14, <1>15

(* The new thread has its handle, its creator returns to user mode. *)
LEMMA AddHandleMove ==
  ASSUME ProcInv, UNCHANGED bad_handle_exit, NEW t \in Threads, AddHandle(t)
  PROVE  ProcInv'
<1> USE DEF ProcInv
<1>1. pc[t] = "add_handle"
  BY Zenon DEF AddHandle
<1>2. PICK u \in Threads : todo[t] = <<u>> /\ pc[u] # "none"
  BY Zenon, <1>1 DEF TodoInv
<1>3. Head(todo[t]) = u
  BY <1>2
<1>4. /\ handle' = handle \cup {u} /\ todo' = [todo EXCEPT ![t] = <<>>]
      /\ pc' = [pc EXCEPT ![t] = "user"]
      /\ UNCHANGED <<state, retcode, list, plock, llock, hlock, tstate, tlock, signal, panic>>
  BY <1>3, Zenon DEF AddHandle, Goto, process, plocks
<1>5. /\ pc' \in [Threads -> Labels] /\ pc'[t] = "user"
      /\ \A v \in Threads : v # t => pc'[v] = pc[v]
      /\ todo' \in [Threads -> Seq(Threads)]
      /\ \A v \in Threads : v # t => todo'[v] = todo[v]
  <2>1. <<>> \in Seq(Threads)
    OBVIOUS
  <2> QED
    BY Zenon, <1>4, <2>1, ProcTypes DEF Labels
<1>6. TypeOK'
  <2>1. handle' \subseteq Threads
    BY Zenon, <1>4 DEF TypeOK
  <2> QED
    BY <1>4, <1>5, <2>1, Zenon DEF TypeOK, Labels
<1>7. ThreadInv'
  BY Zenon, <1>1, <1>2, <1>4, <1>5 DEF ThreadInv, Leaves
<1>8. TodoInv'
  <2>1. \A x \in Threads : pc[x] # "none" => pc'[x] # "none"
    BY Zenon, <1>5
  <2> QED
    BY <1>1, <1>4, <1>5, <2>1 DEF TodoInv, Creates, Waits
<1>9. LockInv'
  BY <1>1, <1>4, <1>5 DEF LockInv, Leaves, Creates, Waits
<1>10. TableLockInv'
  BY <1>4, Zenon DEF TableLockInv
<1>11. ProcessInv'
  BY Zenon, <1>1, <1>4, <1>5 DEF ProcessInv, Waits
<1> QED
  BY <1>6, <1>7, <1>8, <1>9, <1>10, <1>11

(* Exit and Kill: the process starts to die, under its state_lock_. *)
LEMMA DieMove ==
  ASSUME ProcInv, UNCHANGED bad_handle_exit, NEW t \in Threads, pc[t] \in {"exit", "crash"},
         plock = None, plock' = t, state' = "DYING", state \notin GoingDown, retcode' \in {-1, 0, 1},
         Goto(t, "sweep"), UNCHANGED <<list, llock, hlock, threads, todo, panic>>
  PROVE  ProcInv'
<1> USE DEF ProcInv
<1>1. UNCHANGED <<list, llock, hlock, tstate, tlock, signal, handle, todo, panic>>
  BY Zenon DEF threads
<1>2. /\ pc' \in [Threads -> Labels] /\ pc'[t] = "sweep"
      /\ \A v \in Threads : v # t => pc'[v] = pc[v]
  BY Zenon, ProcTypes DEF Labels, Goto
<1>3. TypeOK'
  <2>1. {plock', llock, hlock} \subseteq Threads \cup {None}
    BY Zenon DEF TypeOK
  <2>2. state' \in {"INITIAL", "RUNNING"} \cup GoingDown
    BY Zenon DEF GoingDown
  <2> QED
    BY <1>1, <1>2, <2>1, <2>2, Zenon DEF TypeOK, Labels
<1>4. ThreadInv'
  BY Zenon, <1>1, <1>2 DEF ThreadInv, Leaves
<1>5. TodoInv'
  BY <1>1, <1>2 DEF TodoInv, Creates, Waits
<1>6. LockInv'
  BY <1>1, <1>2, ProcessAssumption DEF LockInv, Leaves, Creates, Waits
<1>7. TableLockInv'
  BY <1>1, Zenon DEF TableLockInv
<1>8. ProcessInv'
  BY Zenon, <1>1, <1>2 DEF ProcessInv, Waits, GoingDown
<1> QED
  BY Zenon, <1>3, <1>4, <1>5, <1>6, <1>7, <1>8

LEMMA ExitMove ==
  ASSUME ProcInv, UNCHANGED bad_handle_exit, NEW t \in Threads, Exit(t)
  PROVE  ProcInv'
<1>1. CASE Panic("exit")
  BY Zenon, <1>1, PanicSteps
<1>2. CASE state = "RUNNING"
  <2>1. /\ pc[t] \in {"exit", "crash"} /\ plock = None /\ plock' = t /\ state' = "DYING"
        /\ retcode' \in {-1, 0, 1} /\ Goto(t, "sweep")
        /\ UNCHANGED <<list, llock, hlock, threads, todo, panic>>
    BY Zenon, <1>2 DEF Exit
  <2>2. state \notin GoingDown
    BY Zenon, <1>2 DEF GoingDown
  <2> QED
    BY Zenon, <2>1, <2>2, DieMove
<1> QED
  BY <1>1, <1>2, Zenon DEF Exit

LEMMA KillMove ==
  ASSUME ProcInv, UNCHANGED bad_handle_exit, NEW t \in Threads, Kill(t)
  PROVE  ProcInv'
<1>0. pc[t] = "crash" /\ UNCHANGED <<list, llock, hlock, threads, todo, panic>>
  BY Zenon DEF Kill
<1>1. CASE state \in GoingDown
  <2>1. Goto(t, "thread_exit") /\ UNCHANGED <<state, retcode, plock>>
    BY <1>1, Zenon DEF Kill
  <2>2. UNCHANGED <<state, list, plock, llock, threads, todo>>
    BY <1>0, <2>1, Zenon
  <2>3. pc' \in [Threads -> Labels]
    BY Zenon, <2>1, ProcTypes DEF ProcInv, Goto, Labels
  <2>4. TypeOK'
    BY <1>0, <2>1, <2>3, Zenon DEF ProcInv, TypeOK, Labels, threads
  <2>5. TableLockInv'
    BY <1>0, Zenon DEF ProcInv, TableLockInv
  <2>6. pc[t] \in Plain /\ "thread_exit" \in Plain
    BY Zenon, <1>0 DEF Plain
  <2> QED
    BY <2>1, <2>2, <2>4, <2>5, <2>6, PlainMove, Zenon
<1>2. CASE state \notin GoingDown
  <2>1. /\ pc[t] \in {"exit", "crash"} /\ plock = None /\ plock' = t /\ state' = "DYING"
        /\ retcode' \in {-1, 0, 1} /\ Goto(t, "sweep")
        /\ UNCHANGED <<list, llock, hlock, threads, todo, panic>>
    BY Zenon, <1>2 DEF Kill
  <2> QED
    BY Zenon, <1>2, <2>1, DieMove
<1> QED
  BY Zenon, <1>1, <1>2

(* KillAllThreads holds thread_list_lock_ and has the whole list to kill. *)
LEMMA SweepMove ==
  ASSUME ProcInv, UNCHANGED bad_handle_exit, NEW t \in Threads, KillAllThreads(t)
  PROVE  ProcInv'
<1> USE DEF ProcInv
<1>1. /\ pc[t] = "sweep" /\ llock = None /\ llock' = t
      /\ todo' = [todo EXCEPT ![t] = list] /\ pc' = [pc EXCEPT ![t] = "kill"]
      /\ UNCHANGED <<state, retcode, list, plock, hlock, tstate, tlock, signal, handle, panic>>
  BY Zenon DEF KillAllThreads, Goto, process, threads
<1>2. /\ pc' \in [Threads -> Labels] /\ pc'[t] = "kill"
      /\ \A v \in Threads : v # t => pc'[v] = pc[v]
      /\ todo' \in [Threads -> Seq(Threads)] /\ todo'[t] = list
      /\ \A v \in Threads : v # t => todo'[v] = todo[v]
  BY Zenon, <1>1, ProcTypes DEF Labels
<1>3. TypeOK'
  <2>1. {plock, llock', hlock} \subseteq Threads \cup {None}
    BY Zenon, <1>1 DEF TypeOK
  <2> QED
    BY <1>1, <1>2, <2>1, Zenon DEF TypeOK, Labels
<1>4. ThreadInv'
  BY Zenon, <1>1, <1>2 DEF ThreadInv, Leaves
<1>5. TodoInv'
  <2>1. \A x \in Threads : pc[x] # "none" => pc'[x] # "none"
    BY Zenon, <1>2
  <2>2. \A x \in Threads : InList(list, x) => pc[x] # "none"
    BY Zenon DEF ThreadInv
  <2> QED
    BY <1>1, <1>2, <2>1, <2>2 DEF TodoInv, Creates, Waits
<1>6. LockInv'
  BY <1>1, <1>2, ProcessAssumption DEF LockInv, Leaves, Creates, Waits
<1>7. TableLockInv'
  BY <1>1, Zenon DEF TableLockInv
<1>8. ProcessInv'
  BY Zenon, <1>1, <1>2 DEF ProcessInv, Waits
<1> QED
  BY <1>3, <1>4, <1>5, <1>6, <1>7, <1>8

(* What is in a list is its head or in its tail. *)
LEMMA TailHas ==
  ASSUME NEW S, NEW q \in Seq(S), q # <<>>
  PROVE  /\ Tail(q) \in Seq(S) /\ Head(q) \in S /\ InList(q, Head(q))
         /\ \A x : InList(q, x) <=> InList(Tail(q), x) \/ x = Head(q)
<1>1. /\ Tail(q) \in Seq(S) /\ Head(q) = q[1] /\ 1 \in DOMAIN q /\ q[1] \in S
      /\ \A i \in DOMAIN Tail(q) : i + 1 \in DOMAIN q /\ Tail(q)[i] = q[i + 1]
      /\ \A i \in DOMAIN q : i # 1 => i - 1 \in DOMAIN Tail(q) /\ Tail(q)[i - 1] = q[i]
  OBVIOUS
<1> QED
  BY <1>1 DEF InList

(* A thread that need not be killed is skipped, the mutex of another is taken. *)
LEMMA KillChecksMove ==
  ASSUME ProcInv, UNCHANGED bad_handle_exit, NEW t \in Threads, KillChecks(t)
  PROVE  ProcInv'
<1> USE DEF ProcInv
<1>1. /\ pc[t] = "kill" /\ todo[t] # <<>>
      /\ UNCHANGED <<state, retcode, list, plock, llock, hlock, tstate, tlock, signal, handle, panic>>
  BY Zenon DEF KillChecks, process, plocks, threads
<1>2. PICK q, u : q = todo[t] /\ u = Head(q)
  BY Zenon
<1>3. /\ q \in Seq(Threads) /\ Tail(q) \in Seq(Threads) /\ u \in Threads /\ InList(q, u)
      /\ \A x : InList(q, x) <=> InList(Tail(q), x) \/ x = u
  <2>1. q \in Seq(Threads) /\ q # <<>>
    BY Zenon, <1>1, <1>2, ProcTypes
  <2> QED
    BY Zenon, <1>2, <2>1, TailHas
<1>4. CASE tstate[u] \in GoingDown
  <2>1. todo' = [todo EXCEPT ![t] = Tail(q)] /\ pc' = pc
    BY Zenon, <1>2, <1>4 DEF KillChecks
  <2>2. /\ todo' \in [Threads -> Seq(Threads)] /\ todo'[t] = Tail(q)
        /\ \A v \in Threads : v # t => todo'[v] = todo[v]
    BY Zenon, <1>3, <2>1, ProcTypes
  <2>3. TypeOK'
    BY <1>1, <2>1, <2>2, Zenon DEF TypeOK
  <2>4. ThreadInv'
    BY Zenon, <1>1, <2>1 DEF ThreadInv
  <2>5. TodoInv'
    BY <1>1, <1>2, <1>3, <2>1, <2>2 DEF TodoInv, Creates, Waits
  <2>6. LockInv'
    BY Zenon, <1>1, <2>1, <2>2 DEF LockInv, Leaves, Creates
  <2>7. TableLockInv'
    BY <1>1, Zenon DEF TableLockInv
  <2>8. ProcessInv'
    BY Zenon, <1>1, <1>2, <1>3, <1>4, <2>1, <2>2 DEF ProcessInv
  <2> QED
    BY <2>3, <2>4, <2>5, <2>6, <2>7, <2>8
<1>5. CASE tstate[u] \notin GoingDown
  <2>1. todo' = todo /\ pc' = [pc EXCEPT ![t] = "kill_locked"]
    BY Zenon, <1>2, <1>5 DEF KillChecks, Goto
  <2>2. /\ pc' \in [Threads -> Labels] /\ pc'[t] = "kill_locked"
        /\ \A v \in Threads : v # t => pc'[v] = pc[v]
    BY Zenon, <2>1, ProcTypes DEF Labels
  <2>3. TypeOK'
    BY <1>1, <2>1, <2>2, Zenon DEF TypeOK, Labels
  <2>4. ThreadInv'
    BY Zenon, <1>1, <2>2 DEF ThreadInv, Leaves
  <2>5. TodoInv'
    BY <1>1, <2>1, <2>2 DEF TodoInv, Creates, Waits
  <2>6. LockInv'
    BY <1>1, <2>1, <2>2 DEF LockInv, Leaves, Creates, Waits
  <2>7. TableLockInv'
    BY <1>1, Zenon DEF TableLockInv
  <2>8. ProcessInv'
    BY Zenon, <1>1, <2>1, <2>2 DEF ProcessInv, Waits
  <2> QED
    BY <2>3, <2>4, <2>5, <2>6, <2>7, <2>8
<1> QED
  BY Zenon, <1>4, <1>5

(* UserThread::Kill under the mutex of the thread. *)
LEMMA KillThreadMove ==
  ASSUME ProcInv, UNCHANGED bad_handle_exit, NEW t \in Threads, KillThread(t)
  PROVE  ProcInv'
<1> USE DEF ProcInv
<1>1. pc[t] = "kill_locked" /\ todo[t] # <<>>
  BY Zenon DEF KillThread, TodoInv
<1>2. PICK q, u : q = todo[t] /\ u = Head(q)
  OBVIOUS
<1>3. /\ q \in Seq(Threads) /\ Tail(q) \in Seq(Threads) /\ u \in Threads /\ InList(q, u)
      /\ \A x : InList(q, x) <=> InList(Tail(q), x) \/ x = u
  <2>1. q \in Seq(Threads) /\ q # <<>>
    BY Zenon, <1>1, <1>2, ProcTypes
  <2> QED
    BY <1>2, <2>1, TailHas
<1>4. /\ todo' = [todo EXCEPT ![t] = Tail(q)] /\ pc' = [pc EXCEPT ![t] = "kill"]
      /\ UNCHANGED <<state, retcode, list, plock, llock, hlock, tlock, handle, panic>>
  BY Zenon, <1>2 DEF KillThread, Goto, process, plocks
<1>5. /\ pc' \in [Threads -> Labels] /\ pc'[t] = "kill"
      /\ \A v \in Threads : v # t => pc'[v] = pc[v]
      /\ todo' \in [Threads -> Seq(Threads)] /\ todo'[t] = Tail(q)
      /\ \A v \in Threads : v # t => todo'[v] = todo[v]
  BY Zenon, <1>3, <1>4, ProcTypes DEF Labels
<1>6. pc[u] # "none"
  BY Zenon, <1>1, <1>2, <1>3 DEF TodoInv, Waits
<1>7. /\ tstate' \in [Threads -> {"INITIAL", "INITIALIZED", "RUNNING", "DYING", "DEAD"}]
      /\ tstate'[u] \in GoingDown /\ \A v \in Threads : v # u => tstate'[v] = tstate[v]
      /\ tstate[u] = "DEAD" <=> tstate'[u] = "DEAD"
      /\ signal \subseteq signal' /\ signal' \subseteq signal \cup {u}
  <2>1. CASE tstate[u] \in GoingDown
    BY Zenon, <1>2, <2>1, ProcTypes DEF KillThread
  <2>2. CASE tstate[u] \notin GoingDown
    <3>1. tstate' = [tstate EXCEPT ![u] = "DYING"] /\ signal' = signal \cup {u}
      BY Zenon, <1>2, <2>2 DEF KillThread
    <3> QED
      BY Zenon, <1>3, <2>2, <3>1, ProcTypes DEF GoingDown
  <2> QED
    BY Zenon, <2>1, <2>2
<1>8. TypeOK'
  <2>1. {"INITIAL", "INITIALIZED", "RUNNING"} \cup GoingDown
          = {"INITIAL", "INITIALIZED", "RUNNING", "DYING", "DEAD"}
    BY Zenon DEF GoingDown
  <2>2. signal' \subseteq Threads
    BY Zenon, <1>3, <1>7 DEF TypeOK
  <2> QED
    BY <1>4, <1>5, <1>7, <2>1, <2>2, Zenon DEF TypeOK, Labels
<1>9. ThreadInv'
  <2> SUFFICES ASSUME NEW v \in Threads
               PROVE  /\ InList(list, v) <=> pc'[v] \notin {"none", "cleanup", "gone"}
                      /\ tstate'[v] \in {"INITIAL", "INITIALIZED"} <=> pc'[v] = "none"
                      /\ tstate'[v] = "DEAD" <=> pc'[v] = "gone"
                      /\ pc'[v] \in {"exiting"} \cup Leaves => tstate'[v] = "DYING"
                      /\ v \in signal' => tstate'[v] \in GoingDown
                      /\ v \in handle => pc'[v] # "none"
    BY Zenon, <1>4 DEF ThreadInv
  <2>1. pc'[v] = pc[v] \/ (pc[v] = "kill_locked" /\ pc'[v] = "kill")
    BY Zenon, <1>1, <1>5
  <2>2. CASE v = u
    BY Zenon, <1>6, <1>7, <2>1, <2>2 DEF ThreadInv, GoingDown, Leaves
  <2>3. CASE v # u
    BY Zenon, <1>7, <2>1, <2>3 DEF ThreadInv, Leaves
  <2> QED
    BY Zenon, <2>2, <2>3
<1>10. TodoInv'
  <2>1. /\ tstate[u] \notin {"INITIAL", "INITIALIZED"} /\ tstate'[u] \notin {"INITIAL", "INITIALIZED"}
    BY Zenon, <1>3, <1>6, <1>7 DEF ThreadInv, GoingDown
  <2>2. \A v \in Threads : tstate'[v] = "INITIALIZED" <=> tstate[v] = "INITIALIZED"
    BY Zenon, <1>7, <2>1
  <2>3. \A v \in Threads : pc[v] # "none" => pc'[v] # "none"
    BY Zenon, <1>5
  <2>4. \A v \in Threads : pc'[v] \in Creates \cup {"add_handle"} <=> pc[v] \in Creates \cup {"add_handle"}
    BY Zenon, <1>1, <1>5 DEF Creates
  <2>5. \A v \in Threads : pc[v] \in Creates \cup {"add_handle"} => pc'[v] = pc[v] /\ todo'[v] = todo[v]
    BY Zenon, <1>1, <1>5 DEF Creates
  <2>6. \A v \in Threads : tstate'[v] = "INITIALIZED" =>
          \E c \in Threads : pc'[c] \in Creates /\ todo'[c] = <<v>>
    BY <2>2, <2>5 DEF TodoInv
  <2>7. \A v \in Threads :
          pc'[v] \in Creates => \E x \in Threads : /\ todo'[v] = <<x>> /\ tlock'[x] = v
                                                   /\ tstate'[x] = "INITIALIZED"
    <3> SUFFICES ASSUME NEW v \in Threads, pc'[v] \in Creates
                 PROVE  \E x \in Threads : todo'[v] = <<x>> /\ tlock'[x] = v /\ tstate'[x] = "INITIALIZED"
      BY Zenon
    <3>1. pc[v] \in Creates /\ todo'[v] = todo[v]
      BY Zenon, <2>4, <2>5
    <3>2. PICK x \in Threads : todo[v] = <<x>> /\ tlock[x] = v /\ tstate[x] = "INITIALIZED"
      BY Zenon, <3>1 DEF TodoInv
    <3> QED
      BY Zenon, <1>4, <2>2, <3>1, <3>2
  <2>8. \A v \in Threads :
          pc'[v] = "add_handle" => \E x \in Threads : todo'[v] = <<x>> /\ pc'[x] # "none"
    BY <2>3, <2>4, <2>5 DEF TodoInv
  <2>9. \A v \in Threads :
          /\ pc'[v] \in Waits => \A x \in Threads : InList(todo'[v], x) => pc'[x] # "none"
          /\ pc'[v] = "kill_locked" => todo'[v] # <<>>
    <3> SUFFICES ASSUME NEW v \in Threads
                 PROVE  /\ pc'[v] \in Waits => \A x \in Threads : InList(todo'[v], x) => pc'[x] # "none"
                        /\ pc'[v] = "kill_locked" => todo'[v] # <<>>
      BY Zenon
    <3>1. CASE v = t
      <4>1. \A x \in Threads : InList(q, x) => pc[x] # "none"
        BY Zenon, <1>1, <1>2 DEF TodoInv, Waits
      <4> QED
        BY Zenon, <1>3, <1>5, <2>3, <3>1, <4>1
    <3>2. CASE v # t
      <4>1. pc'[v] = pc[v] /\ todo'[v] = todo[v]
        BY Zenon, <1>5, <3>2
      <4> QED
        BY <2>3, <4>1 DEF TodoInv
    <3> QED
      BY Zenon, <3>1, <3>2
  <2> QED
    BY Zenon, <2>6, <2>7, <2>8, <2>9 DEF TodoInv
<1>11. LockInv'
  BY <1>1, <1>4, <1>5 DEF LockInv, Leaves, Creates, Waits
<1>12. TableLockInv'
  BY <1>4, Zenon DEF TableLockInv
<1>13. ProcessInv'
  <2>1. state # "INITIAL"
    BY Zenon, <1>3, <1>6 DEF ProcessInv, ThreadInv
  <2>2. \A v \in Threads : tstate[v] \in GoingDown => tstate'[v] \in GoingDown
    BY Zenon, <1>7
  <2> QED
    BY <1>1, <1>2, <1>3, <1>4, <1>5, <1>7, <2>1, <2>2 DEF ProcessInv, Waits
<1> QED
  BY <1>8, <1>9, <1>10, <1>11, <1>12, <1>13

(* Nothing is left to kill: the mutexes of a sweep are released. *)
LEMMA KillDoneMove ==
  ASSUME ProcInv, UNCHANGED bad_handle_exit, NEW t \in Threads, KillDone(t)
  PROVE  ProcInv'
<1> USE DEF ProcInv
<1>1. /\ pc[t] = "kill" /\ todo[t] = <<>>
      /\ UNCHANGED <<state, retcode, list, hlock, tstate, tlock, signal, handle, todo, panic>>
  BY Zenon DEF KillDone, process, threads
<1>2. PICK l : l \in {"thread_exit", "user"} /\ pc' = [pc EXCEPT ![t] = l]
  BY Zenon DEF KillDone, Goto
<1>3. /\ pc' \in [Threads -> Labels] /\ pc'[t] = l
      /\ \A v \in Threads : v # t => pc'[v] = pc[v]
  BY Zenon, <1>2, ProcTypes DEF Labels
<1>4. /\ plock = t => plock' = None /\ llock' = None
      /\ plock # t => plock' = plock /\ llock' = llock
  BY Zenon DEF KillDone
<1>5. TypeOK'
  <2>1. {plock', llock', hlock} \subseteq Threads \cup {None}
    BY <1>4 DEF TypeOK
  <2> QED
    BY <1>1, <1>3, <2>1, Zenon DEF TypeOK, Labels
<1>6. ThreadInv'
  BY Zenon, <1>1, <1>2, <1>3 DEF ThreadInv, Leaves
<1>7. TodoInv'
  <2>1. \A x \in Threads : pc[x] # "none" => pc'[x] # "none"
    BY Zenon, <1>2, <1>3
  <2> QED
    BY <1>1, <1>2, <1>3, <2>1 DEF TodoInv, Creates, Waits
<1>8. LockInv'
  <2>1. \A v \in Threads : v # t => (llock' = v <=> llock = v) /\ (plock' = v <=> plock = v)
    BY <1>4, ProcessAssumption DEF LockInv
  <2>2. llock' # t /\ plock' # t
    BY <1>4, ProcessAssumption DEF LockInv
  <2> QED
    BY <1>1, <1>2, <1>3, <2>1, <2>2 DEF LockInv, Leaves, Creates, Waits
<1>9. TableLockInv'
  BY <1>1, Zenon DEF TableLockInv
<1>10. ProcessInv'
  <2>1. \A v \in Threads : llock' = v => v # t /\ llock = v
    BY <1>4, ProcessAssumption DEF LockInv
  <2> QED
    BY Zenon, <1>1, <1>2, <1>3, <2>1 DEF ProcessInv, Waits
<1> QED
  BY <1>5, <1>6, <1>7, <1>8, <1>9, <1>10

(* A thread that exits is DYING. *)
LEMMA ThreadExitMove ==
  ASSUME ProcInv, UNCHANGED bad_handle_exit, NEW t \in Threads, ThreadExit(t)
  PROVE  ProcInv'
<1> USE DEF ProcInv
<1>1. /\ pc[t] = "thread_exit" /\ tstate' = [tstate EXCEPT ![t] = "DYING"]
      /\ pc' = [pc EXCEPT ![t] = "exiting"]
      /\ UNCHANGED <<state, retcode, list, plock, llock, hlock, tlock, signal, handle, todo, panic>>
  BY Zenon DEF ThreadExit, Goto, process, plocks
<1>2. /\ pc' \in [Threads -> Labels] /\ pc'[t] = "exiting"
      /\ \A v \in Threads : v # t => pc'[v] = pc[v]
      /\ tstate' \in [Threads -> {"INITIAL", "INITIALIZED", "RUNNING", "DYING", "DEAD"}]
      /\ tstate'[t] = "DYING" /\ \A v \in Threads : v # t => tstate'[v] = tstate[v]
  BY Zenon, <1>1, ProcTypes DEF Labels
<1>3. tstate[t] \notin {"INITIAL", "INITIALIZED", "DEAD"}
  BY Zenon, <1>1 DEF ThreadInv
<1>4. TypeOK'
  <2>1. {"INITIAL", "INITIALIZED", "RUNNING"} \cup GoingDown
          = {"INITIAL", "INITIALIZED", "RUNNING", "DYING", "DEAD"}
    BY DEF GoingDown
  <2> QED
    BY <1>1, <1>2, <2>1, Zenon DEF TypeOK, Labels
<1>5. ThreadInv'
  BY Zenon, <1>1, <1>2 DEF ThreadInv, Leaves, GoingDown
<1>6. TodoInv'
  <2>1. \A v \in Threads : tstate'[v] = "INITIALIZED" <=> tstate[v] = "INITIALIZED"
    BY Zenon, <1>2, <1>3
  <2>2. \A x \in Threads : pc[x] # "none" => pc'[x] # "none"
    BY Zenon, <1>2
  <2> QED
    BY <1>1, <1>2, <2>1, <2>2 DEF TodoInv, Creates, Waits
<1>7. LockInv'
  BY <1>1, <1>2 DEF LockInv, Leaves, Creates, Waits
<1>8. TableLockInv'
  BY <1>1, Zenon DEF TableLockInv
<1>9. ProcessInv'
  <2>1. state # "INITIAL"
    BY Zenon, <1>3 DEF ProcessInv
  <2>2. \A v \in Threads : tstate[v] \in GoingDown => tstate'[v] \in GoingDown
    BY Zenon, <1>2 DEF GoingDown
  <2> QED
    BY Zenon, <1>1, <1>2, <2>1, <2>2 DEF ProcessInv, Waits
<1> QED
  BY <1>4, <1>5, <1>6, <1>7, <1>8, <1>9

(* The assertion of Exiting does not fire; the thread holds its mutex. *)
LEMMA ExitingMove ==
  ASSUME ProcInv, UNCHANGED bad_handle_exit, NEW t \in Threads, Exiting(t)
  PROVE  ProcInv'
<1> USE DEF ProcInv
<1>1. pc[t] = "exiting" /\ tlock[t] = None
  BY Zenon DEF Exiting
<1>2. tstate[t] = "DYING"
  BY Zenon, <1>1 DEF ThreadInv
<1>3. /\ tlock' = [tlock EXCEPT ![t] = t] /\ pc' = [pc EXCEPT ![t] = "remove"]
      /\ UNCHANGED <<state, retcode, list, plock, llock, hlock, tstate, signal, handle, todo, panic>>
  BY <1>2, Zenon DEF Exiting, Goto, process, plocks
<1>4. /\ pc' \in [Threads -> Labels] /\ pc'[t] = "remove"
      /\ \A v \in Threads : v # t => pc'[v] = pc[v]
      /\ tlock' \in [Threads -> Threads \cup {None}] /\ tlock'[t] = t
      /\ \A v \in Threads : v # t => tlock'[v] = tlock[v]
  BY Zenon, <1>3, ProcTypes DEF Labels
<1>5. TypeOK'
  BY <1>3, <1>4, Zenon DEF TypeOK, Labels
<1>6. ThreadInv'
  BY Zenon, <1>1, <1>2, <1>3, <1>4 DEF ThreadInv, Leaves
<1>7. TodoInv'
  <2>1. \A x \in Threads : pc[x] # "none" => pc'[x] # "none"
    BY Zenon, <1>4
  <2>2. \A x \in Threads : tstate[x] = "INITIALIZED" => tlock'[x] = tlock[x]
    BY Zenon, <1>2, <1>4
  <2> QED
    BY <1>1, <1>3, <1>4, <2>1, <2>2 DEF TodoInv, Creates, Waits
<1>8. LockInv'
  BY <1>1, <1>3, <1>4 DEF LockInv, Leaves, Creates, Waits
<1>9. TableLockInv'
  BY <1>3, Zenon DEF TableLockInv
<1>10. ProcessInv'
  BY Zenon, <1>1, <1>3, <1>4 DEF ProcessInv, Waits
<1> QED
  BY <1>5, <1>6, <1>7, <1>8, <1>9, <1>10

LEMMA RemoveMove ==
  ASSUME ProcInv, UNCHANGED bad_handle_exit, NEW t \in Threads, RemoveThread(t)
  PROVE  ProcInv'
<1> USE DEF ProcInv
<1>1. /\ pc[t] = "remove" /\ plock = None /\ plock' = t /\ pc' = [pc EXCEPT ![t] = "erase"]
      /\ UNCHANGED <<state, retcode, list, llock, hlock, tstate, tlock, signal, handle, todo, panic>>
  BY Zenon DEF RemoveThread, Goto, process, threads
<1>2. /\ pc' \in [Threads -> Labels] /\ pc'[t] = "erase"
      /\ \A v \in Threads : v # t => pc'[v] = pc[v]
  BY Zenon, <1>1, ProcTypes DEF Labels
<1>3. TypeOK'
  <2>1. {plock', llock, hlock} \subseteq Threads \cup {None}
    BY Zenon, <1>1 DEF TypeOK
  <2> QED
    BY <1>1, <1>2, <2>1, Zenon DEF TypeOK, Labels
<1>4. ThreadInv'
  BY Zenon, <1>1, <1>2 DEF ThreadInv, Leaves
<1>5. TodoInv'
  BY <1>1, <1>2 DEF TodoInv, Creates, Waits
<1>6. LockInv'
  BY <1>1, <1>2, ProcessAssumption DEF LockInv, Leaves, Creates, Waits
<1>7. TableLockInv'
  BY <1>1, Zenon DEF TableLockInv
<1>8. ProcessInv'
  BY Zenon, <1>1, <1>2 DEF ProcessInv, Waits
<1> QED
  BY <1>3, <1>4, <1>5, <1>6, <1>7, <1>8

(* A thread that is gone holds neither its mutex nor those of the process.    *)
(* Its list entry went before, under thread_list_lock_.                       *)
LEMMA GoneMove ==
  ASSUME ProcInv, UNCHANGED bad_handle_exit, NEW t \in Threads, pc[t] \in {"erase", "cleanup"},
         TypeOK', UNCHANGED <<state, hlock, signal, todo>>, handle' \subseteq handle,
         tstate' = [tstate EXCEPT ![t] = "DEAD"], tlock' = [tlock EXCEPT ![t] = None], Goto(t, "gone"),
         plock' = None, llock' = None,
         \A x \in Threads : InList(list', x) <=> InList(list, x) /\ x # t,
         state = "DEAD" => list' = <<>>
  PROVE  ProcInv'
<1> USE DEF ProcInv
<1>1. /\ pc'[t] = "gone" /\ \A v \in Threads : v # t => pc'[v] = pc[v]
      /\ tstate'[t] = "DEAD" /\ \A v \in Threads : v # t => tstate'[v] = tstate[v]
      /\ tlock'[t] = None /\ \A v \in Threads : v # t => tlock'[v] = tlock[v]
  BY Zenon, ProcTypes DEF Goto
<1>2. tstate[t] = "DYING" /\ plock = t
  BY Zenon DEF ThreadInv, LockInv, Leaves
<1>3. ThreadInv'
  BY <1>1, <1>2 DEF ThreadInv, Leaves, GoingDown
<1>4. TodoInv'
  <2>1. \A v \in Threads : tstate'[v] = "INITIALIZED" <=> tstate[v] = "INITIALIZED"
    BY Zenon, <1>1, <1>2
  <2>2. \A x \in Threads : pc[x] # "none" => pc'[x] # "none"
    BY Zenon, <1>1
  <2>3. \A x \in Threads : tstate[x] = "INITIALIZED" => tlock'[x] = tlock[x]
    BY Zenon, <1>1, <1>2
  <2> QED
    BY <1>1, <2>1, <2>2, <2>3 DEF TodoInv, Creates, Waits
<1>5. LockInv'
  <2>1. \A v \in Threads : v # t => llock # v /\ plock # v
    BY Zenon, <1>2 DEF LockInv
  <2>2. \A v \in Threads : plock' # v /\ llock' # v
    BY Zenon, ProcessAssumption
  <2>3. \A v, x \in Threads : tlock'[x] = v => x # t /\ tlock[x] = v /\ v # t
    BY <1>1, ProcessAssumption DEF LockInv, Creates
  <2> QED
    BY <1>1, <2>1, <2>2, <2>3 DEF LockInv, Leaves, Creates, Waits
<1>6. TableLockInv'
  BY Zenon DEF TableLockInv
<1>7. ProcessInv'
  BY Zenon, <1>1, <1>2, ProcessAssumption DEF ProcessInv
<1> QED
  BY Zenon, <1>3, <1>4, <1>5, <1>6, <1>7

(* RemoveThread: the last thread takes the process to DEAD. *)
LEMMA EraseMove ==
  ASSUME ProcInv, UNCHANGED bad_handle_exit, NEW t \in Threads, Erase(t)
  PROVE  ProcInv'
<1> USE DEF ProcInv
<1>1. /\ pc[t] = "erase" /\ llock = None /\ list' = list_delete(list, t)
      /\ UNCHANGED <<retcode, hlock, signal, handle, todo, panic>>
  BY Zenon DEF Erase, EraseLast
<1>2. /\ list' \in Seq(Threads) /\ NoRepeat(list')
      /\ \A x : InList(list', x) <=> InList(list, x) /\ x # t
  <2>1. PICK q, r : q = list /\ r = list'
    BY Zenon
  <2>2. q \in Seq(Threads) /\ NoRepeat(q) /\ r = list_delete(q, t)
    BY Zenon, <1>1, <2>1, ProcTypes
  <2> QED
    BY <2>1, <2>2, DeleteIn
<1>3. InList(list, t) /\ tstate[t] = "DYING" /\ plock = t /\ tlock[t] = t
  BY Zenon, <1>1 DEF ThreadInv, LockInv, Leaves
<1>4. state # "DEAD"
  <2>1. list # <<>>
    BY <1>3 DEF InList
  <2> QED
    BY Zenon, <2>1 DEF ProcessInv
<1>5. CASE Len(list) = 1
  <2>1. /\ llock' = t /\ state' = "DEAD" /\ pc' = [pc EXCEPT ![t] = "cleanup"]
        /\ UNCHANGED <<plock, tstate, tlock>>
    BY <1>5, Zenon DEF Erase, EraseLast, Goto
  <2>2. /\ pc' \in [Threads -> Labels] /\ pc'[t] = "cleanup"
        /\ \A v \in Threads : v # t => pc'[v] = pc[v]
    BY Zenon, <2>1, ProcTypes DEF Labels
  <2>3. \A x \in Threads : InList(list, x) => x = t
    <3>1. DOMAIN list = {1}
      BY <1>5, ProcTypes
    <3> QED
      BY Zenon, <1>3, <3>1 DEF InList
  <2>4. list' = <<>>
    BY Zenon, <1>2, <2>3, NothingIn
  <2>5. TypeOK'
    <3>1. {plock', llock', hlock'} \subseteq Threads \cup {None}
      BY <1>1, <2>1 DEF TypeOK
    <3>2. state' \in {"INITIAL", "RUNNING"} \cup GoingDown
      BY Zenon, <2>1 DEF GoingDown
    <3> QED
      BY <1>1, <1>2, <2>1, <2>2, <3>1, <3>2, Zenon DEF TypeOK, Labels
  <2>6. ThreadInv'
    BY Zenon, <1>1, <1>2, <1>3, <2>1, <2>2 DEF ThreadInv, Leaves
  <2>7. TodoInv'
    <3>1. \A x \in Threads : pc[x] # "none" => pc'[x] # "none"
      BY Zenon, <2>2
    <3> QED
      BY <1>1, <2>1, <2>2, <3>1 DEF TodoInv, Creates, Waits
  <2>8. LockInv'
    BY <1>1, <1>3, <2>1, <2>2, ProcessAssumption DEF LockInv, Leaves, Creates, Waits
  <2>9. TableLockInv'
    BY <1>1, Zenon DEF TableLockInv
  <2>10. ProcessInv'
    BY Zenon, <2>1, <2>2, <2>4 DEF ProcessInv, Waits
  <2> QED
    BY <2>5, <2>6, <2>7, <2>8, <2>9, <2>10
<1>6. CASE Len(list) # 1
  <2>1. /\ plock' = None /\ tstate' = [tstate EXCEPT ![t] = "DEAD"]
        /\ tlock' = [tlock EXCEPT ![t] = None] /\ Goto(t, "gone")
        /\ UNCHANGED <<state, llock>>
    BY <1>6, Zenon DEF Erase, EraseLast
  <2>2. TypeOK'
    <3>1. {plock', llock', hlock'} \subseteq Threads \cup {None}
      BY Zenon, <1>1, <2>1 DEF TypeOK
    <3>2. pc' \in [Threads -> Labels]
      BY Zenon, <2>1, ProcTypes DEF Labels, Goto
    <3>3. tstate' \in [Threads -> {"INITIAL", "INITIALIZED", "RUNNING", "DYING", "DEAD"}]
      BY Zenon, <2>1, ProcTypes
    <3>4. tlock' \in [Threads -> Threads \cup {None}]
      BY Zenon, <2>1, ProcTypes
    <3>5. {"INITIAL", "INITIALIZED", "RUNNING"} \cup GoingDown
            = {"INITIAL", "INITIALIZED", "RUNNING", "DYING", "DEAD"}
      BY DEF GoingDown
    <3> QED
      BY <1>1, <1>2, <2>1, <3>1, <3>2, <3>3, <3>4, <3>5, Zenon DEF TypeOK, Labels
  <2>3. handle' \subseteq handle /\ llock' = None /\ pc[t] \in {"erase", "cleanup"}
    BY Zenon, <1>1, <2>1
  <2>4. \A x \in Threads : InList(list', x) <=> InList(list, x) /\ x # t
    BY Zenon, <1>2
  <2>5. UNCHANGED <<state, hlock, signal, todo>>
    BY <1>1, <2>1, Zenon
  <2> QED
    BY <1>4, <2>1, <2>2, <2>3, <2>4, <2>5, GoneMove, Zenon
<1> QED
  BY Zenon, <1>5, <1>6

(* SetState(DEAD) is over: RemoveThread and Exiting return. *)
LEMMA CleanUpMove ==
  ASSUME ProcInv, UNCHANGED bad_handle_exit, NEW t \in Threads, CleanUp(t)
  PROVE  ProcInv'
<1>1. CASE Panic("relock")
  BY Zenon, <1>1, PanicSteps
<1>2. CASE ~Panic("relock")
  <2>1. /\ pc[t] = "cleanup" /\ handle' = {} /\ plock' = None /\ llock' = None
        /\ tstate' = [tstate EXCEPT ![t] = "DEAD"] /\ tlock' = [tlock EXCEPT ![t] = None]
        /\ Goto(t, "gone")
        /\ UNCHANGED <<state, retcode, list, hlock, signal, todo, panic>>
    BY <1>2, Zenon DEF CleanUp, CleanUpReleasing, process
  <2>2. state = "DEAD" /\ list = <<>> /\ ~InList(list, t)
    BY Zenon, <2>1 DEF ProcInv, ProcessInv, ThreadInv
  <2>3. TypeOK'
    <3>1. {plock', llock', hlock'} \subseteq Threads \cup {None}
      BY Zenon, <2>1 DEF ProcInv, TypeOK
    <3>2. pc' \in [Threads -> Labels]
      BY Zenon, <2>1, ProcTypes DEF ProcInv, Labels, Goto
    <3>3. tstate' \in [Threads -> {"INITIAL", "INITIALIZED", "RUNNING", "DYING", "DEAD"}]
      BY Zenon, <2>1, ProcTypes DEF ProcInv
    <3>4. tlock' \in [Threads -> Threads \cup {None}]
      BY Zenon, <2>1, ProcTypes DEF ProcInv
    <3>5. {"INITIAL", "INITIALIZED", "RUNNING"} \cup GoingDown
            = {"INITIAL", "INITIALIZED", "RUNNING", "DYING", "DEAD"}
      BY Zenon DEF GoingDown
    <3>6. handle' \subseteq Threads
      BY Zenon, <2>1
    <3> QED
      BY <2>1, <3>1, <3>2, <3>3, <3>4, <3>5, <3>6, Zenon DEF ProcInv, TypeOK, Labels
  <2>4. handle' \subseteq handle /\ pc[t] \in {"erase", "cleanup"}
    BY Zenon, <2>1
  <2>5. /\ \A x \in Threads : InList(list', x) <=> InList(list, x) /\ x # t
        /\ list' = <<>>
    BY Zenon, <2>1, <2>2
  <2>6. UNCHANGED <<state, hlock, signal, todo>>
    BY <2>1, Zenon
  <2> QED
    BY <2>1, <2>3, <2>4, <2>5, <2>6, GoneMove, Zenon
<1> QED
  BY Zenon, <1>1, <1>2

LEMMA ProcStepInv == ProcInv /\ [Next]_vars => ProcInv'
<1> SUFFICES ASSUME ProcInv, [Next]_vars PROVE ProcInv'
  BY Zenon
<1>1. CASE UNCHANGED vars
  <2>1. /\ UNCHANGED bad_handle_exit /\ UNCHANGED <<process, plocks, threads, pc, todo>>
        /\ UNCHANGED panic
    BY <1>1, Zenon DEF vars, process, plocks, threads
  <2>2. panic' \in {"no", "destroy", "start", "add", "exit", "relock"}
    BY Zenon, <2>1 DEF ProcInv, TypeOK
  <2> QED
    BY Zenon, <2>1, <2>2, PanicMove
<1>2. CASE Next
  <2>1. panic = "no" /\ UNCHANGED bad_handle_exit
    BY <1>2, Zenon DEF Next
  <2>2. CASE Start
    BY Zenon, <2>1, <2>2, StartMove
  <2>3. ASSUME NEW t \in Threads, KernelStep(t) PROVE ProcInv'
    BY Zenon, <2>1, <2>3, NoticeMove, StartChecksMove, AddMove, AddHandleMove, ExitMove, KillMove, SweepMove,
       KillChecksMove, KillThreadMove, KillDoneMove, ThreadExitMove, ExitingMove, RemoveMove, EraseMove,
       CleanUpMove, Zenon DEF KernelStep
  <2>4. ASSUME NEW t \in Threads, UserStep(t) PROVE ProcInv'
    BY <2>1, <2>4, UserMoves, CloseMove, CreateMove, Zenon DEF UserStep
  <2> QED
    BY <1>2, <2>2, <2>3, <2>4, Zenon DEF Next
<1> QED
  BY Zenon, <1>1, <1>2

(* For any set of threads: a process is DEAD only with an empty thread list   *)
(* and every thread it ever started DYING or DEAD; a thread that is gone      *)
(* holds no mutex of the process or of a thread, and not the handle table's   *)
(* unless BadHandle ended it (ProcessDispatcher::RemoveThread and SetState,   *)
(* UserThread::Exiting).                                                      *)
THEOREM GoneForGoodAlways == Spec => []GoneForGood
<1>1. ProcInv => GoneForGood
  <2> SUFFICES ASSUME ProcInv PROVE GoneForGood
    BY Zenon
  <2> USE DEF ProcInv
  <2>1. ASSUME state = "DEAD", NEW t \in Threads PROVE tstate[t] \in GoingDown \cup {"INITIAL"}
    <3>1. \A u \in Threads : ~InList(list, u)
      BY <2>1 DEF ProcessInv, InList
    <3>2. \A u \in Threads : pc[u] \in {"none", "cleanup", "gone"}
      BY Zenon, <3>1 DEF ThreadInv
    <3>3. tstate[t] # "INITIALIZED"
      BY Zenon, <3>2 DEF TodoInv, Creates
    <3>4. pc[t] = "none" => tstate[t] = "INITIAL"
      BY Zenon, <3>3 DEF ThreadInv
    <3>5. pc[t] # "none" => tstate[t] \in GoingDown
      BY Zenon, <3>2 DEF ThreadInv, Leaves, GoingDown
    <3> QED
      BY Zenon, <3>4, <3>5
  <2>2. ASSUME NEW t \in Threads, pc[t] = "gone"
        PROVE  t # plock /\ t # llock /\ \A u \in Threads : tlock[u] # t
    BY Zenon, <2>2 DEF LockInv, Waits, Leaves, Creates
  <2>3. ASSUME ~bad_handle_exit PROVE hlock = None
    BY <2>3, Zenon DEF TableLockInv
  <2>4. ASSUME ~bad_handle_exit, NEW t \in Threads, pc[t] = "gone"
        PROVE  t \notin {plock, llock, hlock} /\ \A u \in Threads : tlock[u] # t
    <3>1. t # hlock
      BY Zenon, <2>3, <2>4, ProcessAssumption
    <3> QED
      BY Zenon, <2>2, <2>4, <3>1
  <2>5. state = "DEAD" => list = <<>> /\ \A t \in Threads : tstate[t] \in GoingDown \cup {"INITIAL"}
    BY Zenon, <2>1 DEF ProcessInv
  <2> QED
    BY <2>4, <2>5, Zenon DEF GoneForGood
<1> QED
  BY <1>1, ProcInit, ProcStepInv, PTL DEF Spec

(* Only the end of a sweep and of the clean-up release thread_list_lock_. *)
LEMMA ListLockReleased ==
  ASSUME [Next]_vars, llock # None, llock' = None
  PROVE  \E t \in Threads : KillDone(t) \/ CleanUp(t)
<1>1. ~(UNCHANGED vars)
  BY Zenon DEF vars
<1>2. ~Start
  BY Zenon DEF Start, Panic, plocks
<1>3. ASSUME NEW t \in Threads, UserStep(t) PROVE FALSE
  BY <1>3, Zenon DEF UserStep, SysThreadExit, SysExit, Crash, BadHandle, CloseThreadHandle, ThreadCreate, plocks
<1>4. ASSUME NEW t \in Threads, KernelStep(t) PROVE KillDone(t) \/ CleanUp(t)
  <2>1. ~(NoticeKill(t) \/ StartChecks(t) \/ AddThread(t) \/ AddHandle(t))
    BY Zenon DEF NoticeKill, StartChecks, AddThread, Add, AddHandle, Panic, plocks
  <2>2. ~(Exit(t) \/ Kill(t) \/ KillChecks(t) \/ KillThread(t))
    BY Zenon DEF Exit, Kill, KillChecks, KillThread, Panic, plocks
  <2>3. ~(ThreadExit(t) \/ Exiting(t) \/ RemoveThread(t))
    BY Zenon DEF ThreadExit, Exiting, RemoveThread, Panic, plocks
  <2>4. ~(KillAllThreads(t) \/ Erase(t))
    BY Zenon DEF KillAllThreads, Erase, EraseLast
  <2> QED
    BY <1>4, <2>1, <2>2, <2>3, <2>4, Zenon DEF KernelStep
<1> QED
  BY <1>1, <1>2, <1>3, <1>4, Zenon DEF Next

(* A process that is dying keeps its return code. *)
LEMMA ReturnCodeStands ==
  ASSUME [Next]_vars, state = "DYING"
  PROVE  retcode' = retcode
<1>1. CASE UNCHANGED vars
  BY <1>1, Zenon DEF vars
<1>2. CASE Start
  BY <1>2, Zenon DEF Start, Panic, process
<1>3. ASSUME NEW t \in Threads, UserStep(t) PROVE retcode' = retcode
  BY <1>3, Zenon DEF UserStep, SysThreadExit, SysExit, Crash, BadHandle, CloseThreadHandle, ThreadCreate, process
<1>4. ASSUME NEW t \in Threads, KernelStep(t) PROVE retcode' = retcode
  <2>1. CASE NoticeKill(t) \/ StartChecks(t) \/ AddThread(t) \/ AddHandle(t)
    BY <2>1, Zenon DEF NoticeKill, StartChecks, AddThread, Add, AddHandle, Panic, process
  <2>2. CASE KillAllThreads(t) \/ KillChecks(t) \/ KillThread(t) \/ KillDone(t)
    BY <2>2, Zenon DEF KillAllThreads, KillChecks, KillThread, KillDone, process
  <2>3. CASE ThreadExit(t) \/ Exiting(t) \/ RemoveThread(t)
    BY <2>3, Zenon DEF ThreadExit, Exiting, RemoveThread, Panic, process
  <2>4. CASE Erase(t) \/ CleanUp(t)
    BY <2>4, Zenon DEF Erase, EraseLast, CleanUp, CleanUpReleasing, Panic, process
  <2>5. CASE Exit(t)
    BY Zenon, <2>5 DEF Exit, Panic, process
  <2>6. CASE Kill(t)
    BY Zenon, <2>6 DEF Kill, GoingDown
  <2> QED
    BY <1>4, <2>1, <2>2, <2>3, <2>4, <2>5, <2>6, Zenon DEF KernelStep
<1> QED
  BY <1>1, <1>2, <1>3, <1>4, Zenon DEF Next

(* For any set of threads: KillAllThreads gives the list back only when every *)
(* thread on it is going down, those added before it took the list included;  *)
(* and the return code of a process that is dying stands                      *)
(* (ProcessDispatcher::Exit, Kill and KillAllThreads).                        *)
THEOREM ProcessStepsAlways == Spec => ProcessSteps
<1>1. ASSUME ProcInv, [Next]_vars
      PROVE  /\ (llock # None /\ llock' = None /\ state # "DEAD")
                  => \A i \in DOMAIN list' : tstate'[list'[i]] \in GoingDown
             /\ state = "DYING" => retcode' = retcode
  <2>1. ASSUME llock # None, llock' = None, state # "DEAD", NEW i \in DOMAIN list'
        PROVE  tstate'[list'[i]] \in GoingDown
    <3>1. PICK t \in Threads : KillDone(t) \/ CleanUp(t)
      BY Zenon, <1>1, <2>1, ListLockReleased
    <3>2. ~CleanUp(t)
      BY <1>1, <2>1, Zenon DEF ProcInv, ProcessInv, CleanUp, CleanUpReleasing
    <3>3. /\ pc[t] = "kill" /\ todo[t] = <<>> /\ UNCHANGED <<list, tstate>>
          /\ llock' # llock => plock = t
      BY Zenon, <3>1, <3>2 DEF KillDone, process, threads
    <3>4. llock = t
      BY Zenon, <1>1, <2>1, <3>3 DEF ProcInv, LockInv, Waits
    <3>5. list[i] \in Threads /\ InList(list, list[i])
      BY <1>1, <2>1, <3>3, ProcTypes DEF ProcInv, InList
    <3>6. ~InList(todo[t], list[i])
      BY <3>3 DEF InList
    <3>7. tstate[list[i]] \in GoingDown
      BY Zenon, <1>1, <3>3, <3>4, <3>5, <3>6 DEF ProcInv, ProcessInv, Waits
    <3> QED
      BY Zenon, <3>3, <3>7
  <2>2. state = "DYING" => retcode' = retcode
    BY Zenon, <1>1, ReturnCodeStands
  <2> QED
    BY Zenon, <2>1, <2>2
<1> QED
  BY <1>1, ProcInit, ProcStepInv, PTL DEF Spec, ProcessSteps
=============================================================================
