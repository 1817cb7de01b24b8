------------------------------- MODULE Process -------------------------------
(***************************************************************************)
(* The life of one process and of its user threads                         *)
(* (kernel/lib/magenta/process_dispatcher.cpp, user_thread.cpp).           *)
(*                                                                         *)
(* Three kinds of mutex are modelled: the process's state_lock_ (plock)    *)
(* and thread_list_lock_ (llock), and a state_lock_ per thread (tlock);    *)
(* the handle_table_lock_ (hlock) matters when the table is torn down.     *)
(* A step ends where the code acquires a mutex that another thread may     *)
(* hold, or reads a state without the mutex that protects it.  The build   *)
(* is the default one, with DEBUG_ASSERT enabled: an assertion that fails  *)
(* stops the machine, and panic names it.                                  *)
(*                                                                         *)
(* Only threads of the process ever end it: by sys_exit, by an exception   *)
(* nobody handles, or by a bad handle under MX_POLICY_BAD_HANDLE_EXIT.     *)
(***************************************************************************)
EXTENDS Lists

CONSTANTS Threads,        \* the user threads the process may come to have
          Main,           \* the one that ProcessDispatcher::Start creates
          None            \* no thread

ASSUME ProcessAssumption == Main \in Threads /\ None \notin Threads

VARIABLES state,    \* state_ of the process
          retcode,  \* retcode_
          bad_handle_exit, \* whether bad_handle_policy_ is MX_POLICY_BAD_HANDLE_EXIT
          list,     \* thread_list_
          plock, llock, hlock, \* holders of the process's mutexes
          tstate,   \* state_ of each thread
          tlock,    \* holder of each thread's state_lock_
          signal,   \* threads with THREAD_SIGNAL_KILL pending
          handle,   \* threads whose ThreadDispatcher has a handle
          pc,       \* what each thread is about to do
          todo,     \* threads it has still to Kill()
          panic     \* the assertion that failed, or "no"

vars == <<bad_handle_exit, state, retcode, list, plock, llock, hlock, tstate, tlock, signal, handle, pc, todo, panic>>
plocks == <<plock, llock, hlock>>
process == <<state, retcode, list>>
threads == <<tstate, tlock, signal, handle>>

GoingDown == {"DYING", "DEAD"}

Goto(t, l) == pc' = [pc EXCEPT ![t] = l]

Panic(why) ==
    /\ panic' = why
    /\ UNCHANGED <<process, plocks, threads, pc, todo>>

Init ==
    /\ bad_handle_exit \in BOOLEAN
    /\ state = "INITIAL" /\ retcode = 0 /\ list = <<>>
    /\ plock = None /\ llock = None /\ hlock = None
    /\ tstate = [t \in Threads |-> "INITIAL"]
    /\ tlock = [t \in Threads |-> None]
    /\ signal = {} /\ handle = {}
    /\ pc = [t \in Threads |-> "none"]
    /\ todo = [t \in Threads |-> <<>>]
    /\ panic = "no"

-----------------------------------------------------------------------------
\* CreateUserThread, at a failure: without memory for the object nothing has
\* happened; when Initialize fails the object is destroyed in state INITIAL.
CreateFails ==
    \/ panic' = panic
    \/ panic' = "destroy"

\* ProcessDispatcher::Start, by a thread of another process.  Nobody can
\* hold the mutexes it takes after plock: the process has no thread yet.
Start ==
    /\ plock = None
    /\ \/ state # "INITIAL" /\ Panic("start")
       \/ /\ state = "INITIAL"
          /\ CreateFails
          /\ state' = IF panic' = "no" THEN "DEAD" ELSE state
          /\ UNCHANGED <<retcode, list, plocks, threads, pc, todo>>
       \/ /\ state = "INITIAL"
          /\ state' = "RUNNING"
          /\ list' = Append(list, Main)
          /\ tstate' = [tstate EXCEPT ![Main] = "RUNNING"]
          /\ Goto(Main, "user")
          /\ UNCHANGED <<retcode, plocks, tlock, signal, handle, todo, panic>>

\* What a thread in user mode asks for next.
SysThreadExit(t) ==
    /\ pc[t] = "user"
    /\ Goto(t, "thread_exit")
    /\ UNCHANGED <<process, plocks, threads, todo, panic>>

SysExit(t) ==
    /\ pc[t] = "user"
    /\ Goto(t, "exit")
    /\ UNCHANGED <<process, plocks, threads, todo, panic>>

\* An exception that no handler takes: process->Kill(), thread->Exit().
Crash(t) ==
    /\ pc[t] = "user"
    /\ Goto(t, "crash")
    /\ UNCHANGED <<process, plocks, threads, todo, panic>>

\* BadHandle() is called inside the scope of the AutoLock of the table.
BadHandle(t) ==
    /\ pc[t] = "user" /\ bad_handle_exit
    /\ hlock = None
    /\ hlock' = t
    /\ Goto(t, "exit")
    /\ UNCHANGED <<process, plock, llock, threads, todo, panic>>

\* The last handle to thread u is closed: ~ThreadDispatcher, DispatcherClosed.
CloseThreadHandle(t, u) ==
    /\ pc[t] = "user" /\ u \in handle
    /\ hlock = None
    /\ handle' = handle \ {u}
    /\ todo' = [todo EXCEPT ![t] = <<u>>]
    /\ Goto(t, "kill")
    /\ UNCHANGED <<process, plocks, tstate, tlock, signal, panic>>

\* The kill signal is seen on the way back to user mode: thread_exit(0).
NoticeKill(t) ==
    /\ pc[t] = "user" /\ t \in signal
    /\ signal' = signal \ {t}
    /\ Goto(t, "exiting")
    /\ UNCHANGED <<process, plocks, tstate, tlock, handle, todo, panic>>

-----------------------------------------------------------------------------
\* sys_thread_create up to user_thread->Start(), which locks the new thread.
ThreadCreate(t, u) ==
    /\ pc[t] = "user"
    /\ tstate[u] = "INITIAL" /\ u # Main
    /\ \/ /\ tstate' = [tstate EXCEPT ![u] = "INITIALIZED"]
          /\ tlock' = [tlock EXCEPT ![u] = t]
          /\ todo' = [todo EXCEPT ![t] = <<u>>]
          /\ Goto(t, "start")
          /\ UNCHANGED panic
       \/ CreateFails /\ UNCHANGED <<tstate, tlock, todo, pc>>
    /\ UNCHANGED <<process, plocks, signal, handle>>

\* AddThread reads state_ without state_lock_.
StartChecks(t) ==
    /\ pc[t] = "start"
    /\ IF state \in GoingDown
       THEN Panic("add")
       ELSE Goto(t, "add") /\ UNCHANGED <<process, plocks, threads, todo, panic>>

\* ... and then adds the thread, which runs from here.
Add(t) ==
    LET u == Head(todo[t]) IN
    /\ pc[t] = "add"
    /\ list' = Append(list, u)
    /\ tstate' = [tstate EXCEPT ![u] = "RUNNING"]
    /\ tlock' = [tlock EXCEPT ![u] = None]
    /\ pc' = [pc EXCEPT ![t] = "add_handle", ![u] = "user"]
    /\ UNCHANGED <<state, retcode, plocks, signal, handle, todo, panic>>

AddThreadUnlocked(t) == Add(t)

AddThread(t) == llock = None /\ Add(t)

\* The rest of sys_thread_create: a dispatcher and a handle for the thread.
AddHandle(t) ==
    /\ pc[t] = "add_handle"
    /\ hlock = None
    /\ handle' = handle \union {Head(todo[t])}
    /\ todo' = [todo EXCEPT ![t] = <<>>]
    /\ Goto(t, "user")
    /\ UNCHANGED <<process, plocks, tstate, tlock, signal, panic>>

-----------------------------------------------------------------------------
\* ProcessDispatcher::Exit up to KillAllThreads; state_lock_ is kept.
Exit(t) ==
    /\ pc[t] = "exit"
    /\ plock = None
    /\ IF state # "RUNNING"
       THEN Panic("exit")
       ELSE /\ plock' = t
            /\ retcode' \in {0, 1}
            /\ state' = "DYING"
            /\ Goto(t, "sweep")
            /\ UNCHANGED <<list, llock, hlock, threads, todo, panic>>

KillRecodes(t) ==
    /\ pc[t] = "crash"
    /\ plock = None
    /\ retcode' = -1
    /\ IF state \in GoingDown
       THEN /\ Goto(t, "thread_exit")
            /\ UNCHANGED <<state, plock>>
       ELSE /\ plock' = t
            /\ state' = "DYING"
            /\ Goto(t, "sweep")
    /\ UNCHANGED <<list, llock, hlock, threads, todo, panic>>

\* ProcessDispatcher::Kill.  The thread that crashed is on the list, so the
\* list is not empty; a process that is dying already keeps its return code
\* and its threads are not killed again.
Kill(t) ==
    /\ pc[t] = "crash"
    /\ plock = None
    /\ IF state \in GoingDown
       THEN /\ Goto(t, "thread_exit")
            /\ UNCHANGED <<state, retcode, plock>>
       ELSE /\ plock' = t
            /\ retcode' = -1
            /\ state' = "DYING"
            /\ Goto(t, "sweep")
    /\ UNCHANGED <<list, llock, hlock, threads, todo, panic>>

KillAllThreads(t) ==
    /\ pc[t] = "sweep"
    /\ llock = None
    /\ llock' = t
    /\ todo' = [todo EXCEPT ![t] = list]
    /\ Goto(t, "kill")
    /\ UNCHANGED <<process, plock, hlock, threads, panic>>

\* UserThread::Kill, the check before its state_lock_ is taken.
KillChecks(t) ==
    /\ pc[t] = "kill" /\ todo[t] # <<>>
    /\ IF tstate[Head(todo[t])] \in GoingDown
       THEN todo' = [todo EXCEPT ![t] = Tail(@)] /\ UNCHANGED pc
       ELSE Goto(t, "kill_locked") /\ UNCHANGED todo
    /\ UNCHANGED <<process, plocks, threads, panic>>

\* ... and the rest of it, under the lock.
KillThread(t) ==
    LET u == Head(todo[t]) IN
    /\ pc[t] = "kill_locked"
    /\ tlock[u] = None
    /\ IF tstate[u] \in GoingDown
       THEN UNCHANGED <<tstate, signal>>
       ELSE tstate' = [tstate EXCEPT ![u] = "DYING"] /\ signal' = signal \union {u}
    /\ todo' = [todo EXCEPT ![t] = Tail(@)]
    /\ Goto(t, "kill")
    /\ UNCHANGED <<process, plocks, tlock, handle, panic>>

\* All are killed.  A thread that swept the list releases both mutexes and
\* exits; one that closed a handle returns from its system call.
KillDone(t) ==
    /\ pc[t] = "kill" /\ todo[t] = <<>>
    /\ IF plock = t
       THEN plock' = None /\ llock' = None /\ Goto(t, "thread_exit")
       ELSE Goto(t, "user") /\ UNCHANGED <<plock, llock>>
    /\ UNCHANGED <<process, hlock, threads, todo, panic>>

-----------------------------------------------------------------------------
\* UserThread::Exit, then thread_exit, which calls Exiting.
ThreadExit(t) ==
    /\ pc[t] = "thread_exit"
    /\ tlock[t] = None
    /\ tstate' = [tstate EXCEPT ![t] = "DYING"]
    /\ Goto(t, "exiting")
    /\ UNCHANGED <<process, plocks, tlock, signal, handle, todo, panic>>

\* UserThread::Exiting up to the locks that RemoveThread takes.
Exiting(t) ==
    /\ pc[t] = "exiting"
    /\ tlock[t] = None
    /\ IF tstate[t] # "DYING"
       THEN Panic("exiting")
       ELSE /\ tlock' = [tlock EXCEPT ![t] = t]
            /\ Goto(t, "remove")
            /\ UNCHANGED <<process, plocks, tstate, signal, handle, todo, panic>>

RemoveThread(t) ==
    /\ pc[t] = "remove"
    /\ plock = None
    /\ plock' = t
    /\ Goto(t, "erase")
    /\ UNCHANGED <<process, llock, hlock, threads, todo, panic>>

\* SetState(DEAD) needs the handle table; otherwise Exiting ends here.
EraseLast(t, last) ==
    /\ pc[t] = "erase"
    /\ llock = None
    /\ list' = list_delete(list, t)
    /\ IF last
       THEN /\ llock' = t
            /\ state' = "DEAD"
            /\ Goto(t, "cleanup")
            /\ UNCHANGED <<plock, tstate, tlock>>
       ELSE /\ plock' = None
            /\ tstate' = [tstate EXCEPT ![t] = "DEAD"]
            /\ tlock' = [tlock EXCEPT ![t] = None]
            /\ Goto(t, "gone")
            /\ UNCHANGED <<state, llock>>
    /\ UNCHANGED <<retcode, hlock, signal, handle, todo, panic>>

EraseEarly(t) == EraseLast(t, Len(list) \in {1, 2})

Erase(t) == EraseLast(t, Len(list) = 1)

\* The table is emptied.  Kill() of each thread in it returns at its first
\* check.  Then RemoveThread and Exiting return.
CleanUpReleasing(t, unlocked) ==
    /\ pc[t] = "cleanup"
    /\ \/ hlock = t /\ Panic("relock")
       \/ /\ hlock = None
          /\ handle' = {}
          /\ plock' = unlocked /\ llock' = None
          /\ tstate' = [tstate EXCEPT ![t] = "DEAD"]
          /\ tlock' = [tlock EXCEPT ![t] = None]
          /\ Goto(t, "gone")
          /\ UNCHANGED <<process, hlock, signal, todo, panic>>

CleanUpKeepsLock(t) == CleanUpReleasing(t, t)

CleanUp(t) == CleanUpReleasing(t, None)

-----------------------------------------------------------------------------
\* What a thread does in the kernel, and once a kill signal is pending.
KernelStep(t) ==
    \/ NoticeKill(t) \/ StartChecks(t) \/ AddThread(t) \/ AddHandle(t)
    \/ Exit(t) \/ Kill(t) \/ KillAllThreads(t) \/ KillChecks(t) \/ KillThread(t) \/ KillDone(t)
    \/ ThreadExit(t) \/ Exiting(t) \/ RemoveThread(t) \/ Erase(t) \/ CleanUp(t)

UserStep(t) ==
    \/ SysThreadExit(t) \/ SysExit(t) \/ Crash(t) \/ BadHandle(t)
    \/ \E u \in Threads : CloseThreadHandle(t, u) \/ ThreadCreate(t, u)

Next ==
    /\ panic = "no"
    /\ UNCHANGED bad_handle_exit
    /\ \/ Start
       \/ \E t \in Threads : KernelStep(t) \/ UserStep(t)

Spec == Init /\ [][Next]_vars

FairSpec == Spec /\ \A t \in Threads : SF_vars(panic = "no" /\ KernelStep(t) /\ UNCHANGED bad_handle_exit)

-----------------------------------------------------------------------------
\* Types; and whether a thread exits by itself or has seen a kill signal, it
\* has been marked DYING when it runs Exiting (the assertion of
\* user_thread.cpp:187 never fires).
TypeOK ==
    /\ bad_handle_exit \in BOOLEAN
    /\ state \in {"INITIAL", "RUNNING"} \union GoingDown
    /\ retcode \in {-1, 0, 1}
    /\ list \in Seq(Threads) /\ NoRepeat(list)
    /\ {plock, llock, hlock} \subseteq Threads \union {None}
    /\ tstate \in [Threads -> {"INITIAL", "INITIALIZED", "RUNNING"} \union GoingDown]
    /\ tlock \in [Threads -> Threads \union {None}]
    /\ signal \subseteq Threads /\ handle \subseteq Threads
    /\ pc \in [Threads -> {"none", "user", "start", "add", "add_handle", "exit", "crash", "sweep", "kill", "kill_locked",
                           "thread_exit", "exiting", "remove", "erase", "cleanup", "gone"}]
    /\ todo \in [Threads -> Seq(Threads)]
    /\ panic \in {"no", "destroy", "start", "add", "exit", "relock"}

\* A process is DEAD only when no thread is left in it.  Every thread there
\* ever was is DYING or DEAD by then, so that Kill() from the clean-up of the
\* handle table never goes for a lock that Exiting holds (the recursion that
\* user_thread.cpp:147-150 is about).  And a thread that is gone holds no
\* mutex, unless it was ended for a bad handle: BadHandle() never returns to
\* the scope that would unlock the handle table.
GoneForGood ==
    /\ TypeOK
    /\ state = "DEAD" => list = <<>> /\ \A t \in Threads : tstate[t] \in GoingDown \union {"INITIAL"}
    /\ ~bad_handle_exit => \A t \in Threads : pc[t] = "gone" => t \notin {plock, llock, hlock} /\ \A u \in Threads : tlock[u] # t

\* When KillAllThreads gives the list back, every thread on it is going down.
\* And the return code of an Exit that is in progress stands: a later Kill does
\* not replace it (process_dispatcher.cpp:166-171).
ProcessSteps ==
    [][/\ (llock # None /\ llock' = None /\ state # "DEAD")
             => \A i \in DOMAIN list' : tstate'[list'[i]] \in GoingDown
       /\ state = "DYING" => retcode' = retcode]_vars

\* "the last thread exiting will transition us to DEAD"
\* (process_dispatcher.cpp:177-178): a dying process dies.
DyingDies == state = "DYING" ~> (state = "DEAD" \/ panic # "no")
=============================================================================
