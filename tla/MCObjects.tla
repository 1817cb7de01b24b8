------------------------------ MODULE MCObjects ------------------------------
(***************************************************************************)
(* Instances of Futex and KernelSync in one state graph, each running      *)
(* alone: the variables of the other stay idle.                            *)
(***************************************************************************)
EXTENDS Futex, KernelSync, TLC

VARIABLE component

\* All objects together are too much for three threads.
MCUses == {{"mutex", "cond"}, {"mutex", "sem"}, {"sem", "event"}}

NoFutex == word = 0 /\ node = 0 /\ table = 0 /\ state = 0 /\ result = 0
NoSync == /\ w = 0 /\ pc = 0 /\ gaveup = 0 /\ stray = FALSE /\ panic = FALSE /\ together = 0
          /\ count = 0 /\ holder = 0 /\ inside = 0 /\ flag = 0 /\ owes = 0
          /\ signalled = 0 /\ autounsignal = 0 /\ units = 0 /\ posts = 0 /\ taken = 0

ObjectsInit ==
  \/ component = "futex" /\ FutexInit /\ NoSync
  \/ component = "sync" /\ SyncInit /\ NoFutex

ObjectsNext ==
  /\ UNCHANGED component
  /\ \/ component = "futex" /\ FutexNext /\ UNCHANGED syncVars
     \/ component = "sync" /\ SyncNext /\ UNCHANGED futexVars

ObjectsSpec == ObjectsInit /\ [][ObjectsNext]_<<component, futexVars, syncVars>>

\* A wait that another one's handler ended leaves the counts wrong for good,
\* and they may go on falling: what comes after is not followed.
NoStray == ~stray

\* Threads are alike, and so are words.
Symmetry == Permutations(Threads) \cup Permutations(Keys)

-----------------------------------------------------------------------------
\* futex_node.cpp: the lists and the table are sound (ListsSound).
FutexListsSound == component = "futex" => ListsSound

\* futex_context.cpp: every step on the pointer lists and the table is a step
\* of the futex queues, or none (ImplementsFutexQueue, for this composition).
FutexImplementsQueue ==
  (component = "futex" => FQ!FQInit) /\ [][component = "futex" => FQ!FQStep]_<<component, futexVars>>

\* mutex.c, semaphore.c: at most one thread owns a mutex, and units are neither
\* lost nor granted twice, however timeouts race with releases and posts; and
\* nobody sleeps on them, a condition or an event without a reason.
SyncSound == component = "sync" => Exclusion /\ UnitsConserved /\ SleepersHaveReason
=============================================================================
