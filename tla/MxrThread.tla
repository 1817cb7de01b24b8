----------------------------- MODULE MxrThread ------------------------------
(***************************************************************************)
(* The life of a thread of the runtime library                             *)
(* (system/ulib/runtime/thread.c): an owner creates it and joins or        *)
(* detaches it once; the thread returns from its entry at any time.  The   *)
(* two meet in the page that holds the mxr_thread_t, which one of them     *)
(* must unmap when neither needs it.  mxr_thread_get_handle changes        *)
(* nothing.                                                                *)
(*                                                                         *)
(* What is done under state_lock is one action: unlocking the mutex is its *)
(* last access to the page.                                                *)
(***************************************************************************)
EXTENDS Naturals

CONSTANTS ReturnValues  \* what an entry may return; 0 is the page's first content

ASSUME ReturnValuesAssumption == 0 \notin ReturnValues

VARIABLES thr_page,      \* "none", "mapped" or "unmapped"
          thr_handle,    \* thread->handle: "none", "open"; "closed" once closed
          return_value,  \* thread->return_value
          thr_state,     \* thread->state
          thr_child,     \* where the thread is
          thr_owner,     \* where the owner is
          thr_returned,  \* history: what the entry returned
          thr_got,       \* what mxr_thread_join gave, or 0
          thr_closes,    \* history: calls of mx_handle_close on the handle
          thr_fault      \* the page was touched, or unmapped, when not mapped

mxrtVars == <<thr_page, thr_handle, return_value, thr_state, thr_child, thr_owner,
              thr_returned, thr_got, thr_closes, thr_fault>>

MxrThreadInit ==
  /\ thr_page = "none" /\ thr_handle = "none" /\ return_value = 0 /\ thr_state = "JOINABLE"
  /\ thr_child = "none" /\ thr_owner = "start"
  /\ thr_returned = 0 /\ thr_got = 0 /\ thr_closes = 0 /\ thr_fault = FALSE

Touches == thr_fault' = (thr_fault \/ thr_page # "mapped")

-----------------------------------------------------------------------------
(* thread_cleanup, of either side: "close" and then "unmap". *)

CloseHandle ==
  /\ Touches
  /\ thr_handle' = "closed"
  /\ thr_closes' = thr_closes + (IF thr_handle = "open" THEN 1 ELSE 2)

deallocate_thread_page ==
  /\ Touches
  /\ thr_page' = "unmapped"

-----------------------------------------------------------------------------
(* The owner. *)

(* mxr_thread_create.  The thread runs before its handle is stored. *)
mxr_thread_create ==
  /\ thr_owner = "start"
  /\ thr_page' = "mapped"
  /\ \/ thr_child' = "entry" /\ thr_owner' = "created"
     \/ thr_child' = "none" /\ thr_owner' = "create failed"
  /\ UNCHANGED <<thr_handle, return_value, thr_state, thr_returned, thr_got, thr_closes, thr_fault>>

CreateFails ==
  /\ thr_owner = "create failed"
  /\ deallocate_thread_page
  /\ thr_owner' = "end"
  /\ UNCHANGED <<thr_handle, return_value, thr_state, thr_child, thr_returned, thr_got, thr_closes>>

StoreHandle ==
  /\ thr_owner = "created"
  /\ thr_handle' = "open"
  /\ Touches
  /\ thr_owner' = "own"
  /\ UNCHANGED <<thr_page, return_value, thr_state, thr_child, thr_returned, thr_got, thr_closes>>

mxr_thread_join ==
  /\ thr_owner = "own"
  /\ Touches
  /\ \/ thr_state = "JOINABLE" /\ thr_state' = "JOINED" /\ thr_owner' = "join wait"
     \/ thr_state = "DONE" /\ thr_owner' = "join close" /\ UNCHANGED thr_state
  /\ UNCHANGED <<thr_page, thr_handle, return_value, thr_child, thr_returned, thr_got, thr_closes>>

(* The thread is signalled when it has exited. *)
JoinWait ==
  /\ thr_owner = "join wait" /\ thr_child = "exited"
  /\ thr_owner' = "join close"
  /\ UNCHANGED <<thr_page, thr_handle, return_value, thr_state, thr_child,
                 thr_returned, thr_got, thr_closes, thr_fault>>

JoinClose ==
  /\ thr_owner = "join close"
  /\ CloseHandle
  /\ thr_owner' = "join unmap"
  /\ UNCHANGED <<thr_page, return_value, thr_state, thr_child, thr_returned, thr_got>>

JoinUnmap ==
  /\ thr_owner = "join unmap"
  /\ thr_got' = return_value
  /\ deallocate_thread_page
  /\ thr_owner' = "end"
  /\ UNCHANGED <<thr_handle, return_value, thr_state, thr_child, thr_returned, thr_closes>>

(* Mutant: a thread that is done is left alone. *)
mxr_thread_detachLeaks ==
  /\ thr_owner = "own"
  /\ Touches
  /\ IF thr_state = "JOINABLE" THEN thr_state' = "DETACHED" ELSE UNCHANGED thr_state
  /\ thr_owner' = "end"
  /\ UNCHANGED <<thr_page, thr_handle, return_value, thr_child, thr_returned, thr_got, thr_closes>>

mxr_thread_detach ==
  /\ thr_owner = "own"
  /\ Touches
  /\ \/ thr_state = "JOINABLE" /\ thr_state' = "DETACHED" /\ thr_owner' = "end"
     \/ thr_state = "DONE" /\ thr_owner' = "detach close" /\ UNCHANGED thr_state
  /\ UNCHANGED <<thr_page, thr_handle, return_value, thr_child, thr_returned, thr_got, thr_closes>>

DetachClose ==
  /\ thr_owner = "detach close"
  /\ CloseHandle
  /\ thr_owner' = "detach unmap"
  /\ UNCHANGED <<thr_page, return_value, thr_state, thr_child, thr_returned, thr_got>>

DetachUnmap ==
  /\ thr_owner = "detach unmap"
  /\ deallocate_thread_page
  /\ thr_owner' = "end"
  /\ UNCHANGED <<thr_handle, return_value, thr_state, thr_child, thr_returned, thr_got, thr_closes>>

-----------------------------------------------------------------------------
(* thread_trampoline. *)

EntryReturns ==
  /\ thr_child = "entry"
  /\ \E v \in ReturnValues : return_value' = v /\ thr_returned' = v
  /\ Touches
  /\ thr_child' = "returned"
  /\ UNCHANGED <<thr_page, thr_handle, thr_state, thr_owner, thr_got, thr_closes>>

Finish ==
  /\ thr_child = "returned"
  /\ Touches
  /\ \/ thr_state = "JOINED" /\ thr_child' = "exit" /\ UNCHANGED thr_state
     \/ thr_state = "JOINABLE" /\ thr_state' = "DONE" /\ thr_child' = "exit"
     \/ thr_state = "DETACHED" /\ thr_child' = "close" /\ UNCHANGED thr_state
  /\ UNCHANGED <<thr_page, thr_handle, return_value, thr_owner, thr_returned, thr_got, thr_closes>>

ChildClose ==
  /\ thr_child = "close"
  /\ CloseHandle
  /\ thr_child' = "unmap"
  /\ UNCHANGED <<thr_page, return_value, thr_state, thr_owner, thr_returned, thr_got>>

ChildUnmap ==
  /\ thr_child = "unmap"
  /\ deallocate_thread_page
  /\ thr_child' = "exit"
  /\ UNCHANGED <<thr_handle, return_value, thr_state, thr_owner, thr_returned, thr_got, thr_closes>>

mx_thread_exit ==
  /\ thr_child = "exit"
  /\ thr_child' = "exited"
  /\ UNCHANGED <<thr_page, thr_handle, return_value, thr_state, thr_owner,
                 thr_returned, thr_got, thr_closes, thr_fault>>

OwnerSteps ==
  \/ mxr_thread_create \/ CreateFails \/ StoreHandle
  \/ mxr_thread_join \/ JoinWait \/ JoinClose \/ JoinUnmap
  \/ mxr_thread_detach \/ DetachClose \/ DetachUnmap

ChildSteps == EntryReturns \/ Finish \/ ChildClose \/ ChildUnmap \/ mx_thread_exit

MxrThreadNext == OwnerSteps \/ ChildSteps

MxrThreadSpec == MxrThreadInit /\ [][MxrThreadNext]_mxrtVars

-----------------------------------------------------------------------------
(* Properties. *)

(* In whatever order the entry returns and the owner joins or detaches,      *)
(* neither side touches the page after the other has unmapped it, and the    *)
(* handle is closed once at most.  When both are through, the page and the   *)
(* handle are gone, and a join gave the value that the entry returned.       *)
ThreadReleasedOnce ==
  /\ ~thr_fault
  /\ thr_closes <= 1
  /\ thr_owner = "end" /\ thr_child \in {"none", "exited"} =>
       thr_page = "unmapped" /\ thr_handle \in {"none", "closed"}
  /\ thr_got # 0 => thr_got = thr_returned
=============================================================================
