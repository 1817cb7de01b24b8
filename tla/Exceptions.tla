----------------------------- MODULE Exceptions -----------------------------
(***************************************************************************)
(* Exceptions of a user thread (kernel/lib/magenta/exception.cpp,          *)
(* excp_port.cpp, user_thread.cpp): a report goes to the exception port of *)
(* the thread, of its process and of the system in turn, until a handler   *)
(* answers that the thread may resume.  The thread waits for each answer   *)
(* without a timeout, and cannot be interrupted.                           *)
(*                                                                         *)
(* A handler is whoever reads an I/O port; it answers a report once with   *)
(* mx_mark_exception_handled, and may die at any time.  A port that was    *)
(* made but has no reader any more takes no packets.  "Gone" reports are   *)
(* not answered and are left out.                                          *)
(***************************************************************************)
EXTENDS Naturals

CONSTANTS ExcPorts,   \* exception ports, each with a handler
          NoExcPort   \* no exception port

Levels == 1 .. 3      \* the thread's port, the process's, the system's

VARIABLES exception_port,   \* level -> the port that is set
          excp,             \* the thread: what it does, with which level and port
          exception_status, \* exception_status_
          report,           \* port -> "no", "queued" or "read": the thread's report
          handler_gone      \* ports whose handler has died

excpVars == <<exception_port, excp, exception_status, report, handler_gone>>

Running == [pc |-> "run", level |-> 1, port |-> NoExcPort]

ExcpInit ==
  /\ exception_port = [l \in Levels |-> NoExcPort]
  /\ excp = Running
  /\ exception_status = "none"
  /\ report = [p \in ExcPorts |-> "no"]
  /\ handler_gone = {}

(* SetExceptionPort of a thread, a process or the system. *)
SetExceptionPort(l, p) ==
  /\ l < 3 => excp.pc # "killed"
  /\ exception_port[l] = NoExcPort /\ p \notin handler_gone
  /\ exception_port' = [exception_port EXCEPT ![l] = p]
  /\ UNCHANGED <<excp, exception_status, report, handler_gone>>

ResetExceptionPort(l) ==
  /\ exception_port[l] # NoExcPort
  /\ exception_port' = [exception_port EXCEPT ![l] = NoExcPort]
  /\ UNCHANGED <<excp, exception_status, report, handler_gone>>

(* magenta_exception_handler is called. *)
Fault ==
  /\ excp.pc = "run"
  /\ excp' = [excp EXCEPT !.pc = "try"]
  /\ UNCHANGED <<exception_port, exception_status, report, handler_gone>>

(* The next level, or after the last process->Kill() and thread->Exit(). *)
NextLevel == IF excp.level < 3
               THEN [pc |-> "try", level |-> excp.level + 1, port |-> NoExcPort]
               ELSE [Running EXCEPT !.pc = "killed"]

(* ExceptionHandlerExchange up to the wait: the report may be sent. *)
Sends(p) ==
  /\ p \notin handler_gone
  /\ report' = [report EXCEPT ![p] = "queued"]
  /\ excp' = [excp EXCEPT !.pc = "waiting", !.port = p]

(* Or it cannot: for want of memory, or of a reader. *)
SendFails ==
  /\ exception_status' = "NOT_HANDLED"
  /\ excp' = NextLevel
  /\ UNCHANGED report

(* Mutant: exception_status_ is not set before the report is sent. *)
TryHandlerUnmarked ==
  /\ excp.pc = "try"
  /\ LET p == exception_port[excp.level]
     IN \/ p = NoExcPort /\ excp' = NextLevel /\ UNCHANGED <<exception_status, report>>
        \/ p # NoExcPort /\ Sends(p) /\ UNCHANGED exception_status
        \/ p # NoExcPort /\ SendFails
  /\ UNCHANGED <<exception_port, handler_gone>>

(* try_exception_handler for a level, with the port that is set now. *)
TryHandler ==
  /\ excp.pc = "try"
  /\ LET p == exception_port[excp.level]
     IN \/ p = NoExcPort /\ excp' = NextLevel /\ UNCHANGED <<exception_status, report>>
        \/ p # NoExcPort /\ Sends(p) /\ exception_status' = "WAITING"
        \/ p # NoExcPort /\ SendFails
  /\ UNCHANGED <<exception_port, handler_gone>>

(* The wait is over. *)
Exchanged ==
  /\ excp.pc = "woken"
  /\ excp' = IF exception_status = "RESUME" THEN Running ELSE NextLevel
  /\ UNCHANGED <<exception_port, exception_status, report, handler_gone>>

ReadReport(p) ==
  /\ p \notin handler_gone /\ report[p] = "queued"
  /\ report' = [report EXCEPT ![p] = "read"]
  /\ UNCHANGED <<exception_port, excp, exception_status, handler_gone>>

(* MarkExceptionHandled: cond_signal wakes the thread if it waits. *)
MarkExceptionHandled(p, status) ==
  /\ p \notin handler_gone /\ report[p] = "read"
  /\ report' = [report EXCEPT ![p] = "no"]
  /\ IF exception_status = "WAITING"
       THEN /\ exception_status' = status
            /\ excp' = IF excp.pc = "waiting" THEN [excp EXCEPT !.pc = "woken"] ELSE excp
       ELSE UNCHANGED <<exception_status, excp>>
  /\ UNCHANGED <<exception_port, handler_gone>>

HandlerDies(p) ==
  /\ p \notin handler_gone
  /\ handler_gone' = handler_gone \cup {p}
  /\ report' = [report EXCEPT ![p] = "no"]
  /\ UNCHANGED <<exception_port, excp, exception_status>>

Answers(p) == \E status \in {"RESUME", "NOT_HANDLED"} : MarkExceptionHandled(p, status)

ExcpNext ==
  \/ \E l \in Levels : ResetExceptionPort(l) \/ \E p \in ExcPorts : SetExceptionPort(l, p)
  \/ Fault \/ TryHandler \/ Exchanged
  \/ \E p \in ExcPorts : ReadReport(p) \/ Answers(p) \/ HandlerDies(p)

ExcpSpec == ExcpInit /\ [][ExcpNext]_excpVars

-----------------------------------------------------------------------------
(* An exception ends, with the thread resumed or its process killed, unless  *)
(* a handler dies that has the report: then nobody ever wakes the thread,    *)
(* for ExceptionPort::OnDestruction "isn't wired up yet".                    *)
ExceptionsEnd ==
  excp.pc \in {"try", "waiting", "woken"} ~>
    excp.pc \in {"run", "killed"} \/ (excp.pc = "waiting" /\ excp.port \in handler_gone)
=============================================================================
