--------------------------------- MODULE Mp ---------------------------------
(***************************************************************************)
(* Cross-CPU calls and CPU hotplug (kernel/kernel/mp.c).  mp_sync_exec     *)
(* puts a task, allocated on its own stack, in the list of each target     *)
(* CPU, interrupts them, runs its own share and waits until every target   *)
(* has run the task or is offline.                                         *)
(*                                                                         *)
(* A call is named by the CPU that makes it.  A CPU may make it with       *)
(* interrupts disabled: it then serves its own list while it waits.  The   *)
(* list operations are atomic under ipi_task_lock; everything between two  *)
(* of them is open to the other CPUs.                                      *)
(***************************************************************************)
EXTENDS Lists

CONSTANTS MpCpus,
          MpCallers,  \* the CPUs that make cross-CPU calls
          Pluggable \* the CPUs that are unplugged and plugged in again

ASSUME CpuNames == {"none", "no", "loop"} \cap MpCpus = {}

VARIABLES online, active, \* the masks of struct mp_state
          mp_list,           \* ipi_task_list: the calls whose task is queued for a CPU
          ipi,            \* CPUs with MP_IPI_GENERIC pending
          serving,        \* per CPU: "no", "loop" in mp_mbx_generic_irq, or the call it runs
          mp_call,           \* per CPU: where its mp_sync_exec is, and its targets
          outstanding,    \* outstanding_cpus of a call
          plug,           \* the CPU being unplugged (hotplug_lock), or "none"
          ran, left_cpu       \* history of a call: CPUs that ran it, CPUs that went offline

mpVars == <<online, active, mp_list, ipi, serving, mp_call, outstanding, plug, ran, left_cpu>>

NoCall == [pc |-> "none", target |-> {}, disabled |-> FALSE]

MpInit ==
  /\ online = MpCpus /\ active = MpCpus /\ ipi = {} /\ plug = "none"
  /\ mp_list = [c \in MpCpus |-> <<>>]
  /\ serving = [c \in MpCpus |-> "no"]
  /\ mp_call = [c \in MpCpus |-> NoCall]
  /\ outstanding = [c \in MpCpus |-> {}]
  /\ ran = [c \in MpCpus |-> {}] /\ left_cpu = [c \in MpCpus |-> {}]

-----------------------------------------------------------------------------
(* A CPU that is being unplugged takes no interrupt and makes no call.     *)
MpRuns(c) == c \in active /\ serving[c] = "no"
MpIn(c, pc) == MpRuns(c) /\ mp_call[c].pc = pc
MpGoes(c, pc) == mp_call' = [mp_call EXCEPT ![c].pc = pc]

(* Interrupts are off from the enqueueing to the local share of the task.  *)
Interruptible(c) ==
  /\ MpRuns(c)
  /\ mp_call[c].pc \in {"none", "masked", "spin", "clean"} /\ ~mp_call[c].disabled

(* The targets are the CPUs that are online when the mask is read.         *)
mp_sync_exec(c, target, disabled) ==
  /\ MpIn(c, "none") /\ c \in MpCallers
  /\ mp_call' = [mp_call EXCEPT ![c] = [pc |-> "masked", target |-> target \cap online,
                                  disabled |-> disabled]]
  /\ UNCHANGED <<online, active, mp_list, ipi, serving, outstanding, plug, ran, left_cpu>>

Enqueue(c) ==
  /\ MpIn(c, "masked") /\ MpGoes(c, "queued")
  /\ LET others == mp_call[c].target \ {c}
     IN /\ outstanding' = [outstanding EXCEPT ![c] = others]
        /\ mp_list' = [d \in MpCpus |-> IF d \in others THEN Append(mp_list[d], c) ELSE mp_list[d]]
  /\ UNCHANGED <<online, active, ipi, serving, plug, ran, left_cpu>>

(* A CPU that is offline loses the interrupt.                              *)
SendIpi(c) ==
  /\ MpIn(c, "queued") /\ MpGoes(c, "spin")
  /\ ipi' = ipi \cup ((mp_call[c].target \ {c}) \cap online)
  /\ ran' = [ran EXCEPT ![c] = @ \cup (mp_call[c].target \cap {c})]
  /\ UNCHANGED <<online, active, mp_list, serving, outstanding, plug, left_cpu>>

SpinEndsEarly(c) ==
  /\ MpIn(c, "spin") /\ MpGoes(c, "clean")
  /\ outstanding[c] \cap active = {}
  /\ UNCHANGED <<online, active, mp_list, ipi, serving, outstanding, plug, ran, left_cpu>>

SpinEnds(c) ==
  /\ MpIn(c, "spin") /\ MpGoes(c, "clean")
  /\ outstanding[c] \cap online = {}
  /\ UNCHANGED <<online, active, mp_list, ipi, serving, outstanding, plug, ran, left_cpu>>

(* A task still queued is that of a CPU that went offline.                 *)
MpCleanUp(c) ==
  /\ MpIn(c, "clean")
  /\ mp_call' = [mp_call EXCEPT ![c] = NoCall]
  /\ mp_list' = [d \in MpCpus |-> list_delete(mp_list[d], c)]
  /\ outstanding' = [outstanding EXCEPT ![c] = {}]
  /\ ran' = [ran EXCEPT ![c] = {}] /\ left_cpu' = [left_cpu EXCEPT ![c] = {}]
  /\ UNCHANGED <<online, active, ipi, serving, plug>>

-----------------------------------------------------------------------------
(* mp_mbx_generic_irq, from the interrupt or from a spin with interrupts   *)
(* disabled; it serves the list until it is empty.                         *)
mp_mbx_generic_irq(c) ==
  /\ \/ c \in ipi /\ Interruptible(c)
     \/ MpIn(c, "spin") /\ mp_call[c].disabled /\ mp_list[c] # <<>>
  /\ ipi' = IF Interruptible(c) THEN ipi \ {c} ELSE ipi
  /\ serving' = [serving EXCEPT ![c] = "loop"]
  /\ UNCHANGED <<online, active, mp_list, mp_call, outstanding, plug, ran, left_cpu>>

TakeOneTask(c) ==
  /\ serving[c] = "loop"
  /\ \/ /\ mp_list[c] # <<>> /\ \A e \in MpCpus : c \notin ran[e]
        /\ serving' = [serving EXCEPT ![c] = Head(mp_list[c])]
        /\ mp_list' = [mp_list EXCEPT ![c] = Tail(@)]
     \/ /\ mp_list[c] = <<>> \/ \E e \in MpCpus : c \in ran[e]
        /\ serving' = [serving EXCEPT ![c] = "no"]
        /\ UNCHANGED mp_list
  /\ UNCHANGED <<online, active, ipi, mp_call, outstanding, plug, ran, left_cpu>>

TakeTask(c) ==
  /\ serving[c] = "loop"
  /\ \/ /\ mp_list[c] # <<>>
        /\ serving' = [serving EXCEPT ![c] = Head(mp_list[c])]
        /\ mp_list' = [mp_list EXCEPT ![c] = Tail(@)]
     \/ /\ mp_list[c] = <<>>
        /\ serving' = [serving EXCEPT ![c] = "no"]
        /\ UNCHANGED mp_list
  /\ UNCHANGED <<online, active, ipi, mp_call, outstanding, plug, ran, left_cpu>>

mp_sync_task(c) ==
  /\ serving[c] \in MpCpus
  /\ LET d == serving[c]
     IN /\ ran' = [ran EXCEPT ![d] = @ \cup {c}]
        /\ outstanding' = [outstanding EXCEPT ![d] = @ \ {c}]
  /\ serving' = [serving EXCEPT ![c] = "loop"]
  /\ UNCHANGED <<online, active, mp_list, ipi, mp_call, plug, left_cpu>>

-----------------------------------------------------------------------------
(* mp_unplug_cpu makes the CPU switch to mp_unplug_trampoline, which never *)
(* enables interrupts again, and waits for its end.                        *)
mp_unplug_cpu(c) ==
  /\ plug = "none" /\ MpIn(c, "none") /\ c \in Pluggable
  /\ \E d \in active : d # c
  /\ plug' = c /\ active' = active \ {c}
  /\ UNCHANGED <<online, mp_list, ipi, serving, mp_call, outstanding, ran, left_cpu>>

mp_unplug_trampoline(c) ==
  /\ plug = c
  /\ plug' = "none" /\ online' = online \ {c} /\ ipi' = ipi \ {c}
  /\ left_cpu' = [d \in MpCpus |-> IF mp_call[d].pc = "none" THEN {} ELSE left_cpu[d] \cup {c}]
  /\ UNCHANGED <<active, mp_list, serving, mp_call, outstanding, ran>>

(* Starting a CPU takes much longer than a call needs to notice that it    *)
(* went away: no call is then between reading the mask and its clean-up    *)
(* with a task left in the list of that CPU.                               *)
mp_hotplug_cpu(c) ==
  /\ plug = "none" /\ c \notin online
  /\ \A i \in DOMAIN mp_list[c] : mp_call[mp_list[c][i]].pc # "clean"
  /\ online' = online \cup {c} /\ active' = active \cup {c}
  /\ UNCHANGED <<mp_list, ipi, serving, mp_call, outstanding, plug, ran, left_cpu>>

MpNext ==
  \E c \in MpCpus :
    \/ \E target \in {MpCpus, MpCpus \ {c}}, disabled \in BOOLEAN : mp_sync_exec(c, target, disabled)
    \/ Enqueue(c) \/ SendIpi(c) \/ SpinEnds(c) \/ MpCleanUp(c)
    \/ mp_mbx_generic_irq(c) \/ TakeTask(c) \/ mp_sync_task(c)
    \/ mp_unplug_cpu(c) \/ mp_unplug_trampoline(c) \/ mp_hotplug_cpu(c)

MpSpec == MpInit /\ [][MpNext]_mpVars

-----------------------------------------------------------------------------
(* mp_sync_exec keeps its promise and leaves nothing behind: when it stops *)
(* waiting, every target has run the task or went offline since the call   *)
(* began; and a task in a list, or being run, is that of a call that has   *)
(* not returned, whose stack it is on.                                     *)
ExecComplete ==
  \A c \in MpCpus :
    /\ mp_call[c].pc = "clean" => mp_call[c].target \subseteq ran[c] \cup left_cpu[c]
    /\ \A i \in DOMAIN mp_list[c] : mp_call[mp_list[c][i]].pc \in {"queued", "spin", "clean"}
    /\ serving[c] \in MpCpus => mp_call[serving[c]].pc \in {"queued", "spin"}

(* No interrupt is lost: a CPU waits for another that is online only while *)
(* that one has its task, and is in the handler, has the interrupt pending *)
(* or is about to go offline.  A CPU that serves its list as it waits with *)
(* interrupts disabled must therefore not clear the interrupt.  A CPU that *)
(* came back online may keep a call waiting until it is next interrupted:  *)
(* its interrupt was lost.                                                 *)
WaitsAreServed ==
  \A c \in MpCpus : mp_call[c].pc = "spin" =>
    \A d \in (outstanding[c] \cap online) \ left_cpu[c] :
      /\ serving[d] = c \/ InList(mp_list[d], c)
      /\ serving[d] # "no" \/ d \in ipi \/ plug = d

(* mp.c: mp_sync_exec returns once its task has run on every target, and a   *)
(* CPU that waits for another is served.                                     *)
MpCallsComplete == ExecComplete /\ WaitsAreServed
=============================================================================
