---------------------------- MODULE KernelProofs ----------------------------
(***************************************************************************)
(* Proofs about Mp, for any set of CPUs, and Handles, for any arena and    *)
(* any number of objects, processes and threads.                           *)
(***************************************************************************)
EXTENDS Mp, Handles, ListProofs, FiniteSetTheorems

-----------------------------------------------------------------------------
(* Mp.                                                                        *)

MpPc == {"none", "masked", "queued", "spin", "clean"}

MpTypeOK ==
  /\ online \subseteq MpCpus /\ plug \in MpCpus \cup {"none"}
  /\ active = online \ {plug}
  /\ mp_list \in [MpCpus -> Seq(MpCpus)]
  /\ serving \in [MpCpus -> MpCpus \cup {"no", "loop"}]
  /\ mp_call \in [MpCpus -> [pc : MpPc, target : SUBSET MpCpus, disabled : BOOLEAN]]
  /\ outstanding \in [MpCpus -> SUBSET MpCpus]
  /\ ran \in [MpCpus -> SUBSET MpCpus] /\ left_cpu \in [MpCpus -> SUBSET MpCpus]

(* A CPU that serves its list or makes a call is active. *)
BusyIsActive ==
  /\ plug \in online \cup {"none"}
  /\ \A c \in MpCpus : serving[c] # "no" \/ mp_call[c].pc # "none" => c \in active

(* A CPU has the task of a call, once, in its list or in its hands, exactly  *)
(* while it is outstanding.                                                  *)
TasksInv ==
  /\ \A c \in MpCpus : mp_call[c].pc \in {"none", "masked"} => outstanding[c] = {}
  /\ \A c, d \in MpCpus : d \in outstanding[c] <=> serving[d] = c \/ InList(mp_list[d], c)
  /\ \A d \in MpCpus : NoRepeat(mp_list[d]) /\ ~InList(mp_list[d], serving[d])
  /\ \A c \in MpCpus : mp_call[c].pc = "clean" => outstanding[c] \cap online = {}

(* A target is gone, has run the task or has it; the caller does it itself.  *)
TargetsInv ==
  \A c \in MpCpus : mp_call[c].pc # "none" =>
    /\ mp_call[c].target \subseteq online \cup left_cpu[c]
    /\ mp_call[c].pc = "queued" => mp_call[c].target \subseteq ran[c] \cup outstanding[c] \cup {c}
    /\ mp_call[c].pc \in {"spin", "clean"} => mp_call[c].target \subseteq ran[c] \cup outstanding[c]
    /\ outstanding[c] \subseteq mp_call[c].target \ {c}

(* The interrupt of a CPU that a call waits for is pending, or being served. *)
InterruptInv ==
  \A c \in MpCpus : mp_call[c].pc = "spin" =>
    \A d \in (outstanding[c] \cap online) \ left_cpu[c] :
      serving[d] # "no" \/ d \in ipi \/ plug = d

MpInv == MpTypeOK /\ BusyIsActive /\ TasksInv /\ TargetsInv /\ InterruptInv

-----------------------------------------------------------------------------
(* No call is made and every CPU is online. *)
LEMMA MpInitInv == MpInit => MpInv
<1> SUFFICES ASSUME MpInit PROVE MpInv
  BY Zenon
<1>1. mp_call \in [MpCpus -> [pc : MpPc, target : SUBSET MpCpus, disabled : BOOLEAN]]
  BY Zenon DEF MpInit, NoCall, MpPc
<1>2. /\ online = MpCpus /\ active = MpCpus /\ plug = "none" /\ plug \notin MpCpus
      /\ \A c \in MpCpus : /\ mp_list[c] = <<>> /\ serving[c] = "no" /\ mp_call[c].pc = "none"
                           /\ outstanding[c] = {}
  BY Zenon, CpuNames DEF MpInit, NoCall
<1>3. \A x : ~InList(<<>>, x) /\ NoRepeat(<<>>)
  BY DEF InList, NoRepeat
<1>4. MpTypeOK
  BY <1>1, <1>2 DEF MpInit, MpTypeOK
<1>5. BusyIsActive
  BY <1>2, Zenon DEF BusyIsActive
<1>6. TasksInv
  BY Zenon, <1>2, <1>3, CpuNames DEF TasksInv
<1>7. TargetsInv /\ InterruptInv
  BY Zenon, <1>2 DEF TargetsInv, InterruptInv
<1> QED
  BY Zenon, <1>4, <1>5, <1>6, <1>7 DEF MpInv

(* A call moves on. *)
LEMMA MpGoesTo ==
  ASSUME MpTypeOK, NEW c \in MpCpus, NEW l \in MpPc, MpGoes(c, l)
  PROVE  /\ mp_call' \in [MpCpus -> [pc : MpPc, target : SUBSET MpCpus, disabled : BOOLEAN]]
         /\ mp_call'[c].pc = l
         /\ \A d \in MpCpus : mp_call'[d].target = mp_call[d].target
         /\ \A d \in MpCpus : d # c => mp_call'[d].pc = mp_call[d].pc
<1> DEFINE Call == [pc : MpPc, target : SUBSET MpCpus, disabled : BOOLEAN]
<1>1. mp_call \in [MpCpus -> Call] /\ mp_call' = [mp_call EXCEPT ![c] = [mp_call[c] EXCEPT !.pc = l]]
  BY Zenon DEF MpTypeOK, MpGoes
<1>2. PICK r, s : r = mp_call[c] /\ s = [r EXCEPT !.pc = l]
  BY Zenon
<1>3. s \in Call /\ s.pc = l /\ s.target = r.target
  <2>1. r \in Call
    BY Zenon, <1>1, <1>2
  <2> QED
    BY Zenon, <1>2, <2>1
<1> HIDE DEF Call
<1>4. mp_call' \in [MpCpus -> Call] /\ \A d \in MpCpus : mp_call'[d] = IF d = c THEN s ELSE mp_call[d]
  BY Zenon, <1>1, <1>2, <1>3
<1> QED
  BY Zenon, <1>2, <1>3, <1>4 DEF Call

(* mp_sync_exec reads the mask of the CPUs that are online. *)
LEMMA ExecKeepsInv ==
  ASSUME MpInv, NEW c \in MpCpus, NEW target \in SUBSET MpCpus, NEW disabled \in BOOLEAN,
         mp_sync_exec(c, target, disabled)
  PROVE  MpInv'
<1> USE DEF MpInv
<1>1. /\ c \in active /\ mp_call[c].pc = "none"
      /\ UNCHANGED <<online, active, mp_list, ipi, serving, outstanding, plug, ran, left_cpu>>
  BY Zenon DEF mp_sync_exec, MpIn, MpRuns
<1>2. /\ mp_call' \in [MpCpus -> [pc : MpPc, target : SUBSET MpCpus, disabled : BOOLEAN]]
      /\ mp_call'[c].pc = "masked" /\ mp_call'[c].target \subseteq online
      /\ \A d \in MpCpus : d # c => mp_call'[d] = mp_call[d]
  BY Zenon DEF mp_sync_exec, MpTypeOK, MpPc
<1>3. MpTypeOK'
  BY Zenon, <1>1, <1>2 DEF MpTypeOK
<1>4. BusyIsActive'
  BY Zenon, <1>1, <1>2 DEF BusyIsActive
<1>5. TasksInv'
  BY Zenon, <1>1, <1>2 DEF TasksInv
<1>6. TargetsInv'
  BY <1>1, <1>2 DEF TargetsInv, TasksInv
<1>7. InterruptInv'
  BY Zenon, <1>1, <1>2 DEF InterruptInv
<1> QED
  BY Zenon, <1>3, <1>4, <1>5, <1>6, <1>7

(* The task enters the lists of the other targets. *)
LEMMA EnqueueKeepsInv == ASSUME MpInv, NEW c \in MpCpus, Enqueue(c) PROVE MpInv'
<1> USE DEF MpInv
<1>1. /\ c \in active /\ mp_call[c].pc = "masked" /\ MpGoes(c, "queued")
      /\ UNCHANGED <<online, active, ipi, serving, plug, ran, left_cpu>>
  BY Zenon DEF Enqueue, MpIn, MpRuns
<1>2. PICK others : others = mp_call[c].target \ {c}
  BY Zenon
<1>3. /\ outstanding' = [outstanding EXCEPT ![c] = others]
      /\ mp_list' = [d \in MpCpus |-> IF d \in others THEN Append(mp_list[d], c) ELSE mp_list[d]]
  BY Zenon, <1>2 DEF Enqueue
<1>4. /\ mp_call' \in [MpCpus -> [pc : MpPc, target : SUBSET MpCpus, disabled : BOOLEAN]]
      /\ mp_call'[c].pc = "queued"
      /\ \A d \in MpCpus : mp_call'[d].target = mp_call[d].target
      /\ \A d \in MpCpus : d # c => mp_call'[d].pc = mp_call[d].pc
  BY Zenon, <1>1, MpGoesTo DEF MpPc
<1>5. /\ others \in SUBSET MpCpus /\ c \notin others
      /\ outstanding' \in [MpCpus -> SUBSET MpCpus] /\ outstanding'[c] = others
      /\ \A d \in MpCpus : d # c => outstanding'[d] = outstanding[d]
  BY Zenon, <1>2, <1>3 DEF MpTypeOK
<1>6. outstanding[c] = {} /\ \A d \in MpCpus : serving[d] # c /\ ~InList(mp_list[d], c)
  BY Zenon, <1>1 DEF TasksInv
<1>7. ASSUME NEW d \in MpCpus
      PROVE  /\ mp_list'[d] \in Seq(MpCpus) /\ NoRepeat(mp_list'[d])
             /\ \A e : InList(mp_list'[d], e) <=> InList(mp_list[d], e) \/ (e = c /\ d \in others)
  <2>1. mp_list[d] \in Seq(MpCpus) /\ NoRepeat(mp_list[d]) /\ ~InList(mp_list[d], c)
    BY Zenon, <1>6 DEF MpTypeOK, TasksInv
  <2>2. mp_list'[d] = IF d \in others THEN Append(mp_list[d], c) ELSE mp_list[d]
    BY Zenon, <1>3
  <2>3. PICK q, r : q = mp_list[d] /\ r = mp_list'[d]
    BY Zenon
  <2> QED
    BY <2>1, <2>2, <2>3, AppendIn
<1>8. MpTypeOK'
  <2>1. mp_list' \in [MpCpus -> Seq(MpCpus)]
    BY Zenon, <1>3, <1>7
  <2> QED
    BY Zenon, <1>1, <1>4, <1>5, <2>1 DEF MpTypeOK
<1>9. BusyIsActive'
  BY Zenon, <1>1, <1>4 DEF BusyIsActive
<1>10. TasksInv'
  <2>1. \A e \in MpCpus : mp_call'[e].pc \in {"none", "masked"} => outstanding'[e] = {}
    BY Zenon, <1>4, <1>5 DEF TasksInv
  <2>2. ASSUME NEW e \in MpCpus, NEW d \in MpCpus
        PROVE  d \in outstanding'[e] <=> serving[d] = e \/ InList(mp_list'[d], e)
    BY Zenon, <1>5, <1>6, <1>7 DEF TasksInv
  <2>3. ASSUME NEW d \in MpCpus PROVE ~InList(mp_list'[d], serving[d])
    BY Zenon, <1>6, <1>7 DEF TasksInv
  <2>4. \A e \in MpCpus : mp_call'[e].pc = "clean" => outstanding'[e] \cap online = {}
    BY Zenon, <1>4, <1>5 DEF TasksInv
  <2> QED
    BY Zenon, <1>1, <1>7, <2>1, <2>2, <2>3, <2>4 DEF TasksInv
<1>11. TargetsInv'
  BY <1>1, <1>2, <1>4, <1>5 DEF TargetsInv
<1>12. InterruptInv'
  BY Zenon, <1>1, <1>4, <1>5 DEF InterruptInv
<1> QED
  BY Zenon, <1>8, <1>9, <1>10, <1>11, <1>12

(* The other targets that are online are interrupted, and the caller does    *)
(* its own share.                                                            *)
LEMMA SendIpiKeepsInv == ASSUME MpInv, NEW c \in MpCpus, SendIpi(c) PROVE MpInv'
<1> USE DEF MpInv
<1>1. /\ c \in active /\ mp_call[c].pc = "queued" /\ MpGoes(c, "spin")
      /\ ipi' = ipi \cup ((mp_call[c].target \ {c}) \cap online)
      /\ UNCHANGED <<online, active, mp_list, serving, outstanding, plug, left_cpu>>
  BY Zenon DEF SendIpi, MpIn, MpRuns
<1>2. /\ mp_call' \in [MpCpus -> [pc : MpPc, target : SUBSET MpCpus, disabled : BOOLEAN]]
      /\ mp_call'[c].pc = "spin"
      /\ \A d \in MpCpus : mp_call'[d].target = mp_call[d].target
      /\ \A d \in MpCpus : d # c => mp_call'[d].pc = mp_call[d].pc
  BY Zenon, <1>1, MpGoesTo DEF MpPc
<1>3. /\ ran' \in [MpCpus -> SUBSET MpCpus] /\ ran'[c] = ran[c] \cup (mp_call[c].target \cap {c})
      /\ \A d \in MpCpus : d # c => ran'[d] = ran[d]
  BY Zenon DEF SendIpi, MpTypeOK
<1>4. MpTypeOK'
  BY Zenon, <1>1, <1>2, <1>3 DEF MpTypeOK
<1>5. BusyIsActive'
  BY Zenon, <1>1, <1>2 DEF BusyIsActive
<1>6. TasksInv'
  BY Zenon, <1>1, <1>2 DEF TasksInv
<1>7. TargetsInv'
  BY <1>1, <1>2, <1>3 DEF TargetsInv
<1>8. InterruptInv'
  <2>1. \A d \in outstanding[c] \cap online : d \in ipi'
    BY Zenon, <1>1 DEF TargetsInv
  <2> QED
    BY Zenon, <1>1, <1>2, <2>1 DEF InterruptInv
<1> QED
  BY <1>4, <1>5, <1>6, <1>7, <1>8

(* No target that is online is outstanding. *)
LEMMA SpinEndsKeepsInv == ASSUME MpInv, NEW c \in MpCpus, SpinEnds(c) PROVE MpInv'
<1> USE DEF MpInv
<1>1. /\ c \in active /\ mp_call[c].pc = "spin" /\ MpGoes(c, "clean")
      /\ outstanding[c] \cap online = {}
      /\ UNCHANGED <<online, active, mp_list, ipi, serving, outstanding, plug, ran, left_cpu>>
  BY Zenon DEF SpinEnds, MpIn, MpRuns
<1>2. /\ mp_call' \in [MpCpus -> [pc : MpPc, target : SUBSET MpCpus, disabled : BOOLEAN]]
      /\ mp_call'[c].pc = "clean"
      /\ \A d \in MpCpus : mp_call'[d].target = mp_call[d].target
      /\ \A d \in MpCpus : d # c => mp_call'[d].pc = mp_call[d].pc
  BY Zenon, <1>1, MpGoesTo DEF MpPc
<1>3. MpTypeOK'
  BY Zenon, <1>1, <1>2 DEF MpTypeOK
<1>4. BusyIsActive'
  BY Zenon, <1>1, <1>2 DEF BusyIsActive
<1>5. TasksInv'
  BY Zenon, <1>1, <1>2 DEF TasksInv
<1>6. TargetsInv'
  BY <1>1, <1>2 DEF TargetsInv
<1>7. InterruptInv'
  BY Zenon, <1>1, <1>2 DEF InterruptInv
<1> QED
  BY <1>3, <1>4, <1>5, <1>6, <1>7

(* The tasks that are left are taken out of the lists of the CPUs that are   *)
(* gone, and nobody runs one.                                                *)
LEMMA CleanUpKeepsInv == ASSUME MpInv, NEW c \in MpCpus, MpCleanUp(c) PROVE MpInv'
<1> USE DEF MpInv
<1>1. mp_call[c].pc = "clean" /\ UNCHANGED <<online, active, ipi, serving, plug>>
  BY Zenon DEF MpCleanUp, MpIn
<1>2. /\ mp_call' \in [MpCpus -> [pc : MpPc, target : SUBSET MpCpus, disabled : BOOLEAN]]
      /\ mp_call'[c].pc = "none"
      /\ \A d \in MpCpus : d # c => mp_call'[d] = mp_call[d]
  BY Zenon DEF MpCleanUp, NoCall, MpPc, MpTypeOK
<1>3. /\ outstanding' \in [MpCpus -> SUBSET MpCpus] /\ outstanding'[c] = {}
      /\ ran' \in [MpCpus -> SUBSET MpCpus] /\ left_cpu' \in [MpCpus -> SUBSET MpCpus]
      /\ \A d \in MpCpus : d # c => /\ outstanding'[d] = outstanding[d]
                                    /\ ran'[d] = ran[d] /\ left_cpu'[d] = left_cpu[d]
  BY Zenon DEF MpCleanUp, MpTypeOK
<1>4. ASSUME NEW d \in MpCpus
      PROVE  /\ mp_list'[d] \in Seq(MpCpus) /\ NoRepeat(mp_list'[d])
             /\ \A e : InList(mp_list'[d], e) <=> InList(mp_list[d], e) /\ e # c
  <2>1. PICK q, r : q = mp_list[d] /\ r = mp_list'[d]
    OBVIOUS
  <2>2. q \in Seq(MpCpus) /\ NoRepeat(q) /\ r = list_delete(q, c)
    BY Zenon, <2>1 DEF MpTypeOK, TasksInv, MpCleanUp
  <2> QED
    BY <2>1, <2>2, DeleteIn
<1>5. \A d \in MpCpus : serving[d] # c
  BY Zenon, <1>1, CpuNames DEF TasksInv, BusyIsActive, MpTypeOK
<1>6. MpTypeOK'
  <2>1. mp_list' \in [MpCpus -> Seq(MpCpus)]
    BY Zenon, <1>4 DEF MpCleanUp
  <2> QED
    BY Zenon, <1>1, <1>2, <1>3, <2>1 DEF MpTypeOK
<1>7. BusyIsActive'
  BY Zenon, <1>1, <1>2 DEF BusyIsActive
<1>8. TasksInv'
  <2>1. \A e \in MpCpus : mp_call'[e].pc \in {"none", "masked"} => outstanding'[e] = {}
    BY <1>2, <1>3 DEF TasksInv
  <2>2. ASSUME NEW e \in MpCpus, NEW d \in MpCpus
        PROVE  d \in outstanding'[e] <=> serving[d] = e \/ InList(mp_list'[d], e)
    BY Zenon, <1>3, <1>4, <1>5 DEF TasksInv
  <2>3. ASSUME NEW d \in MpCpus PROVE ~InList(mp_list'[d], serving[d])
    BY Zenon, <1>4 DEF TasksInv
  <2>4. \A e \in MpCpus : mp_call'[e].pc = "clean" => outstanding'[e] \cap online = {}
    BY <1>2, <1>3 DEF TasksInv
  <2> QED
    BY <1>1, <1>4, <2>1, <2>2, <2>3, <2>4 DEF TasksInv
<1>9. TargetsInv'
  BY Zenon, <1>1, <1>2, <1>3 DEF TargetsInv
<1>10. InterruptInv'
  BY <1>1, <1>2, <1>3 DEF InterruptInv
<1> QED
  BY <1>6, <1>7, <1>8, <1>9, <1>10

-----------------------------------------------------------------------------
(* A CPU begins to serve its list. *)
LEMMA IrqKeepsInv == ASSUME MpInv, NEW c \in MpCpus, mp_mbx_generic_irq(c) PROVE MpInv'
<1> USE DEF MpInv
<1>1. /\ c \in active /\ serving[c] = "no" /\ ipi \ {c} \subseteq ipi'
      /\ UNCHANGED <<online, active, mp_list, mp_call, outstanding, plug, ran, left_cpu>>
  BY Zenon DEF mp_mbx_generic_irq, Interruptible, MpIn, MpRuns
<1>2. /\ serving' \in [MpCpus -> MpCpus \cup {"no", "loop"}] /\ serving'[c] = "loop"
      /\ \A d \in MpCpus : d # c => serving'[d] = serving[d]
  BY Zenon DEF mp_mbx_generic_irq, MpTypeOK
<1>3. ~InList(mp_list[c], "loop")
  BY CpuNames DEF MpTypeOK, InList
<1>4. MpTypeOK'
  BY Zenon, <1>1, <1>2 DEF MpTypeOK
<1>5. BusyIsActive'
  BY Zenon, <1>1, <1>2 DEF BusyIsActive
<1>6. TasksInv'
  BY <1>1, <1>2, <1>3, CpuNames DEF TasksInv
<1>7. TargetsInv'
  BY Zenon, <1>1 DEF TargetsInv
<1>8. InterruptInv'
  BY Zenon, <1>1, <1>2 DEF InterruptInv, MpTypeOK
<1> QED
  BY <1>4, <1>5, <1>6, <1>7, <1>8

(* It takes the first task, or finds none and is done: nobody waits for it.  *)
LEMMA TakeTaskKeepsInv == ASSUME MpInv, NEW c \in MpCpus, TakeTask(c) PROVE MpInv'
<1> USE DEF MpInv
<1>1. /\ serving[c] = "loop"
      /\ UNCHANGED <<online, active, ipi, mp_call, outstanding, plug, ran, left_cpu>>
  BY Zenon DEF TakeTask
<1>2. c \in active
  BY Zenon, <1>1 DEF BusyIsActive
<1>3. mp_list[c] \in Seq(MpCpus) /\ NoRepeat(mp_list[c])
  BY Zenon DEF MpTypeOK, TasksInv
<1>4. \A e \in MpCpus : c \in outstanding[e] <=> InList(mp_list[c], e)
  BY Zenon, <1>1, CpuNames DEF TasksInv
<1>5. CASE mp_list[c] # <<>>
  <2>1. PICK q, h, r : q = mp_list[c] /\ h = Head(q) /\ r = Tail(q)
    BY Zenon
  <2>2. /\ r \in Seq(MpCpus) /\ h \in MpCpus /\ NoRepeat(r)
        /\ \A x : InList(r, x) <=> InList(q, x) /\ x # h
        /\ InList(q, h)
    BY Zenon, <1>3, <1>5, <2>1, TailIn
  <2>3. serving' = [serving EXCEPT ![c] = h] /\ mp_list' = [mp_list EXCEPT ![c] = r]
    BY Zenon, <1>5, <2>1 DEF TakeTask
  <2>4. /\ serving' \in [MpCpus -> MpCpus \cup {"no", "loop"}] /\ serving'[c] = h
        /\ \A d \in MpCpus : d # c => serving'[d] = serving[d]
        /\ mp_list' \in [MpCpus -> Seq(MpCpus)] /\ mp_list'[c] = r
        /\ \A d \in MpCpus : d # c => mp_list'[d] = mp_list[d]
    BY Zenon, <2>2, <2>3 DEF MpTypeOK
  <2>5. MpTypeOK'
    BY Zenon, <1>1, <2>4 DEF MpTypeOK
  <2>6. BusyIsActive'
    BY Zenon, <1>1, <1>2, <2>4 DEF BusyIsActive
  <2>7. TasksInv'
    <3>1. ASSUME NEW e \in MpCpus, NEW d \in MpCpus
          PROVE  d \in outstanding[e] <=> serving'[d] = e \/ InList(mp_list'[d], e)
      <4>1. CASE d = c
        BY Zenon, <1>4, <2>1, <2>2, <2>4, <4>1
      <4>2. CASE d # c
        BY Zenon, <2>4, <4>2 DEF TasksInv
      <4> QED
        BY Zenon, <4>1, <4>2
    <3>2. ASSUME NEW d \in MpCpus
          PROVE  NoRepeat(mp_list'[d]) /\ ~InList(mp_list'[d], serving'[d])
      BY Zenon, <2>2, <2>4 DEF TasksInv
    <3> QED
      BY Zenon, <1>1, <3>1, <3>2 DEF TasksInv
  <2>8. TargetsInv'
    BY Zenon, <1>1 DEF TargetsInv
  <2>9. InterruptInv'
    BY <1>1, <2>2, <2>4, CpuNames DEF InterruptInv, MpTypeOK
  <2> QED
    BY <2>5, <2>6, <2>7, <2>8, <2>9
<1>6. CASE mp_list[c] = <<>>
  <2>1. serving' = [serving EXCEPT ![c] = "no"] /\ mp_list' = mp_list
    BY <1>6, Zenon DEF TakeTask
  <2>2. /\ serving' \in [MpCpus -> MpCpus \cup {"no", "loop"}] /\ serving'[c] = "no"
        /\ \A d \in MpCpus : d # c => serving'[d] = serving[d]
    BY Zenon, <2>1 DEF MpTypeOK
  <2>3. \A x : ~InList(mp_list[c], x)
    BY <1>6 DEF InList
  <2>4. MpTypeOK'
    BY Zenon, <1>1, <2>1, <2>2 DEF MpTypeOK
  <2>5. BusyIsActive'
    BY Zenon, <1>1, <1>2, <2>2 DEF BusyIsActive
  <2>6. TasksInv'
    BY Zenon, <1>1, <2>1, <2>2, <2>3, CpuNames DEF TasksInv
  <2>7. TargetsInv'
    BY <1>1 DEF TargetsInv
  <2>8. InterruptInv'
    BY <1>1, <1>4, <2>2, <2>3 DEF InterruptInv, MpTypeOK
  <2> QED
    BY <2>4, <2>5, <2>6, <2>7, <2>8
<1> QED
  BY Zenon, <1>5, <1>6

(* It runs the task and is no longer outstanding. *)
LEMMA SyncTaskKeepsInv == ASSUME MpInv, NEW c \in MpCpus, mp_sync_task(c) PROVE MpInv'
<1> USE DEF MpInv
<1>1. PICK e : e = serving[c]
  BY Zenon
<1>2. /\ e \in MpCpus /\ c \in active
      /\ UNCHANGED <<online, active, mp_list, ipi, mp_call, plug, left_cpu>>
  BY Zenon, <1>1, CpuNames DEF mp_sync_task, BusyIsActive
<1>3. /\ serving' \in [MpCpus -> MpCpus \cup {"no", "loop"}] /\ serving'[c] = "loop"
      /\ \A d \in MpCpus : d # c => serving'[d] = serving[d]
  BY Zenon DEF mp_sync_task, MpTypeOK
<1>4. /\ ran' \in [MpCpus -> SUBSET MpCpus] /\ outstanding' \in [MpCpus -> SUBSET MpCpus]
      /\ ran'[e] = ran[e] \cup {c} /\ outstanding'[e] = outstanding[e] \ {c}
      /\ \A d \in MpCpus : d # e => ran'[d] = ran[d] /\ outstanding'[d] = outstanding[d]
  BY <1>1, <1>2 DEF mp_sync_task, MpTypeOK
<1>5. MpTypeOK'
  BY Zenon, <1>2, <1>3, <1>4 DEF MpTypeOK
<1>6. BusyIsActive'
  BY Zenon, <1>2, <1>3 DEF BusyIsActive
<1>7. TasksInv'
  <2>1. \A d \in MpCpus : mp_call[d].pc \in {"none", "masked"} => outstanding'[d] = {}
    BY Zenon, <1>4 DEF TasksInv
  <2>2. ASSUME NEW f \in MpCpus, NEW d \in MpCpus
        PROVE  d \in outstanding'[f] <=> serving'[d] = f \/ InList(mp_list[d], f)
    BY <1>1, <1>2, <1>3, <1>4, CpuNames DEF TasksInv
  <2>3. ASSUME NEW d \in MpCpus PROVE ~InList(mp_list[d], serving'[d])
    <3>1. ~InList(mp_list[c], "loop")
      BY CpuNames DEF MpTypeOK, InList
    <3> QED
      BY <1>3, <3>1 DEF TasksInv
  <2>4. \A d \in MpCpus : mp_call[d].pc = "clean" => outstanding'[d] \cap online = {}
    BY <1>4 DEF TasksInv
  <2> QED
    BY Zenon, <1>2, <2>1, <2>2, <2>3, <2>4 DEF TasksInv
<1>8. TargetsInv'
  BY Zenon, <1>2, <1>4 DEF TargetsInv
<1>9. InterruptInv'
  BY <1>2, <1>3, <1>4 DEF InterruptInv
<1> QED
  BY <1>5, <1>6, <1>7, <1>8, <1>9

-----------------------------------------------------------------------------
(* A CPU that does nothing is taken from the active ones. *)
LEMMA UnplugKeepsInv == ASSUME MpInv, NEW c \in MpCpus, mp_unplug_cpu(c) PROVE MpInv'
<1> USE DEF MpInv
<1>1. /\ plug = "none" /\ c \in active /\ serving[c] = "no" /\ mp_call[c].pc = "none"
      /\ plug' = c /\ active' = active \ {c}
      /\ UNCHANGED <<online, mp_list, ipi, serving, mp_call, outstanding, ran, left_cpu>>
  BY Zenon DEF mp_unplug_cpu, MpIn, MpRuns
<1>2. active = online /\ plug \notin MpCpus
  BY Zenon, <1>1, CpuNames DEF MpTypeOK
<1>3. MpTypeOK'
  BY Zenon, <1>1, <1>2 DEF MpTypeOK
<1>4. BusyIsActive'
  BY Zenon, <1>1, <1>2 DEF BusyIsActive
<1>5. TasksInv'
  BY Zenon, <1>1 DEF TasksInv
<1>6. TargetsInv'
  BY Zenon, <1>1 DEF TargetsInv
<1>7. InterruptInv'
  BY Zenon, <1>1, <1>2 DEF InterruptInv, MpTypeOK
<1> QED
  BY <1>3, <1>4, <1>5, <1>6, <1>7

(* It goes offline, and every call that is being made learns it. *)
LEMMA TrampolineKeepsInv == ASSUME MpInv, NEW c \in MpCpus, mp_unplug_trampoline(c) PROVE MpInv'
<1> USE DEF MpInv
<1>1. /\ plug = c /\ plug' = "none" /\ online' = online \ {c} /\ ipi' = ipi \ {c}
      /\ UNCHANGED <<active, mp_list, serving, mp_call, outstanding, ran>>
  BY Zenon DEF mp_unplug_trampoline
<1>2. /\ left_cpu' \in [MpCpus -> SUBSET MpCpus]
      /\ \A d \in MpCpus : mp_call[d].pc # "none" => left_cpu'[d] = left_cpu[d] \cup {c}
  BY Zenon DEF mp_unplug_trampoline, MpTypeOK
<1>3. active = online \ {c} /\ "none" \notin online
  BY Zenon, <1>1, CpuNames DEF MpTypeOK
<1>4. MpTypeOK'
  BY <1>1, <1>2, <1>3 DEF MpTypeOK
<1>5. BusyIsActive'
  BY Zenon, <1>1 DEF BusyIsActive
<1>6. TasksInv'
  BY Zenon, <1>1 DEF TasksInv
<1>7. TargetsInv'
  BY <1>1, <1>2 DEF TargetsInv
<1>8. InterruptInv'
  BY Zenon, <1>1, <1>2 DEF InterruptInv
<1> QED
  BY <1>4, <1>5, <1>6, <1>7, <1>8

(* It comes back.  A call that waited for it has counted it as gone. *)
LEMMA HotplugKeepsInv == ASSUME MpInv, NEW c \in MpCpus, mp_hotplug_cpu(c) PROVE MpInv'
<1> USE DEF MpInv
<1>1. /\ plug = "none" /\ c \notin online
      /\ online' = online \cup {c} /\ active' = active \cup {c}
      /\ UNCHANGED <<mp_list, ipi, serving, mp_call, outstanding, plug, ran, left_cpu>>
  BY Zenon DEF mp_hotplug_cpu
<1>2. active = online /\ "none" \notin MpCpus
  BY Zenon, <1>1, CpuNames DEF MpTypeOK
<1>3. \A e \in MpCpus : c \in outstanding[e] => mp_call[e].pc # "clean" /\ c \in left_cpu[e]
  <2> SUFFICES ASSUME NEW e \in MpCpus, c \in outstanding[e]
               PROVE  mp_call[e].pc # "clean" /\ c \in left_cpu[e]
    BY Zenon
  <2>1. serving[c] = "no"
    BY Zenon, <1>1, <1>2 DEF BusyIsActive
  <2>2. InList(mp_list[c], e)
    BY Zenon, <2>1, CpuNames DEF TasksInv
  <2>3. mp_call[e].pc # "clean"
    BY Zenon, <2>2 DEF mp_hotplug_cpu, InList
  <2>4. mp_call[e].pc # "none"
    BY Zenon DEF TasksInv
  <2>5. c \in left_cpu[e]
    BY Zenon, <1>1, <2>4 DEF TargetsInv
  <2> QED
    BY Zenon, <2>3, <2>5
<1>4. MpTypeOK'
  BY Zenon, <1>1, <1>2 DEF MpTypeOK
<1>5. BusyIsActive'
  BY Zenon, <1>1 DEF BusyIsActive
<1>6. TasksInv'
  BY <1>1, <1>3 DEF TasksInv
<1>7. TargetsInv'
  BY Zenon, <1>1 DEF TargetsInv
<1>8. InterruptInv'
  BY <1>1, <1>3 DEF InterruptInv
<1> QED
  BY <1>4, <1>5, <1>6, <1>7, <1>8

(* Every step of the calls, of the interrupts and of the plugging. *)
LEMMA MpStepInv == MpInv /\ [MpNext]_mpVars => MpInv'
<1>1. ASSUME MpInv, MpNext PROVE MpInv'
  <2>1. PICK c \in MpCpus :
          \/ \E target \in {MpCpus, MpCpus \ {c}}, disabled \in BOOLEAN :
               mp_sync_exec(c, target, disabled)
          \/ Enqueue(c) \/ SendIpi(c) \/ SpinEnds(c) \/ MpCleanUp(c)
          \/ mp_mbx_generic_irq(c) \/ TakeTask(c) \/ mp_sync_task(c)
          \/ mp_unplug_cpu(c) \/ mp_unplug_trampoline(c) \/ mp_hotplug_cpu(c)
    BY <1>1, Zenon DEF MpNext
  <2>2. CASE \E target \in {MpCpus, MpCpus \ {c}}, disabled \in BOOLEAN :
               mp_sync_exec(c, target, disabled)
    <3>1. PICK target \in {MpCpus, MpCpus \ {c}}, disabled \in BOOLEAN :
            mp_sync_exec(c, target, disabled)
      BY <2>2, Zenon
    <3>2. target \in SUBSET MpCpus
      BY Zenon
    <3> QED
      BY <1>1, <3>1, <3>2, ExecKeepsInv, Zenon
  <2> QED
    BY <1>1, <2>1, <2>2, EnqueueKeepsInv, SendIpiKeepsInv, SpinEndsKeepsInv, CleanUpKeepsInv,
       IrqKeepsInv, TakeTaskKeepsInv, SyncTaskKeepsInv, UnplugKeepsInv, TrampolineKeepsInv,
       HotplugKeepsInv, Zenon
<1>2. ASSUME MpInv, UNCHANGED mpVars PROVE MpInv'
  BY <1>2, Zenon
     DEF mpVars, MpInv, MpTypeOK, BusyIsActive, TasksInv, TargetsInv, InterruptInv
<1> QED
  BY Zenon, <1>1, <1>2

(* For any number of CPUs and any order of their calls, interrupts, unplugs  *)
(* and hotplugs: when mp_sync_exec stops waiting every target has run its    *)
(* task or went offline; no task outlives the call whose stack it is on; and *)
(* a CPU that is waited for has the task, and the interrupt pending or       *)
(* served.                                                                   *)
THEOREM MpCallsCompleteAlways == MpSpec => []MpCallsComplete
<1>1. ASSUME MpInv PROVE MpCallsComplete
  <2> USE <1>1 DEF MpInv
  <2>1. ASSUME NEW c \in MpCpus, mp_call[c].pc = "clean"
        PROVE  mp_call[c].target \subseteq ran[c] \cup left_cpu[c]
    BY Zenon, <2>1 DEF TasksInv, TargetsInv
  <2>2. ASSUME NEW d \in MpCpus, NEW c \in MpCpus, d \in outstanding[c]
        PROVE  mp_call[c].pc \in {"queued", "spin", "clean"}
    BY Zenon, <2>2 DEF TasksInv, MpTypeOK, MpPc
  <2>3. ASSUME NEW c \in MpCpus, NEW i \in DOMAIN mp_list[c]
        PROVE  mp_call[mp_list[c][i]].pc \in {"queued", "spin", "clean"}
    <3>1. mp_list[c][i] \in MpCpus /\ InList(mp_list[c], mp_list[c][i])
      BY DEF MpTypeOK, InList
    <3> QED
      BY Zenon, <2>2, <3>1 DEF TasksInv
  <2>4. ASSUME NEW c \in MpCpus, serving[c] \in MpCpus
        PROVE  mp_call[serving[c]].pc \in {"queued", "spin"}
    <3>1. c \in outstanding[serving[c]] /\ c \in active
      BY Zenon, <2>4, CpuNames DEF TasksInv, BusyIsActive
    <3>2. c \in online
      BY Zenon, <3>1 DEF MpTypeOK
    <3> QED
      BY Zenon, <2>2, <2>4, <3>1, <3>2 DEF TasksInv
  <2>5. ExecComplete
    BY <2>1, <2>3, <2>4, Zenon DEF ExecComplete
  <2>6. \A c, d \in MpCpus : d \in outstanding[c] => serving[d] = c \/ InList(mp_list[d], c)
    BY Zenon DEF TasksInv
  <2>7. WaitsAreServed
    BY Zenon, <2>6 DEF WaitsAreServed, InterruptInv, MpTypeOK
  <2> QED
    BY Zenon, <2>5, <2>7 DEF MpCallsComplete
<1> QED
  BY <1>1, MpInitInv, MpStepInv, PTL DEF MpSpec

-----------------------------------------------------------------------------
(* Handles.  A slot has one owner because the owners exclude each other, and *)
(* process_id_ says which handles are in a table or about to be.             *)

InTable(s) == \E p \in Processes : s \in handles[p]
InHand(s) == \E t \in Callers : held[t] = s

Placed ==
  /\ \A p \in Processes : \A s \in handles[p] :
       process_id[s] = p /\ object[s] # None /\ s \notin transit /\ ~InHand(s)
  /\ \A s \in transit : process_id[s] = None /\ object[s] # None /\ ~InHand(s)
  /\ \A t \in Callers :
       /\ pc[t] = "idle" <=> held[t] = None
       /\ held[t] # None => object[held[t]] # None
       /\ pc[t] \in {"write", "delete"} => process_id[held[t]] = None
       /\ \A u \in Callers : held[u] = held[t] /\ held[t] # None => u = t
  /\ \A s \in Slots :
       IF object[s] = None THEN process_id[s] = None
       ELSE s \in transit \/ InTable(s) \/ InHand(s)

(* The count of an object says how many of its handles have been deleted: it *)
(* was 1 when the object was made.                                           *)
Copies(o) == {s \in Slots : object[s] = o}
Deletions(o) ==
  IF count[o] = 0 THEN 1 ELSE IF count[o] = 1 THEN 0 ELSE Modulus + 1 - count[o]

CountOf(o) ==
  IF o \in made
  THEN /\ Deletions(o) + Cardinality(Copies(o)) \in 1 .. dups + 1
       /\ zeroed[o] = IF Deletions(o) = 0 THEN 0 ELSE 1
  ELSE Copies(o) = {} /\ count[o] = 0 /\ zeroed[o] = 0

CountOK == \A o \in Objects : CountOf(o)

HandlesInv == TypeOK /\ (~lost => Placed) /\ CountOK

-----------------------------------------------------------------------------
(* The set of handles of an object is finite. *)
LEMMA CopiesFinite ==
  ASSUME NEW o
  PROVE  IsFiniteSet(Copies(o)) /\ Cardinality(Copies(o)) \in Nat
<1>1. IsFiniteSet(Copies(o))
  BY Zenon, HandlesAssumption, FS_Subset DEF Copies
<1> QED
  BY Zenon, <1>1, FS_CardinalityType

(* remove_handle counts down, and wraps from zero to the greatest count. *)
LEMMA CountDown ==
  ASSUME NEW c \in 0 .. Modulus - 1
  PROVE  (c + Modulus - 1) % Modulus = IF c = 0 THEN Modulus - 1 ELSE c - 1
<1>0. Modulus \in Nat /\ Modulus > 1
  BY HandlesAssumption
<1>1. CASE c = 0
  <2>1. (c + Modulus - 1) \in 0 .. Modulus - 1
    BY <1>0, <1>1
  <2> QED
    BY <1>0, <1>1, <2>1
<1>2. CASE c # 0
  <2>1. c - 1 \in 0 .. Modulus - 1 /\ c + Modulus - 1 = 1 * Modulus + (c - 1)
    BY <1>0, <1>2
  <2>2. (c + Modulus - 1) % Modulus = c - 1
    BY <1>0, <2>1
  <2> QED
    BY Zenon, <1>2, <2>2
<1> QED
  BY Zenon, <1>1, <1>2

LEMMA HandlesInit == Init => HandlesInv
<1> SUFFICES ASSUME Init PROVE HandlesInv
  OBVIOUS
<1> USE DEF Init
<1>0. 0 \in 0 .. Modulus - 1 /\ 0 \in 0 .. MaxDups
  BY HandlesAssumption
<1>5. lost \in BOOLEAN
  BY Zenon
<1>1. TypeOK
  BY Zenon, <1>0, <1>5 DEF TypeOK
<1>2. Placed
  BY Zenon, HandlesAssumption DEF Placed, InHand, InTable
<1>3. ASSUME NEW o \in Objects PROVE Copies(o) = {}
  BY Zenon, HandlesAssumption DEF Copies
<1>4. CountOK
  BY Zenon, <1>3 DEF CountOK, CountOf
<1> QED
  BY Zenon, <1>1, <1>2, <1>4 DEF HandlesInv

LEMMA Wider ==
  ASSUME NEW m \in Nat, NEW n \in Nat, n >= m
  PROVE  1 .. m + 1 \subseteq 1 .. n + 1
  OBVIOUS

(* The counts of objects that no handle is made for or deleted.              *)
LEMMA SameCount ==
  ASSUME CountOK, NEW o \in Objects, made' \cap {o} = made \cap {o}, count'[o] = count[o],
         zeroed'[o] = zeroed[o], dups \in Nat, dups' \in Nat, dups' >= dups,
         \A s \in Slots : object[s] = o <=> object'[s] = o
  PROVE  CountOf(o)'
<1>1. Copies(o)' = Copies(o)
  BY Zenon DEF Copies
<1>2. Deletions(o)' = Deletions(o)
  BY Zenon DEF Deletions
<1>3. o \in made' <=> o \in made
  BY Zenon
<1>4. 1 .. dups + 1 \subseteq 1 .. dups' + 1
  BY Zenon, Wider
<1> QED
  BY Zenon, <1>1, <1>2, <1>3, <1>4 DEF CountOK, CountOf

(* Steps that neither make nor delete a handle. *)
LEMMA SameCounts ==
  ASSUME TypeOK, CountOK, UNCHANGED <<object, objects, dups>>
  PROVE  CountOK'
<1>1. dups \in Nat
  BY DEF TypeOK
<1> QED
  BY <1>1, SameCount DEF CountOK, CountOf, objects

LEMMA AddKeepsHandles ==
  ASSUME HandlesInv, ~lost, NEW t \in Callers, AddHandle(t)
  PROVE  HandlesInv'
<1> USE DEF HandlesInv
<1>0. TypeOK /\ Placed /\ CountOK /\ t[1] \in Processes /\ held[t] \in Slots
  BY HandlesAssumption DEF AddHandle, Placed, TypeOK, Callers
<1>1. TypeOK'
  BY Zenon, <1>0 DEF AddHandle, Hold, objects, TypeOK
<1>2. CountOK'
  BY Zenon, <1>0, SameCounts DEF AddHandle
<1>3. Placed'
  BY <1>0, HandlesAssumption DEF AddHandle, Hold, objects, TypeOK, Placed, InHand, InTable
<1> QED
  BY Zenon, <1>1, <1>2, <1>3

(* Handles that a call takes off its table. *)
LEMMA RemoveKeepsHandles ==
  ASSUME HandlesInv, ~lost, NEW t \in Callers, NEW s \in Slots, NEW label \in {"write", "delete"},
         pc[t] = "idle", RemoveHandle(t, s), Hold(t, s, label), UNCHANGED <<object, transit, objects, dups>>
  PROVE  HandlesInv'
<1> USE DEF HandlesInv
<1>0. TypeOK /\ Placed /\ CountOK /\ t[1] \in Processes
  BY Zenon DEF Callers
<1>1. TypeOK'
  BY Zenon, <1>0, HandlesAssumption DEF RemoveHandle, Hold, objects, TypeOK
<1>2. CountOK'
  BY Zenon, <1>0, SameCounts
<1>3. ASSUME ~lost' PROVE Placed'
  <2>1. /\ s \in handles[t[1]]
        /\ process_id' = [process_id EXCEPT ![s] = None]
        /\ handles' = [handles EXCEPT ![t[1]] = @ \ {s}]
    BY <1>3, Zenon DEF RemoveHandle
  <2> QED
    BY <1>0, <2>1, HandlesAssumption DEF Hold, objects, TypeOK, Placed, InHand, InTable
<1> QED
  BY Zenon, <1>1, <1>2, <1>3

LEMMA WriteKeepsHandles ==
  ASSUME HandlesInv, ~lost, NEW t \in Callers, Write(t)
  PROVE  HandlesInv'
<1> USE DEF HandlesInv
<1>0. TypeOK /\ Placed /\ CountOK /\ held[t] \in Slots
  BY HandlesAssumption DEF Write, Placed, TypeOK
<1>1. TypeOK'
  BY Zenon, <1>0 DEF Write, Hold, objects, TypeOK
<1>2. CountOK'
  BY Zenon, <1>0, SameCounts DEF Write
<1>3. Placed'
  BY <1>0, HandlesAssumption DEF Write, Hold, objects, TypeOK, Placed, InHand, InTable
<1> QED
  BY <1>1, <1>2, <1>3

LEMMA ReceiveKeepsHandles ==
  ASSUME HandlesInv, ~lost, NEW t \in Callers, NEW s \in Slots, NEW label \in {"add", "delete"},
         Receive(t, s, label)
  PROVE  HandlesInv'
<1> USE DEF HandlesInv
<1>0. TypeOK /\ Placed /\ CountOK
  BY Zenon
<1>1. TypeOK'
  BY Zenon, <1>0 DEF Receive, Hold, objects, TypeOK
<1>2. CountOK'
  BY Zenon, <1>0, SameCounts DEF Receive
<1>3. Placed'
  BY <1>0, HandlesAssumption DEF Receive, Hold, objects, TypeOK, Placed, InHand, InTable
<1> QED
  BY Zenon, <1>1, <1>2, <1>3

(* An object is made with its first handle. *)
LEMMA CreateKeepsHandles ==
  ASSUME HandlesInv, ~lost, NEW t \in Callers, NEW s \in Slots, NEW o \in Objects, Create(t, s, o)
  PROVE  HandlesInv'
<1> USE DEF HandlesInv
<1>0. TypeOK /\ Placed /\ CountOK /\ dups \in Nat
  BY DEF TypeOK
<1>1. /\ o \notin made /\ object[s] = None /\ made' = made \union {o} /\ dups' = dups
      /\ object' = [object EXCEPT ![s] = o] /\ zeroed' = zeroed
      /\ count' = [count EXCEPT ![o] = (@ + 1) % Modulus]
  BY Zenon DEF Create
<1>2. count[o] = 0 /\ zeroed[o] = 0 /\ Copies(o) = {}
  BY Zenon, <1>0, <1>1 DEF CountOK, CountOf
<1>3. (0 + 1) % Modulus = 1 /\ 1 \in 0 .. Modulus - 1
  BY HandlesAssumption
<1>4. count' = [count EXCEPT ![o] = 1]
  BY Zenon, <1>0, <1>1, <1>2, <1>3 DEF TypeOK
<1>5. TypeOK'
  BY <1>0, <1>1, <1>3, <1>4 DEF Create, Hold, TypeOK
<1>6. Placed'
  BY <1>0, HandlesAssumption DEF Create, Hold, TypeOK, Placed, InHand, InTable
<1>7. ASSUME NEW x \in Objects, x # o PROVE CountOf(x)'
  <2>1. /\ made' \cap {x} = made \cap {x} /\ count'[x] = count[x] /\ zeroed'[x] = zeroed[x]
        /\ \A y \in Slots : object[y] = x <=> object'[y] = x
    BY Zenon, <1>0, <1>1, <1>7, HandlesAssumption DEF TypeOK
  <2>2. dups' \in Nat /\ dups' >= dups
    BY <1>0, <1>1
  <2> QED
    BY Zenon, <1>0, <2>1, <2>2, SameCount
<1>8. /\ Deletions(o)' + Cardinality(Copies(o)') \in 1 .. dups' + 1
      /\ zeroed'[o] = IF Deletions(o)' = 0 THEN 0 ELSE 1
  <2>1. Copies(o)' = {s}
    BY <1>0, <1>1, <1>2 DEF Copies, TypeOK
  <2>2. Deletions(o)' = 0
    BY Zenon, <1>0, <1>4 DEF Deletions, TypeOK
  <2>3. Cardinality(Copies(o)') = 1
    BY Zenon, <2>1, FS_Singleton
  <2> QED
    BY <1>0, <1>1, <1>2, <2>2, <2>3
<1>9. CountOK'
  BY Zenon, <1>1, <1>7, <1>8 DEF CountOK, CountOf
<1> QED
  BY Zenon, <1>5, <1>6, <1>9

(* DupHandle makes a handle that is not counted. *)
LEMMA DuplicateKeepsHandles ==
  ASSUME HandlesInv, ~lost, NEW t \in Callers, NEW from \in Slots, NEW s \in Slots,
         Duplicate(t, from, s)
  PROVE  HandlesInv'
<1> USE DEF HandlesInv
<1>0. TypeOK /\ Placed /\ CountOK /\ dups \in Nat /\ t[1] \in Processes
  BY DEF TypeOK, Callers
<1>2. PICK o \in Objects : o = object[from]
  BY <1>0, HandlesAssumption DEF Duplicate, Placed, TypeOK
<1>1. /\ object[s] = None /\ dups' = dups + 1 /\ dups < MaxDups
      /\ object' = [object EXCEPT ![s] = o] /\ count' = count /\ made' = made /\ zeroed' = zeroed
  BY Zenon, <1>2 DEF Duplicate, objects
<1>3. dups' \in Nat /\ dups' >= dups /\ dups' \in 0 .. MaxDups
  BY <1>0, <1>1, HandlesAssumption
<1>5. TypeOK'
  BY Zenon, <1>0, <1>1, <1>2, <1>3 DEF Duplicate, Hold, TypeOK
<1>6. Placed'
  BY <1>0, <1>2, HandlesAssumption DEF Duplicate, Hold, TypeOK, Placed, InHand, InTable
<1>7. ASSUME NEW x \in Objects, x # o PROVE CountOf(x)'
  <2>1. /\ made' \cap {x} = made \cap {x} /\ count'[x] = count[x] /\ zeroed'[x] = zeroed[x]
        /\ \A y \in Slots : object[y] = x <=> object'[y] = x
    BY Zenon, <1>0, <1>1, <1>7, HandlesAssumption DEF TypeOK
  <2> QED
    BY Zenon, <1>0, <1>3, <2>1, SameCount
<1>8. /\ o \in made' /\ Deletions(o)' + Cardinality(Copies(o)') \in 1 .. dups' + 1
      /\ zeroed'[o] = IF Deletions(o)' = 0 THEN 0 ELSE 1
  <2>1. Copies(o)' = Copies(o) \union {s} /\ s \notin Copies(o) /\ from \in Copies(o)
    BY <1>0, <1>1, <1>2, HandlesAssumption DEF Copies, TypeOK
  <2>2. Cardinality(Copies(o)') = Cardinality(Copies(o)) + 1
    <3>1. Cardinality(Copies(o) \union {s}) = Cardinality(Copies(o)) + 1
      BY Zenon, <2>1, CopiesFinite, FS_AddElement
    <3> QED
      BY Zenon, <2>1, <3>1
  <2>3. o \in made
    BY Zenon, <1>0, <1>2, <2>1 DEF CountOK, CountOf
  <2>4. /\ Deletions(o) + Cardinality(Copies(o)) \in 1 .. dups + 1
        /\ zeroed[o] = IF Deletions(o) = 0 THEN 0 ELSE 1
    BY Zenon, <1>0, <1>2, <2>3 DEF CountOK, CountOf
  <2>5. Deletions(o)' = Deletions(o) /\ Deletions(o) \in Nat
    BY <1>0, <1>1, <1>2, HandlesAssumption DEF Deletions, TypeOK
  <2>6. Deletions(o)' + Cardinality(Copies(o)') \in 1 .. dups' + 1
    BY <1>0, <1>1, <2>2, <2>4, <2>5, CopiesFinite
  <2> QED
    BY Zenon, <1>1, <2>3, <2>4, <2>5, <2>6
<1>9. CountOK'
  BY Zenon, <1>1, <1>7, <1>8 DEF CountOK, CountOf
<1> QED
  BY Zenon, <1>5, <1>6, <1>9

(* ~Handle counts down from 1 to zero, where on_zero_handles is called, and *)
(* then from the greatest count, which never gets to 1 again.               *)
LEMMA DeleteKeepsHandles ==
  ASSUME HandlesInv, ~lost, NEW t \in Callers, DeleteHandle(t)
  PROVE  HandlesInv'
<1> USE DEF HandlesInv
<1>0. TypeOK /\ Placed /\ CountOK /\ dups \in Nat
  BY DEF TypeOK
<1>1. PICK s \in Slots, o \in Objects : s = held[t] /\ o = object[s]
  BY <1>0, HandlesAssumption DEF DeleteHandle, Deleting, Placed, TypeOK
<1> DEFINE n == IF count[o] = 0 THEN Modulus - 1 ELSE count[o] - 1
<1>2. /\ object' = [object EXCEPT ![s] = None] /\ made' = made /\ dups' = dups
      /\ zeroed' = [zeroed EXCEPT ![o] = IF count[o] = 1 THEN @ + 1 ELSE @]
      /\ count' = [count EXCEPT ![o] = (count[o] + Modulus - 1) % Modulus]
  BY Zenon, <1>1 DEF DeleteHandle, Deleting, Counted
<1>3. count[o] \in 0 .. Modulus - 1 /\ n \in 0 .. Modulus - 1
  BY <1>0, <1>1, HandlesAssumption DEF TypeOK
<1>4. count' = [count EXCEPT ![o] = n]
  BY Zenon, <1>2, <1>3, CountDown
<1>5. TypeOK'
  BY <1>0, <1>1, <1>2, <1>3, <1>4 DEF DeleteHandle, Deleting, Hold, TypeOK
<1>6. Placed'
  BY <1>0, <1>1, HandlesAssumption DEF DeleteHandle, Deleting, Hold, TypeOK, Placed, InHand, InTable
<1>7. ASSUME NEW x \in Objects, x # o PROVE CountOf(x)'
  <2>1. /\ made' \cap {x} = made \cap {x} /\ count'[x] = count[x] /\ zeroed'[x] = zeroed[x]
        /\ \A y \in Slots : object[y] = x <=> object'[y] = x
    BY Zenon, <1>0, <1>1, <1>2, <1>4, <1>7, HandlesAssumption DEF TypeOK
  <2>2. dups' \in Nat /\ dups' >= dups
    BY <1>0, <1>2
  <2> QED
    BY Zenon, <1>0, <2>1, <2>2, SameCount
<1>8. /\ o \in made' /\ Deletions(o)' + Cardinality(Copies(o)') \in 1 .. dups' + 1
      /\ zeroed'[o] = IF Deletions(o)' = 0 THEN 0 ELSE 1
  <2>1. Copies(o)' = Copies(o) \ {s} /\ s \in Copies(o)
    BY Zenon, <1>0, <1>1, <1>2, HandlesAssumption DEF Copies, TypeOK
  <2>2. Cardinality(Copies(o)') = Cardinality(Copies(o)) - 1
    BY Zenon, <2>1, CopiesFinite, FS_RemoveElement
  <2>3. o \in made
    BY Zenon, <1>0, <1>1, <2>1 DEF CountOK, CountOf
  <2>4. /\ Deletions(o) + Cardinality(Copies(o)) \in 1 .. dups + 1
        /\ zeroed[o] = IF Deletions(o) = 0 THEN 0 ELSE 1
    BY Zenon, <1>0, <1>1, <2>3 DEF CountOK, CountOf
  <2>5. Cardinality(Copies(o)) >= 1
    <3>1. Cardinality(Copies(o)) # 0
      BY Zenon, <2>1, CopiesFinite, FS_EmptySet
    <3> QED
      BY <3>1, CopiesFinite
  <2>6. Deletions(o) \in Nat /\ Deletions(o) <= dups /\ dups <= MaxDups
    BY <1>0, <1>3, <2>4, <2>5, CopiesFinite, HandlesAssumption DEF Deletions, TypeOK
  <2>7. count'[o] = n
    BY Zenon, <1>0, <1>1, <1>4 DEF TypeOK
  <2>8. Deletions(o)' = Deletions(o) + 1
    <3>1. CASE count[o] = 0
      <4>1. Deletions(o) = 1 /\ Modulus > 2
        BY <1>0, <2>6, <3>1, HandlesAssumption DEF Deletions
      <4>2. count'[o] = Modulus - 1
        BY Zenon, <2>7, <3>1
      <4> QED
        BY <4>1, <4>2, HandlesAssumption DEF Deletions
    <3>2. CASE count[o] = 1
      BY <1>3, <2>7, <3>2, HandlesAssumption DEF Deletions
    <3>3. CASE count[o] > 1
      <4>1. count[o] # 2
        BY <1>0, <2>6, <3>3, HandlesAssumption DEF Deletions
      <4> QED
        BY <1>3, <2>7, <3>3, <4>1, HandlesAssumption DEF Deletions
    <3> QED
      BY <1>3, <3>1, <3>2, <3>3
  <2>9. Deletions(o)' + Cardinality(Copies(o)') \in 1 .. dups' + 1
    BY <1>0, <1>2, <2>2, <2>4, <2>6, <2>8, CopiesFinite
  <2>10. zeroed'[o] = 1
    <3>1. zeroed'[o] = IF count[o] = 1 THEN zeroed[o] + 1 ELSE zeroed[o]
      BY Zenon, <1>0, <1>1, <1>2 DEF TypeOK
    <3>2. Deletions(o) = 0 <=> count[o] = 1
      BY <1>3, <2>6, HandlesAssumption DEF Deletions
    <3>3. CASE count[o] = 1
      BY <2>4, <3>1, <3>2, <3>3
    <3>4. CASE count[o] # 1
      BY Zenon, <2>4, <3>1, <3>2, <3>4
    <3> QED
      BY Zenon, <3>3, <3>4
  <2> QED
    BY <1>2, <2>3, <2>6, <2>8, <2>9, <2>10
<1>9. CountOK'
  BY Zenon, <1>2, <1>7, <1>8 DEF CountOK, CountOf
<1> QED
  BY Zenon, <1>5, <1>6, <1>9

LEMMA HandlesStep == HandlesInv /\ [Next]_vars => HandlesInv'
<1> SUFFICES ASSUME HandlesInv, [Next]_vars PROVE HandlesInv'
  BY Zenon
<1>1. CASE UNCHANGED vars
  <2>1. TypeOK /\ CountOK /\ (~lost => Placed)
    BY Zenon DEF HandlesInv
  <2>2. CountOK'
    BY Zenon, <1>1, <2>1, SameCounts DEF vars, objects
  <2>3. TypeOK'
    BY Zenon, <1>1, <2>1 DEF vars, TypeOK
  <2>4. ~lost' => Placed'
    BY <1>1, <2>1 DEF vars, Placed, InHand, InTable
  <2> QED
    BY Zenon, <2>2, <2>3, <2>4 DEF HandlesInv
<1>2. CASE Next
  <2>1. ~lost /\ \E t \in Callers :
          \/ AddHandle(t) \/ DeleteHandle(t) \/ Write(t)
          \/ \E s \in Slots :
               \/ Close(t, s) \/ Send(t, s) \/ Receive(t, s, "add") \/ Receive(t, s, "delete")
               \/ \E o \in Objects : Create(t, s, o)
               \/ \E from \in Slots : Duplicate(t, from, s)
    BY Zenon, <1>2 DEF Next
  <2>2. ASSUME NEW t \in Callers, NEW s \in Slots, Close(t, s) \/ Send(t, s) PROVE HandlesInv'
    BY Zenon, <2>1, <2>2, RemoveKeepsHandles DEF Close, Send
  <2>3. ASSUME NEW t \in Callers, NEW s \in Slots, Receive(t, s, "add") \/ Receive(t, s, "delete")
        PROVE  HandlesInv'
    BY Zenon, <2>1, <2>3, ReceiveKeepsHandles
  <2> QED
    BY Zenon, <2>1, <2>2, <2>3, AddKeepsHandles, DeleteKeepsHandles, WriteKeepsHandles,
       CreateKeepsHandles, DuplicateKeepsHandles, Zenon
<1> QED
  BY Zenon, <1>1, <1>2

(* A slot has one owner if it holds a handle. *)
LEMMA OwnersFacts ==
  ASSUME TypeOK, Placed, NEW s \in Slots
  PROVE  Cardinality(Owners(s)) = IF object[s] = None THEN 0 ELSE 1
<1>1. CASE object[s] = None
  <2>1. Owners(s) = {}
    BY <1>1, HandlesAssumption DEF Owners, Placed, TypeOK
  <2> QED
    BY Zenon, <1>1, <2>1, FS_EmptySet
<1>2. CASE object[s] # None
  <2>1. \E x : Owners(s) = {x}
    <3>1. CASE s \in transit
      <4>1. Owners(s) = {<<"message", s>>}
        BY <1>2, <3>1, HandlesAssumption DEF Owners, Placed, TypeOK, InHand
      <4> QED
        BY Zenon, <4>1
    <3>2. ASSUME NEW p \in Processes, s \in handles[p] PROVE \E x : Owners(s) = {x}
      <4>1. \A q \in Processes : s \in handles[q] => q = p
        BY <3>2, HandlesAssumption DEF Placed, TypeOK
      <4>2. s \notin transit /\ \A t \in Callers : held[t] # s
        BY Zenon, <3>2 DEF Placed, TypeOK, InHand
      <4>3. Owners(s) = {<<"table", p>>}
        BY Zenon, <3>2, <4>1, <4>2 DEF Owners
      <4> QED
        BY Zenon, <4>3
    <3>3. ASSUME NEW t \in Callers, held[t] = s PROVE \E x : Owners(s) = {x}
      <4>1. /\ \A u \in Callers : held[u] = s => u = t
            /\ s \notin transit /\ \A p \in Processes : s \notin handles[p]
        BY <3>3, HandlesAssumption DEF Placed, TypeOK, InHand
      <4>2. Owners(s) = {<<"thread", t>>}
        BY Zenon, <3>3, <4>1 DEF Owners
      <4> QED
        BY Zenon, <4>2
    <3> QED
      BY Zenon, <1>2, <3>1, <3>2, <3>3 DEF Placed, InTable, InHand
  <2> QED
    BY Zenon, <1>2, <2>1, FS_Singleton
<1> QED
  BY Zenon, <1>1, <1>2

(* At every step of any number of processes and threads, a handle has one    *)
(* owner and a free slot none, and on_zero_handles has been called once for  *)
(* an object without handles and never twice (ProcessDispatcher's handle     *)
(* table, DupHandle, DeleteHandle, Dispatcher::remove_handle).               *)
THEOREM HandlesSoundAlways == Spec => []HandlesSound
<1>1. HandlesInv => HandlesSound
  <2> SUFFICES ASSUME HandlesInv PROVE HandlesSound
    BY Zenon
  <2>1. TypeOK /\ CountOK /\ (~lost => Placed)
    BY Zenon DEF HandlesInv
  <2>2. OneOwner
    BY Zenon, <2>1, OwnersFacts DEF OneOwner, Placed
  <2>3. ASSUME NEW o \in Objects
        PROVE  zeroed[o] <= 1 /\ (o \in made /\ (\A s \in Slots : object[s] # o) => zeroed[o] = 1)
    <3>1. zeroed[o] \in {0, 1}
      BY Zenon, <2>1 DEF CountOK, CountOf
    <3>2. ASSUME o \in made, \A s \in Slots : object[s] # o PROVE zeroed[o] = 1
      <4>1. Cardinality(Copies(o)) = 0
        BY Zenon, <3>2, FS_EmptySet DEF Copies
      <4>2. Deletions(o) \in Int
        BY <2>1, HandlesAssumption DEF Deletions, TypeOK
      <4>3. Deletions(o) # 0
        BY <2>1, <3>2, <4>1, <4>2 DEF CountOK, CountOf
      <4> QED
        BY Zenon, <2>1, <3>2, <4>3 DEF CountOK, CountOf
    <3> QED
      BY <3>1, <3>2
  <2> QED
    BY Zenon, <2>2, <2>3 DEF HandlesSound, ZeroedOnce
<1> QED
  BY HandlesInit, HandlesStep, <1>1, PTL DEF Spec
=============================================================================
