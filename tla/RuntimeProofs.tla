--------------------------- MODULE RuntimeProofs ----------------------------
(***************************************************************************)
(* Proofs about the libraries and services of user mode: MxrThread, NetLog *)
(* and MxrRuntime, for any number of threads, datagrams and restarts.      *)
(***************************************************************************)
EXTENDS MxrRuntime, MxrThread, NetLog, ListProofs

-----------------------------------------------------------------------------
(* MxrThread.  The page and the handle of an mxr_thread_t are released once,  *)
(* whatever the order in which the thread returns and its owner joins or      *)
(* detaches.  What makes this inductive is that thread->state tells each side *)
(* where the other one is, and so who will release them.                      *)

(* What is left of the page and the handle. *)
Kept == thr_page = "mapped" /\ thr_handle = "open" /\ thr_closes = 0
HandleClosed == thr_page = "mapped" /\ thr_handle = "closed" /\ thr_closes = 1
Gone == thr_page = "unmapped" /\ thr_handle = "closed" /\ thr_closes = 1

(* Where the thread may be while its owner is not through. *)
OwnerBusy ==
  /\ thr_owner \in {"created", "own", "join wait", "join close", "join unmap",
                    "detach close", "detach unmap"}
  /\ thr_state \in {"JOINABLE", "JOINED", "DONE"}
  /\ thr_state = "JOINABLE" => thr_child \in {"entry", "returned"} /\ thr_owner \in {"created", "own"}
  /\ thr_state = "DONE" => thr_child \in {"exit", "exited"} /\ thr_owner # "join wait"
  /\ thr_state = "JOINED" =>
       /\ thr_owner \in {"join wait", "join close", "join unmap"}
       /\ thr_child \in {"entry", "returned", "exit", "exited"}
       /\ thr_owner # "join wait" => thr_child = "exited"
  /\ thr_owner = "created" => thr_page = "mapped" /\ thr_handle = "none" /\ thr_closes = 0
  /\ thr_owner \in {"own", "join wait", "join close", "detach close"} => Kept
  /\ thr_owner \in {"join unmap", "detach unmap"} => HandleClosed
  /\ thr_got = 0

(* The owner has joined, or has detached a thread that was done. *)
OwnerReleased ==
  /\ thr_owner = "end" /\ thr_state \in {"JOINED", "DONE"}
  /\ thr_child \in {"exit", "exited"}
  /\ Gone

(* The owner has detached a thread that was not done. *)
ChildReleases ==
  /\ thr_owner = "end" /\ thr_state = "DETACHED"
  /\ \/ thr_child \in {"entry", "returned", "close"} /\ Kept
     \/ thr_child = "unmap" /\ HandleClosed
     \/ thr_child \in {"exit", "exited"} /\ Gone
  /\ thr_got = 0

(* There is no thread. *)
NoThread ==
  /\ thr_child = "none" /\ thr_state = "JOINABLE"
  /\ thr_handle = "none" /\ thr_closes = 0 /\ thr_got = 0
  /\ \/ thr_owner = "start" /\ thr_page = "none"
     \/ thr_owner = "create failed" /\ thr_page = "mapped"
     \/ thr_owner = "end" /\ thr_page = "unmapped"

ThreadPageInv ==
  /\ thr_fault = FALSE
  /\ NoThread \/ OwnerBusy \/ OwnerReleased \/ ChildReleases
  /\ thr_child \notin {"none", "entry"} => return_value = thr_returned
  /\ thr_got # 0 => thr_got = thr_returned

USE DEF Touches, Kept, HandleClosed, Gone

(* A thread that has not been created has nothing to release. *)
LEMMA ThreadPageInit == MxrThreadInit => ThreadPageInv
  BY Zenon DEF MxrThreadInit, ThreadPageInv, NoThread

(* Closing a handle that is open, with the page mapped, closes it once. *)
LEMMA ClosedOnce ==
  ASSUME Kept, thr_fault = FALSE, CloseHandle
  PROVE  thr_handle' = "closed" /\ thr_closes' = 1 /\ thr_fault' = FALSE
<1>1. thr_handle' = "closed" /\ thr_fault' = FALSE
  BY Zenon DEF CloseHandle
<1>2. thr_closes' = 0 + 1
  BY Zenon DEF CloseHandle
<1> QED
  BY <1>1, <1>2

(* Every step of mxr_thread_create, mxr_thread_join, mxr_thread_detach and   *)
(* thread_trampoline keeps the two sides in agreement.                       *)
LEMMA ThreadPageStep == ThreadPageInv /\ [MxrThreadNext]_mxrtVars => ThreadPageInv'
<1> SUFFICES ASSUME ThreadPageInv, [MxrThreadNext]_mxrtVars PROVE ThreadPageInv'
  BY Zenon
<1> USE DEF ThreadPageInv, NoThread, OwnerBusy, OwnerReleased, ChildReleases
<1>1. CASE mxr_thread_create
  BY <1>1, Zenon DEF mxr_thread_create
<1>2. CASE CreateFails
  BY <1>2, Zenon DEF CreateFails, deallocate_thread_page
<1>3. CASE StoreHandle
  BY <1>3, Zenon DEF StoreHandle
<1>4. CASE mxr_thread_join
  BY <1>4, Zenon DEF mxr_thread_join
<1>5. CASE JoinWait
  BY <1>5, Zenon DEF JoinWait
<1>6. CASE JoinClose
  <2>1. Kept /\ CloseHandle
    BY <1>6, Zenon DEF JoinClose
  <2> QED
    BY <1>6, <2>1, ClosedOnce, Zenon DEF JoinClose
<1>7. CASE JoinUnmap
  BY <1>7, Zenon DEF JoinUnmap, deallocate_thread_page
<1>8. CASE mxr_thread_detach
  BY <1>8, Zenon DEF mxr_thread_detach
<1>9. CASE DetachClose
  <2>1. Kept /\ CloseHandle
    BY <1>9, Zenon DEF DetachClose
  <2> QED
    BY <1>9, <2>1, ClosedOnce, Zenon DEF DetachClose
<1>10. CASE DetachUnmap
  BY <1>10, Zenon DEF DetachUnmap, deallocate_thread_page
<1>11. CASE EntryReturns
  BY <1>11, Zenon DEF EntryReturns
<1>12. CASE Finish
  BY <1>12, Zenon DEF Finish
<1>13. CASE ChildClose
  <2>1. Kept /\ CloseHandle
    BY <1>13, Zenon DEF ChildClose
  <2> QED
    BY <1>13, <2>1, ClosedOnce, Zenon DEF ChildClose
<1>14. CASE ChildUnmap
  BY <1>14, Zenon DEF ChildUnmap, deallocate_thread_page
<1>15. CASE mx_thread_exit
  BY <1>15, Zenon DEF mx_thread_exit
<1>16. CASE UNCHANGED mxrtVars
  BY <1>16, Zenon DEF mxrtVars
<1> QED
  BY Zenon, <1>1, <1>2, <1>3, <1>4, <1>5, <1>6, <1>7, <1>8, <1>9, <1>10, <1>11, <1>12, <1>13, <1>14,
     <1>15, <1>16, Zenon
     DEF MxrThreadNext, OwnerSteps, ChildSteps

(* In every execution of a thread and its owner the page is not touched once *)
(* it is unmapped, the handle is closed once, both are released in the end,  *)
(* and a join gives what the entry returned.                                 *)
THEOREM ThreadReleasedOnceAlways == MxrThreadSpec => []ThreadReleasedOnce
<1>1. ASSUME ThreadPageInv PROVE ThreadReleasedOnce
  <2>1. ~thr_fault
    BY <1>1, Zenon DEF ThreadPageInv
  <2>2. thr_closes <= 1
    <3>1. thr_closes = 0 \/ thr_closes = 1
      BY <1>1, Zenon DEF ThreadPageInv, NoThread, OwnerBusy, OwnerReleased, ChildReleases
    <3> QED
      BY <3>1
  <2> QED
    BY <1>1, <2>1, <2>2, Zenon
       DEF ThreadPageInv, NoThread, OwnerBusy, OwnerReleased, ChildReleases, ThreadReleasedOnce
<1> QED
  BY <1>1, ThreadPageInit, ThreadPageStep, PTL DEF MxrThreadSpec

-----------------------------------------------------------------------------
(* NetLog.                                                                    *)

LogPacket == [seqno : Nat \ {0}, id : Nat \ {0}]

NetLogTypeOK ==
  /\ seqno \in Nat \ {0} /\ pending \in BOOLEAN /\ last_seqno \in Nat
  /\ pending => pkt \in LogPacket
  /\ to_host \in Seq(LogPacket) /\ to_device \in Seq(Nat \ {0})
  /\ filled \in Nat /\ printed \in Seq(Nat \ {0})
  /\ reboots \in Nat \X Nat

(* A datagram with the current sequence number is the packet that is pending, *)
(* and an acknowledgement with that number is of a packet the listener has    *)
(* seen.                                                                      *)
LinkInv ==
  /\ pending => pkt.seqno = seqno
  /\ \A i \in DOMAIN to_host : /\ to_host[i].seqno <= seqno
                               /\ to_host[i].seqno = seqno => pending /\ to_host[i] = pkt
  /\ \A i \in DOMAIN to_device : /\ to_device[i] <= seqno
                                 /\ to_device[i] = seqno => pending /\ pkt.id \in Printed \cup masked
  /\ acked \subseteq Printed \cup masked

(* Before the first restart of the device a packet's number is its sequence   *)
(* number, and the listener has seen no number that it has not printed.       *)
FirstBootInv ==
  reboots[1] = 0 =>
    /\ masked = {}
    /\ pending => pkt.id = seqno
    /\ filled = IF pending THEN seqno ELSE seqno - 1
    /\ \A i \in DOMAIN to_host : to_host[i].id = to_host[i].seqno
    /\ last_seqno \in Printed \cup {0}

(* Before any restart the link carries the packet to print next and the one   *)
(* printed last, in this order.                                               *)
NoRestartInv ==
  reboots = <<0, 0>> =>
    /\ Len(printed) = last_seqno /\ \A i \in DOMAIN printed : printed[i] = i
    /\ last_seqno <= seqno /\ seqno <= last_seqno + 1
    /\ \A i \in DOMAIN to_host : last_seqno <= to_host[i].seqno
    /\ \A i, j \in DOMAIN to_host : i <= j => to_host[i].seqno <= to_host[j].seqno
    /\ \A i \in DOMAIN to_device : to_device[i] <= last_seqno

NetLogInv == NetLogTypeOK /\ LinkInv /\ FirstBootInv /\ NoRestartInv

-----------------------------------------------------------------------------
(* A datagram that enters a link is the last one, *)
LEMMA Entered ==
  ASSUME NEW S, NEW s \in Seq(S), NEW e \in S, NEW t \in {s, Append(s, e)}
  PROVE  /\ t \in Seq(S)
         /\ \A i \in DOMAIN t : \/ i \in DOMAIN s /\ t[i] = s[i]
                                \/ t[i] = e /\ \A j \in DOMAIN t : j <= i
<1>1. CASE t = s
  BY Zenon, <1>1
<1>2. CASE t = Append(s, e)
  BY <1>2
<1> QED
  BY Zenon, <1>1, <1>2

(* and one that leaves it is the first. *)
LEMMA Left ==
  ASSUME NEW S, NEW s \in Seq(S), s # <<>>
  PROVE  /\ Tail(s) \in Seq(S) /\ Head(s) = s[1] /\ 1 \in DOMAIN s
         /\ \A i \in DOMAIN Tail(s) : i + 1 \in DOMAIN s /\ Tail(s)[i] = s[i + 1]
  OBVIOUS

(* Nothing is on the links of a device that starts. *)
LEMMA NetLogInitInv == NetLogInit => NetLogInv
<1> SUFFICES ASSUME NetLogInit PROVE NetLogInv
  BY Zenon
<1>1. NetLogTypeOK
  <2>1. pending \in BOOLEAN /\ ~pending
    BY Zenon DEF NetLogInit
  <2> QED
    BY <2>1 DEF NetLogInit, NetLogTypeOK
<1>2. LinkInv
  BY DEF NetLogInit, LinkInv
<1>3. FirstBootInv /\ NoRestartInv
  BY DEF NetLogInit, FirstBootInv, NoRestartInv
<1> QED
  BY Zenon, <1>1, <1>2, <1>3 DEF NetLogInv

-----------------------------------------------------------------------------
(* netsvc sends the packet it has filled, or the one that is pending. *)
LEMMA SendKeepsInv == NetLogInv /\ (SendLines \/ SendAgain) => NetLogInv'
<1> SUFFICES ASSUME NetLogInv, SendLines \/ SendAgain PROVE NetLogInv'
  BY Zenon
<1> USE DEF NetLogInv
<1>1. /\ pending' = TRUE
      /\ UNCHANGED <<seqno, last_seqno, to_device, printed, acked, masked, reboots>>
  BY Zenon DEF SendLines, SendAgain
<1>2. /\ pkt' \in LogPacket /\ pkt'.seqno = seqno /\ filled' \in Nat
      /\ \/ ~pending /\ filled' = filled + 1 /\ pkt'.id = filled'
         \/ pending /\ filled' = filled /\ pkt' = pkt
      /\ to_host' \in {to_host, Append(to_host, pkt')}
  <2>1. CASE SendLines
    <3>1. /\ ~pending /\ filled' = filled + 1 /\ pkt' = [seqno |-> seqno, id |-> filled']
          /\ Transmit(pkt')
      BY <2>1, Zenon DEF SendLines
    <3>2. filled' \in Nat \ {0} /\ seqno \in Nat \ {0}
      BY <3>1 DEF NetLogTypeOK
    <3>3. pkt' \in LogPacket /\ pkt'.seqno = seqno /\ pkt'.id = filled'
      BY Zenon, <3>1, <3>2 DEF LogPacket
    <3>4. to_host' \in {to_host, Append(to_host, pkt')}
      BY <3>1, Zenon DEF Transmit
    <3> QED
      BY Zenon, <3>1, <3>2, <3>3, <3>4
  <2>2. CASE SendAgain
    <3>1. pending /\ UNCHANGED <<filled, pkt>> /\ Transmit(pkt)
      BY <2>2, Zenon DEF SendAgain
    <3>2. to_host' \in {to_host, Append(to_host, pkt')}
      BY <3>1, Zenon DEF Transmit
    <3> QED
      BY Zenon, <3>1, <3>2 DEF NetLogTypeOK, LinkInv
  <2> QED
    BY Zenon, <2>1, <2>2
<1>3. /\ to_host' \in Seq(LogPacket)
      /\ \A i \in DOMAIN to_host' :
            \/ i \in DOMAIN to_host /\ to_host'[i] = to_host[i]
            \/ to_host'[i] = pkt' /\ \A j \in DOMAIN to_host' : j <= i
  <2>0. PICK s, t, p : s = to_host /\ t = to_host' /\ p = pkt'
    BY Zenon
  <2>1. s \in Seq(LogPacket) /\ p \in LogPacket /\ t \in {s, Append(s, p)}
    BY Zenon, <1>2, <2>0 DEF NetLogTypeOK
  <2>2. /\ t \in Seq(LogPacket)
        /\ \A i \in DOMAIN t : \/ i \in DOMAIN s /\ t[i] = s[i]
                               \/ t[i] = p /\ \A j \in DOMAIN t : j <= i
    BY <2>1, Entered
  <2> QED
    BY <2>0, <2>2, Zenon
<1>4. NetLogTypeOK'
  BY Zenon, <1>1, <1>2, <1>3 DEF NetLogTypeOK
<1>5. LinkInv'
  <2>1. \A i \in DOMAIN to_host' : /\ to_host'[i].seqno <= seqno
                                   /\ to_host'[i].seqno = seqno => to_host'[i] = pkt'
    BY <1>2, <1>3 DEF LinkInv, NetLogTypeOK
  <2>2. \A i \in DOMAIN to_device :
           to_device[i] <= seqno /\ (to_device[i] = seqno => pkt'.id \in Printed \cup masked)
    BY Zenon, <1>2 DEF LinkInv
  <2>3. Printed' = Printed
    BY Zenon, <1>1 DEF Printed
  <2> QED
    BY Zenon, <1>1, <1>2, <2>1, <2>2, <2>3 DEF LinkInv
<1>6. FirstBootInv'
  <2> SUFFICES ASSUME reboots[1] = 0 PROVE FirstBootInv'
    BY Zenon, <1>1 DEF FirstBootInv
  <2>1. Printed' = Printed
    BY Zenon, <1>1 DEF Printed
  <2>2. pkt'.id = seqno /\ filled' = seqno
    BY <1>2 DEF FirstBootInv, NetLogTypeOK
  <2>3. \A i \in DOMAIN to_host' : to_host'[i].id = to_host'[i].seqno
    BY Zenon, <1>2, <1>3, <2>2 DEF FirstBootInv
  <2> QED
    BY Zenon, <1>1, <2>1, <2>2, <2>3 DEF FirstBootInv
<1>7. NoRestartInv'
  <2> SUFFICES ASSUME reboots = <<0, 0>> PROVE NoRestartInv'
    BY Zenon, <1>1 DEF NoRestartInv
  <2>1. \A i \in DOMAIN to_host : to_host[i].seqno <= seqno /\ to_host[i].seqno \in Nat
    <3>1. \A i \in DOMAIN to_host : to_host[i] \in LogPacket
      BY DEF NetLogTypeOK
    <3> QED
      BY Zenon, <3>1 DEF LinkInv, LogPacket
  <2>2. \A i \in DOMAIN to_host' : last_seqno <= to_host'[i].seqno
    BY Zenon, <1>2, <1>3 DEF NoRestartInv
  <2>3. ASSUME NEW i \in DOMAIN to_host', NEW j \in DOMAIN to_host', i <= j
        PROVE  to_host'[i].seqno <= to_host'[j].seqno
    <3>1. CASE j \in DOMAIN to_host /\ to_host'[j] = to_host[j]
      <4>1. CASE i \in DOMAIN to_host /\ to_host'[i] = to_host[i]
        BY Zenon, <2>3, <3>1, <4>1 DEF NoRestartInv
      <4>2. CASE \A k \in DOMAIN to_host' : k <= i
        <5>1. i = j
          <6>1. i \in Nat /\ j \in Nat
            BY <1>3
          <6> QED
            BY <2>3, <4>2, <6>1
        <5> QED
          BY <2>1, <3>1, <5>1
      <4> QED
        BY Zenon, <1>3, <4>1, <4>2
    <3>2. CASE to_host'[j] = pkt'
      BY <1>2, <1>3, <2>1, <3>2 DEF NetLogTypeOK
    <3> QED
      BY Zenon, <1>3, <3>1, <3>2
  <2> QED
    BY Zenon, <1>1, <2>2, <2>3 DEF NoRestartInv
<1> QED
  BY Zenon, <1>4, <1>5, <1>6, <1>7

-----------------------------------------------------------------------------
(* What leaves the link to the host, printed or lost. *)
LEMMA HostLinkTail ==
  ASSUME NetLogInv, to_host # <<>>
  PROVE  /\ Tail(to_host) \in Seq(LogPacket) /\ 1 \in DOMAIN to_host /\ Head(to_host) = to_host[1]
         /\ \A i \in DOMAIN Tail(to_host) :
               i + 1 \in DOMAIN to_host /\ Tail(to_host)[i] = to_host[i + 1]
         /\ \A i \in DOMAIN to_host : i \in Nat /\ to_host[i] \in LogPacket
<1>1. to_host \in Seq(LogPacket)
  BY Zenon DEF NetLogInv, NetLogTypeOK
<1>2. PICK s : s = to_host
  BY Zenon
<1> QED
  BY <1>1, <1>2, Left

(* A datagram to the host is lost. *)
LEMMA LoseToHostKeepsInv == NetLogInv /\ LoseToHost => NetLogInv'
<1> SUFFICES ASSUME NetLogInv, LoseToHost PROVE NetLogInv'
  BY Zenon
<1>1. /\ to_host # <<>> /\ to_host' = Tail(to_host)
      /\ UNCHANGED <<seqno, pending, pkt, last_seqno, to_device, filled, printed, acked,
                     masked, reboots>>
  BY Zenon DEF LoseToHost
<1>2. /\ to_host' \in Seq(LogPacket)
      /\ \A i \in DOMAIN to_host' : i + 1 \in DOMAIN to_host /\ to_host'[i] = to_host[i + 1]
      /\ \A i \in DOMAIN to_host' : i \in Nat
  BY <1>1, HostLinkTail
<1>3. Printed' = Printed
  BY Zenon, <1>1 DEF Printed
<1>4. NetLogTypeOK'
  BY Zenon, <1>1, <1>2 DEF NetLogInv, NetLogTypeOK
<1>5. LinkInv'
  BY Zenon, <1>1, <1>2, <1>3 DEF NetLogInv, LinkInv
<1>6. FirstBootInv'
  BY Zenon, <1>1, <1>2, <1>3 DEF NetLogInv, FirstBootInv
<1>7. NoRestartInv'
  <2> SUFFICES ASSUME reboots = <<0, 0>> PROVE NoRestartInv'
    BY Zenon, <1>1 DEF NoRestartInv
  <2>1. \A i, j \in DOMAIN to_host' : i <= j => to_host'[i].seqno <= to_host'[j].seqno
    BY <1>2 DEF NetLogInv, NoRestartInv
  <2> QED
    BY Zenon, <1>1, <1>2, <2>1 DEF NetLogInv, NoRestartInv
<1> QED
  BY Zenon, <1>4, <1>5, <1>6, <1>7 DEF NetLogInv

(* loglistener takes a datagram, prints it if it is a new one, and           *)
(* acknowledges it.                                                          *)
LEMMA ListenKeepsInv == NetLogInv /\ Listen => NetLogInv'
<1> SUFFICES ASSUME NetLogInv, Listen PROVE NetLogInv'
  OBVIOUS
<1>1. PICK p : p = Head(to_host)
  BY Zenon
<1>2. /\ to_host # <<>> /\ to_host' = Tail(to_host)
      /\ UNCHANGED <<seqno, pending, pkt, filled, acked, reboots>>
  BY Zenon DEF Listen
<1>3. /\ \/ p.seqno # last_seqno /\ printed' = Append(printed, p.id)
            /\ last_seqno' = p.seqno /\ masked' = masked
         \/ p.seqno = last_seqno /\ printed' = printed /\ last_seqno' = last_seqno
            /\ masked' = masked \cup ({p.id} \ Printed)
      /\ to_device' \in {to_device, Append(to_device, p.seqno)}
  BY Zenon, <1>1 DEF Listen, Acknowledge, Printed
<1>4. /\ to_host' \in Seq(LogPacket) /\ 1 \in DOMAIN to_host /\ p = to_host[1]
      /\ \A i \in DOMAIN to_host' : i + 1 \in DOMAIN to_host /\ to_host'[i] = to_host[i + 1]
      /\ \A i \in DOMAIN to_host : i \in Nat /\ to_host[i] \in LogPacket
  BY Zenon, <1>1, <1>2, HostLinkTail
<1>5. p \in LogPacket /\ p.seqno \in Nat \ {0} /\ p.id \in Nat \ {0}
  <2>1. p \in LogPacket
    BY <1>4, Zenon
  <2> QED
    BY Zenon, <2>1 DEF LogPacket
<1>6. /\ to_device' \in Seq(Nat \ {0})
      /\ \A i \in DOMAIN to_device' : \/ i \in DOMAIN to_device /\ to_device'[i] = to_device[i]
                                      \/ to_device'[i] = p.seqno
  <2>1. PICK s, t, n : s = to_device /\ t = to_device' /\ n = p.seqno
    BY Zenon
  <2>2. s \in Seq(Nat \ {0}) /\ n \in Nat \ {0} /\ t \in {s, Append(s, n)}
    BY Zenon, <1>3, <1>5, <2>1 DEF NetLogInv, NetLogTypeOK
  <2>3. /\ t \in Seq(Nat \ {0})
        /\ \A i \in DOMAIN t : \/ i \in DOMAIN s /\ t[i] = s[i]
                               \/ t[i] = n /\ \A j \in DOMAIN t : j <= i
    <3>1. PICK S : S = Nat \ {0}
      BY Zenon
    <3>2. s \in Seq(S) /\ n \in S /\ t \in {s, Append(s, n)}
      BY Zenon, <2>2, <3>1
    <3>3. /\ t \in Seq(S)
          /\ \A i \in DOMAIN t : \/ i \in DOMAIN s /\ t[i] = s[i]
                                 \/ t[i] = n /\ \A j \in DOMAIN t : j <= i
      BY <3>2, Entered
    <3> QED
      BY <3>1, <3>3, Zenon
  <2> QED
    BY <2>1, <2>3, Zenon
<1>7. /\ printed' \in Seq(Nat \ {0})
      /\ Printed' = IF p.seqno # last_seqno THEN Printed \cup {p.id} ELSE Printed
  <2>1. printed \in Seq(Nat \ {0})
    BY Zenon DEF NetLogInv, NetLogTypeOK
  <2>2. CASE p.seqno # last_seqno
    <3>1. printed' = Append(printed, p.id)
      BY Zenon, <1>3, <2>2
    <3>2. printed' \in Seq(Nat \ {0})
      BY <1>5, <2>1, <3>1
    <3>3. /\ \A i \in DOMAIN printed : i \in DOMAIN printed' /\ printed'[i] = printed[i]
          /\ \A i \in DOMAIN printed' : i \in DOMAIN printed \/ printed'[i] = p.id
          /\ \E i \in DOMAIN printed' : printed'[i] = p.id
      BY <1>5, <2>1, <3>1
    <3>4. Printed' = Printed \cup {p.id}
      BY Zenon, <3>3 DEF Printed
    <3> QED
      BY Zenon, <2>2, <3>2, <3>4
  <2>3. CASE p.seqno = last_seqno
    BY Zenon, <1>3, <2>1, <2>3 DEF Printed
  <2> QED
    BY Zenon, <2>2, <2>3
<1>8. NetLogTypeOK'
  BY Zenon, <1>2, <1>3, <1>4, <1>5, <1>6, <1>7 DEF NetLogInv, NetLogTypeOK
<1>9. /\ p.id \in Printed' \cup masked'
      /\ Printed \cup masked \subseteq Printed' \cup masked'
  BY Zenon, <1>3, <1>7
<1>10. LinkInv'
  <2>1. \A i \in DOMAIN to_host' : /\ to_host'[i].seqno <= seqno
                                   /\ to_host'[i].seqno = seqno => pending /\ to_host'[i] = pkt
    BY Zenon, <1>4 DEF NetLogInv, LinkInv
  <2>2. p.seqno <= seqno /\ (p.seqno = seqno => pending /\ p = pkt)
    BY Zenon, <1>4 DEF NetLogInv, LinkInv
  <2>3. \A i \in DOMAIN to_device' :
           /\ to_device'[i] <= seqno
           /\ to_device'[i] = seqno => pending /\ pkt.id \in Printed' \cup masked'
    BY Zenon, <1>6, <1>9, <2>2 DEF NetLogInv, LinkInv
  <2>4. acked \subseteq Printed' \cup masked'
    BY Zenon, <1>9 DEF NetLogInv, LinkInv
  <2> QED
    BY Zenon, <1>2, <2>1, <2>3, <2>4 DEF NetLogInv, LinkInv
<1>11. FirstBootInv'
  <2> SUFFICES ASSUME reboots[1] = 0 PROVE FirstBootInv'
    BY Zenon, <1>2 DEF FirstBootInv
  <2>1. p.id = p.seqno /\ last_seqno \in Printed \cup {0} /\ masked = {}
    BY Zenon, <1>4 DEF NetLogInv, FirstBootInv
  <2>2. masked' = {} /\ last_seqno' \in Printed' \cup {0}
    BY Zenon, <1>3, <1>5, <1>7, <2>1
  <2>3. \A i \in DOMAIN to_host' : to_host'[i].id = to_host'[i].seqno
    BY Zenon, <1>4 DEF NetLogInv, FirstBootInv
  <2> QED
    BY Zenon, <1>2, <2>2, <2>3 DEF NetLogInv, FirstBootInv
<1>12. NoRestartInv'
  <2> SUFFICES ASSUME reboots = <<0, 0>> PROVE NoRestartInv'
    BY Zenon, <1>2 DEF NoRestartInv
  <2>1. /\ p.id = p.seqno
        /\ last_seqno <= p.seqno /\ p.seqno <= seqno /\ seqno <= last_seqno + 1
    BY Zenon, <1>4 DEF NetLogInv, FirstBootInv, LinkInv, NoRestartInv
  <2>2. last_seqno \in Nat /\ seqno \in Nat
    BY Zenon DEF NetLogInv, NetLogTypeOK
  <2>3. last_seqno' = p.seqno /\ (p.seqno # last_seqno => p.seqno = last_seqno + 1)
    BY <1>3, <1>5, <2>1, <2>2
  <2>4. Len(printed') = last_seqno' /\ \A i \in DOMAIN printed' : printed'[i] = i
    <3>1. /\ printed \in Seq(Nat \ {0}) /\ Len(printed) = last_seqno
          /\ \A i \in DOMAIN printed : printed[i] = i
      BY Zenon DEF NetLogInv, NetLogTypeOK, NoRestartInv
    <3>2. CASE p.seqno # last_seqno
      <4>1. printed' = Append(printed, p.id) /\ p.id = Len(printed) + 1 /\ last_seqno' = p.id
        BY Zenon, <1>3, <2>1, <2>3, <3>1, <3>2
      <4> QED
        BY <1>5, <3>1, <4>1
    <3>3. CASE p.seqno = last_seqno
      BY Zenon, <1>3, <3>1, <3>3
    <3> QED
      BY Zenon, <3>2, <3>3
  <2>5. \A i, j \in DOMAIN to_host' : i <= j => to_host'[i].seqno <= to_host'[j].seqno
    <3>1. \A i \in DOMAIN to_host' : i \in Nat
      BY <1>4
    <3>2. ASSUME NEW i \in DOMAIN to_host', NEW j \in DOMAIN to_host', i <= j
          PROVE  to_host'[i].seqno <= to_host'[j].seqno
      <4>1. /\ i + 1 \in DOMAIN to_host /\ j + 1 \in DOMAIN to_host /\ i + 1 <= j + 1
            /\ to_host'[i] = to_host[i + 1] /\ to_host'[j] = to_host[j + 1]
        BY <1>4, <3>1, <3>2
      <4> QED
        BY Zenon, <4>1 DEF NetLogInv, NoRestartInv
    <3> QED
      BY Zenon, <3>2
  <2>6. \A i \in DOMAIN to_host' : p.seqno <= to_host'[i].seqno
    <3>1. \A i \in DOMAIN to_host' : 1 <= i + 1
      BY <1>4
    <3> QED
      BY Zenon, <1>4, <3>1 DEF NetLogInv, NoRestartInv
  <2>7. \A i \in DOMAIN to_device' : to_device'[i] <= last_seqno'
    <3>1. \A i \in DOMAIN to_device : to_device[i] <= last_seqno /\ to_device[i] \in Nat
      BY DEF NetLogInv, NetLogTypeOK, NoRestartInv
    <3> QED
      BY <1>5, <1>6, <2>1, <2>2, <2>3, <3>1
  <2> QED
    BY <1>2, <2>1, <2>2, <2>3, <2>4, <2>5, <2>6, <2>7 DEF NoRestartInv
<1> QED
  BY <1>8, <1>10, <1>11, <1>12 DEF NetLogInv

-----------------------------------------------------------------------------
(* netsvc takes an acknowledgement, or it is lost.  The one it waits for     *)
(* tells that the packet was seen.                                           *)
LEMMA AckKeepsInv == NetLogInv /\ (udp6_recv \/ LoseToDevice) => NetLogInv'
<1> SUFFICES ASSUME NetLogInv, udp6_recv \/ LoseToDevice PROVE NetLogInv'
  OBVIOUS
<1>1. /\ to_device # <<>> /\ to_device' = Tail(to_device)
      /\ UNCHANGED <<pkt, last_seqno, to_host, filled, printed, masked, reboots>>
  BY Zenon DEF udp6_recv, LoseToDevice
<1>2. /\ to_device' \in Seq(Nat \ {0}) /\ 1 \in DOMAIN to_device /\ Head(to_device) = to_device[1]
      /\ \A i \in DOMAIN to_device' :
            i + 1 \in DOMAIN to_device /\ to_device'[i] = to_device[i + 1]
      /\ \A i \in DOMAIN to_device : to_device[i] \in Nat \ {0}
  <2>1. to_device \in Seq(Nat \ {0})
    BY Zenon DEF NetLogInv, NetLogTypeOK
  <2> QED
    BY <1>1, <2>1
<1>3. Printed' = Printed
  BY Zenon, <1>1 DEF Printed
<1>4. CASE Head(to_device) = seqno /\ pending /\ udp6_recv
  <2>1. seqno' = seqno + 1 /\ acked' = acked \cup {pkt.id}
    BY <1>4, Zenon DEF udp6_recv
  <2>2. pending' = FALSE
    BY <1>4, Zenon DEF udp6_recv
  <2>3. seqno \in Nat \ {0}
    BY Zenon DEF NetLogInv, NetLogTypeOK
  <2>4. NetLogTypeOK'
    <3>1. pending' \in BOOLEAN /\ ~pending'
      BY <2>2, Zenon
    <3> QED
      BY <1>1, <1>2, <2>1, <2>3, <3>1 DEF NetLogInv, NetLogTypeOK
  <2>5. LinkInv'
    <3>1. pkt.id \in Printed \cup masked
      BY Zenon, <1>2, <1>4 DEF NetLogInv, LinkInv
    <3>2. \A i \in DOMAIN to_host : to_host[i].seqno <= seqno + 1 /\ to_host[i].seqno # seqno + 1
      <4>1. \A i \in DOMAIN to_host : to_host[i] \in LogPacket
        BY DEF NetLogInv, NetLogTypeOK
      <4> QED
        BY <2>3, <4>1 DEF NetLogInv, LinkInv, LogPacket
    <3>3. \A i \in DOMAIN to_device' : to_device'[i] <= seqno + 1 /\ to_device'[i] # seqno + 1
      BY <1>2, <2>3 DEF NetLogInv, LinkInv
    <3>4. acked' \subseteq Printed \cup masked
      BY Zenon, <2>1, <3>1 DEF NetLogInv, LinkInv
    <3> QED
      BY Zenon, <1>1, <1>3, <2>1, <2>2, <3>2, <3>3, <3>4 DEF LinkInv
  <2>6. FirstBootInv'
    <3> SUFFICES ASSUME reboots[1] = 0 PROVE FirstBootInv'
      BY Zenon, <1>1 DEF FirstBootInv
    <3>1. filled = seqno' - 1
      BY <1>4, <2>1, <2>3 DEF NetLogInv, FirstBootInv
    <3> QED
      BY Zenon, <1>1, <1>3, <2>2, <3>1 DEF NetLogInv, FirstBootInv
  <2>7. NoRestartInv'
    <3> SUFFICES ASSUME reboots = <<0, 0>> PROVE NoRestartInv'
      BY Zenon, <1>1 DEF NoRestartInv
    <3>1. last_seqno \in Nat /\ seqno <= last_seqno
      BY Zenon, <1>2, <1>4 DEF NetLogInv, NetLogTypeOK, NoRestartInv
    <3>2. last_seqno <= seqno' /\ seqno' <= last_seqno + 1
      BY <2>1, <2>3, <3>1 DEF NetLogInv, NoRestartInv
    <3>3. \A i \in DOMAIN to_device' : to_device'[i] <= last_seqno
      BY Zenon, <1>2 DEF NetLogInv, NoRestartInv
    <3> QED
      BY Zenon, <1>1, <3>2, <3>3 DEF NetLogInv, NoRestartInv
  <2> QED
    BY <2>4, <2>5, <2>6, <2>7 DEF NetLogInv
<1>5. CASE ~(Head(to_device) = seqno /\ pending /\ udp6_recv)
  <2>1. UNCHANGED <<seqno, pending, acked>>
    BY <1>5, Zenon DEF udp6_recv, LoseToDevice
  <2>2. NetLogTypeOK'
    BY Zenon, <1>1, <1>2, <2>1 DEF NetLogInv, NetLogTypeOK
  <2>3. LinkInv'
    BY <1>1, <1>2, <1>3, <2>1 DEF NetLogInv, LinkInv
  <2>4. FirstBootInv'
    BY Zenon, <1>1, <1>3, <2>1 DEF NetLogInv, FirstBootInv
  <2>5. NoRestartInv'
    BY Zenon, <1>1, <1>2, <2>1 DEF NetLogInv, NoRestartInv
  <2> QED
    BY <2>2, <2>3, <2>4, <2>5 DEF NetLogInv
<1> QED
  BY Zenon, <1>4, <1>5

(* A restart empties the links, and frees the invariant of what it says of   *)
(* an end that was never restarted.                                          *)
LEMMA RestartKeepsInv == NetLogInv /\ (DeviceRestarts \/ ListenerRestarts) => NetLogInv'
<1> SUFFICES ASSUME NetLogInv, DeviceRestarts \/ ListenerRestarts PROVE NetLogInv'
  OBVIOUS
<1>1. /\ to_host' = <<>> /\ to_device' = <<>>
      /\ UNCHANGED <<filled, printed, acked, masked>>
  BY Zenon DEF DeviceRestarts, ListenerRestarts
<1>2. Printed' = Printed
  BY Zenon, <1>1 DEF Printed
<1>3. reboots \in Nat \X Nat
  BY Zenon DEF NetLogInv, NetLogTypeOK
<1>4. CASE DeviceRestarts
  <2>1. seqno' = 1 /\ last_seqno' = last_seqno
    BY <1>4, Zenon DEF DeviceRestarts
  <2>2. pending' \in BOOLEAN /\ ~pending'
    BY <1>4, Zenon DEF DeviceRestarts
  <2>3. reboots' \in Nat \X Nat /\ reboots'[1] > 0
    BY <1>3, <1>4 DEF DeviceRestarts
  <2>4. NetLogTypeOK'
    BY <1>1, <2>1, <2>2, <2>3 DEF NetLogInv, NetLogTypeOK
  <2>5. LinkInv'
    BY <1>1, <1>2, <2>1, <2>2 DEF NetLogInv, LinkInv
  <2>6. FirstBootInv' /\ NoRestartInv'
    BY <2>3 DEF FirstBootInv, NoRestartInv
  <2> QED
    BY Zenon, <2>4, <2>5, <2>6 DEF NetLogInv
<1>5. CASE ListenerRestarts
  <2>1. last_seqno' = 0 /\ UNCHANGED <<seqno, pending, pkt>>
    BY <1>5, Zenon DEF ListenerRestarts
  <2>2. reboots' \in Nat \X Nat /\ reboots'[1] = reboots[1] /\ reboots'[2] > 0
    BY <1>3, <1>5 DEF ListenerRestarts
  <2>3. NetLogTypeOK'
    BY <1>1, <2>1, <2>2 DEF NetLogInv, NetLogTypeOK
  <2>4. LinkInv'
    BY <1>1, <1>2, <2>1 DEF NetLogInv, LinkInv
  <2>5. FirstBootInv'
    BY <1>1, <1>2, <2>1, <2>2 DEF NetLogInv, FirstBootInv
  <2>6. NoRestartInv'
    BY <2>2 DEF NoRestartInv
  <2> QED
    BY <2>3, <2>4, <2>5, <2>6 DEF NetLogInv
<1> QED
  BY Zenon, <1>4, <1>5

(* Every step of the two ends, of the link and of their restarts. *)
LEMMA NetLogStepInv == NetLogInv /\ [NetLogNext]_netlogVars => NetLogInv'
<1> SUFFICES ASSUME NetLogInv, [NetLogNext]_netlogVars PROVE NetLogInv'
  OBVIOUS
<1>1. CASE SendNothing \/ TimerExpires \/ UNCHANGED netlogVars
  <2>1. UNCHANGED <<seqno, pending, pkt, last_seqno, to_host, to_device, filled, printed, acked,
                    masked, reboots>>
    BY <1>1, Zenon DEF SendNothing, TimerExpires, netlogVars
  <2>2. Printed' = Printed
    BY Zenon, <2>1 DEF Printed
  <2> QED
    BY <2>1, <2>2, Zenon
       DEF NetLogInv, NetLogTypeOK, LinkInv, FirstBootInv, NoRestartInv
<1> QED
  BY <1>1, SendKeepsInv, LoseToHostKeepsInv, ListenKeepsInv, AckKeepsInv, RestartKeepsInv, Zenon
     DEF NetLogNext

(* In every execution of netsvc and loglistener, over a link that loses what *)
(* it likes and with restarts of either end: while neither is restarted the  *)
(* packets are printed in order, each once, and before they are              *)
(* acknowledged; and after restarts none is acknowledged unprinted but the   *)
(* first of a restarted device that looks like the one printed last.         *)
THEOREM NetLogSoundAlways == NetLogSpec => []NetLogSound
<1>1. ASSUME NetLogInv PROVE NetLogSound
  <2>1. reboots \in Nat \X Nat /\ acked \subseteq Printed \cup masked
    BY <1>1, Zenon DEF NetLogInv, NetLogTypeOK, LinkInv
  <2>2. reboots[1] = 0 => masked = {}
    BY Zenon, <1>1 DEF NetLogInv, FirstBootInv
  <2>3. PrintsInOrder
    BY <1>1, <2>1, <2>2 DEF NetLogInv, NoRestartInv, PrintsInOrder
  <2>4. LostOnlyWhenMasked
    BY <2>1, <2>2 DEF LostOnlyWhenMasked
  <2> QED
    BY Zenon, <2>3, <2>4 DEF NetLogSound
<1> QED
  BY <1>1, NetLogInitInv, NetLogStepInv, PTL DEF NetLogSpec

-----------------------------------------------------------------------------
(* MxrRuntime.                                                                *)

Label == {"out"} \cup MutexLabel \cup CompletionLabel \cup OnceLabel
Asleep == {"m_asleep", "c_asleep", "o_asleep"}

WordOK ==
  /\ word \in [Keys -> Values]
  /\ word["mutex"] \in {UNLOCKED, LOCKED}
  /\ word["completion"] \in {UNSIGNALED, SIGNALED}
  /\ pc \in [Threads -> Label]

(* A queue holds the threads that sleep on its word, each of them once. *)

QueueOK ==
  /\ queue \in [Keys -> Seq(Threads)]
  /\ status \in [Threads -> {"user", "waiting", "woken"}]
  /\ \A k \in Keys : NoRepeat(queue[k])
  /\ \A t \in Threads, k \in Keys :
       InList(queue[k], t) <=> status[t] = "waiting" /\ AsleepOn(t, k)

(* A completion that is signaled was seen to be by all that wait for it. *)
SeenOK ==
  /\ seen \in [Threads -> BOOLEAN]
  /\ \A t \in Threads : InWait(t) /\ word["completion"] = SIGNALED => seen[t]

(* The thread that mxr_once chose to run the function. *)
Runs(t) == pc[t] \in {"o_run", "o_finish"}

(* The word of mxr_once says how far the function has got. *)
OnceOK ==
  /\ runs \in Nat /\ ran \in BOOLEAN
  /\ word["once"] = UNUSED => runs = 0
  /\ word["once"] # UNUSED => runs = 1
  /\ word["once"] = RAN => ran
  /\ word["once"] \in {RUNNING, WAITING} <=> \E t \in Threads : Runs(t)
  /\ \A t, u \in Threads : Runs(t) /\ Runs(u) => t = u
  /\ \A t \in Threads : pc[t] = "o_finish" => ran
  /\ \A t \in Threads : pc[t] = "o_wake" => word["once"] = RAN

IInv ==
  /\ WordOK /\ QueueOK /\ SeenOK /\ OnceOK
  /\ Exclusion /\ NoLostWakeup
  /\ used \in Uses

-----------------------------------------------------------------------------
(* The queues of a futex, as sequences. *)

LEMMA WithoutIn ==
  ASSUME NEW T, NEW s \in Seq(T), NEW i \in DOMAIN s, NoRepeat(s)
  PROVE  /\ F!Without(s, i) \in Seq(T)
         /\ NoRepeat(F!Without(s, i))
         /\ \A u \in T : InList(F!Without(s, i), u) <=> InList(s, u) /\ u # s[i]
<1>1. F!Without(s, i) = CutAt(s, i)
  BY Zenon DEF F!Without, F!First, F!Rest, CutAt
<1> QED
  BY <1>1, CutAtIn

LEMMA WakeAll ==
  ASSUME NEW T, NEW s \in Seq(T)
  PROVE  /\ F!First(s, Len(s)) = s
         /\ F!Rest(s, Len(s)) = << >>
<1>1. F!First(s, Len(s)) = s
  BY DEF F!First
<1>2. F!Rest(s, Len(s)) = << >>
  BY DEF F!Rest
<1> QED
  BY Zenon, <1>1, <1>2
-----------------------------------------------------------------------------
(* The steps of the futexes keep the queues in order. *)

LEMMA KeepQueue ==
  ASSUME WordOK, QueueOK, NEW t \in Threads, NEW p \in Label \ Asleep,
         pc[t] \notin Asleep, goto(t, p), UNCHANGED <<queue, status>>
  PROVE  QueueOK'
<1>1. \A u \in Threads, k \in Keys : AsleepOn(u, k)' <=> AsleepOn(u, k)
  BY Zenon DEF WordOK, Keys, Asleep, AsleepOn, goto
<1> QED
  BY Zenon, <1>1 DEF QueueOK

LEMMA SleepQueue ==
  ASSUME WordOK, QueueOK, NEW t \in Threads, NEW k \in Keys, NEW v, NEW p \in Label,
         pc[t] \notin Asleep, F!Wait(t, k, v), goto(t, p), AsleepOn(t, k)'
  PROVE  QueueOK'
<1>1. \A u \in Threads \ {t}, j \in Keys : AsleepOn(u, j)' <=> AsleepOn(u, j)
  BY Zenon DEF WordOK, Keys, AsleepOn, goto
<1>2. \A j \in Keys : AsleepOn(t, j)' <=> j = k
  BY Zenon DEF WordOK, Keys, AsleepOn, goto
<1>3. \A j \in Keys : ~InList(queue[j], t)
  BY Zenon DEF QueueOK, F!Wait
<1>4. queue[k] \in Seq(Threads) /\ NoRepeat(queue[k])
  BY Zenon DEF QueueOK
<1> DEFINE q == Append(queue[k], t)
<1>5. /\ q \in Seq(Threads) /\ NoRepeat(q)
      /\ \A u \in Threads : InList(q, u) <=> InList(queue[k], u) \/ u = t
  BY Zenon, <1>3, <1>4, AppendIn
<1>6. queue' = [queue EXCEPT ![k] = q] /\ status' = [status EXCEPT ![t] = "waiting"]
  BY Zenon DEF F!Wait
<1> HIDE DEF q
<1>7. queue' \in [Keys -> Seq(Threads)] /\ status' \in [Threads -> {"user", "waiting", "woken"}]
  BY Zenon, <1>5, <1>6 DEF QueueOK
<1>8. \A j \in Keys : queue'[j] = IF j = k THEN q ELSE queue[j]
  BY Zenon, <1>6 DEF QueueOK
<1>9. \A u \in Threads : status'[u] = IF u = t THEN "waiting" ELSE status[u]
  BY Zenon, <1>6 DEF QueueOK
<1>10. \A j \in Keys : NoRepeat(queue'[j])
  BY Zenon, <1>5, <1>8 DEF QueueOK
<1>11. ASSUME NEW u \in Threads, NEW j \in Keys
       PROVE  InList(queue'[j], u) <=> status'[u] = "waiting" /\ AsleepOn(u, j)'
  <2>1. InList(queue[j], u) <=> status[u] = "waiting" /\ AsleepOn(u, j)
    BY Zenon DEF QueueOK
  <2>2. CASE u = t
    BY Zenon, <1>2, <1>3, <1>5, <1>8, <1>9, <2>2
  <2>3. CASE u # t
    BY Zenon, <1>1, <1>5, <1>8, <1>9, <2>1, <2>3
  <2> QED
    BY Zenon, <2>2, <2>3
<1> QED
  BY Zenon, <1>7, <1>10, <1>11 DEF QueueOK, InList

LEMMA SucceedQueue ==
  ASSUME WordOK, QueueOK, NEW t \in Threads, NEW p \in Label \ Asleep,
         F!Succeed(t), goto(t, p)
  PROVE  QueueOK'
<1>1. \A u \in Threads \ {t}, j \in Keys : AsleepOn(u, j)' <=> AsleepOn(u, j)
  BY Zenon DEF WordOK, Keys, AsleepOn, goto
<1>2. \A j \in Keys : ~InList(queue[j], t)
  BY Zenon DEF QueueOK, F!Succeed
<1>3. /\ queue' = queue /\ status' \in [Threads -> {"user", "waiting", "woken"}]
      /\ \A u \in Threads : status'[u] = IF u = t THEN "user" ELSE status[u]
  BY Zenon DEF QueueOK, F!Succeed
<1> QED
  BY Zenon, <1>1, <1>2, <1>3 DEF QueueOK

LEMMA TimeOutQueue ==
  ASSUME WordOK, QueueOK, NEW t \in Threads, NEW p \in Label \ Asleep,
         F!TimeOut(t), goto(t, p)
  PROVE  QueueOK'
<1>1. \A u \in Threads \ {t}, j \in Keys : AsleepOn(u, j)' <=> AsleepOn(u, j)
  BY DEF WordOK, Keys, AsleepOn, goto
<1>2. PICK k \in Keys : \E i \in DOMAIN queue[k] :
        queue[k][i] = t /\ queue' = [queue EXCEPT ![k] = F!Without(queue[k], i)]
  BY Zenon DEF F!TimeOut
<1>3. PICK i \in DOMAIN queue[k] :
        queue[k][i] = t /\ queue' = [queue EXCEPT ![k] = F!Without(queue[k], i)]
  BY Zenon, <1>2
<1> DEFINE q == F!Without(queue[k], i)
<1>4. /\ q \in Seq(Threads) /\ NoRepeat(q)
      /\ \A u \in Threads : InList(q, u) <=> InList(queue[k], u) /\ u # t
  BY Zenon, <1>3, WithoutIn DEF QueueOK
<1>5. queue' = [queue EXCEPT ![k] = q]
  BY Zenon, <1>3
<1> HIDE DEF q
<1>6. /\ queue' \in [Keys -> Seq(Threads)]
      /\ \A j \in Keys : queue'[j] = IF j = k THEN q ELSE queue[j]
  BY Zenon, <1>4, <1>5 DEF QueueOK
<1>7. /\ status' \in [Threads -> {"user", "waiting", "woken"}]
      /\ \A u \in Threads : status'[u] = IF u = t THEN "user" ELSE status[u]
  BY Zenon DEF QueueOK, F!TimeOut
<1>8. \A j \in Keys : InList(queue[j], t) => j = k
  <2>1. InList(queue[k], t)
    BY Zenon, <1>3 DEF InList
  <2>2. AsleepOn(t, k) /\ \A j \in Keys : InList(queue[j], t) => AsleepOn(t, j)
    BY Zenon, <2>1 DEF QueueOK
  <2> QED
    BY Zenon, <2>2 DEF Keys, AsleepOn
<1>9. ASSUME NEW u \in Threads, NEW j \in Keys
      PROVE  InList(queue'[j], u) <=> status'[u] = "waiting" /\ AsleepOn(u, j)'
  <2>1. InList(queue[j], u) <=> status[u] = "waiting" /\ AsleepOn(u, j)
    BY Zenon DEF QueueOK
  <2>2. CASE u = t
    BY Zenon, <1>4, <1>6, <1>7, <1>8, <2>2
  <2>3. CASE u # t
    BY Zenon, <1>1, <1>4, <1>6, <1>7, <2>1, <2>3
  <2> QED
    BY Zenon, <2>2, <2>3
<1>10. \A j \in Keys : NoRepeat(queue'[j])
  BY Zenon, <1>4, <1>6 DEF QueueOK
<1> QED
  BY Zenon, <1>6, <1>7, <1>9, <1>10 DEF QueueOK, InList

LEMMA WakeQueue ==
  ASSUME WordOK, QueueOK, NEW t \in Threads, NEW k \in Keys, NEW p \in Label \ Asleep,
         pc[t] \notin Asleep, F!Wake(k, Len(queue[k])), goto(t, p)
  PROVE  /\ QueueOK'
         /\ \A u \in Threads : status'[u] = "waiting" => status[u] = "waiting" /\ ~AsleepOn(u, k)
<1>1. \A u \in Threads, j \in Keys : AsleepOn(u, j)' <=> AsleepOn(u, j)
  BY Zenon DEF WordOK, Keys, Asleep, AsleepOn, goto
<1>2. queue[k] \in Seq(Threads)
  BY Zenon DEF QueueOK
<1>3. queue' = [queue EXCEPT ![k] = << >>]
  BY Zenon, <1>2, WakeAll DEF F!Wake
<1>4. status' = [u \in Threads |-> IF InList(queue[k], u) THEN "woken" ELSE status[u]]
  BY Zenon, <1>2, WakeAll DEF F!Wake, F!Awake, InList
<1>5. \A u \in Threads : status'[u] = IF InList(queue[k], u) THEN "woken" ELSE status[u]
  BY Zenon, <1>4
<1>6. status' \in [Threads -> {"user", "waiting", "woken"}]
  BY Zenon, <1>4 DEF QueueOK
<1>7. /\ queue' \in [Keys -> Seq(Threads)]
      /\ \A j \in Keys : queue'[j] = IF j = k THEN << >> ELSE queue[j]
  BY <1>3 DEF QueueOK
<1>8. NoRepeat(<< >>) /\ \A u : ~InList(<< >>, u)
  BY DEF NoRepeat, InList
<1>9. ASSUME NEW u \in Threads, NEW j \in Keys
      PROVE  InList(queue'[j], u) <=> status'[u] = "waiting" /\ AsleepOn(u, j)'
  <2>1. \A i \in Keys : InList(queue[i], u) <=> status[u] = "waiting" /\ AsleepOn(u, i)
    BY Zenon DEF QueueOK
  <2>2. AsleepOn(u, j) /\ AsleepOn(u, k) => j = k
    BY Zenon DEF Keys, AsleepOn
  <2> QED
    BY Zenon, <1>1, <1>5, <1>7, <1>8, <2>1, <2>2
<1>10. \A j \in Keys : NoRepeat(queue'[j])
  BY Zenon, <1>7, <1>8 DEF QueueOK
<1>11. \A u \in Threads : status'[u] = "waiting" => status[u] = "waiting" /\ ~AsleepOn(u, k)
  BY Zenon, <1>5 DEF QueueOK
<1> QED
  BY Zenon, <1>6, <1>7, <1>9, <1>10, <1>11 DEF QueueOK, InList

-----------------------------------------------------------------------------
(* A step of one object moves a thread among the labels of that object and  *)
(* changes no other word; it keeps what the invariant says of the others.   *)
Within(labels, key) ==
  /\ \A k \in Keys \ {key} : word'[k] = word[k]
  /\ \A u \in Threads :
       \/ pc'[u] = pc[u] /\ (status'[u] = "waiting" => status[u] = "waiting")
       \/ pc[u] \in {"out"} \cup labels /\ pc'[u] \in {"out"} \cup labels

LEMMA OthersKeepMutex ==
  ASSUME WordOK, Exclusion, MutexWakes,
         \/ Within(CompletionLabel, "completion")
         \/ Within(OnceLabel, "once")
  PROVE  Exclusion' /\ MutexWakes'
<1> USE DEF Within, Keys, CompletionLabel, OnceLabel
<1>1. word'["mutex"] = word["mutex"]
  BY Zenon
<1>2. \A u \in Threads : pc'[u] = "m_in" <=> pc[u] = "m_in"
  BY Zenon
<1>3. \A u \in Threads : pc'[u] = "m_wake" <=> pc[u] = "m_wake"
  BY Zenon
<1>4. \A u \in Threads : pc'[u] = "m_asleep" /\ status'[u] = "waiting"
                         => pc[u] = "m_asleep" /\ status[u] = "waiting"
  BY Zenon
<1>5. Exclusion'
  BY <1>1, <1>2 DEF Exclusion
<1>6. MutexWakes'
  BY Zenon, <1>1, <1>3, <1>4 DEF MutexWakes
<1> QED
  BY Zenon, <1>5, <1>6

LEMMA OthersKeepCompletion ==
  ASSUME WordOK, SeenOK, CompletionWakes, UNCHANGED seen,
         \/ Within(MutexLabel, "mutex")
         \/ Within(OnceLabel, "once")
  PROVE  SeenOK' /\ CompletionWakes'
<1> USE DEF Within, Keys, MutexLabel, OnceLabel
<1>1. word'["completion"] = word["completion"]
  BY Zenon
<1>2. \A u \in Threads : InWait(u)' <=> InWait(u)
  BY Zenon DEF InWait
<1>3. \A u \in Threads : pc'[u] = "c_wake" <=> pc[u] = "c_wake"
  BY Zenon
<1>4. \A u \in Threads : pc'[u] = "c_asleep" /\ status'[u] = "waiting"
                         => pc[u] = "c_asleep" /\ status[u] = "waiting"
  BY Zenon
<1>5. SeenOK'
  BY Zenon, <1>1, <1>2 DEF SeenOK
<1>6. CompletionWakes'
  BY <1>1, <1>3, <1>4 DEF CompletionWakes
<1> QED
  BY Zenon, <1>5, <1>6

LEMMA OthersKeepOnce ==
  ASSUME WordOK, OnceOK, OnceWakes, UNCHANGED <<runs, ran>>,
         \/ Within(MutexLabel, "mutex")
         \/ Within(CompletionLabel, "completion")
  PROVE  /\ OnceOK' /\ OnceWakes'
         /\ \A u \in Threads : pc[u] \in OnceLabel => pc'[u] = pc[u]
<1> USE DEF Within, Keys, MutexLabel, CompletionLabel, OnceLabel
<1>1. word'["once"] = word["once"]
  BY Zenon
<1>2. \A u \in Threads : pc[u] \in OnceLabel \/ pc'[u] \in OnceLabel => pc'[u] = pc[u]
  BY Zenon
<1>3. \A u \in Threads : Runs(u)' <=> Runs(u)
  BY Zenon, <1>2 DEF Runs
<1>4. \A u \in Threads : pc'[u] = "o_asleep" /\ status'[u] = "waiting"
                         => pc[u] = "o_asleep" /\ status[u] = "waiting"
  BY Zenon
<1>5. \A u \in Threads : /\ pc'[u] = "o_finish" <=> pc[u] = "o_finish"
                         /\ pc'[u] = "o_wake" <=> pc[u] = "o_wake"
  BY Zenon, <1>2
<1>6. OnceOK'
  BY Zenon, <1>1, <1>3, <1>5 DEF OnceOK
<1>7. OnceWakes'
  BY <1>1, <1>3, <1>4, <1>5 DEF OnceWakes, Runs
<1> QED
  BY Zenon, <1>2, <1>6, <1>7

-----------------------------------------------------------------------------
(* The mutex. *)

LEMMA MutexKeeps ==
  ASSUME WordOK, QueueOK, Exclusion, MutexWakes, NEW t \in Threads,
         MutexStep(t) \/ MutexCall(t)
  PROVE  WordOK' /\ QueueOK' /\ Within(MutexLabel, "mutex") /\ Exclusion' /\ MutexWakes'
<1> USE DEF Keys, Values, UNLOCKED, LOCKED, futex
<1>0. /\ {"m_swap", "m_wait", "m_in", "m_wake", "out"} \subseteq Label \ Asleep
      /\ "m_asleep" \in Label
  BY Zenon DEF Label, Asleep, MutexLabel
<1>1. CASE mxr_mutex_timedlock(t) \/ MBusy(t)
  <2> USE <1>1 DEF mxr_mutex_timedlock, MBusy, goto
  <2>1. WordOK' /\ Within(MutexLabel, "mutex")
    BY Zenon, <1>0 DEF WordOK, Within, MutexLabel
  <2>2. QueueOK'
    BY Zenon, <1>0, KeepQueue DEF Asleep
  <2>3. Exclusion' /\ MutexWakes'
    BY DEF WordOK, Exclusion, MutexWakes
  <2> QED
    BY Zenon, <2>1, <2>2, <2>3
<1>2. CASE mxr_mutex_trylock(t) \/ MSwap(t)
  <2> USE <1>2 DEF mxr_mutex_trylock, MSwap, goto, F!Store
  <2>1. WordOK' /\ Within(MutexLabel, "mutex")
    BY <1>0 DEF WordOK, Within, MutexLabel
  <2>2. QueueOK'
    BY Zenon, <1>0, KeepQueue DEF Asleep
  <2>3. Exclusion'
    BY DEF WordOK, Exclusion
  <2>4. MutexWakes'
    BY Zenon DEF WordOK, MutexWakes
  <2> QED
    BY Zenon, <2>1, <2>2, <2>3, <2>4
<1>3. CASE MSleep(t)
  <2> USE <1>3 DEF MSleep
  <2>1. WordOK' /\ Within(MutexLabel, "mutex")
    BY <1>0 DEF WordOK, Within, MutexLabel, F!Wait, goto
  <2>2. AsleepOn(t, "mutex")'
    BY Zenon DEF AsleepOn, WordOK, goto
  <2>3. QueueOK'
    BY Zenon, <1>0, <2>2, SleepQueue DEF Asleep
  <2>4. Exclusion' /\ MutexWakes'
    BY Zenon DEF WordOK, Exclusion, MutexWakes, F!Wait, goto
  <2> QED
    BY Zenon, <2>1, <2>3, <2>4
<1>4. CASE MWoken(t)
  <2> USE <1>4 DEF MWoken
  <2>1. WordOK' /\ Within(MutexLabel, "mutex")
    BY <1>0 DEF WordOK, Within, MutexLabel, F!Succeed, goto
  <2>2. QueueOK'
    BY Zenon, <1>0, SucceedQueue
  <2>3. Exclusion' /\ MutexWakes'
    BY DEF WordOK, QueueOK, Exclusion, MutexWakes, F!Succeed, goto
  <2> QED
    BY Zenon, <2>1, <2>2, <2>3
<1>5. CASE MTimedOut(t)
  <2> USE <1>5 DEF MTimedOut
  <2>1. WordOK' /\ Within(MutexLabel, "mutex")
    BY <1>0 DEF WordOK, Within, MutexLabel, F!TimeOut, goto
  <2>2. QueueOK'
    BY Zenon, <1>0, TimeOutQueue
  <2>3. Exclusion' /\ MutexWakes'
    BY DEF WordOK, QueueOK, Exclusion, MutexWakes, F!TimeOut, goto
  <2> QED
    BY Zenon, <2>1, <2>2, <2>3
<1>6. CASE mxr_mutex_unlock(t)
  <2> USE <1>6 DEF mxr_mutex_unlock, F!Store, goto
  <2>1. WordOK' /\ Within(MutexLabel, "mutex")
    BY <1>0 DEF WordOK, Within, MutexLabel
  <2>2. QueueOK'
    BY Zenon, <1>0, KeepQueue DEF Asleep
  <2>3. Exclusion' /\ MutexWakes'
    BY DEF WordOK, Exclusion, MutexWakes
  <2> QED
    BY Zenon, <2>1, <2>2, <2>3
<1>7. CASE MWake(t)
  <2> USE <1>7 DEF MWake
  <2>1. /\ QueueOK'
        /\ \A u \in Threads :
             status'[u] = "waiting" => status[u] = "waiting" /\ ~AsleepOn(u, "mutex")
    BY Zenon, <1>0, WakeQueue DEF Asleep
  <2>2. WordOK' /\ Within(MutexLabel, "mutex")
    BY Zenon, <1>0, <2>1 DEF WordOK, Within, MutexLabel, F!Wake, goto
  <2>3. Exclusion'
    BY Zenon DEF WordOK, Exclusion, F!Wake, goto
  <2>4. MutexWakes'
    BY Zenon, <2>1 DEF WordOK, MutexWakes, AsleepOn, goto
  <2> QED
    BY Zenon, <2>1, <2>2, <2>3, <2>4
<1> QED
  BY Zenon, <1>1, <1>2, <1>3, <1>4, <1>5, <1>6, <1>7 DEF MutexStep, MutexCall

-----------------------------------------------------------------------------
(* The completion. *)

LEMMA CompletionKeeps ==
  ASSUME WordOK, QueueOK, SeenOK, CompletionWakes, NEW t \in Threads,
         CompletionStep(t) \/ CompletionCall(t)
  PROVE  /\ WordOK' /\ QueueOK' /\ Within(CompletionLabel, "completion")
         /\ SeenOK' /\ CompletionWakes'
<1> USE DEF Keys, Values, UNSIGNALED, SIGNALED, futex
<1>0. /\ {"c_load", "c_wait", "c_wake", "out"} \subseteq Label \ Asleep
      /\ "c_asleep" \in Label
  BY Zenon DEF Label, Asleep, CompletionLabel
<1>1. CASE mxr_completion_wait(t) \/ CLoad(t) \/ CBusy(t)
  <2> USE <1>1 DEF mxr_completion_wait, CLoad, CBusy, goto
  <2>1. WordOK' /\ Within(CompletionLabel, "completion")
    BY <1>0 DEF WordOK, Within, CompletionLabel
  <2>2. QueueOK'
    BY Zenon, <1>0, KeepQueue DEF Asleep
  <2>3. SeenOK'
    BY Zenon DEF WordOK, SeenOK, InWait
  <2>4. CompletionWakes'
    BY Zenon DEF WordOK, CompletionWakes
  <2> QED
    BY Zenon, <2>1, <2>2, <2>3, <2>4
<1>2. CASE CSleep(t)
  <2> USE <1>2 DEF CSleep
  <2>1. WordOK' /\ Within(CompletionLabel, "completion")
    BY <1>0 DEF WordOK, Within, CompletionLabel, F!Wait, goto
  <2>2. AsleepOn(t, "completion")'
    BY Zenon DEF AsleepOn, WordOK, goto
  <2>3. QueueOK'
    BY Zenon, <1>0, <2>2, SleepQueue DEF Asleep
  <2>4. SeenOK' /\ CompletionWakes'
    BY DEF WordOK, SeenOK, InWait, CompletionWakes, F!Wait, goto
  <2> QED
    BY Zenon, <2>1, <2>3, <2>4
<1>3. CASE CWoken(t)
  <2> USE <1>3 DEF CWoken
  <2>1. WordOK' /\ Within(CompletionLabel, "completion")
    BY <1>0 DEF WordOK, Within, CompletionLabel, F!Succeed, goto
  <2>2. QueueOK'
    BY Zenon, <1>0, SucceedQueue
  <2>3. SeenOK'
    BY Zenon DEF WordOK, SeenOK, InWait, F!Succeed, goto
  <2>4. CompletionWakes'
    BY Zenon DEF WordOK, QueueOK, CompletionWakes, F!Succeed, goto
  <2> QED
    BY Zenon, <2>1, <2>2, <2>3, <2>4
<1>4. CASE CTimedOut(t)
  <2> USE <1>4 DEF CTimedOut
  <2>1. WordOK' /\ Within(CompletionLabel, "completion")
    BY <1>0 DEF WordOK, Within, CompletionLabel, F!TimeOut, goto
  <2>2. QueueOK'
    BY Zenon, <1>0, TimeOutQueue
  <2>3. SeenOK'
    BY Zenon DEF WordOK, SeenOK, InWait, F!TimeOut, goto
  <2>4. CompletionWakes'
    BY Zenon DEF WordOK, QueueOK, CompletionWakes, F!TimeOut, goto
  <2> QED
    BY Zenon, <2>1, <2>2, <2>3, <2>4
<1>5. CASE mxr_completion_signal(t)
  <2> USE <1>5 DEF mxr_completion_signal, F!Store, goto
  <2>1. WordOK' /\ Within(CompletionLabel, "completion")
    BY <1>0 DEF WordOK, Within, CompletionLabel
  <2>2. QueueOK'
    BY Zenon, <1>0, KeepQueue DEF Asleep
  <2>3. SeenOK'
    BY Zenon DEF WordOK, SeenOK, InWait
  <2>4. CompletionWakes'
    BY Zenon DEF WordOK, CompletionWakes
  <2> QED
    BY Zenon, <2>1, <2>2, <2>3, <2>4
<1>6. CASE mxr_completion_reset(t)
  <2> USE <1>6 DEF mxr_completion_reset, F!Store
  <2>1. WordOK' /\ Within(CompletionLabel, "completion")
    BY DEF WordOK, Within, CompletionLabel
  <2>2. QueueOK'
    BY Zenon DEF QueueOK, AsleepOn
  <2>3. SeenOK' /\ CompletionWakes'
    BY Zenon DEF WordOK, SeenOK, InWait, CompletionWakes
  <2> QED
    BY Zenon, <2>1, <2>2, <2>3
<1>7. CASE CWake(t)
  <2> USE <1>7 DEF CWake
  <2>1. /\ QueueOK'
        /\ \A u \in Threads :
             status'[u] = "waiting" => status[u] = "waiting" /\ ~AsleepOn(u, "completion")
    BY Zenon, <1>0, WakeQueue DEF Asleep
  <2>2. WordOK' /\ Within(CompletionLabel, "completion")
    BY Zenon, <1>0, <2>1 DEF WordOK, Within, CompletionLabel, F!Wake, goto
  <2>3. SeenOK'
    BY Zenon DEF WordOK, SeenOK, InWait, F!Wake, goto
  <2>4. CompletionWakes'
    BY Zenon, <2>1 DEF WordOK, CompletionWakes, AsleepOn, goto
  <2> QED
    BY Zenon, <2>1, <2>2, <2>3, <2>4
<1> QED
  BY Zenon, <1>1, <1>2, <1>3, <1>4, <1>5, <1>6, <1>7 DEF CompletionStep, CompletionCall

-----------------------------------------------------------------------------
(* mxr_once. *)

(* A step that stores no word and moves nobody in or out of the function. *)
LEMMA KeepOnce ==
  ASSUME OnceOK, word' = word, runs' = runs, ran' = ran,
         \A u \in Threads : /\ Runs(u)' <=> Runs(u)
                            /\ pc'[u] \in {"o_finish", "o_wake"} => pc'[u] = pc[u]
  PROVE  OnceOK'
<1>1. \A u \in Threads : /\ pc'[u] = "o_finish" => pc[u] = "o_finish"
                         /\ pc'[u] = "o_wake" => pc[u] = "o_wake"
  BY Zenon
<1> QED
  BY Zenon, <1>1 DEF OnceOK

LEMMA OnceKeeps ==
  ASSUME WordOK, QueueOK, OnceOK, OnceWakes, NEW t \in Threads,
         OnceStep(t) \/ mxr_once(t)
  PROVE  /\ WordOK' /\ QueueOK' /\ Within(OnceLabel, "once") /\ OnceOK' /\ OnceWakes'
         /\ \A u \in Threads : pc[u] \in OnceLabel /\ pc'[u] = "out" => runs' = 1 /\ ran'
<1> USE DEF Keys, Values, UNUSED, RUNNING, RAN, WAITING, futex
<1> DEFINE Returned ==
      \A u \in Threads : pc[u] \in OnceLabel /\ pc'[u] = "out" => runs' = 1 /\ ran'
<1>0. /\ {"o_claim", "o_run", "o_finish", "o_wake", "o_announce", "o_wait", "out"}
           \subseteq Label \ Asleep
      /\ "o_asleep" \in Label
  BY Zenon DEF Label, Asleep, OnceLabel
<1>1. CASE mxr_once(t) \/ ORun(t)
  <2> USE <1>1 DEF mxr_once, ORun, goto
  <2>1. WordOK' /\ Within(OnceLabel, "once")
    BY Zenon, <1>0 DEF WordOK, Within, OnceLabel
  <2>2. QueueOK'
    BY Zenon, <1>0, KeepQueue DEF Asleep
  <2>3. \A u \in Threads : Runs(u)' <=> Runs(u)
    BY Zenon DEF WordOK, Runs
  <2>4. OnceOK'
    BY Zenon, <2>3 DEF WordOK, OnceOK
  <2>5. OnceWakes'
    BY <2>3 DEF WordOK, OnceWakes, Runs
  <2>6. Returned
    BY Zenon DEF WordOK, OnceLabel
  <2> QED
    BY Zenon, <2>1, <2>2, <2>4, <2>5, <2>6
<1>2. CASE OClaim(t)
  <2> USE <1>2 DEF OClaim, F!Store, goto
  <2>0. word["once"] \in {UNUSED, RUNNING, RAN, WAITING}
    BY DEF WordOK
  <2>1. CASE word["once"] = UNUSED
    <3> USE <2>1
    <3>1. WordOK' /\ Within(OnceLabel, "once")
      BY <1>0 DEF WordOK, Within, OnceLabel
    <3>2. QueueOK'
      BY Zenon, <1>0, KeepQueue DEF Asleep
    <3>3. \A u \in Threads : Runs(u)' <=> u = t
      BY DEF WordOK, OnceOK, Runs
    <3>4. word'["once"] = RUNNING /\ runs' = 1 /\ ran' = ran
      BY DEF WordOK, OnceOK
    <3>5. \A u \in Threads : pc'[u] \notin {"o_finish", "o_wake"}
      BY DEF WordOK, OnceOK, Runs
    <3>6. OnceOK'
      BY <3>3, <3>4, <3>5 DEF OnceOK
    <3>7. OnceWakes'
      BY DEF WordOK, OnceOK, OnceWakes, Runs
    <3>8. Returned
      BY Zenon DEF WordOK, OnceLabel
    <3> QED
      BY Zenon, <3>1, <3>2, <3>6, <3>7, <3>8
  <2>2. CASE word["once"] # UNUSED
    <3> DEFINE p == CASE word["once"] = RAN -> "out"
                      [] word["once"] = RUNNING -> "o_announce"
                      [] word["once"] = WAITING -> "o_wait"
    <3>1. /\ p \in {"out", "o_announce", "o_wait"}
          /\ p = "out" => word["once"] = RAN
      BY Zenon, <2>0, <2>2
    <3>2. pc[t] = "o_claim" /\ goto(t, p) /\ UNCHANGED <<futex, runs, ran>>
      BY Zenon, <2>2
    <3> HIDE DEF p, OClaim
    <3> USE <3>1, <3>2
    <3>3. WordOK' /\ Within(OnceLabel, "once")
      BY Zenon, <1>0 DEF WordOK, Within, OnceLabel
    <3>4. QueueOK'
      BY Zenon, <1>0, KeepQueue DEF Asleep
    <3>5. \A u \in Threads : /\ Runs(u)' <=> Runs(u)
                             /\ pc'[u] \in {"o_finish", "o_wake", "o_asleep"} => pc'[u] = pc[u]
                             /\ pc[u] = "o_wake" => pc'[u] = "o_wake"
      BY Zenon DEF WordOK, Runs
    <3>6. OnceOK'
      BY <3>5 DEF OnceOK
    <3>7. OnceWakes'
      BY <3>5 DEF OnceWakes, Runs
    <3>8. Returned
      BY Zenon, <2>2 DEF WordOK, OnceOK, OnceLabel
    <3> QED
      BY Zenon, <3>3, <3>4, <3>6, <3>7, <3>8
  <2> QED
    BY Zenon, <2>1, <2>2
<1>3. CASE OFinish(t)
  <2> USE <1>3 DEF OFinish, F!Store, goto
  <2>1. WordOK' /\ Within(OnceLabel, "once")
    BY <1>0 DEF WordOK, Within, OnceLabel
  <2>2. QueueOK'
    BY Zenon, <1>0, KeepQueue DEF Asleep
  <2>3. \A u \in Threads : ~Runs(u)'
    BY Zenon DEF WordOK, OnceOK, Runs
  <2>4. word'["once"] = RAN /\ runs' = 1 /\ ran' /\ ran' = ran
    BY DEF WordOK, OnceOK, Runs
  <2>5. OnceOK'
    BY <2>3, <2>4 DEF OnceOK, Runs
  <2>6. OnceWakes'
    BY Zenon DEF WordOK, OnceOK, OnceWakes, Runs
  <2>7. Returned
    BY Zenon, <2>4
  <2> QED
    BY Zenon, <2>1, <2>2, <2>5, <2>6, <2>7
<1>4. CASE OWake(t)
  <2> USE <1>4 DEF OWake
  <2>1. /\ QueueOK'
        /\ \A u \in Threads :
             status'[u] = "waiting" => status[u] = "waiting" /\ ~AsleepOn(u, "once")
    BY Zenon, <1>0, WakeQueue DEF Asleep
  <2>2. WordOK' /\ Within(OnceLabel, "once")
    BY Zenon, <1>0, <2>1 DEF WordOK, Within, OnceLabel, F!Wake, goto
  <2>3. \A u \in Threads : /\ Runs(u)' <=> Runs(u)
                           /\ pc'[u] \in {"o_finish", "o_wake", "o_asleep"} => pc'[u] = pc[u]
    BY Zenon DEF WordOK, Runs, goto
  <2>4. OnceOK'
    <3>1. word' = word /\ runs' = runs /\ ran' = ran
      BY Zenon DEF F!Wake
    <3> QED
      BY <2>3, <3>1 DEF OnceOK
  <2>5. OnceWakes'
    BY Zenon, <2>1, <2>3 DEF OnceWakes, AsleepOn
  <2>6. Returned
    BY DEF WordOK, OnceOK, goto
  <2> QED
    BY Zenon, <2>1, <2>2, <2>4, <2>5, <2>6
<1>5. CASE OAnnounce(t)
  <2> USE <1>5 DEF OAnnounce, F!Store, goto
  <2>1. WordOK' /\ Within(OnceLabel, "once")
    BY <1>0 DEF WordOK, Within, OnceLabel
  <2>2. QueueOK'
    BY Zenon, <1>0, KeepQueue DEF Asleep
  <2>3. \A u \in Threads : /\ Runs(u)' <=> Runs(u)
                           /\ pc'[u] \in {"o_finish", "o_wake", "o_asleep"} => pc'[u] = pc[u]
                           /\ pc[u] = "o_wake" => pc'[u] = "o_wake"
    BY Zenon DEF WordOK, Runs
  <2>4. \/ word["once"] = RUNNING /\ word'["once"] = WAITING
        \/ word'["once"] = word["once"]
    BY Zenon DEF WordOK
  <2>5. OnceOK'
    BY <2>3, <2>4 DEF OnceOK
  <2>6. OnceWakes'
    BY Zenon, <2>3, <2>4 DEF OnceWakes, Runs
  <2>7. Returned
    BY Zenon DEF WordOK, OnceLabel
  <2> QED
    BY Zenon, <2>1, <2>2, <2>5, <2>6, <2>7
<1>6. CASE OWait(t)
  <2> USE <1>6 DEF OWait
  <2>1. WordOK' /\ Within(OnceLabel, "once")
    <3>1. CASE F!Wait(t, "once", WAITING) /\ goto(t, "o_asleep")
      BY <1>0, <3>1 DEF WordOK, Within, OnceLabel, F!Wait, goto
    <3>2. CASE goto(t, "o_claim") /\ UNCHANGED futex
      BY Zenon, <1>0, <3>2 DEF WordOK, Within, OnceLabel, goto
    <3> QED
      BY Zenon, <3>1, <3>2
  <2>2. QueueOK'
    <3>1. CASE F!Wait(t, "once", WAITING) /\ goto(t, "o_asleep")
      <4>1. AsleepOn(t, "once")'
        BY Zenon, <3>1 DEF AsleepOn, WordOK, goto
      <4> QED
        BY Zenon, <1>0, <3>1, <4>1, SleepQueue DEF Asleep
    <3>2. CASE goto(t, "o_claim") /\ UNCHANGED futex
      BY Zenon, <1>0, <3>2, KeepQueue DEF Asleep
    <3> QED
      BY Zenon, <3>1, <3>2
  <2>3. \A u \in Threads : /\ Runs(u)' <=> Runs(u)
                           /\ pc'[u] \in {"o_finish", "o_wake"} <=> pc[u] \in {"o_finish", "o_wake"}
                           /\ u # t => pc'[u] = pc[u]
    BY Zenon DEF WordOK, Runs, goto
  <2>4. word' = word /\ runs' = runs /\ ran' = ran
    BY Zenon DEF F!Wait
  <2>5. OnceOK'
    BY <2>3, <2>4 DEF OnceOK
  <2>6. OnceWakes'
    BY <2>3, <2>4 DEF OnceWakes, OnceOK, WordOK, QueueOK, Runs, F!Wait, goto
  <2>7. Returned
    BY Zenon DEF WordOK, OnceLabel, goto
  <2> QED
    BY Zenon, <2>1, <2>2, <2>5, <2>6, <2>7
<1>7. CASE OWoken(t)
  <2> USE <1>7 DEF OWoken
  <2>1. WordOK' /\ Within(OnceLabel, "once")
    BY <1>0 DEF WordOK, Within, OnceLabel, F!Succeed, goto
  <2>2. QueueOK'
    BY Zenon, <1>0, SucceedQueue
  <2>3. \A u \in Threads : /\ Runs(u)' <=> Runs(u)
                           /\ pc'[u] \in {"o_finish", "o_wake", "o_asleep"} => pc'[u] = pc[u]
                           /\ pc[u] = "o_wake" => pc'[u] = "o_wake"
                           /\ status'[u] = "waiting" => status[u] = "waiting"
    BY Zenon DEF WordOK, QueueOK, Runs, F!Succeed, goto
  <2>4. OnceOK'
    <3>1. word' = word /\ runs' = runs /\ ran' = ran
      BY Zenon DEF F!Succeed
    <3> QED
      BY Zenon, <2>3, <3>1, KeepOnce
  <2>5. OnceWakes'
    BY Zenon, <2>3 DEF OnceWakes, Runs, F!Succeed
  <2>6. Returned
    BY Zenon DEF WordOK, OnceLabel, goto
  <2> QED
    BY Zenon, <2>1, <2>2, <2>4, <2>5, <2>6
<1> QED
  BY Zenon, <1>1, <1>2, <1>3, <1>4, <1>5, <1>6, <1>7 DEF OnceStep

-----------------------------------------------------------------------------
(* The invariant is inductive, and a step of the library keeps the promise  *)
(* of mxr_once.                                                             *)

LEMMA InitHolds == Init => IInv
<1> SUFFICES ASSUME Init PROVE IInv
  OBVIOUS
<1> USE DEF Init, BaseInit, CompletionInit, OnceInit, F!FQInit
<1>1. WordOK
  BY Zenon DEF WordOK, Keys, Values, Label, UNLOCKED, UNSIGNALED
<1>2. QueueOK
  BY DEF QueueOK, InList, NoRepeat, AsleepOn, Keys
<1>3. SeenOK
  BY Zenon DEF SeenOK, InWait
<1>4. OnceOK
  <2>1. word["once"] = UNUSED /\ \A t \in Threads : pc[t] = "out"
    BY Zenon DEF UNUSED, Keys
  <2>2. UNUSED \notin {RUNNING, RAN, WAITING}
    BY DEF UNUSED, RUNNING, RAN, WAITING
  <2>3. word["once"] \in {RUNNING, WAITING} <=> \E t \in Threads : Runs(t)
    BY Zenon, <2>1, <2>2 DEF Runs
  <2> QED
    BY Zenon, <2>1, <2>2, <2>3 DEF OnceOK, Runs
<1>5. Exclusion /\ NoLostWakeup
  BY DEF Exclusion, NoLostWakeup, MutexWakes, CompletionWakes, OnceWakes, Keys, LOCKED
<1> QED
  BY Zenon, <1>1, <1>2, <1>3, <1>4, <1>5 DEF IInv

ReturnsOnce ==
  \A t \in Threads : pc[t] \in OnceLabel /\ pc'[t] = "out" => runs' = 1 /\ ran'

LEMMA NextKeeps == IInv /\ [Next]_vars => IInv' /\ ReturnsOnce
<1> SUFFICES ASSUME IInv, [Next]_vars PROVE IInv' /\ ReturnsOnce
  BY Zenon
<1> USE DEF IInv, NoLostWakeup
<1>1. CASE UNCHANGED vars
  <2> USE <1>1 DEF vars, futex
  <2>1. WordOK' /\ SeenOK' /\ OnceOK'
    BY Zenon DEF WordOK, SeenOK, InWait, OnceOK, Runs
  <2>2. QueueOK'
    BY Zenon DEF QueueOK, AsleepOn
  <2>3. Exclusion' /\ NoLostWakeup'
    BY Zenon DEF Exclusion, MutexWakes, CompletionWakes, OnceWakes
  <2>4. ReturnsOnce
    BY Zenon DEF ReturnsOnce, OnceLabel
  <2> QED
    BY Zenon, <2>1, <2>2, <2>3, <2>4
<1>2. ASSUME NEW t \in Threads, (Step(t) \/ Call(t)) /\ UNCHANGED used
      PROVE  IInv' /\ ReturnsOnce
  <2>1. CASE (MutexStep(t) \/ MutexCall(t)) /\ UNCHANGED <<seen, runs, ran>>
    BY Zenon, <1>2, <2>1, MutexKeeps, OthersKeepCompletion, OthersKeepOnce DEF ReturnsOnce, OnceLabel
  <2>2. CASE (CompletionStep(t) \/ CompletionCall(t)) /\ UNCHANGED <<runs, ran>>
    BY Zenon, <1>2, <2>2, CompletionKeeps, OthersKeepMutex, OthersKeepOnce DEF ReturnsOnce, OnceLabel
  <2>3. CASE (OnceStep(t) \/ mxr_once(t)) /\ UNCHANGED seen
    BY Zenon, <1>2, <2>3, OnceKeeps, OthersKeepMutex, OthersKeepCompletion DEF ReturnsOnce
  <2> QED
    BY Zenon, <1>2, <2>1, <2>2, <2>3 DEF Step, Call
<1> QED
  BY Zenon, <1>1, <1>2 DEF Next

(* A wait for the completion ends well only after a signal. *)
ReturnsSeen ==
  \A t \in Threads : InWait(t) /\ pc'[t] = "out" /\ status[t] # "waiting" => seen[t]

LEMMA NextSees == IInv /\ [Next]_vars => ReturnsSeen
<1> SUFFICES ASSUME IInv, [Next]_vars, NEW u \in Threads,
                    InWait(u), pc'[u] = "out", status[u] # "waiting"
             PROVE  seen[u]
  BY Zenon DEF ReturnsSeen
<1>0. pc[u] \in {"c_load", "c_wait", "c_asleep"}
  BY Zenon DEF InWait
<1>1. PICK t \in Threads : Step(t) \/ Call(t)
  BY Zenon, <1>0 DEF Next, vars
<1>2. CASE MutexStep(t) \/ MutexCall(t)
  BY Zenon, <1>0, <1>2, MutexKeeps DEF IInv, NoLostWakeup, Within, MutexLabel
<1>3. CASE OnceStep(t) \/ mxr_once(t)
  BY Zenon, <1>0, <1>3, OnceKeeps DEF IInv, NoLostWakeup, Within, OnceLabel
<1>4. CASE CompletionStep(t) \/ CompletionCall(t)
  <2>1. word["completion"] = SIGNALED => seen[u]
    BY Zenon DEF IInv, SeenOK
  <2>2. word["completion"] # UNSIGNALED => word["completion"] = SIGNALED
    BY Zenon DEF IInv, WordOK
  <2>3. pc \in [Threads -> Label]
    BY Zenon DEF IInv, WordOK
  <2>4. CASE CLoad(t) \/ CBusy(t)
    BY Zenon, <1>0, <2>1, <2>2, <2>3, <2>4 DEF CLoad, CBusy, goto
  <2>5. CASE CWoken(t) \/ CSleep(t) \/ CTimedOut(t)
    BY Zenon, <1>0, <2>3, <2>5 DEF CWoken, CSleep, CTimedOut, goto, F!TimeOut
  <2>6. CASE mxr_completion_wait(t) \/ mxr_completion_signal(t) \/ mxr_completion_reset(t) \/ CWake(t)
    BY Zenon, <1>0, <2>3, <2>6
    DEF mxr_completion_wait, mxr_completion_signal, mxr_completion_reset, CWake, goto
  <2> QED
    BY Zenon, <1>4, <2>4, <2>5, <2>6 DEF CompletionStep, CompletionCall
<1> QED
  BY Zenon, <1>1, <1>2, <1>3, <1>4 DEF Step, Call

LEMMA Invariant == Spec => []IInv
<1> QED
  BY InitHolds, NextKeeps, PTL DEF Spec

-----------------------------------------------------------------------------
(* Every thread that sleeps in mx_futex_wait is in the queue of its word,   *)
(* and in no other, until mx_futex_wake takes it off, for any threads.      *)
THEOREM TypeCorrect == Spec => []TypeOK
<1>1. IInv => TypeOK
  BY Zenon DEF IInv, WordOK, QueueOK, SeenOK, OnceOK, TypeOK, InList, Label
<1> QED
  BY <1>1, Invariant, PTL

(* At most one thread is between mxr_mutex_lock and mxr_mutex_unlock, and   *)
(* the word is LOCKED exactly while one is, although a thread that loses    *)
(* the race stores LOCKED again.                                            *)
THEOREM MutexExcludes == Spec => []Exclusion
<1>1. IInv => Exclusion
  BY Zenon DEF IInv
<1> QED
  BY <1>1, Invariant, PTL

(* No wake-up falls between the store to a word and the call of             *)
(* mx_futex_wake that follows it, in mutex, completion or once object.      *)
THEOREM WakeupsKept == Spec => []NoLostWakeup
<1>1. IInv => NoLostWakeup
  BY Zenon DEF IInv
<1> QED
  BY <1>1, Invariant, PTL

(* mxr_once starts the function once, and returns to no caller before the   *)
(* function has returned.                                                   *)
THEOREM OnceRunsOnce == Spec => RunsOnce
<1> DEFINE A == /\ runs' <= 1
               /\ \A t \in Threads : pc[t] \in OnceLabel /\ pc'[t] = "out" => runs' = 1 /\ ran'
<1>1. IInv' => runs' <= 1
  BY DEF IInv, OnceOK
<1>2. IInv /\ [Next]_vars => A
  BY Zenon, <1>1, NextKeeps DEF ReturnsOnce
<1>3. IInv /\ [Next]_vars => [A]_<<futex, pc, runs, ran>>
  BY Zenon, <1>2
<1> QED
  BY <1>3, Invariant, PTL DEF Spec, RunsOnce

(* mxr_completion_wait reports success only if the completion was signaled  *)
(* when it was called or while it waited, also on the path where ERR_BUSY   *)
(* from mx_futex_wait is taken for the signal.                              *)
THEOREM CompletionSignaled == Spec => OkMeansSignaled
<1>1. IInv /\ [Next]_vars => [ReturnsSeen]_<<futex, pc, seen>>
  BY Zenon, NextSees
<1> QED
  BY <1>1, Invariant, PTL DEF Spec, OkMeansSignaled, ReturnsSeen
=============================================================================
