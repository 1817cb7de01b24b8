------------------------------- MODULE NetLog -------------------------------
(***************************************************************************)
(* The debug log over the network: netsvc on the device                    *)
(* (system/uapp/netsvc/netsvc.c) sends a packet of log lines again and     *)
(* again until the host's loglistener (system/tools/loglistener.c) has     *)
(* acknowledged it.  The link between them loses datagrams but keeps their *)
(* order, as one Ethernet segment does.  The device and the listener may   *)
(* be restarted at any time.                                               *)
(*                                                                         *)
(* A packet is [seqno, id]: id is a number of its own for each packet that *)
(* netsvc fills from the log, over restarts.                               *)
(***************************************************************************)
EXTENDS Naturals, Sequences

CONSTANTS MaxFilled,    \* bound on the packets ever filled
          MaxInFlight,  \* bound on the datagrams on the link, each way
          MaxReboots    \* bound on the restarts of each end

VARIABLES seqno,        \* netsvc: seqno
          pending,      \* netsvc: pending
          pkt,          \* netsvc: pkt, what is sent
          timer,        \* netsvc: the timer of netifc has expired
          last_seqno,   \* loglistener: last_seqno
          to_host,      \* datagrams on their way to DEBUGLOG_PORT
          to_device,    \* datagrams on their way to DEBUGLOG_ACK_PORT
          filled,       \* history: the packets filled so far
          printed,      \* history: the packets printed, in order
          acked,        \* history: the packets netsvc took as acknowledged
          masked,       \* history: packets dropped as repeated that were not
          reboots       \* restarts so far: <<device, listener>>

netlogVars == <<seqno, pending, pkt, timer, last_seqno, to_host, to_device,
                filled, printed, acked, masked, reboots>>

NoPacket == [seqno |-> 0, id |-> 0]

NetLogInit ==
  /\ seqno = 1 /\ pending = FALSE /\ pkt = NoPacket /\ timer = TRUE
  /\ last_seqno = 0
  /\ to_host = <<>> /\ to_device = <<>>
  /\ filled = 0 /\ printed = <<>> /\ acked = {} /\ masked = {}
  /\ reboots = <<0, 0>>

-----------------------------------------------------------------------------
(* netsvc. *)

(* udp6_send to all nodes; a full link drops the datagram. *)
Transmit(p) ==
  to_host' = IF Len(to_host) < MaxInFlight THEN Append(to_host, p) ELSE to_host

(* An iteration of main that finds lines in the log, and sends them at once. *)
SendLines ==
  /\ timer /\ ~pending
  /\ filled < MaxFilled
  /\ filled' = filled + 1
  /\ pkt' = [seqno |-> seqno, id |-> filled']
  /\ pending' = TRUE
  /\ Transmit(pkt')
  /\ timer' = FALSE
  /\ UNCHANGED <<seqno, last_seqno, to_device, printed, acked, masked, reboots>>

(* One with a packet that is not acknowledged. *)
SendAgain ==
  /\ timer /\ pending
  /\ Transmit(pkt)
  /\ timer' = FALSE
  /\ UNCHANGED <<seqno, pending, pkt, last_seqno, to_device, filled, printed, acked,
                 masked, reboots>>

(* One that finds nothing to send. *)
SendNothing ==
  /\ timer /\ ~pending
  /\ timer' = FALSE
  /\ UNCHANGED <<seqno, pending, pkt, last_seqno, to_host, to_device, filled, printed, acked,
                 masked, reboots>>

(* netifc_poll returns to main when the time of netifc_set_timer is over. *)
TimerExpires ==
  /\ ~timer
  /\ timer' = TRUE
  /\ UNCHANGED <<seqno, pending, pkt, last_seqno, to_host, to_device, filled, printed,
                 acked, masked, reboots>>

(* Mutant: any acknowledgement counts. *)
udp6_recvAny ==
  /\ to_device # <<>>
  /\ to_device' = Tail(to_device)
  /\ IF pending
       THEN /\ seqno' = seqno + 1 /\ pending' = FALSE /\ timer' = TRUE
            /\ acked' = acked \cup {pkt.id}
       ELSE UNCHANGED <<seqno, pending, timer, acked>>
  /\ UNCHANGED <<pkt, last_seqno, to_host, filled, printed, masked, reboots>>

(* udp6_recv on DEBUGLOG_ACK_PORT.  A timer set to 0 is over at once. *)
udp6_recv ==
  /\ to_device # <<>>
  /\ to_device' = Tail(to_device)
  /\ IF Head(to_device) = seqno /\ pending
       THEN /\ seqno' = seqno + 1 /\ pending' = FALSE /\ timer' = TRUE
            /\ acked' = acked \cup {pkt.id}
       ELSE UNCHANGED <<seqno, pending, timer, acked>>
  /\ UNCHANGED <<pkt, last_seqno, to_host, filled, printed, masked, reboots>>

-----------------------------------------------------------------------------
(* loglistener. *)

Acknowledge(p) ==
  to_device' = IF Len(to_device) < MaxInFlight THEN Append(to_device, p.seqno) ELSE to_device

(* Mutant: a repeated packet is not acknowledged again. *)
ListenOnce ==
  /\ to_host # <<>>
  /\ LET p == Head(to_host)
     IN IF p.seqno # last_seqno
          THEN /\ printed' = Append(printed, p.id)
               /\ last_seqno' = p.seqno
               /\ Acknowledge(p)
               /\ UNCHANGED masked
          ELSE UNCHANGED <<printed, last_seqno, masked, to_device>>
  /\ to_host' = Tail(to_host)
  /\ UNCHANGED <<seqno, pending, pkt, timer, filled, acked, reboots>>

(* An iteration of main. *)
Listen ==
  /\ to_host # <<>>
  /\ LET p == Head(to_host)
     IN /\ IF p.seqno # last_seqno
             THEN /\ printed' = Append(printed, p.id)
                  /\ last_seqno' = p.seqno
                  /\ UNCHANGED masked
             ELSE /\ masked' = masked \cup ({p.id} \ {printed[i] : i \in DOMAIN printed})
                  /\ UNCHANGED <<printed, last_seqno>>
        /\ Acknowledge(p)
  /\ to_host' = Tail(to_host)
  /\ UNCHANGED <<seqno, pending, pkt, timer, filled, acked, reboots>>

-----------------------------------------------------------------------------
(* The link and the restarts. *)

LoseToHost ==
  /\ to_host # <<>>
  /\ to_host' = Tail(to_host)
  /\ UNCHANGED <<seqno, pending, pkt, timer, last_seqno, to_device, filled, printed, acked,
                 masked, reboots>>

LoseToDevice ==
  /\ to_device # <<>>
  /\ to_device' = Tail(to_device)
  /\ UNCHANGED <<seqno, pending, pkt, timer, last_seqno, to_host, filled, printed, acked,
                 masked, reboots>>

(* What was read from the log and not acknowledged is gone.  A restart takes *)
(* longer than datagrams last.                                               *)
DeviceRestarts ==
  /\ reboots[1] < MaxReboots
  /\ reboots' = [reboots EXCEPT ![1] = @ + 1]
  /\ seqno' = 1 /\ pending' = FALSE /\ pkt' = NoPacket /\ timer' = TRUE
  /\ to_host' = <<>> /\ to_device' = <<>>
  /\ UNCHANGED <<last_seqno, filled, printed, acked, masked>>

ListenerRestarts ==
  /\ reboots[2] < MaxReboots
  /\ reboots' = [reboots EXCEPT ![2] = @ + 1]
  /\ last_seqno' = 0
  /\ to_host' = <<>> /\ to_device' = <<>>
  /\ UNCHANGED <<seqno, pending, pkt, timer, filled, printed, acked, masked>>

NetLogNext ==
  \/ SendLines \/ SendAgain \/ SendNothing \/ TimerExpires \/ udp6_recv
  \/ Listen
  \/ LoseToHost \/ LoseToDevice \/ DeviceRestarts \/ ListenerRestarts

NetLogSpec == NetLogInit /\ [][NetLogNext]_netlogVars

-----------------------------------------------------------------------------
(* Properties. *)

Printed == {printed[i] : i \in DOMAIN printed}

(* While neither end is restarted, the host prints the packets in the order  *)
(* in which they were filled, each once, whatever is lost, late or sent      *)
(* twice; and netsvc goes on to the next packet only when the one before it  *)
(* was printed.                                                              *)
PrintsInOrder ==
  reboots = <<0, 0>> =>
    /\ \A i \in DOMAIN printed : printed[i] = i
    /\ \A id \in acked : id \in Printed

(* After restarts a packet may be acknowledged without being printed, but in *)
(* one case only: it is the first of a restarted device, and the last packet *)
(* that the listener has seen was a first one too.  Nothing else is lost.    *)
LostOnlyWhenMasked ==
  \A id \in acked \ Printed : id \in masked /\ reboots[1] > 0

(* netsvc.c and loglistener.c: nothing is printed twice or out of order, and *)
(* what is acknowledged was printed, but for the first packet after a        *)
(* restart of the device.                                                    *)
NetLogSound == PrintsInOrder /\ LostOnlyWhenMasked

(* A packet that netsvc keeps sending is acknowledged or dies with the       *)
(* device, as long as the link lets some datagrams through each way.         *)
PacketsGetThrough ==
  \A id \in 1 .. MaxFilled :
    (pending /\ pkt.id = id) ~> (id \in acked \/ pkt.id # id)
=============================================================================
