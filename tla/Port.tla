-------------------------------- MODULE Port --------------------------------
(***************************************************************************)
(* Kernel ports (kernel/kernel/port.c): a named write port, the read ports *)
(* opened on it, each with a ring of packets, and groups of read ports.    *)
(*                                                                         *)
(* Everything but the allocations is done under thread_lock, so a step is  *)
(* a locked section; port_create has two.  A blocked reader or waiter      *)
(* that is woken goes on, still inside its call, when it next runs: by     *)
(* then the port it names may have been closed and freed, and touching it  *)
(* (or unlinking a list node that is in no list) ends the run (crashed).   *)
(***************************************************************************)
EXTENDS Integers, Sequences, SequencesExt

CONSTANTS Readers, WritePorts, ReadPorts, Groups,
          PortBufSize, \* packets in a buffer (PORT_BUFF_SIZE), a power of two
          Counts      \* packets in one port_write

NoPort == "null"
Ports == ReadPorts \cup Groups
EmptyBuf == [head |-> 0, tail |-> 0, avail |-> PortBufSize, packet |-> [i \in 0..PortBufSize-1 |-> 0]]

VARIABLES wport,      \* magic, mode, buf (while it is its own), rp_list of each write port
          named,      \* write_port_list
          rport,      \* magic, buf, wport, gport, wait of each read port
          group,      \* magic, rp_list, wait of each group
          reader,     \* the call a thread is blocked in, and how it was woken
          unread,     \* history: the packets accepted for a read port and not yet read
          last_packet, \* the last packet written; they are numbered modulo PortBufSize + 1
          port_crashed

portVars == <<wport, named, rport, group, reader, unread, last_packet, port_crashed>>

NotReading == [pc |-> "idle", port |-> NoPort]
NoWritePort == [magic |-> "none", unicast |-> FALSE, buf |-> EmptyBuf, mine |-> FALSE,
                rp_list |-> <<>>]
FreePort(p) == [magic |-> p, buf |-> EmptyBuf, wport |-> NoPort, gport |-> NoPort, wait |-> <<>>]

PortInit ==
  /\ wport = [w \in WritePorts |-> NoWritePort]
  /\ named = <<>>
  /\ rport = [r \in ReadPorts |-> FreePort("none")]
  /\ group = [g \in Groups |-> [magic |-> "none", rp_list |-> <<>>, wait |-> <<>>]]
  /\ reader = [t \in Readers |-> NotReading]
  /\ unread = [r \in ReadPorts |-> <<>>]
  /\ last_packet = 0 /\ port_crashed = FALSE

-----------------------------------------------------------------------------
make_buf == EmptyBuf
buf_is_empty(b) == b.avail = PortBufSize

FitsOneMore(b, n) == n <= b.avail + 1
Fits(b, n) == n <= b.avail

buf_write(b, pk) ==
  [head |-> b.head, tail |-> (b.tail + Len(pk)) % PortBufSize, avail |-> b.avail - Len(pk),
   packet |-> [i \in 0..PortBufSize-1 |-> IF (i + PortBufSize - b.tail) % PortBufSize < Len(pk)
                                   THEN pk[1 + ((i + PortBufSize - b.tail) % PortBufSize)] ELSE b.packet[i]]]

buf_peek(b) == b.packet[b.head]
buf_read(b) ==  \* a slot that was read is dead
  [b EXCEPT !.head = (@ + 1) % PortBufSize, !.avail = @ + 1, !.packet[b.head] = 0]

Contents(b) == [i \in 1..(PortBufSize - b.avail) |-> b.packet[(b.head + i - 1) % PortBufSize]]

(* The reading thread t makes a call.  Calls that never block are made by  *)
(* any thread of the system.                                               *)
PortCalls(t) == ~port_crashed /\ reader[t].pc = "idle"

(* t blocks in the wait queue of a read port or group.                     *)
port_block(t, p) ==
  /\ reader' = [reader EXCEPT ![t] = [pc |-> "read", port |-> p]]
  /\ IF p \in ReadPorts
     THEN rport' = [rport EXCEPT ![p].wait = Append(@, t)] /\ UNCHANGED group
     ELSE group' = [group EXCEPT ![p].wait = Append(@, t)] /\ UNCHANGED rport

(* Woken for a packet, a thread tries to read when it next runs; woken     *)
(* with an error, it returns and touches nothing any more.                 *)
Notified(th, ts) ==
  [t \in Readers |-> IF Contains(ts, t) THEN [th[t] EXCEPT !.pc = "reading"] ELSE th[t]]
Failed(th, ts) == [t \in Readers |-> IF Contains(ts, t) THEN NotReading ELSE th[t]]

(* One thread at a time reads a port or a group, and a port is read        *)
(* through its group alone while it has one: port_write and port_group_add *)
(* wake one thread, however many packets there are, and port_write prefers *)
(* one of the group.                                                       *)
Alone(t, p) == /\ \A u \in Readers \ {t} : reader[u].port # p
               /\ p \in ReadPorts => rport[p].gport = NoPort
Unattended(r) == \A t \in Readers : reader[t].port # r

-----------------------------------------------------------------------------
(* port_create: look the name up, then allocate and publish.               *)
port_create_lookup(t) ==
  /\ PortCalls(t) /\ named = <<>>
  /\ reader' = [reader EXCEPT ![t].pc = "creating"]
  /\ UNCHANGED <<wport, named, rport, group, unread, last_packet, port_crashed>>

(* Another port of the same name may have been published meanwhile.        *)
port_create(t, w, unicast) ==
  /\ ~port_crashed /\ reader[t].pc = "creating" /\ wport[w].magic = "none"
  /\ wport' = [wport EXCEPT ![w] = [magic |-> "W", unicast |-> unicast, buf |-> make_buf,
                                    mine |-> TRUE, rp_list |-> <<>>]]
  /\ named' = Append(named, w)
  /\ reader' = [reader EXCEPT ![t] = NotReading]
  /\ UNCHANGED <<rport, group, unread, last_packet, port_crashed>>

(* The first reader takes over the buffer of the write port, and what it   *)
(* already holds; the next one has a buffer of its own.                    *)
port_open(r) ==
  /\ ~port_crashed /\ rport[r].magic = "none" /\ named # <<>>
  /\ LET w == Head(named)
         first == wport[w].mine
     IN /\ first \/ ~wport[w].unicast
        /\ rport' = [rport EXCEPT ![r] = [magic |-> "R", wport |-> w, gport |-> NoPort, wait |-> <<>>,
                                          buf |-> IF first THEN wport[w].buf ELSE make_buf]]
        /\ wport' = [wport EXCEPT ![w].buf = EmptyBuf, ![w].mine = FALSE, ![w].rp_list = Append(@, r)]
        /\ unread' = [unread EXCEPT ![r] = IF first THEN Contents(wport[w].buf) ELSE <<>>]
  /\ UNCHANGED <<named, group, reader, last_packet, port_crashed>>

(* A group of the ports of ps.  If one of them has a group already, those  *)
(* before it get their null gport back and the new group is freed.         *)
port_group(g, ps) ==
  /\ ~port_crashed /\ group[g].magic = "none"
  /\ \A i \in DOMAIN ps : rport[ps[i]].magic = "R" /\ rport[ps[i]].gport = NoPort /\ Unattended(ps[i])
  /\ group' = [group EXCEPT ![g] = [magic |-> "G", rp_list |-> ps, wait |-> <<>>]]
  /\ rport' = [r \in ReadPorts |-> IF Contains(ps, r) THEN [rport[r] EXCEPT !.gport = g]
                                   ELSE rport[r]]
  /\ UNCHANGED <<wport, named, reader, unread, last_packet, port_crashed>>

port_group_add(g, r) ==
  /\ ~port_crashed /\ group[g].magic = "G" /\ rport[r].magic = "R" /\ rport[r].gport = NoPort
  /\ Unattended(r)
  /\ LET wake == IF buf_is_empty(rport[r].buf) \/ group[g].wait = <<>> THEN <<>>
                 ELSE <<Head(group[g].wait)>>
     IN /\ rport' = [rport EXCEPT ![r].gport = g]
        /\ group' = [group EXCEPT ![g].rp_list = Append(@, r),
                                  ![g].wait = SubSeq(@, Len(wake) + 1, Len(@))]
        /\ reader' = Notified(reader, wake)
  /\ UNCHANGED <<wport, named, unread, last_packet, port_crashed>>

(* The port leaves the list of the group and keeps its gport.              *)
port_group_remove(g, r) ==
  /\ ~port_crashed /\ group[g].magic = "G" /\ rport[r].magic = "R" /\ rport[r].gport = g
  /\ Contains(group[g].rp_list, r)
  /\ group' = [group EXCEPT ![g].rp_list = SelectSeq(@, LAMBDA q : q # r)]
  /\ UNCHANGED <<wport, named, rport, reader, unread, last_packet, port_crashed>>

-----------------------------------------------------------------------------
(* One reader of a broadcast: buffer the packets if all of them fit, wake  *)
(* one thread of its group, or else one of its own.                        *)
WriteTo(s, r, pk) ==
  LET rp == s.rport[r]
      g == rp.gport
      fromGroup == g # NoPort /\ s.group[g].wait # <<>>
      wake == IF fromGroup THEN <<Head(s.group[g].wait)>>
              ELSE IF rp.wait # <<>> THEN <<Head(rp.wait)>> ELSE <<>>
  IN IF ~Fits(rp.buf, Len(pk)) THEN s
     ELSE [rport |-> [s.rport EXCEPT ![r].buf = buf_write(@, pk),
                                     ![r].wait = IF fromGroup THEN @
                                                 ELSE SubSeq(@, Len(wake) + 1, Len(@))],
           group |-> IF fromGroup THEN [s.group EXCEPT ![g].wait = Tail(@)] ELSE s.group,
           thread |-> Notified(s.thread, wake),
           unread |-> [s.unread EXCEPT ![r] = @ \o pk]]

(* A freed group is still the gport of a port that was removed from it.    *)
Dangles(r) == rport[r].gport # NoPort /\ group[rport[r].gport].magic # "G"

port_write(w, n) ==
  /\ ~port_crashed /\ wport[w].magic = "W"
  /\ last_packet' = (last_packet + n) % (PortBufSize + 1)
  /\ LET pk == [i \in 1..n |-> (last_packet + i) % (PortBufSize + 1)]
         s == FoldLeft(LAMBDA v, r : WriteTo(v, r, pk),
                       [rport |-> rport, group |-> group, thread |-> reader, unread |-> unread],
                       wport[w].rp_list)
     IN IF wport[w].mine
        THEN /\ wport' = [wport EXCEPT ![w].buf = IF Fits(@, n) THEN buf_write(@, pk) ELSE @]
             /\ UNCHANGED <<rport, group, reader, unread, port_crashed>>
        ELSE /\ rport' = s.rport /\ group' = s.group /\ reader' = s.thread /\ unread' = s.unread
             /\ port_crashed' = \E i \in DOMAIN wport[w].rp_list : Dangles(wport[w].rp_list[i])
             /\ UNCHANGED wport
  /\ UNCHANGED named

(* Take a packet from the first of the ports that has one, or block; a     *)
(* timeout of zero is a call that changes nothing.                         *)
PortRing(p) == IF p \in ReadPorts THEN <<p>> ELSE group[p].rp_list
FullPorts(p) == {i \in DOMAIN PortRing(p) : ~buf_is_empty(rport[PortRing(p)[i]].buf)}

ReadOrBlock(t, p) ==
  \/ /\ FullPorts(p) # {}
     /\ LET r == PortRing(p)[CHOOSE i \in FullPorts(p) : \A j \in FullPorts(p) : i <= j]
        IN /\ unread' = [unread EXCEPT ![r] = IF @ # <<>> /\ Head(@) = buf_peek(rport[r].buf)
                                              THEN Tail(@) ELSE <<NoPort>>]
           /\ rport' = [rport EXCEPT ![r].buf = buf_read(@)]
     /\ reader' = [reader EXCEPT ![t] = NotReading]
     /\ UNCHANGED group
  \/ /\ FullPorts(p) = {}
     /\ port_block(t, p)
     /\ UNCHANGED unread

Opened(p) == IF p \in ReadPorts THEN rport[p].magic = "R" ELSE group[p].magic = "G"

port_read(t, p) ==
  /\ PortCalls(t) /\ Opened(p) /\ Alone(t, p)
  /\ ReadOrBlock(t, p)
  /\ UNCHANGED <<wport, named, last_packet, port_crashed>>

(* The reader runs again, and tries again in a port that may have been     *)
(* freed since it was woken.                                               *)
ReadResumes(t) ==
  /\ ~port_crashed /\ reader[t].pc = "reading"
  /\ \/ Opened(reader[t].port) /\ ReadOrBlock(t, reader[t].port) /\ UNCHANGED port_crashed
     \/ ~Opened(reader[t].port) /\ port_crashed' = TRUE /\ UNCHANGED <<rport, group, unread, reader>>
  /\ UNCHANGED <<wport, named, last_packet>>

(* port_wait blocks only when nothing is there and no writer is gone; a    *)
(* thread that it tells of a packet goes on to read it.                    *)
port_wait(t, p) ==
  /\ PortCalls(t) /\ Opened(p) /\ Alone(t, p)
  /\ FullPorts(p) = {} /\ \A i \in DOMAIN PortRing(p) : rport[PortRing(p)[i]].wport # NoPort
  /\ port_block(t, p)
  /\ UNCHANGED <<wport, named, unread, last_packet, port_crashed>>

(* A finite timeout ends the wait.                                         *)
PortTimeout(t) ==
  /\ ~port_crashed /\ reader[t].pc = "read"
  /\ LET p == reader[t].port
         others(q) == SelectSeq(q, LAMBDA u : u # t)
     IN IF p \in ReadPorts
        THEN rport' = [rport EXCEPT ![p].wait = others(@)] /\ UNCHANGED group
        ELSE group' = [group EXCEPT ![p].wait = others(@)] /\ UNCHANGED rport
  /\ reader' = Failed(reader, <<t>>)
  /\ UNCHANGED <<wport, named, unread, last_packet, port_crashed>>

-----------------------------------------------------------------------------
(* A write port is closed first, and then destroyed.                       *)
port_close_write(w) ==
  /\ ~port_crashed /\ wport[w].magic = "W"
  /\ wport' = [wport EXCEPT ![w].magic = "X"]
  /\ UNCHANGED <<named, rport, group, reader, unread, last_packet, port_crashed>>

port_destroy(w) ==
  /\ ~port_crashed /\ wport[w].magic = "X"
  /\ LET rs == wport[w].rp_list
         gs == {rport[rs[i]].gport : i \in DOMAIN rs} \ {NoPort}
         waiting == FlattenSeq([i \in DOMAIN rs |-> rport[rs[i]].wait])
                    \o FlattenSeq([i \in DOMAIN rs |-> IF rport[rs[i]].gport = NoPort THEN <<>>
                                                       ELSE group[rport[rs[i]].gport].wait])
     IN /\ named' = SelectSeq(named, LAMBDA v : v # w)
        /\ reader' = Failed(reader, waiting)
        /\ rport' = [r \in ReadPorts |-> IF Contains(rs, r)
                                         THEN [rport[r] EXCEPT !.wport = NoPort, !.wait = <<>>]
                                         ELSE rport[r]]
        /\ group' = [g \in Groups |-> IF g \in gs THEN [group[g] EXCEPT !.wait = <<>>] ELSE group[g]]
        /\ port_crashed' = \E i \in DOMAIN rs : Dangles(rs[i])
  /\ wport' = [wport EXCEPT ![w] = [NoWritePort EXCEPT !.magic = "gone"]]
  /\ UNCHANGED <<unread, last_packet>>

(* Unlinks the port from its group's list even if it no longer is in it.   *)
port_close_read(r) ==
  /\ ~port_crashed /\ rport[r].magic = "R"
  /\ LET w == rport[r].wport
         g == rport[r].gport
     IN /\ wport' = IF w = NoPort THEN wport
                    ELSE [wport EXCEPT ![w].rp_list = SelectSeq(@, LAMBDA q : q # r)]
        /\ group' = IF g = NoPort THEN group
                    ELSE [group EXCEPT ![g].rp_list = SelectSeq(@, LAMBDA q : q # r)]
        /\ port_crashed' = (g # NoPort /\ ~Contains(group[g].rp_list, r))
  /\ reader' = Failed(reader, rport[r].wait)
  /\ rport' = [rport EXCEPT ![r] = FreePort("closed")]
  /\ unread' = [unread EXCEPT ![r] = <<>>]
  /\ UNCHANGED <<named, last_packet>>

port_close_group(g) ==
  /\ ~port_crashed /\ group[g].magic = "G"
  /\ reader' = Failed(reader, group[g].wait)
  /\ rport' = [r \in ReadPorts |-> IF Contains(group[g].rp_list, r)
                                   THEN [rport[r] EXCEPT !.gport = NoPort] ELSE rport[r]]
  /\ group' = [group EXCEPT ![g] = [magic |-> "closed", rp_list |-> <<>>, wait |-> <<>>]]
  /\ UNCHANGED <<wport, named, unread, last_packet, port_crashed>>

PortNext ==
  \/ \E t \in Readers :
       \/ port_create_lookup(t) \/ ReadResumes(t) \/ PortTimeout(t)
       \/ \E w \in WritePorts, unicast \in BOOLEAN : port_create(t, w, unicast)
       \/ \E p \in Ports : port_read(t, p) \/ port_wait(t, p)
  \/ \E w \in WritePorts : \/ \E n \in Counts : port_write(w, n)
                           \/ port_close_write(w) \/ port_destroy(w)
  \/ \E r \in ReadPorts : port_open(r) \/ port_close_read(r)
  \/ \E g \in Groups :
       \/ \E ps \in {<<>>} \cup {<<r>> : r \in ReadPorts} : port_group(g, ps)
       \/ \E r \in ReadPorts : port_group_add(g, r) \/ port_group_remove(g, r)
       \/ port_close_group(g)

PortSpec == PortInit /\ [][PortNext]_portVars

-----------------------------------------------------------------------------
(* A read port gives every packet that was buffered for it, in order, none *)
(* twice and none lost or overwritten, whoever reads it and through        *)
(* whichever group, as its ring wraps and as a first reader takes over     *)
(* the ring of the write port.                                             *)
PortFIFO ==
  \A r \in ReadPorts : rport[r].magic = "R" => unread[r] = Contents(rport[r].buf)

(* No lost wakeup: a thread sleeps only in an open port or group, in its   *)
(* wait queue, and only while the ports that it would look into are empty. *)
SleepersHaveNoPackets ==
  \A t \in Readers : reader[t].pc = "read" /\ ~port_crashed =>
    LET p == reader[t].port
    IN /\ Opened(p)
       /\ Contains(IF p \in ReadPorts THEN rport[p].wait ELSE group[p].wait, t)
       /\ FullPorts(p) = {}
=============================================================================
