------------------------------ MODULE DataPipe ------------------------------
(***************************************************************************)
(* A data pipe: a one-way byte stream between a producer and a consumer    *)
(* endpoint over a ring buffer held in a VM object (DataPipe in            *)
(* kernel/lib/magenta/data_pipe.cpp).  Every operation runs under lock_,   *)
(* so each is one action; the two-phase operations (begin/end) are two     *)
(* system calls and two actions, with anything in between.                 *)
(*                                                                         *)
(* A byte is represented by its position in the stream (1, 2, ...); 0 is a *)
(* byte that is not part of the stream.  An operation that returns an      *)
(* error without changing anything is not an action.                       *)
(***************************************************************************)
EXTENDS Integers, FiniteSets

CONSTANTS Size,        \* vmo_->size(): the capacity rounded up to pages
          MaxBytes,    \* bound on the bytes ever written
          Aspaces,     \* address spaces the endpoints may be used from
          NoAspace,    \* the null VmAspace reference
          MaxRegions   \* regions one address space can hold for one endpoint

ASSUME SizeAssumption == Size \in Nat \ {0}
ASSUME MaxBytesAssumption == MaxBytes \in Nat
ASSUME AspaceAssumption == NoAspace \notin Aspaces
ASSUME MaxRegionsAssumption == MaxRegions \in Nat

VARIABLES alive,        \* the endpoints whose dispatcher exists
          cursor,       \* EndPoint::cursor
          expected,     \* EndPoint::expected, 0 when no two-phase operation is pending
          aspace,       \* EndPoint::aspace, where the endpoint is mapped
          regions,      \* mappings of the vmo made for an endpoint, per address space
          vmo,          \* "live" or "null": the vmo_ reference
          free_space,   \* free_space_
          mem,          \* the contents of the vmo
          satisfied,    \* the satisfied signals of the endpoint's state tracker
          satisfiable,  \* and the satisfiable ones
          nwritten,     \* bytes committed by the producer so far (history)
          nread,        \* bytes consumed so far (history)
          fault         \* operation that dereferenced a null vmo_, or "none"

ring == <<cursor, expected, free_space, mem, nwritten, nread>>
mappings == <<aspace, regions>>
signals == <<satisfied, satisfiable>>
vars == <<alive, ring, mappings, vmo, signals, fault>>

EndPoint == {"producer", "consumer"}
Signal == {"READABLE", "WRITABLE", "PEER_CLOSED"}
Slot == 0 .. Size - 1

TypeOK ==
  /\ alive \in SUBSET EndPoint
  /\ cursor \in [EndPoint -> Slot]
  /\ expected \in [EndPoint -> 0 .. Size]
  /\ aspace \in [EndPoint -> Aspaces \cup {NoAspace}]
  /\ regions \in [EndPoint -> [Aspaces -> 0 .. MaxRegions]]
  /\ vmo \in {"live", "null"}
  /\ free_space \in 0 .. Size
  /\ mem \in [Slot -> Nat]
  /\ satisfied \in [EndPoint -> SUBSET Signal]
  /\ satisfiable \in [EndPoint -> SUBSET Signal]
  /\ nwritten \in 0 .. MaxBytes
  /\ nread \in 0 .. MaxBytes
  /\ fault \in {"none", "ProducerWriteEnd", "ConsumerReadFromUser", "ConsumerReadBegin"}

Init ==
  /\ alive = EndPoint
  /\ cursor = [e \in EndPoint |-> 0]
  /\ expected = [e \in EndPoint |-> 0]
  /\ aspace = [e \in EndPoint |-> NoAspace]
  /\ regions = [e \in EndPoint |-> [a \in Aspaces |-> 0]]
  /\ vmo = "live"
  /\ free_space = Size
  /\ mem = [s \in Slot |-> 0]
  /\ satisfied = [e \in EndPoint |-> IF e = "producer" THEN {"WRITABLE"} ELSE {}]
  /\ satisfiable = [e \in EndPoint |-> IF e = "producer" THEN {"WRITABLE", "PEER_CLOSED"}
                                                        ELSE {"READABLE", "PEER_CLOSED"}]
  /\ nwritten = 0
  /\ nread = 0
  /\ fault = "none"

(* An endpoint is used through its dispatcher, and nothing runs after a fault. *)
Usable(e) == e \in alive /\ fault = "none"

-----------------------------------------------------------------------------
(* The helpers of the operations. *)

(* vmo_-> through a null reference: the kernel stops here.  What the operation *)
(* stored before is not seen by anyone.                                        *)
NullVmo(op) ==
  /\ vmo = "null"
  /\ fault' = op
  /\ UNCHANGED <<alive, ring, mappings, vmo, signals>>

(* Mutant: the space up to the end of the buffer, whatever the other cursor. *)
ComputeSizeToEnd(from, to, requested) ==
  IF Size - from >= requested THEN requested ELSE Size - from

ComputeSize(from, to, requested) ==
  LET available == IF from >= to THEN Size - from ELSE to - from
  IN  IF available >= requested THEN requested ELSE available

Advance(from, n) == IF from + n = Size THEN 0 ELSE from + n

(* Mutant: READABLE stays satisfiable when the last byte is read after the  *)
(* producer is gone.                                                       *)
UpdateSignalsKeepReadable(free) ==
  /\ satisfied' = [satisfied EXCEPT
        !["producer"] = IF free = 0 THEN @ \ {"WRITABLE"} ELSE @ \cup {"WRITABLE"},
        !["consumer"] = IF free = Size THEN @ \ {"READABLE"} ELSE @ \cup {"READABLE"}]
  /\ UNCHANGED satisfiable

UpdateSignals(free) ==
  /\ satisfied' = [satisfied EXCEPT
        !["producer"] = IF free = 0 THEN @ \ {"WRITABLE"} ELSE @ \cup {"WRITABLE"},
        !["consumer"] = IF free = Size THEN @ \ {"READABLE"} ELSE @ \cup {"READABLE"}]
  /\ satisfiable' = [satisfiable EXCEPT
        !["consumer"] = IF free = Size /\ "producer" \notin alive THEN @ \ {"READABLE"} ELSE @]

(* Bytes from, from + 1, ... of the stream stored in size slots from a cursor on. *)
Store(at, size, from) ==
  [s \in Slot |-> IF at <= s /\ s < at + size THEN from + (s - at) ELSE mem[s]]

(* FreeRegion(vad_start): only the mapping made last is known to the endpoint. *)
Unmapped(e) ==
  IF aspace[e] = NoAspace THEN regions
  ELSE [regions EXCEPT ![e][aspace[e]] = @ - 1]

(* MapVMOIfNeeded: the previous region is freed when the endpoint is used from *)
(* another address space; the vmo is then mapped (again) into this one.        *)
BeforeMap(e, a) == IF aspace[e] # a THEN Unmapped(e) ELSE regions

MapVMOIfNeeded(e, a) ==
  LET before == BeforeMap(e, a)
  IN  /\ before[e][a] < MaxRegions
      /\ regions' = [before EXCEPT ![e][a] = @ + 1]
      /\ aspace' = [aspace EXCEPT ![e] = a]

(* MapObject fails: a region of another address space is gone all the same. *)
MapVMOFails(e, a) ==
  /\ aspace[e] \notin {NoAspace, a}
  /\ regions' = Unmapped(e)
  /\ aspace' = [aspace EXCEPT ![e] = NoAspace]

-----------------------------------------------------------------------------
(* The producer. *)

CanWrite == /\ Usable("producer")
            /\ expected["producer"] = 0
            /\ "consumer" \in alive
            /\ free_space # 0

Commit(n) ==
  /\ free_space' = free_space - n
  /\ cursor' = [cursor EXCEPT !["producer"] = Advance(@, n)]
  /\ nwritten' = nwritten + n

ProducerWriteFromUser(requested) ==
  LET n == ComputeSize(cursor["producer"], cursor["consumer"], requested)
  IN  /\ CanWrite
      /\ nwritten + n <= MaxBytes
      /\ mem' = Store(cursor["producer"], n, nwritten + 1)
      /\ Commit(n)
      /\ UpdateSignals(free_space - n)
      /\ UNCHANGED <<alive, expected, nread, mappings, vmo, fault>>

(* vmo_->WriteUser fails on the user's buffer after storing some of it. *)
ProducerWriteFails(requested) ==
  LET n == ComputeSize(cursor["producer"], cursor["consumer"], requested)
  IN  /\ CanWrite
      /\ mem' = [s \in Slot |-> IF cursor["producer"] <= s /\ s < cursor["producer"] + n
                                THEN 0 ELSE mem[s]]
      /\ UNCHANGED <<alive, cursor, expected, free_space, nwritten, nread, mappings,
                     vmo, signals, fault>>

(* The caller may store into the window it is lent as soon as it has it.   *)
ProducerWriteBegin(a, requested) ==
  LET n == ComputeSize(cursor["producer"], cursor["consumer"], requested)
  IN  /\ CanWrite
      /\ nwritten + n <= MaxBytes
      /\ MapVMOIfNeeded("producer", a)
      /\ expected' = [expected EXCEPT !["producer"] = n]
      /\ mem' = Store(cursor["producer"], n, nwritten + 1)
      /\ UNCHANGED <<alive, cursor, free_space, nwritten, nread, vmo, signals, fault>>

ProducerWriteBeginFails(a) ==
  /\ CanWrite
  /\ MapVMOFails("producer", a)
  /\ UNCHANGED <<alive, ring, vmo, signals, fault>>

(* Mutant: a caller may commit more than the window it was lent. *)
ProducerWriteEndUnchecked(written) ==
  /\ Usable("producer")
  /\ expected["producer"] # 0
  /\ written <= free_space
  /\ cursor["producer"] + written <= Size
  /\ nwritten + written <= MaxBytes
  /\ \/ /\ vmo = "live"
        /\ Commit(written)
        /\ expected' = [expected EXCEPT !["producer"] = 0]
        /\ UpdateSignals(free_space - written)
        /\ UNCHANGED <<alive, mem, nread, mappings, vmo, fault>>
     \/ NullVmo("ProducerWriteEnd")

ProducerWriteEnd(written) ==
  /\ Usable("producer")
  /\ expected["producer"] # 0
  /\ written <= expected["producer"]
  /\ \/ /\ vmo = "live"
        /\ Commit(written)
        /\ expected' = [expected EXCEPT !["producer"] = 0]
        /\ UpdateSignals(free_space - written)
        /\ UNCHANGED <<alive, mem, nread, mappings, vmo, fault>>
     \/ NullVmo("ProducerWriteEnd")

-----------------------------------------------------------------------------
(* The consumer.  Both ways to read ask vmo_ for its size first. *)

CanAskSize == Usable("consumer") /\ expected["consumer"] = 0

CanRead == CanAskSize /\ vmo = "live" /\ free_space # Size

Consume(n) ==
  /\ free_space' = free_space + n
  /\ cursor' = [cursor EXCEPT !["consumer"] = Advance(@, n)]
  /\ nread' = nread + n
  /\ UpdateSignals(free_space + n)

ConsumerReadFromUser(requested) ==
  \/ /\ CanRead
     /\ Consume(ComputeSize(cursor["consumer"], cursor["producer"], requested))
     /\ UNCHANGED <<alive, expected, mem, nwritten, mappings, vmo, fault>>
  \/ CanAskSize /\ NullVmo("ConsumerReadFromUser")

ConsumerReadBegin(a, requested) ==
  LET n == ComputeSize(cursor["consumer"], cursor["producer"], requested)
  IN  \/ /\ CanRead
         /\ MapVMOIfNeeded("consumer", a)
         /\ expected' = [expected EXCEPT !["consumer"] = n]
         /\ UNCHANGED <<alive, cursor, free_space, mem, nwritten, nread, vmo, signals, fault>>
      \/ CanAskSize /\ NullVmo("ConsumerReadBegin")

ConsumerReadBeginFails(a) ==
  /\ CanRead
  /\ MapVMOFails("consumer", a)
  /\ UNCHANGED <<alive, ring, vmo, signals, fault>>

ConsumerReadEnd(read) ==
  /\ Usable("consumer")
  /\ expected["consumer"] # 0
  /\ read <= expected["consumer"]
  /\ Consume(read)
  /\ expected' = [expected EXCEPT !["consumer"] = 0]
  /\ UNCHANGED <<alive, mem, nwritten, mappings, vmo, fault>>

-----------------------------------------------------------------------------
(* The destructors of the two dispatchers. *)

Unmap(e) ==
  /\ regions' = Unmapped(e)
  /\ aspace' = [aspace EXCEPT ![e] = NoAspace]

(* Mutant: the vmo is dropped whether or not the consumer has data to read. *)
OnProducerDestructionDropsVmo ==
  /\ Usable("producer")
  /\ alive' = alive \ {"producer"}
  /\ Unmap("producer")
  /\ IF "consumer" \notin alive THEN UNCHANGED <<vmo, signals>>
     ELSE /\ satisfied' = [satisfied EXCEPT !["consumer"] = @ \cup {"PEER_CLOSED"}]
          /\ satisfiable' = [satisfiable EXCEPT
                !["consumer"] = IF free_space = Size THEN @ \ {"READABLE"} ELSE @]
          /\ vmo' = "null"
  /\ UNCHANGED <<ring, fault>>

OnProducerDestruction ==
  LET is_empty == free_space = Size
  IN  /\ Usable("producer")
      /\ alive' = alive \ {"producer"}
      /\ Unmap("producer")
      /\ IF "consumer" \notin alive THEN UNCHANGED <<vmo, signals>>
         ELSE /\ satisfied' = [satisfied EXCEPT !["consumer"] = @ \cup {"PEER_CLOSED"}]
              /\ satisfiable' = [satisfiable EXCEPT
                    !["consumer"] = IF is_empty THEN @ \ {"READABLE"} ELSE @]
              /\ vmo' = IF is_empty THEN "null" ELSE vmo
      /\ UNCHANGED <<ring, fault>>

OnConsumerDestruction ==
  /\ Usable("consumer")
  /\ alive' = alive \ {"consumer"}
  /\ vmo' = "null"
  /\ Unmap("consumer")
  /\ IF "producer" \notin alive THEN UNCHANGED signals
     ELSE /\ satisfied' = [satisfied EXCEPT
                !["producer"] = (@ \ {"WRITABLE"}) \cup {"PEER_CLOSED"}]
          /\ satisfiable' = [satisfiable EXCEPT !["producer"] = @ \ {"WRITABLE"}]
  /\ UNCHANGED <<ring, fault>>

-----------------------------------------------------------------------------
Next ==
  \/ \E n \in 1 .. Size :
        \/ ProducerWriteFromUser(n)
        \/ ProducerWriteFails(n)
        \/ ConsumerReadFromUser(n)
        \/ \E a \in Aspaces : ProducerWriteBegin(a, n) \/ ConsumerReadBegin(a, n)
  \/ \E a \in Aspaces : ProducerWriteBeginFails(a) \/ ConsumerReadBeginFails(a)
  \/ \E n \in 0 .. Size : ProducerWriteEnd(n) \/ ConsumerReadEnd(n)
  \/ OnProducerDestruction
  \/ OnConsumerDestruction

Spec == Init /\ [][Next]_vars

-----------------------------------------------------------------------------
(* Properties. *)

used == Size - free_space
Wrap(s) == IF s < Size THEN s ELSE s - Size
Window(e) == {s \in Slot : cursor[e] <= s /\ s < cursor[e] + expected[e]}

(* The three redundant pieces of ring state agree after any mix of one- and   *)
(* two-phase operations: the distance between the cursors is the space in use,*)
(* and that is the number of bytes written and not yet read.                  *)
RingConsistent ==
  /\ nwritten = nread + used
  /\ cursor["producer"] = Wrap(cursor["consumer"] + used)

(* The part of the buffer lent to a producer between ProducerWriteBegin and   *)
(* ProducerWriteEnd lies in free space, the part lent to a consumer between   *)
(* ConsumerReadBegin and ConsumerReadEnd in written space, both inside the    *)
(* mapping; so the two windows never overlap, whatever happens in between.    *)
WindowsDisjoint ==
  /\ expected["producer"] <= free_space
  /\ expected["consumer"] <= used
  /\ \A e \in EndPoint : cursor[e] + expected[e] <= Size
  /\ Window("producer") \cap Window("consumer") = {}

(* Both: no mix of calls makes the ring forget which bytes are whose.         *)
RingSound == RingConsistent /\ WindowsDisjoint

(* m holds, from cursor c on, u bytes of the stream that follow its byte k. *)
Holds(m, c, u, k) == \A i \in Slot : i < u => m[Wrap(c + i)] = k + 1 + i

(* What the consumer would read next is the stream itself: every unread byte  *)
(* is the one the producer wrote at that position, none lost, repeated,       *)
(* reordered or overwritten, also after the buffer wrapped, after a write     *)
(* that failed half way, and while windows are lent.                          *)
StreamIntegrity == Holds(mem, cursor["consumer"], used, nread)

(* The signals a waiter sees agree with the pipe: the consumer is READABLE    *)
(* exactly when there are bytes, READABLE can still become satisfied exactly  *)
(* when there are bytes or a producer, the producer is WRITABLE exactly when  *)
(* there is room and a consumer, and PEER_CLOSED exactly when the peer is     *)
(* gone.  A waiter on a live endpoint neither sleeps through data nor waits   *)
(* for data that cannot come.                                                 *)
SignalsMatchState ==
  /\ "consumer" \in alive =>
       /\ "READABLE" \in satisfied["consumer"] <=> used > 0
       /\ "READABLE" \in satisfiable["consumer"] <=> (used > 0 \/ "producer" \in alive)
       /\ "PEER_CLOSED" \in satisfied["consumer"] <=> "producer" \notin alive
  /\ "producer" \in alive =>
       /\ "WRITABLE" \in satisfied["producer"] <=> (free_space > 0 /\ "consumer" \in alive)
       /\ "WRITABLE" \in satisfiable["producer"] <=> "consumer" \in alive
       /\ "PEER_CLOSED" \in satisfied["producer"] <=> "consumer" \notin alive

(* The vmo is held exactly as long as bytes can still pass: a producer that    *)
(* goes away never takes unread bytes with it, and a consumer that goes away  *)
(* leaves nothing held.                                                       *)
VmoKeptWhileNeeded ==
  /\ "consumer" \in alive /\ ("producer" \in alive \/ used > 0) => vmo = "live"
  /\ "consumer" \notin alive => vmo = "null"
=============================================================================
