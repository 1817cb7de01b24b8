------------------------------ MODULE DebugLog ------------------------------
(***************************************************************************)
(* The kernel's debug log (kernel/lib/debuglog/debuglog.c): records in a   *)
(* mostly circular buffer, written by anyone and read by any number of     *)
(* readers, each with a tail of its own.  All of it runs under log->lock,  *)
(* so each operation is one action.                                        *)
(*                                                                         *)
(* Offsets and sizes are counted in the smallest size of a record.  The    *)
(* text of a record is its number, counted from 1 by the history variable  *)
(* dlog_count; a header that a later record was written over is NoRecord.  *)
(***************************************************************************)
EXTENDS Naturals

CONSTANTS LogSize,    \* DLOG_SIZE
          MaxEntry,   \* DLOG_MAX_ENTRY
          MaxRecords, \* bound on the records ever written
          LogReaders  \* dlog_reader_t objects: debuglog_reader's, LogDispatchers'

(* The last record before the wrap must not begin where the first one after  *)
(* it may still reach: the loops of dlog_write would not end.  64 KB and 256 *)
(* bytes are far from that.                                                  *)
ASSUME LogSizeAssumption == LogSize + 1 >= 3 * MaxEntry

VARIABLES dlog_head,  \* log->head
          dlog_tail,  \* log->tail
          dlog_data,  \* the record headers in log->data, by offset
          dlog_count, \* history: the records written
          rdr         \* the readers: tail, event, whether the owner is in
                      \* dlog_wait; history: the last record read, and whether
                      \* the last write moved the tail

dlogVars == <<dlog_head, dlog_tail, dlog_data, dlog_count, rdr>>

LogOffset == 0 .. LogSize - 1
NoRecord == [next |-> 0, id |-> 0]
NoReader == [open |-> FALSE, tail |-> 0, signaled |-> FALSE, waits |-> FALSE, last |-> 0,
             moved |-> FALSE]

DebugLogInit ==
  /\ dlog_head = 0 /\ dlog_tail = 0 /\ dlog_count = 0
  /\ dlog_data = [o \in LogOffset |-> NoRecord]
  /\ rdr = [r \in LogReaders |-> NoReader]

-----------------------------------------------------------------------------
(* Mutant: a tail inside the new record is advanced once. *)
AdvancedOnce(tail, dst, end) ==
  IF tail >= dst /\ tail < end THEN dlog_data[tail].next ELSE tail

(* The loops of lines 64 and 80: the first record from tail on, in the order *)
(* of the links, that does not begin inside the new one.  The new record     *)
(* covers at most MaxEntry headers.                                          *)
Advanced(tail, dst, end) ==
  LET step[n \in 0 .. MaxEntry] ==
        IF n = 0 THEN tail
        ELSE IF step[n - 1] >= dst /\ step[n - 1] < end
               THEN dlog_data[step[n - 1]].next
               ELSE step[n - 1]
  IN step[MaxEntry]

(* Lines 57-60. *)
NextHead(end) == IF end + MaxEntry > LogSize THEN 0 ELSE end

dlog_write(sz) ==
  LET dst == dlog_head
      end == dlog_head + sz
  IN /\ dlog_count < MaxRecords
     /\ dlog_count' = dlog_count + 1
     /\ dlog_tail' = IF dlog_head # dlog_tail THEN Advanced(dlog_tail, dst, end) ELSE dlog_tail
     /\ rdr' = [r \in LogReaders |->
                  IF ~rdr[r].open THEN rdr[r]
                  ELSE [rdr[r] EXCEPT
                          !.tail = IF @ = dlog_head THEN dst ELSE Advanced(@, dst, end),
                          !.signaled = TRUE,
                          !.moved = Advanced(rdr[r].tail, dst, end) # rdr[r].tail
                                    /\ rdr[r].tail # dlog_head]]
     /\ dlog_data' = [o \in LogOffset |->
                        IF o = dst THEN [next |-> NextHead(end), id |-> dlog_count + 1]
                        ELSE IF o > dst /\ o < end THEN NoRecord
                        ELSE dlog_data[o]]
     /\ dlog_head' = NextHead(end)

(* Mutant: every read clears the event. *)
dlog_read_etcClears(r, copied) ==
  /\ rdr[r].open /\ ~rdr[r].waits
  /\ rdr[r].tail # dlog_head
  /\ LET rec == dlog_data[rdr[r].tail]
     IN rdr' = [rdr EXCEPT ![r].tail = rec.next,
                           ![r].last = IF copied THEN rec.id ELSE @,
                           ![r].signaled = FALSE,
                           ![r].moved = FALSE]
  /\ UNCHANGED <<dlog_head, dlog_tail, dlog_data, dlog_count>>

(* dlog_read_etc with records to read.  A record that cannot be copied to    *)
(* the user's buffer is passed over; when the buffer is too small nothing    *)
(* changes.                                                                  *)
dlog_read_etc(r, copied) ==
  /\ rdr[r].open /\ ~rdr[r].waits
  /\ rdr[r].tail # dlog_head
  /\ LET rec == dlog_data[rdr[r].tail]
     IN rdr' = [rdr EXCEPT ![r].tail = rec.next,
                           ![r].last = IF copied THEN rec.id ELSE @,
                           ![r].signaled = @ /\ rec.next # dlog_head,
                           ![r].moved = FALSE]
  /\ UNCHANGED <<dlog_head, dlog_tail, dlog_data, dlog_count>>

(* Without any: the owner calls dlog_wait (debuglog_reader, and ReadFromUser *)
(* with MX_LOG_FLAG_WAIT). *)
dlog_wait(r) ==
  /\ rdr[r].open /\ ~rdr[r].waits
  /\ rdr[r].tail = dlog_head
  /\ rdr' = [rdr EXCEPT ![r].waits = TRUE]
  /\ UNCHANGED <<dlog_head, dlog_tail, dlog_data, dlog_count>>

DlogWoken(r) ==
  /\ rdr[r].waits /\ rdr[r].signaled
  /\ rdr' = [rdr EXCEPT ![r].waits = FALSE]
  /\ UNCHANGED <<dlog_head, dlog_tail, dlog_data, dlog_count>>

dlog_reader_init(r) ==
  /\ ~rdr[r].open
  /\ rdr' = [rdr EXCEPT ![r] = [NoReader EXCEPT !.open = TRUE, !.tail = dlog_tail,
                                                !.signaled = dlog_head # dlog_tail]]
  /\ UNCHANGED <<dlog_head, dlog_tail, dlog_data, dlog_count>>

dlog_reader_destroy(r) ==
  /\ rdr[r].open /\ ~rdr[r].waits
  /\ rdr' = [rdr EXCEPT ![r] = NoReader]
  /\ UNCHANGED <<dlog_head, dlog_tail, dlog_data, dlog_count>>

DebugLogNext ==
  \/ \E sz \in 1 .. MaxEntry : dlog_write(sz)
  \/ \E r \in LogReaders :
       \/ \E copied \in BOOLEAN : dlog_read_etc(r, copied)
       \/ dlog_wait(r) \/ DlogWoken(r)
       \/ dlog_reader_init(r) \/ dlog_reader_destroy(r)

DebugLogSpec == DebugLogInit /\ [][DebugLogNext]_dlogVars

-----------------------------------------------------------------------------
(* Properties. *)

(* The n-th record from offset tail on. *)
LogWalk(tail) ==
  LET at[n \in 0 .. LogSize] == IF n = 0 THEN tail ELSE dlog_data[at[n - 1]].next
  IN at

(* From tail the links lead to the head over records that were not written   *)
(* over, with consecutive numbers, and the last one is the newest: a walk    *)
(* never interprets bytes of a text as a header.                             *)
LeadsToHead(tail) ==
  \/ tail = dlog_head
  \/ \E n \in 1 .. LogSize :
       LET at == LogWalk(tail)
       IN /\ at[n] = dlog_head
          /\ \A i \in 0 .. n - 1 : dlog_data[at[i]].id = dlog_count - (n - 1 - i)
          /\ dlog_data[at[0]].id > 0

(* However far the writers lap the readers, and however the sizes of the     *)
(* records fall, the log's tail and every reader's tail stand on a record    *)
(* that is still whole, and a reader gets only records newer than the ones   *)
(* it has had.  A record of any size fits at the head.                       *)
DlogTailsSound ==
  /\ dlog_head + MaxEntry <= LogSize
  /\ LeadsToHead(dlog_tail)
  /\ \A r \in LogReaders :
       rdr[r].open =>
         /\ LeadsToHead(rdr[r].tail)
         /\ rdr[r].tail # dlog_head => dlog_data[rdr[r].tail].id > rdr[r].last

(* A reader whose event is not signalled has nothing to read: none sleeps in *)
(* dlog_wait with a record in its view.                                      *)
DlogWakes ==
  \A r \in LogReaders :
    rdr[r].open /\ ~rdr[r].signaled => rdr[r].tail = dlog_head

(* The comment of line 77: "If we're about to overwrite the message at the   *)
(* reader's tail, advance that tail. This will never cause the reader view   *)
(* to be "empty"."  A reader whose tail was advanced has something to read.  *)
DlogViewKept ==
  \A r \in LogReaders : rdr[r].moved => rdr[r].tail # dlog_head
=============================================================================
