-------------------------------- MODULE Cbuf --------------------------------
(***************************************************************************)
(* The circular buffer of the console and the UARTs (kernel/lib/cbuf): a   *)
(* ring of CbufSize bytes, one of which is never used, and an event that   *)
(* is signaled while there is something to read.                           *)
(*                                                                         *)
(* Everything is done under cbuf->lock, except that a reader that blocks   *)
(* waits for the event first, without it, and may find the buffer empty.   *)
(* A byte is its number in the stream.                                     *)
(***************************************************************************)
EXTENDS Naturals, Sequences, FiniteSets

CONSTANTS CbufSize,     \* valpow2(len_pow2)
          MaxCbufBytes, \* bound on the bytes ever written
          CbufReaders   \* threads that read

VARIABLES cb,           \* head, tail and buf, and the number of bytes written
          cb_signaled,  \* event.signalled
          cb_reader,    \* where each reader is: "out", "wait", "asleep", "woken"
          cb_read,      \* the number of bytes that were read
          cb_overrun    \* a write took the last byte: a full ring reads as an empty one

cbufVars == <<cb, cb_signaled, cb_reader, cb_read, cb_overrun>>

CbufInit ==
  /\ cb = [head |-> 0, tail |-> 0, buf |-> [i \in 0 .. CbufSize - 1 |-> 0], written |-> 0]
  /\ cb_signaled = FALSE
  /\ cb_reader = [r \in CbufReaders |-> "out"]
  /\ cb_read = 0 /\ cb_overrun = FALSE

-----------------------------------------------------------------------------
INC_POINTER(ptr, inc) == (ptr + inc) % CbufSize
cbuf_space_used(c) == (CbufSize + c.head - c.tail) % CbufSize
cbuf_space_avail(c) == CbufSize - cbuf_space_used(c) - 1
Lesser(m, n) == IF m < n THEN m ELSE n

(* What one pass of a write or a read may copy without wrapping. *)
WriteLen(c, len) ==
  Lesser(IF c.head >= c.tail THEN CbufSize - c.head ELSE c.tail - c.head - 1, len)
ReadLen(c, len) ==
  Lesser(IF c.head > c.tail THEN c.head - c.tail ELSE CbufSize - c.tail, len)

(* n bytes copied to the head of c. *)
Stored(c, n) ==
  [c EXCEPT !.head = INC_POINTER(@, n), !.written = @ + n,
            !.buf = [i \in DOMAIN @ |-> IF i \in c.head .. c.head + n - 1
                                        THEN c.written + 1 + i - c.head ELSE @[i]]]

RECURSIVE Fill(_, _)
Fill(c, len) ==
  LET n == WriteLen(c, len)
  IN  IF len = 0 \/ cbuf_space_avail(c) = 0 \/ n = 0 THEN c ELSE Fill(Stored(c, n), len - n)

RECURSIVE Drain(_, _)
Drain(tail, len) ==
  LET n == ReadLen([cb EXCEPT !.tail = tail], len)
  IN  IF len = 0 \/ tail = cb.head THEN <<>>
      ELSE [i \in 1 .. n |-> cb.buf[tail + i - 1]] \o Drain(INC_POINTER(tail, n), len - n)

(* event_signal: all that sleep are woken. *)
Signaled(c) ==
  IF c.head = c.tail THEN UNCHANGED <<cb_signaled, cb_reader>>
  ELSE /\ cb_signaled' = TRUE
       /\ cb_reader' = [r \in CbufReaders |-> IF cb_reader[r] = "asleep" THEN "woken"
                                              ELSE cb_reader[r]]

-----------------------------------------------------------------------------
(* DEBUG_ASSERT(len < valpow2(len_pow2)). *)
cbuf_write_etc(len) ==
  /\ ~cb_overrun /\ cb.written + len <= MaxCbufBytes
  /\ LET c == Fill(cb, len)
     IN /\ cb' = c /\ Signaled(c)
        /\ cb_overrun' = (c.written - cb_read >= CbufSize)
  /\ UNCHANGED cb_read

(* Mutant: a full ring takes one more. *)
cbuf_write_charBlind ==
  /\ ~cb_overrun /\ cb.written < MaxCbufBytes
  /\ cb' = Stored(cb, 1) /\ Signaled(cb')
  /\ UNCHANGED <<cb_read, cb_overrun>>

cbuf_write_char ==
  /\ ~cb_overrun /\ cb.written < MaxCbufBytes
  /\ cbuf_space_avail(cb) > 0
  /\ cb' = Stored(cb, 1) /\ Signaled(cb')
  /\ UNCHANGED <<cb_read, cb_overrun>>

(* Mutant: the event goes down with every read. *)
TakeClears(buflen) ==
  LET got == Drain(cb.tail, buflen)
  IN /\ cb' = [cb EXCEPT !.tail = INC_POINTER(@, Len(got))]
     /\ cb_read' = cb_read + Len(got)
     /\ cb_signaled' = FALSE

(* The locked section of cbuf_read. *)
Take(buflen) ==
  LET got == Drain(cb.tail, buflen)
  IN /\ cb' = [cb EXCEPT !.tail = INC_POINTER(@, Len(got))]
     /\ cb_read' = cb_read + Len(got)
     /\ cb_signaled' = IF got # <<>> /\ cb'.tail = cb.head THEN FALSE ELSE cb_signaled

(* cbuf_read and cbuf_read_char that do not block. *)
cbuf_read(buflen) ==
  /\ ~cb_overrun
  /\ Take(buflen)
  /\ UNCHANGED <<cb_reader, cb_overrun>>

(* Those that do: event_wait. *)
BlockingRead(r) ==
  /\ ~cb_overrun /\ cb_reader[r] \in {"out", "wait"}
  /\ cb_reader' = [cb_reader EXCEPT ![r] = IF cb_signaled THEN "woken" ELSE "asleep"]
  /\ UNCHANGED <<cb, cb_signaled, cb_read, cb_overrun>>

(* The rest of them; "we apparently blocked but raced with another thread". *)
ReadWoken(r, buflen) ==
  /\ ~cb_overrun /\ cb_reader[r] = "woken"
  /\ Take(buflen)
  /\ cb_reader' = [cb_reader EXCEPT ![r] = IF cb.tail = cb.head THEN "wait" ELSE "out"]
  /\ UNCHANGED cb_overrun

CbufNext ==
  \/ cbuf_write_char
  \/ \E n \in 1 .. CbufSize - 1 :
       cbuf_write_etc(n) \/ cbuf_read(n) \/ \E r \in CbufReaders : ReadWoken(r, n)
  \/ \E r \in CbufReaders : BlockingRead(r)

CbufSpec == CbufInit /\ [][CbufNext]_cbufVars

-----------------------------------------------------------------------------
(* cbuf_peek_etc: the positions of its two regions, one after the other. *)
cbuf_peek_etc(writable) ==
  LET ret == IF writable THEN cbuf_space_avail(cb) ELSE cbuf_space_used(cb)
      pos == IF writable THEN cb.head ELSE cb.tail
      len == IF ret + pos > CbufSize THEN CbufSize - pos ELSE ret
  IN  [i \in 1 .. len |-> pos + i - 1] \o [i \in 1 .. ret - len |-> i - 1]

(* Whatever is written and read, and however both wrap, the bytes to be read *)
(* are those that were written and not read yet, in order, and the regions   *)
(* of cbuf_peek_etc are the bytes to be read and the space to be written.    *)
(* The event is signaled exactly while there is a byte, so that no reader    *)
(* sleeps over one or is sent round for nothing.  A write of no more than    *)
(* cbuf_space_avail is taken whole.  All this ends with a cbuf_write_etc of  *)
(* more than that which fills the ring from tail 0 to its last byte.         *)
CbufIntact ==
  ~cb_overrun =>
    /\ LET peek == cbuf_peek_etc(FALSE)
       IN [i \in DOMAIN peek |-> cb.buf[peek[i]]] = [i \in 1 .. cb.written - cb_read |-> cb_read + i]
    /\ LET all == cbuf_peek_etc(FALSE) \o cbuf_peek_etc(TRUE)
       IN Cardinality({all[i] : i \in DOMAIN all}) = CbufSize - 1 /\ Len(all) = CbufSize - 1
    /\ cb_signaled = (cb.head # cb.tail)
    /\ \A r \in CbufReaders : cb_reader[r] = "asleep" => ~cb_signaled
    /\ \A n \in 1 .. cbuf_space_avail(cb) :
         LET c == Fill(cb, n) IN cbuf_space_used(c) = cb.written + n - cb_read
=============================================================================
