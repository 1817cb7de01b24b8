------------------------------ MODULE VirtioRng ------------------------------
(***************************************************************************)
(* The virtio entropy driver (kernel/dev/virtio/rng): a pool in a cbuf that *)
(* the device fills by DMA.  One fill is in flight at a time; it is started *)
(* by whoever made room (hw_rng_get_entropy) or took the last one back (the *)
(* interrupt), and names the free bytes as they were when it was started.   *)
(* The readers and the interrupt run on CPUs of their own; virtio-device.c  *)
(* is external.                                                             *)
(***************************************************************************)
EXTENDS Cbuf

VARIABLES rng_in_flight, \* fill_op_in_flight
          rng_chain,     \* the bytes the submitted chain names, in order; <<>> when none
          rng_at,        \* where each reader, and Irq, is
          rng_left       \* len - done of each reader's call, and whether it blocks

Irq == "irq"
Fillers == CbufReaders \cup {Irq}

rngVars == <<rng_in_flight, rng_chain, rng_at, rng_left>>

(* virtio_rng_init: the device is ready, and the pool is about to be filled. *)
RngInit ==
  /\ CbufInit
  /\ rng_in_flight = FALSE /\ rng_chain = <<>>
  /\ rng_at = [f \in Fillers |-> IF f = Irq THEN "fill" ELSE "out"]
  /\ rng_left = [r \in CbufReaders |-> [len |-> 0, block |-> FALSE]]

-----------------------------------------------------------------------------
(* virtio_rng_fill_entropy_pool, up to the unlock.  Afterwards a reader that *)
(* blocks and has less than it wants reads again.                            *)
Filled(f) ==
  rng_at' = [rng_at EXCEPT ![f] = IF f # Irq /\ rng_left[f].block /\ rng_left[f].len > 0
                                  THEN "read" ELSE "out"]

(* Mutant: fill_op_in_flight is not looked at. *)
virtio_rng_fill_entropy_poolAgain(f) ==
  /\ rng_at[f] = "fill"
  /\ IF cbuf_space_avail(cb) = 0 THEN Filled(f) /\ UNCHANGED rng_in_flight
     ELSE /\ rng_in_flight' = TRUE
          /\ rng_at' = [rng_at EXCEPT ![f] = "submit"]
  /\ UNCHANGED <<cbufVars, rng_chain, rng_left>>

virtio_rng_fill_entropy_pool(f) ==
  /\ rng_at[f] = "fill"
  /\ IF rng_in_flight \/ cbuf_space_avail(cb) = 0 THEN Filled(f) /\ UNCHANGED rng_in_flight
     ELSE /\ rng_in_flight' = TRUE
          /\ rng_at' = [rng_at EXCEPT ![f] = "submit"]
  /\ UNCHANGED <<cbufVars, rng_chain, rng_left>>

(* The rest of it: the regions of cbuf_peek_write become the chain. *)
Submit(f) ==
  /\ rng_at[f] = "submit"
  /\ rng_chain' = cbuf_peek_etc(TRUE)
  /\ Filled(f)
  /\ UNCHANGED <<cbufVars, rng_in_flight, rng_left>>

(* The device has put used_len bytes where the chain says. *)
virtio_rng_irq(used_len) ==
  /\ rng_at[Irq] = "out" /\ used_len \in 1 .. Len(rng_chain)
  /\ rng_chain' = <<>>
  /\ cbuf_write_etc(used_len)
  /\ rng_at' = [rng_at EXCEPT ![Irq] = "clear"]
  /\ UNCHANGED <<rng_in_flight, rng_left>>

(* Mutant: nothing is started for the room made in the meantime. *)
ClearInFlightQuiet ==
  /\ rng_at[Irq] = "clear"
  /\ rng_in_flight' = FALSE
  /\ rng_at' = [rng_at EXCEPT ![Irq] = "out"]
  /\ UNCHANGED <<cbufVars, rng_chain, rng_left>>

ClearInFlight ==
  /\ rng_at[Irq] = "clear"
  /\ rng_in_flight' = FALSE
  /\ rng_at' = [rng_at EXCEPT ![Irq] = "fill"]
  /\ UNCHANGED <<cbufVars, rng_chain, rng_left>>

-----------------------------------------------------------------------------
hw_rng_get_entropy(r, len, block) ==
  /\ rng_at[r] = "out"
  /\ rng_at' = [rng_at EXCEPT ![r] = "read"]
  /\ rng_left' = [rng_left EXCEPT ![r] = [len |-> len, block |-> block]]
  /\ UNCHANGED <<cbufVars, rng_in_flight, rng_chain>>

(* A cbuf_read of it; one that blocks first waits for the event. *)
WaitForEntropy(r) ==
  /\ rng_at[r] = "read" /\ rng_left[r].block
  /\ BlockingRead(r)
  /\ UNCHANGED rngVars

ReadEntropy(r) ==
  /\ rng_at[r] = "read"
  /\ IF rng_left[r].block THEN ReadWoken(r, rng_left[r].len) ELSE cbuf_read(rng_left[r].len)
  /\ rng_left' = [rng_left EXCEPT ![r].len = @ - (cb_read' - cb_read)]
  /\ rng_at' = [rng_at EXCEPT ![r] = IF cb_reader'[r] = "wait" THEN "read" ELSE "fill"]
  /\ UNCHANGED <<rng_in_flight, rng_chain>>

RngNext ==
  \/ \E f \in Fillers : virtio_rng_fill_entropy_pool(f) \/ Submit(f)
  \/ \E n \in 1 .. CbufSize - 1 : virtio_rng_irq(n)
  \/ ClearInFlight
  \/ \E r \in CbufReaders :
       \/ \E len \in 1 .. CbufSize, block \in BOOLEAN : hw_rng_get_entropy(r, len, block)
       \/ WaitForEntropy(r)
       \/ ReadEntropy(r)

RngSpec == RngInit /\ [][RngNext]_<<cbufVars, rngVars>>

-----------------------------------------------------------------------------
(* Whoever reads while the device writes, the bytes of the chain are still   *)
(* the free ones from the head on when the interrupt comes: no unread byte   *)
(* is overwritten, and the ones cbuf_advance_write skips are the ones the    *)
(* device wrote (virtio_rng_irq's DEBUG_ASSERT is a part of this).           *)
(* fill_op_in_flight has one reason at a time.  A fill is never forgotten:   *)
(* while there is room and none is in flight, someone is about to start one, *)
(* so that a reader that sleeps has a fill ahead.                            *)
PoolFilled ==
  LET busy == {f \in Fillers : rng_at[f] \in {"submit", "clear"}}
      free == cbuf_peek_etc(TRUE)
  IN /\ ~cb_overrun
     /\ Len(rng_chain) <= Len(free) /\ \A i \in DOMAIN rng_chain : rng_chain[i] = free[i]
     /\ rng_in_flight = (busy # {} \/ rng_chain # <<>>)
     /\ Cardinality(busy) <= 1 /\ (busy # {} => rng_chain = <<>>)
     /\ cbuf_space_avail(cb) > 0 /\ ~rng_in_flight => \E f \in Fillers : rng_at[f] = "fill"
=============================================================================
