-------------------------------- MODULE P2ra --------------------------------
(***************************************************************************)
(* The allocator of ranges of interrupt vectors whose sizes are powers of  *)
(* two (kernel/lib/pow2_range_allocator).  Every operation holds           *)
(* state->lock, so each is one action; an operation that runs out of       *)
(* memory on the way is an action of its own.                              *)
(*                                                                         *)
(* A block is [start, bucket], and covers 2^bucket numbers.  A list of     *)
(* free blocks sorted by start is the set of its blocks.                   *)
(***************************************************************************)
EXTENDS Naturals, FiniteSets

CONSTANTS MaxBucket,   \* bucket_count - 1
          Ranges       \* the <<start, length>> that p2ra_add_range is given

VARIABLES ranges,      \* state->ranges
          free_blocks, \* the blocks of state->free_block_buckets
          allocated,   \* state->allocated_blocks
          unused,      \* the length of state->unused_blocks
          asserted     \* an assertion of p2ra_return_free_block failed

p2raVars == <<ranges, free_blocks, allocated, unused, asserted>>

P2raInit ==
  /\ ranges = {} /\ free_blocks = {} /\ allocated = {}
  /\ unused = 0 /\ asserted = FALSE

Numbers(b) == b.start .. b.start + 2^b.bucket - 1
RangeNumbers(r) == r[1] .. r[1] + r[2] - 1
Less(a, b) == IF a > b THEN a - b ELSE 0

-----------------------------------------------------------------------------
Buddy(b) ==
  [b EXCEPT !.start = IF (@ \div 2^b.bucket) % 2 = 1 THEN @ - 2^b.bucket ELSE @ + 2^b.bucket]

Merged(b) ==
  [start |-> IF (b.start \div 2^b.bucket) % 2 = 1 THEN b.start - 2^b.bucket ELSE b.start,
   bucket |-> b.bucket + 1]

(* Mutant: a merged block is not merged again. *)
p2ra_return_free_blockOnce(s, b) ==
  IF b.bucket = MaxBucket \/ Buddy(b) \notin s.free
    THEN [s EXCEPT !.free = @ \cup {b}]
    ELSE [free |-> (s.free \ {Buddy(b)}) \cup {Merged(b)},
          unused |-> s.unused + 1, merged |-> TRUE]

RECURSIVE p2ra_return_free_block(_, _)
(* The free blocks, the unused ones and whether there was a merge, after     *)
(* block b is returned.                                                      *)
p2ra_return_free_block(s, b) ==
  IF b.bucket = MaxBucket \/ Buddy(b) \notin s.free
    THEN [s EXCEPT !.free = @ \cup {b}]
    ELSE p2ra_return_free_block(
           [free |-> s.free \ {Buddy(b)}, unused |-> s.unused + 1, merged |-> TRUE],
           Merged(b))

(* The blocks that a range is broken into: always the largest one that is    *)
(* aligned and fits in what is left.                                         *)
RECURSIVE Chunks(_, _)
Chunks(start, len) ==
  IF len = 0 THEN {}
  ELSE LET k == CHOOSE k \in 0 .. MaxBucket :
                  /\ start % 2^k = 0 /\ 2^k <= len
                  /\ \A m \in k + 1 .. MaxBucket : ~(start % 2^m = 0 /\ 2^m <= len)
       IN {[start |-> start, bucket |-> k]} \cup Chunks(start + 2^k, len - 2^k)

RECURSIVE ReturnAll(_, _)
ReturnAll(s, blocks) ==
  IF blocks = {} THEN s
  ELSE LET b == CHOOSE b \in blocks : \A c \in blocks : b.start <= c.start
       IN ReturnAll(p2ra_return_free_block(s, b), blocks \ {b})

(* A range is added.  No merge is expected. *)
p2ra_add_range(r) ==
  /\ \A q \in ranges : RangeNumbers(q) \cap RangeNumbers(r) = {}
  /\ ranges' = ranges \cup {r}
  /\ LET blocks == Chunks(r[1], r[2])
         s == ReturnAll([free |-> free_blocks,
                         unused |-> Less(unused, Cardinality(blocks)),
                         merged |-> FALSE], blocks)
     IN free_blocks' = s.free /\ unused' = s.unused /\ asserted' = s.merged
  /\ UNCHANGED allocated

(* Or memory for its blocks runs out: the ones there were are freed. *)
AddRangeFails(r) ==
  /\ \A q \in ranges : RangeNumbers(q) \cap RangeNumbers(r) = {}
  /\ Cardinality(Chunks(r[1], r[2])) > unused
  /\ unused' = 0
  /\ UNCHANGED <<ranges, free_blocks, allocated, asserted>>

(* The smallest block that is large enough, and the first of these. *)
Found(bucket) ==
  {b \in free_blocks :
     /\ b.bucket >= bucket
     /\ \A c \in free_blocks :
          c.bucket >= bucket =>
            c.bucket > b.bucket \/ (c.bucket = b.bucket /\ c.start >= b.start)}

(* The upper halves that come off when block b is split n times. *)
Halves(b, n) ==
  {[start |-> b.start + 2^(b.bucket - i), bucket |-> b.bucket - i] : i \in 1 .. n}

p2ra_allocate_range(bucket) ==
  \E b \in Found(bucket) :
    LET n == b.bucket - bucket
    IN /\ free_blocks' = (free_blocks \ {b}) \cup Halves(b, n)
       /\ allocated' = allocated \cup {[b EXCEPT !.bucket = bucket]}
       /\ unused' = Less(unused, n)
       /\ UNCHANGED <<ranges, asserted>>

(* Mutant: the block that was not split is lost. *)
AllocateFailsLeaks(bucket, n) ==
  \E b \in Found(bucket) :
    /\ n < b.bucket - bucket /\ unused <= n
    /\ free_blocks' = (free_blocks \ {b}) \cup Halves(b, n)
    /\ unused' = 0
    /\ UNCHANGED <<ranges, allocated, asserted>>

(* After n splits there is no memory for the next: what is left of the block *)
(* goes back.                                                                *)
AllocateFails(bucket, n) ==
  \E b \in Found(bucket) :
    /\ n < b.bucket - bucket /\ unused <= n
    /\ LET s == p2ra_return_free_block(
                  [free |-> (free_blocks \ {b}) \cup Halves(b, n), unused |-> 0,
                   merged |-> FALSE],
                  [b EXCEPT !.bucket = @ - n])
       IN free_blocks' = s.free /\ unused' = s.unused
    /\ UNCHANGED <<ranges, allocated, asserted>>

p2ra_free_range(b) ==
  /\ b \in allocated
  /\ allocated' = allocated \ {b}
  /\ LET s == p2ra_return_free_block(
                [free |-> free_blocks, unused |-> unused, merged |-> FALSE], b)
     IN free_blocks' = s.free /\ unused' = s.unused
  /\ UNCHANGED <<ranges, asserted>>

(* p2ra_free, when everything has been given back, and p2ra_init. *)
p2ra_free ==
  /\ allocated = {} /\ ranges # {}
  /\ ranges' = {} /\ free_blocks' = {} /\ unused' = 0
  /\ UNCHANGED <<allocated, asserted>>

P2raNext ==
  /\ ~asserted
  /\ \/ \E r \in Ranges : p2ra_add_range(r) \/ AddRangeFails(r)
     \/ \E bucket \in 0 .. MaxBucket :
          \/ p2ra_allocate_range(bucket)
          \/ \E n \in 0 .. MaxBucket : AllocateFails(bucket, n)
     \/ \E b \in allocated : p2ra_free_range(b)
     \/ p2ra_free

P2raSpec == P2raInit /\ [][P2raNext]_p2raVars

-----------------------------------------------------------------------------
(* Properties. *)

(* The free and the allocated blocks cover the ranges exactly, without       *)
(* overlap and aligned to their size, whatever was split, merged or failed   *)
(* half way: no number is given out twice or lost.                           *)
P2raPartition ==
  LET blocks == free_blocks \cup allocated
  IN /\ free_blocks \cap allocated = {}
     /\ \A b \in blocks : b.start % 2^b.bucket = 0
     /\ \A b, c \in blocks : b # c => Numbers(b) \cap Numbers(c) = {}
     /\ UNION {Numbers(b) : b \in blocks} = UNION {RangeNumbers(r) : r \in ranges}

(* An allocation is refused for lack of numbers only when there is no        *)
(* aligned run of that size with every number free: what belongs together    *)
(* was merged.                                                               *)
P2raMerges ==
  LET free == UNION {Numbers(b) : b \in free_blocks}
  IN ~asserted =>
       \A bucket \in 0 .. MaxBucket : \A start \in free :
         start % 2^bucket = 0 /\ start .. start + 2^bucket - 1 \subseteq free
           => \E b \in free_blocks : b.bucket >= bucket
=============================================================================
