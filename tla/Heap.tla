-------------------------------- MODULE Heap --------------------------------
(***************************************************************************)
(* The kernel heap (kernel/lib/heap/cmpctmalloc/cmpctmalloc.c): memory     *)
(* from the page allocator is cut into areas that know their size and the  *)
(* area on their left; free areas are linked in buckets by size.           *)
(*                                                                         *)
(* Sizes and addresses are in units of 8 bytes, so a header is 2 units and *)
(* a free_t is 4.  A heap is a record: hdr maps the address of an area to  *)
(* its header, lists a bucket to its free list, and os is the set of pages *)
(* the heap owns.  Every operation holds theheap.lock, except where a step *)
(* of cmpct_memalign ends.                                                 *)
(***************************************************************************)
EXTENDS Integers, FiniteSets, Sequences, SequencesExt

CONSTANTS PageUnits,   \* PAGE_SIZE
          GrowUnits,   \* HEAP_GROW_SIZE, a multiple of PAGE_SIZE
          LargeUnits,  \* 1 << HEAP_ALLOC_VIRTUAL_BITS
          Pages,       \* 0 .. n: the pages the page allocator has
          AllocSizes,  \* sizes that are asked for
          Alignments,  \* alignments that are asked for
          MaxLive,     \* bound on the allocations at a time
          MaxHeapSize  \* bound on theheap.size, which a failed growth adds to

(* What a growth adds to the size asked for is less than a step between the  *)
(* largest buckets.                                                          *)
ASSUME HeapUnitsAssumption == 8 * PageUnits <= LargeUnits /\ GrowUnits % PageUnits = 0

VARIABLES heap,        \* theheap and the memory it owns
          live,        \* allocations: header address -> size asked for and use
          bad          \* "NULL used": memory at NULL was written; "mis-sized": see Trimmed

heapVars == <<heap, live, bad>>

Nil == -1
Header == 2
FreeArea == 4
RoundUp(n, m) == ((n + m - 1) \div m) * m
RoundDown(n, m) == (n \div m) * m
Larger(a, b) == IF a > b THEN a ELSE b
Smaller(a, b) == IF a < b THEN a ELSE b

-----------------------------------------------------------------------------
(* Buckets. *)

Log2(n) == CHOOSE k \in 0 .. 20 : 2^k <= n /\ n < 2^(k + 1)

(* size_to_index_helper, with the adjustment in units: bucket and size. *)
size_to_index_helper(units, adjust, increment) ==
  IF units <= 16
    THEN [index |-> units - 1, size |-> Larger(units, FreeArea - Header)]
    ELSE LET size == (units + adjust) * 8
             row == Log2(size) - 3
             row_column == row * 8 + ((size \div 2^row) % 8) + increment
         IN [index |-> row_column + 15 - 32,
             size |-> ((8 + (row_column % 8)) * 2^(row_column \div 8)) \div 8]

(* Mutant: sizes that are not a bucket's are not rounded up. *)
size_to_index_allocatingDown(units) == size_to_index_helper(units, 0, 0)
size_to_index_allocating(units) == size_to_index_helper(units, -1, 1)
size_to_index_freeing(units) == size_to_index_helper(units, 0, 0).index

Buckets == 0 .. size_to_index_freeing(LargeUnits)

-----------------------------------------------------------------------------
(* Areas. *)

create_free_area(h, a, left, size) ==
  [h EXCEPT !.hdr = [x \in DOMAIN @ \cup {a} |->
                       IF x = a THEN [left |-> left, size |-> size, free |-> TRUE] ELSE @[x]],
            !.lists[size_to_index_freeing(size - Header)] = <<a>> \o @,
            !.remaining = @ + size]

create_allocation_header(h, a, size, left) ==
  [h EXCEPT !.hdr = [x \in DOMAIN @ \cup {a} |->
                       IF x = a THEN [left |-> left, size |-> size, free |-> FALSE] ELSE @[x]]]

unlink_free(h, a) ==
  [h EXCEPT !.lists[size_to_index_freeing(h.hdr[a].size - Header)] = Remove(@, a),
            !.remaining = @ - h.hdr[a].size]

FixLeftPointer(h, right, new_left) == [h EXCEPT !.hdr[right].left = new_left]

right_header(h, a) == a + h.hdr[a].size

(* An area that is now part of another one. *)
Forget(h, as) == [h EXCEPT !.hdr = [x \in DOMAIN @ \ as |-> @[x]]]

PagesFrom(a, size) == (a \div PageUnits) .. ((a + size) \div PageUnits - 1)

(* free_memory: an area that is all of what the page allocator gave is given *)
(* back to it.                                                               *)
free_memory(h, a, left, size) ==
  IF /\ left % PageUnits = 0 /\ h.hdr[left].left = Nil
     /\ h.hdr[a + size].size = 0
    THEN LET all == size + h.hdr[left].size + Header
         IN [Forget(h, {left, a, a + size}) EXCEPT !.os = @ \ PagesFrom(left, all), !.size = @ - all]
    ELSE create_free_area(h, a, left, size)

-----------------------------------------------------------------------------
(* Growing. *)

GrossSize(size) == RoundUp(size + 2 * Header, PageUnits)

(* page_alloc: the first run of free pages of that size, if there is one. *)
Runs(h, gross) ==
  LET fits == {p \in Pages : LET run == PagesFrom(p * PageUnits, gross)
                             IN run \subseteq Pages /\ run \cap h.os = {}}
  IN {p \in fits : \A q \in fits : p <= q}

(* The sentinels that add_to_heap puts around what was allocated. *)
Sentinels(h, base, gross) ==
  create_allocation_header(
    create_allocation_header([h EXCEPT !.os = @ \cup PagesFrom(base, gross), !.size = @ + gross],
                             base, Header, Nil),
    base + gross - Header, 0, base + Header)

heap_grow(h, size, page) ==
  LET gross == GrossSize(size)
      base == page * PageUnits
  IN create_free_area(Sentinels(h, base, gross), base + Header, base, gross - 2 * Header)

EmptyHeap == [hdr |-> [x \in {} |-> Nil], lists |-> [b \in Buckets |-> <<>>],
              remaining |-> 0, size |-> 0, os |-> {}, wide |-> FALSE]

(* cmpct_init. *)
HeapInit ==
  /\ heap = heap_grow(EmptyHeap, GrowUnits - 2 * Header, 0)
  /\ live = [x \in {} |-> Nil]
  /\ bad = "none"

-----------------------------------------------------------------------------
(* cmpct_alloc. *)

NonEmpty(h, start) == {b \in Buckets : b >= start /\ h.lists[b] # <<>>}

(* The first bucket at or after start that has an area, which holds the size *)
(* rounded_up; what is left over becomes an area if it is large enough.      *)
Carve(h, size, start, rounded_up) ==
  LET bucket == CHOOSE b \in NonEmpty(h, start) : \A c \in NonEmpty(h, start) : b <= c
      head == h.lists[bucket][1]
      left_over == h.hdr[head].size - rounded_up
      right == right_header(h, head)
      rest == head + rounded_up
      taken == unlink_free(h, head)
      split == left_over >= FreeArea /\ left_over * 8 > (size * 8) \div 64
  IN [addr |-> head,
      heap |-> IF split
        THEN create_allocation_header(
               FixLeftPointer(create_free_area(taken, rest, head, left_over), right, rest),
               head, rounded_up, h.hdr[head].left)
        ELSE create_allocation_header(taken, head, h.hdr[head].size, h.hdr[head].left)]

(* The sizes by which growing is tried, and which the page allocator cannot  *)
(* give: theheap.size counts them all the same.                              *)
RECURSIVE GrowTries(_, _, _)
GrowTries(h, growby, rounded_up) ==
  IF Runs(h, GrossSize(growby)) # {}
    THEN [heap |-> h, growby |-> growby]
    ELSE LET failed == [h EXCEPT !.size = @ + GrossSize(growby)]
         IN IF growby <= rounded_up
              THEN [heap |-> failed, growby |-> 0]
              ELSE GrowTries(failed, Larger(growby \div 2, rounded_up), rounded_up)

(* large_alloc: the area takes all of what the page allocator gives. *)
LargeAllocs(h, size) ==
  LET gross == GrossSize(size)
  IN IF Runs(h, gross) = {}
       THEN {[addr |-> Nil, heap |-> [h EXCEPT !.size = @ + gross]]}
       ELSE {LET base == p * PageUnits
             IN [addr |-> base + Header,
                 heap |-> create_allocation_header(Sentinels(h, base, gross), base + Header,
                                                   gross - 2 * Header, base)] : p \in Runs(h, gross)}

(* The address, or Nil, and the heap that cmpct_alloc may leave. *)
Allocs(h, size) ==
  IF size + Header > LargeUnits THEN LargeAllocs(h, size)
  ELSE LET at == size_to_index_allocating(size)
           rounded_up == at.size + Header
           growby == Smaller(LargeUnits, Larger(h.size \div 8, Larger(GrowUnits, rounded_up)))
           tried == GrowTries(h, growby, rounded_up)
       IN IF NonEmpty(h, at.index) # {} THEN {Carve(h, size, at.index, rounded_up)}
          ELSE IF tried.growby = 0 THEN {[addr |-> Nil, heap |-> tried.heap]}
          ELSE {Carve(heap_grow(tried.heap, tried.growby, p), size, at.index, rounded_up) :
                  p \in Runs(h, GrossSize(tried.growby))}

Takes(a, size, use, align) ==
  live' = IF a = Nil THEN live
          ELSE [x \in DOMAIN live \cup {a} |->
                  IF x = a THEN [size |-> size, use |-> use, align |-> align] ELSE live[x]]

cmpct_alloc(size) ==
  /\ Cardinality(DOMAIN live) < MaxLive /\ heap.size <= MaxHeapSize
  /\ \E r \in Allocs(heap, size) : heap' = r.heap /\ Takes(r.addr, size, "user", 1)
  /\ UNCHANGED bad

-----------------------------------------------------------------------------
(* cmpct_memalign, which does not notice that the allocation has failed. *)

cmpct_memalign(size, align) ==
  /\ Cardinality(DOMAIN live) + 1 < MaxLive /\ heap.size <= MaxHeapSize
  /\ \E r \in Allocs(heap, size + align + FreeArea + Header) :
       /\ heap' = r.heap /\ Takes(r.addr, size, "padded", align)
       /\ bad' = IF r.addr = Nil THEN "NULL used" ELSE bad

(* The lock is taken again: the allocation is cut where the alignment wants  *)
(* it, and what is before it remains to be freed.                            *)
Align(a) ==
  LET unaligned == a + Header
      payload == RoundUp(unaligned + FreeArea + Header, live[a].align)
      h == payload - Header
      left_over == payload - unaligned
      right == right_header(heap, a)
      cut == create_allocation_header(heap, h, heap.hdr[a].size - left_over, a)
  IN /\ live[a].use = "padded"
     /\ heap' = [FixLeftPointer(cut, right, h) EXCEPT !.hdr[a].size = left_over]
     /\ live' = [x \in DOMAIN live \cup {h} |->
                   IF x = h THEN [live[a] EXCEPT !.use = "user"]
                   ELSE IF x = a THEN [live[a] EXCEPT !.use = "prefix", !.size = 0]
                   ELSE live[x]]
     /\ UNCHANGED bad

-----------------------------------------------------------------------------
(* cmpct_free, of a payload or of what cmpct_memalign has cut off. *)

(* Mutant: the area after two that are joined keeps its left pointer. *)
FreedUnfixed(h, a) ==
  LET left == h.hdr[a].left
      right == right_header(h, a)
      l == IF h.hdr[left].free THEN left ELSE a
      r == IF h.hdr[right].free THEN right_header(h, right) ELSE right
      h1 == IF l = left THEN unlink_free(h, left) ELSE h
      h2 == IF r # right THEN unlink_free(h1, right) ELSE h1
  IN free_memory(Forget(h2, {l, a, right} \ {r}), l, h.hdr[l].left, r - l)

(* Joined with the free area on its left, or on its right, or both. *)
Freed(h, a) ==
  LET left == h.hdr[a].left
      right == right_header(h, a)
      l == IF h.hdr[left].free THEN left ELSE a
      r == IF h.hdr[right].free THEN right_header(h, right) ELSE right
      h1 == IF l = left THEN unlink_free(h, left) ELSE h
      h2 == IF r # right THEN unlink_free(h1, right) ELSE h1
      h3 == IF l # a \/ r # right THEN FixLeftPointer(h2, r, l) ELSE h2
  IN free_memory(Forget(h3, {l, a, right} \ {r}), l, h.hdr[l].left, r - l)

(* cmpct_memalign returns a payload when what is before it has been freed. *)
Returned(a) ==
  /\ live[a].use = "user"
  /\ \A x \in DOMAIN live : live[x].use = "prefix" => heap.hdr[a].left # x

cmpct_free(a) ==
  /\ Returned(a) \/ live[a].use = "prefix"
  /\ heap' = Freed(heap, a)
  /\ live' = [x \in DOMAIN live \ {a} |-> live[x]]
  /\ UNCHANGED bad

(* cmpct_realloc, which does not notice it either. *)
cmpct_realloc(a, size) ==
  /\ Returned(a) /\ heap.size <= MaxHeapSize
  /\ \E r \in Allocs(heap, size) :
       IF r.addr = Nil
         THEN bad' = "NULL used" /\ UNCHANGED <<heap, live>>
         ELSE /\ heap' = Freed(r.heap, a)
              /\ live' = [x \in (DOMAIN live \ {a}) \cup {r.addr} |->
                            IF x = r.addr THEN [size |-> size, use |-> "user", align |-> 1]
                            ELSE live[x]]
              /\ UNCHANGED bad

-----------------------------------------------------------------------------
(* cmpct_trim. *)

(* The pages at the end of an area that ends what the page allocator gave. *)
TrimEnd(h, a) ==
  LET right == right_header(h, a)
      end == RoundUp(a + Header + FreeArea, PageUnits)
      freed_up == RoundUp(right, PageUnits) - end
      size == h.hdr[a].size - freed_up
      cut == create_allocation_header(Forget(unlink_free(h, a), {a, right}), a + size, 0, a)
  IN IF freed_up = 0 THEN h
     ELSE [create_free_area(cut, a, h.hdr[a].left, size) EXCEPT
             !.os = @ \ PagesFrom(end, freed_up), !.size = @ - freed_up]

(* The pages at the start of an area that starts what it gave.  An area that *)
(* would be too small is made part of the sentinel.  The space of the old    *)
(* sentinel is taken to be that of a header, which is wrong when it was      *)
(* itself made wider: wide says so.                                          *)
TrimStart(h, a) ==
  LET right == right_header(h, a)
      old == RoundDown(a, PageUnits)
      new == RoundDown(right - Header, PageUnits)
      freed_up == new - old
      left_size == h.hdr[a].size - freed_up
      keeps == left_size >= FreeArea
      sentinel == IF keeps THEN Header ELSE Header + left_size
      h1 == create_allocation_header(Forget(unlink_free(h, a), {a, h.hdr[a].left}), new, sentinel, Nil)
      h2 == IF keeps
              THEN FixLeftPointer(create_free_area(h1, new + sentinel, new, left_size),
                                  right, new + sentinel)
              ELSE FixLeftPointer(h1, right, new)
  IN IF freed_up = 0 THEN h
     ELSE [h2 EXCEPT !.os = @ \ PagesFrom(old, freed_up), !.size = @ - freed_up,
                     !.wide = @ \/ h.hdr[h.hdr[a].left].size # Header]

Trimmed(h, a) ==
  IF h.hdr[right_header(h, a)].size = 0 THEN TrimEnd(h, a)
  ELSE IF h.hdr[h.hdr[a].left].left = Nil THEN TrimStart(h, a)
  ELSE h

(* Every area in the buckets from a page's on; a trimmed one gets smaller    *)
(* and is not met again.                                                     *)
LargeAreas(h) ==
  LET first == size_to_index_freeing(PageUnits)
      listed[b \in first - 1 .. size_to_index_freeing(LargeUnits)] ==
        IF b < first THEN <<>> ELSE listed[b - 1] \o h.lists[b]
  IN listed[size_to_index_freeing(LargeUnits)]

cmpct_trim ==
  /\ heap' = FoldLeft(Trimmed, heap, LargeAreas(heap))
  /\ bad' = IF heap'.wide THEN "mis-sized" ELSE bad
  /\ UNCHANGED live

HeapNext ==
  /\ bad = "none"
  /\ \/ \E size \in AllocSizes :
          \/ cmpct_alloc(size)
          \/ \E align \in Alignments : cmpct_memalign(size, align)
          \/ \E a \in DOMAIN live : cmpct_realloc(a, size)
     \/ \E a \in DOMAIN live : Align(a) \/ cmpct_free(a)
     \/ cmpct_trim

HeapSpec == HeapInit /\ [][HeapNext]_heapVars

-----------------------------------------------------------------------------
(* Properties. *)

Starts == {a \in DOMAIN heap.hdr : heap.hdr[a].left = Nil}
FreeAreas == {a \in DOMAIN heap.hdr : heap.hdr[a].free}

(* The headers describe the memory of the heap exactly: the areas follow one *)
(* another without a gap over the pages it owns, each knows the one on its   *)
(* left, no two free ones are neighbours, and the free ones are those in the *)
(* buckets, each once and in the one for its size.                           *)
HeapExact ==
  LET h == heap.hdr
      sized == {a \in DOMAIN h : h[a].size > 0}
  IN /\ \A a \in sized : /\ a + h[a].size \in DOMAIN h
                         /\ h[a + h[a].size].left = a
                         /\ ~(h[a].free /\ h[a + h[a].size].free)
     /\ \A a \in DOMAIN h \ Starts : h[a].left \in sized
     /\ Cardinality(heap.os) * PageUnits =
          MapThenSumSet(LAMBDA a : IF h[a].size = 0 THEN Header ELSE h[a].size, DOMAIN h)
     /\ \A a \in Starts : a % PageUnits = 0 /\ ~h[a].free
     /\ heap.remaining = MapThenSumSet(LAMBDA a : h[a].size, FreeAreas)
     /\ FreeAreas = UNION {ToSet(heap.lists[b]) : b \in Buckets}
     /\ \A b \in Buckets : IsInjective(heap.lists[b])
     /\ \A a \in FreeAreas : a \in ToSet(heap.lists[size_to_index_freeing(h[a].size - Header)])

(* An allocation is an area of its own, large enough and aligned as asked,   *)
(* and every other area is free or a sentinel.                               *)
AllocationsSound ==
  /\ \A a \in DOMAIN live :
       /\ a \in DOMAIN heap.hdr /\ ~heap.hdr[a].free
       /\ heap.hdr[a].size >= live[a].size + Header
       /\ live[a].use = "user" => (a + Header) % live[a].align = 0
  /\ \A a \in DOMAIN heap.hdr :
       a \in DOMAIN live \/ heap.hdr[a].free \/ heap.hdr[a].size = 0 \/ heap.hdr[a].left = Nil

(* Memory without an allocation in it does not stay in the heap, except for  *)
(* what cmpct_init put there.  ("No trim needed when the entire OS           *)
(* allocation is free", cmpct_test_return_to_os.)                            *)
EmptyMemoryReturned ==
  \A a \in Starts : LET f == right_header(heap, a)
                    IN heap.hdr[f].free /\ heap.hdr[right_header(heap, f)].size = 0 => a = 0

(* All of these, until an area behind a sentinel that was made wider is      *)
(* trimmed (see TrimStart).                                                  *)
HeapSound == bad # "mis-sized" => HeapExact /\ AllocationsSound /\ EmptyMemoryReturned

(* A sentinel ends where the first area begins, so that what free_to_os is   *)
(* called with is all of the pages: DEBUG_ASSERT(IS_PAGE_ALIGNED(size)).     *)
SentinelsReachAreas ==
  \A a \in Starts : /\ right_header(heap, a) \in DOMAIN heap.hdr
                    /\ heap.hdr[right_header(heap, a)].left = a
=============================================================================
