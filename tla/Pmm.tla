-------------------------------- MODULE Pmm --------------------------------
(***************************************************************************)
(* The physical page allocator (kernel/vm/pmm.cpp): arenas of consecutive  *)
(* pages in the order of their priority, each with a free list, and the    *)
(* lists of pages handed out.  Every call holds the one lock throughout.   *)
(* Addresses count pages.                                                  *)
(***************************************************************************)
EXTENDS Naturals, Sequences, FiniteSets, SequencesExt

CONSTANTS Arenas,      \* records base, size, kmap and priority
          MaxRun       \* pages asked for at once

VARIABLES arena_list, free_list, free_count,
          page_alloc,  \* pages in VM_PAGE_STATE_ALLOC
          page_lists   \* the lists of pages the callers have

pmmVars == <<arena_list, free_list, free_count, page_alloc, page_lists>>

PmmInit ==
  /\ arena_list = <<>>
  /\ free_list = [a \in Arenas |-> <<>>]
  /\ free_count = [a \in Arenas |-> 0]
  /\ page_alloc = {}
  /\ page_lists = {}

AddressesOf(a) == a.base .. a.base + a.size - 1
page_is_free(p) == p \notin page_alloc

(* Arenas are added at boot, in front of the first of a lower priority.    *)
pmm_add_arena(a) ==
  LET later == {i \in DOMAIN arena_list : arena_list[i].priority > a.priority}
      at == CHOOSE i \in later \cup {Len(arena_list) + 1} : \A j \in later : i <= j
  IN /\ a \notin ToSet(arena_list)
     /\ page_lists = {}
     /\ arena_list' = InsertAt(arena_list, at, a)
     /\ free_list' = [free_list EXCEPT ![a] = [i \in 1 .. a.size |-> a.base + i - 1]]
     /\ free_count' = [free_count EXCEPT ![a] = a.size]
     /\ UNCHANGED <<page_alloc, page_lists>>

(* The arenas an allocation may use, in order.                             *)
Usable(kmap) == SelectSeq(arena_list, LAMBDA a : kmap => a.kmap)

(* The pages of a list leave the free list of arena a for a caller.        *)
TakeUncounted(a, pages) ==
  /\ free_list' = [free_list EXCEPT ![a] = SelectSeq(@, LAMBDA p : p \notin ToSet(pages))]
  /\ free_count' = [free_count EXCEPT ![a] = @ - 1]
  /\ page_alloc' = page_alloc \cup ToSet(pages)
  /\ page_lists' = page_lists \cup {pages}
  /\ UNCHANGED arena_list

Take(a, pages) ==
  /\ free_list' = [free_list EXCEPT ![a] = SelectSeq(@, LAMBDA p : p \notin ToSet(pages))]
  /\ free_count' = [free_count EXCEPT ![a] = @ - Len(pages)]
  /\ page_alloc' = page_alloc \cup ToSet(pages)
  /\ page_lists' = page_lists \cup {pages}
  /\ UNCHANGED arena_list

(* pmm_alloc_page, and the fast path of pmm_alloc_kpages: the head of the  *)
(* first free list that has one.                                           *)
pmm_alloc_page(kmap) ==
  LET arenas == Usable(kmap)
  IN \E i \in DOMAIN arenas :
       /\ free_list[arenas[i]] # <<>>
       /\ \A j \in 1 .. i - 1 : free_list[arenas[j]] = <<>>
       /\ Take(arenas[i], <<Head(free_list[arenas[i]])>>)

(* pmm_alloc_pages: what the first arena has, up to count; when it runs    *)
(* out the call returns, and the other arenas are not asked.               *)
pmm_alloc_pages(count, kmap) ==
  LET arenas == Usable(kmap)
  IN /\ arenas # <<>> /\ free_list[arenas[1]] # <<>>
     /\ LET have == free_list[arenas[1]]
        IN Take(arenas[1], SubSeq(have, 1, IF count < Len(have) THEN count ELSE Len(have)))

(* pmm_alloc_range: the free pages from an address on, up to the end of    *)
(* the arena or the first page that is not free.  The walk goes on in the  *)
(* arenas that come later in the list, if the range goes on in one.        *)
RangeStep(st, a) ==
  LET run == {n \in 0 .. st.left :
                \A p \in st.address .. st.address + n - 1 : p \in AddressesOf(a) /\ page_is_free(p)}
      n == CHOOSE m \in run : \A l \in run : l <= m
  IN [address |-> st.address + n, left |-> st.left - n]

pmm_alloc_range(address, count) ==
  LET st == FoldLeft(RangeStep, [address |-> address, left |-> count], arena_list)
      pages == [i \in 1 .. count - st.left |-> address + i - 1]
  IN /\ pages # <<>>
     /\ free_list' = [a \in Arenas |-> SelectSeq(free_list[a], LAMBDA p : p \notin ToSet(pages))]
     /\ free_count' = [a \in Arenas |-> free_count[a] - Cardinality(ToSet(pages) \cap AddressesOf(a))]
     /\ page_alloc' = page_alloc \cup ToSet(pages)
     /\ page_lists' = page_lists \cup {pages}
     /\ UNCHANGED arena_list

ROUNDUP(n, align) == ((n + align - 1) \div align) * align

(* The search of pmm_alloc_contiguous in an arena: from start, a run that  *)
(* is broken at its i-th page starts over at the next boundary after that. *)
(* The result is an offset, or the size of the arena if there is none.     *)
FirstTaken(a, start, count) ==
  {i \in 0 .. count - 1 :
     /\ ~page_is_free(a.base + start + i)
     /\ \A j \in 0 .. i - 1 : page_is_free(a.base + start + j)}

AlignedOffset(a, align) == ROUNDUP(a.base, align) - a.base

RestartUnaligned(a, start, i, align) == start + i + 1

Restart(a, start, i, align) ==
  ROUNDUP(start - AlignedOffset(a, align) + i + 1, align) + AlignedOffset(a, align)

FindRun(a, count, align) ==
  LET search[start \in Nat] ==
        IF start + count > a.size THEN a.size
        ELSE IF FirstTaken(a, start, count) = {} THEN start
        ELSE search[Restart(a, start, CHOOSE i \in FirstTaken(a, start, count) : TRUE, align)]
  IN IF ROUNDUP(a.base, align) > a.base + a.size - 1 THEN a.size
     ELSE search[AlignedOffset(a, align)]

pmm_alloc_contiguous(count, kmap, align) ==
  LET arenas == Usable(kmap)
  IN \E i \in DOMAIN arenas :
       LET start == FindRun(arenas[i], count, align)
       IN /\ start < arenas[i].size
          /\ \A j \in 1 .. i - 1 : FindRun(arenas[j], count, align) = arenas[j].size
          /\ Take(arenas[i], [n \in 1 .. count |-> arenas[i].base + start + n - 1])

(* pmm_free: the pages of a list, each to the head of its arena's list.    *)
FreedTo(a, pages) == Reverse(SelectSeq(pages, LAMBDA p : p \in AddressesOf(a)))

pmm_free(pages) ==
  /\ pages \in page_lists
  /\ free_list' = [a \in Arenas |-> FreedTo(a, pages) \o free_list[a]]
  /\ free_count' = [a \in Arenas |-> free_count[a] + Len(FreedTo(a, pages))]
  /\ page_alloc' = page_alloc \ ToSet(pages)
  /\ page_lists' = page_lists \ {pages}
  /\ UNCHANGED arena_list

PmmNext ==
  \/ \E a \in Arenas : pmm_add_arena(a)
  \/ \E kmap \in BOOLEAN :
       \/ pmm_alloc_page(kmap)
       \/ \E n \in 1 .. MaxRun :
            \/ pmm_alloc_pages(n, kmap)
            \/ \E align \in {1, 2} : pmm_alloc_contiguous(n, kmap, align)
  \/ \E n \in 1 .. MaxRun, a \in Arenas : \E address \in AddressesOf(a) : pmm_alloc_range(address, n)
  \/ \E pages \in page_lists : pmm_free(pages)

PmmSpec == PmmInit /\ [][PmmNext]_pmmVars

-----------------------------------------------------------------------------
(* A page is on the free list of its arena, once, or in one list that a    *)
(* caller has, and free_count is the length of the free list, after any    *)
(* mixture of the ways to allocate and of frees.                           *)
PagesAccounted ==
  /\ \A i \in DOMAIN arena_list :
       LET a == arena_list[i]
       IN /\ free_count[a] = Len(free_list[a])
          /\ IsInjective(free_list[a])
          /\ ToSet(free_list[a]) = {p \in AddressesOf(a) : page_is_free(p)}
  /\ page_alloc = UNION {ToSet(l) : l \in page_lists}
  /\ \A l, m \in page_lists : l # m => ToSet(l) \cap ToSet(m) = {}

(* The search for a run finds one whenever the arena has one, and what it  *)
(* finds is free and aligned as an address, also where the arena begins    *)
(* between two boundaries.                                                 *)
RunsFound ==
  \A i \in DOMAIN arena_list, n \in 1 .. MaxRun, align \in {1, 2} :
    LET a == arena_list[i]
        runs == {s \in 0 .. a.size - 1 : /\ s + n <= a.size
                                        /\ (a.base + s) % align = 0
                                        /\ \A p \in a.base + s .. a.base + s + n - 1 : page_is_free(p)}
    IN IF runs = {} THEN FindRun(a, n, align) = a.size ELSE FindRun(a, n, align) \in runs
=============================================================================
