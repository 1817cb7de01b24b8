-------------------------------- MODULE Lists --------------------------------
(***************************************************************************)
(* The doubly linked lists of kernel/include/list.h as sequences: an       *)
(* element is linked by a node of its own, so that it is in a list once    *)
(* and is taken out without searching for it.                              *)
(***************************************************************************)
EXTENDS Integers, Sequences

InList(q, e) == \E i \in DOMAIN q : q[i] = e

NoRepeat(q) == \A i, j \in DOMAIN q : q[i] = q[j] => i = j

(* list_delete of the node of e, if it is in the list. *)
list_delete(q, e) ==
  IF InList(q, e)
    THEN LET n == CHOOSE i \in DOMAIN q : q[i] = e
         IN SubSeq(q, 1, n - 1) \o SubSeq(q, n + 1, Len(q))
    ELSE q
=============================================================================
