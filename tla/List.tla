-------------------------------- MODULE List --------------------------------
(***************************************************************************)
(* The linked list sc_list_t.  Several lists share an allocator of links   *)
(* (an sc_mempool_t), as do the slots of a hash table.                     *)
(***************************************************************************)
EXTENDS Integers, Sequences, SequencesExt

CONSTANTS Lists,   \* the lists
          Link,    \* addresses of links
          Data,    \* what the application stores
          NULL

VARIABLES heap,        \* heap[k]: data and next of the link at k
          allocated,   \* links the allocator has handed out
          first, last, elem_count

vars == <<heap, allocated, first, last, elem_count>>

(* sc_list_init                                                            *)
Init ==
  /\ heap = [k \in Link |-> [data |-> NULL, next |-> NULL]]
  /\ allocated = {}
  /\ first = [l \in Lists |-> NULL]
  /\ last = [l \in Lists |-> NULL]
  /\ elem_count = [l \in Lists |-> 0]

(* sc_mempool_alloc and sc_mempool_free, see Allocator.                    *)
Unused == Link \ allocated
Freed(k) == allocated' = allocated \ {k}

(* The list l as the sequence of its links, and of its data.               *)
Links(l) ==
  LET walk[n \in 0 .. elem_count[l]] ==
        IF n = 0 THEN <<>>
        ELSE Append(walk[n-1], IF n = 1 THEN first[l] ELSE heap[walk[n-1][n-1]].next)
  IN walk[elem_count[l]]

Contents(l) == [i \in 1 .. elem_count[l] |-> heap[Links(l)[i]].data]

-----------------------------------------------------------------------------

sc_list_prepend(l, d) ==
  \E k \in Unused :
    /\ allocated' = allocated \cup {k}
    /\ heap' = [heap EXCEPT ![k] = [data |-> d, next |-> first[l]]]
    /\ first' = [first EXCEPT ![l] = k]
    /\ last' = [last EXCEPT ![l] = IF @ = NULL THEN k ELSE @]
    /\ elem_count' = [elem_count EXCEPT ![l] = @ + 1]

sc_list_append(l, d) ==
  \E k \in Unused :
    /\ allocated' = allocated \cup {k}
    /\ IF last[l] # NULL
       THEN /\ heap' = [heap EXCEPT ![k] = [data |-> d, next |-> NULL], ![last[l]].next = k]
            /\ UNCHANGED first
       ELSE /\ heap' = [heap EXCEPT ![k] = [data |-> d, next |-> NULL]]
            /\ first' = [first EXCEPT ![l] = k]
    /\ last' = [last EXCEPT ![l] = k]
    /\ elem_count' = [elem_count EXCEPT ![l] = @ + 1]

(* Insert behind the link pred of the list.                                *)
sc_list_insert(l, pred, d) ==
  /\ pred \in Range(Links(l))
  /\ \E k \in Unused :
       /\ allocated' = allocated \cup {k}
       /\ heap' = [heap EXCEPT ![k] = [data |-> d, next |-> heap[pred].next], ![pred].next = k]
       /\ last' = [last EXCEPT ![l] = IF pred = @ THEN k ELSE @]
       /\ elem_count' = [elem_count EXCEPT ![l] = @ + 1]
       /\ UNCHANGED first

(* Remove the link behind pred.                                            *)
sc_list_remove(l, pred) ==
  /\ pred \in Range(Links(l)) /\ heap[pred].next # NULL
  /\ LET k == heap[pred].next
     IN /\ heap' = [heap EXCEPT ![pred].next = heap[k].next]
        /\ last' = [last EXCEPT ![l] = IF @ = k THEN pred ELSE @]
        /\ Freed(k)
  /\ elem_count' = [elem_count EXCEPT ![l] = @ - 1]
  /\ UNCHANGED first

(* Faulty variant: last is not reset when the only link is popped.         *)
PopKeepsLast(l) ==
  /\ first[l] # NULL
  /\ Freed(first[l])
  /\ first' = [first EXCEPT ![l] = heap[@].next]
  /\ elem_count' = [elem_count EXCEPT ![l] = @ - 1]
  /\ UNCHANGED <<heap, last>>

sc_list_pop(l) ==
  /\ first[l] # NULL
  /\ Freed(first[l])
  /\ first' = [first EXCEPT ![l] = heap[@].next]
  /\ last' = [last EXCEPT ![l] = IF heap[first[l]].next = NULL THEN NULL ELSE @]
  /\ elem_count' = [elem_count EXCEPT ![l] = @ - 1]
  /\ UNCHANGED heap

(* The walk along the links, giving each back, ends where next is NULL.    *)
sc_list_reset(l) ==
  /\ allocated' = allocated \ Range(Links(l))
  /\ first' = [first EXCEPT ![l] = NULL]
  /\ last' = [last EXCEPT ![l] = NULL]
  /\ elem_count' = [elem_count EXCEPT ![l] = 0]
  /\ UNCHANGED heap

Next ==
  \E l \in Lists :
    \/ \E d \in Data : \/ sc_list_prepend(l, d) \/ sc_list_append(l, d)
                       \/ \E pred \in allocated : sc_list_insert(l, pred, d)
    \/ \E pred \in allocated : sc_list_remove(l, pred)
    \/ sc_list_pop(l) \/ sc_list_reset(l)

Spec == Init /\ [][Next]_vars

-----------------------------------------------------------------------------
(***************************************************************************)
(* Properties                                                              *)
(***************************************************************************)

(* Every list is a chain of elem_count allocated links from first to last, *)
(* no link is in two places, and no allocated link is in none.             *)
ChainsAreSound ==
  /\ \A l \in Lists :
       IF elem_count[l] = 0 THEN first[l] = NULL /\ last[l] = NULL
       ELSE /\ Range(Links(l)) \subseteq allocated
            /\ IsInjective(Links(l))
            /\ last[l] = Last(Links(l)) /\ heap[last[l]].next = NULL
  /\ \A l, m \in Lists : l # m => Range(Links(l)) \cap Range(Links(m)) = {}
  /\ allocated = UNION {Range(Links(l)) : l \in Lists}

(* Each operation changes the sequence of data as its name says, and that  *)
(* of its own list only.                                                   *)
StepOfList ==
  \A l \in Lists :
    LET c == Contents(l)
    IN /\ \A d \in Data : sc_list_prepend(l, d) => Contents(l)' = <<d>> \o c
       /\ \A d \in Data : sc_list_append(l, d) => Contents(l)' = Append(c, d)
       /\ \A i \in DOMAIN c, d \in Data :
            sc_list_insert(l, Links(l)[i], d) => Contents(l)' = InsertAt(c, i + 1, d)
       /\ \A i \in DOMAIN c : sc_list_remove(l, Links(l)[i]) => Contents(l)' = RemoveAt(c, i + 1)
       /\ sc_list_pop(l) => Contents(l)' = Tail(c)
       /\ elem_count'[l] = elem_count[l] => Contents(l)' = c

=============================================================================
