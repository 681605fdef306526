----------------------------- MODULE Allocator -----------------------------
(***************************************************************************)
(* What an allocator of equal elements promises: an element it hands out   *)
(* is not in use, and stays with its user until it is given back or all    *)
(* elements are invalidated.                                               *)
(***************************************************************************)

CONSTANTS Handle,   \* pointer variables of the application
          Address   \* possible places of elements

(* No address.                                                             *)
None == <<>>

VARIABLE owner  \* owner[h]: the element h points to, or None

Init == owner = [h \in Handle |-> None]

Alloc(h) ==
  /\ owner[h] = None
  /\ owner'[h] \in Address /\ \A g \in Handle : owner[g] # owner'[h]
  /\ owner' = [owner EXCEPT ![h] = owner'[h]]

Free(h) ==
  /\ owner[h] # None
  /\ owner' = [owner EXCEPT ![h] = None]

Clear == owner' = [h \in Handle |-> None]

Next == (\E h \in Handle : Alloc(h) \/ Free(h)) \/ Clear

Spec == Init /\ [][Next]_owner

=============================================================================
