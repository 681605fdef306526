------------------------------- MODULE Census -------------------------------
(***************************************************************************)
(* What the census functions of sc_notify.c promise: a collective that     *)
(* tells each rank how many ranks have named it, and that no rank leaves   *)
(* before all have entered.                                                *)
(***************************************************************************)
EXTENDS Integers, FiniteSets

CONSTANTS P, Receivers  \* Receivers[p]: the ranks p names

Rank == 0 .. P-1

VARIABLES inside,      \* the ranks that have entered
          num_senders  \* num_senders[p]: the count told to p, or -1

vars == <<inside, num_senders>>

Init == inside = {} /\ num_senders = [p \in Rank |-> -1]

Enter(p) ==
  /\ inside' = inside \cup {p}
  /\ UNCHANGED num_senders

Leave(p) ==
  /\ inside = Rank
  /\ num_senders' = [num_senders EXCEPT ![p] = Cardinality({q \in Rank : p \in Receivers[q]})]
  /\ UNCHANGED inside

Next == \E p \in Rank : Enter(p) \/ Leave(p)

Spec == Init /\ [][Next]_vars

=============================================================================
