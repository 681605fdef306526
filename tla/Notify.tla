------------------------------- MODULE Notify -------------------------------
(***************************************************************************)
(* What one sc_notify_payload call promises, whatever algorithm the        *)
(* controller selects.  The call is collective: every rank names the ranks *)
(* it wants to inform and learns the ranks that inform it, one payload     *)
(* item with each.  The ranks make the same sequence of calls, each at its *)
(* own speed.                                                              *)
(*                                                                         *)
(* A payload is abstracted to its origin, the pair <<sender, call>>: two   *)
(* items are told apart exactly when they come from different ranks or     *)
(* different calls.                                                        *)
(***************************************************************************)
EXTENDS Integers, Sequences, FiniteSets

CONSTANTS P,         \* number of ranks of the communicator
          Calls,     \* number of consecutive calls made on it
          Patterns,  \* receiver patterns, in [1..Calls -> [Rank -> SUBSET Rank]]
          Sortings,  \* values of the argument `sorted', a subset of BOOLEAN
          Payloads   \* whether in_payload is given, a subset of BOOLEAN

Rank == 0 .. P-1

VARIABLES receivers, \* receivers[c][p]: the ranks p informs in call c
          sorted,    \* the argument `sorted' of all calls
          payload,   \* whether the calls carry a payload
          entered,   \* entered[p]: number of calls p has entered
          out        \* out[p]: the results of the calls p has returned from

vars == <<receivers, sorted, payload, entered, out>>

(* The ranks that inform p in call c: column p of the pattern.             *)
Senders(c, p) == {q \in Rank : p \in receivers[c][q]}

(* A set of ranks as an array, by increasing rank.                         *)
Ascending(S) ==
  [i \in 1 .. Cardinality(S) |-> CHOOSE x \in S : Cardinality({y \in S : y < x}) = i - 1]

(* The results allowed for rank p in call c: every sender once, next to    *)
(* the payload item it sent, by increasing rank if so requested.           *)
Answers(c, p) ==
  LET S     == Senders(c, p)
      Order == IF sorted THEN {Ascending(S)}
               ELSE {s \in [1 .. Cardinality(S) -> S] :
                       \A i, j \in DOMAIN s : i # j => s[i] # s[j]}
  IN {[senders |-> s,
       payload |-> IF payload THEN [i \in DOMAIN s |-> <<s[i], c>>] ELSE <<>>] :
         s \in Order}

-----------------------------------------------------------------------------

Init ==
  /\ receivers \in Patterns
  /\ sorted \in Sortings
  /\ payload \in Payloads
  /\ entered = [p \in Rank |-> 0]
  /\ out = [p \in Rank |-> <<>>]

Enter(p) ==
  /\ entered[p] = Len(out[p])
  /\ entered[p] < Calls
  /\ entered' = [entered EXCEPT ![p] = @ + 1]
  /\ UNCHANGED <<receivers, sorted, payload, out>>

(* A rank cannot know of a sender before that sender has made the call.    *)
Return(p) ==
  LET c == entered[p]
  IN /\ Len(out[p]) < c
     /\ \A q \in Senders(c, p) : entered[q] >= c
     /\ \E o \in Answers(c, p) : out' = [out EXCEPT ![p] = Append(@, o)]
     /\ UNCHANGED <<receivers, sorted, payload, entered>>

Next == \E p \in Rank : Enter(p) \/ Return(p)

Spec == Init /\ [][Next]_vars

=============================================================================
