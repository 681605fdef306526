---------------------------- MODULE NotifyBinary ----------------------------
(***************************************************************************)
(* sc_notify with the binary recursion (sc_notify_recursive), the function *)
(* behind SC_NOTIFY_BINARY.  Over groups of 2, 4, 8, ... ranks, a rank     *)
(* hands the notifications that belong to the other half of its group to   *)
(* its peer there.  If the number of ranks is not a power of two, the peer *)
(* may not exist; its place is taken by a rank of the group before, which  *)
(* then receives two messages, the first of them from any source.          *)
(*                                                                         *)
(* There is no payload: the field `call' is for the properties only.       *)
(***************************************************************************)
EXTENDS NotifyCalls

VARIABLES length,     \* size of the group p is working on
          array,      \* pairs <<torank, fromrank>> that p holds
          source      \* where p's first message on this level came from

vars == <<receivers, mode, entered, pc, length, array, source, net, recv, out>>

(* SC_ROUNDUP2_32                                                          *)
pow2length == CHOOSE n \in {2^k : k \in 0 .. P} : n >= P /\ n < 2 * P

half(p, len) == (p % len) \div (len \div 2)

(* me ^ length2, or below the group if that does not exist; the rank that  *)
(* is sent to if it is not negative.                                       *)
peer(p, len) ==
  LET other == IF half(p, len) = 0 THEN p + len \div 2 ELSE p - (len \div 2)
  IN IF other < P THEN other ELSE other - len

(* The rank without a peer that sends to p instead, or -1.                 *)
peer2(p, len) ==
  IF half(p, len) = 1 /\ p + len \div 2 < P /\ p + len >= P THEN p + len \div 2 ELSE -1

(* Messages are received only from within the group and the next one.      *)
start(p, len) == p - (p % len)

(* Faulty variant: all levels use the same tag.                            *)
tagSame(len) == 1

(* SC_TAG_NOTIFY_RECURSIVE plus the logarithm of the length.               *)
tag(len) == CHOOSE k \in 0 .. P : 2^k = len

-----------------------------------------------------------------------------

Init ==
  /\ CallsInit
  /\ length = [p \in Rank |-> 1]
  /\ array = [p \in Rank |-> {}]
  /\ source = [p \in Rank |-> -1]

(* sc_notify_init_input, and the recursion down to groups of one rank.     *)
Enter(p) ==
  /\ MayEnter(p)
  /\ entered' = [entered EXCEPT ![p] = @ + 1]
  /\ array' = [array EXCEPT ![p] = receivers[entered[p] + 1][p] \X {p}]
  /\ length' = [length EXCEPT ![p] = 2]
  /\ pc' = [pc EXCEPT ![p] = "send"]
  /\ UNCHANGED <<receivers, mode, recv, source, net, out>>

(* Faulty variant: without a peer nothing is sent.                         *)
SendInGroup(p) ==
  LET len  == length[p]
      away == {x \in array[p] : x[1] % len # p % len}
  IN /\ pc[p] = "send"
     /\ IF peer(p, len) >= start(p, len)
        THEN /\ array' = [array EXCEPT ![p] = @ \ away]
             /\ net' = net \cup {[src |-> p, dst |-> peer(p, len), tag |-> tag(len),
                                  call |-> entered[p], data |-> away]}
        ELSE UNCHANGED <<array, net>>
     /\ pc' = [pc EXCEPT ![p] = IF peer(p, len) >= start(p, len) THEN "first" ELSE "wait"]
     /\ UNCHANGED <<receivers, mode, recv, entered, length, source, out>>

(* What belongs to the other half is sent, even if it is nothing.          *)
Send(p) ==
  LET len  == length[p]
      away == {x \in array[p] : x[1] % len # p % len}
  IN /\ pc[p] = "send"
     /\ IF peer(p, len) >= 0
        THEN /\ array' = [array EXCEPT ![p] = @ \ away]
             /\ net' = net \cup {[src |-> p, dst |-> peer(p, len), tag |-> tag(len),
                                  call |-> entered[p], data |-> away]}
        ELSE UNCHANGED <<array, net>>
     /\ pc' = [pc EXCEPT ![p] = IF peer(p, len) >= start(p, len) THEN "first" ELSE "wait"]
     /\ UNCHANGED <<receivers, mode, recv, entered, length, source, out>>

(* A message of this level that p can receive.                             *)
MayMatch(m, p) ==
  LET same == {n \in net : n.dst = p /\ n.tag = tag(length[p])}
  IN m \in same /\ Oldest(m, same)

(* Faulty variant: the message replaces what the rank holds.               *)
RecvFirstReplace(p) ==
  /\ pc[p] = "first"
  /\ \E m \in net :
       /\ MayMatch(m, p)
       /\ net' = net \ {m}
       /\ array' = [array EXCEPT ![p] = m.data]
       /\ source' = [source EXCEPT ![p] = m.src]
  /\ pc' = [pc EXCEPT ![p] = IF peer2(p, length[p]) >= 0 THEN "second" ELSE "wait"]
  /\ UNCHANGED <<receivers, mode, recv, entered, length, out>>

(* Probe and receive the first message from any source.                    *)
RecvFirst(p) ==
  /\ pc[p] = "first"
  /\ \E m \in net :
       /\ MayMatch(m, p)
       /\ net' = net \ {m}
       /\ array' = [array EXCEPT ![p] = @ \cup m.data]
       /\ source' = [source EXCEPT ![p] = m.src]
  /\ pc' = [pc EXCEPT ![p] = IF peer2(p, length[p]) >= 0 THEN "second" ELSE "wait"]
  /\ UNCHANGED <<receivers, mode, recv, entered, length, out>>

(* The second message comes from the one the first did not come from.      *)
RecvSecond(p) ==
  LET other == IF source[p] = peer2(p, length[p]) THEN peer(p, length[p]) ELSE peer2(p, length[p])
  IN /\ pc[p] = "second"
     /\ \E m \in net :
          /\ m.src = other /\ MayMatch(m, p)
          /\ net' = net \ {m}
          /\ array' = [array EXCEPT ![p] = @ \cup m.data]
     /\ pc' = [pc EXCEPT ![p] = "wait"]
     /\ UNCHANGED <<receivers, mode, recv, entered, length, source, out>>

(* sc_MPI_Wait for the send, and return from the recursion.                *)
Ascend(p) ==
  /\ pc[p] = "wait"
  /\ SendsComplete(p)
  /\ length[p] < pow2length
  /\ length' = [length EXCEPT ![p] = 2 * @]
  /\ pc' = [pc EXCEPT ![p] = "send"]
  /\ UNCHANGED <<receivers, mode, recv, entered, array, source, net, out>>

(* The same on the last level; sc_notify_reset_output.                     *)
Return(p) ==
  /\ pc[p] = "wait"
  /\ SendsComplete(p)
  /\ length[p] = pow2length
  /\ out' = [out EXCEPT ![p] = Append(@, Listed({<<x[2], <<>>>> : x \in array[p]}))]
  /\ array' = [array EXCEPT ![p] = {}]
  /\ pc' = [pc EXCEPT ![p] = "idle"]
  /\ UNCHANGED <<receivers, mode, recv, entered, length, source, net>>

Step(p) ==
  Enter(p) \/ Send(p) \/ RecvFirst(p) \/ RecvSecond(p) \/ Ascend(p) \/ Return(p)

Next == \E p \in Rank : Step(p)

Spec == Init /\ [][Next]_vars

-----------------------------------------------------------------------------
(***************************************************************************)
(* Properties                                                              *)
(***************************************************************************)

(* Although the first message is taken from any source and calls follow    *)
(* each other at once, what a rank can receive is of the call it is in and *)
(* comes from its peer or from the rank that has none ("source == peer ||  *)
(* source == peer2").                                                      *)
AnySourceIsSafe ==
  \A p \in Rank : \A m \in net :
    pc[p] = "first" /\ MayMatch(m, p)
    => /\ m.call = entered[p]
       /\ m.src \in {peer(p, length[p]), peer2(p, length[p])}

(* The recursion invariant verified at the end of sc_notify_recursive:     *)
(* after the groups of some length, a rank holds notifications only for    *)
(* ranks at its own position in such a group, and no sender twice.         *)
RecursionInvariant ==
  \A p \in Rank :
    /\ pc[p] = "wait" => \A x \in array[p] : x[1] % length[p] = p % length[p]
    /\ \A q \in Rank \ {p} :
         pc[p] # "idle" /\ pc[q] # "idle" /\ entered[p] = entered[q] => array[p] \cap array[q] = {}

=============================================================================
