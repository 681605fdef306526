---------------------------- MODULE NotifyCensus ----------------------------
(***************************************************************************)
(* sc_notify_payload with SC_NOTIFY_PCX or SC_NOTIFY_RSX                   *)
(* (sc_notify_payload_census).  A collective census tells every rank how   *)
(* many ranks inform it; it then posts its sends and receives that many    *)
(* messages from any source.                                               *)
(***************************************************************************)
EXTENDS NotifyCalls

VARIABLES num_senders, \* result of the census on p
          tosend       \* receivers p has still to post a send for

vars == <<receivers, mode, entered, pc, num_senders, tosend, net, recv, out>>

(* Split the receive buffer into the output arrays.                        *)
Output(s) ==
  [senders |-> [i \in DOMAIN s |-> s[i][1]],
   payload |-> IF mode.payload THEN [i \in DOMAIN s |-> s[i][2]] ELSE <<>>]

-----------------------------------------------------------------------------

Init ==
  /\ CallsInit
  /\ num_senders = [p \in Rank |-> 0]
  /\ tosend = [p \in Rank |-> {}]

(* Enter the call and with it the census, contributing one's receivers.    *)
EnterCensus(p) ==
  /\ MayEnter(p)
  /\ entered' = [entered EXCEPT ![p] = @ + 1]
  /\ pc' = [pc EXCEPT ![p] = "census"]
  /\ recv' = [recv EXCEPT ![p] = <<>>]
  /\ UNCHANGED <<receivers, mode, num_senders, tosend, net, out>>

(* Faulty variant: the census does not wait for the other ranks.           *)
LeaveCensusAtOnce(p) ==
  /\ pc[p] = "census"
  /\ num_senders' = [num_senders EXCEPT ![p] = Cardinality(Senders(entered[p], p))]
  /\ tosend' = [tosend EXCEPT ![p] = receivers[entered[p]][p]]
  /\ pc' = [pc EXCEPT ![p] = "exchange"]
  /\ UNCHANGED <<receivers, mode, entered, net, recv, out>>

(* Faulty variant: the counters do not start at zero.                      *)
LeaveCensusOneMore(p) ==
  /\ pc[p] = "census"
  /\ \A q \in Rank : entered[q] >= entered[p]
  /\ num_senders' = [num_senders EXCEPT ![p] = Cardinality(Senders(entered[p], p)) + 1]
  /\ tosend' = [tosend EXCEPT ![p] = receivers[entered[p]][p]]
  /\ pc' = [pc EXCEPT ![p] = "exchange"]
  /\ UNCHANGED <<receivers, mode, entered, net, recv, out>>

(* Faulty variant: a rank does not count itself.                           *)
LeaveCensusNotSelf(p) ==
  /\ pc[p] = "census"
  /\ \A q \in Rank : entered[q] >= entered[p]
  /\ num_senders' = [num_senders EXCEPT ![p] = Cardinality(Senders(entered[p], p) \ {p})]
  /\ tosend' = [tosend EXCEPT ![p] = receivers[entered[p]][p]]
  /\ pc' = [pc EXCEPT ![p] = "exchange"]
  /\ UNCHANGED <<receivers, mode, entered, net, recv, out>>

(* The census is a reduction of contributions from all ranks: it gives no  *)
(* rank its result before every rank has entered it.                       *)
LeaveCensus(p) ==
  /\ pc[p] = "census"
  /\ \A q \in Rank : entered[q] >= entered[p]
  /\ num_senders' = [num_senders EXCEPT ![p] = Cardinality(Senders(entered[p], p))]
  /\ tosend' = [tosend EXCEPT ![p] = receivers[entered[p]][p]]
  /\ pc' = [pc EXCEPT ![p] = "exchange"]
  /\ UNCHANGED <<receivers, mode, entered, net, recv, out>>

Isend(p) ==
  \E q \in tosend[p] :
     /\ tosend' = [tosend EXCEPT ![p] = @ \ {q}]
     /\ net' = net \cup {[src |-> p, dst |-> q, call |-> entered[p]]}
     /\ UNCHANGED <<receivers, mode, entered, pc, num_senders, recv, out>>

Recv(p) ==
  /\ pc[p] = "exchange"
  /\ tosend[p] = {}
  /\ Len(recv[p]) < num_senders[p]
  /\ \E m \in net :
       /\ m.dst = p
       /\ Oldest(m, net)
       /\ net' = net \ {m}
       /\ recv' = [recv EXCEPT ![p] = Append(@, <<m.src, <<m.src, m.call>>>>)]
  /\ UNCHANGED <<receivers, mode, entered, pc, num_senders, tosend, out>>

(* sc_MPI_Waitall for the sends, then the arrays are put in order.         *)
Return(p) ==
  /\ pc[p] = "exchange"
  /\ tosend[p] = {}
  /\ Len(recv[p]) = num_senders[p]
  /\ SendsComplete(p)
  /\ \E s \in IF mode.sorted THEN SortedBySource(recv[p]) ELSE {recv[p]} :
        out' = [out EXCEPT ![p] = Append(@, Output(s))]
  /\ pc' = [pc EXCEPT ![p] = "idle"]
  /\ UNCHANGED <<receivers, mode, entered, num_senders, tosend, net, recv>>

Step(p) ==
  EnterCensus(p) \/ LeaveCensus(p) \/ Isend(p) \/ Recv(p) \/ Return(p)

Next == \E p \in Rank : Step(p)

Spec == Init /\ [][Next]_vars

-----------------------------------------------------------------------------
(***************************************************************************)
(* Properties                                                              *)
(***************************************************************************)

(* The types of the variables of sc_notify_payload_census.                 *)
TypeOK ==
  /\ receivers \in [1 .. Calls -> [Rank -> SUBSET Rank]]
  /\ mode \in Mode
  /\ entered \in [Rank -> 0 .. Calls]
  /\ pc \in [Rank -> {"idle", "census", "exchange"}]
  /\ num_senders \in [Rank -> 0 .. P]
  /\ tosend \in [Rank -> SUBSET Rank]
  /\ net \subseteq Message
  /\ recv \in [Rank -> Seq(Item)]
  /\ out \in [Rank -> Seq(Result)]

(* The census keeps the calls apart: whatever a rank that is receiving in  *)
(* call c can match, from any source, was sent in call c, although other   *)
(* ranks may have returned from call c and gone on.                        *)
CallsKeptApart ==
  \A p \in Rank : \A m \in net :
     pc[p] = "exchange" /\ m.dst = p => m.call = entered[p]

(* A rank that has received as many messages as the census counted has     *)
(* heard from every rank that informs it in this call, and once from each. *)
CountMeansReceived ==
  \A p \in Rank :
     pc[p] = "exchange" /\ Len(recv[p]) = num_senders[p]
       => /\ Sources(recv[p]) = Senders(entered[p], p)
          /\ \A i, j \in 1 .. Len(recv[p]) : recv[p][i][1] = recv[p][j][1] => i = j

=============================================================================
