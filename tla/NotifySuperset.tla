--------------------------- MODULE NotifySuperset ---------------------------
(***************************************************************************)
(* sc_notify_payload with SC_NOTIFY_SUPERSET (sc_notify_payload_superset). *)
(* A callback of the application tells every rank a superset of the ranks  *)
(* that may inform it, and which further ranks count on hearing from it.   *)
(* A rank sends its receivers a true message and the further ranks an      *)
(* empty extra one, and then receives, from any source, as many messages   *)
(* of either kind as its superset has members.                             *)
(*                                                                         *)
(* A pass of the receive loop that finds nothing changes nothing and is a  *)
(* stuttering step.                                                        *)
(***************************************************************************)
EXTENDS NotifyCalls

CONSTANT Extras  \* further ranks, in [1..Calls -> [Rank -> SUBSET Rank]]

VARIABLES extra,  \* extra[c][p]: further ranks that p sends to
          queue   \* number of messages p still has to receive

vars == <<receivers, extra, mode, entered, pc, queue, net, recv, out>>

(* The callback: consistent between the ranks, and no rank is told to send *)
(* an extra message to one of its receivers.                               *)
ExtraReceivers(c, p) == extra[c][p] \ receivers[c][p]
SuperSenders(c, p) == {q \in Rank : p \in receivers[c][q] \cup extra[c][q]}

(* sc_notify_payload_cleanup; if it is not to sort, out_payload is given   *)
(* and empty (see NotifyNbx for the other cases).                          *)
Output(s) ==
  [senders |-> [i \in DOMAIN s |-> s[i][1]],
   payload |-> IF mode.payload THEN [i \in DOMAIN s |-> s[i][2]] ELSE <<>>]

-----------------------------------------------------------------------------

(* Without a callback there are no further ranks.                          *)
Init ==
  /\ CallsInit
  /\ extra \in IF mode.type = "superset" THEN Extras
               ELSE {[c \in 1 .. Calls |-> [p \in Rank |-> {}]]}
  /\ queue = [p \in Rank |-> 0]

Messages(p, c, kind, dsts) ==
  {[src |-> p, dst |-> q, call |-> c, kind |-> kind] : q \in dsts}

(* The sends, nonblocking, with the callback between the two kinds.        *)
Enter(p) ==
  LET c == entered[p] + 1
  IN /\ MayEnter(p)
     /\ entered' = [entered EXCEPT ![p] = c]
     /\ net' = net \cup Messages(p, c, "true", receivers[c][p])
                   \cup Messages(p, c, "extra", ExtraReceivers(c, p))
     /\ queue' = [queue EXCEPT ![p] = Cardinality(SuperSenders(c, p))]
     /\ recv' = [recv EXCEPT ![p] = <<>>]
     /\ pc' = [pc EXCEPT ![p] = "loop"]
     /\ UNCHANGED <<receivers, extra, mode, out>>

(* A probe for SC_TAG_NOTIFY_SUPER_TRUE succeeds.  The two kinds have tags *)
(* of their own.                                                           *)
RecvTrue(p) ==
  /\ pc[p] = "loop"
  /\ queue[p] > 0
  /\ \E m \in net :
       /\ m.dst = p /\ m.kind = "true" /\ Oldest(m, {n \in net : n.kind = m.kind})
       /\ net' = net \ {m}
       /\ recv' = [recv EXCEPT ![p] = Append(@, <<m.src, <<m.src, m.call>>>>)]
  /\ queue' = [queue EXCEPT ![p] = @ - 1]
  /\ UNCHANGED <<receivers, extra, mode, entered, pc, out>>

(* That probe finds nothing, true messages may still be under way, and one *)
(* for SC_TAG_NOTIFY_SUPER_EXTRA succeeds.                                 *)
RecvExtra(p) ==
  /\ pc[p] = "loop"
  /\ queue[p] > 0
  /\ \E m \in net :
       /\ m.dst = p /\ m.kind = "extra" /\ Oldest(m, {n \in net : n.kind = m.kind})
       /\ net' = net \ {m}
  /\ queue' = [queue EXCEPT ![p] = @ - 1]
  /\ UNCHANGED <<receivers, extra, mode, entered, pc, recv, out>>

(* The loop is over; both sc_MPI_Waitall, and the arrays are put in order. *)
Return(p) ==
  /\ pc[p] = "loop"
  /\ queue[p] = 0
  /\ SendsComplete(p)
  /\ \E s \in IF mode.sorted THEN SortedBySource(recv[p]) ELSE {recv[p]} :
        out' = [out EXCEPT ![p] = Append(@, Output(s))]
  /\ pc' = [pc EXCEPT ![p] = "idle"]
  /\ UNCHANGED <<receivers, extra, mode, entered, queue, net, recv>>

Step(p) == Enter(p) \/ RecvTrue(p) \/ RecvExtra(p) \/ Return(p)

Next == \E p \in Rank : Step(p)

Spec == Init /\ [][Next]_vars

-----------------------------------------------------------------------------
(***************************************************************************)
(* Properties                                                              *)
(***************************************************************************)

(* A rank that has received as many messages as its superset has members   *)
(* has got every true message of the call, and no message of the call is   *)
(* left that the next call could receive in place of its own.              *)
QueueMeansReceived ==
  \A p \in Rank :
    pc[p] = "loop" /\ queue[p] = 0 =>
      /\ {recv[p][i][1] : i \in DOMAIN recv[p]} = Senders(entered[p], p)
      /\ \A m \in net : m.dst = p => m.call > entered[p]

=============================================================================
