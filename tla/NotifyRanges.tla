---------------------------- MODULE NotifyRanges ----------------------------
(***************************************************************************)
(* sc_notify_payload with SC_NOTIFY_RANGES (sc_notify_payload_ranges).     *)
(* Every rank covers its receivers by ranges, all ranks learn all ranges,  *)
(* and each sends one message to every rank in its ranges, flagged with    *)
(* whether that rank really is a receiver.                                 *)
(***************************************************************************)
EXTENDS NotifyCalls, Ranges

CONSTANT max_ranges  \* sc_notify_ranges_set_num_ranges

VARIABLES reduced,    \* reduced[p]: nwin that p gave to Allreduce, by call
          gathered,   \* gathered[p]: ranges that p gave to Allgather, by call
          my_ranges,
          awaited     \* awaited[p]: ranks that p has a receive posted for

vars == <<receivers, mode, entered, pc, reduced, gathered, my_ranges,
          awaited, net, recv, out>>

(* recv[p][q] is the message of q to p.                                    *)
Init ==
  /\ CallsInit
  /\ reduced = [p \in Rank |-> <<>>]
  /\ gathered = [p \in Rank |-> <<>>]
  /\ my_ranges = [p \in Rank |-> <<>>]
  /\ awaited = [p \in Rank |-> {}]

(* The ranges are computed for the receivers other than the rank itself,   *)
(* and sc_ranges_adaptive enters sc_MPI_Allreduce with their number.       *)
Enter(p) ==
  LET c == entered[p] + 1
  IN /\ MayEnter(p)
     /\ entered' = [entered EXCEPT ![p] = c]
     /\ \E r \in RangesOf(receivers[c][p] \ {p}, max_ranges) :
          /\ my_ranges' = [my_ranges EXCEPT ![p] = r]
          /\ reduced' = [reduced EXCEPT ![p] = Append(@, Len(r))]
     /\ pc' = [pc EXCEPT ![p] = "allreduce"]
     /\ UNCHANGED <<receivers, mode, gathered, awaited, net, recv, out>>

(* Leave sc_MPI_Allreduce with the greatest number of ranges and enter     *)
(* sc_MPI_Allgather with so many, the ones in use first.                   *)
Allreduce(p) ==
  /\ pc[p] = "allreduce"
  /\ \A q \in Rank : Len(reduced[q]) >= entered[p]
  /\ LET maxwin == Max({reduced[q][entered[p]] : q \in Rank})
     IN gathered' = [gathered EXCEPT
                       ![p] = Append(@, SubSeq(my_ranges[p], 1, Min({maxwin, Len(my_ranges[p])})))]
  /\ pc' = [pc EXCEPT ![p] = "allgather"]
  /\ UNCHANGED <<receivers, mode, entered, reduced, my_ranges, awaited, net, recv, out>>

(* Leave sc_MPI_Allgather, decode the ranges, send to every rank in the    *)
(* own ranges and post the receives.                                       *)
Post(p) ==
  LET c          == entered[p]
      all_ranges == [q \in Rank |-> gathered[q][c]]
  IN /\ pc[p] = "allgather"
     /\ \A q \in Rank : Len(gathered[q]) >= c
     /\ net' = net \cup {[src |-> p, dst |-> q, call |-> c, flag |-> q \in receivers[c][p]] :
                           q \in Receivers(all_ranges, p)}
     /\ awaited' = [awaited EXCEPT ![p] = PotentialSenders(all_ranges, p)]
     /\ recv' = [recv EXCEPT ![p] = <<>>]
     /\ pc' = [pc EXCEPT ![p] = "waitall"]
     /\ UNCHANGED <<receivers, mode, entered, reduced, gathered, my_ranges, out>>

(* A receive posted for a given rank completes.                            *)
Complete(p) ==
  /\ pc[p] = "waitall"
  /\ \E m \in net :
       /\ m.dst = p /\ m.src \in awaited[p] /\ Oldest(m, net)
       /\ net' = net \ {m}
       /\ awaited' = [awaited EXCEPT ![p] = @ \ {m.src}]
       /\ recv' = [recv EXCEPT ![p] = (m.src :> m) @@ @]
  /\ UNCHANGED <<receivers, mode, entered, pc, reduced, gathered, my_ranges, out>>

(* The flagged senders in the order of sender_ranks, which ascends; the    *)
(* rank itself, if it is one of its receivers, is put between those below  *)
(* and those above it, or at the end.                                      *)
Output(p) ==
  LET c    == entered[p]
      self == p \in receivers[c][p]
      S    == {q \in DOMAIN recv[p] : recv[p][q].flag}
      s    == SetToSortSeq({q \in S : q < p}, <)
              \o (IF self THEN <<p>> ELSE <<>>)
              \o SetToSortSeq({q \in S : q > p}, <)
  IN [senders |-> s,
      payload |-> IF ~mode.payload THEN <<>>
                  ELSE [i \in DOMAIN s |-> <<s[i], IF s[i] = p THEN c ELSE recv[p][s[i]].call>>]]

(* sc_MPI_Waitall is over for sends and receives.                          *)
Return(p) ==
  /\ pc[p] = "waitall"
  /\ awaited[p] = {}
  /\ SendsComplete(p)
  /\ out' = [out EXCEPT ![p] = Append(@, Output(p))]
  /\ pc' = [pc EXCEPT ![p] = "idle"]
  /\ UNCHANGED <<receivers, mode, entered, reduced, gathered, my_ranges, awaited, net, recv>>

Step(p) == Enter(p) \/ Allreduce(p) \/ Post(p) \/ Complete(p) \/ Return(p)

Next == \E p \in Rank : Step(p)

Spec == Init /\ [][Next]_vars

-----------------------------------------------------------------------------

(* The ranks agree on who sends to whom although each decodes the ranges   *)
(* on its own: what is under way to a rank from a call it has posted its   *)
(* receives for is exactly what those receives wait for.                   *)
PostsAgree ==
  \A p, q \in Rank :
    LET sent == \E m \in net : m.src = p /\ m.dst = q /\ m.call = entered[q]
    IN pc[q] = "waitall" =>
         /\ sent => p \in awaited[q]
         /\ p \in awaited[q] /\ ~sent => entered[p] = entered[q] /\ pc[p] = "allgather"

=============================================================================
