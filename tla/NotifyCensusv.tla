---------------------------- MODULE NotifyCensusv ----------------------------
(***************************************************************************)
(* sc_notify_payloadv with SC_NOTIFY_PCX (sc_notify_payloadv_census with   *)
(* sc_notify_censusv_pcx).  The census also adds up the amount of payload  *)
(* each rank is going to receive.  The rank allocates one buffer of that   *)
(* size and receives one message after the other, from any source, into    *)
(* what is left of it; if sorted, the pieces are put in order afterwards.  *)
(*                                                                         *)
(* As in NotifyCensus the ranks make several calls in a row, all with the  *)
(* tag SC_TAG_NOTIFY_CENSUSV.  The k-th item that rank q sends to a rank   *)
(* in call c is the triple <<q, c, k>>.                                    *)
(***************************************************************************)
EXTENDS Integers, Sequences, FiniteSets, SequencesExt

CONSTANTS P, Calls,
          Inputs,   \* Inputs[..][c][p][q]: number of items from p to q in call
                    \* c, where q is in the domain iff p informs q
          Sortings  \* values of the argument `sorted'

Rank == 0 .. P-1

VARIABLES input,       \* the receivers and in_offsets of all calls
          sorted,
          entered, pc, \* as in NotifyCensus
          num_senders, \* first result of the census
          recv_size,   \* second result of the census
          tosend, net,
          crecv,       \* the part of the receive buffer written so far
          first,       \* first_senders: <<source, offset, next offset>>
          out          \* results of the calls each rank has returned from

vars == <<input, sorted, entered, pc, num_senders, recv_size, tosend, net, crecv, first, out>>

Senders(c, p) == {q \in Rank : p \in DOMAIN input[c][q]}

(* The payload that q sends to p in call c.                                *)
Payload(q, p, c) == [k \in 1 .. input[c][q][p] |-> <<q, c, k>>]

-----------------------------------------------------------------------------

Init ==
  /\ input \in Inputs
  /\ sorted \in Sortings
  /\ entered = [p \in Rank |-> 0]
  /\ pc = [p \in Rank |-> "idle"]
  /\ num_senders = [p \in Rank |-> 0]
  /\ recv_size = [p \in Rank |-> 0]
  /\ tosend = [p \in Rank |-> {}]
  /\ net = {}
  /\ crecv = [p \in Rank |-> <<>>]
  /\ first = [p \in Rank |-> <<>>]
  /\ out = [p \in Rank |-> <<>>]

(* Fill the counters for all receivers and enter the reduction.            *)
EnterCensusv(p) ==
  /\ pc[p] = "idle"
  /\ entered[p] < Calls
  /\ entered' = [entered EXCEPT ![p] = @ + 1]
  /\ pc' = [pc EXCEPT ![p] = "census"]
  /\ UNCHANGED <<input, sorted, num_senders, recv_size, tosend, net, crecv, first, out>>

(* buffered_receivers: what q adds to the two counters of p.               *)
buffered_receivers(c, q, p) ==
  IF p \in DOMAIN input[c][q] THEN <<1, input[c][q][p]>> ELSE <<0, 0>>

(* sc_MPI_Reduce_scatter_block: nobody has a result before all have        *)
(* contributed.                                                            *)
LeaveCensusv(p) ==
  LET c == entered[p]
  IN /\ pc[p] = "census"
     /\ \A q \in Rank : entered[q] >= c
     /\ num_senders' = [num_senders EXCEPT
          ![p] = FoldSet(LAMBDA q, n : buffered_receivers(c, q, p)[1] + n, 0, Rank)]
     /\ recv_size' = [recv_size EXCEPT
          ![p] = FoldSet(LAMBDA q, n : buffered_receivers(c, q, p)[2] + n, 0, Rank)]
     /\ tosend' = [tosend EXCEPT ![p] = DOMAIN input[c][p]]
     /\ crecv' = [crecv EXCEPT ![p] = <<>>]
     /\ first' = [first EXCEPT ![p] = <<>>]
     /\ pc' = [pc EXCEPT ![p] = "exchange"]
     /\ UNCHANGED <<input, sorted, entered, net, out>>

Isend(p) ==
  \E q \in tosend[p] :
     /\ tosend' = [tosend EXCEPT ![p] = @ \ {q}]
     /\ net' = net \cup {[src |-> p, dst |-> q, call |-> entered[p]]}
     /\ UNCHANGED <<input, sorted, entered, pc, num_senders, recv_size, crecv, first, out>>

MayMatch(m) ==
  \A n \in net : n.src = m.src /\ n.dst = m.dst => m.call <= n.call

(* The message is received behind the previous ones.  If it is longer than *)
(* the space left, sc_MPI_Recv fails and SC_CHECK_MPI aborts the program:  *)
(* there is no such step, see NoTruncation.                                *)
Recv(p) ==
  /\ pc[p] = "exchange"
  /\ tosend[p] = {}
  /\ Len(first[p]) < num_senders[p]
  /\ \E m \in net :
       LET data == Payload(m.src, p, m.call)
       IN /\ m.dst = p
          /\ MayMatch(m)
          /\ Len(data) <= recv_size[p] - Len(crecv[p])
          /\ net' = net \ {m}
          /\ crecv' = [crecv EXCEPT ![p] = @ \o data]
          /\ first' = [first EXCEPT ![p] =
               Append(@, <<m.src, Len(crecv[p]), Len(crecv[p]) + Len(data)>>)]
  /\ UNCHANGED <<input, sorted, entered, pc, num_senders, recv_size, tosend, out>>

(* Faulty variant: keep the offsets of the unsorted buffer.                *)
AssembleOldOffsets(s, buf) ==
  LET Piece(x) == SubSeq(buf, x[2] + 1, x[3])
  IN [senders |-> [i \in DOMAIN s |-> s[i][1]],
      offsets |-> FoldLeft(LAMBDA o, x : Append(o, x[3]), <<0>>, s),
      payload |-> FoldLeft(LAMBDA b, x : b \o Piece(x), <<>>, s)]

(* Copy the pieces s of the receive buffer, one behind the other.          *)
Assemble(s, buf) ==
  LET Piece(x) == SubSeq(buf, x[2] + 1, x[3])
  IN [senders |-> [i \in DOMAIN s |-> s[i][1]],
      offsets |-> FoldLeft(LAMBDA o, x : Append(o, Last(o) + x[3] - x[2]), <<0>>, s),
      payload |-> FoldLeft(LAMBDA b, x : b \o Piece(x), <<>>, s)]

(* Wait for the sends, which complete when the library has buffered them   *)
(* or they are matched, and produce the output arrays.  Unsorted, they are *)
(* the arrays filled while receiving.                                      *)
Return(p) ==
  /\ pc[p] = "exchange"
  /\ tosend[p] = {}
  /\ Len(first[p]) = num_senders[p]
  /\ LET bysource == SortSeq(first[p], LAMBDA x, y : x[1] < y[1])
     IN out' = [out EXCEPT ![p] =
          Append(@, Assemble(IF sorted THEN bysource ELSE first[p], crecv[p]))]
  /\ pc' = [pc EXCEPT ![p] = "idle"]
  /\ UNCHANGED <<input, sorted, entered, num_senders, recv_size, tosend, net, crecv, first>>

Terminated ==
  /\ \A p \in Rank : pc[p] = "idle" /\ entered[p] = Calls
  /\ UNCHANGED vars

Next ==
  \/ \E p \in Rank : \/ EnterCensusv(p) \/ LeaveCensusv(p)
                     \/ Isend(p) \/ Recv(p) \/ Return(p)
  \/ Terminated

Spec == Init /\ [][Next]_vars

-----------------------------------------------------------------------------
(***************************************************************************)
(* Properties                                                              *)
(***************************************************************************)

(* The types of the variables of sc_notify_payloadv_census.                *)
TypeOK ==
  /\ entered \in [Rank -> 0 .. Calls]
  /\ pc \in [Rank -> {"idle", "census", "exchange"}]
  /\ num_senders \in [Rank -> 0 .. P]
  /\ recv_size \in [Rank -> Nat]
  /\ tosend \in [Rank -> SUBSET Rank]
  /\ net \subseteq [src : Rank, dst : Rank, call : 1 .. Calls]
  /\ \A p \in Rank : Len(crecv[p]) <= recv_size[p] /\ Len(first[p]) <= num_senders[p]

(* Whatever a rank can receive next fits into the space left in its        *)
(* buffer, whichever sender comes first and however far other ranks are    *)
(* ahead: the abort in SC_CHECK_MPI after sc_MPI_Recv cannot happen.       *)
NoTruncation ==
  \A p \in Rank : \A m \in net :
     pc[p] = "exchange" /\ m.dst = p
       => Len(Payload(m.src, p, m.call)) <= recv_size[p] - Len(crecv[p])

(* Each returned sender is one that informs this rank in this call, each   *)
(* once and in order if sorted, and between consecutive offsets stands     *)
(* exactly the payload it sent; the offsets span the whole array.          *)
ReturnsPayloadv ==
  \A p \in Rank : \A c \in 1 .. Len(out[p]) :
     LET o == out[p][c]
     IN /\ ToSet(o.senders) = Senders(c, p)
        /\ Len(o.senders) = Cardinality(Senders(c, p))
        /\ Len(o.offsets) = Len(o.senders) + 1
        /\ Last(o.offsets) = Len(o.payload)
        /\ sorted => \A i, j \in DOMAIN o.senders : i < j => o.senders[i] < o.senders[j]
        /\ \A i \in DOMAIN o.senders :
             SubSeq(o.payload, o.offsets[i] + 1, o.offsets[i+1]) = Payload(o.senders[i], p, c)

=============================================================================
