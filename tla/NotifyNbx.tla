------------------------------ MODULE NotifyNbx ------------------------------
(***************************************************************************)
(* sc_notify_payload with SC_NOTIFY_NBX (sc_notify_payload_nbx): every     *)
(* rank posts a synchronous send to each of its receivers, then loops,     *)
(* receiving whatever a probe finds from any source.  When its own sends   *)
(* have been matched it enters a nonblocking barrier and goes on probing;  *)
(* the completion of the barrier ends the loop.                            *)
(***************************************************************************)
EXTENDS NotifyCalls

VARIABLES tosend,    \* receivers p has still to post a send for
          ibarrier   \* ibarrier[p]: number of barriers p has entered

vars == <<receivers, mode, entered, pc, tosend, net, recv, ibarrier, out>>

barr(p) == ibarrier[p] = entered[p]

-----------------------------------------------------------------------------
(***************************************************************************)
(* The end of the call, sc_notify_payload_cleanup.                         *)
(***************************************************************************)

Fill(n, x) == [i \in 1 .. n |-> x]

(* The output arrays for the received items s.  Sorted items have their    *)
(* source in front of the payload.  Unsorted ones do not: the payload was  *)
(* pushed onto recv_buf, which is the caller's out_payload with whatever   *)
(* it held, and senders is resized to the length of recv_buf; or a fresh   *)
(* array, from which the copy still skips one int per item, so that with   *)
(* int payload it reads the following item.                                *)
Output(s) ==
  LET src == [i \in 1 .. Len(s) |-> s[i][1]]
      pay == [i \in 1 .. Len(s) |-> s[i][2]]
  IN CASE ~mode.payload ->
            [senders |-> src, payload |-> <<>>]
       [] mode.payload /\ mode.sorted ->
            [senders |-> src, payload |-> pay]
       [] mode.payload /\ ~mode.sorted /\ ~mode.inplace ->
            [senders |-> src \o Fill(mode.stale, -1),
             payload |-> Fill(mode.stale, Garbage) \o pay]
       [] OTHER ->
            [senders |-> src,
             payload |-> [i \in 1 .. Len(s) |-> IF i < Len(s) THEN pay[i+1] ELSE Garbage]]

(* Faulty variant: the items are never sorted.                             *)
CleanupUnsorted(s) == {Output(s)}

sc_notify_payload_cleanup(s) ==
  {Output(t) : t \in IF mode.sorted THEN SortedBySource(s) ELSE {s}}

-----------------------------------------------------------------------------

Init ==
  /\ CallsInit
  /\ tosend = [p \in Rank |-> {}]
  /\ ibarrier = [p \in Rank |-> 0]

Enter(p) ==
  /\ MayEnter(p)
  /\ entered' = [entered EXCEPT ![p] = @ + 1]
  /\ pc' = [pc EXCEPT ![p] = "probe"]
  /\ tosend' = [tosend EXCEPT ![p] = receivers[entered[p] + 1][p]]
  /\ recv' = [recv EXCEPT ![p] = <<>>]
  /\ UNCHANGED <<receivers, mode, net, ibarrier, out>>

(* One pass of the loop that posts the sends; the order of an unsorted     *)
(* array of receivers is arbitrary.                                        *)
Issend(p) ==
  \E q \in tosend[p] :
     /\ tosend' = [tosend EXCEPT ![p] = @ \ {q}]
     /\ net' = net \cup {[src |-> p, dst |-> q, call |-> entered[p]]}
     /\ UNCHANGED <<receivers, mode, entered, pc, recv, ibarrier, out>>

(* Faulty variant: a rank stops probing once it has entered the barrier.   *)
ProbeHitBeforeBarrier(p) ==
  /\ pc[p] = "probe"
  /\ tosend[p] = {}
  /\ ~barr(p)
  /\ \E m \in net :
       /\ m.dst = p
       /\ Oldest(m, net)
       /\ net' = net \ {m}
       /\ recv' = [recv EXCEPT ![p] = Append(@, <<m.src, <<m.src, m.call>>>>)]
  /\ pc' = [pc EXCEPT ![p] = "test"]
  /\ UNCHANGED <<receivers, mode, entered, tosend, ibarrier, out>>

(* MPI_Iprobe sets flag, and the message it reports is received.           *)
ProbeHit(p) ==
  /\ pc[p] = "probe"
  /\ tosend[p] = {}
  /\ \E m \in net :
       /\ m.dst = p
       /\ Oldest(m, net)
       /\ net' = net \ {m}
       /\ recv' = [recv EXCEPT ![p] = Append(@, <<m.src, <<m.src, m.call>>>>)]
  /\ pc' = [pc EXCEPT ![p] = "test"]
  /\ UNCHANGED <<receivers, mode, entered, tosend, ibarrier, out>>

(* MPI_Iprobe finds nothing; a posted message may not have arrived yet.    *)
ProbeMiss(p) ==
  /\ pc[p] = "probe"
  /\ tosend[p] = {}
  /\ pc' = [pc EXCEPT ![p] = "test"]
  /\ UNCHANGED <<receivers, mode, entered, tosend, net, recv, ibarrier, out>>

(* MPI_Testall finds all synchronous sends matched.                        *)
TestallSent(p) ==
  /\ pc[p] = "test"
  /\ ~barr(p)
  /\ \A m \in net : m.src # p
  /\ ibarrier' = [ibarrier EXCEPT ![p] = entered[p]]
  /\ pc' = [pc EXCEPT ![p] = "probe"]
  /\ UNCHANGED <<receivers, mode, entered, tosend, net, recv, out>>

(* MPI_Testall or MPI_Test do not report completion (yet).                 *)
TestPending(p) ==
  /\ pc[p] = "test"
  /\ pc' = [pc EXCEPT ![p] = "probe"]
  /\ UNCHANGED <<receivers, mode, entered, tosend, net, recv, ibarrier, out>>

(* MPI_Test finds the barrier complete: every rank has entered it.  The    *)
(* call returns.                                                           *)
TestDone(p) ==
  /\ pc[p] = "test"
  /\ barr(p)
  /\ \A q \in Rank : ibarrier[q] >= entered[p]
  /\ \E o \in sc_notify_payload_cleanup(recv[p]) :
        out' = [out EXCEPT ![p] = Append(@, o)]
  /\ pc' = [pc EXCEPT ![p] = "idle"]
  /\ UNCHANGED <<receivers, mode, entered, tosend, net, recv, ibarrier>>

Step(p) ==
  \/ Enter(p) \/ Issend(p) \/ ProbeHit(p) \/ ProbeMiss(p)
  \/ TestallSent(p) \/ TestPending(p) \/ TestDone(p)

Next == \E p \in Rank : Step(p)

Spec == Init /\ [][Next]_vars

(* MPI's progress rule: a probe or test that is repeated often enough      *)
(* reports what can be reported.                                           *)
Progress(p) ==
  SF_vars(ProbeHit(p)) /\ SF_vars(TestallSent(p)) /\ SF_vars(TestDone(p))

-----------------------------------------------------------------------------
(***************************************************************************)
(* Properties                                                              *)
(***************************************************************************)

(* The types of the variables of sc_notify_payload_nbx.                    *)
TypeOK ==
  /\ receivers \in [1 .. Calls -> [Rank -> SUBSET Rank]]
  /\ mode \in Mode
  /\ entered \in [Rank -> 0 .. Calls]
  /\ pc \in [Rank -> {"idle", "probe", "test"}]
  /\ tosend \in [Rank -> SUBSET Rank]
  /\ net \subseteq Message
  /\ recv \in [Rank -> Seq(Item)]
  /\ ibarrier \in [Rank -> 0 .. Calls]
  /\ out \in [Rank -> Seq(Result)]

(* A complete barrier proves that every message has been received: once    *)
(* all ranks have entered the MPI_Ibarrier of the call p is in, p has      *)
(* received from each of the ranks that inform it, from no other, and from *)
(* none twice, so that the loop may end.  Each rank enters the barrier     *)
(* knowing only that its own MPI_Issends were matched.                     *)
BarrierMeansReceived ==
  \A p \in Rank :
     LET c == entered[p]
     IN c >= 1 /\ (\A q \in Rank : ibarrier[q] >= c)
          => /\ Sources(recv[p]) = Senders(c, p)
             /\ \A i, j \in 1 .. Len(recv[p]) : recv[p][i][1] = recv[p][j][1] => i = j

=============================================================================
