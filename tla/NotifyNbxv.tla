----------------------------- MODULE NotifyNbxv -----------------------------
(***************************************************************************)
(* One unsorted call of sc_notify_payloadv with SC_NOTIFY_NBX              *)
(* (sc_notify_payloadv_nbx).  The protocol is that of NotifyNbx with a     *)
(* variable amount of payload per receiver, but the sends are tagged       *)
(* SC_TAG_NOTIFY_NBXV and the probe looks for SC_TAG_NOTIFY_NBX.           *)
(***************************************************************************)
EXTENDS Integers, Sequences, FiniteSets, TLC

CONSTANTS P,         \* number of ranks
          Payloads   \* Payloads[p][q]: number of items p sends to q, where q
                     \* is in the domain of Payloads[p] iff p informs q

Rank == 0 .. P-1

SC_TAG_NOTIFY_NBX == "NBX"
SC_TAG_NOTIFY_NBXV == "NBXV"

VARIABLES pc, tosend, net, ibarrier,
          senders,      \* sources in order of arrival
          out_offsets,  \* offsets of their payload in out_payload
          returned      \* the ranks whose call has returned

vars == <<pc, tosend, net, ibarrier, senders, out_offsets, returned>>

Init ==
  /\ pc = [p \in Rank |-> "probe"]
  /\ tosend = [p \in Rank |-> DOMAIN Payloads[p]]
  /\ net = {}
  /\ ibarrier = {}
  /\ senders = [p \in Rank |-> <<>>]
  /\ out_offsets = [p \in Rank |-> <<0>>]
  /\ returned = {}

Issend(p) ==
  \E q \in tosend[p] :
     /\ tosend' = [tosend EXCEPT ![p] = @ \ {q}]
     /\ net' = net \cup {[src |-> p, dst |-> q, tag |-> SC_TAG_NOTIFY_NBXV,
                          count |-> Payloads[p][q]]}
     /\ UNCHANGED <<pc, ibarrier, senders, out_offsets, returned>>

(* MPI_Iprobe sets flag, and the message it reports is received.           *)
ProbeHit(p) ==
  /\ pc[p] = "probe"
  /\ tosend[p] = {}
  /\ \E m \in net :
       /\ m.dst = p
       /\ m.tag = SC_TAG_NOTIFY_NBX
       /\ net' = net \ {m}
       /\ senders' = [senders EXCEPT ![p] = Append(@, m.src)]
       /\ out_offsets' = [out_offsets EXCEPT ![p] = Append(@, @[Len(@)] + m.count)]
  /\ pc' = [pc EXCEPT ![p] = "test"]
  /\ UNCHANGED <<tosend, ibarrier, returned>>

ProbeMiss(p) ==
  /\ pc[p] = "probe"
  /\ tosend[p] = {}
  /\ pc' = [pc EXCEPT ![p] = "test"]
  /\ UNCHANGED <<tosend, net, ibarrier, senders, out_offsets, returned>>

TestallSent(p) ==
  /\ pc[p] = "test"
  /\ p \notin ibarrier
  /\ \A m \in net : m.src # p
  /\ ibarrier' = ibarrier \cup {p}
  /\ pc' = [pc EXCEPT ![p] = "probe"]
  /\ UNCHANGED <<tosend, net, senders, out_offsets, returned>>

TestPending(p) ==
  /\ pc[p] = "test"
  /\ pc' = [pc EXCEPT ![p] = "probe"]
  /\ UNCHANGED <<tosend, net, ibarrier, senders, out_offsets, returned>>

TestDone(p) ==
  /\ pc[p] = "test"
  /\ p \in ibarrier
  /\ ibarrier = Rank
  /\ returned' = returned \cup {p}
  /\ pc' = [pc EXCEPT ![p] = "idle"]
  /\ UNCHANGED <<tosend, net, ibarrier, senders, out_offsets>>

Next ==
  \E p \in Rank : \/ Issend(p) \/ ProbeHit(p) \/ ProbeMiss(p)
                  \/ TestallSent(p) \/ TestPending(p) \/ TestDone(p)

(* As in NotifyNbx: the loop keeps running, and a repeated probe or test   *)
(* eventually reports what can be reported.                                *)
Fairness ==
  \A p \in Rank : /\ WF_vars(Issend(p))
                  /\ WF_vars(ProbeHit(p) \/ ProbeMiss(p))
                  /\ WF_vars(TestallSent(p) \/ TestPending(p) \/ TestDone(p))
                  /\ SF_vars(ProbeHit(p))
                  /\ SF_vars(TestallSent(p))
                  /\ SF_vars(TestDone(p))

FairSpec == Init /\ [][Next]_vars /\ Fairness

(* The call returns on every rank, out_offsets having one more entry than  *)
(* there are senders.                                                      *)
PayloadvReturns ==
  <>(/\ returned = Rank
     /\ \A p \in Rank : Len(out_offsets[p]) = Len(senders[p]) + 1)

-----------------------------------------------------------------------------
\* For model checking: two ranks; rank 0 sends two items to rank 1.
OneMessage == (0 :> (1 :> 2)) @@ (1 :> <<>>)

=============================================================================
