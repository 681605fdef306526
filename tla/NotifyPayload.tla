---------------------------- MODULE NotifyPayload ----------------------------
(***************************************************************************)
(* sc_notify_payload where the payload travels apart from the              *)
(* notification: with a type that cannot carry it (SC_NOTIFY_ALLGATHER and *)
(* SC_NOTIFY_BINARY, through sc_notify_payload_wrapper), or with any type  *)
(* if it exceeds the eager threshold.  Once a rank knows its senders it    *)
(* posts its sends and receives from each sender by name.                  *)
(*                                                                         *)
(* SC_NOTIFY_ALLGATHER and SC_NOTIFY_PEX, which are made of collective     *)
(* operations of MPI, are here as well.  The notification by another type  *)
(* is what Notify promises, which the module of that type implements: one  *)
(* step that is possible once all senders of a rank have made the call.    *)
(***************************************************************************)
EXTENDS NotifyCalls, Functions

VARIABLES list,     \* current content of p's array `receivers'
          senders,  \* the senders p was notified of, in order
          got       \* got[p]: the payload received, by sender

vars == <<receivers, mode, entered, pc, list, senders, got, net, recv, out>>

(* A set of ranks as an array, in any order or by increasing rank.         *)
Listings(S) ==
  {s \in [1 .. Cardinality(S) -> S] : \A i, j \in DOMAIN s : i # j => s[i] # s[j]}
Ascending(S) == {s \in Listings(S) : \A i, j \in DOMAIN s : i < j => s[i] < s[j]}

(* The orders in which the notification may list the senders.              *)
Orders(S) ==
  IF mode.sorted \/ mode.type \in {"allgather", "binary", "nary", "pex", "ranges"}
  THEN Ascending(S) ELSE Listings(S)

(* Elements of got[p] are filled in one by one.                            *)
Stored(f, q, item) == [r \in DOMAIN f \cup {q} |-> IF r = q THEN item ELSE f[r]]

-----------------------------------------------------------------------------

Init ==
  /\ CallsInit
  /\ list = [p \in Rank |-> <<>>]
  /\ senders = [p \in Rank |-> <<>>]
  /\ got = [p \in Rank |-> <<>>]

Enter(p) ==
  /\ MayEnter(p)
  /\ entered' = [entered EXCEPT ![p] = @ + 1]
  /\ \E s \in Ascending(receivers[entered[p] + 1][p]) : list' = [list EXCEPT ![p] = s]
  /\ pc' = [pc EXCEPT ![p] = "notify"]
  /\ UNCHANGED <<receivers, mode, senders, got, net, recv, out>>

(* The call returns; senders replaces receivers if no array was given.     *)
Finish(p, found, payload) ==
  /\ out' = [out EXCEPT ![p] =
               Append(@, [senders |-> found, payload |-> IF mode.payload THEN payload ELSE <<>>])]
  /\ list' = [list EXCEPT ![p] = IF mode.inplace THEN found ELSE @]
  /\ pc' = [pc EXCEPT ![p] = "idle"]

(* The notification gives p its senders.  If it was made without the       *)
(* payload because of the threshold, it has put the senders in place of    *)
(* the receivers already.                                                  *)
Notified(p) ==
  \E found \in Orders(Senders(entered[p], p)) :
     IF mode.payload
     THEN /\ senders' = [senders EXCEPT ![p] = found]
          /\ list' = [list EXCEPT ![p] = IF mode.inplace /\ ~mode.eager THEN found ELSE @]
          /\ got' = [got EXCEPT ![p] = <<>>]
          /\ pc' = [pc EXCEPT ![p] = "post"]
          /\ UNCHANGED <<receivers, mode, entered, net, recv, out>>
     ELSE /\ Finish(p, found, <<>>)
          /\ UNCHANGED <<receivers, mode, entered, senders, got, net, recv>>

(* sc_notify_allgather: all ranks learn the receivers of all ranks.        *)
LeaveAllgather(p) ==
  /\ pc[p] = "notify"
  /\ mode.type = "allgather"
  /\ \A q \in Rank : entered[q] >= entered[p]
  /\ Notified(p)

(* Any other type but SC_NOTIFY_PEX.                                       *)
LeaveNotify(p) ==
  /\ pc[p] = "notify"
  /\ mode.type \notin {"allgather", "pex"}
  /\ \A q \in Senders(entered[p], p) : entered[q] >= entered[p]
  /\ Notified(p)

(* sc_notify_payload_pex: an all-to-all exchange of a flag and, if eager,  *)
(* the payload, which completes the call.                                  *)
LeavePex(p) ==
  /\ pc[p] = "notify"
  /\ mode.type = "pex"
  /\ \A q \in Rank : entered[q] >= entered[p]
  /\ IF mode.payload /\ mode.eager
     THEN \E found \in Ascending(Senders(entered[p], p)) :
            /\ Finish(p, found, [i \in DOMAIN found |-> <<found[i], entered[p]>>])
            /\ UNCHANGED <<receivers, mode, entered, senders, got, net, recv>>
     ELSE Notified(p)

(* Faulty variant: receivers is not copied before it is overwritten.       *)
PostNoCopy(p) ==
  /\ pc[p] = "post"
  /\ net' = net \cup {[src |-> p, dst |-> q, call |-> entered[p]] : q \in Range(list[p])}
  /\ pc' = [pc EXCEPT ![p] = "exchange"]
  /\ UNCHANGED <<receivers, mode, entered, list, senders, got, recv, out>>

(* The sends go to the receivers as they were on input: to receivers_copy  *)
(* if the notification has overwritten them.                               *)
Post(p) ==
  /\ pc[p] = "post"
  /\ LET targets == IF mode.inplace /\ ~mode.eager
                    THEN receivers[entered[p]][p] ELSE Range(list[p])
     IN net' = net \cup {[src |-> p, dst |-> q, call |-> entered[p]] : q \in targets}
  /\ pc' = [pc EXCEPT ![p] = "exchange"]
  /\ UNCHANGED <<receivers, mode, entered, list, senders, got, recv, out>>

(* The message from a sender is received: in any order if the receives are *)
(* nonblocking, as in the wrapper, else in the order of the senders.       *)
Recv(p) ==
  /\ pc[p] = "exchange"
  /\ \E i \in DOMAIN senders[p] :
       /\ senders[p][i] \notin DOMAIN got[p]
       /\ ~mode.eager => \A j \in 1 .. i - 1 : senders[p][j] \in DOMAIN got[p]
       /\ \E m \in net : /\ m.src = senders[p][i] /\ m.dst = p /\ Oldest(m, net)
                         /\ net' = net \ {m}
                         /\ got' = [got EXCEPT ![p] = Stored(@, m.src, <<m.src, m.call>>)]
  /\ UNCHANGED <<receivers, mode, entered, pc, list, senders, recv, out>>

(* Everything is received, sc_MPI_Waitall for the sends.                   *)
Return(p) ==
  /\ pc[p] = "exchange"
  /\ DOMAIN got[p] = Range(senders[p])
  /\ SendsComplete(p)
  /\ Finish(p, senders[p], [i \in DOMAIN senders[p] |-> got[p][senders[p][i]]])
  /\ UNCHANGED <<receivers, mode, entered, senders, got, net, recv>>

Step(p) ==
  \/ Enter(p) \/ LeaveAllgather(p) \/ LeaveNotify(p) \/ LeavePex(p)
  \/ Post(p) \/ Recv(p) \/ Return(p)

Next == \E p \in Rank : Step(p)

Spec == Init /\ [][Next]_vars

-----------------------------------------------------------------------------
(***************************************************************************)
(* Properties                                                              *)
(***************************************************************************)

(* Naming the source keeps consecutive calls apart, although all use the   *)
(* same tag: when a rank returns, no message of that call to it is left.   *)
NothingLeftOver == \A m \in net : m.call > Len(out[m.dst])

=============================================================================
