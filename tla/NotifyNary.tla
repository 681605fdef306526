----------------------------- MODULE NotifyNary -----------------------------
(***************************************************************************)
(* sc_notify_payload with SC_NOTIFY_NARY (sc_notify_payload_nary).  Each   *)
(* rank climbs the tree of NaryTree.  On every level it splits the         *)
(* notifications it holds by the branch they have to reach, sends one      *)
(* message to each branch, receives a number of messages it has computed,  *)
(* from any source, and merges them into what it holds.                    *)
(*                                                                         *)
(* An array of variable-length records "torank, howmanyfroms, listof       *)
(* (fromrank, payload)" is the set of its notifications; NotifyMerge       *)
(* deals with the order of the records.  The payload of a notification is  *)
(* the call it was made in, which no rank on its way looks at.             *)
(***************************************************************************)
EXTENDS NotifyCalls, NaryTree, TLC

CONSTANT Widths  \* the tree widths ntop, nint and nbot

VARIABLES level,      \* level of the tree p is on
          array,      \* notifications p holds
          recvbufs,   \* recvbufs[p]: receive buffers of this level, by slot
          nreceived   \* messages p has received on this level

vars == <<receivers, mode, entered, pc, level, array, recvbufs, nreceived, net, recv, out>>

Notification == [to : Rank, from : Rank, call : 1 .. Calls]

(* The tree of this communicator, see NaryTree.                            *)
depth == Depth(P, Widths)
Level == 0 .. depth - 1
lengthn == [l \in Level |-> Length(P, Widths, l + 1)]
mypart == [l \in Level |-> [p \in Rank |-> MyPart(P, Widths, l, p)]]
topart == [l \in Level |-> [p \in Rank |-> ToPart(P, Widths, l, p)]]
peer == [l \in Level |-> [p \in Rank |->
           [j \in {i \in Branches(P, Widths, l, p) : Peer(P, Widths, l, p, i) >= 0} |->
              Peer(P, Widths, l, p, j)]]]
nrecv == [l \in Level |-> [p \in Rank |-> Nrecv(P, Widths, l, p)]]
slot == [l \in Level |-> [p \in Rank |-> [q \in Rank |-> Slot(P, Widths, l, p, q)]]]

(* The notifications in a that leave through branch j.                     *)
Part(a, l, j) == {x \in a : topart[l][x.to] = j}

-----------------------------------------------------------------------------

Init ==
  /\ CallsInit
  /\ level = [p \in Rank |-> 0]
  /\ array = [p \in Rank |-> {}]
  /\ recvbufs = [p \in Rank |-> <<>>]
  /\ nreceived = [p \in Rank |-> 0]

(* sc_notify_init_input, and the recursion down to the lowest level.       *)
Enter(p) ==
  /\ MayEnter(p)
  /\ entered' = [entered EXCEPT ![p] = @ + 1]
  /\ array' = [array EXCEPT ![p] =
                 {[to |-> q, from |-> p, call |-> entered[p] + 1] : q \in receivers[entered[p] + 1][p]}]
  /\ level' = [level EXCEPT ![p] = depth - 1]
  /\ pc' = [pc EXCEPT ![p] = "send"]
  /\ UNCHANGED <<receivers, mode, recv, recvbufs, nreceived, net, out>>

(* Faulty variant: the notifications of one's own branch are dropped.      *)
SendDropOwn(p) ==
  /\ pc[p] = "send"
  /\ net' = net \cup
       {[src |-> p, dst |-> peer[level[p]][p][j], level |-> level[p],
         call |-> entered[p], data |-> Part(array[p], level[p], j)] :
           j \in DOMAIN peer[level[p]][p]}
  /\ recvbufs' = [recvbufs EXCEPT ![p] = [j \in {mypart[level[p]][p]} |-> {}]]
  /\ array' = [array EXCEPT ![p] = {}]
  /\ nreceived' = [nreceived EXCEPT ![p] = 0]
  /\ pc' = [pc EXCEPT ![p] = "recv"]
  /\ UNCHANGED <<receivers, mode, recv, entered, level, out>>

(* One message to every branch that has a rank to stand for it, even if it *)
(* has no content.  What stays in the own branch is not sent but put into  *)
(* its receive buffer; the other receive buffers are uninitialised.        *)
Send(p) ==
  /\ pc[p] = "send"
  /\ net' = net \cup
       {[src |-> p, dst |-> peer[level[p]][p][j], level |-> level[p],
         call |-> entered[p], data |-> Part(array[p], level[p], j)] :
           j \in DOMAIN peer[level[p]][p]}
  /\ recvbufs' = [recvbufs EXCEPT ![p] = [j \in {mypart[level[p]][p]} |-> Part(array[p], level[p], j)]]
  /\ array' = [array EXCEPT ![p] = {}]
  /\ nreceived' = [nreceived EXCEPT ![p] = 0]
  /\ pc' = [pc EXCEPT ![p] = "recv"]
  /\ UNCHANGED <<receivers, mode, recv, entered, level, out>>

(* sc_MPI_Probe from any source with a tag that is SC_TAG_NOTIFY_NARY plus *)
(* the level, and sc_MPI_Recv into the buffer that belongs to the source.  *)
Recv(p) ==
  /\ pc[p] = "recv"
  /\ nreceived[p] < nrecv[level[p]][p]
  /\ \E m \in net :
       /\ m.dst = p
       /\ m.level = level[p]
       /\ Oldest(m, {n \in net : n.level = level[p]})
       /\ net' = net \ {m}
       /\ recvbufs' = [recvbufs EXCEPT ![p] =
                         [j \in {slot[level[p]][p][m.src]} |-> m.data] @@ @]
  /\ nreceived' = [nreceived EXCEPT ![p] = @ + 1]
  /\ UNCHANGED <<receivers, mode, recv, entered, pc, level, array, out>>

(* All messages are received and merged and the sends have completed.  A   *)
(* buffer no message was received into holds what malloc returned; the     *)
(* outcome modelled is memory of zeros, which merges as an empty array.    *)
Merged(p) ==
  /\ pc[p] = "recv"
  /\ nreceived[p] = nrecv[level[p]][p]
  /\ SendsComplete(p)

merge(p) == UNION {recvbufs[p][j] : j \in DOMAIN recvbufs[p] \cap (0 .. nrecv[level[p]][p])}

(* Return from the recursion to the level above.                           *)
Ascend(p) ==
  /\ Merged(p)
  /\ level[p] > 0
  /\ array' = [array EXCEPT ![p] = merge(p)]
  /\ level' = [level EXCEPT ![p] = @ - 1]
  /\ pc' = [pc EXCEPT ![p] = "send"]
  /\ UNCHANGED <<receivers, mode, recv, entered, recvbufs, nreceived, net, out>>

(* sc_notify_reset_output: the only record left is the one for this rank,  *)
(* its list ordered by fromrank.                                           *)
Return(p) ==
  /\ Merged(p)
  /\ level[p] = 0
  /\ out' = [out EXCEPT ![p] =
               Append(@, Listed({<<x.from, <<x.from, x.call>>>> : x \in merge(p)}))]
  /\ array' = [array EXCEPT ![p] = {}]
  /\ pc' = [pc EXCEPT ![p] = "idle"]
  /\ UNCHANGED <<receivers, mode, recv, entered, level, recvbufs, nreceived, net>>

Step(p) == Enter(p) \/ Send(p) \/ Recv(p) \/ Ascend(p) \/ Return(p)

Next == \E p \in Rank : Step(p)

Spec == Init /\ [][Next]_vars

-----------------------------------------------------------------------------
(***************************************************************************)
(* Properties                                                              *)
(***************************************************************************)

(* What a rank holds after a level is addressed to ranks at its own        *)
(* position below that level, is of this call, and every notification of   *)
(* the call is held somewhere or has been delivered: the recursion         *)
(* invariant that sc_notify_recursive_nary verifies at its end, and that   *)
(* nothing is lost or duplicated on the way.                               *)

Carried(p) == IF pc[p] = "recv" THEN UNION {recvbufs[p][j] : j \in DOMAIN recvbufs[p]} ELSE array[p]

RecursionInvariant ==
  /\ \A p \in Rank :
       pc[p] = "send" =>
         \A x \in array[p] : /\ x.call = entered[p]
                             /\ x.to % lengthn[level[p]] = p % lengthn[level[p]]
  /\ \A p \in Rank :
       pc[p] # "idle" =>
         \A q \in receivers[entered[p]][p] :
            LET x == [to |-> q, from |-> p, call |-> entered[p]]
            IN Cardinality({r \in Rank : x \in Carried(r)}) + Cardinality({m \in net : x \in m.data})
                 + (IF Len(out[q]) >= entered[p] THEN 1 ELSE 0) = 1

=============================================================================
