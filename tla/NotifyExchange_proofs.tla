------------------------ MODULE NotifyExchange_proofs -----------------------
(***************************************************************************)
(* Proofs about the types that exchange messages once a census has told a  *)
(* rank how many to expect (NotifyCensus), and about payload that is       *)
(* exchanged once a rank knows its senders (NotifyPayload), for any number *)
(* of ranks, any number of consecutive calls and any receiver patterns.    *)
(***************************************************************************)
EXTENDS NotifyCensus, NotifyCalls_proofs

(* Rank p has returned from call c.                                        *)
Finished(p, c) == entered[p] > c \/ (entered[p] = c /\ pc[p] = "idle")

(* Rank q is past the point of call c where it sends to p.                 *)
Sent(q, p, c) ==
  entered[q] > c \/ (entered[q] = c /\ pc[q] # "census" /\ p \notin tosend[q])

(* No rank leaves a census before all ranks have entered it, hence no rank *)
(* is a whole call ahead of another.                                       *)
LockStep ==
  \A p, q \in Rank : /\ entered[q] >= entered[p] - 1
                     /\ pc[p] # "census" => entered[q] >= entered[p]
                     /\ pc[p] # "idle" => entered[p] >= 1

TosendOK ==
  \A p \in Rank : IF pc[p] = "exchange" THEN tosend[p] \subseteq receivers[entered[p]][p]
                                        ELSE tosend[p] = {}

(* A message in flight is due in the call its destination is in.           *)
NetOK ==
  \A m \in net : /\ m.dst \in receivers[m.call][m.src]
                 /\ Sent(m.src, m.dst, m.call)
                 /\ entered[m.dst] = m.call
                 /\ pc[m.dst] # "idle"

(* A rank does not return from a call while a sender has not sent to it.   *)
UnsentOK ==
  \A p, q \in Rank :
     /\ entered[q] >= 1
     /\ p \in receivers[entered[q]][q]
     /\ ~Sent(q, p, entered[q])
     => ~Finished(p, entered[q])

(* What has been received is what was sent and is not in flight any more.  *)
RecvOK ==
  \A p, q \in Rank :
     entered[p] >= 1 =>
       (q \in Sources(recv[p]) <=> /\ q \in Senders(entered[p], p)
                                   /\ Sent(q, p, entered[p])
                                   /\ Msg(q, p, entered[p]) \notin net)

CountOK ==
  \A p \in Rank :
     /\ pc[p] = "exchange" => num_senders[p] = Cardinality(Senders(entered[p], p))
     /\ pc[p] = "idle" /\ entered[p] >= 1 => Sources(recv[p]) = Senders(entered[p], p)
     /\ ReceivedOnce(recv[p])

(* The inductive invariant.                                                *)
IInv ==
  /\ TypeOK
  /\ LockStep
  /\ TosendOK
  /\ NetOK
  /\ UnsentOK
  /\ RecvOK
  /\ CountOK

-----------------------------------------------------------------------------

(* Sorting rearranges the items, and what is returned has the right type.  *)
LEMMA OutputType ==
  ASSUME NEW s \in Seq(Item), NEW t \in SortedBySource(s) \cup {s}
  PROVE  Output(t) \in Result
<1>1. t \in Seq(Item)
  BY SortedType, Zenon
<1>2. \A i \in 1 .. Len(t) : t[i][1] \in Rank /\ t[i][2] \in Rank \X (1 .. Calls)
  BY <1>1 DEF Item
<1>3. DOMAIN t = 1 .. Len(t) /\ Len(t) \in Nat
  BY <1>1
<1>4. [i \in DOMAIN t |-> t[i][1]] \in Seq(Rank)
  BY <1>2, <1>3
<1>5. [i \in DOMAIN t |-> t[i][2]] \in Seq(Rank \X (1 .. Calls))
  BY <1>2, <1>3
<1> QED
  BY <1>4, <1>5 DEF Output, Result

-----------------------------------------------------------------------------

(* Before the first call nothing is sent, received or owed.                 *)
LEMMA InitIInv == Init => IInv
<1> SUFFICES ASSUME Init PROVE IInv
  OBVIOUS
<1> USE PAssumption, CallsAssumption, PatternsAssumption, ModesAssumption
<1>1. TypeOK
  BY DEF Init, CallsInit, TypeOK, Rank
<1>2. LockStep /\ TosendOK /\ NetOK /\ UnsentOK /\ RecvOK
  BY DEF Init, CallsInit, LockStep, TosendOK, NetOK, UnsentOK, RecvOK
<1>3. CountOK
  BY DEF Init, CallsInit, CountOK, ReceivedOnce
<1> QED
  BY <1>1, <1>2, <1>3, Zenon DEF IInv

(* A rank enters its next call.                                            *)
LEMMA EnterCensusStep ==
  ASSUME IInv, NEW p \in Rank, EnterCensus(p)
  PROVE  IInv'
<1> USE CallsAssumption DEF IInv
<1>0. /\ \A q \in Rank : entered[q] \in 0 .. Calls
      /\ \A m \in net : m.src \in Rank /\ m.dst \in Rank /\ m.call \in 1 .. Calls
  BY Zenon DEF TypeOK, Message
<1>a. /\ pc[p] = "idle" /\ pc'[p] = "census"
      /\ entered'[p] = entered[p] + 1
      /\ recv'[p] = <<>>
      /\ \A q \in Rank \ {p} : /\ pc'[q] = pc[q]
                              /\ entered'[q] = entered[q]
                              /\ recv'[q] = recv[q]
      /\ UNCHANGED <<receivers, tosend, net>>
  BY Zenon DEF EnterCensus, MayEnter, TypeOK
<1>1. TypeOK'
  BY DEF TypeOK, EnterCensus, MayEnter
<1>2. LockStep'
  <2> SUFFICES ASSUME NEW r \in Rank, NEW q \in Rank
               PROVE  /\ entered'[q] >= entered'[r] - 1
                      /\ pc'[r] # "census" => entered'[q] >= entered'[r]
                      /\ pc'[r] # "idle" => entered'[r] >= 1
    BY Zenon DEF LockStep
  <2>1. entered'[q] >= entered[q] /\ entered'[q] \in Nat
    BY <1>0, <1>a
  <2>2. CASE r = p
    BY <1>0, <1>a, <2>1, <2>2 DEF LockStep
  <2>3. CASE r # p
    BY <1>0, <1>a, <2>1, <2>3 DEF LockStep
  <2> QED
    BY <2>2, <2>3, Zenon
<1>3. TosendOK'
  BY Zenon DEF TypeOK, TosendOK, EnterCensus, MayEnter
<1>4. \A q, r \in Rank : \A c \in 1 .. Calls : Sent(q, r, c) => Sent(q, r, c)'
  BY <1>0, <1>a DEF Sent
<1>5. NetOK'
  <2> SUFFICES ASSUME NEW m \in net
               PROVE  /\ m.dst \in receivers[m.call][m.src]
                      /\ Sent(m.src, m.dst, m.call)'
                      /\ entered'[m.dst] = m.call
                      /\ pc'[m.dst] # "idle"
    BY <1>a, Zenon DEF NetOK
  <2>1. m.dst # p
    BY <1>a, Zenon DEF NetOK
  <2> QED
    BY <1>0, <1>a, <1>4, <2>1, Zenon DEF NetOK
<1>6. UnsentOK'
  <2> SUFFICES ASSUME NEW r \in Rank, NEW q \in Rank,
                      entered'[q] >= 1, r \in receivers[entered'[q]][q],
                      ~Sent(q, r, entered[q])'
               PROVE  ~Finished(r, entered[q])'
    BY <1>a, Zenon DEF UnsentOK
  <2>1. CASE q = p
    BY <1>0, <1>a, <2>1 DEF LockStep, Finished
  <2>2. CASE q # p
    <3>1. ~Sent(q, r, entered[q]) /\ entered'[q] = entered[q] /\ entered[q] \in 1 .. Calls
      BY <1>0, <1>a, <1>4, <2>2
    <3>2. ~Finished(r, entered[q])
      BY <1>0, <1>a, <2>2, <3>1, Zenon DEF UnsentOK
    <3> QED
      BY <1>0, <1>a, <2>2, <3>1, <3>2 DEF Finished
  <2> QED
    BY <2>1, <2>2, Zenon
<1>7. RecvOK'
  <2> SUFFICES ASSUME NEW r \in Rank, NEW q \in Rank, entered'[r] >= 1
               PROVE  q \in Sources(recv'[r])
                        <=> /\ q \in Senders(entered[r], r)'
                            /\ Sent(q, r, entered[r])'
                            /\ Msg(q, r, entered'[r]) \notin net
    BY <1>a, Zenon DEF RecvOK, Sources, Msg
  <2>1. CASE r = p
    <3>1. Sources(recv'[r]) = {}
      BY <1>a, <2>1 DEF Sources
    <3>2. ~Sent(q, r, entered[r])'
      BY <1>0, <1>a, <2>1 DEF Sent, LockStep
    <3> QED
      BY <3>1, <3>2, Zenon
  <2>2. CASE r # p
    <3>1. entered'[r] = entered[r] /\ recv'[r] = recv[r] /\ entered[r] \in 1 .. Calls
      BY <1>0, <1>a, <2>2
    <3>2. Senders(entered[r], r)' = Senders(entered[r], r)
      BY <1>a, <3>1, Zenon DEF Senders
    <3>3. Sent(q, r, entered[r])' <=> Sent(q, r, entered[r])
      BY <1>0, <1>a, <3>1 DEF Sent, TosendOK, LockStep
    <3> QED
      BY <3>1, <3>2, <3>3, Zenon DEF RecvOK
  <2> QED
    BY <2>1, <2>2, Zenon
<1>8. CountOK'
  <2> SUFFICES ASSUME NEW r \in Rank
               PROVE  /\ pc'[r] = "exchange"
                           => num_senders'[r] = Cardinality(Senders(entered[r], r)')
                      /\ pc'[r] = "idle" /\ entered'[r] >= 1
                           => Sources(recv'[r]) = Senders(entered[r], r)'
                      /\ ReceivedOnce(recv'[r])
    BY Zenon DEF CountOK, ReceivedOnce, Sources
  <2>1. CASE r = p
    BY <1>a, <2>1 DEF ReceivedOnce
  <2>2. CASE r # p
    <3>1. Senders(entered[r], r)' = Senders(entered[r], r) /\ num_senders' = num_senders
      BY <1>a, <2>2, Zenon DEF Senders, EnterCensus, MayEnter
    <3> QED
      BY <1>a, <2>2, <3>1, Zenon DEF CountOK
  <2> QED
    BY <2>1, <2>2, Zenon
<1> QED
  BY <1>1, <1>2, <1>3, <1>5, <1>6, <1>7, <1>8, Zenon

(* A rank gets the result of the census.                                   *)
LEMMA LeaveCensusStep ==
  ASSUME IInv, NEW p \in Rank, LeaveCensus(p)
  PROVE  IInv'
<1> USE CallsAssumption DEF IInv
<1>0. /\ \A q \in Rank : entered[q] \in 0 .. Calls
      /\ \A m \in net : m.src \in Rank /\ m.dst \in Rank /\ m.call \in 1 .. Calls
  BY Zenon DEF TypeOK, Message
<1>a. /\ pc[p] = "census" /\ pc'[p] = "exchange"
      /\ tosend'[p] = receivers[entered[p]][p]
      /\ \A q \in Rank \ {p} : pc'[q] = pc[q] /\ tosend'[q] = tosend[q]
      /\ UNCHANGED <<receivers, entered, net, recv>>
  BY Zenon DEF LeaveCensus, TypeOK
<1>1. TypeOK'
  BY <1>0, SendersFinite DEF TypeOK, LeaveCensus, LockStep
<1>2. LockStep'
  BY <1>0, Zenon DEF TypeOK, LockStep, LeaveCensus
<1>3. TosendOK'
  BY Zenon DEF TypeOK, TosendOK, LeaveCensus
<1>4. NetOK'
  BY <1>0, Zenon DEF TypeOK, NetOK, Sent, LeaveCensus, Message
<1>5. \A q, r \in Rank : \A c \in 1 .. Calls :
         r \in receivers[c][q] => (Sent(q, r, c) <=> Sent(q, r, c)')
  BY <1>0, <1>a, Zenon DEF Sent
<1>6. UnsentOK'
  <2> SUFFICES ASSUME NEW r \in Rank, NEW q \in Rank,
                      entered[q] >= 1, r \in receivers[entered[q]][q],
                      ~Sent(q, r, entered[q])'
               PROVE  ~Finished(r, entered[q])'
    BY <1>a, Zenon DEF UnsentOK
  <2>1. ~Sent(q, r, entered[q])
    BY <1>0, <1>a, <1>5
  <2>2. ~Finished(r, entered[q])
    BY <2>1, Zenon DEF UnsentOK
  <2> QED
    BY <1>0, <1>a, <2>2, Zenon DEF Finished
<1>7. RecvOK'
  <2> SUFFICES ASSUME NEW r \in Rank, NEW q \in Rank, entered[r] >= 1
               PROVE  q \in Sources(recv[r])
                        <=> /\ q \in Senders(entered[r], r)
                            /\ Sent(q, r, entered[r])'
                            /\ Msg(q, r, entered[r]) \notin net
    BY <1>a DEF RecvOK, Sources, Senders, Msg
  <2> QED
    BY <1>0, <1>a, <1>5 DEF RecvOK, Senders
<1>8. CountOK'
  <2> SUFFICES ASSUME NEW r \in Rank
               PROVE  /\ pc'[r] = "exchange"
                           => num_senders'[r] = Cardinality(Senders(entered[r], r))
                      /\ pc'[r] = "idle" /\ entered[r] >= 1
                           => Sources(recv[r]) = Senders(entered[r], r)
                      /\ ReceivedOnce(recv[r])
    <3>1. \A r \in Rank : Senders(entered[r], r)' = Senders(entered[r], r)
      BY <1>a, Zenon DEF Senders
    <3> QED
      BY <1>a, <3>1, Zenon DEF CountOK
  <2>1. num_senders'[r] = IF r = p THEN Cardinality(Senders(entered[p], p)) ELSE num_senders[r]
    BY Zenon DEF LeaveCensus, TypeOK
  <2> QED
    BY <1>a, <2>1, Zenon DEF CountOK
<1> QED
  BY <1>1, <1>2, <1>3, <1>4, <1>6, <1>7, <1>8, Zenon

(* A rank posts a send.                                                    *)
LEMMA IsendStep ==
  ASSUME IInv, NEW p \in Rank, Isend(p)
  PROVE  IInv'
<1> USE CallsAssumption DEF IInv
<1>0. /\ \A q \in Rank : entered[q] \in 0 .. Calls
      /\ \A m \in net : m.src \in Rank /\ m.dst \in Rank /\ m.call \in 1 .. Calls
  BY Zenon DEF TypeOK, Message
<1> PICK d \in tosend[p] :
       /\ tosend' = [tosend EXCEPT ![p] = @ \ {d}]
       /\ net' = net \cup {Msg(p, d, entered[p])}
       /\ UNCHANGED <<receivers, mode, entered, pc, num_senders, recv, out>>
  BY Zenon DEF Isend, Msg
<1>a. /\ d \in Rank
      /\ pc[p] = "exchange"
      /\ entered[p] \in 1 .. Calls
      /\ d \in receivers[entered[p]][p]
      /\ tosend'[p] = tosend[p] \ {d}
      /\ \A q \in Rank \ {p} : tosend'[q] = tosend[q]
  BY <1>0 DEF TypeOK, TosendOK, LockStep
<1>1. TypeOK'
  BY <1>a DEF TypeOK, Message, Msg
<1>2. LockStep'
  BY Zenon DEF LockStep
<1>3. TosendOK'
  BY <1>a, Zenon DEF TosendOK
<1>4. \A q, r \in Rank : \A c \in 1 .. Calls :
         Sent(q, r, c)' <=> Sent(q, r, c) \/ Msg(q, r, c) = Msg(p, d, entered[p])
  BY <1>0, <1>a, Zenon DEF Sent, Msg
<1>5. NetOK'
  <2>1. ~Sent(p, d, entered[p])
    BY <1>0, <1>a DEF Sent
  <2>2. entered[d] = entered[p] /\ pc[d] # "idle"
    BY <1>0, <1>a, <2>1 DEF UnsentOK, Finished, LockStep
  <2>3. \A m \in net : /\ m.dst \in receivers[m.call][m.src]
                       /\ Sent(m.src, m.dst, m.call)'
                       /\ entered[m.dst] = m.call
                       /\ pc[m.dst] # "idle"
    BY <1>0, <1>4, Zenon DEF NetOK
  <2>4. Sent(p, d, entered[p])'
    BY <1>a, <1>4, Zenon
  <2> QED
    BY <1>a, <2>2, <2>3, <2>4 DEF NetOK, Msg
<1>6. UnsentOK'
  BY <1>0, <1>4 DEF UnsentOK, Finished
<1>7. RecvOK'
  <2> SUFFICES ASSUME NEW r \in Rank, NEW q \in Rank, entered[r] >= 1
               PROVE  q \in Sources(recv[r])
                        <=> /\ q \in Senders(entered[r], r)
                            /\ Sent(q, r, entered[r])'
                            /\ Msg(q, r, entered[r]) \notin net'
    BY DEF RecvOK, Sources, Senders, Msg
  <2>1. ~Sent(p, d, entered[p])
    BY <1>0, <1>a DEF Sent
  <2> QED
    BY <1>0, <1>4, <2>1 DEF RecvOK, Msg
<1>8. CountOK'
  <2>1. \A r \in Rank : Senders(entered[r], r)' = Senders(entered[r], r)
    BY Zenon DEF Senders
  <2> QED
    BY <2>1, Zenon DEF CountOK
<1> QED
  BY <1>1, <1>2, <1>3, <1>5, <1>6, <1>7, <1>8, Zenon

(* A rank receives a message from any source.                              *)
LEMMA RecvStep ==
  ASSUME IInv, NEW p \in Rank, Recv(p)
  PROVE  IInv'
<1> USE CallsAssumption DEF IInv
<1>0. /\ \A q \in Rank : entered[q] \in 0 .. Calls
      /\ \A m \in net : m.src \in Rank /\ m.dst \in Rank /\ m.call \in 1 .. Calls
  BY Zenon DEF TypeOK, Message
<1> PICK m \in net :
       /\ m.dst = p
       /\ net' = net \ {m}
       /\ recv' = [recv EXCEPT ![p] = Append(@, <<m.src, <<m.src, m.call>>>>)]
       /\ UNCHANGED <<receivers, mode, entered, pc, num_senders, tosend, out>>
       /\ pc[p] = "exchange"
  BY Zenon DEF Recv
<1> DEFINE x == <<m.src, <<m.src, m.call>>>>
<1>a. /\ m.call = entered[p]
      /\ m.src \in Senders(entered[p], p)
      /\ Sent(m.src, p, entered[p])
      /\ entered[p] \in 1 .. Calls
      /\ m = Msg(m.src, p, entered[p])
  BY <1>0, Zenon DEF NetOK, Senders, Msg, TypeOK, Message
<1>b. x \in Item /\ recv[p] \in Seq(Item)
  BY <1>0, Zenon DEF Item, TypeOK
<1>c. /\ recv'[p] = Append(recv[p], x)
      /\ \A q \in Rank \ {p} : recv'[q] = recv[q]
  BY Zenon DEF TypeOK
<1>d. m.src \notin Sources(recv[p])
  BY <1>0, <1>a DEF RecvOK
<1>1. TypeOK'
  BY <1>b DEF TypeOK
<1>2. LockStep' /\ TosendOK'
  BY Zenon DEF LockStep, TosendOK
<1>3. NetOK'
  BY Zenon DEF NetOK, Sent
<1>4. UnsentOK'
  BY Zenon DEF UnsentOK, Sent, Finished
<1>5. Sources(recv'[p]) = Sources(recv[p]) \cup {m.src} /\ ReceivedOnce(recv'[p])
  BY <1>b, <1>c, <1>d, SourcesAppend DEF CountOK
<1>6. RecvOK'
  <2> SUFFICES ASSUME NEW r \in Rank, NEW q \in Rank, entered[r] >= 1
               PROVE  q \in Sources(recv'[r])
                        <=> /\ q \in Senders(entered[r], r)
                            /\ Sent(q, r, entered[r])
                            /\ Msg(q, r, entered[r]) \notin net'
    BY DEF RecvOK, Sources, Senders, Msg, Sent
  <2>1. CASE r = p
    <3>1. CASE q = m.src
      BY <1>a, <1>5, <2>1, <3>1, Zenon
    <3>2. CASE q # m.src
      <4>1. Msg(q, r, entered[r]) # m
        BY <1>a, <3>2 DEF Msg
      <4> QED
        BY <1>5, <2>1, <3>2, <4>1, Zenon DEF RecvOK
    <3> QED
      BY <3>1, <3>2, Zenon
  <2>2. CASE r # p
    <3>1. Msg(q, r, entered[r]) # m
      BY <1>a, <2>2 DEF Msg
    <3> QED
      BY <1>c, <2>2, <3>1, Zenon DEF RecvOK
  <2> QED
    BY <2>1, <2>2, Zenon
<1>7. CountOK'
  <2> SUFFICES ASSUME NEW r \in Rank
               PROVE  /\ pc[r] = "exchange"
                           => num_senders[r] = Cardinality(Senders(entered[r], r))
                      /\ pc[r] = "idle" /\ entered[r] >= 1
                           => Sources(recv'[r]) = Senders(entered[r], r)
                      /\ ReceivedOnce(recv'[r])
    <3>1. \A r \in Rank : Senders(entered[r], r)' = Senders(entered[r], r)
      BY Zenon DEF Senders
    <3> QED
      BY <3>1, Zenon DEF CountOK
  <2> QED
    BY <1>c, <1>5, Zenon DEF CountOK
<1> QED
  BY <1>1, <1>2, <1>3, <1>4, <1>6, <1>7, Zenon

(* The count of the census is reached only by the set it counted.          *)
LEMMA CountMeansAll ==
  ASSUME IInv, NEW p \in Rank, pc[p] = "exchange", Len(recv[p]) = num_senders[p]
  PROVE  Sources(recv[p]) = Senders(entered[p], p)
<1>1. recv[p] \in Seq(Item) /\ ReceivedOnce(recv[p]) /\ entered[p] >= 1
  BY Zenon DEF IInv, TypeOK, CountOK, LockStep
<1>2. Sources(recv[p]) \in SUBSET Rank
  BY <1>1 DEF Sources, Item
<1>3. Sources(recv[p]) \in SUBSET Senders(entered[p], p)
  BY <1>1, <1>2, Zenon DEF IInv, RecvOK
<1>4. Cardinality(Sources(recv[p])) = Cardinality(Senders(entered[p], p))
  BY <1>1, SourcesCount, Zenon DEF IInv, CountOK
<1> QED
  BY <1>3, <1>4, SendersFinite, FS_Subset, Zenon

(* A rank returns from the call.                                           *)
LEMMA ReturnStep ==
  ASSUME IInv, NEW p \in Rank, Return(p)
  PROVE  IInv'
<1> USE CallsAssumption DEF IInv
<1>0. /\ \A q \in Rank : entered[q] \in 0 .. Calls
      /\ \A m \in net : m.src \in Rank /\ m.dst \in Rank /\ m.call \in 1 .. Calls
  BY Zenon DEF TypeOK, Message
<1>a. /\ pc[p] = "exchange" /\ pc'[p] = "idle"
      /\ tosend[p] = {}
      /\ Len(recv[p]) = num_senders[p]
      /\ \A q \in Rank \ {p} : pc'[q] = pc[q]
      /\ UNCHANGED <<receivers, mode, entered, num_senders, tosend, net, recv>>
  BY Zenon DEF Return, TypeOK
<1>b. Sources(recv[p]) = Senders(entered[p], p)
  BY <1>a, CountMeansAll, Zenon
<1>c. entered[p] \in 1 .. Calls
  BY <1>0, <1>a DEF LockStep
<1>d. \A q \in Senders(entered[p], p) :
         Sent(q, p, entered[p]) /\ Msg(q, p, entered[p]) \notin net
  BY <1>b, <1>c DEF RecvOK, Senders
<1>1. TypeOK'
  <2>1. PICK t \in SortedBySource(recv[p]) \cup {recv[p]} :
           out' = [out EXCEPT ![p] = Append(@, Output(t))]
    BY Zenon DEF Return
  <2>2. Output(t) \in Result
    BY OutputType, Zenon DEF TypeOK
  <2>3. out' \in [Rank -> Seq(Result)]
    BY <2>1, <2>2 DEF TypeOK
  <2>4. pc' \in [Rank -> {"idle", "census", "exchange"}]
    BY Zenon DEF Return, TypeOK
  <2> QED
    BY <1>a, <2>3, <2>4, Zenon DEF TypeOK
<1>2. LockStep'
  BY <1>a, Zenon DEF LockStep
<1>3. TosendOK'
  BY <1>a, Zenon DEF TosendOK
<1>4. \A q, r \in Rank : \A c \in 1 .. Calls : Sent(q, r, c)' <=> Sent(q, r, c)
  BY <1>0, <1>a, Zenon DEF Sent
<1>5. NetOK'
  <2> SUFFICES ASSUME NEW m \in net PROVE m.dst # p
    BY <1>0, <1>a, <1>4, Zenon DEF NetOK
  <2> SUFFICES ASSUME m.dst = p PROVE FALSE
    OBVIOUS
  <2>1. m = Msg(m.src, p, entered[p]) /\ m.src \in Senders(entered[p], p)
    BY <1>0, Zenon DEF NetOK, TypeOK, Message, Msg, Senders
  <2> QED
    BY <1>d, <2>1, Zenon
<1>6. UnsentOK'
  <2> SUFFICES ASSUME NEW r \in Rank, NEW q \in Rank,
                      entered[q] >= 1, r \in receivers[entered[q]][q],
                      ~Sent(q, r, entered[q])
               PROVE  ~Finished(r, entered[q])'
    BY <1>0, <1>a, <1>4 DEF UnsentOK
  <2>1. ~Finished(r, entered[q])
    BY Zenon DEF UnsentOK
  <2>2. ~(r = p /\ entered[p] = entered[q])
    BY <1>d, Zenon DEF Senders
  <2> QED
    BY <1>0, <1>a, <2>1, <2>2, Zenon DEF Finished
<1>7. RecvOK'
  BY <1>0, <1>a, <1>4 DEF RecvOK, Senders, Sources, Msg
<1>8. CountOK'
  <2>1. \A r \in Rank : Senders(entered[r], r)' = Senders(entered[r], r)
    BY <1>a, Zenon DEF Senders
  <2> QED
    BY <1>a, <1>b, <2>1, Zenon DEF CountOK
<1> QED
  BY <1>1, <1>2, <1>3, <1>5, <1>6, <1>7, <1>8, Zenon

-----------------------------------------------------------------------------

(* A step of any rank, or none, keeps the invariant.                       *)
LEMMA StepIInv ==
  ASSUME IInv, NEW p \in Rank, Step(p)
  PROVE  IInv'
  BY EnterCensusStep, LeaveCensusStep, IsendStep, RecvStep, ReturnStep, Zenon DEF Step

(* A step of no process keeps the invariant.                                *)
LEMMA StutterIInv ==
  ASSUME IInv, UNCHANGED vars
  PROVE  IInv'
<1> USE DEF vars
<1>1. TypeOK' /\ LockStep' /\ TosendOK' /\ NetOK' /\ UnsentOK'
  BY Zenon DEF IInv, TypeOK, LockStep, TosendOK, NetOK, UnsentOK, Sent, Finished
<1>2. \A r \in Rank : Senders(entered[r], r)' = Senders(entered[r], r)
  BY Zenon DEF Senders
<1>3. RecvOK'
  BY <1>2, Zenon DEF IInv, RecvOK, Sent
<1>4. CountOK'
  BY <1>2, Zenon DEF IInv, CountOK
<1> QED
  BY <1>1, <1>3, <1>4, Zenon DEF IInv

(* The invariant holds in every reachable state.                           *)
THEOREM Invariance == Spec => []IInv
<1>1. IInv /\ [Next]_vars => IInv'
  BY StepIInv, StutterIInv, Zenon DEF Next
<1> QED
  BY InitIInv, <1>1, PTL DEF Spec

(* All variables of the census model keep their types.                     *)
THEOREM TypeCorrect == Spec => []TypeOK
<1>1. IInv => TypeOK
  BY Zenon DEF IInv
<1> QED
  BY Invariance, <1>1, PTL

(* Receives from any source never take a message of another call.          *)
THEOREM CallsApart == Spec => []CallsKeptApart
<1>1. IInv => CallsKeptApart
  BY Zenon DEF IInv, NetOK, CallsKeptApart
<1> QED
  BY Invariance, <1>1, PTL

(* Having received the counted number of messages, a rank has heard from   *)
(* exactly the ranks that inform it.                                       *)
THEOREM CountSuffices == Spec => []CountMeansReceived
<1>1. IInv => CountMeansReceived
  BY CountMeansAll, Zenon DEF IInv, CountOK, ReceivedOnce, CountMeansReceived
<1> QED
  BY Invariance, <1>1, PTL

-----------------------------------------------------------------------------

(* Every step of a rank is one that Notify allows, or invisible.           *)
LEMMA StepAllowed ==
  ASSUME IInv, CallOK, NEW p \in Rank, Step(p)
  PROVE  CallOK' /\ (Abstract!Enter(p) \/ Abstract!Return(p) \/ UNCHANGED Abstract!vars)
<1> USE CallsAssumption
<1>1. CallTypes /\ \A m \in net : m.src \in Rank
  BY Zenon DEF IInv, TypeOK, CallTypes, Message
<1>2. CASE EnterCensus(p)
  BY <1>1, <1>2, CallEntered, Zenon DEF EnterCensus
<1>3. CASE LeaveCensus(p)
  <2>1. /\ pc[p] = "census" /\ pc' = [pc EXCEPT ![p] = "exchange"]
        /\ UNCHANGED <<receivers, mode, entered, recv, out>>
    BY <1>3, Zenon DEF LeaveCensus
  <2>2. \A r \in Rank : pc'[r] = "idle" <=> pc[r] = "idle"
    BY <1>1, <2>1, Zenon DEF CallTypes
  <2> QED
    BY <2>1, <2>2, CallContinued, Zenon
<1>4. CASE Isend(p)
  BY <1>4, CallContinued, Zenon DEF Isend
<1>5. CASE Recv(p)
  <2>1. pc[p] = "exchange" /\ UNCHANGED <<receivers, mode, entered, pc, out>>
    BY <1>5, Zenon DEF Recv
  <2>2. PICK m \in net : /\ m.dst = p
                         /\ recv' = [recv EXCEPT ![p] = Append(recv[p], <<m.src, <<m.src, m.call>>>>)]
    BY <1>5, Zenon DEF Recv
  <2>3. m.call = entered[p] /\ entered[p] \in 1 .. Calls
    BY <2>1, <2>2 DEF IInv, NetOK, LockStep, TypeOK
  <2> QED
    BY <1>1, <2>1, <2>2, <2>3, CallReceived, Zenon
<1>6. CASE Return(p)
  <2>1. /\ pc[p] = "exchange" /\ Len(recv[p]) = num_senders[p]
        /\ pc' = [pc EXCEPT ![p] = "idle"] /\ UNCHANGED <<receivers, mode, entered, recv>>
    BY <1>6, Zenon DEF Return
  <2>2. PICK t \in Arranged(recv[p]) : out' = [out EXCEPT ![p] = Append(out[p], Output(t))]
    BY <1>6, Zenon DEF Return, Arranged
  <2>3. t \in Seq(Item)
    BY <1>1, SortedType, Zenon DEF Arranged, CallTypes
  <2>4. Output(t) = Arrays(t)
    BY <2>3, DOMAIN t = 1 .. Len(t), Zenon DEF Output, Arrays
  <2>5. ReceivedOnce(recv[p]) /\ Sources(recv[p]) = Senders(entered[p], p)
    BY <2>1, CountMeansAll, Zenon DEF IInv, CountOK
  <2>6. \A q \in Senders(entered[p], p) : entered[q] >= entered[p]
    BY <2>1, Zenon DEF IInv, LockStep, Senders
  <2>7. CallOK' /\ Abstract!Return(p)
    BY <1>1, <2>1, <2>2, <2>4, <2>5, <2>6, CallReturned, Zenon
  <2> QED
    BY <2>7, Zenon
<1> QED
  BY <1>2, <1>3, <1>4, <1>5, <1>6, Zenon DEF Step

(* SC_NOTIFY_PCX and SC_NOTIFY_RSX keep the promise of sc_notify_payload:  *)
(* every rank returns the ranks that named it in the same call, each with  *)
(* the payload it sent there, for all patterns and without a barrier       *)
(* between the calls.                                                      *)
THEOREM CensusImplementsNotify == Spec => ImplementsNotify
<1>1. IInv /\ CallOK /\ [Next]_vars => CallOK' /\ [Abstract!Next]_(Abstract!vars)
  <2> SUFFICES ASSUME IInv, CallOK, [Next]_vars
               PROVE  CallOK' /\ [Abstract!Next]_(Abstract!vars)
    OBVIOUS
  <2>1. ASSUME NEW p \in Rank, Step(p) PROVE CallOK' /\ [Abstract!Next]_(Abstract!vars)
    BY <2>1, StepAllowed, Zenon DEF Abstract!Next, Abstract!Rank, Rank
  <2>2. CASE UNCHANGED vars
    BY <2>2, Zenon DEF vars, CallOK, Abstract!vars
  <2> QED
    BY <2>1, <2>2, Zenon DEF Next
<1>2. Init => CallOK /\ Abstract!Init
  BY CallsBegin, Zenon DEF Init
<1> QED
  BY <1>1, <1>2, Invariance, PTL DEF Spec, ImplementsNotify, Abstract!Spec

-----------------------------------------------------------------------------
(***************************************************************************)
(* NotifyPayload: the senders are known before anything is exchanged.      *)
(***************************************************************************)

VARIABLES list, senders, got

Payload == INSTANCE NotifyPayload

(* The places of the code between entering a call and returning.           *)
LEMMA Places == "notify" # "idle" /\ "post" # "idle" /\ "exchange" # "idle"
  OBVIOUS

LEMMA UpTo == \A k, c \in 1 .. Calls : k <= c <=> k <= c - 1 \/ k = c
  BY CallsAssumption

(* A listing of a set of ranks names each of them.                         *)
LEMMA ListingComplete ==
  ASSUME NEW S \in SUBSET Rank, NEW s \in Payload!Listings(S)
  PROVE  /\ Cardinality(S) \in Nat
         /\ s \in [1 .. Cardinality(S) -> S]
         /\ \A i, j \in 1 .. Cardinality(S) : i # j => s[i] # s[j]
         /\ \A x \in S : \E i \in 1 .. Cardinality(S) : s[i] = x
<1> DEFINE n == Cardinality(S)
<1>1. IsFiniteSet(Rank)
  BY FS_Interval, PAssumption DEF Rank
<1>2. IsFiniteSet(S) /\ n \in Nat
  BY <1>1, FS_Subset, FS_CardinalityType, Zenon
<1>3. IsFiniteSet(1 .. n) /\ Cardinality(1 .. n) = n
  BY <1>2, FS_Interval
<1>4. s \in [1 .. n -> S] /\ \A i, j \in 1 .. n : i # j => s[i] # s[j]
  BY Zenon DEF Payload!Listings, Payload!Cardinality, Cardinality
<1>5. s \in Injection(1 .. n, S)
  BY <1>4, Zenon DEF Injection, IsInjective
<1>6. s \in Surjection(1 .. n, S)
  <2> HIDE DEF n
  <2> QED
    BY <1>2, <1>3, <1>5, FS_Injection, Zenon DEF n
<1> QED
  BY <1>2, <1>4, <1>6, Zenon DEF Surjection

LEMMA RangeOfListing ==
  ASSUME NEW S \in SUBSET Rank, NEW s \in Payload!Listings(S)
  PROVE  Payload!Range(s) = S
<1>1. /\ s \in [1 .. Cardinality(S) -> S]
      /\ \A x \in S : \E i \in 1 .. Cardinality(S) : s[i] = x
  BY ListingComplete, Zenon
<1>2. DOMAIN s = 1 .. Cardinality(S)
  BY <1>1, Zenon
<1> QED
  BY <1>1, <1>2, Zenon DEF Payload!Range

(* What a call returns that lists the senders of p, each next to the item  *)
(* it sent.                                                                *)
Paid(s, c) == [senders |-> s, payload |-> IF mode.payload THEN [i \in DOMAIN s |-> <<s[i], c>>] ELSE <<>>]

(* Listed in an order that the notification may produce, the senders are   *)
(* an answer that Notify allows.                                           *)
LEMMA ListingAllowed ==
  ASSUME mode \in Mode, NEW c \in 1 .. Calls, NEW p, NEW s \in Payload!Orders(Senders(c, p))
  PROVE  Paid(s, c) \in Abstract!Answers(c, p) /\ Paid(s, c) \in Result
<1> DEFINE S == Senders(c, p)
           n == Cardinality(S)
           Order == {x \in [1 .. Cardinality(S) -> S] : \A i, j \in DOMAIN x : i # j => x[i] # x[j]}
           Pay(x) == IF mode.payload THEN [i \in DOMAIN x |-> <<x[i], c>>] ELSE <<>>
<1>1. S \in SUBSET Rank
  BY Zenon DEF Senders
<1>2. s \in Payload!Listings(S) /\ (mode.sorted => s \in Payload!Ascending(S))
  BY Zenon DEF Payload!Orders, Payload!Ascending
<1>3. /\ n \in Nat /\ s \in [1 .. n -> S] /\ DOMAIN s = 1 .. n
      /\ \A i, j \in 1 .. n : i # j => s[i] # s[j]
      /\ \A x \in S : \E i \in 1 .. n : s[i] = x
  BY <1>1, <1>2, ListingComplete, Zenon
<1>4. ASSUME mode.sorted PROVE Paid(s, c) \in Abstract!Answers(c, p)
  <2>1. \A i, j \in 1 .. n : i < j => s[i] < s[j]
    BY <1>2, <1>3, <1>4, Zenon DEF Payload!Ascending
  <2>2. Abstract!Ascending(S) = s
    <3> HIDE DEF n, S
    <3> QED
      BY <1>1, <1>3, <2>1, AscendingUnique, Zenon
  <2>3. Abstract!Answers(c, p) = {[senders |-> x, payload |-> Pay(x)] : x \in {Abstract!Ascending(S)}}
    BY <1>4, Zenon DEF Abstract!Answers, Abstract!Senders, Abstract!Rank, Senders, Rank
  <2>4. Paid(s, c) = [senders |-> s, payload |-> Pay(s)]
    BY Zenon DEF Paid
  <2> HIDE DEF n, S, Pay
  <2> QED
    BY <2>2, <2>3, <2>4, Zenon
<1>5. ASSUME ~mode.sorted PROVE Paid(s, c) \in Abstract!Answers(c, p)
  <2>1. Abstract!Answers(c, p) = {[senders |-> x, payload |-> Pay(x)] : x \in Order}
    BY <1>5, Zenon DEF Abstract!Answers, Abstract!Senders, Abstract!Rank, Senders, Rank,
                       Abstract!Cardinality, Cardinality
  <2>2. s \in Order
    BY <1>3, Zenon
  <2>3. Paid(s, c) = [senders |-> s, payload |-> Pay(s)]
    BY Zenon DEF Paid
  <2> HIDE DEF n, S, Order, Pay
  <2> QED
    BY <2>1, <2>2, <2>3, Zenon
<1>6. Paid(s, c) \in Result
  <2>1. s \in Seq(Rank \cup {-1})
    <3>1. s \in [1 .. n -> Rank \cup {-1}]
      BY <1>1, <1>3, Zenon
    <3> HIDE DEF n
    <3> QED
      BY <1>3, <3>1
  <2>2. [i \in DOMAIN s |-> <<s[i], c>>] \in Seq((Rank \X (1 .. Calls)) \cup {Garbage})
    <3>1. [i \in 1 .. n |-> <<s[i], c>>] \in [1 .. n -> (Rank \X (1 .. Calls)) \cup {Garbage}]
      BY <1>1, <1>3, Zenon
    <3> HIDE DEF n
    <3> QED
      BY <1>3, <3>1
  <2>3. <<>> \in Seq((Rank \X (1 .. Calls)) \cup {Garbage})
    OBVIOUS
  <2> QED
    BY <2>1, <2>2, <2>3, Zenon DEF Paid, Result
<1>7. Paid(s, c) \in Abstract!Answers(c, p)
  BY <1>4, <1>5, Zenon
<1> QED
  BY <1>6, <1>7, Zenon

-----------------------------------------------------------------------------

(* Whether the payload travels apart from the notification.                *)
Exchanged == mode.payload /\ ~(mode.type = "pex" /\ mode.eager)

(* Rank q has posted its sends of call c.                                  *)
Posted(q, c) == c <= Len(out[q]) \/ (c = entered[q] /\ pc[q] = "exchange")

(* Rank p has received what q sends to it in call c.                       *)
Taken(p, q, c) ==
  c <= Len(out[p]) \/ (c = entered[p] /\ pc[p] = "exchange" /\ q \in DOMAIN got[p])

ExchangeTypes ==
  /\ CallTypes
  /\ receivers \in [1 .. Calls -> [Rank -> SUBSET Rank]]
  /\ \A p \in Rank : /\ pc[p] \in {"idle", "notify", "post", "exchange"}
                     /\ pc[p] # "idle" => entered[p] \in 1 .. Calls
  /\ recv = [p \in Rank |-> <<>>]
  /\ DOMAIN list = Rank /\ DOMAIN senders = Rank /\ DOMAIN got = Rank
  /\ net \subseteq Message

(* A rank that knows its senders: they have made the call, and what it has *)
(* received from them is of this call.  As long as it has not posted its   *)
(* sends, the array it takes their targets from is what it was on input.   *)
Knows(p) ==
  /\ pc[p] \in {"post", "exchange"} =>
       /\ Exchanged
       /\ senders[p] \in Payload!Orders(Senders(entered[p], p))
       /\ \A q \in Senders(entered[p], p) : entered[q] >= entered[p]
  /\ pc[p] = "notify" \/ (pc[p] = "post" /\ ~(mode.inplace /\ ~mode.eager)) =>
       Payload!Range(list[p]) = receivers[entered[p]][p]
  /\ pc[p] = "post" => DOMAIN got[p] = {}
  /\ pc[p] = "exchange" => \A q \in DOMAIN got[p] : got[p][q] = <<q, entered[p]>>

(* Exactly the messages that were posted and not taken are on their way,   *)
(* and nothing was taken that was not posted.                              *)
InFlight ==
  \A m \in Message :
     /\ m \in net <=> /\ Exchanged /\ m.dst \in receivers[m.call][m.src]
                      /\ Posted(m.src, m.call) /\ ~Taken(m.dst, m.src, m.call)
     /\ Exchanged /\ m.dst \in receivers[m.call][m.src] /\ Taken(m.dst, m.src, m.call)
          => Posted(m.src, m.call)

ExchangeInv ==
  /\ ExchangeTypes
  /\ CallOK
  /\ \A p \in Rank : Knows(p)
  /\ InFlight

LEMMA PayloadNames ==
  /\ Payload!Rank = Rank
  /\ \A c, p : Payload!Senders(c, p) = Senders(c, p)
  /\ \A p : Payload!MayEnter(p) <=> MayEnter(p)
  /\ Payload!CallsInit <=> CallsInit
<1>1. Payload!Rank = Rank
  BY Zenon DEF Payload!Rank, Rank
<1> QED
  BY <1>1, Zenon DEF Payload!Senders, Senders, Payload!MayEnter, MayEnter, Payload!CallsInit, CallsInit

(* What a rank knows stays true while other ranks go on.                   *)
LEMMA KnowsKept ==
  ASSUME ExchangeTypes, NEW p \in Rank, Knows(p), UNCHANGED <<receivers, mode>>,
         pc'[p] = pc[p], list'[p] = list[p], senders'[p] = senders[p], got'[p] = got[p],
         entered'[p] = entered[p], \A q \in Rank : entered'[q] \in Nat /\ entered'[q] >= entered[q]
  PROVE  Knows(p)'
<1>1. Payload!Orders(Senders(entered[p], p))' = Payload!Orders(Senders(entered[p], p))
  BY Zenon DEF Payload!Orders, Payload!Listings, Payload!Ascending, Senders
<1>2. Senders(entered[p], p)' = Senders(entered[p], p) /\ Exchanged' = Exchanged
  BY Zenon DEF Senders, Exchanged
<1>3. \A q \in Rank : entered[q] >= entered[p] => entered'[q] >= entered'[p]
  BY DEF ExchangeTypes, CallTypes
<1>4. \A q \in Senders(entered[p], p) : q \in Rank
  BY Zenon DEF Senders
<1>5. Payload!Range(list[p])' = Payload!Range(list[p]) /\ receivers'[entered'[p]][p] = receivers[entered[p]][p]
  BY Zenon DEF Payload!Range
<1>6. (pc[p] \in {"post", "exchange"} =>
         /\ Exchanged
         /\ senders[p] \in Payload!Orders(Senders(entered[p], p))
         /\ \A q \in Senders(entered[p], p) : entered[q] >= entered[p])'
  BY <1>1, <1>2, <1>3, <1>4, Zenon DEF Knows
<1> QED
  BY <1>5, <1>6, Zenon DEF Knows

(* No message is posted or taken.                                          *)
LEMMA InFlightKept ==
  ASSUME InFlight, UNCHANGED <<receivers, mode, net>>,
         \A q \in Rank, c \in 1 .. Calls : Posted(q, c)' <=> Posted(q, c),
         \A p, q \in Rank, c \in 1 .. Calls :
            p \in receivers[c][q] => (Taken(p, q, c)' <=> Taken(p, q, c))
  PROVE  InFlight'
<1>1. \A m \in Message : m.src \in Rank /\ m.dst \in Rank /\ m.call \in 1 .. Calls
  BY Zenon DEF Message
<1> QED
  BY <1>1, Zenon DEF InFlight, Exchanged

(* A call that ends returns an answer that Notify allows.                  *)
LEMMA CallFinished ==
  ASSUME ExchangeInv, NEW p \in Rank, NEW pay, pc[p] # "idle",
         NEW s \in Payload!Orders(Senders(entered[p], p)), Payload!Finish(p, s, pay),
         mode.payload => pay = [i \in DOMAIN s |-> <<s[i], entered[p]>>],
         \A q \in Senders(entered[p], p) : entered[q] >= entered[p],
         UNCHANGED <<receivers, mode, entered, senders, got, net, recv>>
  PROVE  /\ ExchangeTypes' /\ CallOK' /\ (\A q \in Rank : Knows(q)')
         /\ Abstract!Return(p)
         /\ pc' = [pc EXCEPT ![p] = "idle"]
         /\ Len(out[p]) = entered[p] - 1 /\ Len(out'[p]) = entered[p]
         /\ \A q \in Rank \ {p} : out'[q] = out[q]
<1> USE CallsAssumption
<1> DEFINE o == Paid(s, entered[p])
<1>1. /\ ExchangeTypes /\ CallTypes /\ CallOK /\ mode \in Mode /\ entered[p] \in 1 .. Calls
      /\ \A q \in Rank : out[q] \in Seq(Result) /\ Len(out[q]) \in Nat /\ entered[q] \in 0 .. Calls
      /\ DOMAIN out = Rank /\ DOMAIN pc = Rank /\ DOMAIN list = Rank
  BY DEF ExchangeInv, ExchangeTypes, CallTypes
<1>2. /\ out' = [out EXCEPT ![p] = Append(out[p], o)] /\ pc' = [pc EXCEPT ![p] = "idle"]
      /\ \E l : list' = [list EXCEPT ![p] = l]
  BY Zenon DEF Payload!Finish, Paid
<1>3. o \in Abstract!Answers(entered[p], p) /\ o \in Result
  BY <1>1, ListingAllowed, Zenon
<1> HIDE DEF o
<1>4. Len(out[p]) = entered[p] - 1
  BY <1>1, Zenon DEF CallOK
<1>5. /\ out'[p] = Append(out[p], o) /\ pc'[p] = "idle" /\ DOMAIN pc' = Rank /\ DOMAIN list' = Rank
      /\ \A q \in Rank \ {p} : out'[q] = out[q] /\ pc'[q] = pc[q] /\ list'[q] = list[q]
  BY <1>1, <1>2, Zenon
<1>6. Len(out'[p]) = entered[p] /\ out'[p] \in Seq(Result)
  BY <1>1, <1>3, <1>4, <1>5
<1>7. Abstract!Return(p)
  <2>1. Abstract!Senders(entered[p], p) = Senders(entered[p], p)
    BY Zenon DEF Abstract!Senders, Abstract!Rank, Senders, Rank
  <2>2. Len(out[p]) < entered[p]
    BY <1>1, <1>4
  <2> QED
    BY <1>2, <1>3, <2>1, <2>2, Zenon DEF Abstract!Return
<1>8. CallOK'
  BY <1>1, <1>5, <1>6, Zenon DEF CallOK
<1>9. ExchangeTypes'
  <2>1. out' \in [Rank -> Seq(Result)]
    <3>1. DOMAIN out' = Rank /\ out' = [q \in Rank |-> out'[q]]
      BY <1>1, <1>2, Zenon
    <3> QED
      BY <1>1, <1>5, <1>6, <3>1, Zenon
  <2> QED
    BY <1>1, <1>5, <2>1, Zenon DEF ExchangeTypes, CallTypes, Message
<1>10. ASSUME NEW q \in Rank PROVE Knows(q)'
  <2>1. CASE q = p
    BY <1>5, <2>1, Zenon DEF Knows
  <2>2. CASE q # p
    <3>1. \A r \in Rank : entered'[r] \in Nat /\ entered'[r] >= entered[r]
      BY <1>1
    <3>2. Knows(q)
      BY Zenon DEF ExchangeInv
    <3> QED
      BY <1>1, <1>5, <2>2, <3>1, <3>2, KnowsKept, Zenon
  <2> QED
    BY <2>1, <2>2, Zenon
<1> QED
  BY <1>2, <1>4, <1>5, <1>6, <1>7, <1>8, <1>9, <1>10, Zenon

(* The current call of a rank that has not posted its sends.               *)
LEMMA NotPosted ==
  ASSUME ExchangeTypes, CallOK, NEW p \in Rank, pc[p] \in {"notify", "post"}
  PROVE  Len(out[p]) = entered[p] - 1 /\ entered[p] \in 1 .. Calls
  BY Zenon DEF ExchangeTypes, CallOK

LEMMA EnterKeeps ==
  ASSUME ExchangeInv, NEW p \in Rank, Payload!Enter(p)
  PROVE  ExchangeInv' /\ Abstract!Enter(p)
<1> USE CallsAssumption
<1> DEFINE e == entered[p] + 1
<1>1. /\ ExchangeTypes /\ CallTypes /\ CallOK /\ InFlight /\ \A q \in Rank : Knows(q)
      /\ MayEnter(p) /\ pc[p] = "idle" /\ entered[p] < Calls
      /\ entered' = [entered EXCEPT ![p] = e] /\ pc' = [pc EXCEPT ![p] = "notify"]
      /\ UNCHANGED <<receivers, mode, senders, got, net, recv, out>>
  BY PayloadNames, Zenon DEF Payload!Enter, ExchangeInv, ExchangeTypes, MayEnter
<1>2. PICK s \in Payload!Ascending(receivers[e][p]) : list' = [list EXCEPT ![p] = s]
  BY Zenon DEF Payload!Enter
<1>3. /\ entered \in [Rank -> 0 .. Calls] /\ e \in 1 .. Calls /\ DOMAIN pc = Rank /\ DOMAIN list = Rank
      /\ receivers[e][p] \in SUBSET Rank
  <2>1. entered \in [Rank -> 0 .. Calls] /\ DOMAIN pc = Rank /\ DOMAIN list = Rank
    BY <1>1, Zenon DEF ExchangeTypes, CallTypes
  <2>2. e \in 1 .. Calls
    BY <1>1, <2>1
  <2>3. receivers \in [1 .. Calls -> [Rank -> SUBSET Rank]]
    BY <1>1, Zenon DEF ExchangeTypes
  <2> HIDE DEF e
  <2>4. receivers[e][p] \in SUBSET Rank
    BY <2>2, <2>3
  <2> QED
    BY <2>1, <2>2, <2>4, Zenon
<1>4. Payload!Range(s) = receivers[e][p]
  <2>1. s \in Payload!Listings(receivers[e][p])
    BY Zenon DEF Payload!Ascending
  <2> QED
    BY <1>3, <2>1, RangeOfListing, Zenon
<1>5. CallOK' /\ Abstract!Enter(p)
  <2>1. recv' = [recv EXCEPT ![p] = <<>>]
    BY <1>1, Zenon DEF ExchangeTypes
  <2> QED
    BY <1>1, <2>1, CallEntered, Places, Zenon
<1>6. /\ entered'[p] = e /\ pc'[p] = "notify" /\ list'[p] = s
      /\ DOMAIN pc' = Rank /\ DOMAIN list' = Rank
      /\ \A q \in Rank \ {p} : entered'[q] = entered[q] /\ pc'[q] = pc[q] /\ list'[q] = list[q]
  BY <1>1, <1>2, <1>3, Zenon
<1>7. ExchangeTypes'
  <2>1. entered' \in [Rank -> 0 .. Calls]
    BY <1>1, <1>3
  <2> QED
    BY <1>1, <1>3, <1>6, <2>1, Zenon DEF ExchangeTypes, CallTypes, Message
<1>8. ASSUME NEW q \in Rank PROVE Knows(q)'
  <2>1. CASE q = p
    <3>1. Payload!Range(list[p])' = receivers'[entered'[p]][p]
      <4>1. Payload!Range(list[p])' = Payload!Range(s)
        BY <1>6, Zenon DEF Payload!Range
      <4>2. receivers'[entered'[p]][p] = receivers[e][p]
        BY <1>1, <1>6, Zenon
      <4> QED
        BY <1>4, <4>1, <4>2, Zenon
    <3> QED
      BY <1>6, <2>1, <3>1 DEF Knows
  <2>2. CASE q # p
    <3>1. \A r \in Rank : entered'[r] \in Nat /\ entered'[r] >= entered[r]
      BY <1>3, <1>6
    <3> QED
      BY <1>1, <1>6, <2>2, <3>1, KnowsKept, Zenon
  <2> QED
    BY <2>1, <2>2, Zenon
<1>9. InFlight'
  <2>1. \A q \in Rank, c \in 1 .. Calls : Posted(q, c)' <=> Posted(q, c)
    BY <1>1, <1>6 DEF Posted
  <2>2. \A r, q \in Rank, c \in 1 .. Calls : Taken(r, q, c)' <=> Taken(r, q, c)
    BY <1>1, <1>6 DEF Taken
  <2> QED
    BY <1>1, <2>1, <2>2, InFlightKept, Zenon
<1> QED
  BY <1>5, <1>7, <1>8, <1>9, Zenon DEF ExchangeInv

(* A call that ends without an exchange leaves no message behind.          *)
LEMMA NoExchange ==
  ASSUME InFlight, ~Exchanged, UNCHANGED <<mode, net>>
  PROVE  InFlight'
<1>1. ~Exchanged'
  BY Zenon DEF Exchanged
<1>2. \A m \in Message : m \notin net'
  BY Zenon DEF InFlight
<1> QED
  BY <1>1, <1>2, Zenon DEF InFlight, Message

LEMMA NotifiedKeeps ==
  ASSUME ExchangeInv, NEW p \in Rank, pc[p] = "notify", Payload!Notified(p),
         mode.type = "pex" => ~(mode.payload /\ mode.eager),
         \A q \in Senders(entered[p], p) : entered[q] >= entered[p]
  PROVE  ExchangeInv' /\ (Abstract!Return(p) \/ UNCHANGED Abstract!vars)
<1> USE CallsAssumption
<1>1. /\ ExchangeTypes /\ CallTypes /\ CallOK /\ InFlight /\ \A q \in Rank : Knows(q)
      /\ DOMAIN pc = Rank /\ DOMAIN list = Rank /\ DOMAIN senders = Rank /\ DOMAIN got = Rank
      /\ entered \in [Rank -> 0 .. Calls]
  BY Zenon DEF ExchangeInv, ExchangeTypes, CallTypes
<1>2. CASE ~mode.payload
  <2>1. PICK s \in Payload!Orders(Senders(entered[p], p)) :
          /\ Payload!Finish(p, s, <<>>)
          /\ UNCHANGED <<receivers, mode, entered, senders, got, net, recv>>
    BY <1>2, PayloadNames, Zenon DEF Payload!Notified
  <2>2. ExchangeTypes' /\ CallOK' /\ (\A q \in Rank : Knows(q)') /\ Abstract!Return(p)
    BY <1>2, <2>1, CallFinished, Places, Zenon
  <2>3. InFlight'
    BY <1>1, <1>2, <2>1, NoExchange, Zenon DEF Exchanged
  <2> QED
    BY <2>2, <2>3, Zenon DEF ExchangeInv
<1>3. CASE mode.payload
  <2>1. PICK s \in Payload!Orders(Senders(entered[p], p)) :
          /\ senders' = [senders EXCEPT ![p] = s]
          /\ list' = [list EXCEPT ![p] = IF mode.inplace /\ ~mode.eager THEN s ELSE @]
          /\ got' = [got EXCEPT ![p] = <<>>]
          /\ pc' = [pc EXCEPT ![p] = "post"]
          /\ UNCHANGED <<receivers, mode, entered, net, recv, out>>
    BY <1>3, PayloadNames, Zenon DEF Payload!Notified
  <2>2. /\ senders'[p] = s /\ got'[p] = <<>> /\ pc'[p] = "post"
        /\ ~(mode.inplace /\ ~mode.eager) => list'[p] = list[p]
        /\ DOMAIN pc' = Rank /\ DOMAIN list' = Rank /\ DOMAIN senders' = Rank /\ DOMAIN got' = Rank
        /\ \A q \in Rank \ {p} : /\ senders'[q] = senders[q] /\ got'[q] = got[q] /\ pc'[q] = pc[q]
                                 /\ list'[q] = list[q]
    BY <1>1, <2>1, Zenon
  <2>3. CallOK' /\ UNCHANGED Abstract!vars
    <3>1. \A r \in Rank : pc'[r] = "idle" <=> pc[r] = "idle"
      BY <2>2, Places, Zenon
    <3> QED
      BY <1>1, <2>1, <3>1, CallContinued, Zenon
  <2>4. ExchangeTypes'
    BY <1>1, <2>1, <2>2, Places, Zenon DEF ExchangeTypes, CallTypes, Message
  <2>5. ASSUME NEW q \in Rank PROVE Knows(q)'
    <3>1. CASE q = p
      <4>1. /\ Exchanged' /\ Senders(entered[p], p)' = Senders(entered[p], p)
            /\ Payload!Orders(Senders(entered[p], p))' = Payload!Orders(Senders(entered[p], p))
        BY <1>3, <2>1, Zenon DEF Exchanged, Senders, Payload!Orders, Payload!Listings, Payload!Ascending
      <4>2. Payload!Range(list[p]) = receivers[entered[p]][p]
        BY <1>1, Zenon DEF Knows
      <4>3. ~(mode.inplace /\ ~mode.eager)' => Payload!Range(list[p])' = receivers'[entered'[p]][p]
        <5>1. list'[p] = list[p] => Payload!Range(list[p])' = Payload!Range(list[p])
          BY Zenon DEF Payload!Range
        <5>2. receivers'[entered'[p]][p] = receivers[entered[p]][p] /\ mode' = mode
          BY <2>1, Zenon
        <5> QED
          BY <2>2, <4>2, <5>1, <5>2, Zenon
      <4>4. DOMAIN got'[p] = {} /\ pc'[p] # "exchange" /\ pc'[p] # "notify"
        BY <2>2
      <4>5. senders'[p] \in Payload!Orders(Senders(entered[p], p))'
        BY <2>2, <4>1, Zenon
      <4>6. \A r \in Senders(entered[p], p)' : entered'[r] >= entered'[p]
        BY <2>1, <4>1, Zenon
      <4> QED
        BY <3>1, <4>1, <4>3, <4>4, <4>5, <4>6, Zenon DEF Knows
    <3>2. CASE q # p
      <4>1. \A r \in Rank : entered'[r] \in Nat /\ entered'[r] >= entered[r]
        BY <1>1, <2>1
      <4> QED
        BY <1>1, <2>1, <2>2, <3>2, <4>1, KnowsKept, Zenon
    <3> QED
      BY <3>1, <3>2, Zenon
  <2>6. InFlight'
    <3>1. \A q \in Rank, c \in 1 .. Calls : Posted(q, c)' <=> Posted(q, c)
      BY <2>1, <2>2 DEF Posted
    <3>2. \A r, q \in Rank, c \in 1 .. Calls : Taken(r, q, c)' <=> Taken(r, q, c)
      BY <2>1, <2>2 DEF Taken
    <3> QED
      BY <1>1, <2>1, <3>1, <3>2, InFlightKept, Zenon
  <2> QED
    BY <2>3, <2>4, <2>5, <2>6, Zenon DEF ExchangeInv
<1> QED
  BY <1>2, <1>3, Zenon

LEMMA LeaveKeeps ==
  ASSUME ExchangeInv, NEW p \in Rank,
         Payload!LeaveAllgather(p) \/ Payload!LeaveNotify(p) \/ Payload!LeavePex(p)
  PROVE  ExchangeInv' /\ (Abstract!Return(p) \/ UNCHANGED Abstract!vars)
<1>1. /\ pc[p] = "notify" /\ InFlight
      /\ \A q \in Senders(entered[p], p) : entered[q] >= entered[p]
  BY PayloadNames, Zenon DEF ExchangeInv, Senders, Payload!LeaveAllgather, Payload!LeaveNotify, Payload!LeavePex
<1>2. CASE Payload!Notified(p) /\ (mode.type = "pex" => ~(mode.payload /\ mode.eager))
  BY <1>1, <1>2, NotifiedKeeps, Zenon
<1>3. CASE Payload!LeavePex(p) /\ mode.payload /\ mode.eager
  <2>1. PICK s \in Payload!Ascending(Senders(entered[p], p)) :
          /\ Payload!Finish(p, s, [i \in DOMAIN s |-> <<s[i], entered[p]>>])
          /\ UNCHANGED <<receivers, mode, entered, senders, got, net, recv>>
    BY <1>3, PayloadNames, Zenon DEF Payload!LeavePex
  <2>2. s \in Payload!Orders(Senders(entered[p], p)) /\ ~Exchanged
    BY <1>3, Zenon DEF Payload!LeavePex, Payload!Orders, Exchanged
  <2>3. ExchangeTypes' /\ CallOK' /\ (\A q \in Rank : Knows(q)') /\ Abstract!Return(p)
    BY <1>1, <2>1, <2>2, CallFinished, Places, Zenon
  <2>4. InFlight'
    BY <1>1, <2>1, <2>2, NoExchange, Zenon
  <2> QED
    BY <2>3, <2>4, Zenon DEF ExchangeInv
<1>4. \/ Payload!Notified(p) /\ (mode.type = "pex" => ~(mode.payload /\ mode.eager))
      \/ Payload!LeavePex(p) /\ mode.payload /\ mode.eager
  <2>1. "allgather" # "pex"
    OBVIOUS
  <2> QED
    BY <2>1, Zenon DEF Payload!LeaveAllgather, Payload!LeaveNotify, Payload!LeavePex
<1> QED
  BY <1>2, <1>3, <1>4, Zenon

(* A rank posts one message for each receiver it has named in the call.    *)
LEMMA PostKeeps ==
  ASSUME ExchangeInv, NEW p \in Rank, Payload!Post(p)
  PROVE  ExchangeInv' /\ UNCHANGED Abstract!vars
<1> USE CallsAssumption
<1> DEFINE c == entered[p]
           sent == {Msg(p, q, c) : q \in receivers[c][p]}
<1>1. /\ ExchangeTypes /\ CallTypes /\ CallOK /\ InFlight /\ (\A q \in Rank : Knows(q))
      /\ DOMAIN pc = Rank /\ pc[p] = "post" /\ pc' = [pc EXCEPT ![p] = "exchange"]
      /\ UNCHANGED <<receivers, mode, entered, list, senders, got, recv, out>>
      /\ Exchanged /\ DOMAIN got[p] = {}
      /\ entered \in [Rank -> 0 .. Calls] /\ receivers \in [1 .. Calls -> [Rank -> SUBSET Rank]]
  BY Zenon DEF Payload!Post, ExchangeInv, ExchangeTypes, CallTypes, Knows
<1>2. Len(out[p]) = c - 1 /\ c \in 1 .. Calls
  BY <1>1, NotPosted, Zenon
<1>3. net' = net \cup sent
  <2>1. ~(mode.inplace /\ ~mode.eager) => Payload!Range(list[p]) = receivers[c][p]
    BY <1>1, Zenon DEF Knows
  <2> QED
    BY <2>1, Zenon DEF Payload!Post, Msg
<1>4. /\ pc'[p] = "exchange" /\ DOMAIN pc' = Rank
      /\ \A q \in Rank \ {p} : pc'[q] = pc[q]
  BY <1>1, Zenon
<1>5. CallOK' /\ UNCHANGED Abstract!vars
  <2>1. \A r \in Rank : pc'[r] = "idle" <=> pc[r] = "idle"
    BY <1>1, <1>4, Places, Zenon
  <2> QED
    BY <1>1, <2>1, CallContinued, Zenon
<1>6. receivers[c][p] \in SUBSET Rank
  <2> HIDE DEF c
  <2> QED
    BY <1>1, <1>2
<1>7. sent \subseteq Message
  <2> HIDE DEF c
  <2> QED
    BY <1>2, <1>6 DEF Msg, Message
<1>8. ExchangeTypes'
  <2>1. net' \subseteq Message
    BY <1>1, <1>3, <1>7, Zenon DEF ExchangeTypes
  <2> QED
    BY <1>1, <1>2, <1>4, <2>1, Zenon DEF ExchangeTypes, CallTypes, Message
<1>9. ASSUME NEW q \in Rank PROVE Knows(q)'
  <2>1. CASE q = p
    <3>1. /\ Exchanged' /\ Senders(c, p)' = Senders(c, p)
          /\ Payload!Orders(Senders(c, p))' = Payload!Orders(Senders(c, p))
      BY <1>1, Zenon DEF Exchanged, Senders, Payload!Orders, Payload!Listings, Payload!Ascending
    <3>2. /\ senders[p] \in Payload!Orders(Senders(c, p))
          /\ \A r \in Senders(c, p) : entered[r] >= entered[p]
      BY <1>1, Zenon DEF Knows
    <3>3. /\ senders'[p] \in Payload!Orders(Senders(c, p))'
          /\ \A r \in Senders(c, p)' : entered'[r] >= entered'[p]
      BY <1>1, <3>1, <3>2, Zenon
    <3>4. pc'[p] # "notify" /\ pc'[p] # "post" /\ \A r \in DOMAIN got'[p] : FALSE
      BY <1>1, <1>4
    <3> QED
      BY <2>1, <3>1, <3>3, <3>4, Zenon DEF Knows
  <2>2. CASE q # p
    <3>1. \A r \in Rank : entered'[r] \in Nat /\ entered'[r] >= entered[r]
      BY <1>1
    <3> QED
      BY <1>1, <1>4, <2>2, <3>1, KnowsKept, Zenon
  <2> QED
    BY <2>1, <2>2, Zenon
<1>10. ASSUME NEW m \in Message
       PROVE  /\ Posted(m.src, m.call)' <=> Posted(m.src, m.call) \/ (m.src = p /\ m.call = c)
              /\ Taken(m.dst, m.src, m.call)' <=> Taken(m.dst, m.src, m.call)
              /\ m.src = p /\ m.call = c => ~Posted(m.src, m.call)
              /\ m \in sent <=> m.src = p /\ m.call = c /\ m.dst \in receivers[c][p]
  <2>1. /\ m.src \in Rank /\ m.dst \in Rank /\ m.call \in 1 .. Calls
        /\ m = Msg(m.src, m.dst, m.call)
    BY DEF Message, Msg
  <2>2. Posted(m.src, m.call)' <=> Posted(m.src, m.call) \/ (m.src = p /\ m.call = c)
    BY <1>1, <1>4, <2>1 DEF Posted
  <2>3. Taken(m.dst, m.src, m.call)' <=> Taken(m.dst, m.src, m.call)
    BY <1>1, <1>4, <2>1 DEF Taken
  <2>4. ~Posted(p, c)
    BY <1>1, <1>2 DEF Posted
  <2>5. m \in sent <=> m.src = p /\ m.call = c /\ m.dst \in receivers[c][p]
    <3>1. \A q : Msg(p, q, c).src = p /\ Msg(p, q, c).call = c /\ Msg(p, q, c).dst = q
      BY DEF Msg
    <3> HIDE DEF c
    <3> QED
      BY <2>1, <3>1, Zenon
  <2> QED
    BY <2>2, <2>3, <2>4, <2>5, Zenon
<1>11. InFlight'
  <2>1. ASSUME NEW m \in Message
        PROVE  /\ m \in net' <=> /\ Exchanged' /\ m.dst \in receivers'[m.call][m.src]
                                /\ Posted(m.src, m.call)' /\ ~Taken(m.dst, m.src, m.call)'
               /\ Exchanged' /\ m.dst \in receivers'[m.call][m.src] /\ Taken(m.dst, m.src, m.call)'
                    => Posted(m.src, m.call)'
    <3>1. Exchanged' = Exchanged /\ receivers' = receivers /\ (m \in net' <=> m \in net \/ m \in sent)
      BY <1>1, <1>3, Zenon DEF Exchanged
    <3>2. /\ m \in net <=> /\ Exchanged /\ m.dst \in receivers[m.call][m.src]
                           /\ Posted(m.src, m.call) /\ ~Taken(m.dst, m.src, m.call)
          /\ Exchanged /\ m.dst \in receivers[m.call][m.src] /\ Taken(m.dst, m.src, m.call)
               => Posted(m.src, m.call)
      BY <1>1, Zenon DEF InFlight
    <3> HIDE DEF sent, c
    <3> QED
      BY <1>1, <1>10, <3>1, <3>2, Zenon
  <2> QED
    BY <2>1, Zenon DEF InFlight, Message
<1> QED
  BY <1>5, <1>8, <1>9, <1>11, Zenon DEF ExchangeInv

(* The oldest message that a sender has sent to p is of the call p is in.  *)
LEMMA TakesOwnCall ==
  ASSUME ExchangeInv, NEW p \in Rank, pc[p] = "exchange", NEW m \in net,
         m.dst = p, m.src \in Senders(entered[p], p), m.src \notin DOMAIN got[p],
         Payload!Oldest(m, net)
  PROVE  m.call = entered[p]
<1> USE CallsAssumption
<1> DEFINE c == entered[p]
           n == Msg(m.src, p, c)
<1>1. /\ ExchangeTypes /\ CallTypes /\ CallOK /\ InFlight
      /\ m \in Message /\ m.src \in Rank /\ m.call \in 1 .. Calls
      /\ p \in receivers[c][m.src] /\ c \in 1 .. Calls
  <2>1. ExchangeTypes /\ CallTypes /\ CallOK /\ InFlight /\ m \in Message /\ c \in 1 .. Calls
    BY Places, Zenon DEF ExchangeInv, ExchangeTypes
  <2>2. m.src \in Rank /\ m.call \in 1 .. Calls
    BY <2>1 DEF Message
  <2> QED
    BY <2>1, <2>2, Zenon DEF Senders
<1>2. /\ Len(out[p]) = c - 1 /\ Len(out[m.src]) \in Nat /\ entered[m.src] \in Nat
      /\ Len(out[m.src]) = entered[m.src] \/ Len(out[m.src]) = entered[m.src] - 1
  <2>1. Len(out[p]) = c - 1
    BY <1>1, Places, Zenon DEF CallOK
  <2>2. out[m.src] \in Seq(Result) /\ entered[m.src] \in 0 .. Calls
    BY <1>1, Zenon DEF CallTypes
  <2>3. Len(out[m.src]) = entered[m.src] \/ Len(out[m.src]) = entered[m.src] - 1
    BY <1>1, Zenon DEF CallOK
  <2> QED
    BY <2>1, <2>2, <2>3
<1>3. Exchanged /\ Posted(m.src, m.call) /\ ~Taken(p, m.src, m.call)
  BY <1>1, Zenon DEF InFlight
<1>4. m.call >= c
  BY <1>1, <1>2, <1>3 DEF Taken
<1>5. ASSUME m.call > c PROVE FALSE
  <2>1. Posted(m.src, c)
    BY <1>1, <1>2, <1>3, <1>5 DEF Posted
  <2>2. ~Taken(p, m.src, c)
    BY <1>1, <1>2 DEF Taken
  <2>3. n \in Message /\ n.src = m.src /\ n.dst = p /\ n.call = c
    BY <1>1 DEF Msg, Message
  <2> HIDE DEF n, c
  <2>4. n \in net
    BY <1>1, <1>3, <2>1, <2>2, <2>3, Zenon DEF InFlight
  <2>5. m.call <= c
    BY <2>3, <2>4, Zenon DEF Payload!Oldest
  <2> QED
    BY <1>1, <1>5, <2>5
<1> QED
  BY <1>1, <1>4, <1>5

LEMMA RecvKeeps ==
  ASSUME ExchangeInv, NEW p \in Rank, Payload!Recv(p)
  PROVE  ExchangeInv' /\ UNCHANGED Abstract!vars
<1> USE CallsAssumption
<1> DEFINE c == entered[p]
<1>1. /\ ExchangeTypes /\ CallTypes /\ CallOK /\ InFlight /\ (\A q \in Rank : Knows(q))
      /\ pc[p] = "exchange" /\ UNCHANGED <<receivers, mode, entered, pc, list, senders, recv, out>>
      /\ DOMAIN got = Rank /\ net \subseteq Message /\ entered \in [Rank -> 0 .. Calls]
      /\ senders[p] \in Payload!Orders(Senders(c, p)) /\ c \in 1 .. Calls
  BY Places, Zenon DEF Payload!Recv, ExchangeInv, ExchangeTypes, CallTypes, Knows
<1>2. PICK i \in DOMAIN senders[p] :
        /\ senders[p][i] \notin DOMAIN got[p]
        /\ \E m \in net : /\ m.src = senders[p][i] /\ m.dst = p /\ Payload!Oldest(m, net)
                          /\ net' = net \ {m}
                          /\ got' = [got EXCEPT ![p] = Payload!Stored(got[p], m.src, <<m.src, m.call>>)]
  BY Zenon DEF Payload!Recv
<1>3. PICK m \in net : /\ m.src = senders[p][i] /\ m.dst = p /\ Payload!Oldest(m, net)
                       /\ net' = net \ {m}
                       /\ got' = [got EXCEPT ![p] = Payload!Stored(got[p], m.src, <<m.src, m.call>>)]
  BY <1>2, Zenon
<1>4. m.src \in Senders(c, p) /\ m.src \notin DOMAIN got[p]
  <2>1. senders[p] \in Payload!Listings(Senders(c, p)) /\ Senders(c, p) \in SUBSET Rank
    BY <1>1, Zenon DEF Payload!Orders, Payload!Ascending, Senders
  <2>2. senders[p] \in [1 .. Cardinality(Senders(c, p)) -> Senders(c, p)]
    BY <2>1, ListingComplete, Zenon
  <2>3. senders[p][i] \in Senders(c, p)
    BY <2>2, Zenon
  <2> QED
    BY <1>2, <1>3, <2>3, Zenon
<1>5. m.call = c
  BY <1>1, <1>3, <1>4, TakesOwnCall, Zenon
<1>6. /\ DOMAIN got' = Rank /\ \A q \in Rank \ {p} : got'[q] = got[q]
      /\ DOMAIN got'[p] = DOMAIN got[p] \cup {m.src}
      /\ \A q \in DOMAIN got'[p] : got'[p][q] = IF q = m.src THEN <<q, c>> ELSE got[p][q]
  <2>1. DOMAIN got' = Rank /\ \A q \in Rank \ {p} : got'[q] = got[q]
    BY <1>1, <1>3, Zenon
  <2>2. got'[p] = Payload!Stored(got[p], m.src, <<m.src, c>>)
    BY <1>1, <1>3, <1>5, Zenon
  <2>3. /\ DOMAIN got'[p] = DOMAIN got[p] \cup {m.src}
        /\ \A q \in DOMAIN got'[p] : got'[p][q] = IF q = m.src THEN <<m.src, c>> ELSE got[p][q]
    BY <2>2, Zenon DEF Payload!Stored
  <2> QED
    BY <2>1, <2>3, Zenon
<1>7. CallOK' /\ UNCHANGED Abstract!vars
  BY <1>1, CallContinued, Zenon
<1>8. ExchangeTypes'
  <2>1. net' \subseteq Message
    BY <1>1, <1>3, Zenon
  <2> QED
    BY <1>1, <1>6, <2>1, Zenon DEF ExchangeTypes, CallTypes, Message
<1>9. ASSUME NEW q \in Rank PROVE Knows(q)'
  <2>1. CASE q = p
    <3>1. /\ Exchanged' = Exchanged /\ Senders(c, p)' = Senders(c, p)
          /\ Payload!Orders(Senders(c, p))' = Payload!Orders(Senders(c, p))
      BY <1>1, Zenon DEF Exchanged, Senders, Payload!Orders, Payload!Listings, Payload!Ascending
    <3>2. /\ Exchanged /\ \A r \in Senders(c, p) : entered[r] >= entered[p]
          /\ \A r \in DOMAIN got[p] : got[p][r] = <<r, c>>
      BY <1>1, Zenon DEF Knows
    <3>3. /\ Exchanged' /\ senders'[p] \in Payload!Orders(Senders(c, p))'
          /\ \A r \in Senders(c, p)' : entered'[r] >= entered'[p]
      BY <1>1, <3>1, <3>2, Zenon
    <3>4. \A r \in DOMAIN got'[p] : got'[p][r] = <<r, entered'[p]>>
      BY <1>1, <1>6, <3>2, Zenon
    <3>5. pc'[p] # "notify" /\ pc'[p] # "post"
      BY <1>1
    <3> QED
      BY <2>1, <3>3, <3>4, <3>5, Zenon DEF Knows
  <2>2. CASE q # p
    <3>1. \A r \in Rank : entered'[r] \in Nat /\ entered'[r] >= entered[r]
      BY <1>1
    <3> QED
      BY <1>1, <1>6, <2>2, <3>1, KnowsKept, Zenon
  <2> QED
    BY <2>1, <2>2, Zenon
<1>10. InFlight'
  <2>1. ASSUME NEW k \in Message
        PROVE  /\ Posted(k.src, k.call)' <=> Posted(k.src, k.call)
               /\ Taken(k.dst, k.src, k.call)' <=> Taken(k.dst, k.src, k.call) \/ k = m
    <3>1. k.src \in Rank /\ k.dst \in Rank /\ (k = m <=> k.src = m.src /\ k.dst = p /\ k.call = c)
      <4>1. m \in Message
        BY <1>1, Zenon
      <4> QED
        BY <1>3, <1>5, <4>1 DEF Message
    <3>2. Posted(k.src, k.call)' <=> Posted(k.src, k.call)
      BY <1>1, Zenon DEF Posted
    <3>3. CASE k.dst # p
      BY <1>1, <1>6, <3>1, <3>2, <3>3, Zenon DEF Taken
    <3>4. CASE k.dst = p
      <4>1. k.src \in DOMAIN got'[p] <=> k.src \in DOMAIN got[p] \/ k.src = m.src
        BY <1>6, Zenon
      <4>2. Taken(k.dst, k.src, k.call)' <=>
              k.call <= Len(out[p]) \/ (k.call = c /\ (k.src \in DOMAIN got[p] \/ k.src = m.src))
        BY <1>1, <3>4, <4>1, Zenon DEF Taken
      <4>3. Taken(k.dst, k.src, k.call) <=>
              k.call <= Len(out[p]) \/ (k.call = c /\ k.src \in DOMAIN got[p])
        BY <1>1, <3>4, Zenon DEF Taken
      <4> QED
        BY <3>1, <3>2, <3>4, <4>2, <4>3, Zenon
    <3> QED
      BY <3>3, <3>4, Zenon
  <2>2. ASSUME NEW k \in Message
        PROVE  /\ k \in net' <=> /\ Exchanged' /\ k.dst \in receivers'[k.call][k.src]
                                /\ Posted(k.src, k.call)' /\ ~Taken(k.dst, k.src, k.call)'
               /\ Exchanged' /\ k.dst \in receivers'[k.call][k.src] /\ Taken(k.dst, k.src, k.call)'
                    => Posted(k.src, k.call)'
    <3>1. Exchanged' = Exchanged /\ receivers' = receivers /\ (k \in net' <=> k \in net /\ k # m)
      BY <1>1, <1>3, Zenon DEF Exchanged
    <3>2. /\ k \in net <=> /\ Exchanged /\ k.dst \in receivers[k.call][k.src]
                           /\ Posted(k.src, k.call) /\ ~Taken(k.dst, k.src, k.call)
          /\ Exchanged /\ k.dst \in receivers[k.call][k.src] /\ Taken(k.dst, k.src, k.call)
               => Posted(k.src, k.call)
      BY <1>1, Zenon DEF InFlight
    <3>3. k = m => k \in net
      OBVIOUS
    <3> QED
      BY <2>1, <3>1, <3>2, <3>3, Zenon
  <2> QED
    BY <2>2, Zenon DEF InFlight, Message
<1> QED
  BY <1>7, <1>8, <1>9, <1>10, Zenon DEF ExchangeInv

(* A rank that has heard from every sender returns what they sent.         *)
LEMMA ReturnKeeps ==
  ASSUME ExchangeInv, NEW p \in Rank, Payload!Return(p)
  PROVE  ExchangeInv' /\ Abstract!Return(p)
<1> USE CallsAssumption
<1> DEFINE c == entered[p]
           s == senders[p]
           pay == [i \in DOMAIN s |-> got[p][s[i]]]
<1>1. /\ InFlight /\ pc[p] = "exchange" /\ DOMAIN got[p] = Payload!Range(s)
      /\ Payload!Finish(p, s, pay) /\ UNCHANGED <<receivers, mode, entered, senders, got, net, recv>>
      /\ s \in Payload!Orders(Senders(c, p)) /\ \A q \in Senders(c, p) : entered[q] >= entered[p]
      /\ \A q \in DOMAIN got[p] : got[p][q] = <<q, c>>
      /\ c \in 1 .. Calls /\ DOMAIN pc = Rank
  BY Places, Zenon DEF Payload!Return, ExchangeInv, ExchangeTypes, CallTypes, Knows
<1>2. DOMAIN got[p] = Senders(c, p)
  <2>1. s \in Payload!Listings(Senders(c, p)) /\ Senders(c, p) \in SUBSET Rank
    BY <1>1, Zenon DEF Payload!Orders, Payload!Ascending, Senders
  <2> QED
    BY <1>1, <2>1, RangeOfListing, Zenon
<1>3. pay = [i \in DOMAIN s |-> <<s[i], c>>]
  <2>1. \A i \in DOMAIN s : s[i] \in DOMAIN got[p]
    BY <1>1, Zenon DEF Payload!Range
  <2> QED
    BY <1>1, <2>1, Zenon
<1>4. /\ ExchangeTypes' /\ CallOK' /\ (\A q \in Rank : Knows(q)')
      /\ Abstract!Return(p)
      /\ pc' = [pc EXCEPT ![p] = "idle"]
      /\ Len(out[p]) = c - 1 /\ Len(out'[p]) = c
      /\ \A q \in Rank \ {p} : out'[q] = out[q]
  <2> HIDE DEF pay
  <2> QED
    BY <1>1, <1>3, CallFinished, Places, Zenon
<1>5. pc'[p] = "idle" /\ \A q \in Rank \ {p} : pc'[q] = pc[q]
  BY <1>1, <1>4, Zenon
<1>6. InFlight'
  <2>1. ASSUME NEW q \in Rank, NEW k \in 1 .. Calls
        PROVE  Posted(q, k)' <=> Posted(q, k)
    <3>1. CASE q # p
      BY <1>1, <1>4, <1>5, <3>1, Zenon DEF Posted
    <3>2. CASE q = p
      <4>1. Posted(q, k)' <=> k <= c
        BY <1>4, <1>5, <3>2 DEF Posted
      <4>2. Posted(q, k) <=> k <= c - 1 \/ k = c
        BY <1>1, <1>4, <3>2 DEF Posted
      <4> QED
        BY <1>1, <4>1, <4>2, UpTo, Zenon
    <3> QED
      BY <3>1, <3>2, Zenon
  <2>2. ASSUME NEW r \in Rank, NEW q \in Rank, NEW k \in 1 .. Calls, r \in receivers[k][q]
        PROVE  Taken(r, q, k)' <=> Taken(r, q, k)
    <3>1. CASE r # p
      BY <1>1, <1>4, <1>5, <3>1, Zenon DEF Taken
    <3>2. CASE r = p
      <4>1. Taken(r, q, k)' <=> k <= c
        BY <1>4, <1>5, <3>2 DEF Taken
      <4>2. Taken(r, q, k) <=> k <= c - 1 \/ (k = c /\ q \in Senders(c, p))
        BY <1>1, <1>2, <1>4, <3>2, Zenon DEF Taken
      <4>3. k = c => q \in Senders(c, p)
        BY <2>2, <3>2, Zenon DEF Senders
      <4> HIDE DEF c
      <4> QED
        BY <1>1, <4>1, <4>2, <4>3, UpTo, Zenon
    <3> QED
      BY <3>1, <3>2, Zenon
  <2> QED
    BY <1>1, <2>1, <2>2, InFlightKept, Zenon
<1> QED
  BY <1>4, <1>6, Zenon DEF ExchangeInv

(* Every step of a rank keeps the invariant and is one that Notify allows, *)
(* or invisible.                                                           *)
LEMMA ExchangeStep ==
  ASSUME ExchangeInv, [Payload!Next]_(Payload!vars)
  PROVE  ExchangeInv' /\ [Abstract!Next]_(Abstract!vars)
<1>1. ASSUME NEW p \in Rank, Payload!Step(p)
      PROVE  ExchangeInv' /\ [Abstract!Next]_(Abstract!vars)
  <2>1. ExchangeInv' /\ (Abstract!Enter(p) \/ Abstract!Return(p) \/ UNCHANGED Abstract!vars)
    BY <1>1, EnterKeeps, LeaveKeeps, PostKeeps, RecvKeeps, ReturnKeeps, Zenon DEF Payload!Step
  <2> QED
    BY <2>1, Zenon DEF Abstract!Next, Abstract!Rank, Rank
<1>2. CASE UNCHANGED Payload!vars
  <2>1. UNCHANGED <<receivers, mode, entered, pc, list, senders, got, net, recv, out>>
    BY <1>2, Zenon DEF Payload!vars
  <2>2. ExchangeTypes' /\ CallOK' /\ InFlight'
    <3>1. ExchangeTypes'
      BY <2>1, Zenon DEF ExchangeInv, ExchangeTypes, CallTypes, Message
    <3>2. CallOK'
      BY <2>1, Zenon DEF ExchangeInv, CallOK
    <3>3. InFlight'
      BY <2>1, InFlightKept, Zenon DEF ExchangeInv, Posted, Taken
    <3> QED
      BY <3>1, <3>2, <3>3, Zenon
  <2>3. ASSUME NEW q \in Rank PROVE Knows(q)'
    <3>1. \A r \in Rank : entered'[r] \in Nat /\ entered'[r] >= entered[r]
      BY <2>1, CallsAssumption DEF ExchangeInv, ExchangeTypes, CallTypes
    <3> QED
      BY <2>1, <3>1, KnowsKept, Zenon DEF ExchangeInv
  <2>4. UNCHANGED Abstract!vars
    BY <2>1, Zenon DEF Abstract!vars
  <2> QED
    BY <2>2, <2>3, <2>4, Zenon DEF ExchangeInv
<1> QED
  BY <1>1, <1>2, PayloadNames, Zenon DEF Payload!Next

LEMMA ExchangeBegins == Payload!Init => ExchangeInv /\ Abstract!Init
<1> SUFFICES ASSUME Payload!Init PROVE ExchangeInv /\ Abstract!Init
  OBVIOUS
<1> USE CallsAssumption
<1>1. /\ CallsInit /\ list = [p \in Rank |-> <<>>]
      /\ senders = [p \in Rank |-> <<>>] /\ got = [p \in Rank |-> <<>>]
  BY PayloadNames, Zenon DEF Payload!Init
<1>2. CallOK /\ Abstract!Init
  BY <1>1, CallsBegin, Zenon
<1>3. ExchangeTypes
  <2>1. /\ receivers \in [1 .. Calls -> [Rank -> SUBSET Rank]] /\ mode \in Mode
        /\ \A p \in Rank : pc[p] = "idle"
    BY <1>1, PatternsAssumption, ModesAssumption, Zenon DEF CallsInit
  <2>2. entered \in [Rank -> 0 .. Calls] /\ recv \in [Rank -> Seq(Item)] /\ out \in [Rank -> Seq(Result)]
    BY <1>1 DEF CallsInit
  <2> QED
    BY <1>1, <2>1, <2>2, Zenon DEF CallsInit, ExchangeTypes, CallTypes
<1>4. \A p \in Rank : pc[p] = "idle" /\ Len(out[p]) = 0
  BY <1>1 DEF CallsInit
<1>5. \A p \in Rank : Knows(p)
  BY <1>4 DEF Knows
<1>6. InFlight
  <2>1. \A p, q \in Rank, c \in 1 .. Calls : ~Posted(p, c) /\ ~Taken(p, q, c)
    BY <1>4 DEF Posted, Taken
  <2>2. \A m \in Message : m.src \in Rank /\ m.dst \in Rank /\ m.call \in 1 .. Calls
    BY Zenon DEF Message
  <2>3. net = {}
    BY <1>1, Zenon DEF CallsInit
  <2> QED
    BY <2>1, <2>2, <2>3, Zenon DEF InFlight
<1> QED
  BY <1>2, <1>3, <1>5, <1>6, Zenon DEF ExchangeInv

(* A payload that is exchanged once the senders are known: all calls use   *)
(* the same tag and no barrier separates them, yet when a rank returns no  *)
(* message of that call to it is left, hence the next call cannot take it. *)
THEOREM ExchangeLeavesNothing == Payload!Spec => []Payload!NothingLeftOver
<1>1. ExchangeInv => Payload!NothingLeftOver
  <2> SUFFICES ASSUME ExchangeInv, NEW m \in net PROVE m.call > Len(out[m.dst])
    BY Zenon DEF Payload!NothingLeftOver
  <2>1. m \in Message /\ ~Taken(m.dst, m.src, m.call)
    BY Zenon DEF ExchangeInv, ExchangeTypes, InFlight
  <2>2. m.call \in Nat /\ m.dst \in Rank
    BY <2>1, CallsAssumption DEF Message
  <2>3. Len(out[m.dst]) \in Nat
    BY <2>2 DEF ExchangeInv, ExchangeTypes, CallTypes
  <2> QED
    BY <2>1, <2>2, <2>3 DEF Taken
<1>2. ExchangeInv /\ [Payload!Next]_(Payload!vars) => ExchangeInv'
  BY ExchangeStep, Zenon
<1> QED
  BY <1>1, <1>2, ExchangeBegins, PTL DEF Payload!Spec

(* SC_NOTIFY_ALLGATHER, SC_NOTIFY_PEX, and every type whose payload is     *)
(* exchanged apart from the notification keep the promise of               *)
(* sc_notify_payload, given that the notification itself does.             *)
THEOREM ExchangeImplementsNotify == Payload!Spec => ImplementsNotify
<1>1. ExchangeInv /\ [Payload!Next]_(Payload!vars) => ExchangeInv' /\ [Abstract!Next]_(Abstract!vars)
  BY ExchangeStep, Zenon
<1> QED
  BY <1>1, ExchangeBegins, PTL DEF Payload!Spec, ImplementsNotify, Abstract!Spec

=============================================================================
