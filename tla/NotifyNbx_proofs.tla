-------------------------- MODULE NotifyNbx_proofs --------------------------
(***************************************************************************)
(* Proofs about NotifyNbx, for any number of ranks, any receiver patterns  *)
(* and any number of calls, provided consecutive calls are separated by    *)
(* the application.  (Without that the result is wrong; a single call      *)
(* needs no separation.)                                                   *)
(***************************************************************************)
EXTENDS NotifyNbx, NotifyCalls_proofs

(* Rank q is past the point of call c where it sends to p.                 *)
Sent(q, p, c) == entered[q] > c \/ (entered[q] = c /\ p \notin tosend[q])

(* Counting calls: p has returned from every call it has entered but the   *)
(* current one, and nobody is a whole call ahead of anybody.               *)
LockStep ==
  \A p, q \in Rank :
     /\ Len(out[p]) = IF pc[p] = "idle" THEN entered[p] ELSE entered[p] - 1
     /\ pc[p] # "idle" => entered[p] >= 1
     /\ Len(out[q]) >= entered[p] - 1

(* Nobody returns from a call before everybody has entered its barrier.    *)
BarrierOK ==
  \A p, q \in Rank :
     /\ ibarrier[p] \in {entered[p] - 1, entered[p]}
     /\ pc[p] = "idle" => barr(p)
     /\ ibarrier[q] >= Len(out[p])

TosendOK ==
  \A p \in Rank : IF pc[p] = "probe" /\ ~barr(p)
                  THEN tosend[p] \subseteq receivers[entered[p]][p]
                  ELSE tosend[p] = {}

(* A message in flight is one of the call its sender is in, and keeps that *)
(* rank from entering the barrier.                                         *)
NetOK ==
  \A m \in net : /\ m.dst \in receivers[m.call][m.src]
                 /\ m.dst \notin tosend[m.src]
                 /\ m.call = entered[m.src]
                 /\ ~barr(m.src)

(* What has been received is what was sent and is not in flight any more.  *)
RecvOK ==
  \A p, q \in Rank :
     entered[p] >= 1 =>
       (q \in Sources(recv[p]) <=> /\ q \in Senders(entered[p], p)
                                   /\ Sent(q, p, entered[p])
                                   /\ Msg(q, p, entered[p]) \notin net)

(* A message to a rank that has not yet entered the call stays in flight.  *)
EarlyOK ==
  \A p, q \in Rank :
     /\ entered[q] = entered[p] + 1
     /\ p \in receivers[entered[q]][q]
     /\ p \notin tosend[q]
     => Msg(q, p, entered[q]) \in net

OnceOK == \A p \in Rank : ReceivedOnce(recv[p])

(* The inductive invariant.                                                *)
IInv ==
  /\ TypeOK
  /\ mode \in Modes
  /\ LockStep
  /\ BarrierOK
  /\ TosendOK
  /\ NetOK
  /\ RecvOK
  /\ EarlyOK
  /\ OnceOK

-----------------------------------------------------------------------------

(* Sorting rearranges the items, and what is returned has the right type.  *)
LEMMA OutputType ==
  ASSUME mode \in Mode, NEW s \in Seq(Item), NEW o \in sc_notify_payload_cleanup(s)
  PROVE  o \in Result
<1>1. PICK t \in SortedBySource(s) \cup {s} : o = Output(t)
  BY Zenon DEF sc_notify_payload_cleanup
<1>2. t \in Seq(Item)
  BY <1>1, SortedType, Zenon
<1>3. /\ Len(t) \in Nat
      /\ \A i \in 1 .. Len(t) : t[i][1] \in Rank /\ t[i][2] \in Rank \X (1 .. Calls)
  BY <1>2 DEF Item
<1> DEFINE R == Rank \cup {-1}
           D == (Rank \X (1 .. Calls)) \cup {Garbage}
           src == [i \in 1 .. Len(t) |-> t[i][1]]
           pay == [i \in 1 .. Len(t) |-> t[i][2]]
           nxt == [i \in 1 .. Len(t) |-> IF i < Len(t) THEN pay[i+1] ELSE Garbage]
<1>4. src \in Seq(R)
  BY <1>3
<1>5. pay \in Seq(D)
  BY <1>3
<1>6. nxt \in Seq(D)
  <2>1. \A i \in 1 .. Len(t) : nxt[i] \in D
    BY <1>3
  <2> QED
    BY <1>3, <2>1
<1>7. mode.stale \in Nat
  BY Zenon DEF Mode
<1>8. Fill(mode.stale, -1) \in Seq(R)
  BY <1>7 DEF Fill
<1>9. Fill(mode.stale, Garbage) \in Seq(D)
  BY <1>7 DEF Fill
<1>10. src \o Fill(mode.stale, -1) \in Seq(R)
  <2> HIDE DEF R, src
  <2> QED
    BY <1>4, <1>8
<1>11. Fill(mode.stale, Garbage) \o pay \in Seq(D)
  <2> HIDE DEF D, pay
  <2> QED
    BY <1>5, <1>9
<1>12. Result = [senders : Seq(R), payload : Seq(D)]
  BY Zenon DEF Result
<1>13. \/ Output(t) = [senders |-> src, payload |-> <<>>]
       \/ Output(t) = [senders |-> src, payload |-> pay]
       \/ Output(t) = [senders |-> src \o Fill(mode.stale, -1),
                       payload |-> Fill(mode.stale, Garbage) \o pay]
       \/ Output(t) = [senders |-> src, payload |-> nxt]
  BY Zenon DEF Output
<1>14. <<>> \in Seq(D)
  OBVIOUS
<1> HIDE DEF R, D, src, pay, nxt
<1>15. \A a \in Seq(R), b \in Seq(D) : [senders |-> a, payload |-> b] \in Result
  BY <1>12, Zenon
<1> QED
  BY <1>1, <1>4, <1>5, <1>6, <1>10, <1>11, <1>13, <1>14, <1>15, Zenon

-----------------------------------------------------------------------------

(* Before the first call nothing is sent, received or owed.                 *)
LEMMA InitIInv == Init => IInv
<1> SUFFICES ASSUME Init PROVE IInv
  OBVIOUS
<1> USE PAssumption, CallsAssumption, PatternsAssumption, ModesAssumption
<1>1. TypeOK /\ mode \in Modes
  BY DEF Init, CallsInit, TypeOK, Rank
<1>2. LockStep /\ BarrierOK /\ TosendOK /\ NetOK /\ RecvOK /\ EarlyOK
  BY DEF Init, CallsInit, LockStep, BarrierOK, barr, TosendOK, NetOK, RecvOK, EarlyOK
<1>3. OnceOK
  BY DEF Init, CallsInit, OnceOK, ReceivedOnce
<1> QED
  BY <1>1, <1>2, <1>3, Zenon DEF IInv

(* A rank enters its next call.                                            *)
LEMMA EnterStep ==
  ASSUME Separated, IInv, NEW p \in Rank, Enter(p)
  PROVE  IInv'
<1> USE CallsAssumption DEF IInv
<1>0. /\ \A q \in Rank : entered[q] \in 0 .. Calls /\ ibarrier[q] \in 0 .. Calls
      /\ \A q \in Rank : Len(out[q]) \in Nat
      /\ \A m \in net : m.src \in Rank /\ m.dst \in Rank /\ m.call \in 1 .. Calls
  BY DEF TypeOK, Message
<1>a. /\ pc[p] = "idle" /\ pc'[p] = "probe"
      /\ entered[p] < Calls
      /\ entered'[p] = entered[p] + 1
      /\ tosend'[p] = receivers[entered[p] + 1][p]
      /\ recv'[p] = <<>>
      /\ \A q \in Rank \ {p} : /\ pc'[q] = pc[q]
                              /\ entered'[q] = entered[q]
                              /\ tosend'[q] = tosend[q]
                              /\ recv'[q] = recv[q]
      /\ UNCHANGED <<receivers, mode, net, ibarrier, out>>
  BY Zenon DEF Enter, MayEnter, TypeOK
<1>b. \A q \in Rank : Len(out[q]) >= entered[p]
  BY <1>0, <1>a DEF Enter, MayEnter, Separated
<1>c. \A q \in Rank : entered[q] <= entered[p] + 1
  BY <1>0, <1>a DEF LockStep
<1>d. tosend[p] = {} /\ ibarrier[p] = entered[p]
  BY <1>a, Zenon DEF TosendOK, BarrierOK, barr
<1>1. TypeOK'
  BY <1>0, <1>a DEF TypeOK, Enter, MayEnter
<1>2. LockStep'
  BY <1>0, <1>a, <1>b DEF LockStep
<1>3. BarrierOK'
  <2>1. ibarrier' = ibarrier /\ out' = out
    BY <1>a, Zenon
  <2>2. \A r, q \in Rank : ibarrier[q] >= Len(out[r])
    BY Zenon DEF BarrierOK
  <2>3. \A r \in Rank : /\ ibarrier[r] \in {entered'[r] - 1, entered'[r]}
                        /\ pc'[r] = "idle" => ibarrier[r] = entered'[r]
    BY <1>0, <1>a, <1>d DEF BarrierOK, barr
  <2> QED
    BY <2>1, <2>2, <2>3, Zenon DEF BarrierOK, barr
<1>4. TosendOK'
  BY <1>0, <1>a, <1>d DEF TosendOK, barr
<1>5. NetOK'
  <2>1. \A m \in net : m.src # p
    BY <1>a, Zenon DEF NetOK, BarrierOK
  <2> QED
    BY <1>0, <1>a, <2>1, Zenon DEF NetOK, barr
<1>6. RecvOK'
  <2> SUFFICES ASSUME NEW r \in Rank, NEW q \in Rank, entered'[r] >= 1
               PROVE  q \in Sources(recv'[r])
                        <=> /\ q \in Senders(entered[r], r)'
                            /\ Sent(q, r, entered[r])'
                            /\ Msg(q, r, entered'[r]) \notin net
    BY <1>a, Zenon DEF RecvOK
  <2>1. CASE r = p
    <3>1. Sources(recv'[r]) = {}
      BY <1>a, <2>1 DEF Sources
    <3>2. q \in Senders(entered[r], r)' <=> p \in receivers[entered[p] + 1][q]
      BY <1>a, <2>1, Zenon DEF Senders
    <3>3. CASE q = p
      BY <1>0, <1>a, <2>1, <3>1, <3>2, <3>3 DEF Sent
    <3>4. CASE q # p
      <4>1. Sent(q, r, entered[r])' => entered[q] = entered[p] + 1 /\ p \notin tosend[q]
        BY <1>0, <1>a, <1>c, <2>1, <3>4 DEF Sent
      <4> QED
        BY <1>0, <1>a, <2>1, <3>1, <3>2, <4>1, Zenon DEF EarlyOK
    <3> QED
      BY <3>3, <3>4, Zenon
  <2>2. CASE r # p
    <3>1. entered'[r] = entered[r] /\ recv'[r] = recv[r] /\ entered[r] \in 1 .. Calls
      BY <1>0, <1>a, <2>2
    <3>2. Senders(entered[r], r)' = Senders(entered[r], r)
      BY <1>a, <3>1, Zenon DEF Senders
    <3>3. q \in Senders(entered[r], r) =>
             (Sent(q, r, entered[r])' <=> Sent(q, r, entered[r]))
      BY <1>0, <1>a, <1>d, <3>1 DEF Sent, Senders
    <3> QED
      BY <3>1, <3>2, <3>3, Zenon DEF RecvOK
  <2> QED
    BY <2>1, <2>2, Zenon
<1>7. EarlyOK'
  <2> SUFFICES ASSUME NEW r \in Rank, NEW q \in Rank,
                      entered'[q] = entered'[r] + 1,
                      r \in receivers[entered'[q]][q],
                      r \notin tosend'[q]
               PROVE  Msg(q, r, entered'[q]) \in net
    BY <1>a, Zenon DEF EarlyOK, Msg
  <2>1. q # p
    BY <1>a, Zenon
  <2>2. r # p
    BY <1>0, <1>a, <1>c, <2>1
  <2> QED
    BY <1>a, <2>1, <2>2 DEF EarlyOK
<1>8. OnceOK'
  <2>1. ReceivedOnce(recv'[p])
    BY <1>a DEF ReceivedOnce
  <2> QED
    BY <1>a, <2>1, Zenon DEF OnceOK
<1> QED
  BY <1>a, <1>1, <1>2, <1>3, <1>4, <1>5, <1>6, <1>7, <1>8, Zenon

(* A rank posts a synchronous send.                                        *)
LEMMA IssendStep ==
  ASSUME IInv, NEW p \in Rank, Issend(p)
  PROVE  IInv'
<1> USE CallsAssumption DEF IInv
<1>0. /\ \A q \in Rank : entered[q] \in 0 .. Calls
      /\ \A m \in net : m.src \in Rank /\ m.dst \in Rank /\ m.call \in 1 .. Calls
  BY Zenon DEF TypeOK, Message
<1> PICK d \in tosend[p] :
       /\ tosend' = [tosend EXCEPT ![p] = @ \ {d}]
       /\ net' = net \cup {Msg(p, d, entered[p])}
       /\ UNCHANGED <<receivers, mode, entered, pc, recv, ibarrier, out>>
  BY Zenon DEF Issend, Msg
<1>a. /\ d \in Rank
      /\ pc[p] = "probe" /\ ~barr(p)
      /\ entered[p] \in 1 .. Calls
      /\ d \in receivers[entered[p]][p]
      /\ tosend'[p] = tosend[p] \ {d}
      /\ \A q \in Rank \ {p} : tosend'[q] = tosend[q]
  BY <1>0 DEF TypeOK, TosendOK, LockStep
<1>1. TypeOK'
  BY <1>a DEF TypeOK, Message, Msg
<1>2. LockStep' /\ BarrierOK'
  BY Zenon DEF LockStep, BarrierOK, barr
<1>3. TosendOK'
  BY <1>a, Zenon DEF TosendOK, barr
<1>4. NetOK'
  BY <1>0, <1>a DEF NetOK, barr, Msg
<1>5. \A q, r \in Rank : \A c \in 1 .. Calls :
         Sent(q, r, c)' <=> Sent(q, r, c) \/ Msg(q, r, c) = Msg(p, d, entered[p])
  BY <1>0, <1>a, Zenon DEF Sent, Msg
<1>6. RecvOK'
  <2> SUFFICES ASSUME NEW r \in Rank, NEW q \in Rank, entered[r] >= 1
               PROVE  q \in Sources(recv[r])
                        <=> /\ q \in Senders(entered[r], r)
                            /\ Sent(q, r, entered[r])'
                            /\ Msg(q, r, entered[r]) \notin net'
    <3>1. \A r \in Rank : Senders(entered[r], r)' = Senders(entered[r], r)
      BY Zenon DEF Senders
    <3> QED
      BY <3>1, Zenon DEF RecvOK, Msg
  <2>1. ~Sent(p, d, entered[p])
    BY <1>0, <1>a DEF Sent
  <2> QED
    BY <1>0, <1>5, <2>1 DEF RecvOK, Msg
<1>7. EarlyOK'
  BY <1>0, <1>a, Zenon DEF EarlyOK, Msg
<1>8. OnceOK'
  BY Zenon DEF OnceOK
<1> QED
  BY <1>1, <1>2, <1>3, <1>4, <1>6, <1>7, <1>8, Zenon

(* A probe finds a message, which is received.                             *)
LEMMA ProbeHitStep ==
  ASSUME IInv, NEW p \in Rank, ProbeHit(p)
  PROVE  IInv'
<1> USE CallsAssumption DEF IInv
<1>0. /\ \A q \in Rank : entered[q] \in 0 .. Calls
      /\ \A q \in Rank : Len(out[q]) \in Nat
      /\ \A m \in net : m.src \in Rank /\ m.dst \in Rank /\ m.call \in 1 .. Calls
  BY DEF TypeOK, Message
<1> PICK m \in net :
       /\ m.dst = p
       /\ net' = net \ {m}
       /\ recv' = [recv EXCEPT ![p] = Append(@, <<m.src, <<m.src, m.call>>>>)]
  BY Zenon DEF ProbeHit
<1> DEFINE x == <<m.src, <<m.src, m.call>>>>
<1>a. /\ pc[p] = "probe" /\ pc'[p] = "test"
      /\ tosend[p] = {}
      /\ recv'[p] = Append(recv[p], x)
      /\ \A q \in Rank \ {p} : pc'[q] = pc[q] /\ recv'[q] = recv[q]
      /\ UNCHANGED <<receivers, mode, entered, tosend, ibarrier, out>>
  BY Zenon DEF ProbeHit, TypeOK
<1>b. x \in Item /\ recv[p] \in Seq(Item)
  BY <1>0, Zenon DEF Item, TypeOK
<1>c. m.call = entered[p]
  <2>1. m.call = entered[m.src] /\ pc[m.src] # "idle"
    BY <1>0, Zenon DEF NetOK, BarrierOK
  <2> QED
    BY <1>0, <1>a, <2>1 DEF LockStep
<1>d. /\ m.src \in Senders(entered[p], p)
      /\ Sent(m.src, p, entered[p])
      /\ entered[p] \in 1 .. Calls
      /\ m = Msg(m.src, p, entered[p])
  BY <1>0, <1>c, Zenon DEF NetOK, Senders, Sent, Msg, TypeOK, Message
<1>e. m.src \notin Sources(recv[p])
  BY <1>0, <1>d DEF RecvOK
<1>1. TypeOK'
  <2>1. pc' \in [Rank -> {"idle", "probe", "test"}]
    BY Zenon DEF TypeOK, ProbeHit
  <2>2. recv' \in [Rank -> Seq(Item)]
    BY <1>b DEF TypeOK
  <2> QED
    BY <1>a, <2>1, <2>2, Zenon DEF TypeOK
<1>2. LockStep'
  BY <1>a, Zenon DEF LockStep
<1>3. BarrierOK'
  BY <1>a, Zenon DEF BarrierOK, barr
<1>4. TosendOK'
  BY <1>a, Zenon DEF TosendOK, barr
<1>5. NetOK'
  BY <1>a, Zenon DEF NetOK, barr
<1>6. Sources(recv'[p]) = Sources(recv[p]) \cup {m.src} /\ ReceivedOnce(recv'[p])
  BY <1>a, <1>b, <1>e, SourcesAppend DEF OnceOK
<1>7. RecvOK'
  <2> SUFFICES ASSUME NEW r \in Rank, NEW q \in Rank, entered[r] >= 1
               PROVE  q \in Sources(recv'[r])
                        <=> /\ q \in Senders(entered[r], r)
                            /\ Sent(q, r, entered[r])
                            /\ Msg(q, r, entered[r]) \notin net'
    <3>1. \A r \in Rank : Senders(entered[r], r)' = Senders(entered[r], r)
      BY <1>a, Zenon DEF Senders
    <3>2. \A q, r \in Rank : Sent(q, r, entered[r])' <=> Sent(q, r, entered[r])
      BY <1>a, Zenon DEF Sent
    <3>3. entered' = entered
      BY <1>a, Zenon
    <3>4. \A q, r \in Rank : Msg(q, r, entered[r])' = Msg(q, r, entered[r])
      BY <3>3, Zenon
    <3>5. ASSUME NEW r \in Rank, NEW q \in Rank, entered[r] >= 1
          PROVE  (q \in Sources(recv[r])
                    <=> /\ q \in Senders(entered[r], r)
                        /\ Sent(q, r, entered[r])
                        /\ Msg(q, r, entered[r]) \notin net)'
      BY <3>1, <3>2, <3>4, <3>5 DEF Sources
    <3> QED
      BY <3>3, <3>5, Zenon DEF RecvOK
  <2>1. CASE r = p
    <3>1. CASE q = m.src
      BY <1>d, <1>6, <2>1, <3>1, Zenon
    <3>2. CASE q # m.src
      <4>1. Msg(q, r, entered[r]) # m
        BY <1>d, <3>2 DEF Msg
      <4> QED
        BY <1>6, <2>1, <3>2, <4>1, Zenon DEF RecvOK
    <3> QED
      BY <3>1, <3>2, Zenon
  <2>2. CASE r # p
    <3>1. Msg(q, r, entered[r]) # m
      BY <1>d, <2>2 DEF Msg
    <3> QED
      BY <1>a, <2>2, <3>1, Zenon DEF RecvOK
  <2> QED
    BY <2>1, <2>2, Zenon
<1>8. EarlyOK'
  <2> SUFFICES ASSUME NEW r \in Rank, NEW q \in Rank,
                      entered[q] = entered[r] + 1,
                      Msg(q, r, entered[q]) \in net
               PROVE  Msg(q, r, entered[q]) # m
    BY <1>a, Zenon DEF EarlyOK, Msg
  <2> QED
    BY <1>0, <1>c DEF Msg
<1>9. OnceOK'
  BY <1>a, <1>6, Zenon DEF OnceOK
<1> QED
  BY <1>a, <1>1, <1>2, <1>3, <1>4, <1>5, <1>7, <1>8, <1>9, Zenon

(* Steps that change nothing but the place in the loop.                    *)
LEMMA LoopStep ==
  ASSUME IInv, NEW p \in Rank, ProbeMiss(p) \/ TestPending(p)
  PROVE  IInv'
<1> USE CallsAssumption DEF IInv
<1>a. /\ pc[p] # "idle" /\ pc'[p] \in {"probe", "test"}
      /\ tosend[p] = {}
      /\ \A q \in Rank \ {p} : pc'[q] = pc[q]
      /\ UNCHANGED <<receivers, mode, entered, tosend, net, recv, ibarrier, out>>
  BY Zenon DEF ProbeMiss, TestPending, TypeOK, TosendOK
<1>1. TypeOK'
  <2>1. pc' \in [Rank -> {"idle", "probe", "test"}]
    BY Zenon DEF TypeOK, ProbeMiss, TestPending
  <2> QED
    BY <1>a, <2>1, Zenon DEF TypeOK
<1>2. LockStep'
  BY <1>a, Zenon DEF LockStep
<1>3. BarrierOK'
  BY <1>a, Zenon DEF BarrierOK, barr
<1>4. TosendOK'
  BY <1>a, Zenon DEF TosendOK, barr
<1>5. NetOK' /\ EarlyOK' /\ OnceOK'
  BY <1>a, Zenon DEF NetOK, barr, EarlyOK, OnceOK, Msg
<1>6. RecvOK'
  <2>1. \A r \in Rank : Senders(entered[r], r)' = Senders(entered[r], r)
    BY <1>a, Zenon DEF Senders
  <2> QED
    BY <1>a, <2>1, Zenon DEF RecvOK, Sent
<1> QED
  BY <1>a, <1>1, <1>2, <1>3, <1>4, <1>5, <1>6, Zenon

(* A rank whose sends have been matched enters the barrier.                *)
LEMMA TestallSentStep ==
  ASSUME IInv, NEW p \in Rank, TestallSent(p)
  PROVE  IInv'
<1> USE CallsAssumption DEF IInv
<1>0. /\ \A q \in Rank : entered[q] \in 0 .. Calls /\ ibarrier[q] \in 0 .. Calls
      /\ \A q \in Rank : Len(out[q]) \in Nat
  BY DEF TypeOK
<1>a. /\ pc[p] = "test" /\ pc'[p] = "probe"
      /\ tosend[p] = {}
      /\ ibarrier'[p] = entered[p]
      /\ \A m \in net : m.src # p
      /\ \A q \in Rank \ {p} : pc'[q] = pc[q] /\ ibarrier'[q] = ibarrier[q]
      /\ UNCHANGED <<receivers, mode, entered, tosend, net, recv, out>>
  BY Zenon DEF TestallSent, TypeOK, TosendOK
<1>1. TypeOK'
  <2>1. pc' \in [Rank -> {"idle", "probe", "test"}]
    BY Zenon DEF TypeOK, TestallSent
  <2>2. ibarrier' \in [Rank -> 0 .. Calls]
    BY <1>0, Zenon DEF TypeOK, TestallSent
  <2> QED
    BY <1>a, <2>1, <2>2, Zenon DEF TypeOK
<1>2. LockStep'
  BY <1>a, Zenon DEF LockStep
<1>3. BarrierOK'
  BY <1>0, <1>a DEF BarrierOK, barr
<1>4. TosendOK'
  BY <1>a, Zenon DEF TosendOK, barr
<1>5. NetOK'
  <2>1. \A m \in net : m.src \in Rank
    BY Zenon DEF TypeOK, Message
  <2> QED
    BY <1>a, <2>1, Zenon DEF NetOK, barr
<1>6. EarlyOK' /\ OnceOK'
  BY <1>a, Zenon DEF EarlyOK, OnceOK, Msg
<1>7. RecvOK'
  <2>1. \A r \in Rank : Senders(entered[r], r)' = Senders(entered[r], r)
    BY <1>a, Zenon DEF Senders
  <2> QED
    BY <1>a, <2>1 DEF RecvOK, Sent
<1> QED
  BY <1>a, <1>1, <1>2, <1>3, <1>4, <1>5, <1>6, <1>7, Zenon

(* A rank finds the barrier complete and returns.                          *)
LEMMA TestDoneStep ==
  ASSUME IInv, NEW p \in Rank, TestDone(p)
  PROVE  IInv'
<1> USE CallsAssumption DEF IInv
<1>0. /\ \A q \in Rank : entered[q] \in 0 .. Calls /\ ibarrier[q] \in 0 .. Calls
      /\ \A q \in Rank : Len(out[q]) \in Nat /\ out[q] \in Seq(Result)
  BY DEF TypeOK
<1>1. PICK o \in sc_notify_payload_cleanup(recv[p]) : out' = [out EXCEPT ![p] = Append(@, o)]
  BY Zenon DEF TestDone
<1>2. o \in Result
  BY OutputType, Zenon DEF TypeOK
<1>a. /\ pc[p] = "test" /\ pc'[p] = "idle"
      /\ barr(p)
      /\ \A q \in Rank : ibarrier[q] >= entered[p]
      /\ out'[p] = Append(out[p], o)
      /\ \A q \in Rank \ {p} : pc'[q] = pc[q] /\ out'[q] = out[q]
      /\ UNCHANGED <<receivers, mode, entered, tosend, net, recv, ibarrier>>
  BY <1>1, Zenon DEF TestDone, TypeOK
<1>3. TypeOK'
  <2>1. pc' \in [Rank -> {"idle", "probe", "test"}]
    BY Zenon DEF TypeOK, TestDone
  <2>2. out' \in [Rank -> Seq(Result)]
    BY <1>1, <1>2 DEF TypeOK
  <2> QED
    BY <1>a, <2>1, <2>2, Zenon DEF TypeOK
<1>4. Len(out'[p]) = Len(out[p]) + 1 /\ Len(out[p]) = entered[p] - 1
  BY <1>0, <1>2, <1>a DEF LockStep
<1>b. \A q \in Rank : Len(out'[q]) \in Nat /\ Len(out'[q]) >= Len(out[q])
  BY <1>0, <1>a, <1>4
<1>5. LockStep'
  <2>1. ASSUME NEW r \in Rank
        PROVE  /\ Len(out'[r]) = IF pc'[r] = "idle" THEN entered[r] ELSE entered[r] - 1
               /\ pc'[r] # "idle" => entered[r] >= 1
    <3>1. CASE r = p
      BY <3>1, <1>0, <1>a, <1>4
    <3>2. CASE r # p
      BY <3>2, <1>a, Zenon DEF LockStep
    <3> QED
      BY <3>1, <3>2, Zenon
  <2>2. ASSUME NEW r \in Rank, NEW q \in Rank
        PROVE  Len(out'[q]) >= entered[r] - 1
    <3>1. Len(out[q]) >= entered[r] - 1
      BY Zenon DEF LockStep
    <3> QED
      BY <3>1, <1>b, <1>0
  <2> QED
    BY <2>1, <2>2, <1>a, Zenon DEF LockStep
<1>6. BarrierOK'
  <2>1. ASSUME NEW r \in Rank, NEW q \in Rank
        PROVE  ibarrier[q] >= Len(out'[r])
    <3>1. CASE r = p
      BY <3>1, <1>0, <1>a, <1>4
    <3>2. CASE r # p
      BY <3>2, <1>a, Zenon DEF BarrierOK
    <3> QED
      BY <3>1, <3>2, Zenon
  <2>2. \A r \in Rank : /\ ibarrier[r] \in {entered[r] - 1, entered[r]}
                       /\ pc'[r] = "idle" => ibarrier[r] = entered[r]
    BY <1>a, Zenon DEF BarrierOK, barr
  <2> QED
    BY <2>1, <2>2, <1>a, Zenon DEF BarrierOK, barr
<1>7. TosendOK'
  BY <1>a, Zenon DEF TosendOK, barr
<1>8. NetOK' /\ EarlyOK' /\ OnceOK'
  BY <1>a, Zenon DEF NetOK, barr, EarlyOK, OnceOK, Msg
<1>9. RecvOK'
  <2>1. \A r \in Rank : Senders(entered[r], r)' = Senders(entered[r], r)
    BY <1>a, Zenon DEF Senders
  <2> QED
    BY <1>a, <2>1, Zenon DEF RecvOK, Sent
<1> QED
  BY <1>a, <1>3, <1>5, <1>6, <1>7, <1>8, <1>9, Zenon

-----------------------------------------------------------------------------

(* A step of any rank, or none, keeps the invariant.                       *)
LEMMA StepIInv ==
  ASSUME Separated, IInv, NEW p \in Rank, Step(p)
  PROVE  IInv'
  BY EnterStep, IssendStep, ProbeHitStep, LoopStep, TestallSentStep, TestDoneStep, Zenon DEF Step

(* A step of no process keeps the invariant.                                *)
LEMMA StutterIInv ==
  ASSUME IInv, UNCHANGED vars
  PROVE  IInv'
<1> USE DEF vars
<1>1. TypeOK' /\ LockStep' /\ TosendOK'
  BY Zenon DEF IInv, TypeOK, LockStep, TosendOK, barr
<1>2. BarrierOK' /\ NetOK' /\ EarlyOK' /\ OnceOK'
  BY Zenon DEF IInv, BarrierOK, NetOK, EarlyOK, OnceOK, barr
<1>3. RecvOK'
  <2>1. \A r \in Rank : Senders(entered[r], r)' = Senders(entered[r], r)
    BY Zenon DEF Senders
  <2> QED
    BY <2>1, Zenon DEF IInv, RecvOK, Sent
<1> QED
  BY <1>1, <1>2, <1>3, Zenon DEF IInv

(* The invariant holds in every reachable state.                           *)
THEOREM Invariance ==
  ASSUME CallsSeparated
  PROVE  Spec => []IInv
<1>1. IInv => Separated
  BY Zenon DEF IInv, CallsSeparated, Separated
<1>2. IInv /\ [Next]_vars => IInv'
  BY <1>1, StepIInv, StutterIInv, Zenon DEF Next
<1> QED
  BY InitIInv, <1>2, PTL DEF Spec

(* All variables of the NBX model keep their types.                        *)
THEOREM TypeCorrect ==
  ASSUME CallsSeparated
  PROVE  Spec => []TypeOK
<1>1. IInv => TypeOK
  BY Zenon DEF IInv
<1> QED
  BY Invariance, <1>1, PTL

(* All ranks in the barrier: all synchronous sends were matched.           *)
LEMMA BarrierMeansAll == IInv => BarrierMeansReceived
<1> SUFFICES ASSUME IInv, NEW p \in Rank, entered[p] >= 1,
                    \A q \in Rank : ibarrier[q] >= entered[p]
             PROVE  /\ Sources(recv[p]) = Senders(entered[p], p)
                    /\ ReceivedOnce(recv[p])
  BY Zenon DEF BarrierMeansReceived, ReceivedOnce
<1>0. \A q \in Rank : entered[q] \in 0 .. Calls /\ ibarrier[q] \in 0 .. Calls
  BY Zenon DEF IInv, TypeOK
<1>1. ASSUME NEW q \in Rank
      PROVE  Sent(q, p, entered[p]) /\ Msg(q, p, entered[p]) \notin net
  <2>1. entered[q] >= entered[p]
    BY <1>0, <1>1, CallsAssumption DEF IInv, BarrierOK
  <2>2. entered[q] = entered[p] => barr(q) /\ tosend[q] = {}
    BY <1>0, <1>1, CallsAssumption DEF IInv, BarrierOK, TosendOK, barr
  <2>3. Sent(q, p, entered[p])
    BY <1>0, <2>1, <2>2, CallsAssumption DEF Sent
  <2>4. Msg(q, p, entered[p]) \notin net
    BY <1>0, <2>1, <2>2, Zenon DEF IInv, NetOK, Msg
  <2> QED
    BY <2>3, <2>4, Zenon
<1>2. Sources(recv[p]) \subseteq Rank /\ Senders(entered[p], p) \subseteq Rank
  <2>1. recv[p] \in Seq(Item)
    BY Zenon DEF IInv, TypeOK
  <2> QED
    BY <2>1 DEF Sources, Senders, Item
<1>3. Sources(recv[p]) = Senders(entered[p], p)
  BY <1>1, <1>2, Zenon DEF IInv, RecvOK
<1> QED
  BY <1>3, Zenon DEF IInv, OnceOK

(* A complete barrier means that every message of the call was received.   *)
THEOREM BarrierSuffices ==
  ASSUME CallsSeparated
  PROVE  Spec => []BarrierMeansReceived
  BY Invariance, BarrierMeansAll, PTL

-----------------------------------------------------------------------------

(* The arguments for which sc_notify.h documents the results: payload that *)
(* is not to be sorted goes to an empty array of its own.                  *)
Documented == mode.payload /\ ~mode.sorted => ~mode.inplace /\ mode.stale = 0

(* Under the documented use, what sc_notify_payload leaves in the caller's  *)
(* arrays is what it received, with no remainder of an earlier content.     *)
LEMMA OutputDocumented ==
  ASSUME mode \in Mode, Documented, NEW t \in Seq(Item)
  PROVE  Output(t) = Arrays(t)
<1> DEFINE src == [i \in 1 .. Len(t) |-> t[i][1]]
           pay == [i \in 1 .. Len(t) |-> t[i][2]]
<1>1. mode.payload \in BOOLEAN /\ mode.sorted \in BOOLEAN
  BY Zenon DEF Mode
<1>2. CASE ~mode.payload
  BY <1>2, Zenon DEF Output, Arrays
<1>3. CASE mode.payload /\ mode.sorted
  BY <1>3, Zenon DEF Output, Arrays
<1>4. CASE mode.payload /\ ~mode.sorted
  <2>1. ~mode.inplace /\ Fill(mode.stale, -1) = <<>> /\ Fill(mode.stale, Garbage) = <<>>
    BY <1>4 DEF Documented, Fill
  <2>2. \A i \in 1 .. Len(t) : t[i][1] \in Rank /\ t[i][2] \in Rank \X (1 .. Calls)
    BY DEF Item
  <2>3. src \in Seq(Rank) /\ pay \in Seq(Rank \X (1 .. Calls))
    BY <2>2
  <2>4. Output(t) = [senders |-> src \o <<>>, payload |-> <<>> \o pay]
    BY <1>4, <2>1, Zenon DEF Output
  <2>5. Arrays(t) = [senders |-> src, payload |-> pay]
    BY <1>4, Zenon DEF Arrays
  <2> HIDE DEF src, pay
  <2>6. src \o <<>> = src /\ <<>> \o pay = pay
    BY <2>3
  <2> QED
    BY <2>4, <2>5, <2>6, Zenon
<1> QED
  BY <1>1, <1>2, <1>3, <1>4, Zenon

(* Every step of a rank is one that Notify allows, or invisible.           *)
LEMMA StepAllowed ==
  ASSUME IInv, CallOK, Documented, NEW p \in Rank, Step(p)
  PROVE  CallOK' /\ (Abstract!Enter(p) \/ Abstract!Return(p) \/ UNCHANGED Abstract!vars)
<1> USE CallsAssumption
<1>1. CallTypes /\ \A m \in net : m.src \in Rank /\ m.call \in 1 .. Calls
  BY Zenon DEF IInv, TypeOK, CallTypes, Message
<1>2. CASE Enter(p)
  BY <1>1, <1>2, CallEntered, Zenon DEF Enter
<1>3. CASE Issend(p)
  BY <1>3, CallContinued, Zenon DEF Issend
<1>4. CASE ProbeMiss(p) \/ TestallSent(p) \/ TestPending(p)
  <2>1. /\ pc[p] # "idle" /\ pc' \in {[pc EXCEPT ![p] = "test"], [pc EXCEPT ![p] = "probe"]}
        /\ UNCHANGED <<receivers, mode, entered, recv, out>>
    BY <1>4, Zenon DEF ProbeMiss, TestallSent, TestPending
  <2>2. \A r \in Rank : pc'[r] = "idle" <=> pc[r] = "idle"
    BY <1>1, <2>1, Zenon DEF CallTypes
  <2> QED
    BY <2>1, <2>2, CallContinued, Zenon
<1>5. CASE ProbeHit(p)
  <2>1. /\ pc[p] = "probe" /\ pc' = [pc EXCEPT ![p] = "test"]
        /\ UNCHANGED <<receivers, mode, entered, out>>
    BY <1>5, Zenon DEF ProbeHit
  <2>2. \A r \in Rank : pc'[r] = "idle" <=> pc[r] = "idle"
    BY <1>1, <2>1, Zenon DEF CallTypes
  <2>3. PICK m \in net : /\ m.dst = p
                         /\ recv' = [recv EXCEPT ![p] = Append(recv[p], <<m.src, <<m.src, m.call>>>>)]
    BY <1>5, Zenon DEF ProbeHit
  <2>4. m.call = entered[p]
    <3>1. m.call = entered[m.src] /\ pc[m.src] # "idle"
      BY <1>1, Zenon DEF IInv, NetOK, BarrierOK
    <3> QED
      <4>1. /\ Len(out[p]) = entered[p] - 1 /\ Len(out[m.src]) = entered[m.src] - 1
            /\ Len(out[p]) >= entered[m.src] - 1 /\ Len(out[m.src]) >= entered[p] - 1
        BY <1>1, <2>1, <3>1, Zenon DEF IInv, LockStep
      <4>2. entered[p] \in Int /\ entered[m.src] \in Int
        BY <1>1 DEF IInv, TypeOK
      <4> QED
        BY <3>1, <4>1, <4>2
  <2> QED
    BY <1>1, <2>1, <2>2, <2>3, <2>4, CallReceived, Zenon
<1>6. CASE TestDone(p)
  <2>1. /\ pc[p] = "test" /\ pc' = [pc EXCEPT ![p] = "idle"]
        /\ UNCHANGED <<receivers, mode, entered, recv>>
    BY <1>6, Zenon DEF TestDone
  <2>2. PICK t \in Arranged(recv[p]) : out' = [out EXCEPT ![p] = Append(out[p], Output(t))]
    BY <1>6, Zenon DEF TestDone, sc_notify_payload_cleanup, Arranged
  <2>3. t \in Seq(Item)
    BY <1>1, SortedType, Zenon DEF Arranged, CallTypes
  <2>4. Output(t) = Arrays(t)
    BY <1>1, <2>3, OutputDocumented, Zenon DEF CallTypes
  <2>5. entered[p] >= 1 /\ \A q \in Rank : ibarrier[q] >= entered[p]
    BY <1>6, <2>1, Zenon DEF IInv, LockStep, TestDone
  <2>6. ReceivedOnce(recv[p]) /\ Sources(recv[p]) = Senders(entered[p], p)
    BY <2>5, BarrierMeansAll, Zenon DEF IInv, OnceOK, BarrierMeansReceived
  <2>7. \A q \in Senders(entered[p], p) : entered[q] >= entered[p]
    <3>1. \A q \in Rank : entered[q] \in 0 .. Calls /\ ibarrier[q] \in {entered[q] - 1, entered[q]}
      BY Zenon DEF IInv, TypeOK, BarrierOK
    <3> QED
      BY <1>1, <2>5, <3>1 DEF Senders
  <2>8. CallOK' /\ Abstract!Return(p)
    BY <1>1, <2>1, <2>2, <2>4, <2>6, <2>7, CallReturned, Zenon
  <2> QED
    BY <2>8, Zenon
<1> QED
  BY <1>2, <1>3, <1>4, <1>5, <1>6, Zenon DEF Step

(* SC_NOTIFY_NBX keeps the promise of sc_notify_payload for all patterns,  *)
(* if consecutive calls are separated and the arguments are the documented *)
(* ones: every rank returns the ranks that named it in the same call, each *)
(* with the payload it sent there, although it learns only that barriers   *)
(* and synchronous sends have completed.                                   *)
THEOREM NbxImplementsNotify ==
  ASSUME CallsSeparated,
         \A m \in Modes : m.payload /\ ~m.sorted => ~m.inplace /\ m.stale = 0
  PROVE  Spec => ImplementsNotify
<1>1. IInv => Documented
  BY Zenon DEF IInv, Documented
<1>2. IInv /\ CallOK /\ [Next]_vars => CallOK' /\ [Abstract!Next]_(Abstract!vars)
  <2> SUFFICES ASSUME IInv, CallOK, [Next]_vars
               PROVE  CallOK' /\ [Abstract!Next]_(Abstract!vars)
    OBVIOUS
  <2>1. ASSUME NEW p \in Rank, Step(p) PROVE CallOK' /\ [Abstract!Next]_(Abstract!vars)
    BY <1>1, <2>1, StepAllowed, Zenon DEF Abstract!Next, Abstract!Rank, Rank
  <2>2. CASE UNCHANGED vars
    BY <2>2, Zenon DEF vars, CallOK, Abstract!vars
  <2> QED
    BY <2>1, <2>2, Zenon DEF Next
<1>3. Init => CallOK /\ Abstract!Init
  BY CallsBegin, Zenon DEF Init
<1> QED
  BY <1>2, <1>3, Invariance, PTL DEF Spec, ImplementsNotify, Abstract!Spec

=============================================================================
