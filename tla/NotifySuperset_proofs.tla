----------------------- MODULE NotifySuperset_proofs -----------------------
(***************************************************************************)
(* Proofs about NotifySuperset, for any number of ranks, any receiver      *)
(* patterns and supersets and any number of calls, provided consecutive    *)
(* calls are separated by the application: the two tags are the same in    *)
(* all calls, and a rank counts messages whatever call they belong to.     *)
(***************************************************************************)
EXTENDS NotifySuperset, NotifyCalls_proofs

Patterned == [1 .. Calls -> [Rank -> SUBSET Rank]]

(* The one message of rank q to rank p in call c, true or extra.           *)
Note(q, p, c) ==
  [src |-> q, dst |-> p, call |-> c, kind |-> IF p \in receivers[c][q] THEN "true" ELSE "extra"]

(* The members of the superset of p that it has not heard from yet.        *)
Pending(p) ==
  {q \in SuperSenders(entered[p], p) : entered[q] < entered[p] \/ Note(q, p, entered[p]) \in net}

TypeOK ==
  /\ receivers \in Patterned /\ extra \in Patterned
  /\ mode \in Modes /\ mode \in Mode
  /\ entered \in [Rank -> 0 .. Calls]
  /\ pc \in [Rank -> {"idle", "loop"}]
  /\ queue \in [Rank -> Nat]
  /\ net \subseteq [src : Rank, dst : Rank, call : 1 .. Calls, kind : {"true", "extra"}]
  /\ recv \in [Rank -> Seq(Item)]
  /\ out \in [Rank -> Seq(Result)]

(* Counting calls: p has returned from every call it has entered but the   *)
(* current one, and nobody is a whole call ahead of anybody.               *)
LockStep ==
  \A p, q \in Rank :
     /\ Len(out[p]) = IF pc[p] = "idle" THEN entered[p] ELSE entered[p] - 1
     /\ pc[p] # "idle" => entered[p] >= 1
     /\ Len(out[q]) >= entered[p] - 1

(* A message in flight belongs to the call its sender is in, and its       *)
(* destination has not returned from that call.                            *)
NetOK ==
  \A m \in net : /\ m = Note(m.src, m.dst, m.call)
                 /\ m.src \in SuperSenders(m.call, m.dst)
                 /\ m.call = entered[m.src]
                 /\ entered[m.dst] <= m.call
                 /\ pc[m.dst] = "idle" => entered[m.dst] < m.call

(* The queue counts the members of the superset that are still pending.    *)
QueueOK ==
  \A p \in Rank : entered[p] >= 1 => /\ queue[p] = Cardinality(Pending(p))
                                     /\ pc[p] = "idle" => queue[p] = 0

(* What has been received is what was sent and is not in flight any more.  *)
RecvOK ==
  \A p, q \in Rank :
     entered[p] >= 1 =>
       (q \in Sources(recv[p]) <=> /\ q \in Senders(entered[p], p)
                                   /\ entered[q] >= entered[p]
                                   /\ Note(q, p, entered[p]) \notin net)

(* A message to a rank that has not yet entered the call stays in flight.  *)
EarlyOK ==
  \A p, q \in Rank :
     entered[q] > entered[p] /\ q \in SuperSenders(entered[q], p) => Note(q, p, entered[q]) \in net

OnceOK == \A p \in Rank : ReceivedOnce(recv[p])

(* The inductive invariant.                                                *)
IInv ==
  /\ TypeOK
  /\ LockStep
  /\ NetOK
  /\ QueueOK
  /\ RecvOK
  /\ EarlyOK
  /\ OnceOK

-----------------------------------------------------------------------------

(* A superset is finite.                                                   *)
LEMMA SupersetFinite ==
  ASSUME NEW c, NEW p, NEW S \in SUBSET SuperSenders(c, p)
  PROVE  IsFiniteSet(S) /\ Cardinality(S) \in Nat
<1>1. IsFiniteSet(Rank)
  BY FS_Interval, PAssumption DEF Rank
<1>2. S \in SUBSET Rank
  BY Zenon DEF SuperSenders
<1> QED
  BY <1>1, <1>2, FS_Subset, FS_CardinalityType, Zenon

(* What is returned has the right type.                                    *)
LEMMA OutputType ==
  ASSUME NEW s \in Seq(Item), NEW t \in SortedBySource(s) \cup {s}
  PROVE  Output(t) = Arrays(t) /\ Output(t) \in Result
<1>1. t \in Seq(Item)
  BY SortedType, Zenon
<1>2. \A i \in 1 .. Len(t) : t[i][1] \in Rank /\ t[i][2] \in Rank \X (1 .. Calls)
  BY <1>1 DEF Item
<1>3. DOMAIN t = 1 .. Len(t) /\ Len(t) \in Nat
  BY <1>1
<1>4. [i \in DOMAIN t |-> t[i][1]] \in Seq(Rank)
  BY <1>2, <1>3
<1>5. [i \in DOMAIN t |-> t[i][2]] \in Seq(Rank \X (1 .. Calls))
  BY <1>2, <1>3
<1> QED
  BY <1>3, <1>4, <1>5 DEF Output, Result, Arrays

(* Before the first call nothing is sent, received or owed.                 *)
LEMMA InitIInv ==
  ASSUME Init, Extras \subseteq Patterned
  PROVE  IInv
<1> USE PAssumption, CallsAssumption, PatternsAssumption, ModesAssumption
<1>1. TypeOK
  <2>1. extra \in Patterned
    <3>1. [c \in 1 .. Calls |-> [p \in Rank |-> {}]] \in Patterned
      BY Zenon DEF Patterned
    <3> QED
      BY <3>1, Zenon DEF Init
  <2> QED
    BY <2>1 DEF Init, CallsInit, TypeOK, Patterned
<1>2. LockStep /\ NetOK /\ QueueOK /\ RecvOK /\ EarlyOK
  BY DEF Init, CallsInit, LockStep, NetOK, QueueOK, RecvOK, EarlyOK, Rank
<1>3. OnceOK
  BY DEF Init, CallsInit, OnceOK, ReceivedOnce
<1> QED
  BY <1>1, <1>2, <1>3, Zenon DEF IInv

(* A rank enters its next call and sends.                                  *)
LEMMA EnterStep ==
  ASSUME Separated, IInv, NEW p \in Rank, Enter(p)
  PROVE  IInv'
<1> USE CallsAssumption DEF IInv
<1> DEFINE c == entered[p] + 1
<1>0. /\ \A q \in Rank : entered[q] \in 0 .. Calls /\ Len(out[q]) \in Nat
      /\ \A m \in net : m.src \in Rank /\ m.dst \in Rank /\ m.call \in 1 .. Calls
  BY DEF TypeOK
<1>a. /\ pc[p] = "idle" /\ pc'[p] = "loop"
      /\ c \in 1 .. Calls
      /\ entered'[p] = c
      /\ queue'[p] = Cardinality(SuperSenders(c, p))
      /\ recv'[p] = <<>>
      /\ \A q \in Rank \ {p} : /\ pc'[q] = pc[q]
                              /\ entered'[q] = entered[q]
                              /\ queue'[q] = queue[q]
                              /\ recv'[q] = recv[q]
      /\ UNCHANGED <<receivers, extra, mode, out>>
  BY <1>0 DEF Enter, MayEnter, TypeOK
<1>b. \A q \in Rank : Len(out[q]) >= entered[p]
  BY <1>0, <1>a DEF Enter, MayEnter, Separated
<1>c. \A q \in Rank : entered[q] <= c
  BY <1>0, <1>a DEF LockStep
<1>d. receivers[c][p] \in SUBSET Rank /\ extra[c][p] \in SUBSET Rank
  BY <1>a DEF TypeOK, Patterned
<1>e. net' = net \cup {Note(p, q, c) : q \in receivers[c][p] \cup extra[c][p]}
  <2>1. {Note(p, q, c) : q \in receivers[c][p] \cup extra[c][p]} =
           Messages(p, c, "true", receivers[c][p]) \cup Messages(p, c, "extra", ExtraReceivers(c, p))
    BY Zenon DEF Note, Messages, ExtraReceivers
  <2> QED
    BY <2>1, Zenon DEF Enter
<1> HIDE DEF c
<1>f. ASSUME NEW q \in Rank
      PROVE  p \in SuperSenders(c, q) <=> q \in receivers[c][p] \cup extra[c][p]
  BY Zenon DEF SuperSenders
<1>g. \A m \in net : m.src # p
  <2> SUFFICES ASSUME NEW m \in net, m.src = p PROVE FALSE
    OBVIOUS
  <2>1. m.call = entered[p] /\ entered[m.dst] <= m.call /\ (pc[m.dst] = "idle" => entered[m.dst] < m.call)
    BY Zenon DEF NetOK
  <2>2. Len(out[m.dst]) >= entered[p] /\ m.dst \in Rank
    BY <1>0, <1>b, Zenon
  <2> QED
    BY <1>0, <2>1, <2>2 DEF LockStep
<1>h. ASSUME NEW q, NEW r, NEW k
      PROVE  Note(q, r, k)' = Note(q, r, k) /\ SuperSenders(k, r)' = SuperSenders(k, r)
                            /\ Senders(k, r)' = Senders(k, r)
  BY <1>a, Zenon DEF Note, SuperSenders, Senders
<1>i. ASSUME NEW q \in Rank, NEW r \in Rank, NEW k \in 1 .. Calls
      PROVE  Note(q, r, k) \in net' <=> \/ Note(q, r, k) \in net
                                        \/ q = p /\ k = c /\ q \in SuperSenders(k, r)
  <2>1. Note(q, r, k) \in net' <=> \/ Note(q, r, k) \in net
                                   \/ \E d \in receivers[c][p] \cup extra[c][p] : Note(q, r, k) = Note(p, d, c)
    BY <1>e, Zenon
  <2>2. \A d : Note(q, r, k) = Note(p, d, c) <=> q = p /\ k = c /\ r = d
    BY Zenon DEF Note
  <2> QED
    BY <1>f, <2>1, <2>2
<1>1. TypeOK'
  <2>1. queue' \in [Rank -> Nat]
    <3>1. Cardinality(SuperSenders(c, p)) \in Nat
      BY SupersetFinite, Zenon
    <3> QED
      BY <3>1, <1>a, Zenon DEF TypeOK, Enter, c
  <2>2. net' \subseteq [src : Rank, dst : Rank, call : 1 .. Calls, kind : {"true", "extra"}]
    BY <1>a, <1>d, <1>e DEF TypeOK, Note
  <2>3. /\ entered' \in [Rank -> 0 .. Calls]
        /\ pc' \in [Rank -> {"idle", "loop"}]
        /\ recv' \in [Rank -> Seq(Item)]
    BY <1>a DEF TypeOK, Enter, c
  <2>4. receivers' = receivers /\ extra' = extra /\ mode' = mode /\ out' = out
    BY <1>a, Zenon
  <2> QED
    BY <2>1, <2>2, <2>3, <2>4, Zenon DEF TypeOK
<1>2. LockStep'
  BY <1>0, <1>a, <1>b DEF LockStep, c
<1>3. NetOK'
  <2> SUFFICES ASSUME NEW m \in net'
               PROVE  /\ m = Note(m.src, m.dst, m.call)
                      /\ m.src \in SuperSenders(m.call, m.dst)
                      /\ m.call = entered'[m.src]
                      /\ entered'[m.dst] <= m.call
                      /\ pc'[m.dst] = "idle" => entered'[m.dst] < m.call
    BY <1>h DEF NetOK
  <2>1. CASE m \in net
    <3>1. m.src # p /\ m.src \in Rank /\ m.dst \in Rank
      BY <1>0, <1>g, <2>1, Zenon
    <3>2. m.dst = p => m.call = c
      <4> SUFFICES ASSUME m.dst = p PROVE m.call = c
        OBVIOUS
      <4>1. entered[p] < m.call /\ m.call <= c
        BY <1>a, <1>c, <2>1, <3>1, Zenon DEF NetOK
      <4> QED
        BY <1>0, <2>1, <4>1 DEF c
    <3> QED
      BY <1>0, <1>a, <2>1, <3>1, <3>2 DEF NetOK
  <2>2. CASE m \notin net
    <3>1. PICK d \in receivers[c][p] \cup extra[c][p] : m = Note(p, d, c)
      BY <1>e, <2>2, Zenon
    <3>2. m.src = p /\ m.dst = d /\ m.call = c /\ d \in Rank
      BY <1>d, <3>1, Zenon DEF Note
    <3>3. entered'[d] <= c
      BY <1>0, <1>a, <1>c, <3>2
    <3>4. pc'[d] = "idle" => entered'[d] < c
      <4> SUFFICES ASSUME pc[d] = "idle", d # p, entered[d] = c PROVE FALSE
        BY <1>0, <1>a, <1>c, <3>2, <3>3
      <4>1. queue[d] = 0 /\ queue[d] = Cardinality(Pending(d))
        BY <1>a, <3>2 DEF QueueOK
      <4>2. p \in Pending(d)
        BY <1>0, <1>f, <3>2 DEF Pending, c
      <4>3. IsFiniteSet(Pending(d))
        BY SupersetFinite, Zenon DEF Pending
      <4> QED
        BY <4>1, <4>2, <4>3, FS_EmptySet, Zenon
    <3> QED
      BY <1>a, <1>f, <3>1, <3>2, <3>3, <3>4, Zenon
  <2> QED
    BY <2>1, <2>2, Zenon
<1>4. ASSUME NEW r \in Rank \ {p}, entered[r] >= 1
      PROVE  Pending(r)' = Pending(r)
  <2>1. entered'[r] = entered[r] /\ entered[r] \in 1 .. Calls
    BY <1>0, <1>a, <1>4
  <2>2. ASSUME NEW q \in SuperSenders(entered[r], r)
        PROVE  (entered'[q] < entered[r] \/ Note(q, r, entered[r]) \in net')
                 <=> (entered[q] < entered[r] \/ Note(q, r, entered[r]) \in net)
    <3>1. q \in Rank
      BY Zenon DEF SuperSenders
    <3>2. CASE q # p
      BY <1>a, <1>i, <2>1, <3>1, <3>2, Zenon
    <3>3. CASE q = p
      <4>1. Note(q, r, entered[r]) \notin net
        BY <1>g, <3>3, Zenon DEF Note
      <4>2. Note(q, r, entered[r]) \in net' <=> entered[r] = c
        BY <1>i, <2>1, <2>2, <3>1, <3>3, <4>1, Zenon
      <4>3. ~(entered'[q] < entered[r])
        BY <1>0, <1>a, <1>c, <3>3
      <4>4. entered[q] < entered[r] <=> entered[r] = c
        BY <1>0, <1>c, <3>3 DEF c
      <4> QED
        BY <4>1, <4>2, <4>3, <4>4, Zenon
    <3> QED
      BY <3>2, <3>3, Zenon
  <2>3. Pending(r)' = {q \in SuperSenders(entered[r], r) :
                         entered'[q] < entered[r] \/ Note(q, r, entered[r]) \in net'}
    BY <1>a, <1>h, <2>1, Zenon DEF Pending, SuperSenders, Note
  <2> QED
    BY <2>2, <2>3, Zenon DEF Pending
<1>5. Pending(p)' = SuperSenders(c, p)
  <2>1. Pending(p)' = {q \in SuperSenders(c, p) : entered'[q] < c \/ Note(q, p, c) \in net'}
    BY <1>a, Zenon DEF Pending, SuperSenders, Note
  <2>2. ASSUME NEW q \in SuperSenders(c, p)
        PROVE  entered'[q] < c \/ Note(q, p, c) \in net'
    <3>1. q \in Rank
      BY Zenon DEF SuperSenders
    <3>2. CASE q = p
      BY <1>a, <1>i, <2>2, <3>1, <3>2, Zenon
    <3>3. CASE q # p
      <4> SUFFICES ASSUME entered[q] = c PROVE Note(q, p, c) \in net
        BY <1>0, <1>a, <1>c, <1>i, <3>1, <3>3
      <4> QED
        BY <1>0, <2>2, <3>1 DEF EarlyOK, c
    <3> QED
      BY <3>2, <3>3, Zenon
  <2> QED
    BY <2>1, <2>2, Zenon
<1>6. QueueOK'
  <2> SUFFICES ASSUME NEW r \in Rank, entered'[r] >= 1
               PROVE  queue'[r] = Cardinality(Pending(r)') /\ (pc'[r] = "idle" => queue'[r] = 0)
    BY Zenon DEF QueueOK
  <2>1. CASE r = p
    BY <1>a, <1>5, <2>1, Zenon
  <2>2. CASE r # p
    BY <1>a, <1>4, <2>2, Zenon DEF QueueOK
  <2> QED
    BY <2>1, <2>2, Zenon
<1>7. RecvOK'
  <2> SUFFICES ASSUME NEW r \in Rank, NEW q \in Rank, entered'[r] >= 1
               PROVE  q \in Sources(recv'[r]) <=> /\ q \in Senders(entered'[r], r)
                                                  /\ entered'[q] >= entered'[r]
                                                  /\ Note(q, r, entered'[r]) \notin net'
    BY <1>a, Zenon DEF RecvOK, Senders, Note
  <2>1. CASE r = p
    <3>1. Sources(recv'[r]) = {}
      BY <1>a, <2>1 DEF Sources
    <3>2. q \in Senders(c, p) => q \in SuperSenders(c, p)
      BY Zenon DEF Senders, SuperSenders
    <3>3. q \in SuperSenders(c, p) => entered'[q] < c \/ Note(q, p, c) \in net'
      BY <1>5, <1>a, Zenon DEF Pending, SuperSenders, Note
    <3>4. entered'[q] \in Nat /\ c \in Nat
      BY <1>0, <1>a
    <3> QED
      BY <1>a, <2>1, <3>1, <3>2, <3>3, <3>4
  <2>2. CASE r # p
    <3>1. entered'[r] = entered[r] /\ recv'[r] = recv[r] /\ entered[r] \in 1 .. Calls
      BY <1>0, <1>a, <2>2
    <3>2. CASE q # p
      BY <1>a, <1>i, <3>1, <3>2, Zenon DEF RecvOK
    <3>3. CASE q = p
      <4>1. Note(q, r, entered[r]) \notin net
        BY <1>g, <3>3, Zenon DEF Note
      <4>2. q \in Senders(entered[r], r) => q \in SuperSenders(entered[r], r)
        BY Zenon DEF Senders, SuperSenders
      <4>3. CASE entered[r] = c
        <5>1. ~(entered[q] >= entered[r])
          BY <1>0, <3>3, <4>3 DEF c
        <5> QED
          BY <1>i, <3>1, <3>3, <4>2, <4>3, <5>1, Zenon DEF RecvOK
      <4>4. CASE entered[r] # c
        <5>1. entered[q] >= entered[r] /\ entered'[q] >= entered[r]
          BY <1>0, <1>a, <1>c, <3>3, <4>4 DEF c
        <5> QED
          BY <1>i, <3>1, <3>3, <4>1, <4>4, <5>1, Zenon DEF RecvOK
      <4> QED
        BY <4>3, <4>4, Zenon
    <3> QED
      BY <3>2, <3>3, Zenon
  <2> QED
    BY <2>1, <2>2, Zenon
<1>8. EarlyOK'
  <2> SUFFICES ASSUME NEW r \in Rank, NEW q \in Rank, entered'[q] > entered'[r],
                      q \in SuperSenders(entered'[q], r)
               PROVE  Note(q, r, entered'[q]) \in net'
    BY <1>a, Zenon DEF EarlyOK, SuperSenders, Note
  <2>1. CASE q = p
    BY <1>a, <1>i, <2>1, Zenon
  <2>2. CASE q # p
    <3>1. r # p /\ entered[q] > entered[r] /\ entered[q] \in 1 .. Calls
      BY <1>0, <1>a, <1>c, <2>2
    <3> QED
      BY <1>a, <1>i, <2>2, <3>1, Zenon DEF EarlyOK
  <2> QED
    BY <2>1, <2>2, Zenon
<1>9. OnceOK'
  <2>1. ReceivedOnce(recv'[p])
    BY <1>a DEF ReceivedOnce
  <2> QED
    BY <1>a, <2>1, Zenon DEF OnceOK
<1> QED
  BY <1>1, <1>2, <1>3, <1>6, <1>7, <1>8, <1>9, Zenon

(* A rank takes a message off the network: a true one is kept, an extra    *)
(* one only counted.                                                       *)
Heard(p, m) ==
  /\ pc[p] = "loop" /\ m.dst = p
  /\ net' = net \ {m}
  /\ recv' = IF m.kind = "true"
               THEN [recv EXCEPT ![p] = Append(recv[p], <<m.src, <<m.src, m.call>>>>)]
               ELSE recv
  /\ queue' = [queue EXCEPT ![p] = queue[p] - 1]
  /\ UNCHANGED <<receivers, extra, mode, entered, pc, out>>

(* It is one of the current call.                                          *)
LEMMA HeardNow ==
  ASSUME IInv, NEW p \in Rank, NEW m \in net, m.dst = p, pc[p] = "loop"
  PROVE  /\ m.src \in Rank /\ entered[p] \in 1 .. Calls /\ m.call = entered[p]
         /\ m = Note(m.src, p, entered[p]) /\ m.src \in Pending(p)
         /\ m.kind = "true" <=> m.src \in Senders(entered[p], p)
<1> USE CallsAssumption DEF IInv
<1>0. \A q \in Rank : entered[q] \in 0 .. Calls
  BY Zenon DEF TypeOK
<1>1. m.src \in Rank /\ m.call \in 1 .. Calls /\ entered[p] \in 1 .. Calls
  <2>1. m.src \in Rank /\ m.call \in 1 .. Calls
    BY DEF TypeOK
  <2>2. entered[p] >= 1
    BY Zenon DEF LockStep
  <2> QED
    BY <1>0, <2>1, <2>2
<1>2. m.call = entered[p]
  BY <1>0, <1>1 DEF NetOK, LockStep
<1>3. m = Note(m.src, p, entered[p]) /\ m.src \in SuperSenders(entered[p], p)
  BY <1>2, Zenon DEF NetOK
<1>4. m.src \in Pending(p)
  BY <1>3, Zenon DEF Pending
<1>5. m.kind = "true" <=> m.src \in Senders(entered[p], p)
  BY <1>1, <1>3 DEF Note, Senders
<1> QED
  BY <1>1, <1>2, <1>3, <1>4, <1>5, Zenon

(* A process that takes a message off the network notes its sender, and     *)
(* the invariant is kept.                                                   *)
LEMMA HeardStep ==
  ASSUME IInv, NEW p \in Rank, NEW m \in net, Heard(p, m)
  PROVE  IInv'
<1> USE CallsAssumption DEF IInv
<1> DEFINE x == <<m.src, <<m.src, m.call>>>>
           S == Senders(entered[p], p)
<1>0. \A q \in Rank : entered[q] \in 0 .. Calls
  BY Zenon DEF TypeOK
<1>a. /\ pc[p] = "loop" /\ m.dst = p /\ net' = net \ {m}
      /\ queue'[p] = queue[p] - 1 /\ \A q \in Rank \ {p} : queue'[q] = queue[q]
      /\ UNCHANGED <<receivers, extra, mode, entered, pc, out>>
  BY Zenon DEF Heard, TypeOK
<1>b. /\ m.src \in Rank /\ entered[p] \in 1 .. Calls /\ m.call = entered[p]
      /\ m = Note(m.src, p, entered[p]) /\ m.src \in Pending(p)
      /\ m.kind = "true" <=> m.src \in S
  BY <1>a, HeardNow, Zenon
<1>c. m.src \notin Sources(recv[p])
  BY <1>b DEF RecvOK
<1>d. /\ recv' \in [Rank -> Seq(Item)]
      /\ \A q \in Rank \ {p} : recv'[q] = recv[q]
      /\ Sources(recv'[p]) = Sources(recv[p]) \cup (IF m.src \in S THEN {m.src} ELSE {})
      /\ ReceivedOnce(recv'[p])
  <2>0. recv \in [Rank -> Seq(Item)] /\ ReceivedOnce(recv[p])
    BY Zenon DEF TypeOK, OnceOK
  <2>1. CASE m.kind = "true"
    <3>1. recv' = [recv EXCEPT ![p] = Append(recv[p], x)]
      BY <2>1, Zenon DEF Heard
    <3>2. x \in Item
      BY <1>b, Zenon DEF Item
    <3> HIDE DEF x, S
    <3>3. /\ Append(recv[p], x) \in Seq(Item)
          /\ Sources(Append(recv[p], x)) = Sources(recv[p]) \cup {m.src}
          /\ ReceivedOnce(Append(recv[p], x))
      <4>1. x[1] = m.src
        BY Zenon DEF x
      <4> QED
        BY <1>c, <2>0, <3>2, <4>1, SourcesAppend, Zenon
    <3> QED
      BY <1>b, <2>0, <2>1, <3>1, <3>3, Zenon
  <2>2. CASE m.kind # "true"
    BY <1>b, <2>0, <2>2, Zenon DEF Heard
  <2> QED
    BY <2>1, <2>2, Zenon
<1> HIDE DEF x
<1>e. ASSUME NEW q, NEW r, NEW k
      PROVE  Note(q, r, k)' = Note(q, r, k) /\ SuperSenders(k, r)' = SuperSenders(k, r)
                            /\ Senders(k, r)' = Senders(k, r)
  BY <1>a, Zenon DEF Note, SuperSenders, Senders
<1>f. ASSUME NEW q, NEW r, NEW k
      PROVE  Note(q, r, k) \in net' <=> /\ Note(q, r, k) \in net
                                        /\ ~(q = m.src /\ r = p /\ k = entered[p])
  <2>1. Note(q, r, k) = Note(m.src, p, entered[p]) <=> q = m.src /\ r = p /\ k = entered[p]
    BY Zenon DEF Note
  <2> QED
    BY <1>a, <1>b, <2>1, Zenon
<1>g. ASSUME NEW r \in Rank
      PROVE  Pending(r)' = Pending(r) \ (IF r = p THEN {m.src} ELSE {})
  <2>1. Pending(r)' = {q \in SuperSenders(entered[r], r) :
                         entered[q] < entered[r] \/ Note(q, r, entered[r]) \in net'}
    BY <1>a, Zenon DEF Pending, SuperSenders, Note
  <2>2. ~(entered[m.src] < entered[p])
    BY <1>0, <1>b DEF NetOK
  <2> QED
    BY <1>f, <2>1, <2>2, Zenon DEF Pending
<1>h. /\ IsFiniteSet(Pending(p)) /\ queue[p] = Cardinality(Pending(p))
      /\ Cardinality(Pending(p) \ {m.src}) = queue[p] - 1
      /\ queue[p] - 1 \in Nat
  <2>1. IsFiniteSet(Pending(p))
    BY SupersetFinite, Zenon DEF Pending
  <2>2. queue[p] = Cardinality(Pending(p))
    BY <1>b DEF QueueOK
  <2>3. /\ IsFiniteSet(Pending(p) \ {m.src})
        /\ Cardinality(Pending(p) \ {m.src}) = Cardinality(Pending(p)) - 1
    BY <1>b, <2>1, FS_RemoveElement, Zenon
  <2>4. Cardinality(Pending(p) \ {m.src}) \in Nat
    BY <2>3, FS_CardinalityType, Zenon
  <2> QED
    BY <2>1, <2>2, <2>3, <2>4, Zenon
<1>1. TypeOK'
  <2>1. queue' \in [Rank -> Nat]
    BY <1>h, Zenon DEF TypeOK, Heard
  <2> QED
    BY <1>a, <1>d, <2>1, Zenon DEF TypeOK
<1>2. LockStep'
  BY <1>a, Zenon DEF LockStep
<1>3. NetOK'
  BY <1>a, <1>e, SMTT(30) DEF NetOK
<1>4. QueueOK'
  <2> SUFFICES ASSUME NEW r \in Rank, entered[r] >= 1
               PROVE  queue'[r] = Cardinality(Pending(r)') /\ (pc[r] = "idle" => queue'[r] = 0)
    BY <1>a, Zenon DEF QueueOK
  <2>1. CASE r = p
    BY <1>a, <1>g, <1>h, <2>1, Zenon
  <2>2. CASE r # p
    <3>1. Pending(r)' = Pending(r)
      BY <1>g, <2>2, Zenon
    <3> QED
      BY <1>a, <2>2, <3>1, Zenon DEF QueueOK
  <2> QED
    BY <2>1, <2>2, Zenon
<1>5. RecvOK'
  <2> SUFFICES ASSUME NEW r \in Rank, NEW q \in Rank, entered[r] >= 1
               PROVE  q \in Sources(recv'[r]) <=> /\ q \in Senders(entered[r], r)
                                                  /\ entered[q] >= entered[r]
                                                  /\ Note(q, r, entered[r]) \notin net'
    BY <1>a, Zenon DEF RecvOK, Senders, Note
  <2>1. entered[m.src] >= entered[p]
    BY <1>0, <1>b DEF NetOK
  <2>2. CASE r = p
    BY <1>b, <1>d, <1>f, <2>1, <2>2, Zenon DEF RecvOK
  <2>3. CASE r # p
    BY <1>d, <1>f, <2>3, Zenon DEF RecvOK
  <2> QED
    BY <2>2, <2>3, Zenon
<1>6. EarlyOK'
  <2> SUFFICES ASSUME NEW r \in Rank, NEW q \in Rank, entered[q] > entered[r],
                      q \in SuperSenders(entered[q], r)
               PROVE  Note(q, r, entered[q]) \in net'
    BY <1>a, Zenon DEF EarlyOK, SuperSenders, Note
  <2>1. ~(r = p /\ entered[q] = entered[p])
    BY <1>0
  <2> QED
    BY <1>f, <2>1, Zenon DEF EarlyOK
<1>7. OnceOK'
  BY <1>d, Zenon DEF OnceOK
<1> QED
  BY <1>1, <1>2, <1>3, <1>4, <1>5, <1>6, <1>7, Zenon

(* An empty queue means that every member of the superset was heard.       *)
LEMMA QueueEmpty ==
  ASSUME IInv, NEW p \in Rank, pc[p] = "loop", queue[p] = 0
  PROVE  /\ entered[p] \in 1 .. Calls /\ Pending(p) = {}
         /\ Sources(recv[p]) = Senders(entered[p], p)
         /\ \A q \in Senders(entered[p], p) : entered[q] >= entered[p]
         /\ \A m \in net : m.dst # p
<1> USE CallsAssumption DEF IInv
<1>0. \A q \in Rank : entered[q] \in 0 .. Calls
  BY Zenon DEF TypeOK
<1>1. entered[p] \in 1 .. Calls
  BY <1>0 DEF LockStep
<1>2. Pending(p) = {}
  <2>1. IsFiniteSet(Pending(p))
    BY SupersetFinite, Zenon DEF Pending
  <2>2. Cardinality(Pending(p)) = 0
    BY <1>1 DEF QueueOK
  <2> QED
    BY <2>1, <2>2, FS_EmptySet, Zenon
<1>3. \A q \in Senders(entered[p], p) : /\ q \in SuperSenders(entered[p], p)
                                        /\ entered[q] >= entered[p]
                                        /\ Note(q, p, entered[p]) \notin net
  <2> SUFFICES ASSUME NEW q \in Senders(entered[p], p)
               PROVE  /\ q \in SuperSenders(entered[p], p)
                      /\ entered[q] >= entered[p]
                      /\ Note(q, p, entered[p]) \notin net
    OBVIOUS
  <2>1. q \in Rank /\ q \in SuperSenders(entered[p], p)
    BY Zenon DEF Senders, SuperSenders
  <2>2. ~(entered[q] < entered[p] \/ Note(q, p, entered[p]) \in net)
    BY <1>2, <2>1, Zenon DEF Pending
  <2> QED
    BY <1>0, <2>1, <2>2
<1>4. Sources(recv[p]) = Senders(entered[p], p)
  <2>1. recv[p] \in Seq(Item)
    BY Zenon DEF TypeOK
  <2>2. Sources(recv[p]) \subseteq Rank /\ Senders(entered[p], p) \subseteq Rank
    BY <2>1 DEF Sources, Senders, Item
  <2> QED
    BY <1>1, <1>3, <2>2 DEF RecvOK
<1>5. \A m \in net : m.dst # p
  BY <1>2, HeardNow, Zenon
<1> QED
  BY <1>1, <1>2, <1>3, <1>4, <1>5, Zenon

(* A rank returns from the call.                                           *)
LEMMA ReturnStep ==
  ASSUME IInv, NEW p \in Rank, Return(p)
  PROVE  IInv'
<1> USE CallsAssumption DEF IInv
<1>0. \A q \in Rank : entered[q] \in 0 .. Calls /\ Len(out[q]) \in Nat
  BY DEF TypeOK
<1>a. /\ pc[p] = "loop" /\ queue[p] = 0
      /\ pc' = [pc EXCEPT ![p] = "idle"] /\ pc'[p] = "idle"
      /\ \A q \in Rank \ {p} : pc'[q] = pc[q]
      /\ UNCHANGED <<receivers, extra, mode, entered, queue, net, recv>>
  BY Zenon DEF Return, TypeOK
<1>b. entered[p] \in 1 .. Calls /\ \A m \in net : m.dst # p
  BY <1>a, QueueEmpty, Zenon
<1>c. out' \in [Rank -> Seq(Result)] /\ Len(out'[p]) = Len(out[p]) + 1
      /\ \A q \in Rank \ {p} : out'[q] = out[q]
  <2>1. PICK t \in SortedBySource(recv[p]) \cup {recv[p]} :
           out' = [out EXCEPT ![p] = Append(@, Output(t))]
    BY Zenon DEF Return
  <2>2. Output(t) \in Result
    BY OutputType, Zenon DEF TypeOK
  <2> QED
    BY <2>1, <2>2 DEF TypeOK
<1>1. TypeOK'
  BY <1>a, <1>c, Zenon DEF TypeOK
<1>2. LockStep'
  <2> SUFFICES ASSUME NEW r \in Rank, NEW q \in Rank
               PROVE  /\ Len(out'[r]) = IF pc'[r] = "idle" THEN entered[r] ELSE entered[r] - 1
                      /\ pc'[r] # "idle" => entered[r] >= 1
                      /\ Len(out'[q]) >= entered[r] - 1
    BY <1>a, Zenon DEF LockStep
  <2>1. Len(out[p]) = entered[p] - 1
    BY <1>a, Zenon DEF LockStep
  <2>2. Len(out'[q]) >= Len(out[q]) /\ Len(out'[q]) \in Nat
    BY <1>0, <1>c
  <2>3. Len(out[q]) >= entered[r] - 1
    BY Zenon DEF LockStep
  <2>4. Len(out'[q]) >= entered[r] - 1
    BY <1>0, <2>2, <2>3
  <2>5. CASE r = p
    BY <1>0, <1>a, <1>b, <1>c, <2>1, <2>4, <2>5
  <2>6. CASE r # p
    BY <1>a, <1>c, <2>4, <2>6, Zenon DEF LockStep
  <2> QED
    BY <2>5, <2>6, Zenon
<1>3. NetOK'
  BY <1>a, <1>b, Zenon DEF NetOK, Note, SuperSenders, TypeOK
<1>4. QueueOK'
  <2>1. \A r \in Rank : Pending(r)' = Pending(r)
    BY <1>a, Zenon DEF Pending, Note, SuperSenders
  <2> QED
    BY <1>a, <2>1, Zenon DEF QueueOK
<1>5. RecvOK' /\ EarlyOK' /\ OnceOK'
  BY <1>a, Zenon DEF RecvOK, EarlyOK, OnceOK, Note, SuperSenders, Senders
<1> QED
  BY <1>1, <1>2, <1>3, <1>4, <1>5, Zenon

-----------------------------------------------------------------------------

(* Receiving is hearing.                                                   *)
LEMMA RecvHeard ==
  ASSUME NEW p \in Rank, RecvTrue(p) \/ RecvExtra(p)
  PROVE  queue[p] > 0 /\ \E m \in net : Heard(p, m)
<1>1. CASE RecvTrue(p)
  BY <1>1, Zenon DEF RecvTrue, Heard
<1>2. CASE RecvExtra(p)
  <2>1. PICK m \in net : m.dst = p /\ m.kind = "extra" /\ net' = net \ {m}
    BY <1>2, Zenon DEF RecvExtra
  <2>2. Heard(p, m)
    BY <1>2, <2>1, Zenon DEF RecvExtra, Heard
  <2> QED
    BY <1>2, <2>2, Zenon DEF RecvExtra
<1> QED
  BY <1>1, <1>2, Zenon

(* A step of any rank, or none, keeps the invariant.                       *)
LEMMA StepIInv ==
  ASSUME Separated, IInv, NEW p \in Rank, Step(p)
  PROVE  IInv'
  BY EnterStep, RecvHeard, HeardStep, ReturnStep, Zenon DEF Step

(* A step of no process keeps the invariant.                                *)
LEMMA StutterIInv ==
  ASSUME IInv, UNCHANGED vars
  PROVE  IInv'
<1> USE DEF vars
<1>1. TypeOK' /\ LockStep' /\ OnceOK'
  BY Zenon DEF IInv, TypeOK, LockStep, OnceOK
<1>2. NetOK' /\ RecvOK' /\ EarlyOK'
  BY Zenon DEF IInv, NetOK, RecvOK, EarlyOK, Note, SuperSenders, Senders
<1>3. QueueOK'
  <2>1. \A r \in Rank : Pending(r)' = Pending(r)
    BY Zenon DEF Pending, Note, SuperSenders
  <2> QED
    BY <2>1, Zenon DEF IInv, QueueOK
<1> QED
  BY <1>1, <1>2, <1>3, Zenon DEF IInv

(* The invariant holds in every reachable state.                           *)
THEOREM Invariance ==
  ASSUME CallsSeparated, Extras \subseteq Patterned
  PROVE  Spec => []IInv
<1>1. IInv => Separated
  BY Zenon DEF IInv, TypeOK, CallsSeparated, Separated
<1>2. IInv /\ [Next]_vars => IInv'
  BY <1>1, StepIInv, StutterIInv, Zenon DEF Next
<1>3. Init => IInv
  BY InitIInv, Zenon
<1> QED
  BY <1>2, <1>3, PTL DEF Spec

(* A rank that has received as many messages as its superset has members   *)
(* has heard from exactly the ranks that inform it, and has left nothing   *)
(* of the call for the next one.                                           *)
THEOREM QueueSuffices ==
  ASSUME CallsSeparated, Extras \subseteq Patterned
  PROVE  Spec => []QueueMeansReceived
<1>1. IInv => QueueMeansReceived
  <2> SUFFICES ASSUME IInv, NEW p \in Rank, pc[p] = "loop", queue[p] = 0
               PROVE  /\ {recv[p][i][1] : i \in DOMAIN recv[p]} = Senders(entered[p], p)
                      /\ \A m \in net : m.dst = p => m.call > entered[p]
    BY Zenon DEF QueueMeansReceived
  <2>1. DOMAIN recv[p] = 1 .. Len(recv[p])
    BY DEF IInv, TypeOK
  <2> QED
    BY <2>1, QueueEmpty, Zenon DEF Sources
<1> QED
  BY Invariance, <1>1, PTL

(* Every step of a rank is one that Notify allows, or invisible.           *)
LEMMA StepAllowed ==
  ASSUME IInv, CallOK, NEW p \in Rank, Step(p)
  PROVE  CallOK' /\ (Abstract!Enter(p) \/ Abstract!Return(p) \/ UNCHANGED Abstract!vars)
<1> USE CallsAssumption
<1>1. CallTypes
  BY Zenon DEF IInv, TypeOK, CallTypes
<1>2. CASE Enter(p)
  BY <1>1, <1>2, CallEntered, Zenon DEF Enter
<1>3. CASE RecvTrue(p) \/ RecvExtra(p)
  <2>1. PICK m \in net : Heard(p, m)
    BY <1>3, RecvHeard, Zenon
  <2>2. m.src \in Rank /\ m.call = entered[p] /\ entered[p] \in 1 .. Calls
    BY <2>1, HeardNow, Zenon DEF Heard
  <2>3. UNCHANGED <<receivers, mode, entered, pc, out>>
    BY <2>1, Zenon DEF Heard
  <2>4. CASE m.kind = "true"
    <3>1. recv' = [recv EXCEPT ![p] = Append(recv[p], <<m.src, <<m.src, entered[p]>>>>)]
      BY <2>1, <2>2, <2>4, Zenon DEF Heard
    <3> QED
      BY <1>1, <2>2, <2>3, <3>1, CallReceived, Zenon
  <2>5. CASE m.kind # "true"
    <3>1. recv' = recv
      BY <2>1, <2>5, Zenon DEF Heard
    <3> QED
      BY <2>3, <3>1, CallContinued, Zenon
  <2> QED
    BY <2>4, <2>5, Zenon
<1>4. CASE Return(p)
  <2>1. /\ pc[p] = "loop" /\ queue[p] = 0
        /\ pc' = [pc EXCEPT ![p] = "idle"] /\ UNCHANGED <<receivers, mode, entered, recv>>
    BY <1>4, Zenon DEF Return
  <2>2. PICK t \in Arranged(recv[p]) : out' = [out EXCEPT ![p] = Append(out[p], Output(t))]
    BY <1>4, Zenon DEF Return, Arranged
  <2>3. Output(t) = Arrays(t)
    BY <1>1, OutputType, Zenon DEF Arranged, CallTypes
  <2>4. ReceivedOnce(recv[p]) /\ Sources(recv[p]) = Senders(entered[p], p)
    BY <2>1, QueueEmpty, Zenon DEF IInv, OnceOK
  <2>5. \A q \in Senders(entered[p], p) : entered[q] >= entered[p]
    BY <2>1, QueueEmpty, Zenon
  <2>6. CallOK' /\ Abstract!Return(p)
    BY <1>1, <2>1, <2>2, <2>3, <2>4, <2>5, CallReturned, Zenon
  <2> QED
    BY <2>6, Zenon
<1> QED
  BY <1>2, <1>3, <1>4, Zenon DEF Step

(* SC_NOTIFY_SUPERSET keeps the promise of sc_notify_payload for all       *)
(* patterns and all supersets, if consecutive calls are separated: every   *)
(* rank returns the ranks that named it in the same call, each with the    *)
(* payload it sent there, although it counts messages of either kind.      *)
THEOREM SupersetImplementsNotify ==
  ASSUME CallsSeparated, Extras \subseteq Patterned
  PROVE  Spec => ImplementsNotify
<1>1. IInv /\ CallOK /\ [Next]_vars => CallOK' /\ [Abstract!Next]_(Abstract!vars)
  <2> SUFFICES ASSUME IInv, CallOK, [Next]_vars
               PROVE  CallOK' /\ [Abstract!Next]_(Abstract!vars)
    OBVIOUS
  <2>1. ASSUME NEW p \in Rank, Step(p) PROVE CallOK' /\ [Abstract!Next]_(Abstract!vars)
    BY <2>1, StepAllowed, Zenon DEF Abstract!Next, Abstract!Rank, Rank
  <2>2. CASE UNCHANGED vars
    BY <2>2, Zenon DEF vars, CallOK, Abstract!vars
  <2> QED
    BY <2>1, <2>2, Zenon DEF Next
<1>2. Init => CallOK /\ Abstract!Init
  BY CallsBegin, Zenon DEF Init
<1> QED
  BY <1>1, <1>2, Invariance, PTL DEF Spec, ImplementsNotify, Abstract!Spec

=============================================================================
