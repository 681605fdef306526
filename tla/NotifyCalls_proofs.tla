------------------------- MODULE NotifyCalls_proofs -------------------------
(***************************************************************************)
(* Facts about NotifyCalls that the proofs about the algorithms share.     *)
(***************************************************************************)
EXTENDS NotifyCalls, FiniteSetTheorems, TLAPS

(* The message of rank q to rank p in call c.                              *)
Msg(q, p, c) == [src |-> q, dst |-> p, call |-> c]

(* The application separates its calls: what the types that do not keep    *)
(* them apart by themselves rely on.  A single call needs no separation.   *)
Separated == Calls <= 1 \/ mode.type \in Synchronised
CallsSeparated == Calls <= 1 \/ \A m \in Modes : m.type \in Synchronised

ReceivedOnce(s) == \A i, j \in 1 .. Len(s) : s[i][1] = s[j][1] => i = j

(* Receiving one more item adds its source and nothing else.               *)
LEMMA SourcesAppend ==
  ASSUME NEW s \in Seq(Item), NEW x \in Item
  PROVE  /\ Append(s, x) \in Seq(Item)
         /\ Sources(Append(s, x)) = Sources(s) \cup {x[1]}
         /\ ReceivedOnce(s) /\ x[1] \notin Sources(s) => ReceivedOnce(Append(s, x))
<1>1. Append(s, x) \in Seq(Item) /\ Len(Append(s, x)) = Len(s) + 1 /\ Len(s) \in Nat
  OBVIOUS
<1>2. \A i \in 1 .. Len(s) : Append(s, x)[i] = s[i]
  OBVIOUS
<1>3. Append(s, x)[Len(s) + 1] = x
  OBVIOUS
<1>4. Sources(Append(s, x)) = Sources(s) \cup {x[1]}
  BY <1>1, <1>2, <1>3 DEF Sources
<1>5. ReceivedOnce(s) /\ x[1] \notin Sources(s) => ReceivedOnce(Append(s, x))
  BY <1>1, <1>2, <1>3 DEF Sources, ReceivedOnce
<1> QED
  BY <1>1, <1>4, <1>5, Zenon

(* Sorting rearranges the items.                                           *)
LEMMA SortedType ==
  ASSUME NEW s \in Seq(Item), NEW t \in SortedBySource(s) \cup {s}
  PROVE  t \in Seq(Item)
<1>1. CASE t = s
  BY <1>1, Zenon
<1>2. CASE t \in SortedBySource(s)
  <2>1. t \in [DOMAIN s -> {s[i] : i \in DOMAIN s}]
    BY <1>2, Zenon DEF SortedBySource
  <2>2. t \in [1 .. Len(s) -> Item] /\ Len(s) \in Nat
    BY <2>1
  <2> QED
    BY <2>2
<1> QED
  BY <1>1, <1>2, Zenon

(* The ranks that inform p are finitely many, at most P.                   *)
LEMMA SendersFinite ==
  ASSUME NEW c, NEW p
  PROVE  /\ IsFiniteSet(Senders(c, p))
         /\ Cardinality(Senders(c, p)) \in 0 .. P
<1>1. IsFiniteSet(Rank) /\ Cardinality(Rank) = P
  BY FS_Interval, PAssumption DEF Rank
<1>2. Senders(c, p) \in SUBSET Rank
  BY Zenon DEF Senders
<1>3. /\ IsFiniteSet(Senders(c, p))
      /\ Cardinality(Senders(c, p)) <= P
  BY <1>1, <1>2, FS_Subset, Zenon
<1>4. Cardinality(Senders(c, p)) \in Nat
  BY <1>3, FS_CardinalityType, Zenon
<1> QED
  BY <1>3, <1>4, PAssumption

(* A sequence that names no source twice has as many sources as items.     *)
LEMMA SourcesCount ==
  ASSUME NEW s \in Seq(Item), ReceivedOnce(s)
  PROVE  IsFiniteSet(Sources(s)) /\ Cardinality(Sources(s)) = Len(s)
<1> DEFINE f == [i \in 1 .. Len(s) |-> s[i][1]]
<1>1. Len(s) \in Nat
  OBVIOUS
<1>2. f \in Bijection(1 .. Len(s), Sources(s))
  BY <1>1, Zenon DEF Bijection, Injection, Surjection, IsInjective, Sources, ReceivedOnce
<1>3. ExistsBijection(1 .. Len(s), Sources(s))
  BY <1>2, Zenon DEF ExistsBijection
<1> QED
  BY <1>1, <1>3, FS_CountingElements, FS_NatBijection, Zenon

(* The items of s, each from a source of its own, in ascending order.      *)
LEMMA SortedOnce ==
  ASSUME NEW s \in Seq(Item), ReceivedOnce(s), NEW t \in SortedBySource(s)
  PROVE  /\ t \in Seq(Item) /\ Len(t) = Len(s) /\ Sources(t) = Sources(s)
         /\ \A i \in 1 .. Len(t) : \E j \in 1 .. Len(s) : t[i] = s[j]
         /\ \A i, j \in 1 .. Len(t) : i < j => t[i][1] < t[j][1]
<1> DEFINE n == Len(s)
           At(f, x) == {i \in 1 .. n : f[i] = x}
<1>1. n \in Nat /\ DOMAIN s = 1 .. n /\ \A i \in 1 .. n : s[i] \in Item /\ s[i][1] \in Rank
  BY DEF Item
<1>2. /\ t \in [1 .. n -> {s[i] : i \in 1 .. n}]
      /\ \A i, j \in 1 .. n : i < j => t[i][1] <= t[j][1]
      /\ \A x \in {s[i] : i \in 1 .. n} : Cardinality(At(t, x)) = Cardinality(At(s, x))
  BY <1>1, Zenon DEF SortedBySource
<1>3. t \in Seq(Item) /\ Len(t) = n
  BY <1>1, <1>2
<1> HIDE DEF n
<1>4. ASSUME NEW f, NEW x
      PROVE  IsFiniteSet(At(f, x))
  <2>1. IsFiniteSet(1 .. n) /\ At(f, x) \in SUBSET (1 .. n)
    BY <1>1, FS_Interval
  <2> QED
    BY <2>1, FS_Subset, Zenon
<1>5. ASSUME NEW k \in 1 .. n
      PROVE  \E i \in 1 .. n : At(t, s[k]) = {i}
  <2>1. At(s, s[k]) = {k} /\ s[k] \in {s[i] : i \in 1 .. n}
    BY <1>1, Zenon DEF ReceivedOnce, n
  <2>0. \A i : i \in At(t, s[k]) => i \in 1 .. n
    OBVIOUS
  <2> HIDE DEF At
  <2>2. Cardinality(At(t, s[k])) = 1
    BY <1>2, <2>1, FS_Singleton, Zenon
  <2>3. PICK i : At(t, s[k]) = {i}
    BY <1>4, <2>2, FS_Singleton, Zenon
  <2> QED
    BY <2>0, <2>3, Zenon
<1>6. \A i \in 1 .. n : \E k \in 1 .. n : t[i] = s[k]
  BY <1>2, Zenon
<1>7. ASSUME NEW i \in 1 .. n, NEW j \in 1 .. n, i < j
      PROVE  t[i][1] < t[j][1]
  <2>1. PICK k \in 1 .. n : t[i] = s[k]
    BY <1>6, Zenon
  <2>2. PICK l \in 1 .. n : t[j] = s[l]
    BY <1>6, Zenon
  <2>3. t[i][1] # t[j][1]
    <3> SUFFICES ASSUME t[i][1] = t[j][1] PROVE FALSE
      OBVIOUS
    <3>1. k = l
      BY <2>1, <2>2, Zenon DEF ReceivedOnce, n
    <3>2. i \in At(t, s[k]) /\ j \in At(t, s[k])
      BY <2>1, <2>2, <3>1, Zenon
    <3>3. i = j
      <4>1. PICK h \in 1 .. n : At(t, s[k]) = {h}
        BY <1>5, Zenon
      <4> HIDE DEF At
      <4> QED
        BY <3>2, <4>1, Zenon
    <3> QED
      BY <1>1, <1>7, <3>3
  <2>4. t[i][1] <= t[j][1] /\ t[i][1] \in Int /\ t[j][1] \in Int
    <3>1. s[k][1] \in Int /\ s[l][1] \in Int
      BY <1>1 DEF Rank
    <3> QED
      BY <1>2, <1>7, <2>1, <2>2, <3>1, Zenon
  <2> QED
    BY <2>3, <2>4
<1>8. Sources(t) = Sources(s)
  <2>1. \A k \in 1 .. n : \E i \in 1 .. n : t[i] = s[k]
    BY <1>5, Zenon
  <2>2. Sources(t) = {t[i][1] : i \in 1 .. n} /\ Sources(s) = {s[i][1] : i \in 1 .. n}
    BY <1>3, Zenon DEF Sources, n
  <2>3. ASSUME NEW i \in 1 .. n PROVE t[i][1] \in Sources(s) /\ s[i][1] \in Sources(t)
    <3>1. PICK k \in 1 .. n : t[i] = s[k]
      BY <1>6, Zenon
    <3>2. PICK l \in 1 .. n : t[l] = s[i]
      BY <2>1, Zenon
    <3> QED
      BY <2>2, <3>1, <3>2, Zenon
  <2> QED
    BY <2>2, <2>3, Zenon
<1> QED
  BY <1>3, <1>6, <1>7, <1>8, Zenon DEF n

(* An ascending enumeration of a set of ranks is the one Notify describes. *)
LEMMA AscendingUnique ==
  ASSUME NEW n \in Nat, NEW S \in SUBSET Rank, NEW t \in [1 .. n -> S],
         \A x \in S : \E i \in 1 .. n : t[i] = x,
         \A i, j \in 1 .. n : i < j => t[i] < t[j]
  PROVE  Cardinality(S) = n /\ Abstract!Ascending(S) = t
<1> DEFINE Below(x) == {y \in S : y < x}
<1>1. \A i \in 1 .. n : t[i] \in Int
  <2>1. Rank \subseteq Int
    BY DEF Rank
  <2> QED
    BY <2>1, Zenon
<1>2. ASSUME NEW k \in 0 .. n, NEW T, T = {t[i] : i \in 1 .. k}
      PROVE  IsFiniteSet(T) /\ Cardinality(T) = k
  <2> DEFINE f == [i \in 1 .. k |-> t[i]]
  <2>1. \A i, j \in 1 .. k : f[i] = f[j] => i = j
    <3> SUFFICES ASSUME NEW i \in 1 .. k, NEW j \in 1 .. k, t[i] = t[j] PROVE i = j
      OBVIOUS
    <3>1. ~(i < j) /\ ~(j < i)
      BY <1>1, <1>2
    <3> QED
      BY <3>1
  <2>2. f \in Bijection(1 .. k, T)
    BY <1>2, <2>1, Zenon DEF Bijection, Injection, Surjection, IsInjective
  <2>3. ExistsBijection(1 .. k, T)
    BY <2>2, Zenon DEF ExistsBijection
  <2> QED
    BY <2>3, FS_CountingElements, FS_NatBijection
<1>3. Cardinality(S) = n
  <2>1. S = {t[i] : i \in 1 .. n}
    OBVIOUS
  <2> QED
    BY <1>2, <2>1
<1>4. ASSUME NEW i \in 1 .. n
      PROVE  Cardinality(Below(t[i])) = i - 1
  <2>1. i - 1 \in 0 .. n
    OBVIOUS
  <2>2. \A j \in 1 .. n : t[j] < t[i] <=> j < i
    <3> SUFFICES ASSUME NEW j \in 1 .. n PROVE t[j] < t[i] <=> j < i
      OBVIOUS
    <3>1. j < i \/ j = i \/ i < j
      OBVIOUS
    <3>2. (j < i => t[j] < t[i]) /\ (i < j => t[i] < t[j])
      OBVIOUS
    <3> QED
      BY <1>1, <3>1, <3>2
  <2>3. \A j \in Nat : j \in 1 .. i - 1 <=> j \in 1 .. n /\ j < i
    OBVIOUS
  <2>4. Below(t[i]) = {t[j] : j \in 1 .. i - 1}
    BY <2>2, <2>3
  <2> QED
    BY <1>2, <2>1, <2>4, Zenon
<1> HIDE DEF Below
<1>5. ASSUME NEW i \in 1 .. n
      PROVE  (CHOOSE x \in S : Cardinality(Below(x)) = i - 1) = t[i]
  <2>1. \A x \in S : Cardinality(Below(x)) = i - 1 => x = t[i]
    <3> SUFFICES ASSUME NEW x \in S, Cardinality(Below(x)) = i - 1 PROVE x = t[i]
      OBVIOUS
    <3>1. PICK k \in 1 .. n : t[k] = x
      OBVIOUS
    <3>2. k - 1 = i - 1
      BY <1>4, <3>1, Zenon
    <3> QED
      BY <3>1, <3>2
  <2>2. t[i] \in S /\ Cardinality(Below(t[i])) = i - 1
    BY <1>4, Zenon
  <2> QED
    BY <2>1, <2>2, Zenon
<1>6. Abstract!Ascending(S) = [i \in 1 .. n |-> CHOOSE x \in S : Cardinality(Below(x)) = i - 1]
  <2>1. Abstract!Ascending(S) =
          [i \in 1 .. Cardinality(S) |-> CHOOSE x \in S : Cardinality(Below(x)) = i - 1]
    BY Zenon DEF Abstract!Ascending, Abstract!Cardinality, Cardinality, Below
  <2> QED
    BY <1>3, <2>1, Zenon
<1> QED
  BY <1>3, <1>5, <1>6, Zenon

(* How the items received may be ordered, and the arrays they make.        *)
Arranged(s) == IF mode.sorted THEN SortedBySource(s) ELSE {s}
Arrays(t) == [senders |-> [i \in 1 .. Len(t) |-> t[i][1]],
              payload |-> IF mode.payload THEN [i \in 1 .. Len(t) |-> t[i][2]] ELSE <<>>]

(* What a call may return according to Notify: the items it has received,  *)
(* one from each sender, sorted if so requested.                           *)
LEMMA AnswerAllowed ==
  ASSUME mode \in Mode, NEW c, NEW p, NEW s \in Seq(Item), ReceivedOnce(s),
         Sources(s) = Senders(c, p), \A i \in 1 .. Len(s) : s[i][2] = <<s[i][1], c>>,
         NEW t \in Arranged(s)
  PROVE  Arrays(t) \in Abstract!Answers(c, p)
<1> DEFINE n == Len(t)
           S == Senders(c, p)
           src == [i \in 1 .. n |-> t[i][1]]
           pay == [i \in 1 .. n |-> t[i][2]]
           Paid(x) == IF mode.payload THEN [i \in DOMAIN x |-> <<x[i], c>>] ELSE <<>>
           Orders == {x \in [1 .. Cardinality(S) -> S] : \A i, j \in DOMAIN x : i # j => x[i] # x[j]}
<1>1. /\ t \in Seq(Item) /\ n = Len(s) /\ Sources(t) = S
      /\ \A i \in 1 .. n : \E j \in 1 .. Len(s) : t[i] = s[j]
      /\ mode.sorted => \A i, j \in 1 .. n : i < j => t[i][1] < t[j][1]
      /\ ~mode.sorted => t = s
  <2>1. CASE mode.sorted
    BY <2>1, SortedOnce, Zenon DEF Arranged
  <2>2. CASE ~mode.sorted
    BY <2>2, Zenon DEF Arranged
  <2> QED
    BY <2>1, <2>2, Zenon
<1>2. n \in Nat /\ S \in SUBSET Rank /\ DOMAIN src = 1 .. n /\ src \in [1 .. n -> S]
  <2>1. n \in Nat /\ S \in SUBSET Rank
    BY <1>1 DEF Senders
  <2>2. \A i \in 1 .. n : t[i][1] \in S
    BY <1>1, Zenon DEF Sources
  <2> QED
    BY <2>1, <2>2, Zenon
<1>3. \A x \in S : \E i \in 1 .. n : src[i] = x
  BY <1>1, Zenon DEF Sources
<1>4. \A i \in 1 .. n : t[i][2] = <<src[i], c>>
  BY <1>1, Zenon
<1>5. (IF mode.payload THEN pay ELSE <<>>) = Paid(src)
  BY <1>2, <1>4, Zenon
<1>6. CASE mode.sorted
  <2>1. \A i, j \in 1 .. n : i < j => src[i] < src[j]
    BY <1>1, <1>6, Zenon
  <2>2. Abstract!Ascending(S) = src
    <3> HIDE DEF n, S, src
    <3> QED
      BY <1>2, <1>3, <2>1, AscendingUnique, Zenon
  <2>3. Abstract!Answers(c, p) = {[senders |-> x, payload |-> Paid(x)] : x \in {Abstract!Ascending(S)}}
    BY <1>6, Zenon DEF Abstract!Answers, Abstract!Senders, Abstract!Rank, Senders, Rank
  <2> HIDE DEF n, S, src, pay, Paid
  <2> QED
    BY <1>5, <2>2, <2>3, Zenon DEF n, src, pay, Arrays
<1>7. CASE ~mode.sorted
  <2>1. Abstract!Answers(c, p) = {[senders |-> x, payload |-> Paid(x)] : x \in Orders}
    BY <1>7, Zenon DEF Abstract!Answers, Abstract!Senders, Abstract!Rank, Senders, Rank,
                       Abstract!Cardinality, Cardinality
  <2>2. Cardinality(S) = n
    BY <1>1, SourcesCount, Zenon
  <2>3. \A i, j \in 1 .. n : i # j => src[i] # src[j]
    BY <1>1, <1>7, Zenon DEF ReceivedOnce
  <2>4. src \in Orders
    BY <1>2, <2>2, <2>3, Zenon
  <2> HIDE DEF n, S, src, pay, Paid, Orders
  <2> QED
    BY <1>5, <2>1, <2>4, Zenon DEF n, src, pay, Arrays
<1> QED
  BY <1>6, <1>7, Zenon

-----------------------------------------------------------------------------
(***************************************************************************)
(* The steps of a call, as Notify sees them.                               *)
(***************************************************************************)

CallTypes ==
  /\ mode \in Mode
  /\ entered \in [Rank -> 0 .. Calls]
  /\ DOMAIN pc = Rank
  /\ recv \in [Rank -> Seq(Item)]
  /\ out \in [Rank -> Seq(Result)]

(* A rank has returned from the calls it entered but the current one, and  *)
(* the payload of what it received was sent in the current one.            *)
CallOK ==
  \A p \in Rank :
     /\ Len(out[p]) = IF pc[p] = "idle" THEN entered[p] ELSE entered[p] - 1
     /\ \A i \in 1 .. Len(recv[p]) : recv[p][i][2] = <<recv[p][i][1], entered[p]>>

(* Before the first call nothing is entered and nothing returned.          *)
LEMMA CallsBegin == CallsInit => CallOK /\ Abstract!Init
<1>1. CallsInit => CallOK
  BY DEF CallsInit, CallOK
<1>2. CallsInit => Abstract!Init
  BY Zenon DEF CallsInit, Abstract!Init, Abstract!Rank, Rank
<1> QED
  BY <1>1, <1>2, Zenon

(* A rank enters its next call.                                            *)
LEMMA CallEntered ==
  ASSUME CallTypes, CallOK, NEW p \in Rank, NEW place, place # "idle",
         MayEnter(p), entered' = [entered EXCEPT ![p] = entered[p] + 1],
         pc' = [pc EXCEPT ![p] = place], recv' = [recv EXCEPT ![p] = <<>>],
         UNCHANGED <<receivers, mode, out>>
  PROVE  CallOK' /\ Abstract!Enter(p)
<1>1. pc[p] = "idle" /\ entered[p] < Calls /\ Len(out[p]) = entered[p]
  BY Zenon DEF MayEnter, CallOK
<1>2. Abstract!Enter(p)
  BY <1>1, Zenon DEF Abstract!Enter
<1>3. /\ pc'[p] # "idle" /\ entered'[p] - 1 = entered[p] /\ recv'[p] = <<>> /\ Len(recv'[p]) = 0
      /\ \A q \in Rank \ {p} : pc'[q] = pc[q] /\ entered'[q] = entered[q] /\ recv'[q] = recv[q]
  BY DEF CallTypes
<1>4. CallOK'
  BY <1>1, <1>3 DEF CallOK
<1> QED
  BY <1>2, <1>4, Zenon

(* A rank in a call receives an item sent in the same call.                *)
LEMMA CallReceived ==
  ASSUME CallTypes, CallOK, NEW p \in Rank, NEW q \in Rank, entered[p] \in 1 .. Calls,
         recv' = [recv EXCEPT ![p] = Append(recv[p], <<q, <<q, entered[p]>>>>)],
         \A r \in Rank : pc'[r] = "idle" <=> pc[r] = "idle",
         UNCHANGED <<receivers, mode, entered, out>>
  PROVE  CallOK' /\ UNCHANGED Abstract!vars
<1> DEFINE x == <<q, <<q, entered[p]>>>>
<1>1. x \in Item /\ recv[p] \in Seq(Item)
  BY Zenon DEF Item, CallTypes
<1>2. recv'[p] = Append(recv[p], x) /\ \A r \in Rank \ {p} : recv'[r] = recv[r]
  BY Zenon DEF CallTypes
<1>3. ASSUME NEW i \in 1 .. Len(recv'[p]) PROVE recv'[p][i][2] = <<recv'[p][i][1], entered[p]>>
  <2>1. CASE i \in 1 .. Len(recv[p])
    <3>1. recv'[p][i] = recv[p][i]
      BY <1>1, <1>2, <2>1
    <3> QED
      BY <2>1, <3>1, Zenon DEF CallOK
  <2>2. CASE i = Len(recv[p]) + 1
    <3>1. recv'[p][i] = x
      BY <1>1, <1>2, <2>2
    <3> QED
      BY <3>1
  <2> QED
    BY <1>1, <1>2, <2>1, <2>2
<1> QED
  BY <1>2, <1>3 DEF CallOK, Abstract!vars

(* A rank that returns gives one of the answers that Notify allows.        *)
LEMMA CallReturned ==
  ASSUME CallTypes, CallOK, NEW p \in Rank, NEW t \in Arranged(recv[p]),
         ReceivedOnce(recv[p]), Sources(recv[p]) = Senders(entered[p], p),
         \A q \in Senders(entered[p], p) : entered[q] >= entered[p],
         pc[p] # "idle", pc' = [pc EXCEPT ![p] = "idle"],
         out' = [out EXCEPT ![p] = Append(out[p], Arrays(t))],
         UNCHANGED <<receivers, mode, entered, recv>>
  PROVE  CallOK' /\ Abstract!Return(p)
<1> USE CallsAssumption
<1>1. /\ \A q \in Rank : out[q] \in Seq(Result) /\ Len(out[q]) \in Nat /\ entered[q] \in 0 .. Calls
      /\ Len(out[p]) = entered[p] - 1 /\ Len(Append(out[p], Arrays(t))) = Len(out[p]) + 1
  BY DEF CallOK, CallTypes
<1>2. Arrays(t) \in Abstract!Answers(entered[p], p)
  BY AnswerAllowed, Zenon DEF CallOK, CallTypes
<1>3. Abstract!Return(p)
  <2>1. Abstract!Senders(entered[p], p) = Senders(entered[p], p)
    BY Zenon DEF Abstract!Senders, Abstract!Rank, Senders, Rank
  <2>2. Len(out[p]) < entered[p]
    BY <1>1
  <2> QED
    BY <1>2, <2>1, <2>2, Zenon DEF Abstract!Return
<1>4. CallOK'
  <2>1. Len(out'[p]) = entered'[p] /\ pc'[p] = "idle"
    BY <1>1 DEF CallTypes
  <2>2. \A q \in Rank \ {p} : out'[q] = out[q] /\ pc'[q] = pc[q]
    BY Zenon DEF CallTypes
  <2> QED
    BY <2>1, <2>2, Zenon DEF CallOK
<1> QED
  BY <1>3, <1>4, Zenon

(* A rank takes a step within its call.                                    *)
LEMMA CallContinued ==
  ASSUME CallOK, \A r \in Rank : pc'[r] = "idle" <=> pc[r] = "idle",
         UNCHANGED <<receivers, mode, entered, recv, out>>
  PROVE  CallOK' /\ UNCHANGED Abstract!vars
  BY Zenon DEF CallOK, Abstract!vars

=============================================================================
