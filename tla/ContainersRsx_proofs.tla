------------------------ MODULE ContainersRsx_proofs ------------------------
(***************************************************************************)
(* The containers of sc_containers.c that keep their elements in arrays,   *)
(* and the census by remote memory access.                                 *)
(*                                                                         *)
(* sc_array_split and sc_array_permute are correct for arrays of every     *)
(* length, every number of types and every permutation.  The inductive     *)
(* invariant of sc_array_split is the one that the comments in the code    *)
(* state, together with the types of the variables and the order of the    *)
(* input.                                                                  *)
(*                                                                         *)
(* The memory pool, the unique counter and the recycle array are sound for *)
(* any number of users, stamps and elements, and are allocators.           *)
(*                                                                         *)
(* The census by remote memory access is a census for any number of ranks  *)
(* and whomever they inform.                                               *)
(***************************************************************************)
EXTENDS Arrays, Pools, CensusRsx, FiniteSetTheorems, TLAPS

-----------------------------------------------------------------------------
(***************************************************************************)
(* The census by remote memory access.  MPI_Accumulate may carry out the   *)
(* additions in any order and as late as the closing fence allows.  The    *)
(* origin buffer that the code reuses does no harm here, since the count   *)
(* in it is always one.                                                    *)
(***************************************************************************)

(* The ranks whose addition to the counter of p has been carried out.      *)
Counted(p) == {q \in Rank : p \in Receivers[q] /\ p \notin todo[q] /\ <<q, p>> \notin pending}

RsxInv ==
  /\ TypeOK
  /\ \A m \in pending : /\ m[2] \in Receivers[m[1]] /\ m[2] \notin todo[m[1]]
                        /\ summand[m[1]][1] = 1
  /\ \A p \in Rank : /\ todo[p] \subseteq Receivers[p]
                     /\ phase[p] \in {"fence", "done"} => todo[p] = {}
                     /\ win[p][1] = Cardinality(Counted(p))

(* Sets of ranks are finite.                                               *)
LEMMA RanksFinite == \A S : S \subseteq Rank => IsFiniteSet(S)
<1>1. IsFiniteSet(Rank)
  BY RsxAssumption, FS_Interval DEF Rank
<1> QED
  BY <1>1, FS_Subset, Zenon

(* What the receivers are.                                                 *)
LEMMA ReceiversType == \A p \in Rank : Receivers[p] \subseteq Rank /\ Receivers[p] = DOMAIN Sizes[p]
BY RsxAssumption, Zenon DEF Receivers

(* Nothing has been added at the beginning.                                *)
LEMMA InitInv == Init => RsxInv
<1> SUFFICES ASSUME Init PROVE RsxInv
  OBVIOUS
<1>1. TypeOK
  BY ReceiversType DEF Init, TypeOK, Receivers
<1>2. \A p \in Rank : Counted(p) = {}
  BY Zenon DEF Init, Counted
<1>3. \A p \in Rank : win[p][1] = Cardinality(Counted(p))
  BY <1>2, FS_EmptySet, Zenon DEF Init
<1> QED
  BY <1>1, <1>3, Zenon DEF Init, RsxInv

(* The steps that leave the counters and what is to be added alone.        *)
LEMMA QuietStep ==
  ASSUME RsxInv, UNCHANGED <<variable, todo, summand, pending, win>>, TypeOK',
         \A p \in Rank : phase'[p] \in {"fence", "done"} => todo[p] = {}
  PROVE  RsxInv'
<1>1. \A p \in Rank : Counted(p)' = Counted(p)
  BY Zenon DEF Counted
<1> QED
  BY <1>1 DEF RsxInv

(* An accumulate is issued: the addition is no longer to do, and pending.  *)
LEMMA IssueStep ==
  ASSUME RsxInv, NEW p \in Rank, NEW q \in todo[p], NEW x \in Nat,
         summand' = [summand EXCEPT ![p] = <<1, x>>],
         pending' = pending \cup {<<p, q>>},
         todo' = [todo EXCEPT ![p] = @ \ {q}],
         UNCHANGED <<variable, phase, win, result>>
  PROVE  RsxInv'
<1>1. TypeOK /\ q \in Rank /\ todo[p] \subseteq Receivers[p]
  BY Zenon DEF RsxInv, TypeOK
<1>2. /\ todo' \in [Rank -> SUBSET Rank]
      /\ todo'[p] = todo[p] \ {q} /\ \A r \in Rank : r # p => todo'[r] = todo[r]
  BY <1>1, Zenon DEF TypeOK
<1>3. /\ summand' \in [Rank -> Nat \X Nat]
      /\ summand'[p][1] = 1 /\ \A r \in Rank : r # p => summand'[r] = summand[r]
  BY <1>1, Zenon DEF TypeOK
<1>4. TypeOK'
  BY <1>1, <1>2, <1>3 DEF TypeOK
<1>5. ASSUME NEW m \in pending'
      PROVE  m[2] \in Receivers[m[1]] /\ m[2] \notin todo'[m[1]] /\ summand'[m[1]][1] = 1
  <2>1. CASE m = <<p, q>>
    BY <1>1, <1>2, <1>3, <2>1, Zenon
  <2>2. CASE m \in pending
    <3>1. m[1] \in Rank /\ m[2] \in Receivers[m[1]] /\ m[2] \notin todo[m[1]] /\ summand[m[1]][1] = 1
      BY <2>2, Zenon DEF RsxInv, TypeOK
    <3> QED
      BY <1>2, <1>3, <3>1, Zenon
  <2> QED
    BY <1>5, <2>1, <2>2, Zenon
<1>6. ASSUME NEW r \in Rank PROVE Counted(r)' = Counted(r)
  <2>1. ASSUME NEW s \in Rank
        PROVE  (r \notin todo'[s] /\ <<s, r>> \notin pending') <=> (r \notin todo[s] /\ <<s, r>> \notin pending)
    <3>1. CASE s = p /\ r = q
      BY <3>1, Zenon
    <3>2. CASE s # p \/ r # q
      <4>1. <<s, r>> \in pending' <=> <<s, r>> \in pending
        BY <3>2, Zenon
      <4>2. r \in todo'[s] <=> r \in todo[s]
        BY <1>2, <3>2, Zenon
      <4> QED
        BY <4>1, <4>2, Zenon
    <3> QED
      BY <3>1, <3>2, Zenon
  <2> QED
    BY <2>1, Zenon DEF Counted
<1>7. ASSUME NEW r \in Rank
      PROVE  /\ todo'[r] \subseteq Receivers[r]
             /\ phase'[r] \in {"fence", "done"} => todo'[r] = {}
             /\ win'[r][1] = Cardinality(Counted(r)')
  BY <1>1, <1>2, <1>6 DEF RsxInv
<1> QED
  BY <1>4, <1>5, <1>7, Zenon DEF RsxInv

(* An accumulate is carried out: it is counted at its target.              *)
LEMMA TransferStep == RsxInv /\ Transfer => RsxInv'
<1> SUFFICES ASSUME RsxInv, Transfer PROVE RsxInv'
  OBVIOUS
<1>1. TypeOK
  BY Zenon DEF RsxInv
<1>2. PICK m \in pending :
        /\ win' = [win EXCEPT ![m[2]] = <<@[1] + summand[m[1]][1], @[2] + summand[m[1]][2]>>]
        /\ pending' = pending \ {m}
        /\ UNCHANGED <<variable, phase, todo, summand, result>>
  BY Zenon DEF Transfer
<1>3. PICK p \in Rank, q \in Rank : m = <<p, q>>
  BY <1>1, <1>2 DEF TypeOK
<1>4. q \in Receivers[p] /\ q \notin todo[p] /\ summand[p][1] = 1
  BY <1>2, <1>3, Zenon DEF RsxInv
<1>5. /\ win' \in [Rank -> Nat \X Nat]
      /\ win'[q][1] = win[q][1] + 1 /\ \A r \in Rank : r # q => win'[r] = win[r]
  <2>1. summand[p] \in Nat \X Nat /\ win[q] \in Nat \X Nat
    BY <1>1, Zenon DEF TypeOK
  <2>2. win' = [win EXCEPT ![q] = <<win[q][1] + summand[p][1], win[q][2] + summand[p][2]>>]
    BY <1>2, <1>3, Zenon
  <2>3. <<win[q][1] + summand[p][1], win[q][2] + summand[p][2]>> \in Nat \X Nat
    BY <2>1
  <2> QED
    BY <1>1, <1>4, <2>2, <2>3, Zenon DEF TypeOK
<1>6. TypeOK'
  BY <1>1, <1>2, <1>5, Zenon DEF TypeOK
<1>7. Counted(q)' = Counted(q) \cup {p} /\ p \notin Counted(q)
  BY <1>2, <1>3, <1>4, Zenon DEF Counted
<1>8. ASSUME NEW r \in Rank, r # q PROVE Counted(r)' = Counted(r)
  BY <1>2, <1>3, <1>8, Zenon DEF Counted
<1>9. Cardinality(Counted(q)') = Cardinality(Counted(q)) + 1
  <2>1. IsFiniteSet(Counted(q))
    BY RanksFinite, Zenon DEF Counted
  <2> QED
    BY <1>7, <2>1, FS_AddElement, Zenon
<1>10. ASSUME NEW r \in Rank PROVE win'[r][1] = Cardinality(Counted(r)')
  BY <1>5, <1>8, <1>9 DEF RsxInv
<1> QED
  BY <1>2, <1>6, <1>10, Zenon DEF RsxInv

(* When the closing fence lets p go, all have been counted.                *)
LEMMA FenceCounted ==
  ASSUME RsxInv, NEW p \in Rank, FenceLeave(p)
  PROVE  win[p][1] = Cardinality({q \in Rank : p \in Receivers[q]})
<1>1. \A q \in Rank : todo[q] = {}
  BY Zenon DEF RsxInv, FenceLeave
<1>2. \A q \in Rank : <<q, p>> \notin pending
  BY Zenon DEF FenceLeave
<1>3. Counted(p) = {q \in Rank : p \in Receivers[q]}
  BY <1>1, <1>2, Zenon DEF Counted
<1>4. win[p][1] = Cardinality(Counted(p))
  BY Zenon DEF RsxInv
<1> QED
  BY <1>3, <1>4, Zenon

(* Each step keeps the invariant, and is one of a census or none.          *)
LEMMA RsxStep ==
  ASSUME RsxInv, [Next]_vars
  PROVE  RsxInv' /\ [TheCensus!Next]_TheCensus!vars
<1>1. TypeOK
  BY Zenon DEF RsxInv
<1>2. ASSUME UNCHANGED result, \A p \in Rank : phase'[p] # "start" <=> phase[p] # "start"
      PROVE  UNCHANGED TheCensus!vars
  <2>1. {p \in Rank : phase[p] # "start"}' = {p \in Rank : phase[p] # "start"}
    BY <1>2, Zenon
  <2> QED
    BY <1>2, <2>1, Zenon DEF TheCensus!vars
<1>3. ASSUME NEW p \in Rank, CreateEnter(p) PROVE RsxInv' /\ TheCensus!Next
  <2>1. /\ phase[p] = "start" /\ phase' = [phase EXCEPT ![p] = "create"]
        /\ UNCHANGED <<variable, todo, summand, pending, win, result>>
    BY <1>3, Zenon DEF CreateEnter
  <2>2. phase'[p] = "create" /\ \A r \in Rank : r # p => phase'[r] = phase[r]
    BY <1>1, <2>1, Zenon DEF TypeOK
  <2>3. TypeOK'
    BY <1>1, <2>1, Zenon DEF TypeOK
  <2>4. RsxInv'
    BY <2>1, <2>2, <2>3, QuietStep, Zenon DEF RsxInv
  <2>5. {r \in Rank : phase[r] # "start"}' = {r \in Rank : phase[r] # "start"} \cup {p}
    BY <2>1, <2>2, Zenon
  <2>6. TheCensus!Enter(p)
    BY <2>1, <2>5, Zenon DEF TheCensus!Enter
  <2> QED
    BY <2>4, <2>6, Zenon DEF TheCensus!Next, TheCensus!Rank, Rank
<1>4. ASSUME NEW p \in Rank, CreateLeave(p) \/ FenceEnter(p) PROVE RsxInv' /\ UNCHANGED TheCensus!vars
  <2>1. PICK x \in {"epoch", "fence"} :
          /\ phase' = [phase EXCEPT ![p] = x] /\ phase[p] # "start"
          /\ x = "fence" => todo[p] = {}
          /\ UNCHANGED <<variable, todo, summand, pending, win, result>>
    BY <1>4, Zenon DEF CreateLeave, FenceEnter
  <2>2. phase'[p] = x /\ \A r \in Rank : r # p => phase'[r] = phase[r]
    BY <1>1, <2>1, Zenon DEF TypeOK
  <2>3. TypeOK'
    BY <1>1, <2>1, Zenon DEF TypeOK
  <2>4. \A r \in Rank : phase'[r] \in {"fence", "done"} => todo[r] = {}
    BY <2>1, <2>2, Zenon DEF RsxInv
  <2>5. RsxInv'
    BY <2>1, <2>3, <2>4, QuietStep, Zenon
  <2> QED
    BY <2>1, <2>2, <2>5, <1>2, Zenon
<1>5. ASSUME NEW p \in Rank, Accumulate(p) \/ Accumulatev(p) PROVE RsxInv' /\ UNCHANGED TheCensus!vars
  <2>1. PICK q \in todo[p], x \in Nat :
          /\ summand' = [summand EXCEPT ![p] = <<1, x>>]
          /\ pending' = pending \cup {<<p, q>>}
          /\ todo' = [todo EXCEPT ![p] = @ \ {q}]
          /\ UNCHANGED <<variable, phase, win, result>>
    <3>1. \A q \in todo[p] : Sizes[p][q] \in Nat
      BY RsxAssumption, ReceiversType DEF RsxInv
    <3> QED
      BY <1>5, <3>1, Zenon DEF Accumulate, Accumulatev
  <2>2. RsxInv'
    BY <2>1, IssueStep, Zenon
  <2> QED
    BY <2>1, <2>2, <1>2, Zenon
<1>6. ASSUME NEW p \in Rank, FenceLeave(p) PROVE RsxInv' /\ TheCensus!Next
  <2>1. /\ \A q \in Rank : phase[q] \in {"fence", "done"}
        /\ result' = [result EXCEPT ![p] = win[p]]
        /\ phase' = [phase EXCEPT ![p] = "done"]
        /\ UNCHANGED <<variable, todo, summand, pending, win>>
    BY <1>6, Zenon DEF FenceLeave
  <2>2. \A q \in Rank : todo[q] = {}
    BY <2>1, Zenon DEF RsxInv
  <2>3. TypeOK'
    <3>1. win[p] \in Int \X Int
      BY <1>1 DEF TypeOK
    <3> QED
      BY <1>1, <2>1, <3>1, Zenon DEF TypeOK
  <2>4. RsxInv'
    BY <2>1, <2>2, <2>3, QuietStep, Zenon
  <2>5. {r \in Rank : phase[r] # "start"} = Rank /\ {r \in Rank : phase[r] # "start"}' = Rank
    <3>1. \A r \in Rank : phase'[r] # "start"
      BY <1>1, <2>1, Zenon DEF TypeOK
    <3> QED
      BY <2>1, <3>1, Zenon
  <2>6. [r \in Rank |-> result[r][1]]' =
          [[r \in Rank |-> result[r][1]] EXCEPT ![p] = Cardinality({q \in Rank : p \in Receivers[q]})]
    <3>1. result'[p] = win[p] /\ \A r \in Rank : r # p => result'[r] = result[r]
      BY <1>1, <2>1, Zenon DEF TypeOK
    <3> QED
      BY <1>6, <3>1, FenceCounted, Zenon
  <2>7. TheCensus!Leave(p)
    BY <2>5, <2>6, Zenon DEF TheCensus!Leave, TheCensus!Rank, TheCensus!Cardinality, Cardinality, Rank
  <2> QED
    BY <2>4, <2>7, Zenon DEF TheCensus!Next, TheCensus!Rank, Rank
<1>7. ASSUME Transfer PROVE RsxInv' /\ UNCHANGED TheCensus!vars
  BY <1>2, <1>7, TransferStep, Zenon DEF Transfer
<1>8. ASSUME UNCHANGED vars PROVE RsxInv' /\ UNCHANGED TheCensus!vars
  <2>1. TypeOK' /\ \A p \in Rank : phase'[p] \in {"fence", "done"} => todo[p] = {}
    BY <1>1, <1>8, Zenon DEF vars, TypeOK, RsxInv
  <2> QED
    BY <1>2, <1>8, <2>1, QuietStep, Zenon DEF vars
<1> QED
  BY <1>3, <1>4, <1>5, <1>6, <1>7, <1>8, Zenon DEF Next, Terminated

(* For any number of ranks, sc_notify_census_rsx tells each rank exactly   *)
(* how many ranks named it, and no earlier than all have entered, whatever *)
(* the order and delay of the additions.                                   *)
THEOREM RsxImplementsCensus == Spec => ImplementsCensus
<1>1. RsxInv /\ [Next]_vars => RsxInv' /\ [TheCensus!Next]_TheCensus!vars
  BY RsxStep, Zenon
<1>2. Init => TheCensus!Init
  BY DEF Init, TheCensus!Init, TheCensus!Rank, Rank
<1> QED
  BY <1>1, <1>2, InitInv, PTL DEF Spec, ImplementsCensus, TheCensus!Spec

-----------------------------------------------------------------------------
InputOK ==
  /\ count \in Nat /\ num_types \in Nat
  /\ type_fn \in [0 .. count - 1 -> 0 .. num_types - 1]
  /\ \A j, k \in 0 .. count - 1 : j <= k => type_fn[j] <= type_fn[k]

StateOK ==
  /\ offsets \in [0 .. num_types -> 0 .. count]
  /\ offsets[0] = 0 /\ offsets[num_types] = count
  /\ low \in Nat /\ high \in Nat /\ step \in Nat
  /\ pc \in {"idle", "guess", "advance"}

SplitInv == InputOK /\ StateOK /\ LoopInvariant /\ SplitIsCorrect

(* The middle of a nonempty interval lies in it.                           *)
LEMMA Middle ==
  ASSUME NEW l \in Nat, NEW h \in Nat, l < h
  PROVE  l + (h - l) \div 2 \in l .. h - 1
<1> DEFINE d == h - l
           m == d \div 2
<1>1. d \in Nat /\ d > 0 /\ h = l + d
  OBVIOUS
<1> HIDE DEF d
<1>2. m \in Nat /\ m < d
  BY <1>1
<1> HIDE DEF m
<1>3. l + m \in l .. h - 1
  BY <1>1, <1>2
<1> QED
  BY <1>3, Zenon DEF m, d

(* What holds of the initial offsets o for n elements of m types t: there  *)
(* are none to search for, or the loop invariants hold with low = 0 and    *)
(* step = 1.                                                               *)
StartOK(n, m, t, o) ==
  /\ o \in [0 .. m -> 0 .. n] /\ o[0] = 0 /\ o[m] = n
  /\ n = 0 \/ m <= 1 =>
       \A k \in 0 .. m - 1, j \in 0 .. n - 1 :
         t[j] = k <=> o[k] <= j /\ j < o[k + 1]
  /\ \A j \in 0 .. n - 1 : IF j < o[0] THEN t[j] < 0 ELSE t[j] >= 0
  /\ \A i \in 0 .. m : \A k \in o[i] .. n - 1 : t[k] >= i
  /\ \A i, j \in 0 .. m : i <= j => o[i] <= o[j]
  /\ n = 0 \/ m <= 1 \/ (0 < n /\ 1 \in 1 .. m - 1 /\ o[1] = n)

(* The offsets that sc_array_split starts with are of this kind.           *)
LEMMA StartOffsets ==
  ASSUME NEW n \in Nat, NEW m \in Nat, NEW t \in [0 .. n - 1 -> 0 .. m - 1],
         NEW o, o = [i \in 0 .. m |-> IF i = 0 THEN 0 ELSE n]
  PROVE  StartOK(n, m, t, o)
<1>1. \A k \in 0 .. n - 1 : t[k] \in 0 .. m - 1
  OBVIOUS
<1>2. m = 0 => n = 0
  BY <1>1
<1>3. o \in [0 .. m -> 0 .. n] /\ o[0] = 0 /\ o[m] = n
  BY <1>2
<1>4. \A i \in 1 .. m : o[i] = n
  OBVIOUS
<1>5. ASSUME n = 0 \/ m <= 1, NEW k \in 0 .. m - 1, NEW j \in 0 .. n - 1
      PROVE  t[j] = k <=> o[k] <= j /\ j < o[k + 1]
  <2>1. m = 1 /\ k = 0 /\ t[j] = 0
    BY <1>1, <1>5
  <2> QED
    BY <2>1, <1>3
<1>6. \A j \in 0 .. n - 1 : IF j < o[0] THEN t[j] < 0 ELSE t[j] >= 0
  BY <1>1, <1>3
<1>7. \A i \in 0 .. m : \A k \in o[i] .. n - 1 : t[k] >= i
  BY <1>1, <1>3, <1>4
<1>8. \A i, j \in 0 .. m : i <= j => o[i] <= o[j]
  BY <1>3, <1>4
<1> QED
  BY <1>3, <1>4, <1>5, <1>6, <1>7, <1>8 DEF StartOK

(* The call of sc_array_split establishes the invariant, and returns at    *)
(* once with the right offsets if there is nothing to search for.          *)
LEMMA CallPreserves == SplitInv /\ sc_array_split => SplitInv'
<1> SUFFICES ASSUME SplitInv, sc_array_split PROVE SplitInv'
  OBVIOUS
<1>1. /\ count' \in Nat /\ num_types' \in Nat
      /\ type_fn' \in [0 .. count' - 1 -> 0 .. num_types' - 1]
      /\ offsets' = [i \in 0 .. num_types' |-> IF i = 0 THEN 0 ELSE count']
  <2>1. count' \in Nat /\ num_types' \in Nat
    BY BoundsAssumption DEF sc_array_split
  <2> QED
    BY <2>1, Zenon DEF sc_array_split
<1>2. InputOK'
  <2>1. \A j, k \in 0 .. count' - 1 : j <= k => type_fn'[j] <= type_fn'[k]
    BY Zenon DEF sc_array_split
  <2> QED
    BY <1>1, <2>1, Zenon DEF InputOK
<1>3. /\ offsets' \in [0 .. num_types' -> 0 .. count']
      /\ offsets'[0] = 0 /\ offsets'[num_types'] = count'
      /\ count' = 0 \/ num_types' <= 1 =>
           \A k \in 0 .. num_types' - 1, j \in 0 .. count' - 1 :
             type_fn'[j] = k <=> offsets'[k] <= j /\ j < offsets'[k + 1]
      /\ \A j \in 0 .. count' - 1 :
           IF j < offsets'[0] THEN type_fn'[j] < 0 ELSE type_fn'[j] >= 0
      /\ \A i \in 0 .. num_types' : \A k \in offsets'[i] .. count' - 1 : type_fn'[k] >= i
      /\ \A i, j \in 0 .. num_types' : i <= j => offsets'[i] <= offsets'[j]
      /\ \/ count' = 0 \/ num_types' <= 1
         \/ 0 < count' /\ 1 \in 1 .. num_types' - 1 /\ offsets'[1] = count'
  <2>1. StartOK(count', num_types', type_fn', offsets')
    BY <1>1, StartOffsets, Zenon
  <2> QED
    BY <2>1, Zenon DEF StartOK
<1>4. StateOK'
  <2>1. low' \in Nat /\ high' \in Nat /\ step' \in Nat /\ pc' \in {"idle", "guess", "advance"}
    BY <1>1 DEF sc_array_split, SplitInv, StateOK
  <2> QED
    BY <2>1, <1>3, Zenon DEF StateOK
<1>5. CASE count' = 0 \/ num_types' <= 1
  <2>1. pc' = "idle"
    BY <1>5, Zenon DEF sc_array_split, SplitInv
  <2>2. SplitIsCorrect'
    BY <1>3, <1>5, Zenon DEF SplitIsCorrect
  <2> QED
    BY <1>2, <1>4, <2>1, <2>2, Zenon DEF SplitInv, LoopInvariant
<1>6. CASE ~(count' = 0 \/ num_types' <= 1)
  <2>1. low' = 0 /\ high' = count' /\ step' = 1 /\ pc' = "guess"
    BY <1>6, Zenon DEF sc_array_split
  <2>2. step' \in 1 .. num_types' - 1 /\ high' = offsets'[step'] /\ low' < high'
    BY <2>1, <1>3, <1>6, Zenon
  <2>3. \A i \in 0 .. step' - 1 : offsets'[i] <= low' /\ IsFinal(i, offsets[i])'
    <3>1. 0 \in 0 .. count' /\ offsets'[0] <= low'
      BY <1>1, <1>3, <2>1
    <3>2. IsFinal(0, offsets[0])'
      BY <3>1, <1>3, Zenon DEF IsFinal
    <3>3. \A i \in 0 .. step' - 1 : i = 0
      BY <2>1
    <3> QED
      BY <3>1, <3>2, <3>3, Zenon
  <2>4. \A k \in 0 .. low' - 1 : type_fn'[k] < step'
    BY <2>1
  <2>5. LoopInvariant'
    BY <2>1, <2>2, <2>3, <2>4, <1>3, Zenon DEF LoopInvariant
  <2> QED
    BY <1>2, <1>4, <2>1, <2>5, Zenon DEF SplitInv, SplitIsCorrect
<1> QED
  BY <1>5, <1>6, Zenon

(* A look at the array moves low or the offsets of several types, and      *)
(* keeps the invariant since the array is sorted.                          *)
LEMMA GuessPreserves == SplitInv /\ Guess => SplitInv'
<1> SUFFICES ASSUME SplitInv, Guess PROVE SplitInv'
  OBVIOUS
<1> DEFINE guess == low + (high - low) \div 2
           type  == type_fn[guess]
<1>1. /\ pc = "guess"
      /\ InputOK /\ StateOK
      /\ step \in 1 .. num_types - 1
      /\ \A i \in 0 .. step - 1 : offsets[i] <= low /\ IsFinal(i, offsets[i])
      /\ \A k \in 0 .. low - 1 : type_fn[k] < step
      /\ \A i \in 0 .. num_types : \A k \in offsets[i] .. count - 1 : type_fn[k] >= i
      /\ \A i, j \in 0 .. num_types : i <= j => offsets[i] <= offsets[j]
      /\ high = offsets[step]
      /\ low < high
  BY Zenon DEF SplitInv, LoopInvariant, Guess
<1>2. high <= count
  BY <1>1 DEF InputOK, StateOK
<1>3. guess \in low .. high - 1 /\ guess \in 0 .. count - 1
  <2>1. low \in Nat /\ high \in Nat /\ count \in Nat /\ low < high
    BY <1>1, Zenon DEF InputOK, StateOK
  <2>2. guess \in low .. high - 1
    BY <2>1, Middle, Zenon
  <2> HIDE DEF guess
  <2> QED
    BY <2>1, <2>2, <1>2
<1>4. type \in 0 .. num_types - 1
  BY <1>1, <1>3, Zenon DEF InputOK
<1>5. UNCHANGED <<count, num_types, type_fn, step>>
      /\ pc' = IF low' = high' THEN "advance" ELSE "guess"
  BY Zenon DEF Guess, input
<1>6. InputOK'
  BY <1>1, <1>5, Zenon DEF InputOK
<1> HIDE DEF guess, type
<1>7. CASE type < step
  <2>1. low' = guess + 1 /\ offsets' = offsets /\ high' = high
    BY <1>7, <1>4, <1>1 DEF Guess, guess, type, StateOK
  <2>2. low' <= high'
    BY <2>1, <1>3, <1>1 DEF StateOK
  <2>3. \A k \in 0 .. low' - 1 : type_fn[k] < step
    <3>1. TAKE k \in 0 .. low' - 1
    <3>2. k \in 0 .. count - 1 /\ k <= guess
      BY <3>1, <2>1, <1>3, <1>1 DEF InputOK, StateOK
    <3>3. type_fn[k] <= type_fn[guess]
      BY <3>2, <1>3, <1>1, Zenon DEF InputOK
    <3> QED
      BY <3>2, <3>3, <1>7, <1>4, <1>1 DEF type, InputOK
  <2>4. \A i \in 0 .. step - 1 : offsets[i] <= low' /\ IsFinal(i, offsets[i])'
    <3>1. \A i \in 0 .. step - 1 : IsFinal(i, offsets[i])'
      BY <2>1, <1>1, <1>5, Zenon DEF IsFinal
    <3>2. \A i \in 0 .. step - 1 : offsets[i] \in Nat /\ offsets[i] <= low
      BY <1>1 DEF StateOK, InputOK
    <3> QED
      BY <3>1, <3>2, <2>1, <1>1, <1>3 DEF StateOK
  <2>5. StateOK'
    <3>1. low' \in Nat /\ high' \in Nat
      BY <2>1, <1>1, <1>3 DEF StateOK
    <3> QED
      BY <3>1, <2>1, <1>1, <1>5, Zenon DEF StateOK
  <2>6. LoopInvariant'
    BY <2>1, <2>2, <2>3, <2>4, <2>5, <1>1, <1>5 DEF LoopInvariant, StateOK
  <2> QED
    BY <1>6, <2>5, <2>6, <1>5, Zenon DEF SplitInv, SplitIsCorrect
<1>8. CASE type >= step
  <2>1. /\ low' = low /\ high' = guess
        /\ offsets' = [i \in 0 .. num_types |-> IF i \in step .. type THEN guess
                                                                      ELSE offsets[i]]
    BY <1>8, <1>4, <1>1 DEF Guess, guess, type, StateOK
  <2>2. low' <= high' /\ high' = offsets'[step]
    BY <2>1, <1>3, <1>1, <1>4, <1>8 DEF StateOK, InputOK
  <2>3. StateOK'
    <3>1. guess \in 0 .. count /\ low' \in Nat /\ high' \in Nat
      BY <2>1, <1>1, <1>3 DEF StateOK, InputOK
    <3>2. offsets' \in [0 .. num_types -> 0 .. count]
      BY <3>1, <2>1, <1>1, Zenon DEF StateOK
    <3>3. 0 \notin step .. type /\ num_types \notin step .. type
      BY <1>1, <1>4 DEF InputOK
    <3>4. offsets'[0] = 0 /\ offsets'[num_types] = count
      BY <3>3, <2>1, <1>1 DEF StateOK, InputOK
    <3> QED
      BY <3>1, <3>2, <3>4, <1>1, <1>5, Zenon DEF StateOK
  <2>4. \A i \in 0 .. step - 1 : offsets'[i] <= low' /\ IsFinal(i, offsets[i])'
    <3>1. \A i \in 0 .. step - 1 : offsets'[i] = offsets[i]
      BY <2>1, <1>1 DEF InputOK, StateOK
    <3> QED
      BY <3>1, <2>1, <1>1, <1>5, Zenon DEF IsFinal
  <2>5. \A i \in 0 .. num_types : \A k \in offsets'[i] .. count - 1 : type_fn[k] >= i
    <3>1. TAKE i \in 0 .. num_types
    <3>2. CASE i \in step .. type
      <4>1. offsets'[i] = guess
        BY <3>1, <3>2, <2>1, Zenon
      <4>2. \A k \in guess .. count - 1 : type_fn[k] >= type
        BY <1>1, <1>3 DEF InputOK, type
      <4> QED
        BY <4>1, <4>2, <3>2, <1>1, <1>3, <1>4 DEF InputOK
    <3>3. CASE i \notin step .. type
      BY <3>1, <3>3, <2>1, <1>1, Zenon
    <3> QED
      BY <3>2, <3>3, Zenon
  <2>6. \A i, j \in 0 .. num_types : i <= j => offsets'[i] <= offsets'[j]
    <3>1. \A i \in 0 .. num_types : i < step => offsets[i] <= guess
      <4>1. TAKE i \in 0 .. num_types
      <4>2. HAVE i < step
      <4>3. offsets[i] <= low
        BY <4>1, <4>2, <1>1
      <4>4. low \in Nat /\ high \in Nat /\ offsets[i] \in 0 .. count /\ count \in Nat
        BY <4>1, <1>1, Zenon DEF StateOK, InputOK
      <4>5. guess \in Nat /\ low <= guess
        BY <4>4, <1>3
      <4> QED
        BY <4>3, <4>4, <4>5
    <3>2. \A i \in 0 .. num_types : i >= step => guess <= offsets[i]
      <4>1. step \in 0 .. num_types /\ offsets \in [0 .. num_types -> Nat]
        BY <1>1 DEF InputOK, StateOK
      <4>2. guess \in Nat /\ high \in Nat /\ guess <= high
        BY <1>1, <1>3 DEF StateOK
      <4>3. guess <= offsets[step]
        BY <4>2, <1>1, Zenon
      <4>4. \A i \in 0 .. num_types : step <= i => offsets[step] <= offsets[i]
        BY <4>1, <1>1, Zenon
      <4> QED
        BY <4>1, <4>2, <4>3, <4>4
    <3>3. \A i \in 0 .. num_types : offsets[i] \in Nat
      BY <1>1 DEF StateOK, InputOK
    <3>4. step \in Nat /\ type \in Nat /\ guess \in Nat /\ num_types \in Nat
      BY <1>1, <1>3, <1>4 DEF StateOK, InputOK
    <3>5. \A i \in 0 .. num_types :
            offsets'[i] = IF step <= i /\ i <= type THEN guess ELSE offsets[i]
      BY <2>1, <3>4
    <3> QED
      BY <3>1, <3>2, <3>3, <3>4, <3>5, <1>1
  <2>7. LoopInvariant'
    <3>1. UNCHANGED <<count, num_types, type_fn, step>> /\ step \in 1 .. num_types - 1
      BY <2>1, <1>1, <1>5, Zenon
    <3>2. high' = offsets'[step]
      BY <2>1, <2>2, <2>3, <1>1, <1>5, Zenon DEF StateOK
    <3>3. \A k \in 0 .. low' - 1 : type_fn[k] < step
      BY <2>1, <1>1, Zenon
    <3>4. IF pc' = "guess" THEN low' < high' ELSE low' = high'
      BY <2>1, <2>2, <2>3, <1>1, <1>5 DEF StateOK
    <3> QED
      BY <3>1, <3>2, <3>3, <3>4, <2>4, <2>5, <2>6, Zenon DEF LoopInvariant
  <2> QED
    BY <1>6, <2>3, <2>7, <1>5, Zenon DEF SplitInv, SplitIsCorrect
<1> QED
  BY <1>7, <1>8, <1>4, <1>1 DEF StateOK

(* When low meets high, the offset of type step is final by invariants (4) *)
(* and (5), and after the last type the offsets are what was asked for.    *)
LEMMA AdvancePreserves == SplitInv /\ Advance => SplitInv'
<1> SUFFICES ASSUME SplitInv, Advance PROVE SplitInv'
  OBVIOUS
<1>1. /\ pc = "advance"
      /\ InputOK /\ StateOK
      /\ step \in 1 .. num_types - 1
      /\ \A i \in 0 .. step - 1 : offsets[i] <= low /\ IsFinal(i, offsets[i])
      /\ \A k \in 0 .. low - 1 : type_fn[k] < step
      /\ \A i \in 0 .. num_types : \A k \in offsets[i] .. count - 1 : type_fn[k] >= i
      /\ \A i, j \in 0 .. num_types : i <= j => offsets[i] <= offsets[j]
      /\ high = offsets[step]
      /\ low = high
  BY Zenon DEF SplitInv, LoopInvariant, Advance
<1>2. /\ UNCHANGED <<count, num_types, type_fn, offsets, low>>
      /\ step' = step + 1 /\ high' = offsets[step + 1]
      /\ pc' = IF step + 1 = num_types THEN "idle"
               ELSE IF low = high' THEN "advance" ELSE "guess"
  BY Zenon DEF Advance, input
<1>3. /\ count \in Nat /\ num_types \in Nat /\ low \in Nat
      /\ \A i \in 0 .. num_types : offsets[i] \in 0 .. count
      /\ \A k \in 0 .. count - 1 : type_fn[k] \in 0 .. num_types - 1
  BY <1>1, Zenon DEF InputOK, StateOK
<1>4. step + 1 \in 0 .. num_types /\ step \in 0 .. num_types
  BY <1>1, <1>3
<1>5. InputOK'
  BY <1>1, <1>2, Zenon DEF InputOK
<1>6. StateOK'
  BY <1>1, <1>2, <1>3, <1>4 DEF StateOK
<1>7. IsFinal(step, offsets[step])
  BY <1>1, <1>3, <1>4 DEF IsFinal
<1>8. \A i \in 0 .. step : offsets[i] <= low /\ IsFinal(i, offsets[i])
  <2>1. offsets[step] <= low /\ low \in Nat /\ step \in Nat
    BY <1>1, <1>3, <1>4
  <2>2. \A i \in 0 .. step : i = step \/ i \in 0 .. step - 1
    BY <2>1
  <2> QED
    BY <2>1, <2>2, <1>1, <1>7, Zenon
<1>9. CASE step + 1 = num_types
  <2>1. pc' = "idle"
    BY <1>2, <1>9, Zenon
  <2>2. IsFinal(num_types, offsets[num_types])
    BY <1>1, <1>3 DEF IsFinal, StateOK
  <2>3. \A i \in 0 .. num_types : IsFinal(i, offsets[i])
    BY <2>2, <1>8, <1>9, <1>3, <1>1
  <2>4. ASSUME NEW k \in 0 .. num_types - 1, NEW j \in 0 .. count - 1
        PROVE  type_fn[j] = k <=> offsets[k] <= j /\ j < offsets[k + 1]
    <3>1. k \in 0 .. num_types /\ k + 1 \in 0 .. num_types
      BY <1>3
    <3>2. IsFinal(k, offsets[k]) /\ IsFinal(k + 1, offsets[k + 1])
      BY <3>1, <2>3, Zenon
    <3>3. offsets[k] \in Nat /\ offsets[k + 1] \in Nat /\ type_fn[j] \in Nat /\ j \in Nat
      BY <3>1, <1>3
    <3>4. IF j < offsets[k] THEN type_fn[j] < k ELSE type_fn[j] >= k
      BY <3>2, Zenon DEF IsFinal
    <3>5. IF j < offsets[k + 1] THEN type_fn[j] < k + 1 ELSE type_fn[j] >= k + 1
      BY <3>2, Zenon DEF IsFinal
    <3> QED
      BY <3>3, <3>4, <3>5
  <2>5. SplitIsCorrect'
    BY <2>4, <1>1, <1>2, Zenon DEF SplitIsCorrect, StateOK
  <2> QED
    BY <1>5, <1>6, <2>1, <2>5, Zenon DEF SplitInv, LoopInvariant
<1>10. CASE step + 1 # num_types
  <2>1. pc' = (IF low' = high' THEN "advance" ELSE "guess")
    BY <1>2, <1>10, Zenon
  <2>2. step' \in 1 .. num_types' - 1
    BY <1>1, <1>2, <1>3, <1>10
  <2>3. \A i \in 0 .. step' - 1 : offsets'[i] <= low' /\ IsFinal(i, offsets[i])'
    BY <1>1, <1>2, <1>3, <1>8 DEF IsFinal
  <2>4. \A k \in 0 .. low' - 1 : type_fn'[k] < step'
    <3>1. low <= count
      BY <1>1, <1>3, <1>4
    <3> QED
      BY <3>1, <1>1, <1>2, <1>3
  <2>5. low' <= high' /\ high' = offsets'[step']
    BY <1>1, <1>2, <1>3, <1>4
  <2>6. low' = high' \/ low' < high'
    BY <2>5, <1>6 DEF StateOK
  <2>7. LoopInvariant'
    BY <2>1, <2>2, <2>3, <2>4, <2>5, <2>6, <1>1, <1>2, Zenon DEF LoopInvariant
  <2> QED
    BY <1>5, <1>6, <2>1, <2>7, Zenon DEF SplitInv, SplitIsCorrect
<1> QED
  BY <1>9, <1>10, Zenon

(* The invariant holds in every state of sc_array_split.                   *)
LEMMA SplitInvariant == SplitSpec => []SplitInv
<1>1. SplitInit => SplitInv
  BY DEF SplitInit, SplitInv, InputOK, StateOK, LoopInvariant, SplitIsCorrect
<1>2. SplitInv /\ [SplitNext]_splitvars => SplitInv'
  <2> SUFFICES ASSUME SplitInv, [SplitNext]_splitvars PROVE SplitInv'
    OBVIOUS
  <2>1. CASE UNCHANGED splitvars
    BY <2>1, Zenon DEF splitvars, SplitInv, InputOK, StateOK, LoopInvariant, IsFinal, SplitIsCorrect
  <2> QED
    BY <2>1, CallPreserves, GuessPreserves, AdvancePreserves, Zenon DEF SplitNext
<1> QED
  BY <1>1, <1>2, PTL DEF SplitSpec

(* The loop invariants stated in the comments of sc_array_split hold for   *)
(* every array and every number of types.                                  *)
THEOREM LoopInvariantHolds == SplitSpec => []LoopInvariant
<1>1. SplitInv => LoopInvariant
  BY Zenon DEF SplitInv
<1> QED
  BY <1>1, SplitInvariant, PTL

(* Whenever sc_array_split has returned, its offsets delimit exactly the   *)
(* elements of each type, for every array and every number of types.       *)
THEOREM SplitCorrect == SplitSpec => []SplitIsCorrect
<1>1. SplitInv => SplitIsCorrect
  BY Zenon DEF SplitInv
<1> QED
  BY <1>1, SplitInvariant, PTL

-----------------------------------------------------------------------------
(***************************************************************************)
(* sc_array_permute is correct for arrays of every length and for every    *)
(* permutation.                                                            *)
(***************************************************************************)

Index == 0 .. zcount - 1

Injective(m) == \A i, j \in Index : m[i] = m[j] => i = j

PermuteTypeOK ==
  /\ zcount \in Nat
  /\ keepperm \in BOOLEAN
  /\ perm \in [Index -> Index] /\ Injective(perm)
  /\ array \in [Index -> Index] /\ Injective(array)
  /\ newind \in [Index -> Index]
  /\ newindices = IF keepperm THEN perm ELSE newind
  /\ place \in {"idle", "pivot", "cycle"}
  /\ place # "idle" => zi \in Index

(* newind[i] is where the data that is now in slot i belongs, except that  *)
(* inside of a cycle zk is where the data in the pivot slot zi belongs;    *)
(* slots before the pivot have their data.                                 *)
CycleOK ==
  /\ place = "idle" => \A i \in Index : newind[i] = i /\ perm[array[i]] = i
  /\ place = "pivot" => zj = zi /\ perm[array[zi]] = newind[zi]
  /\ place = "cycle" => zk \in Index /\ perm[array[zi]] = zk
  /\ place # "idle" => \A i \in Index :
       /\ i # zi => perm[array[i]] = newind[i]
       /\ i < zi => newind[i] = i

PermuteInv == PermuteTypeOK /\ CycleOK

(* What sc_array_is_permutation accepts is injective: it counts every      *)
(* index once.                                                             *)
LEMMA PermutationInjective ==
  ASSUME NEW n \in Nat, NEW p \in sc_array_is_permutation(n)
  PROVE  /\ p \in [0 .. n - 1 -> 0 .. n - 1]
         /\ \A i, j \in 0 .. n - 1 : p[i] = p[j] => i = j
<1>1. /\ p \in [0 .. n - 1 -> 0 .. n - 1]
      /\ \A k \in 0 .. n - 1 : Cardinality({i \in 0 .. n - 1 : p[i] = k}) = 1
  BY Zenon DEF sc_array_is_permutation
<1>2. ASSUME NEW i \in 0 .. n - 1, NEW j \in 0 .. n - 1, p[i] = p[j]
      PROVE  i = j
  <2> DEFINE S == {h \in 0 .. n - 1 : p[h] = p[i]}
  <2>1. Cardinality(S) = 1
    BY <1>1, Zenon
  <2>2. IsFiniteSet(S)
    <3>1. IsFiniteSet(0 .. n - 1)
      BY FS_Interval
    <3> QED
      BY <3>1, FS_Subset, Zenon
  <2>3. PICK x : S = {x}
    BY <2>1, <2>2, FS_Singleton, Zenon
  <2>4. i \in S /\ j \in S
    BY <1>2, Zenon
  <2> QED
    BY <2>3, <2>4, Zenon
<1> QED
  BY <1>1, <1>2, Zenon

(* The call of sc_array_permute establishes the invariant.                 *)
LEMMA PermuteCalled == PermuteInv /\ sc_array_permute => PermuteInv'
<1> SUFFICES ASSUME sc_array_permute PROVE PermuteInv'
  OBVIOUS
<1>1. PICK n \in 0 .. MaxPermute, keep \in BOOLEAN :
        /\ zcount' = n /\ keepperm' = keep
        /\ array' = Identity(n)
        /\ perm' \in sc_array_is_permutation(n)
        /\ place' = IF n = 0 THEN "idle" ELSE "pivot"
  BY Zenon DEF sc_array_permute
<1>2. newindices' = perm' /\ newind' = perm' /\ zi' = 0 /\ zj' = 0
  BY Zenon DEF sc_array_permute
<1>3. n \in Nat
  BY BoundsAssumption
<1>4. /\ perm' \in [0 .. n - 1 -> 0 .. n - 1]
      /\ \A i, j \in 0 .. n - 1 : perm'[i] = perm'[j] => i = j
  BY <1>1, <1>3, PermutationInjective, Zenon
<1>5. array' \in [0 .. n - 1 -> 0 .. n - 1] /\ \A i \in 0 .. n - 1 : array'[i] = i
  BY <1>1, <1>3, Zenon DEF Identity
<1>6. PermuteTypeOK'
  BY <1>1, <1>2, <1>3, <1>4, <1>5 DEF PermuteTypeOK, Index, Injective
<1>7. CycleOK'
  BY <1>1, <1>2, <1>3, <1>4, <1>5 DEF CycleOK, Index
<1> QED
  BY <1>6, <1>7, Zenon DEF PermuteInv

(* The lookup in the outer loop keeps the invariant.                       *)
LEMMA PivotStep == PermuteInv /\ Pivot => PermuteInv'
<1> SUFFICES ASSUME PermuteInv, Pivot PROVE PermuteInv'
  OBVIOUS
<1>1. PermuteTypeOK'
  BY Zenon DEF PermuteInv, PermuteTypeOK, Pivot, Index, Injective
<1>2. CycleOK'
  BY Zenon DEF PermuteInv, PermuteTypeOK, CycleOK, Pivot, Index
<1> QED
  BY <1>1, <1>2, Zenon DEF PermuteInv

(* A swap moves the data in the pivot slot to where it belongs.            *)
LEMMA Swapped ==
  ASSUME PermuteInv, Swap
  PROVE  /\ UNCHANGED <<perm, keepperm, zcount, zi, place>>
         /\ zi \in Index /\ zk \in Index /\ zk # zi /\ place = "cycle"
         /\ zk' = newind[zk]
         /\ array' \in [Index -> Index]
         /\ array'[zk] = array[zi] /\ array'[zi] = array[zk]
         /\ \A i \in Index : i # zk /\ i # zi => array'[i] = array[i]
         /\ newind' \in [Index -> Index]
         /\ newind'[zk] = zk
         /\ \A i \in Index : i # zk => newind'[i] = newind[i]
         /\ newindices' = IF keepperm THEN newindices ELSE newind'
<1>1. zi \in Index /\ zk \in Index /\ zk # zi /\ place = "cycle"
  BY Zenon DEF PermuteInv, PermuteTypeOK, CycleOK, Swap
<1>2. array \in [Index -> Index] /\ newind \in [Index -> Index]
  BY Zenon DEF PermuteInv, PermuteTypeOK
<1>3. array' = [array EXCEPT ![zk] = array[zi], ![zi] = array[zk]]
  BY Zenon DEF Swap
<1>4. newind' = [newind EXCEPT ![zk] = zk] /\ newindices' = IF keepperm THEN newindices ELSE newind'
  BY Zenon DEF Swap, Store
<1> QED
  BY <1>1, <1>2, <1>3, <1>4, Zenon DEF Swap

(* The inner loop keeps the invariant.                                     *)
LEMMA SwapStep == PermuteInv /\ Swap => PermuteInv'
<1> SUFFICES ASSUME PermuteInv, Swap PROVE PermuteInv'
  OBVIOUS
<1>1. Index' = Index
  BY Swapped, Zenon DEF Index
<1>2. PermuteTypeOK'
  <2>1. Injective(array)'
    <3>1. SUFFICES ASSUME NEW i \in Index, NEW j \in Index, array'[i] = array'[j]
                   PROVE  i = j
      BY <1>1, Zenon DEF Injective
    <3>2. \A g, h \in Index : array[g] = array[h] => g = h
      BY Zenon DEF PermuteInv, PermuteTypeOK, Injective
    <3> QED
      BY <3>1, <3>2, Swapped
  <2>2. Injective(perm)'
    BY <1>1, Swapped DEF PermuteInv, PermuteTypeOK, Injective
  <2>3. newindices' = IF keepperm' THEN perm' ELSE newind'
    BY Swapped DEF PermuteInv, PermuteTypeOK
  <2> QED
    BY <1>1, <2>1, <2>2, <2>3, Swapped, Zenon DEF PermuteInv, PermuteTypeOK
<1>3. CycleOK'
  <2>1. /\ perm[array[zi]] = zk
        /\ \A i \in Index : /\ i # zi => perm[array[i]] = newind[i]
                            /\ i < zi => newind[i] = i
    BY Swapped, Zenon DEF PermuteInv, CycleOK
  <2>2. zk' \in Index' /\ perm'[array'[zi']] = zk'
    BY <1>1, <2>1, Swapped DEF PermuteInv, PermuteTypeOK
  <2>3. ASSUME NEW i \in Index
        PROVE  /\ i # zi' => perm'[array'[i]] = newind'[i]
               /\ i < zi' => newind'[i] = i
    <3>1. CASE i = zk
      BY <3>1, <2>1, Swapped, Zenon
    <3>2. CASE i # zk
      BY <3>2, <2>1, Swapped, Zenon
    <3> QED
      BY <3>1, <3>2, Zenon
  <2> QED
    BY <1>1, <2>2, <2>3, Swapped, Zenon DEF CycleOK
<1> QED
  BY <1>2, <1>3, Zenon DEF PermuteInv

(* At the end of a cycle the data of the pivot slot is in place.           *)
LEMMA CloseStep == PermuteInv /\ CloseCycle => PermuteInv'
<1> SUFFICES ASSUME PermuteInv, CloseCycle PROVE PermuteInv'
  OBVIOUS
<1>1. /\ UNCHANGED <<perm, keepperm, zcount, array, zk>>
      /\ zk = zi /\ zi' = zi + 1 /\ zj' = zi + 1
      /\ place = "cycle" /\ place' = IF zi + 1 < zcount THEN "pivot" ELSE "idle"
      /\ newindices' = IF keepperm THEN newindices ELSE newind'
      /\ newind' = [newind EXCEPT ![zi] = zi]
  BY Zenon DEF CloseCycle, Store
<1>2. /\ zi \in Index /\ newind \in [Index -> Index] /\ zcount \in Nat
      /\ perm[array[zi]] = zi
      /\ \A i \in Index : /\ i # zi => perm[array[i]] = newind[i]
                          /\ i < zi => newind[i] = i
  BY <1>1, Zenon DEF PermuteInv, PermuteTypeOK, CycleOK
<1>3. Index' = Index
  BY <1>1, Zenon DEF Index
<1>4. /\ newind' \in [Index -> Index] /\ newind'[zi] = zi
      /\ \A i \in Index : i # zi => newind'[i] = newind[i]
  BY <1>1, <1>2, Zenon
<1>5. PermuteTypeOK'
  <2>1. place' # "idle" => zi' \in Index
    BY <1>1, <1>2 DEF Index
  <2>2. newindices' = IF keepperm' THEN perm' ELSE newind'
    BY <1>1, Zenon DEF PermuteInv, PermuteTypeOK
  <2> QED
    BY <1>1, <1>3, <1>4, <2>1, <2>2 DEF PermuteInv, PermuteTypeOK, Injective
<1>6. CycleOK'
  <2>1. \A i \in Index : perm'[array'[i]] = newind'[i]
    BY <1>1, <1>2, <1>4, Zenon
  <2>2. \A i \in Index : i < zi + 1 => newind'[i] = i
    <3>1. \A i \in Index : i < zi + 1 => i = zi \/ i < zi
      BY <1>2 DEF Index
    <3> QED
      BY <3>1, <1>2, <1>4, Zenon
  <2>3. CASE place' = "pivot"
    <3>1. zi' \in Index
      BY <1>5, <1>3, <2>3, Zenon DEF PermuteTypeOK
    <3> QED
      BY <1>1, <1>3, <2>1, <2>2, <2>3, <3>1, Zenon DEF CycleOK
  <2>4. CASE place' = "idle"
    <3>1. \A i \in Index : i < zi + 1
      BY <1>1, <1>2, <2>4 DEF Index
    <3> QED
      BY <1>3, <2>1, <2>2, <2>4, <3>1, Zenon DEF CycleOK
  <2> QED
    BY <1>1, <2>3, <2>4, Zenon
<1> QED
  BY <1>5, <1>6, Zenon DEF PermuteInv

(* The invariant holds in every state of sc_array_permute.                 *)
LEMMA PermuteInvariant == PermuteSpec => []PermuteInv
<1>1. PermuteInit => PermuteInv
  <2> SUFFICES ASSUME PermuteInit PROVE PermuteInv
    OBVIOUS
  <2>1. zcount = 0 /\ Index = {} /\ place = "idle" /\ keepperm = FALSE
    BY DEF PermuteInit, Index
  <2>2. perm \in [{} -> {}] /\ array = perm /\ newind = perm /\ newindices = perm
    BY DEF PermuteInit, Identity
  <2> QED
    BY <2>1, <2>2, Zenon DEF PermuteInv, PermuteTypeOK, CycleOK, Injective
<1>2. PermuteInv /\ [PermuteNext]_permutevars => PermuteInv'
  <2>1. ASSUME PermuteInv, UNCHANGED permutevars PROVE PermuteInv'
    <3>1. /\ UNCHANGED <<perm, newindices, keepperm, array, newind, zi, zj, zk, place>>
          /\ zcount' = zcount /\ Index' = Index
      BY <2>1, Zenon DEF permutevars, Index
    <3>2. PermuteTypeOK'
      BY <2>1, <3>1, Zenon DEF PermuteInv, PermuteTypeOK, Injective
    <3>3. CycleOK'
      BY <2>1, <3>1, Zenon DEF PermuteInv, CycleOK
    <3> QED
      BY <3>2, <3>3, Zenon DEF PermuteInv
  <2> QED
    BY <2>1, PermuteCalled, PivotStep, SwapStep, CloseStep, Zenon DEF PermuteNext
<1> QED
  BY <1>1, <1>2, PTL DEF PermuteSpec

(* Whenever sc_array_permute has returned, the data from each index i is   *)
(* at newindices[i], and the caller's permutation is kept or the identity  *)
(* as asked for: for arrays of every length and every permutation.         *)
THEOREM PermuteCorrect == PermuteSpec => []PermuteIsCorrect
<1>1. ASSUME PermuteInv, place = "idle"
      PROVE  /\ \A i \in 0 .. zcount - 1 : array[perm[i]] = i
             /\ newindices = IF keepperm THEN perm ELSE Identity(zcount)
  <2>1. \A i \in Index : newind[i] = i /\ perm[array[i]] = i
    BY <1>1, Zenon DEF PermuteInv, CycleOK
  <2>2. ASSUME NEW i \in Index PROVE array[perm[i]] = i
    <3>1. perm[i] \in Index /\ array[perm[i]] \in Index
      BY <1>1, Zenon DEF PermuteInv, PermuteTypeOK
    <3>2. perm[array[perm[i]]] = perm[i]
      BY <2>1, <3>1, Zenon
    <3> QED
      BY <1>1, <3>1, <3>2, Zenon DEF PermuteInv, PermuteTypeOK, Injective
  <2>3. newind = Identity(zcount)
    BY <1>1, <2>1, Zenon DEF PermuteInv, PermuteTypeOK, Identity, Index
  <2> QED
    BY <1>1, <2>2, <2>3, Zenon DEF PermuteInv, PermuteTypeOK, Index
<1>2. PermuteInv => PermuteIsCorrect
  BY <1>1, Zenon DEF PermuteIsCorrect
<1> QED
  BY <1>2, PermuteInvariant, PTL

(* Every swap of sc_array_permute puts one more element in its place, and  *)
(* no element ever leaves its place: the loops make progress, and at most  *)
(* count swaps are done.                                                   *)
THEOREM PermuteProgress == PermuteSpec => [][StepOfPermute]_permutevars
<1>1. ASSUME PermuteInv, Swap PROVE InPlace \subseteq InPlace' /\ InPlace # InPlace'
  <2>1. Index' = Index /\ perm' = perm
    BY <1>1, Swapped, Zenon DEF Index
  <2>2. /\ perm \in [Index -> Index] /\ Injective(perm)
        /\ array \in [Index -> Index] /\ Injective(array)
        /\ perm[array[zi]] = zk
    BY <1>1, Swapped, Zenon DEF PermuteInv, PermuteTypeOK, CycleOK
  <2>3. ASSUME NEW i \in Index, array[perm[i]] = i PROVE array'[perm[i]] = i
    <3>1. perm[i] # zi
      BY <1>1, <2>2, <2>3, Swapped, Zenon
    <3>2. perm[i] # zk
      <4>1. SUFFICES ASSUME perm[i] = zk PROVE FALSE
        OBVIOUS
      <4>2. array[zi] \in Index /\ array[zi] = i
        BY <1>1, <4>1, <2>2, Swapped DEF Injective
      <4> QED
        BY <1>1, <4>1, <4>2, <2>2, <2>3, Swapped, Zenon DEF Injective
    <3> QED
      BY <1>1, <2>2, <2>3, <3>1, <3>2, Swapped, Zenon
  <2>4. array[zi] \in Index /\ array'[perm[array[zi]]] = array[zi] /\ array[perm[array[zi]]] # array[zi]
    BY <1>1, <2>2, Swapped, Zenon DEF Injective
  <2>5. InPlace = {i \in Index : array[perm[i]] = i}
    BY Zenon DEF InPlace, Index
  <2>6. InPlace' = {i \in Index : array'[perm[i]] = i}
    BY <2>1, Zenon DEF InPlace, Index
  <2>7. array[zi] \notin InPlace /\ array[zi] \in InPlace'
    BY <2>4, <2>5, <2>6, Zenon
  <2> QED
    BY <2>3, <2>5, <2>6, <2>7, Zenon
<1>2. PermuteInv /\ [PermuteNext]_permutevars => [StepOfPermute]_permutevars
  <2> SUFFICES ASSUME PermuteInv, PermuteNext PROVE StepOfPermute
    BY Zenon DEF permutevars
  <2>1. CASE sc_array_permute
    BY <2>1, Zenon DEF sc_array_permute, StepOfPermute
  <2>2. CASE Pivot
    BY <2>2, Zenon DEF Pivot, StepOfPermute, InPlace
  <2>3. CASE Swap
    BY <2>3, <1>1, Zenon DEF StepOfPermute
  <2>4. CASE CloseCycle
    BY <2>4, Zenon DEF CloseCycle, StepOfPermute, InPlace
  <2> QED
    BY <2>1, <2>2, <2>3, <2>4, Zenon DEF PermuteNext
<1> QED
  BY <1>2, PermuteInvariant, PTL DEF PermuteSpec


-----------------------------------------------------------------------------
(* Memory pools, unique counters and recycle arrays.                         *)

(* The places D that a container has made are divided between the users,   *)
(* where o[h] is the place of h, and the list fr of free places.           *)
Divided(o, fr, D) ==
  /\ None \notin D
  /\ o \in [Handle -> D \cup {None}]
  /\ fr \in Seq(D)
  /\ \A g, h \in Handle : o[g] # None /\ o[g] = o[h] => g = h
  /\ \A i, j \in 1 .. Len(fr) : fr[i] = fr[j] => i = j
  /\ \A h \in Handle, i \in 1 .. Len(fr) : o[h] # fr[i]
  /\ \A e \in D : (\E h \in Handle : o[h] = e) \/ \E i \in 1 .. Len(fr) : fr[i] = e

Holders(o) == {h \in Handle : o[h] # None}

Element == (Nat \ {0}) \X (0 .. per_stamp - 1)

(* The element e has been taken from a stamp, when the next one is at r, c. *)
IsUsed(e, r, c) == e \in Element /\ (e[1] < r \/ (e[1] = r /\ e[2] < c))

PoolInv ==
  /\ remember \in Nat \ {0}
  /\ cur_snext \in 0 .. per_stamp - 1
  /\ \A e \in DOMAIN memory : IsUsed(e, remember, cur_snext) /\ memory[e] \in Int
  /\ Divided(owner, freed, DOMAIN memory)

(* The number of an element, which it is given once.  It is offset by      *)
(* start_value while the element is in use.                                *)
Number(e, o, m) == IF \E h \in Handle : o[h] = e THEN m[e] - (start_value - 1) ELSE m[e]

CounterInv ==
  /\ \A e \in DOMAIN memory : Number(e, owner, memory) \in 1 .. pool_count + Len(freed)
  /\ \A d, e \in DOMAIN memory : Number(d, owner, memory) = Number(e, owner, memory) => d = e

Positions(n) == {<<p>> : p \in 0 .. n - 1}
Boxed(f) == [i \in 1 .. Len(f) |-> <<f[i]>>]

RecycleInv ==
  /\ rec_a \in Nat
  /\ rec_f \in Seq(Nat)
  /\ Divided(owner, Boxed(rec_f), Positions(rec_a))

PoolsInv ==
  /\ user \in {"pool", "counter", "recycle"}
  /\ pool_count \in Nat /\ pool_count = Cardinality(Held)
  /\ user # "recycle" => PoolInv
  /\ user = "counter" => CounterInv
  /\ user = "recycle" => RecycleInv

-----------------------------------------------------------------------------
(* A new container has no places.                                          *)
LEMMA DividedNone == Divided([h \in Handle |-> None], <<>>, {})
<1>1. [h \in Handle |-> None] \in [Handle -> {} \cup {None}]
  OBVIOUS
<1>2. <<>> \in Seq({}) /\ Len(<<>>) = 0
  OBVIOUS
<1> QED
  BY <1>1, <1>2 DEF Divided

(* The last free place goes to a user.                                     *)
LEMMA DividedTake ==
  ASSUME NEW o, NEW fr, NEW D, Divided(o, fr, D), NEW h \in Handle, o[h] = None, fr # <<>>
  PROVE  /\ Divided([o EXCEPT ![h] = fr[Len(fr)]], SubSeq(fr, 1, Len(fr) - 1), D)
         /\ Len(fr) \in Nat \ {0} /\ Len(SubSeq(fr, 1, Len(fr) - 1)) = Len(fr) - 1
         /\ fr[Len(fr)] \in D /\ \A g \in Handle : o[g] # fr[Len(fr)]
<1> DEFINE n == Len(fr)
           q == SubSeq(fr, 1, n - 1)
           p == [o EXCEPT ![h] = fr[n]]
<1>1. fr \in Seq(D) /\ o \in [Handle -> D \cup {None}] /\ None \notin D
  BY Zenon DEF Divided
<1>2. n \in Nat /\ n # 0
  BY <1>1
<1>3. q \in Seq(D) /\ Len(q) = n - 1 /\ \A i \in 1 .. n - 1 : q[i] = fr[i]
  <2>1. n - 1 \in Nat /\ 1 \in Int /\ \A i \in 1 .. n - 1 : i \in 1 .. n /\ fr[i] \in D
    BY <1>1, <1>2
  <2>2. q = [i \in 1 .. n - 1 |-> fr[i]]
    BY <2>1, <1>1
  <2> HIDE DEF q, n
  <2> QED
    BY <2>1, <2>2
<1>4. fr[n] \in D /\ n \in 1 .. n
  BY <1>1, <1>2
<1>5. p \in [Handle -> D \cup {None}] /\ p[h] = fr[n] /\ \A g \in Handle : g # h => p[g] = o[g]
  BY <1>1, <1>4, Zenon
<1>6. /\ \A g, k \in Handle : o[g] # None /\ o[g] = o[k] => g = k
      /\ \A i, j \in 1 .. n : fr[i] = fr[j] => i = j
      /\ \A g \in Handle, i \in 1 .. n : o[g] # fr[i]
      /\ \A e \in D : (\E g \in Handle : o[g] = e) \/ \E i \in 1 .. n : fr[i] = e
  BY Zenon DEF Divided
<1>7. \A i \in 1 .. n - 1 : i \in 1 .. n /\ i # n
  BY <1>2
<1> HIDE DEF n, q, p
<1>8. \A g, k \in Handle : p[g] # None /\ p[g] = p[k] => g = k
  BY <1>4, <1>5, <1>6
<1>9. \A i, j \in 1 .. Len(q) : q[i] = q[j] => i = j
  BY <1>3, <1>6, <1>7, Zenon
<1>10. \A g \in Handle, i \in 1 .. Len(q) : p[g] # q[i]
  BY <1>3, <1>4, <1>5, <1>6, <1>7
<1>11. \A e \in D : (\E g \in Handle : p[g] = e) \/ \E i \in 1 .. Len(q) : q[i] = e
  <2>1. SUFFICES ASSUME NEW e \in D, ~\E g \in Handle : p[g] = e
                 PROVE  \E i \in 1 .. n - 1 : q[i] = e
    BY <1>3, Zenon
  <2>2. ~\E g \in Handle : o[g] = e
    BY <2>1, <1>1, <1>5, Zenon
  <2>3. PICK i \in 1 .. n : fr[i] = e
    BY <2>1, <2>2, <1>6, Zenon
  <2>4. i # n
    BY <2>1, <2>3, <1>5, Zenon
  <2>5. i \in 1 .. n - 1
    BY <2>4, <1>2
  <2> QED
    BY <2>3, <2>5, <1>3, Zenon
<1>12. Divided(p, q, D)
  BY <1>1, <1>3, <1>5, <1>8, <1>9, <1>10, <1>11, Zenon DEF Divided
<1> QED
  BY <1>2, <1>3, <1>4, <1>6, <1>12, Zenon DEF n, q, p

(* A place made anew goes to a user.                                       *)
LEMMA DividedNew ==
  ASSUME NEW o, NEW fr, NEW D, Divided(o, fr, D), NEW h \in Handle, o[h] = None,
         NEW x, x \notin D, x # None
  PROVE  /\ Divided([o EXCEPT ![h] = x], fr, D \cup {x})
         /\ \A g \in Handle : o[g] # x
<1> DEFINE p == [o EXCEPT ![h] = x]
           n == Len(fr)
<1>1. fr \in Seq(D) /\ o \in [Handle -> D \cup {None}] /\ None \notin D
  BY Zenon DEF Divided
<1>2. /\ \A g, k \in Handle : o[g] # None /\ o[g] = o[k] => g = k
      /\ \A i, j \in 1 .. n : fr[i] = fr[j] => i = j
      /\ \A g \in Handle, i \in 1 .. n : o[g] # fr[i]
      /\ \A e \in D : (\E g \in Handle : o[g] = e) \/ \E i \in 1 .. n : fr[i] = e
  BY Zenon DEF Divided
<1>3. p \in [Handle -> (D \cup {x}) \cup {None}] /\ p[h] = x /\ \A g \in Handle : g # h => p[g] = o[g]
  BY <1>1, Zenon
<1>4. fr \in Seq(D \cup {x}) /\ \A i \in 1 .. n : fr[i] \in D
  BY <1>1
<1>5. \A g \in Handle : o[g] # x
  BY <1>1, Zenon
<1> HIDE DEF p, n
<1>6. \A g, k \in Handle : p[g] # None /\ p[g] = p[k] => g = k
  BY <1>2, <1>3, <1>5
<1>7. \A g \in Handle, i \in 1 .. n : p[g] # fr[i]
  BY <1>2, <1>3, <1>4
<1>8. \A e \in D \cup {x} : (\E g \in Handle : p[g] = e) \/ \E i \in 1 .. n : fr[i] = e
  <2>1. ASSUME NEW e \in D PROVE (\E g \in Handle : p[g] = e) \/ \E i \in 1 .. n : fr[i] = e
    BY <1>1, <1>2, <1>3
  <2> QED
    BY <2>1, <1>3, Zenon
<1>9. Divided(p, fr, D \cup {x})
  BY <1>1, <1>2, <1>3, <1>4, <1>6, <1>7, <1>8, Zenon DEF Divided, n
<1> QED
  BY <1>5, <1>9, Zenon DEF p

(* A user gives a place back.                                              *)
LEMMA DividedGive ==
  ASSUME NEW o, NEW fr, NEW D, Divided(o, fr, D), NEW h \in Handle, o[h] # None
  PROVE  /\ Divided([o EXCEPT ![h] = None], Append(fr, o[h]), D)
         /\ o[h] \in D /\ Len(fr) \in Nat /\ Len(Append(fr, o[h])) = Len(fr) + 1
<1> DEFINE n == Len(fr)
           q == Append(fr, o[h])
           p == [o EXCEPT ![h] = None]
<1>1. fr \in Seq(D) /\ o \in [Handle -> D \cup {None}] /\ None \notin D
  BY Zenon DEF Divided
<1>2. o[h] \in D /\ n \in Nat
  BY <1>1
<1>3. q \in Seq(D) /\ Len(q) = n + 1 /\ q[n + 1] = o[h] /\ \A i \in 1 .. n : q[i] = fr[i]
  BY <1>1, <1>2
<1>4. p \in [Handle -> D \cup {None}] /\ p[h] = None /\ \A g \in Handle : g # h => p[g] = o[g]
  BY <1>1, Zenon
<1>5. /\ \A g, k \in Handle : o[g] # None /\ o[g] = o[k] => g = k
      /\ \A i, j \in 1 .. n : fr[i] = fr[j] => i = j
      /\ \A g \in Handle, i \in 1 .. n : o[g] # fr[i]
      /\ \A e \in D : (\E g \in Handle : o[g] = e) \/ \E i \in 1 .. n : fr[i] = e
  BY Zenon DEF Divided
<1>6. n + 1 \in 1 .. n + 1 /\ \A i \in 1 .. n + 1 : i = n + 1 \/ i \in 1 .. n
  BY <1>2
<1>7. \A i \in 1 .. n : i \in 1 .. n + 1
  BY <1>2
<1>8. \A i \in 1 .. n + 1 : q[i] \in D
  BY <1>3
<1> HIDE DEF n, q, p
<1>9. \A g, k \in Handle : p[g] # None /\ p[g] = p[k] => g = k
  BY <1>4, <1>5
<1>10. \A i, j \in 1 .. Len(q) : q[i] = q[j] => i = j
  BY <1>3, <1>5, <1>6
<1>11. \A g \in Handle, i \in 1 .. Len(q) : p[g] # q[i]
  BY <1>1, <1>2, <1>3, <1>4, <1>5, <1>6, <1>8
<1>12. \A e \in D : (\E g \in Handle : p[g] = e) \/ \E i \in 1 .. Len(q) : q[i] = e
  <2>1. SUFFICES ASSUME NEW e \in D, ~\E i \in 1 .. n + 1 : q[i] = e
                 PROVE  \E g \in Handle : p[g] = e
    BY <1>3, Zenon
  <2>2. ~\E i \in 1 .. n : fr[i] = e
    BY <2>1, <1>3, <1>7, Zenon
  <2>3. PICK g \in Handle : o[g] = e
    BY <2>1, <2>2, <1>5, Zenon
  <2> QED
    BY <2>1, <2>3, <1>3, <1>4, <1>6, Zenon
<1>13. Divided(p, q, D)
  BY <1>1, <1>3, <1>4, <1>9, <1>10, <1>11, <1>12, Zenon DEF Divided
<1> QED
  BY <1>2, <1>3, <1>13, Zenon DEF n, q, p

(* The number of users with a place, when one gets or gives back a place.  *)
LEMMA HoldersFinite == \A o : IsFiniteSet(Holders(o)) /\ Cardinality(Holders(o)) \in Nat
<1> TAKE o
<1>1. IsFiniteSet(Holders(o))
  BY PoolsAssumption, FS_Subset, Zenon DEF Holders
<1> QED
  BY <1>1, FS_CardinalityType, Zenon

(* A handle that takes an element is one holder more.                       *)
LEMMA HoldersMore ==
  ASSUME NEW D, NEW o \in [Handle -> D], NEW h \in Handle, o[h] = None, NEW x, x # None
  PROVE  Cardinality(Holders([o EXCEPT ![h] = x])) = Cardinality(Holders(o)) + 1
<1>1. Holders([o EXCEPT ![h] = x]) = Holders(o) \cup {h} /\ h \notin Holders(o)
  BY Zenon DEF Holders
<1> QED
  BY <1>1, HoldersFinite, FS_AddElement, Zenon

(* A handle that gives its element back is one holder less.                 *)
LEMMA HoldersLess ==
  ASSUME NEW D, NEW o \in [Handle -> D], NEW h \in Handle, o[h] # None
  PROVE  Cardinality(Holders([o EXCEPT ![h] = None])) = Cardinality(Holders(o)) - 1
<1>1. Holders([o EXCEPT ![h] = None]) = Holders(o) \ {h} /\ h \in Holders(o)
  BY Zenon DEF Holders
<1> QED
  BY <1>1, HoldersFinite, FS_RemoveElement, Zenon

(* At first nobody holds an element.                                        *)
LEMMA HoldersNone == Holders([h \in Handle |-> None]) = {} /\ Cardinality({}) = 0
BY FS_EmptySet, Zenon DEF Holders

-----------------------------------------------------------------------------
(* An element is a nonempty sequence of numbers.                           *)
LEMMA ElementAddress == \A e \in Element : e \in Seq(Nat) /\ e # None
<1> TAKE e \in Element
<1>1. PICK s \in Nat, k \in 0 .. per_stamp - 1 : e = <<s, k>>
  BY DEF Element
<1>2. k \in Nat
  BY PoolsAssumption
<1>3. Len(<<s, k>>) = 2 /\ Len(<<>>) = 0
  OBVIOUS
<1>4. <<s, k>> \in Seq(Nat)
  BY <1>2
<1> QED
  BY <1>1, <1>3, <1>4, Zenon DEF None

(* The next element of the current stamp has not been used before, and it  *)
(* is used from now on, as are all others.                                 *)
LEMMA NewElement ==
  ASSUME remember \in Nat \ {0}, cur_snext \in 0 .. per_stamp - 1, sc_mstamp_alloc,
         NEW x, x = <<remember, cur_snext>>
  PROVE  /\ x \in Element /\ ~IsUsed(x, remember, cur_snext)
         /\ remember' \in Nat \ {0} /\ cur_snext' \in 0 .. per_stamp - 1
         /\ IsUsed(x, remember', cur_snext')
         /\ \A e : IsUsed(e, remember, cur_snext) => IsUsed(e, remember', cur_snext')
<1>1. x \in Element /\ x[1] = remember /\ x[2] = cur_snext
  BY Zenon DEF Element
<1>2. ~IsUsed(x, remember, cur_snext)
  BY <1>1 DEF IsUsed
<1>3. /\ remember' \in Nat \ {0} /\ cur_snext' \in 0 .. per_stamp - 1
      /\ remember < remember' \/ (remember = remember' /\ cur_snext < cur_snext')
  BY PoolsAssumption DEF sc_mstamp_alloc
<1>4. IsUsed(x, remember', cur_snext')
  BY <1>1, <1>3, Zenon DEF IsUsed
<1>5. ASSUME NEW e, IsUsed(e, remember, cur_snext) PROVE IsUsed(e, remember', cur_snext')
  <2>1. e \in Element /\ (e[1] < remember \/ (e[1] = remember /\ e[2] < cur_snext))
    BY <1>5, Zenon DEF IsUsed
  <2>2. e[1] \in Nat /\ e[2] \in Nat /\ cur_snext \in Nat /\ cur_snext' \in Nat
    BY <2>1, <1>3, PoolsAssumption DEF Element
  <2> QED
    BY <1>3, <2>1, <2>2 DEF IsUsed
<1> QED
  BY <1>1, <1>2, <1>3, <1>4, <1>5, Zenon

(* What a write to an element does.                                        *)
LEMMA Written ==
  ASSUME NEW e, NEW x, Write(e, x)
  PROVE  /\ DOMAIN memory' = DOMAIN memory \cup {e}
         /\ memory'[e] = x
         /\ \A d \in DOMAIN memory : d # e => memory'[d] = memory[d]
BY Zenon DEF Write

(* What sc_mempool_alloc does for the user h, whose element is e.          *)
Allocated(h, e) ==
  /\ e \in Seq(Nat) /\ e # None
  /\ owner' = [owner EXCEPT ![h] = e] /\ owner'[h] = e
  /\ \A g \in Handle : owner[g] # e
  /\ \A g \in Handle : g # h => owner'[g] = owner[g]
  /\ Len(freed) \in Nat /\ Len(freed') \in Nat
  /\ IF e \in DOMAIN memory THEN Len(freed') = Len(freed) - 1
                            ELSE Len(freed) = 0 /\ Len(freed') = 0

(* sc_mempool_alloc, with what its caller writes to the element.           *)
LEMMA AllocStep ==
  ASSUME PoolInv, pool_count \in Nat, pool_count = Cardinality(Held),
         NEW h \in Handle, sc_mempool_alloc(h), NEW x \in Int, Write(NextElement, x),
         NEW e, e = NextElement
  PROVE  /\ PoolInv'
         /\ pool_count' \in Nat /\ pool_count' = Cardinality(Held')
         /\ Allocated(h, e)
<1>1. /\ remember \in Nat \ {0} /\ cur_snext \in 0 .. per_stamp - 1
      /\ \A d \in DOMAIN memory : IsUsed(d, remember, cur_snext) /\ memory[d] \in Int
      /\ Divided(owner, freed, DOMAIN memory)
  BY Zenon DEF PoolInv
<1>2. /\ owner[h] = None /\ owner' = [owner EXCEPT ![h] = e]
      /\ pool_count' = pool_count + 1
  BY Zenon DEF sc_mempool_alloc
<1>3. owner \in [Handle -> DOMAIN memory \cup {None}]
  BY <1>1, Zenon DEF Divided
<1>4. /\ DOMAIN memory' = DOMAIN memory \cup {e} /\ memory'[e] = x
      /\ \A d \in DOMAIN memory : d # e => memory'[d] = memory[d]
  BY Written, Zenon
<1>5. owner'[h] = e /\ \A g \in Handle : g # h => owner'[g] = owner[g]
  BY <1>2, <1>3, Zenon
<1>6. PoolInv' /\ Allocated(h, e)
  <2>1. CASE freed # <<>>
    <3>1. /\ e = freed[Len(freed)] /\ freed' = SubSeq(freed, 1, Len(freed) - 1)
          /\ remember' = remember /\ cur_snext' = cur_snext
      BY <2>1, Zenon DEF NextElement, sc_mempool_alloc
    <3>2. /\ Divided(owner', freed', DOMAIN memory)
          /\ Len(freed) \in Nat \ {0} /\ Len(freed') = Len(freed) - 1
          /\ e \in DOMAIN memory /\ \A g \in Handle : owner[g] # e
      <4>1. /\ Divided([owner EXCEPT ![h] = freed[Len(freed)]], SubSeq(freed, 1, Len(freed) - 1), DOMAIN memory)
            /\ Len(freed) \in Nat \ {0} /\ Len(SubSeq(freed, 1, Len(freed) - 1)) = Len(freed) - 1
            /\ freed[Len(freed)] \in DOMAIN memory /\ \A g \in Handle : owner[g] # freed[Len(freed)]
        BY <1>1, <1>2, <2>1, DividedTake, Zenon
      <4> QED
        BY <1>2, <3>1, <4>1, Zenon
    <3>3. DOMAIN memory' = DOMAIN memory
      BY <1>4, <3>2, Zenon
    <3>4. \A d \in DOMAIN memory' : IsUsed(d, remember', cur_snext') /\ memory'[d] \in Int
      BY <1>1, <1>4, <3>1, <3>3, Zenon
    <3>5. PoolInv'
      BY <1>1, <3>1, <3>2, <3>3, <3>4, Zenon DEF PoolInv
    <3>6. e \in Seq(Nat) /\ e # None
      BY <1>1, <3>2, ElementAddress, Zenon DEF IsUsed
    <3> QED
      BY <1>2, <1>5, <3>2, <3>5, <3>6 DEF Allocated
  <2>2. CASE freed = <<>>
    <3>1. e = <<remember, cur_snext>> /\ freed' = freed /\ sc_mstamp_alloc
      BY <2>2, Zenon DEF NextElement, sc_mempool_alloc
    <3>2. /\ e \in Element /\ ~IsUsed(e, remember, cur_snext)
          /\ remember' \in Nat \ {0} /\ cur_snext' \in 0 .. per_stamp - 1
          /\ IsUsed(e, remember', cur_snext')
          /\ \A d : IsUsed(d, remember, cur_snext) => IsUsed(d, remember', cur_snext')
      BY <1>1, <3>1, NewElement, Zenon
    <3>3. e \notin DOMAIN memory /\ e \in Seq(Nat) /\ e # None
      BY <1>1, <3>2, ElementAddress, Zenon
    <3>4. Divided(owner', freed', DOMAIN memory') /\ \A g \in Handle : owner[g] # e
      <4>1. /\ Divided([owner EXCEPT ![h] = e], freed, DOMAIN memory \cup {e})
            /\ \A g \in Handle : owner[g] # e
        BY <1>1, <1>2, <3>3, DividedNew, Zenon
      <4> QED
        BY <1>2, <1>4, <3>1, <4>1, Zenon
    <3>5. \A d \in DOMAIN memory' : IsUsed(d, remember', cur_snext') /\ memory'[d] \in Int
      BY <1>1, <1>4, <3>2, Zenon
    <3>6. PoolInv'
      BY <3>2, <3>4, <3>5, Zenon DEF PoolInv
    <3>7. Len(freed) = 0 /\ Len(freed') = 0
      BY <2>2, <3>1, Zenon
    <3> QED
      BY <1>2, <1>5, <3>3, <3>4, <3>6, <3>7 DEF Allocated
  <2> QED
    BY <2>1, <2>2, Zenon
<1>7. e # None
  BY <1>6, Zenon DEF Allocated
<1>8. Cardinality(Held') = Cardinality(Held) + 1
  <2>1. Held = Holders(owner) /\ Held' = Holders(owner')
    BY Zenon DEF Held, Holders
  <2> QED
    BY <2>1, <1>2, <1>3, <1>7, HoldersMore, Zenon
<1> QED
  BY <1>2, <1>6, <1>8

(* sc_mempool_free, with what its caller has left in the element.          *)
LEMMA FreeStep ==
  ASSUME PoolInv, pool_count \in Nat, pool_count = Cardinality(Held),
         NEW h \in Handle, sc_mempool_free(h), DOMAIN memory' = DOMAIN memory,
         \A d \in DOMAIN memory : memory'[d] \in Int
  PROVE  /\ PoolInv'
         /\ pool_count' \in Nat /\ pool_count' = Cardinality(Held')
         /\ pool_count' = pool_count - 1
         /\ owner[h] \in DOMAIN memory /\ owner[h] # None
         /\ owner' = [owner EXCEPT ![h] = None] /\ owner'[h] = None
         /\ \A g \in Handle : g # h => owner'[g] = owner[g]
         /\ Len(freed) \in Nat /\ Len(freed') = Len(freed) + 1
<1>1. /\ remember \in Nat \ {0} /\ cur_snext \in 0 .. per_stamp - 1
      /\ \A d \in DOMAIN memory : IsUsed(d, remember, cur_snext) /\ memory[d] \in Int
      /\ Divided(owner, freed, DOMAIN memory)
  BY Zenon DEF PoolInv
<1>2. /\ owner[h] # None /\ owner' = [owner EXCEPT ![h] = None]
      /\ pool_count' = pool_count - 1 /\ freed' = Append(freed, owner[h])
      /\ remember' = remember /\ cur_snext' = cur_snext
  BY Zenon DEF sc_mempool_free
<1>3. owner \in [Handle -> DOMAIN memory \cup {None}]
  BY <1>1, Zenon DEF Divided
<1>4. owner'[h] = None /\ \A g \in Handle : g # h => owner'[g] = owner[g]
  BY <1>2, <1>3, Zenon
<1>5. /\ Divided(owner', freed', DOMAIN memory')
      /\ owner[h] \in DOMAIN memory /\ Len(freed) \in Nat /\ Len(freed') = Len(freed) + 1
  BY <1>1, <1>2, DividedGive, Zenon
<1>6. PoolInv'
  BY <1>1, <1>2, <1>5, Zenon DEF PoolInv
<1>7. Cardinality(Held') = Cardinality(Held) - 1 /\ Cardinality(Held') \in Nat
  <2>1. Held = Holders(owner) /\ Held' = Holders(owner')
    BY Zenon DEF Held, Holders
  <2> QED
    BY <2>1, <1>2, <1>3, HoldersLess, HoldersFinite, Zenon
<1> QED
  BY <1>2, <1>4, <1>5, <1>6, <1>7, Zenon

(* sc_unique_counter_add gives a new element the next number, and a reused *)
(* one its own.                                                            *)
LEMMA AddStep ==
  ASSUME PoolInv, pool_count \in Nat, pool_count = Cardinality(Held), CounterInv,
         NEW h \in Handle, sc_unique_counter_add(h), NEW e, e = NextElement
  PROVE  /\ PoolInv'
         /\ pool_count' \in Nat /\ pool_count' = Cardinality(Held')
         /\ CounterInv'
         /\ Allocated(h, e)
<1> DEFINE y == Content(e)
           x == (IF y = 0 THEN pool_count + 1 ELSE y) + start_value - 1
<1>1. sc_mempool_alloc(h) /\ Write(e, x) /\ pool_count' = pool_count + 1
  BY Zenon DEF sc_unique_counter_add, sc_mempool_alloc
<1>2. \A d \in DOMAIN memory : memory[d] \in Int
  BY Zenon DEF PoolInv
<1>3. y \in Int
  BY <1>2 DEF Content
<1>4. start_value \in Int
  BY PoolsAssumption, Zenon
<1>5. x \in Int
  <2> HIDE DEF y
  <2> QED
    BY <1>3, <1>4
<1>6. PoolInv' /\ pool_count' \in Nat /\ pool_count' = Cardinality(Held') /\ Allocated(h, e)
  BY <1>1, <1>5, AllocStep, Zenon
<1>7. /\ DOMAIN memory' = DOMAIN memory \cup {e} /\ memory'[e] = x
      /\ \A d \in DOMAIN memory : d # e => memory'[d] = memory[d]
  BY <1>1, Written, Zenon
<1>8. /\ owner'[h] = e
      /\ \A g \in Handle : owner[g] # e
      /\ \A g \in Handle : g # h => owner'[g] = owner[g]
      /\ owner[h] = None
  BY <1>1, <1>6, Zenon DEF Allocated, sc_mempool_alloc
<1>9. ASSUME NEW d \in DOMAIN memory, d # e
      PROVE  Number(d, owner', memory') = Number(d, owner, memory)
  <2>1. owner[h] # d
    BY <1>8, Zenon DEF PoolInv, Divided
  <2>2. (\E g \in Handle : owner'[g] = d) <=> (\E g \in Handle : owner[g] = d)
    BY <1>8, <1>9, <2>1, Zenon
  <2> QED
    BY <1>7, <1>9, <2>2, Zenon DEF Number
<1>10. Number(e, owner', memory') = x - (start_value - 1)
  BY <1>7, <1>8, Zenon DEF Number
<1>11. Number(e, owner', memory') = (IF y = 0 THEN pool_count + 1 ELSE y)
  <2> HIDE DEF y
  <2> QED
    BY <1>3, <1>4, <1>10
<1> HIDE DEF x
<1>12. /\ \A d \in DOMAIN memory : Number(d, owner, memory) \in 1 .. pool_count + Len(freed)
       /\ \A c, d \in DOMAIN memory : Number(c, owner, memory) = Number(d, owner, memory) => c = d
  BY Zenon DEF CounterInv
<1>13. Len(freed) \in Nat /\ Len(freed') \in Nat
  BY <1>6, Zenon DEF Allocated
<1>14. CASE e \in DOMAIN memory
  <2>1. y = memory[e] /\ Number(e, owner, memory) = memory[e]
    BY <1>8, <1>14, Zenon DEF Content, Number
  <2>2. y # 0
    BY <1>12, <1>13, <1>14, <2>1
  <2>3. Number(e, owner', memory') = Number(e, owner, memory)
    BY <1>11, <2>1, <2>2, Zenon
  <2>4. DOMAIN memory' = DOMAIN memory
    BY <1>7, <1>14, Zenon
  <2>5. \A d \in DOMAIN memory : Number(d, owner', memory') = Number(d, owner, memory)
    BY <1>9, <2>3, Zenon
  <2>6. pool_count' + Len(freed') = pool_count + Len(freed)
    <3>1. Len(freed') = Len(freed) - 1
      BY <1>6, <1>14, Zenon DEF Allocated
    <3> QED
      BY <1>1, <1>13, <3>1
  <2> QED
    BY <1>6, <1>12, <2>4, <2>5, <2>6, Zenon DEF CounterInv
<1>15. CASE e \notin DOMAIN memory
  <2>1. y = 0
    BY <1>15, Zenon DEF Content
  <2>2. Number(e, owner', memory') = pool_count + 1
    BY <1>11, <2>1, Zenon
  <2>3. \A d \in DOMAIN memory : Number(d, owner', memory') = Number(d, owner, memory)
    BY <1>9, <1>15, Zenon
  <2>4. Len(freed) = 0 /\ Len(freed') = 0
    BY <1>6, <1>15, Zenon DEF Allocated
  <2>5. \A d \in DOMAIN memory : Number(d, owner', memory') \in 1 .. pool_count
    BY <1>12, <2>3, <2>4
  <2>6. \A d \in DOMAIN memory' : Number(d, owner', memory') \in 1 .. pool_count' + Len(freed')
    BY <1>1, <1>7, <2>2, <2>4, <2>5
  <2>7. ASSUME NEW c \in DOMAIN memory', NEW d \in DOMAIN memory',
               Number(c, owner', memory') = Number(d, owner', memory')
        PROVE  c = d
    <3>1. CASE c = e \/ d = e
      BY <1>7, <2>2, <2>5, <2>7, <3>1
    <3>2. CASE c # e /\ d # e
      BY <1>7, <1>12, <2>3, <2>7, <3>2, Zenon
    <3> QED
      BY <3>1, <3>2, Zenon
  <2> QED
    BY <1>6, <2>6, <2>7, Zenon DEF CounterInv
<1> QED
  BY <1>14, <1>15, Zenon

(* sc_unique_counter_release keeps the number in the element.              *)
LEMMA ReleaseStep ==
  ASSUME PoolInv, pool_count \in Nat, pool_count = Cardinality(Held), CounterInv,
         NEW h \in Handle, sc_unique_counter_release(h)
  PROVE  /\ PoolInv'
         /\ pool_count' \in Nat /\ pool_count' = Cardinality(Held')
         /\ CounterInv'
         /\ owner[h] # None /\ owner' = [owner EXCEPT ![h] = None]
<1>1. PICK e : e = owner[h]
  OBVIOUS
<1>2. sc_mempool_free(h) /\ Write(e, memory[e] - (start_value - 1))
  BY <1>1, Zenon DEF sc_unique_counter_release
<1>3. owner[h] # None /\ start_value \in Int
  BY <1>2, PoolsAssumption, Zenon DEF sc_mempool_free
<1>4. e \in DOMAIN memory /\ \A d \in DOMAIN memory : memory[d] \in Int
  BY <1>1, <1>3, Zenon DEF PoolInv, Divided
<1>5. /\ DOMAIN memory' = DOMAIN memory /\ memory'[e] = memory[e] - (start_value - 1)
      /\ \A d \in DOMAIN memory : d # e => memory'[d] = memory[d]
  BY <1>2, <1>4, Written, Zenon
<1>6. \A d \in DOMAIN memory : memory'[d] \in Int
  BY <1>3, <1>4, <1>5
<1>7. /\ PoolInv'
      /\ pool_count' \in Nat /\ pool_count' = Cardinality(Held') /\ pool_count' = pool_count - 1
      /\ owner' = [owner EXCEPT ![h] = None] /\ owner'[h] = None
      /\ \A g \in Handle : g # h => owner'[g] = owner[g]
      /\ Len(freed) \in Nat /\ Len(freed') = Len(freed) + 1
  BY <1>2, <1>5, <1>6, FreeStep, Zenon
<1>8. /\ None \notin DOMAIN memory
      /\ \A f, g \in Handle : owner[f] # None /\ owner[f] = owner[g] => f = g
  BY Zenon DEF PoolInv, Divided
<1>9. ASSUME NEW d \in DOMAIN memory
      PROVE  Number(d, owner', memory') = Number(d, owner, memory)
  <2>1. CASE d = e
    <3>1. ~\E g \in Handle : owner'[g] = d
      BY <1>1, <1>3, <1>7, <1>8, <2>1, Zenon
    <3> QED
      BY <1>1, <1>5, <2>1, <3>1, Zenon DEF Number
  <2>2. CASE d # e
    <3>1. (\E g \in Handle : owner'[g] = d) <=> (\E g \in Handle : owner[g] = d)
      BY <1>1, <1>7, <1>8, <2>2, Zenon
    <3> QED
      BY <1>5, <2>2, <3>1, Zenon DEF Number
  <2> QED
    BY <2>1, <2>2, Zenon
<1>10. pool_count' + Len(freed') = pool_count + Len(freed)
  BY <1>7
<1>11. CounterInv'
  BY <1>5, <1>9, <1>10, Zenon DEF CounterInv
<1> QED
  BY <1>3, <1>7, <1>11, Zenon

-----------------------------------------------------------------------------
(* A position in a box is an address, and determined by the box.           *)
LEMMA Boxes ==
  /\ \A p \in Nat : <<p>> \in Seq(Nat) /\ <<p>> # None /\ <<p>>[1] = p
  /\ \A p, q : <<p>> = <<q>> => p = q
<1>1. \A p \in Nat : <<p>> \in Seq(Nat) /\ Len(<<p>>) = 1 /\ <<p>>[1] = p
  OBVIOUS
<1>2. Len(<<>>) = 0
  OBVIOUS
<1>3. \A p, q : <<p>> = <<q>> => p = q
  OBVIOUS
<1> QED
  BY <1>1, <1>2, <1>3, Zenon DEF None

(* The positions made so far, and those made by one more.                  *)
LEMMA PositionsMore ==
  ASSUME NEW n \in Nat
  PROVE  Positions(n + 1) = Positions(n) \cup {<<n>>} /\ <<n>> \notin Positions(n)
<1>1. \A p : p \in 0 .. (n + 1) - 1 <=> p \in 0 .. n - 1 \/ p = n
  OBVIOUS
<1>2. n \notin 0 .. n - 1
  OBVIOUS
<1> QED
  BY <1>1, <1>2, Boxes DEF Positions

(* sc_recycle_array_insert takes a removed position, or makes one.         *)
LEMMA InsertStep ==
  ASSUME RecycleInv, pool_count \in Nat, pool_count = Cardinality(Held),
         NEW h \in Handle, sc_recycle_array_insert(h)
  PROVE  /\ RecycleInv'
         /\ pool_count' \in Nat /\ pool_count' = Cardinality(Held')
         /\ owner[h] = None
         /\ \E e \in Seq(Nat) : /\ owner' = [owner EXCEPT ![h] = e]
                                /\ \A g \in Handle : owner[g] # e
<1>1. /\ rec_a \in Nat /\ rec_f \in Seq(Nat)
      /\ Divided(owner, Boxed(rec_f), Positions(rec_a))
  BY Zenon DEF RecycleInv
<1>2. owner \in [Handle -> Positions(rec_a) \cup {None}]
  BY <1>1, Zenon DEF Divided
<1>3. owner[h] = None /\ pool_count' = pool_count + 1
  BY Zenon DEF sc_recycle_array_insert
<1>4. Len(Boxed(rec_f)) = Len(rec_f) /\ Len(rec_f) \in Nat /\ \A i \in 1 .. Len(rec_f) : Boxed(rec_f)[i] = <<rec_f[i]>>
  BY <1>1 DEF Boxed
<1>5. PICK e \in Seq(Nat) :
        /\ e # None
        /\ owner' = [owner EXCEPT ![h] = e]
        /\ \A g \in Handle : owner[g] # e
        /\ RecycleInv'
  <2>1. CASE rec_f # <<>>
    <3> DEFINE n == Len(rec_f)
               e == <<rec_f[n]>>
    <3>1. owner' = [owner EXCEPT ![h] = e] /\ rec_f' = SubSeq(rec_f, 1, n - 1) /\ rec_a' = rec_a
      BY <2>1, Zenon DEF sc_recycle_array_insert
    <3>2. n \in Nat \ {0} /\ rec_f[n] \in Nat
      BY <1>1, <2>1
    <3>3. Boxed(rec_f) # <<>> /\ Boxed(rec_f)[n] = e
      BY <1>4, <3>2
    <3>4. /\ Divided([owner EXCEPT ![h] = e], SubSeq(Boxed(rec_f), 1, n - 1), Positions(rec_a))
          /\ \A g \in Handle : owner[g] # e
      <4>1. /\ Divided([owner EXCEPT ![h] = Boxed(rec_f)[Len(Boxed(rec_f))]],
                       SubSeq(Boxed(rec_f), 1, Len(Boxed(rec_f)) - 1), Positions(rec_a))
            /\ \A g \in Handle : owner[g] # Boxed(rec_f)[Len(Boxed(rec_f))]
        BY <1>1, <1>3, <3>3, DividedTake, Zenon
      <4> QED
        BY <4>1, <1>4, <3>3, Zenon
    <3>5. Boxed(SubSeq(rec_f, 1, n - 1)) = SubSeq(Boxed(rec_f), 1, n - 1)
      BY <1>1, <1>4, <3>2 DEF Boxed
    <3>6. SubSeq(rec_f, 1, n - 1) \in Seq(Nat)
      BY <1>1, <3>2
    <3>7. RecycleInv'
      BY <1>1, <3>1, <3>4, <3>5, <3>6, Zenon DEF RecycleInv
    <3> QED
      BY <3>1, <3>2, <3>4, <3>7, Boxes, Zenon
  <2>2. CASE rec_f = <<>>
    <3> DEFINE e == <<rec_a>>
    <3>1. owner' = [owner EXCEPT ![h] = e] /\ rec_f' = rec_f /\ rec_a' = rec_a + 1
      BY <2>2, Zenon DEF sc_recycle_array_insert
    <3>2. e \notin Positions(rec_a) /\ e # None /\ Positions(rec_a + 1) = Positions(rec_a) \cup {e}
      BY <1>1, PositionsMore, Boxes, Zenon
    <3>3. /\ Divided([owner EXCEPT ![h] = e], Boxed(rec_f), Positions(rec_a) \cup {e})
          /\ \A g \in Handle : owner[g] # e
      BY <1>1, <1>3, <3>2, DividedNew, Zenon
    <3>4. RecycleInv'
      <4> HIDE DEF e
      <4>1. Divided(owner', Boxed(rec_f'), Positions(rec_a'))
        BY <3>1, <3>2, <3>3, Zenon
      <4>2. rec_a' \in Nat /\ rec_f' \in Seq(Nat)
        BY <1>1, <3>1
      <4> QED
        BY <4>1, <4>2, Zenon DEF RecycleInv
    <3> QED
      BY <1>1, <3>1, <3>3, <3>4, Boxes, Zenon
  <2> QED
    BY <2>1, <2>2, Zenon
<1>6. Cardinality(Held') = Cardinality(Held) + 1
  <2>1. Held = Holders(owner) /\ Held' = Holders(owner')
    BY Zenon DEF Held, Holders
  <2> QED
    BY <2>1, <1>2, <1>3, <1>5, HoldersMore, Zenon
<1>7. pool_count' \in Nat /\ pool_count' = Cardinality(Held')
  BY <1>3, <1>6
<1> QED
  BY <1>3, <1>5, <1>7, Zenon

(* sc_recycle_array_remove leaves the position to be reused.               *)
LEMMA RemoveStep ==
  ASSUME RecycleInv, pool_count \in Nat, pool_count = Cardinality(Held),
         NEW h \in Handle, sc_recycle_array_remove(h)
  PROVE  /\ RecycleInv'
         /\ pool_count' \in Nat /\ pool_count' = Cardinality(Held')
         /\ owner[h] # None /\ owner' = [owner EXCEPT ![h] = None]
<1>1. /\ rec_a \in Nat /\ rec_f \in Seq(Nat)
      /\ Divided(owner, Boxed(rec_f), Positions(rec_a))
  BY Zenon DEF RecycleInv
<1>2. owner \in [Handle -> Positions(rec_a) \cup {None}]
  BY <1>1, Zenon DEF Divided
<1>3. /\ owner[h] # None /\ pool_count' = pool_count - 1 /\ owner' = [owner EXCEPT ![h] = None]
      /\ rec_f' = Append(rec_f, owner[h][1]) /\ rec_a' = rec_a
  BY Zenon DEF sc_recycle_array_remove
<1>4. PICK p \in 0 .. rec_a - 1 : owner[h] = <<p>>
  BY <1>2, <1>3, Zenon DEF Positions
<1>5. p \in Nat /\ rec_f' = Append(rec_f, p)
  BY <1>1, <1>3, <1>4, Boxes
<1>6. Divided(owner', Append(Boxed(rec_f), <<p>>), Positions(rec_a))
  <2>1. Divided([owner EXCEPT ![h] = None], Append(Boxed(rec_f), owner[h]), Positions(rec_a))
    BY <1>1, <1>3, DividedGive, Zenon
  <2> QED
    BY <2>1, <1>3, <1>4, Zenon
<1>7. Boxed(Append(rec_f, p)) = Append(Boxed(rec_f), <<p>>) /\ Append(rec_f, p) \in Seq(Nat)
  BY <1>1, <1>5 DEF Boxed
<1>8. RecycleInv'
  BY <1>1, <1>3, <1>5, <1>6, <1>7, Zenon DEF RecycleInv
<1>9. Cardinality(Held') = Cardinality(Held) - 1 /\ Cardinality(Held') \in Nat
  <2>1. Held = Holders(owner) /\ Held' = Holders(owner')
    BY Zenon DEF Held, Holders
  <2> QED
    BY <2>1, <1>2, <1>3, HoldersLess, HoldersFinite, Zenon
<1> QED
  BY <1>3, <1>8, <1>9, Zenon

-----------------------------------------------------------------------------
FreshPool ==
  /\ remember = 1 /\ cur_snext = 0 /\ freed = <<>> /\ memory = <<>>
  /\ pool_count = 0 /\ owner = [h \in Handle |-> None]

FreshRecycle ==
  /\ rec_a = 0 /\ rec_f = <<>>
  /\ pool_count = 0 /\ owner = [h \in Handle |-> None]

CountOK == pool_count \in Nat /\ pool_count = Cardinality(Held)

(* Every container starts with no places, and does so again when it is     *)
(* truncated or reset.                                                     *)
LEMMA StartOver ==
  /\ FreshPool => PoolInv /\ CounterInv /\ CountOK
  /\ FreshRecycle => RecycleInv /\ CountOK
<1>1. ASSUME owner = [h \in Handle |-> None], pool_count = 0
      PROVE  CountOK
  <2>1. Held = Holders(owner)
    BY Zenon DEF Held, Holders
  <2> QED
    BY <1>1, <2>1, HoldersNone, Zenon DEF CountOK
<1>2. DOMAIN <<>> = {}
  OBVIOUS
<1>3. ASSUME remember = 1, cur_snext = 0, freed = <<>>, memory = <<>>,
             owner = [h \in Handle |-> None]
      PROVE  PoolInv /\ CounterInv
  BY <1>2, <1>3, DividedNone, PoolsAssumption DEF PoolInv, CounterInv
<1>4. ASSUME rec_a = 0, rec_f = <<>>, owner = [h \in Handle |-> None]
      PROVE  RecycleInv
  <2>1. Positions(0) = {}
    BY DEF Positions
  <2>2. Boxed(<<>>) = <<>>
    BY DEF Boxed
  <2>3. <<>> \in Seq(Nat) /\ 0 \in Nat
    OBVIOUS
  <2> QED
    BY <1>4, <2>1, <2>2, <2>3, DividedNone, Zenon DEF RecycleInv
<1> QED
  BY <1>1, <1>3, <1>4, Zenon DEF FreshPool, FreshRecycle

(* Each operation keeps the invariant and is one that an allocator may do. *)
LEMMA PoolsStep ==
  ASSUME PoolsInv, PoolsNext
  PROVE  PoolsInv' /\ Abstract!Next
<1>1. user \in {"pool", "counter", "recycle"} /\ pool_count \in Nat /\ pool_count = Cardinality(Held)
  BY Zenon DEF PoolsInv
<1>2. ASSUME NEW h \in Handle, owner[h] = None, NEW e \in Seq(Nat), owner' = [owner EXCEPT ![h] = e],
             \A g \in Handle : owner[g] # e, DOMAIN owner = Handle
      PROVE  Abstract!Next
  <2>1. owner'[h] = e
    BY <1>2, Zenon
  <2>2. Abstract!Alloc(h)
    BY <1>2, <2>1, Zenon DEF Abstract!Alloc, Abstract!None, None
  <2> QED
    BY <2>2, Zenon DEF Abstract!Next
<1>3. ASSUME NEW h \in Handle, owner[h] # None, owner' = [owner EXCEPT ![h] = None]
      PROVE  Abstract!Next
  BY <1>3, Zenon DEF Abstract!Next, Abstract!Free, Abstract!None, None
<1>4. ASSUME owner' = [h \in Handle |-> None] PROVE Abstract!Next
  BY <1>4, Zenon DEF Abstract!Next, Abstract!Clear, Abstract!None, None
<1>5. CASE user = "pool" /\ PoolNext /\ UNCHANGED <<user, rec_a, rec_f>>
  <2>1. PoolInv /\ DOMAIN owner = Handle
    BY <1>5, Zenon DEF PoolsInv, PoolInv, Divided
  <2>2. ASSUME NEW h \in Handle, sc_mempool_alloc(h), Write(NextElement, Content(NextElement))
        PROVE  PoolsInv' /\ Abstract!Next
    <3>1. PICK e : e = NextElement
      OBVIOUS
    <3>2. Content(NextElement) \in Int
      BY <2>1 DEF Content, PoolInv
    <3>3. PoolInv' /\ pool_count' \in Nat /\ pool_count' = Cardinality(Held') /\ Allocated(h, e)
      BY <1>1, <2>1, <2>2, <3>1, <3>2, AllocStep, Zenon
    <3>4. Abstract!Next
      BY <1>2, <2>1, <2>2, <3>3, Zenon DEF Allocated, sc_mempool_alloc
    <3> QED
      BY <1>5, <3>3, <3>4, Zenon DEF PoolsInv
  <2>3. ASSUME NEW h \in Handle, sc_mempool_free(h), UNCHANGED memory
        PROVE  PoolsInv' /\ Abstract!Next
    <3>1. \A d \in DOMAIN memory : memory'[d] \in Int
      BY <2>1, <2>3, Zenon DEF PoolInv
    <3>2. /\ PoolInv' /\ pool_count' \in Nat /\ pool_count' = Cardinality(Held')
          /\ owner[h] # None /\ owner' = [owner EXCEPT ![h] = None]
      BY <1>1, <2>1, <2>3, <3>1, FreeStep, Zenon
    <3> QED
      BY <1>3, <1>5, <3>2, Zenon DEF PoolsInv
  <2>4. ASSUME sc_mempool_truncate PROVE PoolsInv' /\ Abstract!Next
    <3>1. /\ remember' = 1 /\ cur_snext' = 0 /\ freed' = <<>> /\ memory' = <<>> /\ pool_count' = 0
          /\ owner' = [h \in Handle |-> None]
      BY <2>4, Zenon DEF sc_mempool_truncate
    <3>2. FreshPool'
      BY <3>1, Zenon DEF FreshPool
    <3>3. PoolInv' /\ CountOK'
      BY <3>2, StartOver, PTL
    <3> QED
      BY <1>4, <1>5, <3>1, <3>3, Zenon DEF PoolsInv, CountOK
  <2> QED
    BY <1>5, <2>2, <2>3, <2>4, Zenon DEF PoolNext
<1>6. CASE user = "counter" /\ CounterNext /\ UNCHANGED <<user, rec_a, rec_f>>
  <2>1. PoolInv /\ CounterInv /\ DOMAIN owner = Handle
    BY <1>6, Zenon DEF PoolsInv, PoolInv, Divided
  <2>2. ASSUME NEW h \in Handle, sc_unique_counter_add(h) PROVE PoolsInv' /\ Abstract!Next
    <3>1. PICK e : e = NextElement
      OBVIOUS
    <3>2. /\ PoolInv' /\ pool_count' \in Nat /\ pool_count' = Cardinality(Held')
          /\ CounterInv' /\ Allocated(h, e)
      BY <1>1, <2>1, <2>2, <3>1, AddStep, Zenon
    <3>3. Abstract!Next
      BY <1>2, <2>1, <2>2, <3>2, Zenon DEF Allocated, sc_unique_counter_add, sc_mempool_alloc
    <3> QED
      BY <1>6, <3>2, <3>3, Zenon DEF PoolsInv
  <2>3. ASSUME NEW h \in Handle, sc_unique_counter_release(h) PROVE PoolsInv' /\ Abstract!Next
    <3>1. /\ PoolInv' /\ pool_count' \in Nat /\ pool_count' = Cardinality(Held')
          /\ CounterInv' /\ owner[h] # None /\ owner' = [owner EXCEPT ![h] = None]
      BY <1>1, <2>1, <2>3, ReleaseStep, Zenon
    <3> QED
      BY <1>3, <1>6, <3>1, Zenon DEF PoolsInv
  <2> QED
    BY <1>6, <2>2, <2>3, Zenon DEF CounterNext
<1>7. CASE user = "recycle" /\ RecycleNext /\ UNCHANGED <<user, remember, cur_snext, freed, memory>>
  <2>1. RecycleInv /\ DOMAIN owner = Handle
    BY <1>7, Zenon DEF PoolsInv, RecycleInv, Divided
  <2>2. ASSUME NEW h \in Handle, sc_recycle_array_insert(h) PROVE PoolsInv' /\ Abstract!Next
    <3>1. /\ RecycleInv' /\ pool_count' \in Nat /\ pool_count' = Cardinality(Held')
          /\ owner[h] = None
          /\ \E e \in Seq(Nat) : /\ owner' = [owner EXCEPT ![h] = e]
                                 /\ \A g \in Handle : owner[g] # e
      BY <1>1, <2>1, <2>2, InsertStep, Zenon
    <3>2. Abstract!Next
      BY <1>2, <2>1, <3>1, Zenon
    <3> QED
      BY <1>7, <3>1, <3>2, Zenon DEF PoolsInv
  <2>3. ASSUME NEW h \in Handle, sc_recycle_array_remove(h) PROVE PoolsInv' /\ Abstract!Next
    <3>1. /\ RecycleInv' /\ pool_count' \in Nat /\ pool_count' = Cardinality(Held')
          /\ owner[h] # None /\ owner' = [owner EXCEPT ![h] = None]
      BY <1>1, <2>1, <2>3, RemoveStep, Zenon
    <3> QED
      BY <1>3, <1>7, <3>1, Zenon DEF PoolsInv
  <2>4. ASSUME sc_recycle_array_reset PROVE PoolsInv' /\ Abstract!Next
    <3>1. rec_a' = 0 /\ rec_f' = <<>> /\ pool_count' = 0 /\ owner' = [h \in Handle |-> None]
      BY <2>4, Zenon DEF sc_recycle_array_reset
    <3>2. FreshRecycle'
      BY <3>1, Zenon DEF FreshRecycle
    <3>3. RecycleInv' /\ CountOK'
      BY <3>2, StartOver, PTL
    <3> QED
      BY <1>4, <1>7, <3>1, <3>3, Zenon DEF PoolsInv, CountOK
  <2> QED
    BY <1>7, <2>2, <2>3, <2>4, Zenon DEF RecycleNext
<1> QED
  BY <1>5, <1>6, <1>7, Zenon DEF PoolsNext

(* The invariant holds initially.                                          *)
LEMMA PoolsStart == PoolsInit => PoolsInv
BY StartOver, Zenon DEF PoolsInit, PoolsInv, FreshPool, FreshRecycle, CountOK

(* The invariant holds in every state of the containers.                   *)
LEMMA PoolsInvariant == PoolsSpec => []PoolsInv
<1>1. ASSUME PoolsInv, UNCHANGED poolvars PROVE PoolsInv'
  BY <1>1, Zenon DEF poolvars, PoolsInv, PoolInv, CounterInv, RecycleInv, Held
<1>2. PoolsInv /\ [PoolsNext]_poolvars => PoolsInv'
  BY <1>1, PoolsStep, Zenon
<1> QED
  BY <1>2, PoolsStart, PTL DEF PoolsSpec

(* For any number of users, stamps and elements, each place that the       *)
(* memory pool or the recycle array has made is held once or free once,    *)
(* pool_count counts those held, and the numbers of the unique counters in *)
(* use differ and leave no gap.                                            *)
THEOREM PoolsSound == PoolsSpec => []PoolIsSound
<1>1. PoolsInv => PoolIsSound
  <2> SUFFICES ASSUME PoolsInv PROVE PoolIsSound
    OBVIOUS
  <2>1. pool_count \in Nat /\ pool_count = Cardinality(Held)
    BY Zenon DEF PoolsInv
  <2>2. CASE user = "recycle"
    <3>1. rec_a \in Nat /\ rec_f \in Seq(Nat) /\ Divided(owner, Boxed(rec_f), Positions(rec_a))
      BY <2>2, Zenon DEF PoolsInv, RecycleInv
    <3>2. /\ Len(Boxed(rec_f)) = Len(rec_f) /\ DOMAIN rec_f = 1 .. Len(rec_f)
          /\ \A i \in 1 .. Len(rec_f) : Boxed(rec_f)[i] = <<rec_f[i]>>
      BY <3>1 DEF Boxed
    <3>3. /\ \A g, h \in Held : owner[g] = owner[h] => g = h
          /\ \A i, j \in DOMAIN rec_f : <<rec_f[i]>> = <<rec_f[j]>> => i = j
          /\ \A h \in Held, i \in DOMAIN rec_f : owner[h] # <<rec_f[i]>>
      <4>1. \A g, h \in Held : owner[g] = owner[h] => g = h
        BY <3>1, Zenon DEF Divided, Held
      <4>2. \A i, j \in 1 .. Len(rec_f) : Boxed(rec_f)[i] = Boxed(rec_f)[j] => i = j
        BY <3>1, <3>2, Zenon DEF Divided
      <4>3. \A h \in Handle, i \in 1 .. Len(rec_f) : owner[h] # Boxed(rec_f)[i]
        BY <3>1, <3>2, Zenon DEF Divided
      <4>4. \A i, j \in DOMAIN rec_f : <<rec_f[i]>> = <<rec_f[j]>> => i = j
        BY <3>2, <4>2, Zenon
      <4>5. \A h \in Held, i \in DOMAIN rec_f : owner[h] # <<rec_f[i]>>
        BY <3>2, <4>3, Zenon DEF Held
      <4> QED
        BY <4>1, <4>4, <4>5, Zenon
    <3>4. ASSUME NEW p \in 0 .. rec_a - 1
          PROVE  (\E h \in Held : owner[h] = <<p>>) \/ \E i \in DOMAIN rec_f : rec_f[i] = p
      <4>1. <<p>> \in Positions(rec_a) /\ p \in Nat
        BY <3>1 DEF Positions
      <4>2. (\E h \in Handle : owner[h] = <<p>>) \/ \E i \in DOMAIN rec_f : <<rec_f[i]>> = <<p>>
        <5>1. (\E h \in Handle : owner[h] = <<p>>) \/ \E i \in 1 .. Len(Boxed(rec_f)) : Boxed(rec_f)[i] = <<p>>
          BY <3>1, <4>1, Zenon DEF Divided
        <5> QED
          BY <3>2, <5>1, Zenon
      <4> QED
        BY <4>1, <4>2, Boxes, Zenon DEF Held
    <3> QED
      BY <2>1, <2>2, <3>3, <3>4, Zenon DEF PoolIsSound, RecyclePartition
  <2>3. CASE user # "recycle"
    <3>1. PoolInv /\ Divided(owner, freed, DOMAIN memory)
      BY <2>3, Zenon DEF PoolsInv, PoolInv
    <3>2. DOMAIN freed = 1 .. Len(freed) /\ Len(freed) \in Nat
      BY <3>1 DEF Divided
    <3>3. PoolPartition
      BY <2>1, <3>1, <3>2, Zenon DEF PoolPartition, Divided, Held
    <3>4. ASSUME user = "counter" PROVE UniqueNumbers
      <4>1. CounterInv
        BY <3>4, Zenon DEF PoolsInv
      <4>2. ASSUME NEW h \in Held
            PROVE  /\ owner[h] \in DOMAIN memory /\ memory[owner[h]] \in Int
                   /\ Number(owner[h], owner, memory) = memory[owner[h]] - (start_value - 1)
        BY <3>1, Zenon DEF PoolInv, Divided, Held, Number
      <4>3. ASSUME NEW g \in Held, NEW h \in Held, memory[owner[g]] = memory[owner[h]]
            PROVE  g = h
        <5>1. owner[g] = owner[h]
          BY <4>1, <4>2, <4>3 DEF CounterInv
        <5> QED
          BY <5>1, <3>3, Zenon DEF PoolPartition
      <4>4. ASSUME NEW h \in Held
            PROVE  memory[owner[h]] \in start_value .. start_value + Cardinality(Held) + Len(freed) - 1
        <5>1. memory[owner[h]] - (start_value - 1) \in 1 .. pool_count + Len(freed)
          BY <4>1, <4>2 DEF CounterInv
        <5> QED
          BY <2>1, <3>2, <4>2, <5>1, PoolsAssumption
      <4> QED
        BY <4>3, <4>4, Zenon DEF UniqueNumbers
    <3> QED
      BY <2>3, <3>3, <3>4, Zenon DEF PoolIsSound
  <2> QED
    BY <2>2, <2>3, Zenon
<1> QED
  BY <1>1, PoolsInvariant, PTL

(* The memory pool, the unique counter and the recycle array implement an  *)
(* allocator: what they hand out is not in use by anyone, and stays with   *)
(* its user until that one gives it back or all are invalidated.           *)
THEOREM PoolsAllocate == PoolsSpec => ImplementsAllocator
<1>1. PoolsInit => Abstract!Init
  BY Zenon DEF PoolsInit, Abstract!Init, Abstract!None, None
<1>2. PoolsInv /\ [PoolsNext]_poolvars => [Abstract!Next]_owner
  BY PoolsStep, Zenon DEF poolvars
<1> QED
  BY <1>1, <1>2, PoolsInvariant, PTL DEF PoolsSpec, ImplementsAllocator, Abstract!Spec

=============================================================================
