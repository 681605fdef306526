--------------------------- MODULE Packages_proofs ---------------------------
(* Memory accounting with any number of threads and packages: no increment is *)
(* lost, leaks are reported exactly, and the table of packages is sound.      *)
EXTENDS Packages, FiniteSetTheorems, WellFoundedInduction, TLAPS

(* What is assumed of the constants.                                          *)
ThreadsOK == IsFiniteSet(Threads) /\ NoThread \notin Threads

Kinds == {"malloc", "free", "init", "unref", "log"}
Inside == {"read", "write", "unlock"}
Count == [mc : Int, fc : Int, rc : Int, abort : BOOLEAN]
Package == [reg : BOOLEAN, name : Names \cup {"", "libsc"}, indent : Int, mc : Int, fc : Int, rc : Int, abort : BOOLEAN]

Typed == /\ pthread \in BOOLEAN
         /\ alloc \in Nat /\ table \in [0 .. alloc - 1 -> Package] /\ dflt \in Count
         /\ Usable \subseteq DOMAIN live /\ DOMAIN refs = DOMAIN live /\ DOMAIN mutex = DOMAIN live
         /\ \A p \in DOMAIN live : live[p] \in Int /\ refs[p] \in Int
         /\ where \in [Threads -> {"idle", "lock"} \cup Inside]
         /\ op \in [Threads -> [kind : Kinds \cup {"none"}, pkg : Int, delta : 0 .. 1]]
         /\ tmp \in [Threads -> Int]

(* A thread in an operation uses a package that is there, and past the lock   *)
(* it has the mutex; nobody else changes a counter after it was read.         *)
WorkOK(t) == /\ where[t] = "idle" => op[t] = NoOp
             /\ where[t] # "idle" => op[t].kind \in Kinds /\ op[t].pkg \in Usable
             /\ op[t].kind \in {"free", "init", "unref"} => op[t].delta = 1
             /\ where[t] \in Inside /\ pthread => mutex[op[t].pkg] = t
             /\ where[t] = "write" /\ op[t].kind # "log" => tmp[t] = counters(op[t].pkg)[Field(op[t].kind)]
Alone == ~pthread => \A t, u \in Threads : where[t] # "idle" /\ where[u] # "idle" => t = u

(* The threads that have still to count an operation of a kind for p, and     *)
(* those that have counted but not freed yet.                                 *)
IsLate(t, p, k) == op[t].kind = k /\ op[t].pkg = p /\ op[t].delta = 1 /\ where[t] \in {"lock", "read", "write"}
IsFreeing(t, p) == op[t].kind = "free" /\ op[t].pkg = p /\ where[t] = "unlock"
Late(p, k) == {t \in Threads : IsLate(t, p, k)}
Freeing(p) == {t \in Threads : IsFreeing(t, p)}
ExactFor(p) == /\ counters(p).mc - counters(p).fc = live[p] - Cardinality(Late(p, "malloc")) - Cardinality(Freeing(p))
               /\ counters(p).rc = refs[p] - Cardinality(Late(p, "init")) + Cardinality(Late(p, "unref"))

AccountInv == Typed /\ Alone /\ (\A t \in Threads : WorkOK(t)) /\ \A p \in Usable : ExactFor(p)
TableInv == TableIsSound /\ LeaksAreReported
-----------------------------------------------------------------------------
(* Two sets that agree but for x differ in their number of elements by x.     *)
LEMMA OneElement ==
  ASSUME NEW S, NEW T, NEW x, IsFiniteSet(S), S \ {x} = T \ {x}
  PROVE  /\ Cardinality(S) \in Nat /\ IsFiniteSet(T) /\ Cardinality(T) \in Nat
         /\ Cardinality(T) = Cardinality(S) + (IF x \in T THEN 1 ELSE 0) - (IF x \in S THEN 1 ELSE 0)
<1> DEFINE R == S \ {x}
<1>1. IsFiniteSet(R) /\ Cardinality(R) = IF x \in S THEN Cardinality(S) - 1 ELSE Cardinality(S)
  BY FS_RemoveElement, Zenon
<1>2. IsFiniteSet(R \cup {x}) /\ Cardinality(R \cup {x}) = Cardinality(R) + 1
  BY <1>1, FS_AddElement, Zenon
<1>3. T = IF x \in T THEN R \cup {x} ELSE R
  OBVIOUS
<1>4. Cardinality(S) \in Nat /\ Cardinality(R) \in Nat /\ Cardinality(R \cup {x}) \in Nat
  BY <1>1, <1>2, FS_CardinalityType, Zenon
<1> HIDE DEF R
<1>5. CASE x \in T
  <2>1. T = R \cup {x}
    BY <1>3, <1>5, Zenon
  <2> QED
    BY <1>1, <1>2, <1>4, <1>5, <2>1
<1>6. CASE x \notin T
  <2>1. T = R
    BY <1>3, <1>6, Zenon
  <2> QED
    BY <1>1, <1>2, <1>4, <1>6, <2>1
<1> QED
  BY <1>5, <1>6, Zenon

(* So a step of thread t changes the numbers of threads by t alone.           *)
Bit(b) == IF b THEN 1 ELSE 0
LEMMA Counting ==
  ASSUME ThreadsOK, NEW t \in Threads, NEW p,
         \A u \in Threads \ {t} : op'[u] = op[u] /\ where'[u] = where[u]
  PROVE  /\ \A k : /\ Cardinality(Late(p, k)) \in Nat /\ Cardinality(Late(p, k))' \in Nat
                   /\ Cardinality(Late(p, k))' = Cardinality(Late(p, k)) + Bit(IsLate(t, p, k)') - Bit(IsLate(t, p, k))
         /\ Cardinality(Freeing(p)) \in Nat /\ Cardinality(Freeing(p))' \in Nat
         /\ Cardinality(Freeing(p))' = Cardinality(Freeing(p)) + Bit(IsFreeing(t, p)') - Bit(IsFreeing(t, p))
<1>1. \A k : /\ Late(p, k) \in SUBSET Threads /\ Late(p, k) \ {t} = Late(p, k)' \ {t}
             /\ t \in Late(p, k) <=> IsLate(t, p, k)
             /\ t \in Late(p, k)' <=> IsLate(t, p, k)'
  BY Zenon DEF Late, IsLate
<1>2. /\ Freeing(p) \in SUBSET Threads /\ Freeing(p) \ {t} = Freeing(p)' \ {t}
      /\ t \in Freeing(p) <=> IsFreeing(t, p)
      /\ t \in Freeing(p)' <=> IsFreeing(t, p)'
  BY Zenon DEF Freeing, IsFreeing
<1>3. IsFiniteSet(Freeing(p)) /\ \A k : IsFiniteSet(Late(p, k))
  BY <1>1, <1>2, FS_Subset, Zenon DEF ThreadsOK
<1>4. \A k : /\ Cardinality(Late(p, k)) \in Nat /\ Cardinality(Late(p, k)') \in Nat
             /\ Cardinality(Late(p, k)') = Cardinality(Late(p, k)) + (IF t \in Late(p, k)' THEN 1 ELSE 0) - (IF t \in Late(p, k) THEN 1 ELSE 0)
  <2> TAKE k
  <2> DEFINE S == Late(p, k)
             T == Late(p, k)'
  <2>1. IsFiniteSet(S) /\ S \ {t} = T \ {t}
    BY <1>1, <1>3, Zenon
  <2> HIDE DEF S, T
  <2>2. /\ Cardinality(S) \in Nat /\ Cardinality(T) \in Nat
        /\ Cardinality(T) = Cardinality(S) + (IF t \in T THEN 1 ELSE 0) - (IF t \in S THEN 1 ELSE 0)
    BY <2>1, OneElement, Zenon
  <2> QED
    BY <2>2, Zenon DEF S, T
<1>5. /\ Cardinality(Freeing(p)) \in Nat /\ Cardinality(Freeing(p)') \in Nat
      /\ Cardinality(Freeing(p)') = Cardinality(Freeing(p)) + (IF t \in Freeing(p)' THEN 1 ELSE 0) - (IF t \in Freeing(p) THEN 1 ELSE 0)
  <2> DEFINE S == Freeing(p)
             T == Freeing(p)'
  <2>1. IsFiniteSet(S) /\ S \ {t} = T \ {t}
    BY <1>2, <1>3, Zenon
  <2> HIDE DEF S, T
  <2>2. /\ Cardinality(S) \in Nat /\ Cardinality(T) \in Nat
        /\ Cardinality(T) = Cardinality(S) + (IF t \in T THEN 1 ELSE 0) - (IF t \in S THEN 1 ELSE 0)
    BY <2>1, OneElement, Zenon
  <2> QED
    BY <2>2, Zenon DEF S, T
<1> QED
  BY <1>1, <1>2, <1>4, <1>5, Zenon DEF Bit
(* Packages in use have counters, and so has the package -1.                  *)
LEMMA Usables ==
  ASSUME Typed, NEW p \in Usable
  PROVE  /\ p \in Int /\ p \in DOMAIN live /\ live[p] \in Int /\ refs[p] \in Int
         /\ p # -1 => p \in DOMAIN table /\ table[p].reg /\ table[p] \in Package
         /\ counters(p).mc \in Int /\ counters(p).fc \in Int /\ counters(p).rc \in Int
<1>1. p \in DOMAIN live /\ live[p] \in Int /\ refs[p] \in Int /\ alloc \in Nat
  BY Zenon DEF Typed
<1>2. CASE p = -1
  <2>1. dflt \in Count /\ counters(p) = dflt
    BY <1>2, Zenon DEF Typed, counters
  <2>2. dflt.mc \in Int /\ dflt.fc \in Int /\ dflt.rc \in Int
    BY <2>1, Zenon DEF Count
  <2> QED
    BY <1>1, <1>2, <2>1, <2>2
<1>3. CASE p # -1
  <2>1. p \in DOMAIN table /\ table[p].reg /\ table \in [0 .. alloc - 1 -> Package] /\ counters(p) = table[p]
    BY <1>3, Zenon DEF Typed, counters, Usable, Registered
  <2>2. p \in 0 .. alloc - 1 /\ table[p] \in Package
    BY <2>1, Zenon
  <2>3. p \in Int
    BY <1>1, <2>2
  <2>4. table[p].mc \in Int /\ table[p].fc \in Int /\ table[p].rc \in Int
    BY <2>2, Zenon DEF Package
  <2> QED
    BY <1>1, <2>1, <2>2, <2>3, <2>4, Zenon
<1> QED
  BY <1>2, <1>3, Zenon

(* One thread at a time is past the lock of a package.                        *)
LEMMA Exclusive ==
  ASSUME AccountInv, NEW t \in Threads, NEW u \in Threads,
         where[t] \in Inside, where[u] \in Inside, op[t].pkg = op[u].pkg
  PROVE  t = u
<1>1. WorkOK(t) /\ WorkOK(u) /\ Alone /\ pthread \in BOOLEAN
  BY Zenon DEF AccountInv, Typed
<1>2. CASE pthread
  BY <1>1, <1>2, Zenon DEF WorkOK
<1>3. CASE ~pthread
  <2>1. where[t] # "idle" /\ where[u] # "idle"
    BY Zenon DEF Inside
  <2> QED
    BY <1>1, <1>3, <2>1, Zenon DEF Alone
<1> QED
  BY <1>2, <1>3, Zenon

(* A step of thread t keeps the accounts if it changes them by what it        *)
(* begins or ends, and leaves mutexes and counters to others that use them.   *)
Owed(t, p) == Bit(IsLate(t, p, "malloc")) + Bit(IsFreeing(t, p))
OwedRefs(t, p) == Bit(IsLate(t, p, "init")) - Bit(IsLate(t, p, "unref"))
LEMMA StepOfThread ==
  ASSUME ThreadsOK, AccountInv, NEW t \in Threads, pthread' = pthread, Usable' = Usable,
         Typed', Alone', WorkOK(t)',
         \A u \in Threads \ {t} : op'[u] = op[u] /\ where'[u] = where[u] /\ tmp'[u] = tmp[u],
         \A u \in Threads \ {t} : where[u] \in Inside /\ pthread => mutex'[op[u].pkg] = mutex[op[u].pkg],
         \A u \in Threads \ {t} : where[u] = "write" => counters(op[u].pkg)' = counters(op[u].pkg),
         \A p \in Usable :
           /\ counters(p)'.mc - counters(p)'.fc - live'[p] + Owed(t, p)'
              = counters(p).mc - counters(p).fc - live[p] + Owed(t, p)
           /\ counters(p)'.rc - refs'[p] + OwedRefs(t, p)' = counters(p).rc - refs[p] + OwedRefs(t, p)
  PROVE  AccountInv'
<1>1. ASSUME NEW u \in Threads PROVE WorkOK(u)'
  <2>1. CASE u = t
    BY <2>1, Zenon
  <2>2. CASE u # t
    <3>1. WorkOK(u)
      BY Zenon DEF AccountInv
    <3>2. op'[u] = op[u] /\ where'[u] = where[u] /\ tmp'[u] = tmp[u]
      BY <2>2, Zenon
    <3>3. where[u] \in Inside /\ pthread => mutex'[op[u].pkg] = mutex[op[u].pkg]
      BY <2>2, Zenon
    <3>4. where[u] = "write" => counters(op[u].pkg)' = counters(op[u].pkg)
      BY <2>2, Zenon
    <3>5. counters(op[u].pkg)' = IF op[u].pkg = -1 THEN dflt' ELSE table'[op[u].pkg]
      BY <3>2, Zenon DEF counters
    <3> QED
      BY <3>1, <3>2, <3>3, <3>4, Zenon DEF WorkOK
  <2> QED
    BY <2>1, <2>2, Zenon
<1>2. ASSUME NEW p \in Usable PROVE ExactFor(p)'
  <2>1. /\ \A k : /\ Cardinality(Late(p, k)) \in Nat /\ Cardinality(Late(p, k))' \in Nat
                  /\ Cardinality(Late(p, k))' = Cardinality(Late(p, k)) + Bit(IsLate(t, p, k)') - Bit(IsLate(t, p, k))
        /\ Cardinality(Freeing(p)) \in Nat /\ Cardinality(Freeing(p))' \in Nat
        /\ Cardinality(Freeing(p))' = Cardinality(Freeing(p)) + Bit(IsFreeing(t, p)') - Bit(IsFreeing(t, p))
    BY Counting, Zenon
  <2>2. /\ counters(p).mc \in Int /\ counters(p).fc \in Int /\ counters(p).rc \in Int /\ live[p] \in Int /\ refs[p] \in Int
    BY Usables, Zenon DEF AccountInv
  <2>3. /\ counters(p)'.mc \in Int /\ counters(p)'.fc \in Int /\ counters(p)'.rc \in Int /\ live'[p] \in Int /\ refs'[p] \in Int
    <3>1. p \in Usable' /\ p \in Int
      BY Usables, Zenon DEF AccountInv
    <3>2. p \in DOMAIN live' /\ live'[p] \in Int /\ refs'[p] \in Int
      BY <3>1, Zenon DEF Typed
    <3>3. CASE p = -1
      <4>1. dflt' \in Count /\ counters(p)' = dflt'
        BY <3>3, Zenon DEF Typed, counters
      <4>2. dflt'.mc \in Int /\ dflt'.fc \in Int /\ dflt'.rc \in Int
        BY <4>1, Zenon DEF Count
      <4> QED
        BY <3>2, <4>1, <4>2, Zenon
    <3>4. CASE p # -1
      <4>1. p \in DOMAIN table' /\ table' \in [0 .. alloc' - 1 -> Package] /\ counters(p)' = table'[p]
        BY <3>1, <3>4, Zenon DEF Typed, counters, Usable, Registered
      <4>2. table'[p] \in Package
        BY <4>1, Zenon
      <4>3. table'[p].mc \in Int /\ table'[p].fc \in Int /\ table'[p].rc \in Int
        BY <4>2, Zenon DEF Package
      <4> QED
        BY <3>2, <4>1, <4>3, Zenon
    <3> QED
      BY <3>3, <3>4, Zenon
  <2>4. /\ Bit(IsLate(t, p, "malloc")) \in Int /\ Bit(IsLate(t, p, "malloc")') \in Int
        /\ Bit(IsFreeing(t, p)) \in Int /\ Bit(IsFreeing(t, p)') \in Int
        /\ Bit(IsLate(t, p, "init")) \in Int /\ Bit(IsLate(t, p, "init")') \in Int
        /\ Bit(IsLate(t, p, "unref")) \in Int /\ Bit(IsLate(t, p, "unref")') \in Int
    <3>1. \A b : Bit(b) \in {0, 1}
      BY Zenon DEF Bit
    <3>2. \A x \in {0, 1} : x \in Int
      OBVIOUS
    <3> QED
      BY <3>1, <3>2, Zenon
  <2>5. ExactFor(p)
    BY Zenon DEF AccountInv
  <2>6. counters(p)'.mc - counters(p)'.fc = live'[p] - Cardinality(Late(p, "malloc"))' - Cardinality(Freeing(p))'
    BY <2>1, <2>2, <2>3, <2>4, <2>5 DEF ExactFor, Owed
  <2>7. counters(p)'.rc = refs'[p] - Cardinality(Late(p, "init"))' + Cardinality(Late(p, "unref"))'
    BY <2>1, <2>2, <2>3, <2>4, <2>5 DEF ExactFor, OwedRefs
  <2> QED
    BY <2>6, <2>7, Zenon DEF ExactFor
<1> QED
  BY <1>1, <1>2, Zenon DEF AccountInv
(* With the table and the default counters, all of this stays the same.       *)
LEMMA TableStays ==
  ASSUME UNCHANGED <<table, dflt>>
  PROVE  /\ Usable' = Usable /\ Registered' = Registered /\ alloc' = alloc
         /\ \A p : counters(p)' = counters(p)
BY Zenon DEF Usable, Registered, alloc, counters

(* A thread begins an operation.                                              *)
LEMMA BeginStep ==
  ASSUME ThreadsOK, AccountInv, NEW t \in Threads, NEW p \in Usable, NEW k \in Kinds, NEW d \in 0 .. 1,
         Begin(t, k, p, d), k \in {"free", "init", "unref"} => d = 1,
         DOMAIN live' = DOMAIN live, DOMAIN refs' = DOMAIN refs,
         \A q \in DOMAIN live : /\ live'[q] = live[q] + (IF k = "malloc" /\ q = p THEN d ELSE 0)
                                /\ refs'[q] = refs[q] + (IF k = "init" /\ q = p THEN 1 ELSE 0) - (IF k = "unref" /\ q = p THEN 1 ELSE 0)
  PROVE  AccountInv'
<1> DEFINE o == [kind |-> k, pkg |-> p, delta |-> d]
<1>1. /\ where[t] = "idle" /\ pthread' = pthread /\ UNCHANGED <<table, dflt, mutex, tmp>> /\ (pthread \/ Idle)
      /\ op' = [op EXCEPT ![t] = o] /\ where' = [where EXCEPT ![t] = "lock"]
  BY Zenon DEF Begin
<1>2. Typed /\ WorkOK(t) /\ Alone
  BY Zenon DEF AccountInv
<1>3. Usable' = Usable /\ alloc' = alloc /\ \A q : counters(q)' = counters(q)
  BY <1>1, TableStays, Zenon
<1>4. p \in Int
  BY <1>2, Usables, Zenon
<1>5. /\ op \in [Threads -> [kind : Kinds \cup {"none"}, pkg : Int, delta : 0 .. 1]]
      /\ where \in [Threads -> {"idle", "lock"} \cup Inside] /\ op[t] = NoOp
  BY <1>1, <1>2, Zenon DEF Typed, WorkOK
<1>6. o.kind = k /\ o.pkg = p /\ o.delta = d /\ o \in [kind : Kinds \cup {"none"}, pkg : Int, delta : 0 .. 1]
  BY <1>4, Zenon
<1> HIDE DEF o
<1>7. /\ op'[t] = o /\ where'[t] = "lock" /\ \A u \in Threads \ {t} : op'[u] = op[u] /\ where'[u] = where[u]
      /\ op' \in [Threads -> [kind : Kinds \cup {"none"}, pkg : Int, delta : 0 .. 1]]
      /\ where' \in [Threads -> {"idle", "lock"} \cup Inside]
  BY <1>1, <1>5, <1>6, Zenon
<1>8. Typed'
  <2>1. \A q \in DOMAIN live : live'[q] \in Int /\ refs'[q] \in Int
    <3> TAKE q \in DOMAIN live
    <3>1. live[q] \in Int /\ refs[q] \in Int
      BY <1>2, Zenon DEF Typed
    <3> QED
      BY <3>1
  <2> QED
    BY <1>1, <1>2, <1>3, <1>7, <2>1, Zenon DEF Typed
<1>9. Alone'
  <2> SUFFICES ASSUME ~pthread PROVE Alone'
    BY <1>1, Zenon DEF Alone
  <2>1. \A u \in Threads \ {t} : where'[u] = "idle"
    BY <1>1, <1>7, Zenon DEF Idle
  <2> QED
    BY <2>1, Zenon DEF Alone
<1>10. WorkOK(t)'
  <2>1. where'[t] \notin Inside /\ where'[t] # "idle" /\ where'[t] # "write"
    BY <1>7, Zenon DEF Inside
  <2> QED
    BY <1>3, <1>6, <1>7, <2>1, Zenon DEF WorkOK
<1>11. ASSUME NEW q \in Usable
       PROVE  /\ counters(q)'.mc - counters(q)'.fc - live'[q] + Owed(t, q)'
                 = counters(q).mc - counters(q).fc - live[q] + Owed(t, q)
              /\ counters(q)'.rc - refs'[q] + OwedRefs(t, q)' = counters(q).rc - refs[q] + OwedRefs(t, q)
  <2>1. /\ counters(q).mc \in Int /\ counters(q).fc \in Int /\ counters(q).rc \in Int
        /\ q \in DOMAIN live /\ live[q] \in Int /\ refs[q] \in Int
    BY <1>2, Usables, Zenon
  <2>2. Owed(t, q) = 0 /\ OwedRefs(t, q) = 0
    BY <1>1 DEF Owed, OwedRefs, Bit, IsLate, IsFreeing
  <2>3. /\ Owed(t, q)' = IF k = "malloc" /\ q = p THEN d ELSE 0
        /\ OwedRefs(t, q)' = (IF k = "init" /\ q = p THEN 1 ELSE 0) - (IF k = "unref" /\ q = p THEN 1 ELSE 0)
    BY <1>6, <1>7 DEF Owed, OwedRefs, Bit, IsLate, IsFreeing
  <2>4. counters(q)' = counters(q)
    BY <1>3, Zenon
  <2> QED
    BY <2>1, <2>2, <2>3, <2>4
<1>12. tmp' = tmp /\ mutex' = mutex
  BY <1>1, Zenon
<1>13. \A u \in Threads \ {t} : where[u] = "write" => counters(op[u].pkg)' = counters(op[u].pkg)
  BY <1>1, <1>7, Zenon DEF counters
<1> QED
  BY <1>1, <1>3, <1>7, <1>8, <1>9, <1>10, <1>11, <1>12, <1>13, StepOfThread, Zenon

(* Every operation is begun like that.                                        *)
LEMMA OperationStep ==
  ASSUME ThreadsOK, AccountInv, NEW t \in Threads, NEW p \in Usable, Operation(t, p)
  PROVE  AccountInv' /\ UNCHANGED <<table, num, last>>
<1>1. Typed /\ p \in DOMAIN live /\ DOMAIN refs = DOMAIN live /\ \A q \in DOMAIN live : live[q] \in Int /\ refs[q] \in Int
  BY Zenon DEF AccountInv, Typed
<1> DEFINE Begun(k, d) ==
             /\ k \in {"free", "init", "unref"} => d = 1
             /\ DOMAIN live' = DOMAIN live /\ DOMAIN refs' = DOMAIN refs
             /\ \A q \in DOMAIN live :
                  /\ live'[q] = live[q] + (IF k = "malloc" /\ q = p THEN d ELSE 0)
                  /\ refs'[q] = refs[q] + (IF k = "init" /\ q = p THEN 1 ELSE 0) - (IF k = "unref" /\ q = p THEN 1 ELSE 0)
<1>2. SUFFICES \E k \in Kinds, d \in 0 .. 1 : Begin(t, k, p, d) /\ Begun(k, d)
  <2>1. PICK k \in Kinds, d \in 0 .. 1 : Begin(t, k, p, d) /\ Begun(k, d)
    BY <1>2, Zenon
  <2>2. AccountInv'
    BY <2>1, BeginStep, Zenon
  <2> QED
    BY <2>1, <2>2, Zenon DEF Begin
<1>3. CASE \E d \in 0 .. 1 : Begin(t, "malloc", p, d) /\ live' = [live EXCEPT ![p] = @ + d] /\ UNCHANGED refs
  <2> PICK d \in 0 .. 1 : Begin(t, "malloc", p, d) /\ live' = [live EXCEPT ![p] = @ + d] /\ UNCHANGED refs
    BY <1>3, Zenon
  <2>1. Begun("malloc", d)
    BY <1>1
  <2>2. "malloc" \in Kinds /\ d \in 0 .. 1
    BY Zenon DEF Kinds
  <2> QED
    BY <2>1, <2>2, Zenon
<1>4. CASE Begin(t, "free", p, 1) /\ UNCHANGED <<live, refs>>
  <2>1. Begun("free", 1)
    BY <1>1, <1>4
  <2>2. "free" \in Kinds /\ 1 \in 0 .. 1
    BY DEF Kinds
  <2> QED
    BY <1>4, <2>1, <2>2, Zenon
<1>5. CASE Begin(t, "log", p, 1) /\ UNCHANGED <<live, refs>>
  <2>1. Begun("log", 1)
    BY <1>1, <1>5
  <2>2. "log" \in Kinds /\ 1 \in 0 .. 1
    BY DEF Kinds
  <2> QED
    BY <1>5, <2>1, <2>2, Zenon
<1>6. CASE Begin(t, "init", p, 1) /\ refs' = [refs EXCEPT ![p] = @ + 1] /\ UNCHANGED live
  <2>1. Begun("init", 1)
    BY <1>1, <1>6
  <2>2. "init" \in Kinds /\ 1 \in 0 .. 1
    BY DEF Kinds
  <2> QED
    BY <1>6, <2>1, <2>2, Zenon
<1>7. CASE Begin(t, "unref", p, 1) /\ refs' = [refs EXCEPT ![p] = @ - 1] /\ UNCHANGED live
  <2>1. Begun("unref", 1)
    BY <1>1, <1>7
  <2>2. "unref" \in Kinds /\ 1 \in 0 .. 1
    BY DEF Kinds
  <2> QED
    BY <1>7, <2>1, <2>2, Zenon
<1>8. 1 \in 0 .. 1
  OBVIOUS
<1> QED
  BY <1>3, <1>4, <1>5, <1>6, <1>7, <1>8, Zenon
     DEF Operation, sc_malloc, sc_calloc, sc_strdup, sc_realloc, sc_free, sc_refcount_init, sc_refcount_unref, sc_log
(* A thread goes on within its operation.                                     *)
LEMMA Onward ==
  ASSUME Typed, NEW t \in Threads, NEW from, NEW to \in {"idle", "lock"} \cup Inside, At(t, from, to)
  PROVE  /\ where[t] = from /\ where'[t] = to /\ where' \in [Threads -> {"idle", "lock"} \cup Inside]
         /\ \A u \in Threads \ {t} : where'[u] = where[u]
         /\ UNCHANGED <<pthread, num, refs, last>>
         /\ from # "idle" /\ Alone => Alone'
<1>1. where \in [Threads -> {"idle", "lock"} \cup Inside]
  BY Zenon DEF Typed
<1>2. where' = [where EXCEPT ![t] = to] /\ where[t] = from /\ UNCHANGED <<pthread, num, refs, last>>
  BY Zenon DEF At
<1>3. where'[t] = to /\ \A u \in Threads \ {t} : where'[u] = where[u]
  BY <1>1, <1>2, Zenon
<1>4. where' \in [Threads -> {"idle", "lock"} \cup Inside]
  BY <1>1, <1>2, Zenon
<1>5. from # "idle" /\ Alone => Alone'
  BY <1>2, <1>3, Zenon DEF Alone
<1> QED
  BY <1>2, <1>3, <1>4, <1>5, Zenon

(* Locking: the mutex was free, so that no other thread is past it.           *)
LEMMA LockStep ==
  ASSUME ThreadsOK, AccountInv, NEW t \in Threads, sc_package_lock(t)
  PROVE  AccountInv' /\ UNCHANGED <<table, num, last>>
<1>1. /\ At(t, "lock", "read") /\ UNCHANGED <<table, dflt, op, tmp, live>>
      /\ IF pthread THEN mutex[op[t].pkg] = NoThread /\ mutex' = [mutex EXCEPT ![op[t].pkg] = t] ELSE UNCHANGED mutex
  BY Zenon DEF sc_package_lock
<1>2. Typed /\ Alone /\ \A u \in Threads : WorkOK(u)
  BY Zenon DEF AccountInv
<1>3. "read" \in {"idle", "lock"} \cup Inside /\ "read" \in Inside /\ "lock" # "idle" /\ "lock" \notin Inside
  BY Zenon DEF Inside
<1>4. /\ where[t] = "lock" /\ where'[t] = "read" /\ where' \in [Threads -> {"idle", "lock"} \cup Inside]
      /\ \A u \in Threads \ {t} : where'[u] = where[u]
      /\ UNCHANGED <<pthread, num, refs, last>> /\ Alone'
  BY <1>1, <1>2, <1>3, Onward, Zenon
<1>5. Usable' = Usable /\ alloc' = alloc /\ \A q : counters(q)' = counters(q)
  BY <1>1, TableStays, Zenon
<1>6. op[t].kind \in Kinds /\ op[t].pkg \in Usable /\ op[t].pkg \in DOMAIN mutex
  BY <1>2, <1>3, <1>4, Zenon DEF WorkOK, Typed
<1>7. /\ DOMAIN mutex' = DOMAIN mutex
      /\ pthread => mutex'[op[t].pkg] = t
      /\ \A u \in Threads \ {t} : where[u] \in Inside /\ pthread => mutex'[op[u].pkg] = mutex[op[u].pkg]
  <2>1. CASE pthread
    <3>1. mutex[op[t].pkg] = NoThread /\ mutex' = [mutex EXCEPT ![op[t].pkg] = t]
      BY <1>1, <2>1, Zenon
    <3>2. DOMAIN mutex' = DOMAIN mutex /\ mutex'[op[t].pkg] = t /\ \A q \in DOMAIN mutex \ {op[t].pkg} : mutex'[q] = mutex[q]
      BY <1>6, <3>1, Zenon
    <3>3. ASSUME NEW u \in Threads \ {t}, where[u] \in Inside PROVE mutex'[op[u].pkg] = mutex[op[u].pkg]
      <4>1. mutex[op[u].pkg] = u /\ u # NoThread
        BY <1>2, <2>1, <3>3, Zenon DEF WorkOK, ThreadsOK
      <4>2. op[u].pkg # op[t].pkg
        BY <3>1, <4>1, Zenon
      <4>3. where[u] # "idle"
        BY <3>3, Zenon DEF Inside
      <4>4. op[u].pkg \in DOMAIN mutex
        BY <1>2, <4>3, Zenon DEF WorkOK, Typed
      <4> QED
        BY <3>2, <4>2, <4>4, Zenon
    <3> QED
      BY <3>2, <3>3, Zenon
  <2>2. CASE ~pthread
    BY <1>1, <2>2, Zenon
  <2> QED
    BY <2>1, <2>2, Zenon
<1>8. Typed'
  BY <1>1, <1>2, <1>4, <1>5, <1>7, Zenon DEF Typed
<1>9. WorkOK(t)'
  <2>1. WorkOK(t) /\ "read" # "idle" /\ "read" # "write"
    BY <1>2, Zenon
  <2> QED
    BY <1>1, <1>4, <1>5, <1>6, <1>7, <2>1, Zenon DEF WorkOK
<1>10. \A q : Owed(t, q)' = Owed(t, q) /\ OwedRefs(t, q)' = OwedRefs(t, q)
  <2>1. \A q, k : IsLate(t, q, k)' <=> IsLate(t, q, k)
    BY <1>1, <1>4, Zenon DEF IsLate
  <2>2. "lock" # "unlock" /\ "read" # "unlock"
    OBVIOUS
  <2>3. \A q : IsFreeing(t, q)' <=> IsFreeing(t, q)
    BY <1>1, <1>4, <2>2, Zenon DEF IsFreeing
  <2> QED
    BY <2>1, <2>3, Zenon DEF Owed, OwedRefs, Bit
<1>11. ASSUME NEW q \in Usable
       PROVE  /\ counters(q)'.mc - counters(q)'.fc - live'[q] + Owed(t, q)'
                 = counters(q).mc - counters(q).fc - live[q] + Owed(t, q)
              /\ counters(q)'.rc - refs'[q] + OwedRefs(t, q)' = counters(q).rc - refs[q] + OwedRefs(t, q)
  BY <1>1, <1>4, <1>5, <1>10, Zenon
<1>12. \A u \in Threads \ {t} : where[u] = "write" => counters(op[u].pkg)' = counters(op[u].pkg)
  BY <1>1, Zenon DEF counters
<1>13. AccountInv'
  BY <1>1, <1>4, <1>5, <1>7, <1>8, <1>9, <1>11, <1>12, StepOfThread, Zenon
<1> QED
  BY <1>1, <1>4, <1>13, Zenon
(* The counter that an operation of a kind changes.                           *)
LEMMA Fields ==
  ASSUME Typed, NEW p \in Usable
  PROVE  \A k : /\ Field(k) \in {"mc", "fc", "rc"} /\ counters(p)[Field(k)] \in Int
                /\ Field(k) = "mc" <=> k = "malloc"
                /\ Field(k) = "fc" <=> k = "free"
<1> TAKE k
<1>1. Field(k) = IF k = "malloc" THEN "mc" ELSE IF k = "free" THEN "fc" ELSE "rc"
  BY Zenon DEF Field
<1>2. counters(p).mc \in Int /\ counters(p).fc \in Int /\ counters(p).rc \in Int
  BY Usables, Zenon
<1>3. counters(p)["mc"] \in Int /\ counters(p)["fc"] \in Int /\ counters(p)["rc"] \in Int
  BY <1>2, Zenon
<1>4. counters(p)[Field(k)] \in Int
  BY <1>1, <1>3, Zenon
<1>5. /\ Field(k) \in {"mc", "fc", "rc"}
      /\ Field(k) = "mc" <=> k = "malloc"
      /\ Field(k) = "fc" <=> k = "free"
  BY <1>1, Zenon
<1> QED
  BY <1>4, <1>5, Zenon

(* Steps under the mutex that change no counter.                              *)
LEMMA QuietStep ==
  ASSUME ThreadsOK, AccountInv, NEW t \in Threads, NEW from \in Inside, NEW to \in Inside, At(t, from, to),
         UNCHANGED <<table, dflt, mutex, op, live>>, tmp' \in [Threads -> Int],
         \A u \in Threads \ {t} : tmp'[u] = tmp[u],
         op[t].kind # "log" => /\ from # "unlock" /\ to # "unlock"
                               /\ to = "write" => tmp'[t] = counters(op[t].pkg)[Field(op[t].kind)]
  PROVE  AccountInv' /\ UNCHANGED <<table, num, last>>
<1>1. Typed /\ Alone /\ WorkOK(t)
  BY Zenon DEF AccountInv
<1>2. "idle" \notin Inside /\ Inside = {"read", "write", "unlock"}
  BY Zenon DEF Inside
<1>3. /\ where[t] = from /\ where'[t] = to /\ where' \in [Threads -> {"idle", "lock"} \cup Inside]
      /\ \A u \in Threads \ {t} : where'[u] = where[u]
      /\ UNCHANGED <<pthread, num, refs, last>> /\ Alone'
  <2>1. to \in {"idle", "lock"} \cup Inside /\ from # "idle"
    BY <1>2, Zenon
  <2> QED
    BY <1>1, <2>1, Onward, Zenon
<1>4. Usable' = Usable /\ alloc' = alloc /\ \A q : counters(q)' = counters(q)
  BY TableStays, Zenon
<1>5. Typed'
  BY <1>1, <1>3, <1>4, Zenon DEF Typed
<1>6. WorkOK(t)'
  <2>1. where[t] # "idle" /\ where'[t] # "idle"
    BY <1>2, <1>3, Zenon
  <2>2. counters(op[t].pkg)' = counters(op[t].pkg)
    BY Zenon DEF counters
  <2>3. op[t].kind \in Kinds /\ op[t].pkg \in Usable /\ (op[t].kind \in {"free", "init", "unref"} => op[t].delta = 1)
        /\ (pthread => mutex[op[t].pkg] = t)
    BY <1>1, <1>3, <2>1, Zenon DEF WorkOK
  <2> QED
    BY <1>3, <1>4, <2>1, <2>2, <2>3, Zenon DEF WorkOK
<1>7. \A q : Owed(t, q)' = Owed(t, q) /\ OwedRefs(t, q)' = OwedRefs(t, q)
  <2>1. CASE op[t].kind = "log"
    <3>1. "log" # "malloc" /\ "log" # "init" /\ "log" # "unref" /\ "log" # "free"
      OBVIOUS
    <3>2. \A q, k : k # "log" => ~IsLate(t, q, k) /\ ~IsLate(t, q, k)'
      BY <2>1, Zenon DEF IsLate
    <3>3. \A q : ~IsFreeing(t, q) /\ ~IsFreeing(t, q)'
      BY <2>1, <3>1, Zenon DEF IsFreeing
    <3> QED
      BY <3>1, <3>2, <3>3, Zenon DEF Owed, OwedRefs, Bit
  <2>2. CASE op[t].kind # "log"
    <3>1. from \in {"read", "write"} /\ to \in {"read", "write"}
      BY <1>2, <2>2, Zenon
    <3>2. \A q, k : IsLate(t, q, k)' <=> IsLate(t, q, k)
      BY <1>3, <3>1, Zenon DEF IsLate
    <3>3. \A q : ~IsFreeing(t, q) /\ ~IsFreeing(t, q)'
      BY <1>3, <2>2, Zenon DEF IsFreeing
    <3> QED
      BY <3>2, <3>3, Zenon DEF Owed, OwedRefs, Bit
  <2> QED
    BY <2>1, <2>2, Zenon
<1>8. ASSUME NEW q \in Usable
      PROVE  /\ counters(q)'.mc - counters(q)'.fc - live'[q] + Owed(t, q)'
                = counters(q).mc - counters(q).fc - live[q] + Owed(t, q)
             /\ counters(q)'.rc - refs'[q] + OwedRefs(t, q)' = counters(q).rc - refs[q] + OwedRefs(t, q)
  BY <1>3, <1>4, <1>7, Zenon
<1>9. \A u \in Threads \ {t} : where[u] = "write" => counters(op[u].pkg)' = counters(op[u].pkg)
  BY Zenon DEF counters
<1>10. AccountInv'
  BY <1>3, <1>4, <1>5, <1>6, <1>8, <1>9, StepOfThread, Zenon
<1> QED
  BY <1>3, <1>10, Zenon

(* Reading a counter, and the two parts of a message.                         *)
LEMMA ReadStep ==
  ASSUME ThreadsOK, AccountInv, NEW t \in Threads, Fetch(t) \/ sc_log_handler(t)
  PROVE  AccountInv' /\ UNCHANGED <<table, num, last>>
<1>1. Typed /\ WorkOK(t) /\ tmp \in [Threads -> Int]
  BY Zenon DEF AccountInv, Typed
<1>2. "read" \in Inside /\ "write" \in Inside /\ "unlock" \in Inside /\ "read" # "idle"
  BY Zenon DEF Inside
<1>3. CASE Fetch(t)
  <2>1. /\ op[t].kind # "log" /\ At(t, "read", "write") /\ UNCHANGED <<table, dflt, mutex, op, live>>
        /\ tmp' = [tmp EXCEPT ![t] = counters(op[t].pkg)[Field(op[t].kind)]]
    BY <1>3, Zenon DEF Fetch
  <2>2. where[t] = "read"
    BY <2>1, Zenon DEF At
  <2>3. op[t].pkg \in Usable
    BY <1>1, <1>2, <2>2, Zenon DEF WorkOK
  <2>4. counters(op[t].pkg)[Field(op[t].kind)] \in Int
    BY <1>1, <2>3, Fields, Zenon
  <2>5. /\ tmp' \in [Threads -> Int] /\ tmp'[t] = counters(op[t].pkg)[Field(op[t].kind)]
        /\ \A u \in Threads \ {t} : tmp'[u] = tmp[u]
    BY <1>1, <2>1, <2>4, Zenon
  <2>6. "read" # "unlock" /\ "write" # "unlock"
    OBVIOUS
  <2> QED
    BY <1>2, <2>1, <2>5, <2>6, QuietStep, Zenon
<1>4. CASE sc_log_handler(t)
  <2>1. \E from, to \in Inside : op[t].kind = "log" /\ At(t, from, to) /\ UNCHANGED <<table, dflt, mutex, op, tmp, live>>
    BY <1>2, <1>4, Zenon DEF sc_log_handler, LogPart
  <2>2. PICK from, to \in Inside : op[t].kind = "log" /\ At(t, from, to) /\ UNCHANGED <<table, dflt, mutex, op, tmp, live>>
    BY <2>1, Zenon
  <2> QED
    BY <1>1, <2>2, QuietStep, Zenon
<1> QED
  BY <1>3, <1>4, Zenon

(* Setting one counter of a package, or of the default.                       *)
Sets(c, f, v, d) == /\ d.mc = IF f = "mc" THEN v ELSE c.mc
                    /\ d.fc = IF f = "fc" THEN v ELSE c.fc
                    /\ d.rc = IF f = "rc" THEN v ELSE c.rc
                    /\ c \in Package => d \in Package /\ d.reg = c.reg /\ d.name = c.name
                    /\ c \in Count => d \in Count
LEMMA SetField ==
  ASSUME NEW c, NEW f \in {"mc", "fc", "rc"}, NEW v \in Int, c \in Package \/ c \in Count
  PROVE  Sets(c, f, v, [c EXCEPT ![f] = v])
<1>1. CASE f = "mc"
  BY <1>1, Zenon DEF Package, Count, Sets
<1>2. CASE f = "fc"
  BY <1>2, Zenon DEF Package, Count, Sets
<1>3. CASE f = "rc"
  BY <1>3, Zenon DEF Package, Count, Sets
<1> QED
  BY <1>1, <1>2, <1>3, Zenon

(* Writing the counter, which nobody has changed since it was read.           *)
LEMMA AddStep ==
  ASSUME ThreadsOK, AccountInv, NEW t \in Threads, sc_package_rc_count_add(t)
  PROVE  /\ AccountInv' /\ UNCHANGED <<num, last>>
         /\ DOMAIN table' = DOMAIN table
         /\ \A p \in DOMAIN table : table'[p].reg = table[p].reg /\ table'[p].name = table[p].name
<1> DEFINE p == op[t].pkg
           k == op[t].kind
           f == Field(k)
           v == tmp[t] + (IF k = "unref" THEN -1 ELSE op[t].delta)
<1>1. /\ k # "log" /\ At(t, "write", "unlock") /\ UNCHANGED <<mutex, op, tmp, live>>
      /\ IF p = -1 THEN dflt' = [dflt EXCEPT ![f] = v] /\ UNCHANGED table
         ELSE table' = [table EXCEPT ![p][f] = v] /\ UNCHANGED dflt
  BY Zenon DEF sc_package_rc_count_add
<1>2. Typed /\ Alone /\ WorkOK(t)
  BY Zenon DEF AccountInv
<1>3. "unlock" \in {"idle", "lock"} \cup Inside /\ "write" # "idle" /\ "write" \in Inside /\ "unlock" \in Inside
  BY Zenon DEF Inside
<1>4. /\ where[t] = "write" /\ where'[t] = "unlock" /\ where' \in [Threads -> {"idle", "lock"} \cup Inside]
      /\ \A u \in Threads \ {t} : where'[u] = where[u]
      /\ UNCHANGED <<pthread, num, refs, last>> /\ Alone'
  BY <1>1, <1>2, <1>3, Onward, Zenon
<1>5. /\ k \in Kinds /\ p \in Usable /\ (k \in {"free", "init", "unref"} => op[t].delta = 1)
      /\ tmp[t] = counters(p)[f] /\ (pthread => mutex[p] = t)
  BY <1>1, <1>2, <1>3, <1>4, Zenon DEF WorkOK
<1>6. /\ f \in {"mc", "fc", "rc"} /\ counters(p)[f] \in Int
      /\ f = "mc" <=> k = "malloc"
      /\ f = "fc" <=> k = "free"
  BY <1>2, <1>5, Fields, Zenon
<1>7. op[t].delta \in 0 .. 1 /\ v \in Int
  <2>1. op[t] \in [kind : Kinds \cup {"none"}, pkg : Int, delta : 0 .. 1]
    BY <1>2, Zenon DEF Typed
  <2>2. op[t].delta \in 0 .. 1
    BY <2>1, Zenon
  <2> QED
    BY <1>5, <1>6, <2>2
<1> DEFINE c == counters(p)
           d == [c EXCEPT ![f] = v]
<1>8. /\ p # -1 => c \in Package /\ p \in DOMAIN table
      /\ p = -1 => c \in Count
      /\ c.mc \in Int /\ c.fc \in Int /\ c.rc \in Int
  <2>1. /\ p # -1 => p \in DOMAIN table /\ table[p] \in Package
        /\ c.mc \in Int /\ c.fc \in Int /\ c.rc \in Int
    BY <1>2, <1>5, Usables, Zenon
  <2> QED
    BY <1>2, <2>1, Zenon DEF counters, Typed
<1> HIDE DEF f, v
<1>9. /\ d.mc = IF f = "mc" THEN v ELSE c.mc
      /\ d.fc = IF f = "fc" THEN v ELSE c.fc
      /\ d.rc = IF f = "rc" THEN v ELSE c.rc
      /\ c \in Package => d \in Package /\ d.reg = c.reg /\ d.name = c.name
      /\ c \in Count => d \in Count
  <2> HIDE DEF c
  <2>1. c \in Package \/ c \in Count
    BY <1>8, Zenon
  <2>2. f \in {"mc", "fc", "rc"} /\ v \in Int
    BY <1>6, <1>7, Zenon
  <2>3. Sets(c, f, v, d)
    BY <2>1, <2>2, SetField, Zenon
  <2> HIDE DEF d
  <2> QED
    BY <2>3, Zenon DEF Sets
<1>10. /\ p = -1 => dflt' = d /\ table' = table
       /\ p # -1 => dflt' = dflt /\ table' = [table EXCEPT ![p] = d]
  BY <1>1, Zenon DEF counters
<1> HIDE DEF c, d
<1>11. /\ DOMAIN table' = DOMAIN table /\ alloc' = alloc /\ dflt' \in Count
       /\ table' \in [0 .. alloc - 1 -> Package]
       /\ \A q \in DOMAIN table : /\ table'[q].reg = table[q].reg /\ table'[q].name = table[q].name
                                  /\ q # p => table'[q] = table[q]
  <2>1. table \in [0 .. alloc - 1 -> Package] /\ dflt \in Count
    BY <1>2, Zenon DEF Typed
  <2>2. CASE p = -1
    BY <1>8, <1>9, <1>10, <2>1, <2>2, Zenon DEF alloc
  <2>3. CASE p # -1
    <3>1. /\ d \in Package /\ d.reg = table[p].reg /\ d.name = table[p].name /\ p \in DOMAIN table
      BY <1>8, <1>9, <2>3, Zenon DEF c, counters
    <3>2. DOMAIN table' = DOMAIN table /\ table'[p] = d /\ \A q \in DOMAIN table \ {p} : table'[q] = table[q]
      BY <1>10, <2>3, <3>1, Zenon
    <3>3. table' \in [0 .. alloc - 1 -> Package]
      BY <1>10, <2>1, <2>3, <3>1, Zenon
    <3> QED
      BY <1>10, <2>1, <2>3, <3>1, <3>2, <3>3, Zenon DEF alloc
  <2> QED
    BY <2>2, <2>3, Zenon
<1>12. Usable' = Usable
  <2>1. Registered' = Registered
    BY <1>11, Zenon DEF Registered
  <2> QED
    BY <2>1, Zenon DEF Usable
<1>13. \A q \in Usable : counters(q)' = IF q = p THEN d ELSE counters(q)
  <2> TAKE q \in Usable
  <2>1. q # -1 => q \in DOMAIN table
    BY Zenon DEF Usable, Registered
  <2>2. CASE q = -1
    BY <1>10, <2>2, Zenon DEF counters
  <2>3. CASE q # -1
    <3>1. CASE q = p
      <4>1. table' = [table EXCEPT ![q] = d]
        BY <1>10, <2>3, <3>1, Zenon
      <4>2. table'[q] = d
        BY <2>1, <2>3, <4>1, Zenon
      <4> QED
        BY <2>3, <3>1, <4>2, Zenon DEF counters
    <3>2. CASE q # p
      BY <1>11, <2>1, <2>3, <3>2, Zenon DEF counters
    <3> QED
      BY <3>1, <3>2, Zenon
  <2> QED
    BY <2>2, <2>3, Zenon
<1>14. Typed'
  BY <1>1, <1>2, <1>4, <1>11, <1>12, Zenon DEF Typed
<1>15. WorkOK(t)'
  <2>1. "unlock" # "idle" /\ "unlock" # "write"
    OBVIOUS
  <2> QED
    BY <1>1, <1>4, <1>5, <1>12, <2>1, Zenon DEF WorkOK
<1>16. ASSUME NEW q \in Usable
       PROVE  /\ counters(q)'.mc - counters(q)'.fc - live'[q] + Owed(t, q)'
                 = counters(q).mc - counters(q).fc - live[q] + Owed(t, q)
              /\ counters(q)'.rc - refs'[q] + OwedRefs(t, q)' = counters(q).rc - refs[q] + OwedRefs(t, q)
  <2>1. /\ live'[q] = live[q] /\ refs'[q] = refs[q] /\ live[q] \in Int /\ refs[q] \in Int
        /\ op'[t] = op[t]
    BY <1>1, <1>2, <1>4, Usables, Zenon
  <2>2. CASE q # p
    <3>1. counters(q)' = counters(q)
      BY <1>13, <2>2, Zenon
    <3>2. Owed(t, q) = 0 + 0 /\ OwedRefs(t, q) = 0 - 0 /\ Owed(t, q)' = 0 + 0 /\ OwedRefs(t, q)' = 0 - 0
      BY <2>1, <2>2, Zenon DEF Owed, OwedRefs, Bit, IsLate, IsFreeing
    <3> QED
      BY <2>1, <3>1, <3>2, Zenon
  <2>3. CASE q = p
    <3>1. /\ Owed(t, q)' = IF k = "free" THEN 1 ELSE 0
          /\ OwedRefs(t, q)' = 0
      BY <1>4, <2>1, <2>3 DEF Owed, OwedRefs, Bit, IsLate, IsFreeing
    <3>2. /\ Owed(t, q) = IF k = "malloc" THEN op[t].delta ELSE 0
          /\ OwedRefs(t, q) = IF k = "init" THEN 1 ELSE IF k = "unref" THEN -1 ELSE 0
      BY <1>4, <1>5, <1>7, <2>3 DEF Owed, OwedRefs, Bit, IsLate, IsFreeing
    <3>3. /\ counters(q)' = d /\ counters(q) = c
      BY <1>13, <2>3, Zenon DEF c
    <3>4. v = (IF f = "mc" THEN c.mc ELSE IF f = "fc" THEN c.fc ELSE c.rc) + (IF k = "unref" THEN -1 ELSE op[t].delta)
      <4>1. c["mc"] = c.mc /\ c["fc"] = c.fc /\ c["rc"] = c.rc
        OBVIOUS
      <4>2. c[f] = IF f = "mc" THEN c.mc ELSE IF f = "fc" THEN c.fc ELSE c.rc
        BY <1>6, <4>1, Zenon
      <4>3. v = c[f] + (IF k = "unref" THEN -1 ELSE op[t].delta)
        BY <1>5, Zenon DEF c, v
      <4> QED
        BY <4>2, <4>3, Zenon
    <3> HIDE DEF k
    <3>5. k \in {"malloc", "free", "init", "unref"}
      BY <1>1, <1>5, Zenon DEF Kinds
    <3>6. f = "rc" <=> k \in {"init", "unref"}
      BY <1>6, <3>5, Zenon
    <3>7. d.mc - d.fc - live[q] + Owed(t, q)' = c.mc - c.fc - live[q] + Owed(t, q)
      BY <1>5, <1>6, <1>7, <1>8, <1>9, <2>1, <3>1, <3>2, <3>4, <3>5, <3>6
    <3>8. d.rc - refs[q] + OwedRefs(t, q)' = c.rc - refs[q] + OwedRefs(t, q)
      BY <1>5, <1>6, <1>7, <1>8, <1>9, <2>1, <3>1, <3>2, <3>4, <3>5, <3>6
    <3> QED
      BY <2>1, <3>3, <3>7, <3>8, Zenon
  <2> QED
    BY <2>2, <2>3, Zenon
<1>17. ASSUME NEW u \in Threads \ {t}, where[u] = "write" PROVE counters(op[u].pkg)' = counters(op[u].pkg)
  <2>1. op[u].pkg \in Usable /\ op[u].pkg # p
    <3>1. WorkOK(u) /\ where[u] # "idle"
      BY <1>3, <1>17, Zenon DEF AccountInv
    <3> QED
      BY <1>3, <1>4, <1>17, <3>1, Exclusive, Zenon DEF WorkOK
  <2>2. op'[u] = op[u]
    BY <1>1, Zenon
  <2>3. \A q \in Usable : q # p => counters(q)' = counters(q)
    BY <1>13, Zenon
  <2> QED
    BY <2>1, <2>2, <2>3, Zenon DEF counters
<1>18. \A u \in Threads \ {t} : op'[u] = op[u] /\ where'[u] = where[u] /\ tmp'[u] = tmp[u]
  BY <1>1, <1>4, Zenon
<1>19. AccountInv'
  BY <1>1, <1>4, <1>12, <1>14, <1>15, <1>16, <1>17, <1>18, StepOfThread, Zenon
<1> QED
  BY <1>4, <1>11, <1>19, Zenon
(* Unlocking, after which sc_free frees the memory.                           *)
LEMMA UnlockStep ==
  ASSUME ThreadsOK, AccountInv, NEW t \in Threads, sc_package_unlock(t)
  PROVE  AccountInv' /\ UNCHANGED <<table, num, last>>
<1> DEFINE p == op[t].pkg
           k == op[t].kind
<1>1. /\ At(t, "unlock", "idle") /\ UNCHANGED <<table, dflt>>
      /\ mutex' = IF pthread THEN [mutex EXCEPT ![p] = NoThread] ELSE mutex
      /\ live' = IF k = "free" THEN [live EXCEPT ![p] = @ - 1] ELSE live
      /\ tmp' = [tmp EXCEPT ![t] = 0] /\ op' = [op EXCEPT ![t] = NoOp]
  BY Zenon DEF sc_package_unlock
<1>2. Typed /\ Alone /\ WorkOK(t)
  BY Zenon DEF AccountInv
<1>3. "idle" \in {"idle", "lock"} \cup Inside /\ "unlock" # "idle" /\ "unlock" \in Inside
  BY Zenon DEF Inside
<1>4. /\ where[t] = "unlock" /\ where'[t] = "idle" /\ where' \in [Threads -> {"idle", "lock"} \cup Inside]
      /\ \A u \in Threads \ {t} : where'[u] = where[u]
      /\ UNCHANGED <<pthread, num, refs, last>> /\ Alone'
  BY <1>1, <1>2, <1>3, Onward, Zenon
<1>5. Usable' = Usable /\ alloc' = alloc /\ \A q : counters(q)' = counters(q)
  BY <1>1, TableStays, Zenon
<1>6. p \in Usable /\ p \in DOMAIN live /\ p \in DOMAIN mutex
  BY <1>2, <1>3, <1>4, Zenon DEF WorkOK, Typed
<1>7. /\ DOMAIN live' = DOMAIN live
      /\ \A q \in DOMAIN live : live[q] \in Int /\ live'[q] = live[q] - (IF k = "free" /\ q = p THEN 1 ELSE 0)
  <2>1. \A q \in DOMAIN live : live[q] \in Int
    BY <1>2, Zenon DEF Typed
  <2>2. CASE k = "free"
    <3>1. live' = [live EXCEPT ![p] = @ - 1]
      BY <1>1, <2>2, Zenon
    <3> QED
      BY <1>6, <2>1, <2>2, <3>1
  <2>3. CASE k # "free"
    <3>1. live' = live
      BY <1>1, <2>3, Zenon
    <3> QED
      BY <2>1, <2>3, <3>1
  <2> QED
    BY <2>2, <2>3, Zenon
<1>8. /\ op' \in [Threads -> [kind : Kinds \cup {"none"}, pkg : Int, delta : 0 .. 1]] /\ op'[t] = NoOp
      /\ tmp' \in [Threads -> Int] /\ \A u \in Threads \ {t} : op'[u] = op[u] /\ tmp'[u] = tmp[u]
  <2>1. NoOp \in [kind : Kinds \cup {"none"}, pkg : Int, delta : 0 .. 1] /\ 0 \in Int
    BY DEF NoOp
  <2>2. /\ op \in [Threads -> [kind : Kinds \cup {"none"}, pkg : Int, delta : 0 .. 1]] /\ tmp \in [Threads -> Int]
    BY <1>2, Zenon DEF Typed
  <2> QED
    BY <1>1, <2>1, <2>2, Zenon
<1>9. /\ DOMAIN mutex' = DOMAIN mutex
      /\ \A u \in Threads \ {t} : where[u] \in Inside /\ pthread => mutex'[op[u].pkg] = mutex[op[u].pkg]
  <2>1. CASE pthread
    <3>1. DOMAIN mutex' = DOMAIN mutex /\ \A q \in DOMAIN mutex \ {p} : mutex'[q] = mutex[q]
      BY <1>1, <2>1, Zenon
    <3>2. ASSUME NEW u \in Threads \ {t}, where[u] \in Inside PROVE mutex'[op[u].pkg] = mutex[op[u].pkg]
      <4>1. op[u].pkg # p
        BY <1>3, <1>4, <3>2, Exclusive, Zenon
      <4>2. where[u] # "idle"
        BY <3>2, Zenon DEF Inside
      <4>3. op[u].pkg \in DOMAIN mutex
        BY <1>2, <4>2, Zenon DEF AccountInv, WorkOK, Typed
      <4> QED
        BY <3>1, <4>1, <4>3, Zenon
    <3> QED
      BY <3>1, <3>2, Zenon
  <2>2. CASE ~pthread
    BY <1>1, <2>2, Zenon
  <2> QED
    BY <2>1, <2>2, Zenon
<1>10. Typed'
  <2>1. \A q \in DOMAIN live : live'[q] \in Int
    BY <1>7
  <2> QED
    BY <1>1, <1>2, <1>4, <1>5, <1>7, <1>8, <1>9, <2>1, Zenon DEF Typed
<1>11. WorkOK(t)'
  <2>1. NoOp.kind = "none" /\ "none" \notin {"free", "init", "unref"} /\ "idle" \notin Inside /\ "idle" # "write"
    BY Zenon DEF NoOp, Inside
  <2> QED
    BY <1>4, <1>8, <2>1, Zenon DEF WorkOK
<1>12. ASSUME NEW q \in Usable
       PROVE  /\ counters(q)'.mc - counters(q)'.fc - live'[q] + Owed(t, q)'
                 = counters(q).mc - counters(q).fc - live[q] + Owed(t, q)
              /\ counters(q)'.rc - refs'[q] + OwedRefs(t, q)' = counters(q).rc - refs[q] + OwedRefs(t, q)
  <2>1. /\ counters(q).mc \in Int /\ counters(q).fc \in Int /\ q \in DOMAIN live
    BY <1>2, Usables, Zenon
  <2>2. Owed(t, q) = IF k = "free" /\ q = p THEN 1 ELSE 0
    BY <1>4 DEF Owed, Bit, IsLate, IsFreeing
  <2>3. OwedRefs(t, q) = 0 /\ OwedRefs(t, q)' = 0 /\ Owed(t, q)' = 0
    BY <1>4 DEF Owed, OwedRefs, Bit, IsLate, IsFreeing
  <2>4. counters(q)' = counters(q) /\ refs' = refs
    BY <1>4, <1>5, Zenon
  <2>5. live[q] \in Int /\ live'[q] = live[q] - (IF k = "free" /\ q = p THEN 1 ELSE 0)
    BY <1>7, <2>1, Zenon
  <2> HIDE DEF k, p
  <2>6. counters(q).mc - counters(q).fc - live'[q] + 0 = counters(q).mc - counters(q).fc - live[q] + Owed(t, q)
    BY <2>1, <2>2, <2>5
  <2> QED
    BY <2>3, <2>4, <2>6, Zenon
<1>13. \A u \in Threads \ {t} : where[u] = "write" => counters(op[u].pkg)' = counters(op[u].pkg)
  BY <1>1, <1>8, Zenon DEF counters
<1>14. AccountInv'
  BY <1>4, <1>5, <1>8, <1>9, <1>10, <1>11, <1>12, <1>13, StepOfThread, Zenon
<1> QED
  BY <1>1, <1>4, <1>14, Zenon

-----------------------------------------------------------------------------
(* The table changes while no thread is at work.  Then the counters are those *)
(* of memory and references in use, and the checks tell whether any are left. *)
LEMMA IdleExact ==
  ASSUME AccountInv, Idle
  PROVE  \A p \in Usable :
           /\ counters(p).mc - counters(p).fc = live[p] /\ counters(p).rc = refs[p]
           /\ sc_memory_check_noabort(counters(p)) \in Nat
           /\ sc_memory_check_noabort(counters(p)) > 0 <=> Leaked(p)
<1> TAKE p \in Usable
<1>1. ExactFor(p) /\ Typed
  BY Zenon DEF AccountInv
<1>2. "idle" \notin {"lock", "read", "write"} /\ "idle" # "unlock"
  OBVIOUS
<1>3. Late(p, "malloc") = {} /\ Late(p, "init") = {} /\ Late(p, "unref") = {} /\ Freeing(p) = {}
  BY <1>2, Zenon DEF Late, Freeing, IsLate, IsFreeing, Idle
<1>4. Cardinality({}) = 0
  BY FS_EmptySet, Zenon
<1>5. /\ counters(p).mc \in Int /\ counters(p).fc \in Int /\ counters(p).rc \in Int /\ live[p] \in Int /\ refs[p] \in Int
  BY <1>1, Usables, Zenon
<1>6. counters(p).mc - counters(p).fc = live[p] /\ counters(p).rc = refs[p]
  <2>1. /\ counters(p).mc - counters(p).fc = live[p] - 0 - 0 /\ counters(p).rc = refs[p] - 0 + 0
    BY <1>1, <1>3, <1>4, Zenon DEF ExactFor
  <2> QED
    BY <1>5, <2>1
<1> QED
  BY <1>5, <1>6 DEF sc_memory_check_noabort, Leaked

(* So a change keeps the accounts if the counters agree afterwards.           *)
LEMMA ChangeStep ==
  ASSUME AccountInv, Idle, UNCHANGED <<pthread, where, op, tmp>>, Typed',
         \A p \in Usable' : counters(p)'.mc - counters(p)'.fc = live'[p] /\ counters(p)'.rc = refs'[p]
  PROVE  AccountInv'
<1>1. "idle" \notin {"lock", "read", "write"} /\ "idle" # "unlock" /\ "idle" \notin Inside /\ "idle" # "write"
  BY Zenon DEF Inside
<1>2. Alone' /\ \A t \in Threads : WorkOK(t)'
  BY <1>1, Zenon DEF AccountInv, Idle, Alone, WorkOK
<1>3. ASSUME NEW p \in Usable' PROVE ExactFor(p)'
  <2>1. Late(p, "malloc")' = {} /\ Late(p, "init")' = {} /\ Late(p, "unref")' = {} /\ Freeing(p)' = {}
    BY <1>1, Zenon DEF Late, Freeing, IsLate, IsFreeing, Idle
  <2>2. Cardinality({}) = 0
    BY FS_EmptySet, Zenon
  <2>3. p \in DOMAIN live' /\ live'[p] \in Int /\ refs'[p] \in Int
    BY Zenon DEF Typed
  <2>4. live'[p] = live'[p] - 0 - 0 /\ refs'[p] = refs'[p] - 0 + 0
    BY <2>3
  <2> QED
    BY <2>1, <2>2, <2>4, Zenon DEF ExactFor
<1> QED
  BY <1>2, <1>3, Zenon DEF AccountInv
(* A nonempty set of natural numbers has a least element.                     *)
LEMMA LeastNat ==
  ASSUME NEW S \in SUBSET Nat, S # {}
  PROVE  \E m \in S : \A k \in S : m <= k
<1> DEFINE R == {x \in Nat \X Nat : x[1] < x[2]}
<1>1. IsWellFoundedOn(R, Nat)
  BY NatLessThanWellFounded, Zenon DEF OpToRel
<1>2. \A x, y \in Nat : y < x => <<y, x>> \in R
  OBVIOUS
<1> HIDE DEF R
<1>3. PICK m \in S : \A y \in S : ~ (<<y, m>> \in R)
  BY <1>1, WFMin, Zenon
<1>4. ASSUME NEW k \in S PROVE m <= k
  <2>1. m \in Nat /\ k \in Nat
    OBVIOUS
  <2>2. ~(k < m)
    BY <2>1, <1>2, <1>3, Zenon
  <2> QED
    BY <2>1, <2>2
<1> QED
  BY <1>4, Zenon

(* The number of slots of a table.                                            *)
LEMMA Slots ==
  ASSUME NEW n \in Nat
  PROVE  Cardinality(0 .. n - 1) = n /\ IsFiniteSet(0 .. n - 1)
<1>1. 0 \in Int /\ n - 1 \in Int
  OBVIOUS
<1>2. IsFiniteSet(0 .. n - 1) /\ Cardinality(0 .. n - 1) = IF 0 > n - 1 THEN 0 ELSE n - 1 - 0 + 1
  BY <1>1, FS_Interval, Zenon
<1> QED
  BY <1>2

(* A new package has its name and no counts.                                  *)
New(name) == [Unused EXCEPT !.reg = TRUE, !.name = name, !.abort = TRUE]
LEMMA NewPackage ==
  ASSUME NEW name \in Names \cup {"libsc"}
  PROVE  /\ New(name) \in Package /\ New(name).reg /\ Unused \in Package /\ ~Unused.reg
         /\ New(name).name = name /\ New(name).mc = 0 /\ New(name).fc = 0 /\ New(name).rc = 0
<1>1. Unused \in Package /\ ~Unused.reg
  BY DEF Unused, Package
<1>2. name \in Names \cup {"", "libsc"}
  BY Zenon
<1>3. [Unused EXCEPT !.reg = TRUE, !.name = name, !.abort = TRUE] \in Package
  BY <1>1, <1>2, Zenon DEF Package
<1>4. New(name).reg /\ New(name).name = name /\ New(name).mc = 0 /\ New(name).fc = 0 /\ New(name).rc = 0
  BY Zenon DEF New, Unused
<1> QED
  BY <1>1, <1>3, <1>4, Zenon DEF New

(* A package is put into the first slot that is not used, or into the first   *)
(* of those that are added.                                                   *)
LEMMA FirstUnused ==
  ASSUME Typed, NEW name \in Names \cup {"libsc"}
  PROVE  LET r == Registering(name) IN
         /\ r.id \in Nat /\ r.id \notin Registered /\ 0 .. r.id - 1 \subseteq Registered
         /\ \E n \in Nat : r.table \in [0 .. n - 1 -> Package] /\ r.id \in 0 .. n - 1
         /\ r.table[r.id] = New(name) /\ New(name).reg
         /\ \A p \in DOMAIN r.table \ {r.id} : IF p \in DOMAIN table THEN r.table[p] = table[p] ELSE ~r.table[p].reg
         /\ DOMAIN table \subseteq DOMAIN r.table
<1> DEFINE free == {p \in DOMAIN table : ~table[p].reg}
           id == IF free = {} THEN alloc ELSE CHOOSE p \in free : \A q \in free : p <= q
           old == IF free = {} THEN Grown ELSE table
           new == [old EXCEPT ![id] = New(name)]
<1>1. Registering(name).id = id /\ Registering(name).table = new
  BY Zenon DEF Registering, New
<1>2. alloc \in Nat /\ table \in [0 .. alloc - 1 -> Package]
  BY Zenon DEF Typed
<1>3. New(name) \in Package /\ New(name).reg /\ Unused \in Package /\ ~Unused.reg
  BY NewPackage, Zenon
<1>4. free \in SUBSET Nat
  BY <1>2
<1>5. DOMAIN table = 0 .. alloc - 1 /\ Registered = DOMAIN table \ free
  BY <1>2, Zenon DEF Registered
<1>6. CASE free = {}
  <2>1. id = alloc /\ old = Grown
    BY <1>6, Zenon
  <2>2. /\ Grown \in [0 .. 2 * alloc -> Package]
        /\ \A p \in 0 .. 2 * alloc : Grown[p] = IF p \in DOMAIN table THEN table[p] ELSE Unused
    BY <1>2, <1>3, Zenon DEF Grown
  <2>3. alloc \in 0 .. 2 * alloc /\ alloc \notin DOMAIN table /\ DOMAIN table \subseteq 0 .. 2 * alloc
    BY <1>2, <1>5
  <2>4. /\ new \in [0 .. 2 * alloc -> Package] /\ new[id] = New(name)
        /\ \A p \in 0 .. 2 * alloc : p # id => new[p] = IF p \in DOMAIN table THEN table[p] ELSE Unused
    BY <1>3, <2>1, <2>2, <2>3, Zenon
  <2>5. 2 * alloc + 1 \in Nat /\ (2 * alloc + 1) - 1 = 2 * alloc
    BY <1>2
  <2>6. id \notin Registered /\ 0 .. id - 1 \subseteq Registered /\ id \in Nat
    BY <1>2, <1>5, <1>6, <2>1, <2>3, Zenon
  <2> HIDE DEF free, id, old, new
  <2>7. \E n \in Nat : new \in [0 .. n - 1 -> Package] /\ id \in 0 .. n - 1
    BY <2>1, <2>3, <2>4, <2>5, Zenon
  <2>8. DOMAIN new = 0 .. 2 * alloc
    BY <2>4, Zenon
  <2> QED
    BY <1>1, <1>3, <2>3, <2>4, <2>6, <2>7, <2>8, Zenon
<1>7. CASE free # {}
  <2>1. PICK m \in free : \A q \in free : m <= q
    BY <1>4, <1>7, LeastNat, Zenon
  <2>2. id \in free /\ \A q \in free : id <= q
    BY <1>7, <2>1, Zenon
  <2>3. old = table /\ id \in 0 .. alloc - 1 /\ id \in Nat
    BY <1>4, <1>5, <1>7, <2>2, Zenon
  <2> HIDE DEF id
  <2>4. 0 .. id - 1 \subseteq DOMAIN table
    BY <1>2, <1>5, <2>3
  <2>5. \A p \in 0 .. id - 1 : p \notin free
    <3>1. \A p \in 0 .. id - 1 : ~(id <= p)
      BY <2>3
    <3> QED
      BY <2>2, <3>1, Zenon
  <2>6. /\ new \in [0 .. alloc - 1 -> Package] /\ new[id] = New(name)
        /\ \A p \in 0 .. alloc - 1 : p # id => new[p] = table[p]
    BY <1>2, <1>3, <2>3, Zenon
  <2>7. id \notin Registered /\ 0 .. id - 1 \subseteq Registered
    BY <1>5, <2>2, <2>4, <2>5, Zenon
  <2> HIDE DEF free, old, new
  <2>8. DOMAIN new = 0 .. alloc - 1
    BY <2>6, Zenon
  <2> QED
    BY <1>1, <1>2, <1>3, <1>5, <2>3, <2>6, <2>7, <2>8, Zenon
<1> QED
  BY <1>6, <1>7, Zenon
(* Registered packages are finitely many.                                     *)
LEMMA Finitely ==
  ASSUME Typed
  PROVE  IsFiniteSet(Registered) /\ Cardinality(Registered) \in Nat
<1>1. IsFiniteSet(0 .. alloc - 1) /\ DOMAIN table = 0 .. alloc - 1
  BY Slots, Zenon DEF Typed
<1>2. Registered \in SUBSET (0 .. alloc - 1)
  BY <1>1, Zenon DEF Registered
<1> QED
  BY <1>1, <1>2, FS_Subset, FS_CardinalityType, Zenon

(* Steps that keep names and registrations keep the table sound.              *)
LEMMA TableKept ==
  ASSUME TableInv, DOMAIN table' = DOMAIN table, UNCHANGED <<num, last>>,
         \A p \in DOMAIN table : table'[p].reg = table[p].reg /\ table'[p].name = table[p].name
  PROVE  TableInv'
<1>1. Registered' = Registered /\ \A p \in Registered : table'[p].name = table[p].name
  BY Zenon DEF Registered
<1>2. \A p, q \in Registered : table[p].name = table[q].name => p = q
  BY Zenon DEF TableInv, TableIsSound
<1>3. ASSUME NEW p \in Registered, NEW q \in Registered, table'[p].name = table'[q].name PROVE p = q
  <2>1. table[p].name = table[q].name
    BY <1>1, <1>3, Zenon
  <2> QED
    BY <1>2, <2>1, Zenon
<1> QED
  BY <1>1, <1>3, Zenon DEF TableInv, TableIsSound, LeaksAreReported

(* A change that keeps the names, the registrations and num, with an outcome  *)
(* that reports no leak falsely.                                              *)
LEMMA SameNames ==
  ASSUME TableInv, DOMAIN table' = DOMAIN table, num' = num,
         \A p \in DOMAIN table : table'[p].reg = table[p].reg /\ table'[p].name = table[p].name,
         last'.call # "register" \/ last'.abort, LeaksAreReported'
  PROVE  TableInv'
<1>1. Registered' = Registered /\ \A p \in Registered : table'[p].name = table[p].name
  BY Zenon DEF Registered
<1>2. num = Cardinality(Registered) /\ \A p, q \in Registered : table[p].name = table[q].name => p = q
  BY Zenon DEF TableInv, TableIsSound
<1>3. ASSUME NEW p \in Registered, NEW q \in Registered, table'[p].name = table'[q].name PROVE p = q
  <2>1. table[p].name = table[q].name
    BY <1>1, <1>3, Zenon
  <2> QED
    BY <1>2, <2>1, Zenon
<1> QED
  BY <1>1, <1>2, <1>3, Zenon DEF TableInv, TableIsSound

(* sc_package_register and sc_init.                                           *)
LEMMA RegisterStep ==
  ASSUME AccountInv, TableInv, NEW name \in Names \cup {"libsc"}, sc_package_register(name)
  PROVE  AccountInv' /\ TableInv'
<1>1. Typed
  BY Zenon DEF AccountInv
<1>2. CASE \E p \in Registered : table[p].name = name
  <2>1. /\ Change(Outcome("register", -1, 0, TRUE)) /\ UNCHANGED <<table, num, dflt, mutex, live, refs>>
    BY <1>2, Zenon DEF sc_package_register
  <2>2. Idle /\ UNCHANGED <<pthread, where, op, tmp>> /\ last' = Outcome("register", -1, 0, TRUE)
    BY <2>1, Zenon DEF Change
  <2>3. Usable' = Usable /\ alloc' = alloc /\ \A q : counters(q)' = counters(q)
    BY <2>1, TableStays, Zenon
  <2>4. Typed'
    BY <1>1, <2>1, <2>2, <2>3, Zenon DEF Typed
  <2>5. AccountInv'
    BY <2>1, <2>2, <2>3, <2>4, IdleExact, ChangeStep, Zenon
  <2>6. last'.call = "register" /\ last'.abort
    BY <2>2, Zenon DEF Outcome
  <2>7. LeaksAreReported'
    BY <2>6, Zenon DEF LeaksAreReported
  <2> QED
    BY <2>1, <2>5, <2>6, <2>7, SameNames, Zenon
<1>3. CASE ~ \E p \in Registered : table[p].name = name
  <2> DEFINE r == Registering(name)
             id == r.id
  <2>1. /\ Change(Outcome("register", id, 0, FALSE)) /\ table' = r.table /\ num' = num + 1 /\ dflt' = dflt
        /\ mutex' = With(mutex, id, NoThread) /\ live' = With(live, id, 0) /\ refs' = With(refs, id, 0)
    BY <1>3, Zenon DEF sc_package_register
  <2>2. Idle /\ UNCHANGED <<pthread, where, op, tmp>> /\ last' = Outcome("register", id, 0, FALSE)
    BY <2>1, Zenon DEF Change
  <2>3. /\ id \in Nat /\ id \notin Registered /\ 0 .. id - 1 \subseteq Registered
        /\ \E n \in Nat : table' \in [0 .. n - 1 -> Package] /\ id \in 0 .. n - 1
        /\ table'[id] = New(name) /\ New(name).reg
        /\ \A p \in DOMAIN table' \ {id} : IF p \in DOMAIN table THEN table'[p] = table[p] ELSE ~table'[p].reg
        /\ DOMAIN table \subseteq DOMAIN table'
    BY <1>1, <2>1, FirstUnused, Zenon
  <2> HIDE DEF id, r
  <2>4. PICK n \in Nat : table' \in [0 .. n - 1 -> Package] /\ id \in 0 .. n - 1
    BY <2>3, Zenon
  <2>5. DOMAIN table' = 0 .. n - 1 /\ alloc' = n /\ id \in DOMAIN table'
    BY <2>4, Slots, Zenon DEF alloc
  <2>6. Registered' = Registered \cup {id} /\ \A p \in Registered : table'[p] = table[p] /\ p # id
    BY <2>3, <2>5, Zenon DEF Registered
  <2>7. /\ DOMAIN live' = {id} \cup DOMAIN live /\ DOMAIN refs' = {id} \cup DOMAIN live /\ DOMAIN mutex' = {id} \cup DOMAIN live
        /\ live'[id] = 0 /\ refs'[id] = 0 /\ \A p \in DOMAIN live \ {id} : live'[p] = live[p] /\ refs'[p] = refs[p]
    BY <1>1, <2>1, Zenon DEF With, Typed
  <2>8. Usable' = Usable \cup {id}
    BY <2>6, Zenon DEF Usable
  <2>9. Typed'
    <3>1. \A p \in DOMAIN live : live[p] \in Int /\ refs[p] \in Int
      BY <1>1, Zenon DEF Typed
    <3>2. \A p \in DOMAIN live' : live'[p] \in Int /\ refs'[p] \in Int
      BY <2>7, <3>1
    <3> QED
      BY <1>1, <2>1, <2>2, <2>4, <2>5, <2>7, <2>8, <3>2, Zenon DEF Typed
  <2>10. id # -1
    BY <2>3
  <2>11. ASSUME NEW p \in Usable'
         PROVE  counters(p)'.mc - counters(p)'.fc = live'[p] /\ counters(p)'.rc = refs'[p]
    <3>1. CASE p = id
      <4>1. counters(p)' = New(name)
        BY <2>3, <2>10, <3>1, Zenon DEF counters
      <4>2. New(name).mc = 0 /\ New(name).fc = 0 /\ New(name).rc = 0
        BY NewPackage, Zenon
      <4>3. 0 - 0 = 0
        OBVIOUS
      <4> QED
        BY <2>7, <3>1, <4>1, <4>2, <4>3, Zenon
    <3>2. CASE p # id
      <4>1. p \in Usable
        BY <2>8, <3>2, Zenon
      <4>2. counters(p)' = counters(p)
        BY <2>1, <2>6, <4>1, Zenon DEF counters, Usable
      <4>3. live'[p] = live[p] /\ refs'[p] = refs[p]
        BY <1>1, <2>7, <3>2, <4>1, Zenon DEF Typed
      <4> QED
        BY <2>2, <4>1, <4>2, <4>3, IdleExact, Zenon
    <3> QED
      BY <3>1, <3>2, Zenon
  <2>12. AccountInv'
    BY <2>2, <2>9, <2>11, ChangeStep, Zenon
  <2>13. num' = Cardinality(Registered') /\ IsFiniteSet(Registered') /\ num' \in Nat
    <3>1. num = Cardinality(Registered) /\ IsFiniteSet(Registered) /\ Cardinality(Registered) \in Nat
      BY <1>1, Finitely, Zenon DEF TableInv, TableIsSound
    <3>2. IsFiniteSet(Registered \cup {id}) /\ Cardinality(Registered \cup {id}) = Cardinality(Registered) + 1
      BY <2>3, <3>1, FS_AddElement, Zenon
    <3> QED
      BY <2>1, <2>6, <3>1, <3>2
  <2>14. \A p, q \in Registered' : table'[p].name = table'[q].name => p = q
    <3>1. table'[id].name = name
      BY <2>3, NewPackage, Zenon
    <3>2. \A p, q \in Registered : table[p].name = table[q].name => p = q
      BY Zenon DEF TableInv, TableIsSound
    <3>3. \A p \in Registered : table'[p].name = table[p].name /\ table[p].name # name
      BY <1>3, <2>6, Zenon
    <3>4. ASSUME NEW p \in Registered \cup {id}, NEW q \in Registered \cup {id}, table'[p].name = table'[q].name PROVE p = q
      <4>1. CASE p = id
        <5>1. q \notin Registered
          BY <3>1, <3>3, <3>4, <4>1, Zenon
        <5> QED
          BY <4>1, <5>1, Zenon
      <4>2. CASE q = id
        <5>1. p \notin Registered
          BY <3>1, <3>3, <3>4, <4>2, Zenon
        <5> QED
          BY <4>2, <5>1, Zenon
      <4>3. CASE p \in Registered /\ q \in Registered
        <5>1. table[p].name = table[q].name
          BY <3>3, <3>4, <4>3, Zenon
        <5> QED
          BY <3>2, <4>3, <5>1, Zenon
      <4> QED
        BY <4>1, <4>2, <4>3, Zenon
    <3> QED
      BY <2>6, <3>4, Zenon
  <2>15. id < num'
    <3>1. 0 .. id \in SUBSET Registered'
      BY <2>3, <2>6
    <3>2. id + 1 \in Nat /\ (id + 1) - 1 = id
      BY <2>3
    <3>3. Cardinality(0 .. id) = id + 1
      BY <3>2, Slots, Zenon
    <3>4. Cardinality(0 .. id) <= Cardinality(Registered')
      BY <2>13, <3>1, FS_Subset, Zenon
    <3> QED
      BY <2>3, <2>13, <3>3, <3>4
  <2>16. last'.call = "register" /\ last'.pkg = id
    BY <2>2, Zenon DEF Outcome
  <2>17. LeaksAreReported'
    BY <2>16, Zenon DEF LeaksAreReported
  <2> QED
    BY <2>12, <2>13, <2>14, <2>15, <2>16, <2>17, Zenon DEF TableInv, TableIsSound
<1> QED
  BY <1>2, <1>3, Zenon
(* Changes of the table that touch no counter and no name.                    *)
LEMMA MinorStep ==
  ASSUME AccountInv, Idle, UNCHANGED <<pthread, where, op, tmp, mutex, live, refs>>,
         dflt' \in Count, dflt'.mc = dflt.mc, dflt'.fc = dflt.fc, dflt'.rc = dflt.rc,
         table' \in [0 .. alloc - 1 -> Package],
         \A p \in DOMAIN table : /\ table'[p].reg = table[p].reg
                                 /\ table'[p].mc = table[p].mc /\ table'[p].fc = table[p].fc /\ table'[p].rc = table[p].rc
  PROVE  AccountInv'
<1>1. Typed /\ DOMAIN table = 0 .. alloc - 1
  BY Zenon DEF AccountInv, Typed
<1>2. DOMAIN table' = DOMAIN table /\ alloc' = alloc
  BY <1>1, Zenon DEF alloc
<1>3. Usable' = Usable
  <2>1. Registered' = Registered
    BY <1>2, Zenon DEF Registered
  <2> QED
    BY <2>1, Zenon DEF Usable
<1>4. Typed'
  BY <1>1, <1>2, <1>3, Zenon DEF Typed
<1>5. ASSUME NEW p \in Usable PROVE counters(p)'.mc - counters(p)'.fc = live'[p] /\ counters(p)'.rc = refs'[p]
  <2>1. counters(p)'.mc = counters(p).mc /\ counters(p)'.fc = counters(p).fc /\ counters(p)'.rc = counters(p).rc
    <3>1. CASE p = -1
      BY <3>1, Zenon DEF counters
    <3>2. CASE p # -1
      <4>1. p \in DOMAIN table
        BY <3>2, Zenon DEF Usable, Registered
      <4> QED
        BY <3>2, <4>1, Zenon DEF counters
    <3> QED
      BY <3>1, <3>2, Zenon
  <2>2. counters(p).mc - counters(p).fc = live[p] /\ counters(p).rc = refs[p]
    BY IdleExact, Zenon
  <2> QED
    BY <2>1, <2>2, Zenon
<1> QED
  BY <1>3, <1>4, <1>5, ChangeStep, Zenon

(* sc_memory_check.                                                           *)
LEMMA CheckStep ==
  ASSUME AccountInv, TableInv, NEW p \in Usable, sc_memory_check(p)
  PROVE  AccountInv' /\ TableInv'
<1> DEFINE errors == sc_memory_check_noabort(counters(p))
           what == [Outcome("check", p, errors, errors > 0 /\ sc_query_doabort(table, p))
                      EXCEPT !.asked = counters(p).abort, !.leaked = Leaked(p)]
<1>1. Change(what) /\ UNCHANGED <<table, num, dflt, mutex, live, refs>>
  BY Zenon DEF sc_memory_check
<1>2. Idle /\ UNCHANGED <<pthread, where, op, tmp>> /\ last' = what
  BY <1>1, Zenon DEF Change
<1>3. Typed
  BY Zenon DEF AccountInv
<1>4. AccountInv'
  BY <1>1, <1>2, <1>3, MinorStep, Zenon DEF Typed
<1>5. what.call = "check" /\ what.errors = errors /\ what.leaked = Leaked(p)
  BY Zenon DEF Outcome
<1>6. errors > 0 <=> Leaked(p)
  BY <1>2, IdleExact, Zenon
<1> HIDE DEF errors, what
<1>7. LeaksAreReported'
  <2>1. (errors > 0) = Leaked(p)
    BY <1>6 DEF Leaked
  <2> QED
    BY <1>2, <1>5, <2>1, Zenon DEF LeaksAreReported
<1>8. last'.call # "register"
  BY <1>2, <1>5, Zenon
<1> QED
  BY <1>1, <1>4, <1>7, <1>8, SameNames, Zenon

(* One package is changed in its abort flag or its indentation.              *)
LEMMA SetPackage ==
  ASSUME AccountInv, TableInv, Idle, UNCHANGED <<pthread, where, op, tmp, num, mutex, live, refs, dflt>>,
         last'.call \notin {"register", "check", "unregister", "finalize"},
         NEW p \in DOMAIN table, NEW d \in Package, table' = [table EXCEPT ![p] = d],
         d.reg = table[p].reg, d.name = table[p].name, d.mc = table[p].mc, d.fc = table[p].fc, d.rc = table[p].rc
  PROVE  AccountInv' /\ TableInv'
<1>1. Typed /\ table \in [0 .. alloc - 1 -> Package] /\ dflt \in Count
  BY Zenon DEF AccountInv, Typed
<1>2. DOMAIN table' = DOMAIN table /\ table'[p] = d /\ \A q \in DOMAIN table \ {p} : table'[q] = table[q]
  BY Zenon
<1>3. table' \in [0 .. alloc - 1 -> Package]
  BY <1>1, Zenon
<1>4. \A q \in DOMAIN table :
        /\ table'[q].reg = table[q].reg /\ table'[q].name = table[q].name
        /\ table'[q].mc = table[q].mc /\ table'[q].fc = table[q].fc /\ table'[q].rc = table[q].rc
  BY <1>2, Zenon
<1>5. AccountInv'
  BY <1>1, <1>3, <1>4, MinorStep, Zenon
<1>6. LeaksAreReported' /\ last'.call # "register"
  BY Zenon DEF LeaksAreReported
<1> QED
  BY <1>2, <1>4, <1>5, <1>6, SameNames, Zenon

(* sc_package_set_abort_alloc_mismatch.                                       *)
LEMMA SetAbortStep ==
  ASSUME AccountInv, TableInv, NEW p \in Usable, sc_package_set_abort_alloc_mismatch(p, FALSE)
  PROVE  AccountInv' /\ TableInv'
<1>1. /\ Idle /\ UNCHANGED <<pthread, where, op, tmp, num, mutex, live, refs>> /\ last' = Outcome("set_abort", p, 0, FALSE)
      /\ IF p = -1 THEN dflt' = [dflt EXCEPT !.abort = FALSE] /\ UNCHANGED table
         ELSE table' = [table EXCEPT ![p].abort = FALSE] /\ UNCHANGED dflt
  BY Zenon DEF sc_package_set_abort_alloc_mismatch, Change
<1>2. last'.call = "set_abort" /\ last'.call \notin {"register", "check", "unregister", "finalize"}
  BY <1>1, Zenon DEF Outcome
<1>3. Typed /\ table \in [0 .. alloc - 1 -> Package] /\ dflt \in Count
  BY Zenon DEF AccountInv, Typed
<1>4. CASE p = -1
  <2>1. dflt' = [dflt EXCEPT !.abort = FALSE] /\ table' = table
    BY <1>1, <1>4, Zenon
  <2>2. dflt' \in Count /\ dflt'.mc = dflt.mc /\ dflt'.fc = dflt.fc /\ dflt'.rc = dflt.rc
    BY <1>3, <2>1, Zenon DEF Count
  <2>3. AccountInv'
    BY <1>1, <1>3, <2>1, <2>2, MinorStep, Zenon
  <2>4. LeaksAreReported' /\ last'.call # "register"
    BY <1>2, Zenon DEF LeaksAreReported
  <2> QED
    BY <1>1, <2>1, <2>3, <2>4, SameNames, Zenon
<1>5. CASE p # -1
  <2>1. p \in DOMAIN table /\ table[p] \in Package
    BY <1>3, <1>5, Usables, Zenon
  <2> DEFINE c == table[p]
             d == [c EXCEPT !.abort = FALSE]
  <2>2. table' = [table EXCEPT ![p] = d] /\ dflt' = dflt
    BY <1>1, <1>5, Zenon
  <2>3. d \in Package /\ d.reg = c.reg /\ d.name = c.name /\ d.mc = c.mc /\ d.fc = c.fc /\ d.rc = c.rc
    <3> HIDE DEF c
    <3> QED
      BY <2>1, Zenon DEF Package, c
  <2> HIDE DEF d
  <2> QED
    BY <1>1, <1>2, <2>1, <2>2, <2>3, SetPackage, Zenon
<1> QED
  BY <1>4, <1>5, Zenon

(* sc_log_indent_push_count and sc_log_indent_pop_count.                      *)
LEMMA IndentStep ==
  ASSUME AccountInv, TableInv, NEW p \in Registered, sc_log_indent_push_count(p, 1) \/ sc_log_indent_pop_count(p, 2)
  PROVE  AccountInv' /\ TableInv'
<1>1. Typed /\ table \in [0 .. alloc - 1 -> Package] /\ p \in DOMAIN table
  BY Zenon DEF AccountInv, Typed, Registered
<1>2. table[p] \in Package
  BY <1>1, Zenon
<1>3. table[p].indent \in Int
  BY <1>2, Zenon DEF Package
<1>4. /\ Idle /\ UNCHANGED <<pthread, where, op, tmp, num, mutex, live, refs, dflt>>
      /\ last' = Outcome("push", p, 0, FALSE) \/ last' = Outcome("pop", p, 0, FALSE)
  BY Zenon DEF sc_log_indent_push_count, sc_log_indent_pop_count, Change
<1>5. last'.call \notin {"register", "check", "unregister", "finalize"}
  BY <1>4 DEF Outcome
<1>6. \E i \in Int : table' = [table EXCEPT ![p].indent = i]
  <2>1. CASE sc_log_indent_push_count(p, 1)
    <3>1. table' = [table EXCEPT ![p].indent = @ + (IF 1 > 0 THEN 1 ELSE 0)]
      BY <2>1, Zenon DEF sc_log_indent_push_count
    <3>2. table[p].indent + (IF 1 > 0 THEN 1 ELSE 0) \in Int
      BY <1>3
    <3> QED
      BY <3>1, <3>2, Zenon
  <2>2. CASE sc_log_indent_pop_count(p, 2)
    <3> DEFINE new == table[p].indent - (IF 2 > 0 THEN 2 ELSE 0)
    <3>1. table' = [table EXCEPT ![p].indent = IF new > 0 THEN new ELSE 0]
      BY <2>2, Zenon DEF sc_log_indent_pop_count
    <3>2. (IF new > 0 THEN new ELSE 0) \in Int
      BY <1>3
    <3> QED
      BY <3>1, <3>2, Zenon
  <2> QED
    BY <2>1, <2>2, Zenon
<1>7. PICK i \in Int : table' = [table EXCEPT ![p].indent = i]
  BY <1>6, Zenon
<1> DEFINE c == table[p]
           d == [c EXCEPT !.indent = i]
<1>8. table' = [table EXCEPT ![p] = d]
  BY <1>7, Zenon
<1>9. d \in Package /\ d.reg = c.reg /\ d.name = c.name /\ d.mc = c.mc /\ d.fc = c.fc /\ d.rc = c.rc
  <2> HIDE DEF c
  <2> QED
    BY <1>2, Zenon DEF Package, c
<1> HIDE DEF d
<1> QED
  BY <1>1, <1>4, <1>5, <1>8, <1>9, SetPackage, Zenon
(* What unregistering leaves of a package is an unused package.               *)
LEMMA Cleared ==
  ASSUME NEW c \in Package
  PROVE  /\ [c EXCEPT !.reg = FALSE, !.mc = 0, !.fc = 0, !.rc = 0, !.name = ""] \in Package
         /\ ~[c EXCEPT !.reg = FALSE, !.mc = 0, !.fc = 0, !.rc = 0, !.name = ""].reg
<1>1. [c EXCEPT !.reg = FALSE, !.mc = 0, !.fc = 0, !.rc = 0, !.name = ""] \in Package
  <2> DEFINE N == Names \cup {"", "libsc"}
             R == [reg : BOOLEAN, name : N, indent : Int, mc : Int, fc : Int, rc : Int, abort : BOOLEAN]
  <2>1. Package = R /\ "" \in N
    BY Zenon DEF Package
  <2> HIDE DEF N
  <2>2. ASSUME NEW x \in R PROVE [x EXCEPT !.reg = FALSE] \in R
    OBVIOUS
  <2>3. ASSUME NEW x \in R PROVE [x EXCEPT !.mc = 0] \in R
    OBVIOUS
  <2>4. ASSUME NEW x \in R PROVE [x EXCEPT !.fc = 0] \in R
    OBVIOUS
  <2>5. ASSUME NEW x \in R PROVE [x EXCEPT !.rc = 0] \in R
    OBVIOUS
  <2>6. ASSUME NEW x \in R, NEW n \in N PROVE [x EXCEPT !.name = n] \in R
    OBVIOUS
  <2>7. ASSUME NEW x \in R
        PROVE  [x EXCEPT !.reg = FALSE, !.mc = 0, !.fc = 0, !.rc = 0, !.name = ""]
                 = [[[[[x EXCEPT !.reg = FALSE] EXCEPT !.mc = 0] EXCEPT !.fc = 0] EXCEPT !.rc = 0] EXCEPT !.name = ""]
    OBVIOUS
  <2> HIDE DEF R
  <2> QED
    BY <2>1, <2>2, <2>3, <2>4, <2>5, <2>6, <2>7, Zenon
<1>2. [c EXCEPT !.reg = FALSE, !.mc = 0, !.fc = 0, !.rc = 0, !.name = ""].reg = FALSE
  BY Zenon DEF Package
<1> QED
  BY <1>1, <1>2, Zenon

(* sc_package_unregister.                                                     *)
LEMMA UnregisterStep ==
  ASSUME AccountInv, TableInv, NEW p \in Registered, sc_package_unregister(p)
  PROVE  AccountInv' /\ TableInv'
<1> DEFINE errors == sc_memory_check_noabort(table[p])
           what == [Outcome("unregister", p, errors, errors > 0 /\ sc_query_doabort(Unregistered(table, p), p))
                      EXCEPT !.asked = table[p].abort, !.leaked = Leaked(p)]
<1>1. /\ Change(what) /\ table' = Unregistered(table, p) /\ num' = num - 1 /\ dflt' = dflt
      /\ mutex' = [mutex EXCEPT ![p] = NoThread]
      /\ live' = [live EXCEPT ![p] = 0] /\ refs' = [refs EXCEPT ![p] = 0]
  BY Zenon DEF sc_package_unregister
<1>2. Idle /\ UNCHANGED <<pthread, where, op, tmp>> /\ last' = what
  BY <1>1, Zenon DEF Change
<1>3. what.call = "unregister" /\ what.errors = errors /\ what.leaked = Leaked(p)
  BY Zenon DEF Outcome
<1>4. Typed /\ table \in [0 .. alloc - 1 -> Package] /\ p \in DOMAIN table /\ p \in Usable /\ alloc \in Nat
  BY Zenon DEF AccountInv, Typed, Registered, Usable
<1>5. p # -1 /\ table[p] \in Package
  BY <1>4
<1>6. errors > 0 <=> Leaked(p)
  <2>1. counters(p) = table[p]
    BY <1>5, Zenon DEF counters
  <2> QED
    BY <1>2, <1>4, <2>1, IdleExact, Zenon
<1> HIDE DEF what, errors
<1>7. LeaksAreReported' /\ last'.call # "register"
  <2>1. (errors > 0) = Leaked(p)
    BY <1>6 DEF Leaked
  <2>2. "unregister" # "register"
    OBVIOUS
  <2> QED
    BY <1>2, <1>3, <2>1, <2>2, Zenon DEF LeaksAreReported
<1>8. /\ DOMAIN table' = DOMAIN table /\ table' \in [0 .. alloc - 1 -> Package] /\ ~table'[p].reg
      /\ \A q \in DOMAIN table \ {p} : table'[q] = table[q]
  <2> DEFINE c == table[p]
             d == [c EXCEPT !.reg = FALSE, !.mc = 0, !.fc = 0, !.rc = 0, !.name = ""]
  <2>1. table' = [table EXCEPT ![p] = d]
    BY <1>1, <1>4, Zenon DEF Unregistered
  <2>2. d \in Package /\ ~d.reg
    BY <1>5, Cleared, Zenon
  <2> HIDE DEF d
  <2> QED
    BY <1>4, <2>1, <2>2, Zenon
<1>9. alloc' = alloc /\ Registered' = Registered \ {p}
  <2>1. alloc' = alloc
    BY <1>8, Zenon DEF alloc
  <2>2. \A q : q \in Registered' <=> q \in Registered \ {p}
    <3> TAKE q
    <3>1. CASE q = p
      BY <1>8, <3>1, Zenon DEF Registered
    <3>2. CASE q # p
      BY <1>8, <3>2, Zenon DEF Registered
    <3> QED
      BY <3>1, <3>2, Zenon
  <2> QED
    BY <2>1, <2>2, Zenon
<1>10. Usable' = Usable \ {p}
  BY <1>5, <1>9, Zenon DEF Usable
<1>11. /\ DOMAIN live' = DOMAIN live /\ DOMAIN refs' = DOMAIN live /\ DOMAIN mutex' = DOMAIN live
       /\ live'[p] = 0 /\ refs'[p] = 0 /\ \A q \in DOMAIN live \ {p} : live'[q] = live[q] /\ refs'[q] = refs[q]
  BY <1>1, <1>4, Zenon DEF Typed
<1>12. Typed'
  <2>1. \A q \in DOMAIN live : live[q] \in Int /\ refs[q] \in Int
    BY <1>4, Zenon DEF Typed
  <2>2. \A q \in DOMAIN live : live'[q] \in Int /\ refs'[q] \in Int
    BY <1>11, <2>1
  <2>3. Usable' \subseteq DOMAIN live'
    BY <1>4, <1>10, <1>11, Zenon DEF Typed
  <2> QED
    BY <1>1, <1>2, <1>4, <1>8, <1>9, <1>11, <2>2, <2>3, Zenon DEF Typed
<1>13. ASSUME NEW q \in Usable' PROVE counters(q)'.mc - counters(q)'.fc = live'[q] /\ counters(q)'.rc = refs'[q]
  <2>1. q \in Usable /\ q # p
    BY <1>10, Zenon
  <2>2. counters(q)' = counters(q)
    BY <1>1, <1>8, <2>1, Zenon DEF counters, Usable, Registered
  <2>3. live'[q] = live[q] /\ refs'[q] = refs[q]
    BY <1>4, <1>11, <2>1, Zenon DEF Typed
  <2> QED
    BY <1>2, <2>1, <2>2, <2>3, IdleExact, Zenon
<1>14. AccountInv'
  BY <1>2, <1>12, <1>13, ChangeStep, Zenon
<1>15. num' = Cardinality(Registered')
  <2>1. num = Cardinality(Registered) /\ IsFiniteSet(Registered)
    BY <1>4, Finitely, Zenon DEF TableInv, TableIsSound
  <2>2. Cardinality(Registered \ {p}) = Cardinality(Registered) - 1
    BY <2>1, FS_RemoveElement, Zenon
  <2> QED
    BY <1>1, <1>9, <2>1, <2>2, Zenon
<1>16. ASSUME NEW q \in Registered', NEW r \in Registered', table'[q].name = table'[r].name PROVE q = r
  <2>1. /\ q \in Registered /\ r \in Registered /\ table'[q] = table[q] /\ table'[r] = table[r]
    BY <1>8, <1>9, Zenon DEF Registered
  <2>2. table[q].name = table[r].name
    BY <1>16, <2>1, Zenon
  <2> QED
    BY <2>1, <2>2, Zenon DEF TableInv, TableIsSound
<1> QED
  BY <1>7, <1>14, <1>15, <1>16, Zenon DEF TableInv, TableIsSound

(* sc_finalize.                                                               *)
LEMMA FinalizeStep ==
  ASSUME AccountInv, TableInv, sc_finalize
  PROVE  AccountInv' /\ TableInv'
<1> DEFINE bad == {p \in Registered : sc_memory_check_noabort(table[p]) > 0}
           rest == sc_memory_check_noabort(dflt)
           errors == Cardinality(bad) + rest
           what == [Outcome("finalize", -1, errors, errors > 0 /\ dflt.abort)
                      EXCEPT !.asked = dflt.abort, !.leaked = \E p \in Usable : Leaked(p)]
<1>1. /\ Change(what) /\ table' = <<>> /\ num' = 0 /\ dflt' = dflt
      /\ mutex' = NoPackage(NoThread) /\ live' = NoPackage(live[-1]) /\ refs' = NoPackage(refs[-1])
  BY Zenon DEF sc_finalize
<1>2. Idle /\ UNCHANGED <<pthread, where, op, tmp>> /\ last' = what
  BY <1>1, Zenon DEF Change
<1>3. what.call = "finalize" /\ what.errors = errors /\ what.leaked = \E p \in Usable : Leaked(p)
  BY Zenon DEF Outcome
<1>4. Typed /\ alloc \in Nat /\ DOMAIN table = 0 .. alloc - 1
  BY Zenon DEF AccountInv, Typed
<1>5. errors > 0 <=> \E p \in Usable : Leaked(p)
  <2>1. -1 \in Usable /\ counters(-1) = dflt
    BY Zenon DEF Usable, counters
  <2>2. \A p \in Registered : p \in Usable /\ counters(p) = table[p]
    <3>1. -1 \notin 0 .. alloc - 1
      BY <1>4
    <3> QED
      BY <1>4, <3>1, Zenon DEF Usable, counters, Registered
  <2>3. \A p \in Usable : p = -1 \/ p \in Registered
    BY Zenon DEF Usable
  <2>4. rest \in Nat /\ (rest > 0 <=> Leaked(-1))
    BY <1>2, <2>1, IdleExact, Zenon
  <2>5. \A p \in Registered : p \in bad <=> Leaked(p)
    BY <1>2, <2>2, IdleExact, Zenon
  <2>6. IsFiniteSet(bad) /\ Cardinality(bad) \in Nat /\ (Cardinality(bad) = 0 <=> bad = {})
    <3>1. IsFiniteSet(Registered) /\ bad \in SUBSET Registered
      BY <1>4, Finitely, Zenon
    <3> QED
      BY <3>1, FS_Subset, FS_CardinalityType, FS_EmptySet, Zenon
  <2>7. bad = {} <=> \A p \in Registered : ~Leaked(p)
    BY <2>5, Zenon
  <2> HIDE DEF bad, rest
  <2>8. errors > 0 <=> Leaked(-1) \/ bad # {}
    BY <2>4, <2>6
  <2> QED
    BY <2>1, <2>2, <2>3, <2>7, <2>8, Zenon
<1> HIDE DEF what, errors
<1>6. LeaksAreReported' /\ last'.call # "register"
  <2>1. (errors > 0) = \E p \in Usable : Leaked(p)
    <3> DEFINE some == \E p \in Usable : Leaked(p)
    <3>1. (errors > 0) \in BOOLEAN
      OBVIOUS
    <3>2. some \in BOOLEAN
      BY Zenon
    <3>3. (errors > 0) <=> some
      BY <1>5, Zenon
    <3> HIDE DEF some
    <3>4. (errors > 0) = some
      BY <3>1, <3>2, <3>3
    <3> QED
      BY <3>4, Zenon DEF some
  <2>2. "finalize" # "register"
    OBVIOUS
  <2> QED
    BY <1>2, <1>3, <2>1, <2>2, Zenon DEF LeaksAreReported
<1>7. DOMAIN table' = {} /\ 0 .. 0 - 1 = {} /\ table' \in [0 .. 0 - 1 -> Package]
  BY <1>1
<1>8. Cardinality({}) = 0 /\ 0 \in Nat
  BY FS_EmptySet, Zenon
<1>9. alloc' = 0 /\ Registered' = {} /\ Usable' = {-1}
  BY <1>7, <1>8, Zenon DEF alloc, Registered, Usable
<1>10. /\ DOMAIN live' = {-1} /\ DOMAIN refs' = {-1} /\ DOMAIN mutex' = {-1}
       /\ live'[-1] = live[-1] /\ refs'[-1] = refs[-1]
  BY <1>1, Zenon DEF NoPackage
<1>11. -1 \in Usable
  BY Zenon DEF Usable
<1>12. Typed'
  <2>1. live[-1] \in Int /\ refs[-1] \in Int
    BY <1>4, <1>11, Zenon DEF Typed
  <2> QED
    BY <1>1, <1>2, <1>4, <1>7, <1>8, <1>9, <1>10, <2>1, Zenon DEF Typed
<1>13. ASSUME NEW q \in Usable' PROVE counters(q)'.mc - counters(q)'.fc = live'[q] /\ counters(q)'.rc = refs'[q]
  <2>1. q = -1
    BY <1>9, Zenon
  <2>2. counters(q)' = counters(q)
    BY <1>1, <2>1, Zenon DEF counters
  <2> QED
    BY <1>2, <1>10, <1>11, <2>1, <2>2, IdleExact, Zenon
<1>14. AccountInv'
  BY <1>2, <1>12, <1>13, ChangeStep, Zenon
<1> QED
  BY <1>1, <1>6, <1>8, <1>9, <1>14, Zenon DEF TableInv, TableIsSound

-----------------------------------------------------------------------------
(* Before sc_init the accounts are empty.                                     *)
LEMMA InitAccounts ==
  ASSUME Init, ThreadsOK
  PROVE  AccountInv /\ TableInv
<1>1. /\ pthread \in BOOLEAN /\ table = <<>> /\ num = 0 /\ dflt = Counters
      /\ mutex = NoPackage(NoThread) /\ live = NoPackage(0) /\ refs = NoPackage(0)
      /\ where = [t \in Threads |-> "idle"] /\ op = [t \in Threads |-> NoOp] /\ tmp = [t \in Threads |-> 0]
      /\ last = Outcome("none", -1, 0, FALSE)
  BY Zenon DEF Init
<1>2. DOMAIN table = {} /\ 0 .. 0 - 1 = {} /\ table \in [0 .. 0 - 1 -> Package]
  BY <1>1
<1>3. Cardinality({}) = 0 /\ 0 \in Nat /\ 0 \in Int
  BY FS_EmptySet
<1>4. alloc = 0 /\ Registered = {} /\ Usable = {-1}
  BY <1>2, <1>3, Zenon DEF alloc, Registered, Usable
<1>5. dflt \in Count /\ dflt.mc = 0 /\ dflt.fc = 0 /\ dflt.rc = 0
  BY <1>1 DEF Count, Counters
<1>6. NoOp \in [kind : Kinds \cup {"none"}, pkg : Int, delta : 0 .. 1] /\ "idle" \in {"idle", "lock"} \cup Inside
  BY DEF NoOp
<1>7. Typed
  BY <1>1, <1>2, <1>3, <1>4, <1>5, <1>6, Zenon DEF Typed, NoPackage
<1>8. NoOp.kind = "none" /\ "none" \notin {"free", "init", "unref"} /\ "idle" \notin Inside /\ "idle" # "write"
      /\ "idle" \notin {"lock", "read", "write"} /\ "idle" # "unlock"
  BY Zenon DEF NoOp, Inside
<1>9. Alone /\ \A t \in Threads : WorkOK(t)
  BY <1>1, <1>8, Zenon DEF Alone, WorkOK
<1>10. \A p \in Usable : ExactFor(p)
  <2> TAKE p \in Usable
  <2>1. p = -1 /\ counters(p) = dflt /\ live[p] = 0 /\ refs[p] = 0
    BY <1>1, <1>4, Zenon DEF counters, NoPackage
  <2>2. Late(p, "malloc") = {} /\ Late(p, "init") = {} /\ Late(p, "unref") = {} /\ Freeing(p) = {}
    BY <1>1, <1>8, Zenon DEF Late, Freeing, IsLate, IsFreeing
  <2>3. 0 - 0 = 0 - 0 - 0 /\ 0 = 0 - 0 + 0
    OBVIOUS
  <2> QED
    BY <1>3, <1>5, <2>1, <2>2, <2>3, Zenon DEF ExactFor
<1>11. last.call = "none" /\ "none" \notin {"check", "unregister", "finalize", "register"}
  BY <1>1, Zenon DEF Outcome
<1> QED
  BY <1>1, <1>3, <1>4, <1>7, <1>9, <1>10, <1>11, Zenon DEF AccountInv, TableInv, TableIsSound, LeaksAreReported

(* Every step keeps the accounts and the table.                               *)
LEMMA StepAccounts ==
  ASSUME ThreadsOK, AccountInv, TableInv, [Next]_vars
  PROVE  AccountInv' /\ TableInv'
<1>1. CASE UNCHANGED vars
  <2>1. /\ UNCHANGED <<pthread, table, num, dflt, mutex, where, op, tmp, live, refs, last>>
    BY <1>1, Zenon DEF vars
  <2>2. Usable' = Usable /\ Registered' = Registered /\ alloc' = alloc /\ \A q : counters(q)' = counters(q)
    BY <2>1, TableStays, Zenon
  <2>3. \A p : ExactFor(p)' <=> ExactFor(p)
    BY <2>1, <2>2, Zenon DEF ExactFor, Late, Freeing, IsLate, IsFreeing
  <2>4. ASSUME NEW t \in Threads PROVE WorkOK(t)'
    <3>1. WorkOK(t) /\ counters(op[t].pkg)' = counters(op[t].pkg)
      BY <2>1, <2>2, Zenon DEF AccountInv
    <3> QED
      BY <2>1, <2>2, <3>1, Zenon DEF WorkOK
  <2>5. Typed' /\ Alone'
    BY <2>1, <2>2, Zenon DEF AccountInv, Typed, Alone
  <2>6. AccountInv'
    BY <2>2, <2>3, <2>4, <2>5, Zenon DEF AccountInv
  <2> QED
    BY <2>1, <2>6, TableKept, Zenon
<1>2. CASE TableChange
  <2>1. "libsc" \in Names \cup {"libsc"}
    BY Zenon
  <2> QED
    BY <1>2, <2>1, RegisterStep, UnregisterStep, FinalizeStep, SetAbortStep, IndentStep, CheckStep, Zenon DEF TableChange, sc_init
<1>3. CASE \E t \in Threads : Step(t)
  <2>1. PICK t \in Threads : Step(t)
    BY <1>3, Zenon
  <2>2. CASE sc_package_rc_count_add(t)
    BY <2>2, AddStep, TableKept, Zenon
  <2>3. CASE sc_package_lock(t) \/ Fetch(t) \/ sc_log_handler(t) \/ sc_package_unlock(t)
    <3>1. AccountInv' /\ UNCHANGED <<table, num, last>>
      BY <2>3, LockStep, ReadStep, UnlockStep, Zenon
    <3> QED
      BY <3>1, TableKept, Zenon
  <2> QED
    BY <2>1, <2>2, <2>3, Zenon DEF Step
<1>4. CASE \E t \in Threads : \E p \in Usable : Operation(t, p)
  <2>1. AccountInv' /\ UNCHANGED <<table, num, last>>
    BY <1>4, OperationStep, Zenon
  <2> QED
    BY <2>1, TableKept, Zenon
<1> QED
  BY <1>1, <1>2, <1>3, <1>4, Zenon DEF Next, Done

(* With any number of threads and packages: the counters of a package differ  *)
(* from the memory and the references in use by the operations that have not  *)
(* counted yet, since sc_package_lock lets no increment be lost;              *)
(* sc_memory_check, sc_package_unregister and sc_finalize report exactly what *)
(* is left over; and the table has no name twice and gives out no slot beyond *)
(* the number of packages.                                                    *)
THEOREM AccountsAreExact ==
  ASSUME ThreadsOK
  PROVE  Spec => [](CountsAreExact /\ LeaksAreReported /\ TableIsSound)
<1>1. Init => AccountInv /\ TableInv
  BY InitAccounts, Zenon
<1>2. (AccountInv /\ TableInv) /\ [Next]_vars => (AccountInv /\ TableInv)'
  BY StepAccounts, Zenon
<1>3. AccountInv /\ TableInv => CountsAreExact /\ LeaksAreReported /\ TableIsSound
  BY Zenon DEF AccountInv, TableInv, ExactFor, Late, Freeing, IsLate, IsFreeing, CountsAreExact
<1> QED
  BY <1>1, <1>2, <1>3, PTL DEF Spec
-----------------------------------------------------------------------------
(* Log lines.  Of a package an odd number of parts is written exactly while a *)
(* thread is between the two parts of its line, and then the last part is its *)
(* own.                                                                       *)
Part == [pkg : Int, thread : Threads]
Writing(t, p) == op[t].kind = "log" /\ op[t].pkg = p /\ where[t] = "write"
Odd(out, p) == Cardinality(PartsUpTo(out, p, Len(out))) % 2 = 1
IsLast(out, i, p) == i \in 1 .. Len(out) /\ out[i].pkg = p /\ \A k \in i + 1 .. Len(out) : out[k].pkg # p
LineInv == /\ output \in Seq(Part) /\ LinesAreWhole
           /\ \A t \in Threads, p \in Int : Writing(t, p) => Odd(output, p)
           /\ \A p \in Int : Odd(output, p) =>
                \E t \in Threads : Writing(t, p) /\ \A i \in 1 .. Len(output) : IsLast(output, i, p) => output[i].thread = t

(* A part is appended to the output.                                          *)
LEMMA AppendPart ==
  ASSUME NEW s \in Seq(Part), NEW e \in Part
  PROVE  LET A == Append(s, e)
             n == Len(s) IN
         /\ A \in Seq(Part) /\ n \in Nat /\ Len(A) = n + 1 /\ A[n + 1] = e
         /\ \A k \in 1 .. n : A[k] = s[k]
         /\ \A p, i : i \in 1 .. n => PartsUpTo(A, p, i) = PartsUpTo(s, p, i)
         /\ \A p : p # e.pkg => (Odd(A, p) <=> Odd(s, p))
         /\ Odd(A, e.pkg) <=> ~Odd(s, e.pkg)
<1> DEFINE A == Append(s, e)
           n == Len(s)
<1>1. A \in Seq(Part) /\ n \in Nat /\ Len(A) = n + 1 /\ A[n + 1] = e /\ \A k \in 1 .. n : A[k] = s[k]
  OBVIOUS
<1> HIDE DEF A, n
<1>2. 1 .. n + 1 = 1 .. n \cup {n + 1} /\ n + 1 \notin 1 .. n /\ \A i \in 1 .. n : 1 .. i \subseteq 1 .. n
  BY <1>1
<1>3. \A p, i : i \in 1 .. n => PartsUpTo(A, p, i) = PartsUpTo(s, p, i)
  BY <1>1, <1>2, Zenon DEF PartsUpTo
<1>4. ASSUME NEW p
      PROVE  PartsUpTo(A, p, n + 1) = IF e.pkg = p THEN PartsUpTo(s, p, n) \cup {n + 1} ELSE PartsUpTo(s, p, n)
  <2>1. CASE e.pkg = p
    BY <1>1, <1>2, <2>1, Zenon DEF PartsUpTo
  <2>2. CASE e.pkg # p
    BY <1>1, <1>2, <2>2, Zenon DEF PartsUpTo
  <2> QED
    BY <2>1, <2>2, Zenon
<1>5. \A p : p # e.pkg => (Odd(A, p) <=> Odd(s, p))
  BY <1>1, <1>4, Zenon DEF Odd, n
<1>6. Odd(A, e.pkg) <=> ~Odd(s, e.pkg)
  <2> DEFINE S == PartsUpTo(s, e.pkg, n)
             c == Cardinality(S)
             d == Cardinality(S \cup {n + 1})
  <2>1. S \in SUBSET (1 .. n) /\ IsFiniteSet(1 .. n)
    <3>1. IsFiniteSet(1 .. n)
      BY <1>1, FS_Interval
    <3> QED
      BY <3>1, Zenon DEF PartsUpTo
  <2>2. IsFiniteSet(S) /\ c \in Nat
    BY <2>1, FS_Subset, FS_CardinalityType, Zenon
  <2>3. n + 1 \notin S
    BY <1>2, <2>1, Zenon
  <2>4. d = c + 1
    BY <2>2, <2>3, FS_AddElement, Zenon
  <2>5. Odd(A, e.pkg) <=> d % 2 = 1
    BY <1>1, <1>4, Zenon DEF Odd
  <2>6. Odd(s, e.pkg) <=> c % 2 = 1
    BY Zenon DEF Odd, n
  <2> HIDE DEF c, d
  <2>7. d % 2 = 1 <=> ~(c % 2 = 1)
    BY <2>2, <2>4
  <2> QED
    BY <2>5, <2>6, <2>7, Zenon
<1> QED
  BY <1>1, <1>3, <1>5, <1>6, Zenon DEF A, n

(* The part that ends a line must be of the thread that began it.             *)
LEMMA PairedAppend ==
  ASSUME NEW s \in Seq(Part), NEW e \in Part, Paired(s),
         Odd(s, e.pkg) => \A i \in 1 .. Len(s) : IsLast(s, i, e.pkg) => s[i].thread = e.thread
  PROVE  Paired(Append(s, e))
<1> DEFINE A == Append(s, e)
           n == Len(s)
<1>1. /\ n \in Nat /\ Len(A) = n + 1 /\ A[n + 1] = e /\ \A k \in 1 .. n : A[k] = s[k]
      /\ \A p, i : i \in 1 .. n => PartsUpTo(A, p, i) = PartsUpTo(s, p, i)
  BY AppendPart, Zenon
<1> HIDE DEF A
<1>2. ASSUME NEW i \in 1 .. Len(A), NEW j \in 1 .. Len(A), i < j, A[j].pkg = A[i].pkg,
             \A k \in i + 1 .. j - 1 : A[k].pkg # A[i].pkg, Cardinality(PartsUpTo(A, A[i].pkg, i)) % 2 = 1
      PROVE  A[i].thread = A[j].thread
  <2>1. i \in 1 .. n /\ (j \in 1 .. n \/ j = n + 1)
    BY <1>1, <1>2
  <2>2. A[i] = s[i] /\ Cardinality(PartsUpTo(s, s[i].pkg, i)) % 2 = 1
    BY <1>1, <1>2, <2>1, Zenon
  <2>3. CASE j \in 1 .. n
    <3>1. A[j] = s[j] /\ \A k \in i + 1 .. j - 1 : k \in 1 .. n
      BY <1>1, <2>1, <2>3
    <3>2. \A k \in i + 1 .. j - 1 : s[k].pkg # s[i].pkg
      BY <1>1, <1>2, <2>2, <3>1, Zenon
    <3> QED
      BY <1>2, <2>1, <2>2, <2>3, <3>1, <3>2, Zenon DEF Paired
  <2>4. CASE j = n + 1
    <3> DEFINE p == e.pkg
    <3>1. s[i].pkg = p /\ A[j] = e
      BY <1>1, <1>2, <2>2, <2>4, Zenon
    <3>2. \A k \in i + 1 .. n : k \in i + 1 .. j - 1 /\ k \in 1 .. n
      BY <1>1, <2>1, <2>4
    <3>3. \A k \in i + 1 .. n : s[k].pkg # p
      BY <1>1, <1>2, <2>2, <3>1, <3>2, Zenon
    <3>4. IsLast(s, i, p)
      BY <2>1, <3>1, <3>3, Zenon DEF IsLast
    <3>5. \A k : k \in 1 .. n <=> k \in 1 .. i \/ k \in i + 1 .. n
      BY <1>1, <2>1
    <3>6. PartsUpTo(s, p, n) = PartsUpTo(s, p, i)
      BY <3>3, <3>5, Zenon DEF PartsUpTo
    <3>7. Odd(s, p)
      BY <2>2, <3>1, <3>6, Zenon DEF Odd
    <3> QED
      BY <2>1, <2>2, <3>1, <3>4, <3>7, Zenon
  <2> QED
    BY <2>1, <2>3, <2>4, Zenon
<1>3. Paired(A)
  BY <1>2, Zenon DEF Paired
<1> QED
  BY <1>3, Zenon DEF A
(* The last part of a package after a part was appended.                      *)
LEMMA LastAppend ==
  ASSUME NEW s \in Seq(Part), NEW e \in Part, NEW q, NEW i \in 1 .. Len(Append(s, e)), IsLast(Append(s, e), i, q)
  PROVE  /\ q = e.pkg => Append(s, e)[i] = e
         /\ q # e.pkg => i \in 1 .. Len(s) /\ IsLast(s, i, q) /\ Append(s, e)[i] = s[i]
<1> DEFINE A == Append(s, e)
           n == Len(s)
<1>1. n \in Nat /\ Len(A) = n + 1 /\ A[n + 1] = e /\ \A k \in 1 .. n : A[k] = s[k]
  BY AppendPart, Zenon
<1>2. A[i].pkg = q /\ \A k \in i + 1 .. n + 1 : A[k].pkg # q
  BY <1>1, Zenon DEF IsLast
<1> HIDE DEF A
<1>3. i \in 1 .. n \/ i = n + 1
  BY <1>1 DEF A
<1>4. ASSUME i = n + 1 PROVE A[i] = e /\ q = e.pkg
  BY <1>1, <1>2, <1>4, Zenon
<1>5. ASSUME i \in 1 .. n PROVE q # e.pkg /\ IsLast(s, i, q) /\ A[i] = s[i]
  <2>1. n + 1 \in i + 1 .. n + 1 /\ \A k \in i + 1 .. n : k \in i + 1 .. n + 1 /\ k \in 1 .. n
    BY <1>1, <1>5
  <2> QED
    BY <1>1, <1>2, <1>5, <2>1, Zenon DEF IsLast
<1> QED
  BY <1>3, <1>4, <1>5, Zenon DEF A

(* Steps that write nothing.                                                  *)
LEMMA SilentStep ==
  ASSUME LineInv, output' = output, \A t \in Threads : \A p \in Int : Writing(t, p)' <=> Writing(t, p)
  PROVE  LineInv'
BY Zenon DEF LineInv, LinesAreWhole

(* sc_log_handler writes a part of a line under the mutex.                    *)
LEMMA LogStep ==
  ASSUME AccountInv, LineInv, NEW t \in Threads, sc_log_handler(t)
  PROVE  LineInv'
<1> DEFINE p == op[t].pkg
           e == [pkg |-> p, thread |-> t]
           s == output
           first == where[t] = "read"
<1>1. /\ op[t].kind = "log" /\ output' = Append(s, e) /\ op' = op
      /\ At(t, "read", "write") \/ At(t, "write", "unlock")
  BY Zenon DEF sc_log_handler, LogPart
<1>2. /\ where' = [where EXCEPT ![t] = IF first THEN "write" ELSE "unlock"]
      /\ first \/ where[t] = "write"
  <2>1. "read" # "write"
    OBVIOUS
  <2> QED
    BY <1>1, <2>1, Zenon DEF At
<1>3. p \in Int /\ e.pkg = p /\ e.thread = t /\ e \in Part /\ where \in [Threads -> {"idle", "lock"} \cup Inside]
  <2>1. op[t] \in [kind : Kinds \cup {"none"}, pkg : Int, delta : 0 .. 1] /\ where \in [Threads -> {"idle", "lock"} \cup Inside]
    BY Zenon DEF AccountInv, Typed
  <2>2. p \in Int
    BY <2>1, Zenon
  <2> QED
    BY <2>1, <2>2, Zenon DEF Part
<1>4. ASSUME NEW u \in Threads, Writing(u, p) PROVE u = t
  <2>1. where[u] \in Inside /\ where[t] \in Inside /\ op[u].pkg = op[t].pkg
    BY <1>2, <1>4, Zenon DEF Writing, Inside
  <2> QED
    BY <2>1, Exclusive, Zenon
<1>5. ASSUME NEW u \in Threads, NEW q \in Int
      PROVE  Writing(u, q)' <=> IF u = t THEN first /\ q = p ELSE Writing(u, q)
  <2>1. "write" # "unlock"
    OBVIOUS
  <2>2. CASE u = t
    <3>1. where'[u] = IF first THEN "write" ELSE "unlock"
      BY <1>2, <1>3, <2>2, Zenon
    <3> QED
      BY <1>1, <2>1, <2>2, <3>1, Zenon DEF Writing
  <2>3. CASE u # t
    <3>1. where'[u] = where[u]
      BY <1>2, <1>3, <2>3, Zenon
    <3> QED
      BY <1>1, <2>3, <3>1, Zenon DEF Writing
  <2> QED
    BY <2>2, <2>3, Zenon
<1>6. s \in Seq(Part) /\ Paired(s)
  BY Zenon DEF LineInv, LinesAreWhole
<1>7. /\ output' \in Seq(Part)
      /\ \A q : q # p => (Odd(output', q) <=> Odd(s, q))
      /\ Odd(output', p) <=> ~Odd(s, p)
  <2> HIDE DEF e, p, s, first
  <2>1. /\ Append(s, e) \in Seq(Part)
        /\ \A q : q # e.pkg => (Odd(Append(s, e), q) <=> Odd(s, q))
        /\ Odd(Append(s, e), e.pkg) <=> ~Odd(s, e.pkg)
    BY <1>3, <1>6, AppendPart, Zenon
  <2> QED
    BY <1>1, <1>3, <2>1, Zenon
<1>8. Odd(s, p) <=> ~first
  <2>1. CASE first
    <3>1. "read" # "write"
      OBVIOUS
    <3>2. ~Writing(t, p)
      BY <2>1, <3>1, Zenon DEF Writing
    <3> QED
      BY <1>3, <1>4, <2>1, <3>2, Zenon DEF LineInv
  <2>2. CASE ~first
    <3>1. Writing(t, p)
      BY <1>1, <1>2, <2>2, Zenon DEF Writing
    <3> QED
      BY <1>3, <2>2, <3>1, Zenon DEF LineInv
  <2> QED
    BY <2>1, <2>2, Zenon
<1>9. Odd(s, p) => \A i \in 1 .. Len(s) : IsLast(s, i, p) => s[i].thread = t
  BY <1>3, <1>4, Zenon DEF LineInv
<1> HIDE DEF e, p, s, first
<1>10. Paired(output')
  BY <1>1, <1>3, <1>6, <1>9, PairedAppend, Zenon
<1>11. ASSUME NEW u \in Threads, NEW q \in Int, Writing(u, q)' PROVE Odd(output', q)
  <2>1. CASE q = p
    <3>1. CASE u = t
      BY <1>5, <1>7, <1>8, <1>11, <2>1, <3>1, Zenon
    <3>2. CASE u # t
      BY <1>4, <1>5, <1>11, <2>1, <3>2, Zenon
    <3> QED
      BY <3>1, <3>2, Zenon
  <2>2. CASE q # p
    <3>1. Writing(u, q)
      BY <1>5, <1>11, <2>2, Zenon
    <3>2. Odd(s, q)
      BY <3>1, Zenon DEF LineInv, s
    <3> QED
      BY <1>7, <2>2, <3>2, Zenon
  <2> QED
    BY <2>1, <2>2, Zenon
<1>12. ASSUME NEW q \in Int, Odd(output', q)
       PROVE  \E u \in Threads : Writing(u, q)' /\ \A i \in 1 .. Len(output') : IsLast(output', i, q) => output'[i].thread = u
  <2>1. CASE q = p
    <3>1. first
      BY <1>7, <1>8, <1>12, <2>1, Zenon
    <3>2. Writing(t, q)'
      BY <1>5, <2>1, <3>1, Zenon
    <3>3. \A i \in 1 .. Len(output') : IsLast(output', i, q) => output'[i].thread = t
      BY <1>1, <1>3, <1>6, <2>1, LastAppend, Zenon
    <3> QED
      BY <3>2, <3>3, Zenon
  <2>2. CASE q # p
    <3>1. Odd(s, q)
      BY <1>7, <1>12, <2>2, Zenon
    <3>2. PICK u \in Threads : Writing(u, q) /\ \A i \in 1 .. Len(s) : IsLast(s, i, q) => s[i].thread = u
      BY <3>1, Zenon DEF LineInv, s
    <3>3. u # t
      BY <2>2, <3>2, Zenon DEF Writing, p
    <3>4. Writing(u, q)'
      BY <1>5, <3>2, <3>3, Zenon
    <3>5. \A i \in 1 .. Len(output') : IsLast(output', i, q) => output'[i].thread = u
      <4>1. ASSUME NEW i \in 1 .. Len(Append(s, e)), IsLast(Append(s, e), i, q)
            PROVE  Append(s, e)[i].thread = u
        <5>1. i \in 1 .. Len(s) /\ IsLast(s, i, q) /\ Append(s, e)[i] = s[i]
          BY <1>3, <1>6, <2>2, <4>1, LastAppend, Zenon
        <5> QED
          BY <3>2, <5>1, Zenon
      <4> QED
        BY <1>1, <4>1, Zenon
    <3> QED
      BY <3>4, <3>5, Zenon
  <2> QED
    BY <2>1, <2>2, Zenon
<1> QED
  BY <1>7, <1>10, <1>11, <1>12, Zenon DEF LineInv, LinesAreWhole

(* Every step keeps the lines.                                                *)
LEMMA StepLines ==
  ASSUME ThreadsOK, AccountInv, LineInv, [Next]_vars
  PROVE  LineInv'
<1>1. CASE UNCHANGED <<where, op, output>>
  <2>1. \A t \in Threads : \A p \in Int : Writing(t, p)' <=> Writing(t, p)
    BY <1>1, Zenon DEF Writing
  <2> QED
    BY <1>1, <2>1, SilentStep, Zenon
<1>2. TableChange => UNCHANGED <<where, op, output>>
  BY Zenon DEF TableChange, sc_init, sc_finalize, sc_package_register, sc_package_unregister,
               sc_log_indent_push_count, sc_log_indent_pop_count, sc_package_set_abort_alloc_mismatch,
               sc_memory_check, Change
<1>3. where \in [Threads -> {"idle", "lock"} \cup Inside] /\ op \in [Threads -> [kind : Kinds \cup {"none"}, pkg : Int, delta : 0 .. 1]]
  BY Zenon DEF AccountInv, Typed
<1>4. ASSUME NEW t \in Threads, NEW from, NEW to, At(t, from, to), output' = output,
             op' = op \/ (op' = [op EXCEPT ![t] = NoOp] /\ to # "write"),
             op[t].kind = "log" => from # "write" /\ to # "write"
      PROVE  LineInv'
  <2>1. ASSUME NEW u \in Threads, NEW p \in Int PROVE Writing(u, p)' <=> Writing(u, p)
    <3>1. where[t] = from /\ where' = [where EXCEPT ![t] = to]
      BY <1>4, Zenon DEF At
    <3>2. CASE u = t
      <4>1. where'[u] = to /\ where[u] = from
        BY <1>3, <3>1, <3>2, Zenon
      <4> QED
        BY <1>4, <3>2, <4>1, Zenon DEF Writing
    <3>3. CASE u # t
      <4>1. where'[u] = where[u] /\ op'[u] = op[u]
        BY <1>3, <1>4, <3>1, <3>3, Zenon
      <4> QED
        BY <4>1, Zenon DEF Writing
    <3> QED
      BY <3>2, <3>3, Zenon
  <2> QED
    BY <1>4, <2>1, SilentStep, Zenon
<1>5. "lock" # "write" /\ "read" # "write" /\ "unlock" # "write" /\ "idle" # "write"
  OBVIOUS
<1>6. CASE \E t \in Threads : Step(t)
  <2>1. PICK t \in Threads : Step(t)
    BY <1>6, Zenon
  <2>2. CASE sc_package_lock(t)
    BY <1>4, <1>5, <2>2, Zenon DEF sc_package_lock
  <2>3. CASE Fetch(t)
    BY <1>4, <1>5, <2>3, Zenon DEF Fetch
  <2>4. CASE sc_package_rc_count_add(t)
    BY <1>4, <1>5, <2>4, Zenon DEF sc_package_rc_count_add
  <2>5. CASE sc_package_unlock(t)
    BY <1>4, <1>5, <2>5, Zenon DEF sc_package_unlock
  <2> QED
    BY <2>1, <2>2, <2>3, <2>4, <2>5, LogStep, Zenon DEF Step
<1>7. CASE \E t \in Threads : \E q \in Usable : Operation(t, q)
  <2>1. PICK t \in Threads : \E q, k, d : Begin(t, k, q, d)
    BY <1>7, Zenon DEF Operation, sc_malloc, sc_calloc, sc_strdup, sc_realloc, sc_free, sc_refcount_init, sc_refcount_unref, sc_log
  <2>2. PICK q, k, d : Begin(t, k, q, d)
    BY <2>1, Zenon
  <2>3. /\ where[t] = "idle" /\ where' = [where EXCEPT ![t] = "lock"] /\ output' = output
        /\ op' = [op EXCEPT ![t] = [kind |-> k, pkg |-> q, delta |-> d]]
    BY <2>2, Zenon DEF Begin
  <2>4. ASSUME NEW u \in Threads, NEW p \in Int PROVE Writing(u, p)' <=> Writing(u, p)
    <3>1. CASE u = t
      <4>1. where'[u] = "lock" /\ where[u] = "idle"
        BY <1>3, <2>3, <3>1, Zenon
      <4> QED
        BY <1>5, <4>1, Zenon DEF Writing
    <3>2. CASE u # t
      <4>1. where'[u] = where[u] /\ op'[u] = op[u]
        BY <1>3, <2>3, <3>2, Zenon
      <4> QED
        BY <4>1, Zenon DEF Writing
    <3> QED
      BY <3>1, <3>2, Zenon
  <2> QED
    BY <2>3, <2>4, SilentStep, Zenon
<1> QED
  BY <1>1, <1>2, <1>6, <1>7, Zenon DEF Next, Done, vars

(* With any number of threads, no line of a package is torn apart by another  *)
(* thread that writes to it: sc_log holds the mutex of the package from the   *)
(* beginning of the line to the end of the message.                           *)
THEOREM LogLinesAreWhole ==
  ASSUME ThreadsOK
  PROVE  Spec => []LinesAreWhole
<1>1. Init => AccountInv /\ TableInv /\ LineInv
  <2> SUFFICES ASSUME Init PROVE LineInv
    BY InitAccounts
  <2>1. output = <<>> /\ where = [t \in Threads |-> "idle"]
    BY Zenon DEF Init
  <2>2. output \in Seq(Part) /\ Len(output) = 0 /\ 1 .. 0 = {}
    BY <2>1
  <2>3. \A t \in Threads : \A p \in Int : ~Writing(t, p)
    <3>1. "idle" # "write"
      OBVIOUS
    <3> QED
      BY <2>1, <3>1, Zenon DEF Writing
  <2>4. \A p \in Int : ~Odd(output, p)
    <3>1. \A p : PartsUpTo(output, p, Len(output)) = {}
      BY <2>2, Zenon DEF PartsUpTo
    <3>2. Cardinality({}) = 0 /\ 0 % 2 # 1
      BY FS_EmptySet
    <3> QED
      BY <3>1, <3>2, Zenon DEF Odd
  <2>5. LinesAreWhole
    BY <2>2, Zenon DEF LinesAreWhole, Paired
  <2> QED
    BY <2>2, <2>3, <2>4, <2>5, Zenon DEF LineInv
<1>2. (AccountInv /\ TableInv /\ LineInv) /\ [Next]_vars => (AccountInv /\ TableInv /\ LineInv)'
  BY StepAccounts, StepLines
<1>3. LineInv => LinesAreWhole
  BY Zenon DEF LineInv
<1> QED
  BY <1>1, <1>2, <1>3, PTL DEF Spec
=============================================================================
