--------------------------- MODULE HashShmem_proofs -------------------------
(***************************************************************************)
(* Hash tables and hash arrays are sound for any objects and hash values,  *)
(* and shared arrays are read as promised for any number of nodes and      *)
(* ranks.                                                                  *)
(***************************************************************************)
EXTENDS Hash, Shmem, FiniteSetTheorems, WellFoundedInduction, TLAPS

(* What is assumed of the constants.  A caller that writes directly has a     *)
(* barrier before it (sc_shmem.h), and ranks are placed on the nodes in       *)
(* blocks, as the order in which the node roots gather requires.              *)
Positive == P \in Nat \ {0} /\ Count \in Nat \ {0} /\ MaxCalls \in Nat
Blocks(f) == \A q, r \in Ranks : q <= r => f[q] <= f[r]
Documented == /\ Positive /\ CallerSync = TRUE
              /\ Types \subseteq {"BASIC", "PRESCAN", "WINDOW", "WINDOW_PRESCAN"}
              /\ Ops \subseteq {"allgather", "prefix", "memcpy"} /\ PerNode \subseteq Nat
              /\ \A f \in Placements : f \in [Ranks -> Int] /\ Blocks(f)

(* The roots of nodes: each rank has one, which is its own root.              *)
Rooted(nd) == /\ nd \in [Ranks -> Ranks]
              /\ \A r \in Ranks : nd[nd[r]] = nd[r] /\ nd[r] <= r

(* What call c leaves in the array, before and after the scan in place.       *)
Written(c) == CASE kind[c] = "memcpy" -> sc_shmem_memcpy(c)
                [] kind[c] = "allgather" -> sc_shmem_allgather(c)
                [] OTHER -> sc_shmem_prefix(c)
Left(c) == IF c = 0 THEN <<>> ELSE IF Scans(c) THEN sc_scan_on_array(Written(c)) ELSE Written(c)

(* Calls that a rank has returned from, and calls it needs no longer write in. *)
Before == {"sync", "scan", "start", "write", "sum"}
returned == [r \in Ranks |-> IF pc[r] \in Before \cup {"end"} THEN calls[r] - 1 ELSE calls[r]]
wrote == [r \in Ranks |-> IF pc[r] \in Before THEN calls[r] - 1 ELSE calls[r]]

(* The states of ranks, and how far each is in the calls.                     *)
Typed == /\ node = <<>> \/ Rooted(node)
         /\ kind \in Seq(Ops) /\ calls \in [Ranks -> 0 .. MaxCalls]
         /\ pc \in [Ranks -> Before \cup {"new", "alloc", "idle", "end", "free", "freed"}]
         /\ given \in [Ranks -> 0 .. MaxCalls] /\ DOMAIN mem = Ranks
         /\ \A r \in Ranks : /\ calls[r] <= Len(kind) /\ given[r] <= calls[r]
                             /\ pc[r] \in Before \cup {"end"} => calls[r] >= 1
                             /\ pc[r] \in {"new", "alloc"} => calls[r] = 0

(* No rank returns from a call before its team has done with writing in it.   *)
BarriersAt(r) == \A q \in Team(r) :
                   /\ returned[r] <= wrote[q]
                   /\ pc[r] \notin {"new", "alloc"} => pc[q] # "new"
                   /\ pc[r] = "freed" => pc[q] \in {"free", "freed"}

(* No leader writes in a call that some rank has not begun.                   *)
WritersAt(r) == /\ pc[r] \in {"write", "sum"} => r = Leader(r)
                /\ pc[r] = "scan" => kind[calls[r]] # "memcpy"
                /\ \A q \in Ranks :
                     /\ r = Leader(r) => wrote[r] <= calls[q]
                     /\ pc[r] = "sum" => calls[r] <= calls[q]
                     /\ pc[r] \in {"start", "write"} /\ kind[calls[r]] = "memcpy" => calls[r] <= calls[q]

(* The array of a leader has what the calls it wrote in left there.           *)
ArraysAt(r) == r = Leader(r) =>
                 /\ pc[r] \notin {"new", "sum", "freed"} => mem[r] = Left(wrote[r])
                 /\ pc[r] = "sum" => mem[r] = Written(calls[r]) /\ Scans(calls[r])

ShmemInv == Typed /\ \A r \in Ranks : BarriersAt(r) /\ WritersAt(r) /\ ArraysAt(r)

-----------------------------------------------------------------------------
(* A rank belongs to its team, as does its leader, and the members of a team  *)
(* have the same leader.                                                      *)
LEMMA Teams ==
  ASSUME node = <<>> \/ Rooted(node), NEW r \in Ranks
  PROVE  /\ Team(r) \subseteq Ranks /\ r \in Team(r) /\ Leader(r) \in Team(r)
         /\ Leader(Leader(r)) = Leader(r)
         /\ \A q \in Team(r) : r \in Team(q) /\ Leader(q) = Leader(r)
<1>1. CASE Shared
  <2>1. Rooted(node)
    BY <1>1, Zenon DEF Shared, Effective
  <2>2. node[r] \in Ranks /\ node[node[r]] = node[r]
    BY <2>1, Zenon DEF Rooted
  <2> QED
    BY <1>1, <2>2, Zenon DEF Team, Leader
<1>2. CASE ~Shared
  BY <1>2, Zenon DEF Team, Leader
<1> QED
  BY <1>1, <1>2, Zenon

(* Nothing of this depends on what the ranks do.                              *)
LEMMA TeamsStay ==
  ASSUME UNCHANGED <<type, node>>
  PROVE  \A r \in Ranks : Team(r)' = Team(r) /\ Leader(r)' = Leader(r)
BY Zenon DEF Team, Leader, Shared, Effective

(* Neither does what a call that has begun leaves in the array.               *)
LEMMA LeftStays ==
  ASSUME UNCHANGED <<type, node, order>>, kind \in Seq(Ops),
         \A d \in 1 .. Len(kind) : kind'[d] = kind[d]
  PROVE  \A c \in 0 .. Len(kind) :
            /\ Left(c)' = Left(c)
            /\ c # 0 => kind'[c] = kind[c] /\ Written(c)' = Written(c) /\ Scans(c)' = Scans(c)
<1> TAKE c \in 0 .. Len(kind)
<1>1. CASE c = 0
  BY <1>1, Zenon DEF Left
<1>2. CASE c # 0
  <2>1. kind'[c] = kind[c]
    BY <1>2
  <2>2. /\ sc_shmem_allgather(c)' = sc_shmem_allgather(c) /\ sc_shmem_prefix(c)' = sc_shmem_prefix(c)
        /\ sc_shmem_memcpy(c)' = sc_shmem_memcpy(c)
    BY Zenon DEF sc_shmem_allgather, sc_shmem_prefix, sc_shmem_memcpy, Shared, Effective,
         sc_shmem_allgather_basic, sc_shmem_allgather_common, sc_shmem_prefix_basic, sc_shmem_prefix_prescan,
         sc_shmem_prefix_common, sc_shmem_prefix_common_prescan
  <2>3. Written(c)' = Written(c) /\ Scans(c)' = Scans(c)
    BY <2>1, <2>2, Zenon DEF Written, Scans, Effective
  <2> QED
    BY <1>2, <2>1, <2>3, Zenon DEF Left
<1> QED
  BY <1>1, <1>2, Zenon

(* Numbers of calls are numbers.                                              *)
LEMMA Counts ==
  ASSUME Typed, Positive
  PROVE  \A r \in Ranks : /\ calls[r] \in Nat /\ given[r] \in Nat /\ calls[r] \in 0 .. Len(kind)
                          /\ wrote[r] \in 0 .. calls[r] /\ returned[r] \in 0 .. wrote[r]
                          /\ Len(kind) \in Nat
<1> SUFFICES ASSUME NEW r \in Ranks
             PROVE  /\ calls[r] \in Nat /\ given[r] \in Nat /\ calls[r] \in 0 .. Len(kind)
                    /\ wrote[r] \in 0 .. calls[r] /\ returned[r] \in 0 .. wrote[r]
                    /\ Len(kind) \in Nat
  BY Zenon
<1>1. calls[r] \in 0 .. MaxCalls /\ given[r] \in 0 .. MaxCalls /\ Len(kind) \in Nat /\ MaxCalls \in Nat
  BY DEF Typed, Positive
<1>2. calls[r] <= Len(kind) /\ (pc[r] \in Before \cup {"end"} => calls[r] >= 1)
  BY Zenon DEF Typed
<1>3. /\ wrote[r] = IF pc[r] \in Before THEN calls[r] - 1 ELSE calls[r]
      /\ returned[r] = IF pc[r] \in Before \cup {"end"} THEN calls[r] - 1 ELSE calls[r]
  BY Zenon DEF wrote, returned
<1> QED
  BY <1>1, <1>2, <1>3

(* A step of rank r alone keeps the invariant if it does so for r, does not   *)
(* take back what r has written, and stays in sc_shmem_free.                  *)
LEMMA StepOfOne ==
  ASSUME Positive, ShmemInv, NEW r \in Ranks, Typed', UNCHANGED <<type, node, order>>,
         \A d \in 1 .. Len(kind) : kind'[d] = kind[d],
         \A q \in Ranks \ {r} : pc'[q] = pc[q] /\ calls'[q] = calls[q] /\ mem'[q] = mem[q],
         calls[r] <= calls'[r], wrote[r] <= wrote'[r], pc'[r] # "new",
         pc[r] \in {"free", "freed"} => pc'[r] \in {"free", "freed"},
         BarriersAt(r)', WritersAt(r)', ArraysAt(r)'
  PROVE  ShmemInv'
<1>1. /\ \A q \in Ranks : calls[q] \in Nat /\ calls[q] \in 0 .. Len(kind) /\ wrote[q] \in 0 .. calls[q]
                          /\ returned[q] \in Nat
      /\ \A q \in Ranks : calls'[q] \in Nat /\ wrote'[q] \in 0 .. calls'[q] /\ returned'[q] \in Nat
      /\ Len(kind) \in Nat /\ kind \in Seq(Ops)
  <2>1. Typed /\ r \in Ranks
    BY Zenon DEF ShmemInv
  <2>2. \A q \in Ranks : /\ calls[q] \in Nat /\ calls[q] \in 0 .. Len(kind)
                         /\ wrote[q] \in 0 .. calls[q] /\ returned[q] \in 0 .. wrote[q] /\ Len(kind) \in Nat
    BY <2>1, Counts, Zenon
  <2>3. \A q \in Ranks : /\ calls'[q] \in Nat
                         /\ wrote'[q] \in 0 .. calls'[q] /\ returned'[q] \in 0 .. wrote'[q]
    <3> TAKE q \in Ranks
    <3>1. calls'[q] \in 0 .. MaxCalls /\ MaxCalls \in Nat
      BY Zenon DEF Typed, Positive
    <3>2. pc'[q] \in Before \cup {"end"} => calls'[q] >= 1
      BY Zenon DEF Typed
    <3>3. /\ wrote'[q] = IF pc'[q] \in Before THEN calls'[q] - 1 ELSE calls'[q]
          /\ returned'[q] = IF pc'[q] \in Before \cup {"end"} THEN calls'[q] - 1 ELSE calls'[q]
      BY Zenon DEF wrote, returned
    <3> QED
      BY <3>1, <3>2, <3>3
  <2> QED
    BY <2>1, <2>2, <2>3 DEF Typed
<1>2. \A q \in Ranks \ {r} : wrote'[q] = wrote[q] /\ returned'[q] = returned[q]
  BY Zenon DEF wrote, returned
<1>3. \A q \in Ranks : Team(q)' = Team(q) /\ Leader(q)' = Leader(q)
  BY TeamsStay, Zenon
<1>4. ASSUME NEW q \in Ranks \ {r} PROVE BarriersAt(q)'
  <2>1. BarriersAt(q)
    BY Zenon DEF ShmemInv
  <2>2. Team(q) \subseteq Ranks
    BY Teams, Zenon DEF ShmemInv, Typed
  <2>3. ASSUME NEW p \in Team(q)
        PROVE  /\ returned'[q] <= wrote'[p]
               /\ pc'[q] \notin {"new", "alloc"} => pc'[p] # "new"
               /\ pc'[q] = "freed" => pc'[p] \in {"free", "freed"}
    <3>1. p \in Ranks /\ returned[q] <= wrote[p] /\ wrote[p] <= wrote'[p]
      BY <1>1, <1>2, <2>1, <2>2 DEF BarriersAt
    <3>2. returned'[q] <= wrote'[p]
      BY <1>1, <1>2, <3>1
    <3> QED
      BY <2>1, <3>1, <3>2, Zenon DEF BarriersAt
  <2> QED
    BY <1>3, <2>3, Zenon DEF BarriersAt
<1>5. ASSUME NEW q \in Ranks \ {r} PROVE WritersAt(q)' /\ ArraysAt(q)'
  <2>1. WritersAt(q) /\ ArraysAt(q)
    BY Zenon DEF ShmemInv
  <2>2. \A p \in Ranks : calls[p] <= calls'[p]
    <3>1. \A n \in Nat : n <= n
      OBVIOUS
    <3>2. \A p \in Ranks : calls[p] \in Nat
      BY <1>1, Zenon
    <3> QED
      BY <3>1, <3>2, Zenon
  <2>3. \A c \in 0 .. Len(kind) :
            /\ Left(c)' = Left(c)
            /\ c # 0 => kind'[c] = kind[c] /\ Written(c)' = Written(c) /\ Scans(c)' = Scans(c)
    BY <1>1, LeftStays, Zenon
  <2>4. wrote[q] \in 0 .. Len(kind) /\ calls[q] \in 0 .. Len(kind)
    BY <1>1
  <2>5. (calls[q] >= 1) => calls[q] # 0
    BY <1>1
  <2>6. pc[q] \in Before => calls[q] >= 1
    BY Zenon DEF ShmemInv, Typed
  <2>7. WritersAt(q)'
    <3>1. pc'[q] = pc[q] /\ calls'[q] = calls[q] /\ wrote'[q] = wrote[q] /\ Leader(q)' = Leader(q)
      BY <1>2, <1>3, Zenon
    <3>2. pc[q] \in {"scan", "start", "write"} => kind'[calls[q]] = kind[calls[q]]
      BY <2>3, <2>4, <2>5, <2>6, Zenon DEF Before
    <3>3. \A p \in Ranks : \A n \in Nat : n <= calls[p] => n <= calls'[p]
      BY <1>1, <2>2
    <3>4. wrote[q] \in Nat /\ calls[q] \in Nat
      BY <1>1
    <3> QED
      BY <2>1, <3>1, <3>2, <3>3, <3>4, Zenon DEF WritersAt
  <2>8. ArraysAt(q)'
    <3>1. Left(wrote[q])' = Left(wrote[q])
      BY <1>2, <2>3, <2>4, Zenon
    <3>2. pc[q] = "sum" => Written(calls[q])' = Written(calls[q]) /\ Scans(calls[q])' = Scans(calls[q])
      BY <2>3, <2>4, <2>5, <2>6, Zenon DEF Before
    <3> QED
      BY <1>2, <1>3, <2>1, <3>1, <3>2, Zenon DEF ArraysAt
  <2> QED
    BY <2>7, <2>8, Zenon
<1> QED
  BY <1>4, <1>5, Zenon DEF ShmemInv

(* The steps within a call, and those of allocating and freeing, take rank r  *)
(* to another place x; what each has to establish for the invariant.          *)
InCall == Before \cup {"end"}
LEMMA StepWithin ==
  ASSUME Positive, ShmemInv, NEW r \in Ranks, UNCHANGED <<type, node, order, kind, calls>>,
         NEW x \in InCall \cup {"alloc", "idle", "free", "freed"}, pc' = [pc EXCEPT ![r] = x],
         given' \in [Ranks -> 0 .. MaxCalls], \A q \in Ranks : given'[q] <= calls[q],
         DOMAIN mem' = Ranks, \A q \in Ranks \ {r} : mem'[q] = mem[q],
         pc[r] \in {"free", "freed"} => x \in {"free", "freed"},
         x \in InCall => pc[r] \in InCall, x = "alloc" => pc[r] = "new",
         x \in Before => pc[r] \in Before,
         \/ x \in InCall \/ pc[r] \notin InCall
         \/ \A q \in Team(r) \ {r} : calls[r] <= wrote[q],
         \/ x = "alloc" \/ pc[r] \notin {"new", "alloc"}
         \/ \A q \in Team(r) \ {r} : pc[q] # "new",
         x = "freed" => \A q \in Team(r) \ {r} : pc[q] \in {"free", "freed"},
         x \in {"write", "sum"} => r = Leader(r), x # "scan",
         (\/ x \notin Before /\ r = Leader(r) /\ pc[r] \in Before
          \/ x = "sum"
          \/ x \in {"start", "write"} /\ kind[calls[r]] = "memcpy") => \A q \in Ranks : calls[r] <= calls[q],
         r = Leader(r) =>
           /\ x \notin {"sum", "freed"} => mem'[r] = Left(IF x \in Before THEN calls[r] - 1 ELSE calls[r])
           /\ x = "sum" => mem'[r] = Written(calls[r]) /\ Scans(calls[r])
  PROVE  ShmemInv'
<1> USE DEF InCall
<1>1. /\ \A q \in Ranks : /\ calls[q] \in Nat /\ calls[q] \in 0 .. Len(kind)
                          /\ wrote[q] \in 0 .. calls[q] /\ returned[q] \in 0 .. wrote[q]
      /\ Typed /\ pc \in [Ranks -> Before \cup {"new", "alloc", "idle", "end", "free", "freed"}]
  BY Counts, Zenon DEF ShmemInv, Typed
<1>2. pc'[r] = x /\ \A q \in Ranks \ {r} : pc'[q] = pc[q]
  BY <1>1, Zenon
<1>3. Typed'
  <2>1. pc' \in [Ranks -> Before \cup {"new", "alloc", "idle", "end", "free", "freed"}]
    BY <1>1, Zenon
  <2>2. \A q \in Ranks : /\ pc'[q] \in Before \cup {"end"} => calls[q] >= 1
                         /\ pc'[q] \in {"new", "alloc"} => calls[q] = 0
    BY <1>1, <1>2, Zenon DEF Typed, Before
  <2> QED
    BY <1>1, <2>1, <2>2, Zenon DEF Typed, Rooted
<1>4. /\ wrote'[r] = IF x \in Before THEN calls[r] - 1 ELSE calls[r]
      /\ returned'[r] = IF x \in InCall THEN calls[r] - 1 ELSE calls[r]
      /\ wrote[r] = IF pc[r] \in Before THEN calls[r] - 1 ELSE calls[r]
      /\ returned[r] = IF pc[r] \in InCall THEN calls[r] - 1 ELSE calls[r]
  BY <1>2, Zenon DEF wrote, returned
<1>5. wrote[r] <= wrote'[r] /\ returned'[r] <= wrote'[r]
  BY <1>1, <1>4
<1>6. \A q \in Ranks \ {r} : wrote'[q] = wrote[q]
  BY <1>2, Zenon DEF wrote
<1>7. Team(r)' = Team(r) /\ Leader(r)' = Leader(r) /\ Team(r) \subseteq Ranks
  BY <1>1, TeamsStay, Teams, Zenon DEF Typed
<1>8. BarriersAt(r)'
  <2> SUFFICES ASSUME NEW q \in Team(r)
               PROVE  /\ returned'[r] <= wrote'[q]
                      /\ pc'[r] \notin {"new", "alloc"} => pc'[q] # "new"
                      /\ pc'[r] = "freed" => pc'[q] \in {"free", "freed"}
    BY <1>7, Zenon DEF BarriersAt
  <2>1. /\ returned[r] <= wrote[q]
        /\ pc[r] \notin {"new", "alloc"} => pc[q] # "new"
    BY Zenon DEF ShmemInv, BarriersAt
  <2>2. CASE q = r
    BY <1>2, <1>5, <2>2, Zenon DEF Before
  <2>3. CASE q # r
    <3>1. q \in Ranks \ {r} /\ wrote'[q] = wrote[q] /\ pc'[q] = pc[q]
      BY <1>2, <1>6, <1>7, <2>3, Zenon
    <3>2. returned'[r] <= wrote'[q]
      <4>1. calls[r] \in Nat /\ wrote[q] \in Nat
        BY <1>1, <3>1
      <4>2. CASE x \in InCall \/ pc[r] \notin InCall
        BY <1>4, <2>1, <3>1, <4>1, <4>2, Zenon
      <4>3. CASE calls[r] <= wrote[q]
        BY <1>4, <3>1, <4>1, <4>3
      <4> QED
        BY <2>3, <3>1, <4>2, <4>3, Zenon
    <3>3. pc'[r] \notin {"new", "alloc"} => pc'[q] # "new"
      BY <1>2, <2>1, <2>3, <3>1, Zenon
    <3> QED
      BY <1>2, <2>3, <3>1, <3>2, <3>3, Zenon
  <2> QED
    BY <2>2, <2>3, Zenon
<1>9. WritersAt(r)'
  <2>1. WritersAt(r)
    BY Zenon DEF ShmemInv
  <2>2. ASSUME NEW q \in Ranks, r = Leader(r) PROVE wrote'[r] <= calls'[q]
    <3>1. wrote[r] <= calls[q]
      BY <2>1, <2>2, Zenon DEF WritersAt
    <3>2. CASE x \notin Before /\ pc[r] \in Before
      BY <1>4, <2>2, <3>2, Zenon
    <3>3. CASE ~(x \notin Before /\ pc[r] \in Before)
      BY <1>4, <3>1, <3>3, Zenon
    <3> QED
      BY <3>2, <3>3, Zenon
  <2>3. \A q \in Ranks : x \in {"start", "write"} /\ kind[calls[r]] = "memcpy" => calls[r] <= calls[q]
    OBVIOUS
  <2> QED
    BY <1>2, <1>7, <2>2, <2>3, Zenon DEF WritersAt
<1>10. ArraysAt(r)'
  <2>1. kind \in Seq(Ops)
    BY <1>1, Zenon DEF Typed
  <2>2. \A c \in 0 .. Len(kind) :
            /\ Left(c)' = Left(c)
            /\ c # 0 => Written(c)' = Written(c) /\ Scans(c)' = Scans(c)
    BY <2>1, LeftStays, Zenon
  <2>3. wrote'[r] \in 0 .. Len(kind)
    BY <1>1, <1>2, <1>4, <1>3 DEF Typed
  <2>4. Left(wrote[r])' = Left(wrote'[r])
    BY <2>2, <2>3, Zenon
  <2>5. x = "sum" => Written(calls[r])' = Written(calls[r]) /\ Scans(calls[r])' = Scans(calls[r])
    <3>1. x = "sum" => calls[r] \in 0 .. Len(kind) /\ calls[r] # 0
      BY <1>1, <1>2, <1>3 DEF Typed, Before
    <3> QED
      BY <2>2, <3>1, Zenon
  <2> QED
    BY <1>2, <1>4, <1>7, <2>4, <2>5, Zenon DEF ArraysAt
<1> QED
  BY <1>1, <1>2, <1>3, <1>5, <1>8, <1>9, <1>10, StepOfOne DEF Before

(* sc_shmem_malloc gives a leader an empty array, and nobody goes on before   *)
(* the window of its node exists.                                             *)
LEMMA MallocStep ==
  ASSUME Positive, ShmemInv, NEW r \in Ranks, sc_shmem_malloc(r) \/ sc_shmem_malloc_window(r)
  PROVE  ShmemInv'
<1> USE DEF InCall, Before
<1>1. Typed /\ ArraysAt(r) /\ (~Shared => Team(r) = {r})
  BY Zenon DEF ShmemInv, Team
<1>2. /\ given \in [Ranks -> 0 .. MaxCalls] /\ \A q \in Ranks : given[q] <= calls[q]
      /\ DOMAIN mem = Ranks /\ (pc[r] \in {"new", "alloc"} => calls[r] = 0)
  BY <1>1, Zenon DEF Typed
<1>3. CASE sc_shmem_malloc(r)
  <2> DEFINE x == IF Shared THEN "alloc" ELSE "idle"
  <2>1. /\ pc[r] = "new" /\ mem' = [mem EXCEPT ![r] = <<>>] /\ pc' = [pc EXCEPT ![r] = x]
        /\ UNCHANGED <<type, node, order, kind, calls, given>>
    BY <1>3, Zenon DEF sc_shmem_malloc
  <2>2. x \in {"alloc", "idle"} /\ (x = "alloc" \/ Team(r) = {r})
    BY <1>1, Zenon
  <2>3. mem'[r] = Left(calls[r]) /\ DOMAIN mem' = Ranks /\ \A q \in Ranks \ {r} : mem'[q] = mem[q]
    BY <1>2, <2>1, Zenon DEF Left
  <2> HIDE DEF x
  <2> QED
    BY <1>2, <2>1, <2>2, <2>3, StepWithin, Zenon
<1>4. CASE sc_shmem_malloc_window(r)
  <2>1. /\ pc[r] = "alloc" /\ \A q \in Team(r) : pc[q] # "new"
        /\ pc' = [pc EXCEPT ![r] = "idle"] /\ UNCHANGED <<type, node, order, kind, calls, given, mem>>
    BY <1>4, Zenon DEF sc_shmem_malloc_window
  <2>2. r = Leader(r) => mem[r] = Left(calls[r])
    BY <1>1, <2>1, Zenon DEF ArraysAt, wrote
  <2> QED
    BY <1>2, <2>1, <2>2, StepWithin, Zenon
<1> QED
  BY <1>3, <1>4, Zenon

(* sc_shmem_free takes an array away when nobody of the team is to read it.   *)
LEMMA FreeStep ==
  ASSUME Positive, ShmemInv, NEW r \in Ranks, sc_shmem_free(r) \/ sc_shmem_free_window(r)
  PROVE  ShmemInv'
<1> USE DEF InCall, Before
<1>1. Typed /\ ArraysAt(r) /\ (~Shared => Team(r) = {r})
  BY Zenon DEF ShmemInv, Team
<1>2. /\ given \in [Ranks -> 0 .. MaxCalls] /\ \A q \in Ranks : given[q] <= calls[q]
      /\ DOMAIN mem = Ranks
  BY <1>1, Zenon DEF Typed
<1>3. CASE sc_shmem_free(r)
  <2> DEFINE x == IF Shared THEN "free" ELSE "freed"
  <2>1. /\ pc[r] = "idle" /\ pc' = [pc EXCEPT ![r] = x]
        /\ mem' = IF Shared THEN mem ELSE [mem EXCEPT ![r] = NoArray]
        /\ UNCHANGED <<type, node, order, kind, calls, given>>
    BY <1>3, Zenon DEF sc_shmem_free
  <2>2. /\ x \in {"free", "freed"} /\ (x = "freed" => Team(r) = {r}) /\ (x = "free" => mem' = mem)
        /\ DOMAIN mem' = Ranks /\ \A q \in Ranks \ {r} : mem'[q] = mem[q]
    BY <1>1, <1>2, <2>1, Zenon
  <2>3. r = Leader(r) => mem[r] = Left(calls[r])
    BY <1>1, <2>1, Zenon DEF ArraysAt, wrote
  <2> HIDE DEF x
  <2> QED
    BY <1>2, <2>1, <2>2, <2>3, StepWithin, Zenon
<1>4. CASE sc_shmem_free_window(r)
  <2>1. /\ pc[r] = "free" /\ \A q \in Team(r) : pc[q] \in {"free", "freed"}
        /\ pc' = [pc EXCEPT ![r] = "freed"] /\ UNCHANGED <<type, node, order, kind, calls, given>>
        /\ mem' = IF r = Leader(r) THEN [mem EXCEPT ![r] = NoArray] ELSE mem
    BY <1>4, Zenon DEF sc_shmem_free_window
  <2>2. DOMAIN mem' = Ranks /\ \A q \in Ranks \ {r} : mem'[q] = mem[q]
    BY <1>2, <2>1, Zenon
  <2> QED
    BY <1>2, <2>1, <2>2, StepWithin, Zenon
<1> QED
  BY <1>3, <1>4, Zenon

(* Up to the write: the caller's barrier, the contribution, and               *)
(* sc_shmem_write_start, which sends all but the leader on to the end.        *)
LEMMA StartStep ==
  ASSUME Positive, CallerSync = TRUE, ShmemInv, NEW r \in Ranks,
         Sync(r) \/ Contribute(r) \/ sc_shmem_write_start(r)
  PROVE  ShmemInv'
<1> USE DEF InCall, Before
<1>1. Typed /\ ArraysAt(r) /\ WritersAt(r)
  BY Zenon DEF ShmemInv
<1>2. /\ given \in [Ranks -> 0 .. MaxCalls] /\ \A q \in Ranks : given[q] <= calls[q]
      /\ DOMAIN mem = Ranks /\ calls \in [Ranks -> 0 .. MaxCalls]
  BY <1>1, Zenon DEF Typed
<1>3. pc[r] \in {"sync", "scan", "start"} /\ r = Leader(r) => mem[r] = Left(calls[r] - 1)
  BY <1>1, Zenon DEF ArraysAt, wrote
<1>4. CASE Sync(r)
  <2>1. /\ pc[r] = "sync" /\ \A q \in Ranks : calls[q] >= calls[r]
        /\ pc' = [pc EXCEPT ![r] = "start"] /\ UNCHANGED <<type, node, order, kind, calls, given, mem>>
    BY <1>4, Zenon DEF Sync
  <2>2. \A q \in Ranks : calls[r] <= calls[q]
    BY <1>2, <2>1, Zenon
  <2> QED
    BY <1>2, <1>3, <2>1, <2>2, StepWithin, Zenon
<1>5. CASE Contribute(r)
  <2>1. /\ pc[r] = "scan" /\ given' = [given EXCEPT ![r] = calls[r]]
        /\ pc' = [pc EXCEPT ![r] = "start"] /\ UNCHANGED <<type, node, order, kind, calls, mem>>
    BY <1>5, Zenon DEF Contribute
  <2>2. given' \in [Ranks -> 0 .. MaxCalls] /\ \A q \in Ranks : given'[q] <= calls[q]
    BY <1>2, <2>1
  <2>3. kind[calls[r]] # "memcpy"
    BY <1>1, <2>1, Zenon DEF WritersAt
  <2> QED
    BY <1>2, <1>3, <2>1, <2>2, <2>3, StepWithin, Zenon
<1>6. CASE sc_shmem_write_start(r)
  <2> DEFINE x == IF Shared THEN sc_shmem_write_start_window(r) ELSE sc_shmem_write_start_basic(r)
  <2>1. /\ pc[r] = "start" /\ pc' = [pc EXCEPT ![r] = x]
        /\ UNCHANGED <<type, node, order, kind, calls, given, mem>>
    BY <1>6, Zenon DEF sc_shmem_write_start
  <2>2. x = IF r = Leader(r) THEN "write" ELSE "end"
    BY Zenon DEF sc_shmem_write_start_window, sc_shmem_write_start_basic, Leader
  <2>3. kind[calls[r]] = "memcpy" => \A q \in Ranks : calls[r] <= calls[q]
    BY <1>1, <2>1, Zenon DEF WritersAt
  <2> HIDE DEF x
  <2> QED
    BY <1>2, <1>3, <2>1, <2>2, <2>3, StepWithin, Zenon
<1> QED
  BY <1>4, <1>5, <1>6, Zenon

(* The write and the scan in place: of the leader, when all ranks are in the  *)
(* call.                                                                      *)
LEMMA WriteStep ==
  ASSUME Positive, ShmemInv, NEW r \in Ranks, Write(r) \/ Scan(r)
  PROVE  ShmemInv'
<1> USE DEF InCall, Before
<1>1. Typed /\ ArraysAt(r) /\ WritersAt(r)
  BY Zenon DEF ShmemInv
<1>2. /\ given \in [Ranks -> 0 .. MaxCalls] /\ \A q \in Ranks : given[q] <= calls[q]
      /\ DOMAIN mem = Ranks /\ calls \in [Ranks -> 0 .. MaxCalls] /\ MaxCalls \in Nat
      /\ pc[r] \in Before => calls[r] >= 1
  BY <1>1, Zenon DEF Typed, Positive
<1>3. CASE Write(r)
  <2> DEFINE x == IF Scans(calls[r]) THEN "sum" ELSE "end"
  <2>1. /\ pc[r] = "write" /\ pc' = [pc EXCEPT ![r] = x]
        /\ kind[calls[r]] # "memcpy" => \A q \in Ranks : given[q] >= calls[r]
        /\ mem' = [mem EXCEPT ![r] = Written(calls[r])]
        /\ UNCHANGED <<type, node, order, kind, calls, given>>
    BY <1>3, Zenon DEF Write, Written
  <2>2. /\ DOMAIN mem' = Ranks /\ mem'[r] = Written(calls[r])
        /\ \A q \in Ranks \ {r} : mem'[q] = mem[q]
    BY <1>2, <2>1, Zenon
  <2>3. \A q \in Ranks : calls[r] <= calls[q]
    <3>1. CASE kind[calls[r]] = "memcpy"
      BY <1>1, <2>1, <3>1, Zenon DEF WritersAt
    <3>2. CASE kind[calls[r]] # "memcpy"
      BY <1>2, <2>1, <3>2
    <3> QED
      BY <3>1, <3>2, Zenon
  <2>4. r = Leader(r)
    BY <1>1, <2>1, Zenon DEF WritersAt
  <2>5. /\ x \in {"sum", "end"} /\ (x = "sum" => Scans(calls[r]))
        /\ x = "end" => mem'[r] = Left(calls[r])
    BY <1>2, <2>1, <2>2 DEF Left
  <2> HIDE DEF x
  <2> QED
    BY <1>2, <2>1, <2>2, <2>3, <2>4, <2>5, StepWithin, Zenon
<1>4. CASE Scan(r)
  <2>1. /\ pc[r] = "sum" /\ mem' = [mem EXCEPT ![r] = sc_scan_on_array(mem[r])]
        /\ pc' = [pc EXCEPT ![r] = "end"] /\ UNCHANGED <<type, node, order, kind, calls, given>>
    BY <1>4, Zenon DEF Scan
  <2>2. /\ r = Leader(r) /\ \A q \in Ranks : calls[r] <= calls[q]
        /\ mem[r] = Written(calls[r]) /\ Scans(calls[r])
    BY <1>1, <2>1, Zenon DEF WritersAt, ArraysAt
  <2>3. /\ DOMAIN mem' = Ranks /\ mem'[r] = sc_scan_on_array(mem[r])
        /\ \A q \in Ranks \ {r} : mem'[q] = mem[q]
    BY <1>2, <2>1, Zenon
  <2>4. calls[r] # 0
    BY <1>2, <2>1
  <2>5. mem'[r] = Left(calls[r])
    BY <2>2, <2>3, <2>4, Zenon DEF Left
  <2> QED
    BY <1>2, <2>1, <2>2, <2>3, <2>5, StepWithin, Zenon
<1> QED
  BY <1>3, <1>4, Zenon

(* The barrier of sc_shmem_write_end: the whole team has done with writing.   *)
LEMMA EndStep ==
  ASSUME Positive, ShmemInv, NEW r \in Ranks, sc_shmem_write_end(r)
  PROVE  ShmemInv'
<1> USE DEF InCall, Before
<1>1. Typed /\ ArraysAt(r)
  BY Zenon DEF ShmemInv
<1>2. /\ given \in [Ranks -> 0 .. MaxCalls] /\ \A q \in Ranks : given[q] <= calls[q]
      /\ DOMAIN mem = Ranks /\ calls \in [Ranks -> 0 .. MaxCalls] /\ MaxCalls \in Nat
      /\ Team(r) \subseteq Ranks
  BY <1>1, Teams, Zenon DEF Typed, Positive
<1>3. /\ pc[r] = "end" /\ \A q \in Team(r) : Arrived(q, calls[r])
      /\ pc' = [pc EXCEPT ![r] = "idle"] /\ UNCHANGED <<type, node, order, kind, calls, given, mem>>
  BY Zenon DEF sc_shmem_write_end
<1>4. \A q \in Team(r) : calls[r] <= wrote[q]
  <2> TAKE q \in Team(r)
  <2>1. q \in Ranks /\ calls[q] \in Int /\ calls[r] \in Int
    BY <1>2
  <2>2. wrote[q] = IF pc[q] \in Before THEN calls[q] - 1 ELSE calls[q]
    BY <2>1, Zenon DEF wrote
  <2>3. calls[q] > calls[r] \/ (calls[q] = calls[r] /\ pc[q] \notin Before)
    BY <1>3, Zenon DEF Arrived
  <2> QED
    BY <2>1, <2>2, <2>3
<1>5. r = Leader(r) => mem[r] = Left(calls[r])
  BY <1>1, <1>3, Zenon DEF ArraysAt, wrote
<1> QED
  BY <1>2, <1>3, <1>4, <1>5, StepWithin, Zenon

(* A rank begins its next call, one that others have begun or a new one.      *)
LEMMA EnterStep ==
  ASSUME Positive, ShmemInv, NEW r \in Ranks, Enter(r)
  PROVE  ShmemInv'
<1> USE DEF InCall, Before
<1> DEFINE c == calls[r] + 1
           x == IF kind'[c] = "memcpy" THEN "sync" ELSE "scan"
<1>1. /\ pc[r] = "idle" /\ c <= MaxCalls
      /\ \/ kind' = kind /\ c \in DOMAIN kind
         \/ c \notin DOMAIN kind /\ \E k \in Ops : kind' = Append(kind, k)
      /\ calls' = [calls EXCEPT ![r] = c] /\ pc' = [pc EXCEPT ![r] = x]
      /\ UNCHANGED <<type, node, order, given, mem>>
  BY Zenon DEF Enter
<1>2. Typed /\ ArraysAt(r) /\ BarriersAt(r) /\ WritersAt(r)
  BY Zenon DEF ShmemInv
<1>3. /\ kind \in Seq(Ops) /\ calls \in [Ranks -> 0 .. MaxCalls] /\ MaxCalls \in Nat
      /\ pc \in [Ranks -> Before \cup {"new", "alloc", "idle", "end", "free", "freed"}]
      /\ given \in [Ranks -> 0 .. MaxCalls] /\ DOMAIN mem = Ranks
      /\ \A q \in Ranks : calls[q] <= Len(kind) /\ given[q] <= calls[q]
      /\ Len(kind) \in Nat /\ DOMAIN kind = 1 .. Len(kind)
  <2>1. kind \in Seq(Ops)
    BY <1>2, Zenon DEF Typed
  <2>2. Len(kind) \in Nat /\ DOMAIN kind = 1 .. Len(kind)
    BY <2>1
  <2> QED
    BY <1>2, <2>1, <2>2, Zenon DEF Typed, Positive
<1>4. /\ \A d \in 1 .. Len(kind) : kind'[d] = kind[d]
      /\ kind' \in Seq(Ops) /\ c <= Len(kind') /\ Len(kind) <= Len(kind') /\ Len(kind') \in Nat
  <2>1. CASE kind' = kind /\ c \in DOMAIN kind
    BY <1>3, <2>1
  <2>2. CASE c \notin DOMAIN kind /\ \E k \in Ops : kind' = Append(kind, k)
    <3>1. PICK k \in Ops : kind' = Append(kind, k)
      BY <2>2, Zenon
    <3>2. c = Len(kind) + 1
      BY <1>3, <2>2
    <3> QED
      BY <1>3, <3>1, <3>2
  <2> QED
    BY <1>1, <2>1, <2>2, Zenon
<1>5. /\ calls' \in [Ranks -> 0 .. MaxCalls] /\ calls'[r] = c /\ c \in 1 .. MaxCalls
      /\ pc'[r] = x /\ x \in {"sync", "scan"} /\ (x = "scan" => kind'[c] # "memcpy")
      /\ pc' \in [Ranks -> Before \cup {"new", "alloc", "idle", "end", "free", "freed"}]
      /\ \A q \in Ranks \ {r} : pc'[q] = pc[q] /\ calls'[q] = calls[q]
  <2>1. c \in 1 .. MaxCalls
    BY <1>1, <1>3
  <2>2. x \in {"sync", "scan"} /\ (x = "scan" => kind'[c] # "memcpy")
    BY Zenon
  <2> HIDE DEF c, x
  <2>3. calls' \in [Ranks -> 0 .. MaxCalls] /\ calls'[r] = c
    BY <1>1, <1>3, <2>1
  <2>4. /\ pc' \in [Ranks -> Before \cup {"new", "alloc", "idle", "end", "free", "freed"}]
        /\ pc'[r] = x
    BY <1>1, <1>3, <2>2, Zenon
  <2>5. \A q \in Ranks \ {r} : pc'[q] = pc[q] /\ calls'[q] = calls[q]
    BY <1>1, <1>3, Zenon
  <2> QED
    BY <2>1, <2>2, <2>3, <2>4, <2>5, Zenon
<1>6. Typed'
  <2>1. \A q \in Ranks : /\ calls'[q] <= Len(kind') /\ given'[q] <= calls'[q]
                         /\ pc'[q] \in Before \cup {"end"} => calls'[q] >= 1
                         /\ pc'[q] \in {"new", "alloc"} => calls'[q] = 0
    <3> TAKE q \in Ranks
    <3>1. CASE q = r
      <4>1. given[r] <= calls[r] /\ given[r] \in Nat /\ calls[r] \in Nat
        BY <1>3
      <4>2. given'[r] <= calls'[r]
        BY <1>1, <1>5, <4>1
      <4> HIDE DEF c, x
      <4> QED
        BY <1>4, <1>5, <3>1, <4>2
    <3>2. CASE q # r
      <4>1. /\ calls[q] \in Nat /\ calls[q] <= Len(kind')
        BY <1>3, <1>4
      <4> QED
        BY <1>1, <1>2, <1>3, <1>5, <3>2, <4>1, Zenon DEF Typed
    <3> QED
      BY <3>1, <3>2, Zenon
  <2> HIDE DEF x
  <2> QED
    BY <1>1, <1>2, <1>3, <1>4, <1>5, <2>1, Zenon DEF Typed, Rooted
<1>7. /\ wrote'[r] = calls[r] /\ returned'[r] = calls[r]
      /\ wrote[r] = calls[r] /\ returned[r] = calls[r]
  <2>1. /\ wrote'[r] = (IF pc'[r] \in Before THEN calls'[r] - 1 ELSE calls'[r])
        /\ returned'[r] = (IF pc'[r] \in InCall THEN calls'[r] - 1 ELSE calls'[r])
        /\ wrote[r] = (IF pc[r] \in Before THEN calls[r] - 1 ELSE calls[r])
        /\ returned[r] = (IF pc[r] \in InCall THEN calls[r] - 1 ELSE calls[r])
    BY Zenon DEF wrote, returned
  <2>2. calls'[r] = calls[r] + 1 /\ calls[r] \in Nat
    BY <1>3, <1>5
  <2> HIDE DEF c, x
  <2> QED
    BY <1>1, <1>5, <2>1, <2>2
<1>8. \A q \in Ranks \ {r} : wrote'[q] = wrote[q]
  BY <1>5, Zenon DEF wrote
<1>9. Team(r)' = Team(r) /\ Leader(r)' = Leader(r) /\ Team(r) \subseteq Ranks
  BY <1>1, <1>2, TeamsStay, Teams, Zenon DEF Typed
<1> HIDE DEF c, x
<1>10. BarriersAt(r)'
  <2>1. ASSUME NEW q \in Team(r)
        PROVE  /\ returned'[r] <= wrote'[q]
               /\ pc'[q] # "new" /\ pc'[r] # "freed"
    <3>1. returned[r] <= wrote[q] /\ pc[q] # "new" /\ q \in Ranks
      BY <1>1, <1>2, <1>9, Zenon DEF BarriersAt
    <3>2. wrote'[q] = wrote[q]
      BY <1>7, <1>8, <3>1, Zenon
    <3> QED
      BY <1>5, <1>7, <3>1, <3>2, Zenon
  <2> QED
    BY <1>9, <2>1, Zenon DEF BarriersAt
<1>11. WritersAt(r)'
  <2>1. ASSUME r = Leader(r), NEW q \in Ranks PROVE wrote'[r] <= calls'[q]
    <3>1. wrote[r] <= calls[q]
      BY <1>2, <2>1, Zenon DEF WritersAt
    <3>2. calls'[q] = calls[q] \/ calls'[q] = calls[r] + 1
      BY <1>5, Zenon DEF c
    <3>3. calls[r] \in Nat
      BY <1>3
    <3> QED
      BY <1>7, <3>1, <3>2, <3>3
  <2> QED
    BY <1>5, <1>9, <2>1, Zenon DEF WritersAt
<1>12. ArraysAt(r)'
  <2>2. \A d \in 0 .. Len(kind) : Left(d)' = Left(d)
    BY <1>1, <1>3, <1>4, LeftStays, Zenon
  <2>3. calls[r] \in 0 .. Len(kind)
    BY <1>3
  <2>4. PICK d \in 0 .. Len(kind) : d = calls[r]
    BY <2>3, Zenon
  <2>5. Left(wrote[r])' = Left(d)'
    BY <1>7, <2>4, Zenon
  <2>6. r = Leader(r) => mem[r] = Left(d)
    BY <1>1, <1>2, <1>7, <2>4, Zenon DEF ArraysAt
  <2> QED
    BY <1>1, <1>5, <1>9, <2>2, <2>5, <2>6, Zenon DEF ArraysAt
<1> QED
  <2>1. calls[r] <= calls'[r] /\ wrote[r] <= wrote'[r]
    BY <1>3, <1>5, <1>7 DEF c
  <2>2. \A q \in Ranks \ {r} : pc'[q] = pc[q] /\ calls'[q] = calls[q] /\ mem'[q] = mem[q]
    BY <1>1, <1>5, Zenon
  <2> QED
    BY <1>1, <1>4, <1>5, <1>6, <1>10, <1>11, <1>12, <2>1, <2>2, StepOfOne, Zenon

-----------------------------------------------------------------------------
(* A nonempty set of natural numbers has a least element.                     *)
LEMMA LeastNat ==
  ASSUME NEW S \in SUBSET Nat, S # {}
  PROVE  \E m \in S : \A k \in S : m <= k
<1> DEFINE R == {x \in Nat \X Nat : x[1] < x[2]}
<1>1. IsWellFoundedOn(R, Nat)
  BY NatLessThanWellFounded, Zenon DEF OpToRel
<1>2. \A x, y \in Nat : y < x => <<y, x>> \in R
  OBVIOUS
<1> HIDE DEF R
<1>3. PICK m \in S : \A y \in S : ~ (<<y, m>> \in R)
  BY <1>1, WFMin, Zenon
<1>4. ASSUME NEW k \in S PROVE m <= k
  <2>1. m \in Nat /\ k \in Nat
    OBVIOUS
  <2>2. ~(k < m)
    BY <2>1, <1>2, <1>3, Zenon
  <2> QED
    BY <2>1, <2>2
<1> QED
  BY <1>4, Zenon

(* The roots that sc_mpi_comm_attach_node_comms computes: the least rank of   *)
(* each node.  They are in blocks if the nodes are.                           *)
RootsOf(f) == [r \in Ranks |-> CHOOSE q \in Ranks : f[q] = f[r] /\ \A s \in Ranks : f[s] = f[r] => q <= s]
LEMMA Roots ==
  ASSUME Positive, NEW f \in [Ranks -> Int]
  PROVE  Rooted(RootsOf(f)) /\ (Blocks(f) => Blocks(RootsOf(f)))
<1> DEFINE nd == RootsOf(f)
<1>1. Ranks \subseteq Nat
  BY DEF Ranks, Positive
<1>2. \A r \in Ranks : nd[r] \in Ranks /\ f[nd[r]] = f[r] /\ \A s \in Ranks : f[s] = f[r] => nd[r] <= s
  <2> TAKE r \in Ranks
  <2> DEFINE S == {q \in Ranks : f[q] = f[r]}
  <2>1. S \in SUBSET Nat /\ S # {}
    BY <1>1, Zenon
  <2>2. PICK m \in S : \A k \in S : m <= k
    BY <2>1, LeastNat, Zenon
  <2>3. \E q \in Ranks : f[q] = f[r] /\ \A s \in Ranks : f[s] = f[r] => q <= s
    BY <2>2, Zenon
  <2> QED
    BY <2>3, Zenon DEF RootsOf
<1>3. nd \in [Ranks -> Ranks]
  BY <1>2, Zenon DEF RootsOf
<1> HIDE DEF nd
<1>4. \A q, r \in Ranks : f[q] = f[r] => nd[q] = nd[r]
  <2> TAKE q, r \in Ranks
  <2> HAVE f[q] = f[r]
  <2>1. nd[q] \in Nat /\ nd[r] \in Nat
    BY <1>1, <1>2, Zenon
  <2>2. nd[q] <= nd[r] /\ nd[r] <= nd[q]
    BY <1>2, Zenon
  <2> QED
    BY <2>1, <2>2
<1>5. Rooted(nd)
  BY <1>2, <1>3, <1>4, Zenon DEF Rooted
<1>6. ASSUME Blocks(f) PROVE Blocks(nd)
  <2> SUFFICES ASSUME NEW q \in Ranks, NEW r \in Ranks, q <= r PROVE nd[q] <= nd[r]
    BY Zenon DEF Blocks
  <2>1. /\ q \in Nat /\ r \in Nat /\ nd[q] \in Nat /\ nd[r] \in Nat /\ nd[q] \in Ranks /\ nd[r] \in Ranks
        /\ f[q] \in Int /\ f[r] \in Int
    BY <1>1, <1>2, Zenon
  <2>2. CASE f[q] = f[r]
    BY <1>4, <2>1, <2>2
  <2>3. CASE f[q] # f[r]
    <3>1. f[q] < f[r]
      BY <1>6, <2>1, <2>3 DEF Blocks
    <3>2. ~(nd[r] <= q)
      <4>1. nd[r] <= q => f[nd[r]] <= f[q]
        BY <1>6, <2>1, Zenon DEF Blocks
      <4>2. f[nd[r]] = f[r]
        BY <1>2, Zenon
      <4> QED
        BY <2>1, <3>1, <4>1, <4>2
    <3>3. nd[q] <= q
      BY <1>2, Zenon
    <3> QED
      BY <2>1, <3>2, <3>3
  <2> QED
    BY <2>2, <2>3, Zenon
<1> QED
  BY <1>5, <1>6, Zenon DEF nd

(* Division with remainder, by the number of values per rank or of ranks per  *)
(* node: what it is, and how to find it.                                      *)
LEMMA DivMod ==
  ASSUME NEW a \in Int, NEW n \in Nat \ {0}
  PROVE  a \div n \in Int /\ a % n \in 0 .. n - 1 /\ a = n * (a \div n) + (a % n)
OBVIOUS

(* A greater factor makes a greater product.                                  *)
LEMMA Times ==
  ASSUME NEW n \in Nat, NEW d \in Int, NEW e \in Int, d < e
  PROVE  n * d + n <= n * e
<1>1. n * (e - d - 1) >= 0
  <2>1. e - d - 1 \in Nat
    OBVIOUS
  <2> QED
    BY <2>1
<1> QED
  BY <1>1

(* Quotient and remainder are unique.                                         *)
LEMMA Quotient ==
  ASSUME NEW n \in Nat \ {0}, NEW d \in Int, NEW m \in 0 .. n - 1
  PROVE  (n * d + m) \div n = d /\ (n * d + m) % n = m
<1> DEFINE a == n * d + m
           e == a \div n
           k == a % n
<1>1. a \in Int /\ e \in Int /\ k \in 0 .. n - 1 /\ a = n * e + k
  BY DivMod
<1>0. a = n * d + m
  OBVIOUS
<1> HIDE DEF a, e, k
<1>2. ~(d < e)
  <2>1. d < e => n * d + n <= n * e
    BY <1>1, Times, Zenon
  <2> QED
    BY <1>0, <1>1, <2>1
<1>3. ~(e < d)
  <2>1. e < d => n * e + n <= n * d
    BY <1>1, Times, Zenon
  <2> QED
    BY <1>0, <1>1, <2>1
<1>4. e = d
  BY <1>1, <1>2, <1>3
<1>5. k = m
  BY <1>0, <1>1, <1>4
<1> QED
  BY <1>4, <1>5, Zenon DEF a, e, k
(* Nodes of n consecutive ranks each are blocks.                              *)
LEMMA DivBlocks ==
  ASSUME Positive, NEW n \in Nat \ {0}
  PROVE  [r \in Ranks |-> r \div n] \in [Ranks -> Int] /\ Blocks([r \in Ranks |-> r \div n])
<1>1. Ranks \subseteq Nat
  BY DEF Ranks, Positive
<1>2. ASSUME NEW q \in Nat, NEW r \in Nat, q <= r
      PROVE  q \div n \in Int /\ r \div n \in Int /\ q \div n <= r \div n
  <2> DEFINE d == q \div n
             e == r \div n
  <2>1. /\ d \in Int /\ q % n \in 0 .. n - 1 /\ q = n * d + (q % n)
        /\ e \in Int /\ r % n \in 0 .. n - 1 /\ r = n * e + (r % n)
    BY DivMod
  <2> HIDE DEF d, e
  <2>2. e < d => n * e + n <= n * d
    BY <2>1, Times, Zenon
  <2>3. ~(e < d)
    BY <1>2, <2>1, <2>2
  <2> QED
    BY <2>1, <2>3 DEF d, e
<1> QED
  BY <1>1, <1>2 DEF Blocks

(* What sc_mpi_comm_attach_node_comms may compute.                            *)
LEMMA Attached ==
  ASSUME Documented, NEW n \in PerNode, NEW nd \in sc_mpi_comm_attach_node_comms(n)
  PROVE  nd = <<>> \/ (Rooted(nd) /\ Blocks(nd))
<1>1. Positive /\ n \in Nat
  BY Zenon DEF Documented
<1>2. CASE n >= 1
  <2>1. nd = RootsOf([r \in Ranks |-> r \div n])
    BY <1>2, Zenon DEF sc_mpi_comm_attach_node_comms, RootsOf
  <2>2. n \in Nat \ {0}
    BY <1>1, <1>2
  <2> QED
    BY <1>1, <2>1, <2>2, DivBlocks, Roots, Zenon
<1>3. CASE ~(n >= 1)
  <2>1. PICK f \in Placements : nd = IF SameSize(f) THEN RootsOf(f) ELSE <<>>
    BY <1>3, Zenon DEF sc_mpi_comm_attach_node_comms, RootsOf
  <2>2. f \in [Ranks -> Int] /\ Blocks(f)
    BY Zenon DEF Documented
  <2> QED
    BY <1>1, <2>1, <2>2, Roots, Zenon
<1> QED
  BY <1>2, <1>3, Zenon

(* In blocks, the node roots gather in the order of the ranks.                *)
LEMMA InOrder ==
  ASSUME Positive, NEW nd, Rooted(nd), Blocks(nd)
  PROVE  Order(nd) = [i \in Ranks |-> i]
<1>1. Ranks \subseteq Nat /\ \A q, r \in Ranks : nd[r] \in Int /\ (q < r => nd[q] <= nd[r])
  BY DEF Ranks, Positive, Rooted, Blocks
<1>2. \A r \in Ranks : Place(nd, r) = r
  <2> TAKE r \in Ranks
  <2>1. {q \in Ranks : nd[q] < nd[r] \/ (nd[q] = nd[r] /\ q < r)} = 0 .. r - 1
    <3>1. ASSUME NEW q \in Ranks PROVE (nd[q] < nd[r] \/ (nd[q] = nd[r] /\ q < r)) <=> q < r
      <4>1. nd[q] \in Int /\ nd[r] \in Int /\ q \in Nat /\ r \in Nat
        BY <1>1, Zenon
      <4>2. (q < r => nd[q] <= nd[r]) /\ (r < q => nd[r] <= nd[q])
        BY <1>1, Zenon
      <4> QED
        BY <4>1, <4>2
    <3>2. \A q \in Int : q \in Ranks /\ q < r <=> q \in 0 .. r - 1
      BY DEF Ranks, Positive
    <3>3. \A q \in 0 .. r - 1 : q \in Int
      BY <1>1
    <3>4. {q \in Ranks : nd[q] < nd[r] \/ (nd[q] = nd[r] /\ q < r)} = {q \in Ranks : q < r}
      BY <3>1, Zenon
    <3>5. {q \in Ranks : q < r} = 0 .. r - 1
      <4>1. \A q : q \in {p \in Ranks : p < r} => q \in 0 .. r - 1
        BY <1>1, <3>2
      <4>2. \A q : q \in 0 .. r - 1 => q \in {p \in Ranks : p < r}
        BY <3>2, <3>3, Zenon
      <4> QED
        BY <4>1, <4>2, Zenon
    <3> QED
      BY <3>4, <3>5, Zenon
  <2>2. Cardinality(0 .. r - 1) = r
    <3>1. r \in Nat
      BY <1>1, Zenon
    <3>2. Cardinality(0 .. r - 1) = IF 0 > r - 1 THEN 0 ELSE (r - 1) - 0 + 1
      BY <3>1, FS_Interval
    <3> QED
      BY <3>1, <3>2
  <2> QED
    BY <2>1, <2>2, Zenon DEF Place
<1>3. \A i \in Ranks : (CHOOSE r \in Ranks : Place(nd, r) = i) = i
  <2> TAKE i \in Ranks
  <2>1. \E r \in Ranks : Place(nd, r) = i
    BY <1>2, Zenon
  <2> DEFINE m == CHOOSE r \in Ranks : Place(nd, r) = i
  <2>2. m \in Ranks /\ Place(nd, m) = i
    BY <2>1, Zenon
  <2> QED
    BY <1>2, <2>2, Zenon
<1> QED
  BY <1>3, Zenon DEF Order

(* What Init chooses once and for all.                                        *)
Chosen == /\ type \in Types
          /\ node # <<>> => Rooted(node) /\ order = [i \in Ranks |-> i]

(* The invariant holds before the arrays are allocated.                      *)
LEMMA InitInv ==
  ASSUME Documented, Init
  PROVE  ShmemInv /\ Chosen
<1>1. PICK n \in PerNode : node \in sc_mpi_comm_attach_node_comms(n)
  BY Zenon DEF Init
<1>2. Positive /\ (node = <<>> \/ (Rooted(node) /\ Blocks(node)))
  BY <1>1, Attached, Zenon DEF Documented
<1>3. Chosen
  BY <1>2, InOrder, Zenon DEF Init, Chosen
<1>4. /\ kind = <<>> /\ calls = [r \in Ranks |-> 0] /\ pc = [r \in Ranks |-> "new"]
      /\ given = [r \in Ranks |-> 0] /\ mem = [r \in Ranks |-> NoArray]
  BY Zenon DEF Init
<1>5. Typed
  <2>1. kind \in Seq(Ops) /\ Len(kind) = 0
    BY <1>4
  <2>2. 0 \in 0 .. MaxCalls
    BY <1>2 DEF Positive
  <2>3. /\ calls \in [Ranks -> 0 .. MaxCalls] /\ given \in [Ranks -> 0 .. MaxCalls] /\ DOMAIN mem = Ranks
        /\ pc \in [Ranks -> Before \cup {"new", "alloc", "idle", "end", "free", "freed"}]
    BY <1>4, <2>2, Zenon
  <2>4. \A r \in Ranks : calls[r] = 0 /\ given[r] = 0 /\ pc[r] = "new"
    BY <1>4, Zenon
  <2> QED
    BY <1>2, <2>1, <2>3, <2>4 DEF Typed, Before
<1>6. \A r \in Ranks : wrote[r] = 0 /\ returned[r] = 0 /\ pc[r] = "new" /\ calls[r] = 0
  BY <1>4, Zenon DEF wrote, returned, Before
<1>7. ASSUME NEW r \in Ranks PROVE BarriersAt(r) /\ WritersAt(r) /\ ArraysAt(r)
  <2>1. Team(r) \subseteq Ranks
    BY <1>2, Teams, Zenon
  <2> QED
    BY <1>6, <2>1 DEF BarriersAt, WritersAt, ArraysAt
<1> QED
  BY <1>3, <1>5, <1>7, Zenon DEF ShmemInv

(* A step keeps the invariant and the choices.                                *)
LEMMA StepInv ==
  ASSUME Documented, ShmemInv, Chosen, [Next]_vars
  PROVE  ShmemInv' /\ Chosen'
<1>1. Positive /\ CallerSync = TRUE
  BY Zenon DEF Documented
<1>2. ASSUME NEW r \in Ranks, Step(r) PROVE ShmemInv' /\ UNCHANGED <<type, node, order>>
  <2>1. CASE sc_shmem_malloc(r) \/ sc_shmem_malloc_window(r)
    BY <1>1, <2>1, MallocStep, Zenon DEF sc_shmem_malloc, sc_shmem_malloc_window
  <2>2. CASE sc_shmem_free(r) \/ sc_shmem_free_window(r)
    BY <1>1, <2>2, FreeStep, Zenon DEF sc_shmem_free, sc_shmem_free_window
  <2>3. CASE Enter(r)
    BY <1>1, <2>3, EnterStep, Zenon DEF Enter
  <2>4. CASE Sync(r) \/ Contribute(r) \/ sc_shmem_write_start(r)
    BY <1>1, <2>4, StartStep, Zenon DEF Sync, Contribute, sc_shmem_write_start
  <2>5. CASE Write(r) \/ Scan(r)
    BY <1>1, <2>5, WriteStep, Zenon DEF Write, Scan
  <2>6. CASE sc_shmem_write_end(r)
    BY <1>1, <2>6, EndStep, Zenon DEF sc_shmem_write_end
  <2> QED
    BY <1>2, <2>1, <2>2, <2>3, <2>4, <2>5, <2>6, Zenon DEF Step
<1>3. CASE UNCHANGED vars
  <2>1. UNCHANGED <<type, node, order, kind, calls, pc, given, mem>>
    BY <1>3, Zenon DEF vars
  <2>2. kind \in Seq(Ops) /\ Typed' /\ Chosen'
    BY <2>1, Zenon DEF ShmemInv, Chosen, Typed, Rooted
  <2>3. wrote' = wrote /\ returned' = returned
    BY <2>1, Zenon DEF wrote, returned
  <2>4. \A c \in 0 .. Len(kind) :
            /\ Left(c)' = Left(c)
            /\ c # 0 => Written(c)' = Written(c) /\ Scans(c)' = Scans(c)
    BY <2>1, <2>2, LeftStays, Zenon
  <2>5. ASSUME NEW r \in Ranks PROVE BarriersAt(r)' /\ WritersAt(r)' /\ ArraysAt(r)'
    <3>1. BarriersAt(r) /\ WritersAt(r) /\ ArraysAt(r)
      BY Zenon DEF ShmemInv
    <3>2. Team(r)' = Team(r) /\ Leader(r)' = Leader(r)
      BY <2>1, TeamsStay, Zenon
    <3>3. /\ wrote[r] \in 0 .. Len(kind) /\ calls[r] \in 0 .. Len(kind)
          /\ pc[r] = "sum" => calls[r] # 0
      <4>1. /\ calls[r] \in 0 .. Len(kind) /\ wrote[r] \in 0 .. calls[r] /\ Len(kind) \in Nat
            /\ pc[r] = "sum" => calls[r] >= 1
        BY <1>1, Counts, Zenon DEF ShmemInv, Typed, Before
      <4> QED
        BY <4>1
    <3>4. Left(wrote[r])' = Left(wrote[r])
      BY <2>3, <2>4, <3>3, Zenon
    <3>5. pc[r] = "sum" => Written(calls[r])' = Written(calls[r]) /\ Scans(calls[r])' = Scans(calls[r])
      BY <2>1, <2>4, <3>3, Zenon
    <3>6. BarriersAt(r)' /\ WritersAt(r)'
      BY <2>1, <2>3, <3>1, <3>2, Zenon DEF BarriersAt, WritersAt
    <3> QED
      BY <2>1, <2>3, <3>1, <3>2, <3>4, <3>5, <3>6, Zenon DEF ArraysAt
  <2> QED
    BY <2>2, <2>5, Zenon DEF ShmemInv
<1> QED
  BY <1>2, <1>3, Zenon DEF Next, Done, Chosen

(* Between calls, a rank reads the array that its last call has left.         *)
ReadsAreLeft == \A r \in Ranks : pc[r] = "idle" => mem[Leader(r)] = Left(calls[r])

(* The leader of an idle rank has written in the same calls as that rank.     *)
LEMMA InvReads ==
  ASSUME Positive, ShmemInv
  PROVE  ReadsAreLeft
<1> SUFFICES ASSUME NEW r \in Ranks, pc[r] = "idle" PROVE mem[Leader(r)] = Left(calls[r])
  BY Zenon DEF ReadsAreLeft
<1> DEFINE l == Leader(r)
<1>1. l \in Team(r) /\ l \in Ranks /\ l = Leader(l)
  BY Teams, Zenon DEF ShmemInv, Typed
<1>2. BarriersAt(r) /\ WritersAt(l) /\ ArraysAt(l) /\ Typed
  BY <1>1, Zenon DEF ShmemInv
<1>3. /\ returned[r] <= wrote[l] /\ pc[l] # "new"
  BY <1>1, <1>2, Zenon DEF BarriersAt
<1>4. pc[l] # "freed"
  <2>1. r \in Team(l) /\ BarriersAt(l)
    BY <1>1, Teams, Zenon DEF ShmemInv, Typed
  <2> QED
    BY <2>1, Zenon DEF BarriersAt
<1>5. wrote[l] <= calls[r] /\ (pc[l] = "sum" => calls[l] <= calls[r])
  BY <1>1, <1>2, Zenon DEF WritersAt
<1>6. /\ returned[r] = calls[r] /\ calls[r] \in Nat /\ calls[l] \in Nat /\ wrote[l] \in Nat
      /\ wrote[l] = IF pc[l] \in Before THEN calls[l] - 1 ELSE calls[l]
  <2>1. /\ calls[r] \in Nat /\ calls[l] \in Nat /\ wrote[l] \in 0 .. calls[l]
    BY <1>1, <1>2, Counts, Zenon
  <2> QED
    BY <1>1, <2>1 DEF returned, wrote, Before
<1>7. wrote[l] = calls[r]
  BY <1>3, <1>5, <1>6
<1>8. pc[l] # "sum"
  BY <1>5, <1>6, <1>7 DEF Before
<1> HIDE DEF l
<1> QED
  BY <1>1, <1>2, <1>3, <1>4, <1>7, <1>8, Zenon DEF ArraysAt, l

(* The invariant holds in every state.                                        *)
LEMMA Invariance ==
  ASSUME Documented
  PROVE  Spec => [](ShmemInv /\ Chosen)
<1>1. Init => ShmemInv /\ Chosen
  BY InitInv, Zenon
<1>2. (ShmemInv /\ Chosen) /\ [Next]_vars => (ShmemInv /\ Chosen)'
  BY StepInv, Zenon
<1> QED
  BY <1>1, <1>2, PTL DEF Spec

(* Whatever the ranks, the nodes, the type and the calls: between calls, a    *)
(* rank reads the array that its last call has left.  The barrier of          *)
(* sc_shmem_write_end, the gather and the caller's barrier suffice: no rank   *)
(* reads too early, and none is overwritten by a faster one.                  *)
THEOREM ReadersAreApart ==
  ASSUME Documented
  PROVE  Spec => []ReadsAreLeft
<1>1. ShmemInv => ReadsAreLeft
  BY InvReads, Zenon DEF Documented
<1> QED
  BY <1>1, Invariance, PTL

-----------------------------------------------------------------------------
(* The sums of MPI_Scan are defined by recursion over the ranks.  Such a      *)
(* function exists, as the least rank for which there were none shows.        *)
SumBody(r, c, f) == [q \in 0 .. r |-> [i \in 1 .. Count |-> Send(q, c)[i] + (IF q = 0 THEN 0 ELSE f[q - 1][i])]]
Sums(r, c) == CHOOSE f : f = SumBody(r, c, f)
LEMMA SumsExist ==
  ASSUME NEW c
  PROVE  \A r \in Nat : Sums(r, c) = SumBody(r, c, Sums(r, c))
<1> DEFINE S == {r \in Nat : ~\E f : f = SumBody(r, c, f)}
<1>1. S = {}
  <2> SUFFICES ASSUME S # {} PROVE FALSE
    OBVIOUS
  <2>1. PICK m \in S : \A k \in S : m <= k
    <3>1. S \in SUBSET Nat
      BY Zenon
    <3> QED
      BY <3>1, LeastNat, Zenon
  <2>2. CASE m = 0
    <3> DEFINE f == [q \in 0 .. 0 |-> [i \in 1 .. Count |-> Send(q, c)[i] + 0]]
    <3>1. f = SumBody(0, c, f)
      BY DEF SumBody
    <3> QED
      BY <2>1, <2>2, <3>1, Zenon
  <2>3. CASE m # 0
    <3>1. m \in Nat /\ m - 1 \in Nat /\ m - 1 \notin S
      BY <2>1, <2>3
    <3>2. PICK g : g = SumBody(m - 1, c, g)
      BY <3>1, Zenon
    <3> DEFINE f == [q \in 0 .. m |-> IF q < m THEN g[q] ELSE [i \in 1 .. Count |-> Send(q, c)[i] + g[q - 1][i]]]
    <3>3. ASSUME NEW q \in 0 .. m
          PROVE  f[q] = [i \in 1 .. Count |-> Send(q, c)[i] + (IF q = 0 THEN 0 ELSE f[q - 1][i])]
      <4>1. q \in Nat /\ (q # 0 => q - 1 \in 0 .. m /\ q - 1 < m)
        BY <3>1
      <4>2. q # 0 => f[q - 1] = g[q - 1]
        BY <4>1, Zenon
      <4>3. CASE q < m
        <5>1. q \in 0 .. m - 1
          BY <3>1, <4>1, <4>3
        <5>2. g[q] = [i \in 1 .. Count |-> Send(q, c)[i] + (IF q = 0 THEN 0 ELSE g[q - 1][i])]
          <6>1. SumBody(m - 1, c, g)[q] =
                   [i \in 1 .. Count |-> Send(q, c)[i] + (IF q = 0 THEN 0 ELSE g[q - 1][i])]
            BY <5>1, Zenon DEF SumBody
          <6> QED
            BY <3>2, <6>1, Zenon
        <5>3. f[q] = g[q]
          BY <4>3, Zenon
        <5> HIDE DEF f
        <5>4. CASE q = 0
          BY <5>2, <5>3, <5>4, Zenon
        <5>5. CASE q # 0
          BY <4>2, <5>2, <5>3, <5>5, Zenon
        <5> QED
          BY <5>4, <5>5, Zenon
      <4>4. CASE ~(q < m)
        <5>1. q # 0 /\ f[q] = [i \in 1 .. Count |-> Send(q, c)[i] + g[q - 1][i]]
          BY <2>3, <3>1, <4>4
        <5> HIDE DEF f
        <5> QED
          BY <4>2, <5>1, Zenon
      <4> QED
        BY <4>3, <4>4, Zenon
    <3>4. f = [q \in 0 .. m |-> f[q]]
      BY Zenon
    <3> HIDE DEF f
    <3>5. f = SumBody(m, c, f)
      BY <3>3, <3>4, Zenon DEF SumBody
    <3> QED
      BY <2>1, <3>5, Zenon
  <2> QED
    BY <2>2, <2>3, Zenon
<1> SUFFICES ASSUME NEW r \in Nat PROVE Sums(r, c) = SumBody(r, c, Sums(r, c))
  BY Zenon
<1>2. \E f : f = SumBody(r, c, f)
  BY <1>1, Zenon
<1> QED
  BY <1>2, Zenon DEF Sums

(* What the recursion computes.                                               *)
LEMMA TotalIsSum ==
  ASSUME NEW c
  PROVE  \A q \in Nat : Total(q, c) = [i \in 1 .. Count |->
                                         Send(q, c)[i] + (IF q = 0 THEN 0 ELSE Total(q - 1, c)[i])]
<1> DEFINE Sum(q, x) == [i \in 1 .. Count |-> Send(q, c)[i] + (IF q = 0 THEN 0 ELSE x[i])]
<1>1. \A r \in Nat : Total(r, c) = Sums(r, c)[r]
  BY Zenon DEF Total, Sums, SumBody
<1>2. \A r \in Nat : \A q \in 0 .. r : Sums(r, c)[q] = Sum(q, Sums(r, c)[q - 1])
  <2> TAKE r \in Nat
  <2> TAKE q \in 0 .. r
  <2>1. Sums(r, c) = SumBody(r, c, Sums(r, c))
    BY SumsExist, Zenon
  <2>2. SumBody(r, c, Sums(r, c))[q] = Sum(q, Sums(r, c)[q - 1])
    BY Zenon DEF SumBody
  <2> QED
    BY <2>1, <2>2, Zenon
<1> DEFINE S == {q \in Nat : ~\A r \in Nat : q <= r => Sums(r, c)[q] = Total(q, c)}
<1>3. S = {}
  <2> SUFFICES ASSUME S # {} PROVE FALSE
    OBVIOUS
  <2>1. PICK m \in S : \A k \in S : m <= k
    <3>1. S \in SUBSET Nat
      BY Zenon
    <3> QED
      BY <3>1, LeastNat, Zenon
  <2>2. PICK r \in Nat : m <= r /\ Sums(r, c)[m] # Total(m, c)
    BY <2>1, Zenon
  <2>3. m \in Nat /\ m \in 0 .. r /\ m \in 0 .. m
    BY <2>1, <2>2
  <2>4. /\ Sums(r, c)[m] = Sum(m, Sums(r, c)[m - 1])
        /\ Total(m, c) = Sum(m, Sums(m, c)[m - 1])
    BY <1>1, <1>2, <2>3, Zenon
  <2>5. CASE m = 0
    BY <2>2, <2>4, <2>5, Zenon
  <2>6. CASE m # 0
    <3>1. m - 1 \in Nat /\ m - 1 \notin S /\ m - 1 <= r /\ m - 1 <= m
      BY <2>1, <2>3, <2>6
    <3>2. Sums(r, c)[m - 1] = Sums(m, c)[m - 1]
      BY <2>3, <3>1, Zenon
    <3> QED
      BY <2>2, <2>4, <3>2, Zenon
  <2> QED
    BY <2>5, <2>6, Zenon
<1> TAKE q \in Nat
<1>4. Total(q, c) = Sum(q, Sums(q, c)[q - 1])
  <2>1. q \in 0 .. q
    OBVIOUS
  <2> QED
    BY <1>1, <1>2, <2>1, Zenon
<1>5. CASE q = 0
  BY <1>4, <1>5, Zenon
<1>6. CASE q # 0
  <2>1. q - 1 \in Nat /\ q - 1 <= q
    BY <1>6
  <2>2. Sums(q, c)[q - 1] = Total(q - 1, c)
    BY <1>3, <2>1, Zenon
  <2> QED
    BY <1>4, <1>6, <2>2, Zenon
<1> QED
  BY <1>5, <1>6, Zenon

(* sc_scan_on_array computes every array that satisfies its recursion.        *)
LEMMA ScanIsUnique ==
  ASSUME Positive, NEW n \in Nat, NEW a, DOMAIN a = 1 .. n, NEW b,
         b = [i \in 1 .. n |-> IF i <= Count THEN a[i] ELSE a[i] + b[i - Count]]
  PROVE  sc_scan_on_array(a) = b
<1> DEFINE Body(x) == [i \in 1 .. n |-> IF i <= Count THEN a[i] ELSE a[i] + x[i - Count]]
           f == CHOOSE x : x = Body(x)
           S == {i \in 1 .. n : f[i] # b[i]}
<1>1. sc_scan_on_array(a) = f
  BY Zenon DEF sc_scan_on_array
<1>2. f = Body(f)
  <2>1. \E x : x = Body(x)
    BY Zenon
  <2> QED
    BY <2>1, Zenon
<1> HIDE DEF f
<1>3. S = {}
  <2> SUFFICES ASSUME S # {} PROVE FALSE
    OBVIOUS
  <2>1. PICK m \in S : \A k \in S : m <= k
    <3>1. S \in SUBSET Nat
      OBVIOUS
    <3> QED
      BY <3>1, LeastNat, Zenon
  <2>2. m \in 1 .. n /\ f[m] # b[m]
    BY <2>1, Zenon
  <2>3. /\ f[m] = (IF m <= Count THEN a[m] ELSE a[m] + f[m - Count])
        /\ b[m] = (IF m <= Count THEN a[m] ELSE a[m] + b[m - Count])
    BY <1>2, <2>2, Zenon
  <2>4. CASE m <= Count
    BY <2>2, <2>3, <2>4, Zenon
  <2>5. CASE ~(m <= Count)
    <3>1. m - Count \in 1 .. n /\ ~(m <= m - Count)
      BY <2>2, <2>5 DEF Positive
    <3>2. f[m - Count] = b[m - Count]
      BY <2>1, <3>1, Zenon
    <3> QED
      BY <2>2, <2>3, <2>5, <3>2, Zenon
  <2> QED
    BY <2>4, <2>5, Zenon
<1>4. \A i \in 1 .. n : f[i] = b[i]
  BY <1>3, Zenon
<1>5. f = [i \in 1 .. n |-> f[i]] /\ b = [i \in 1 .. n |-> b[i]]
  BY <1>2, Zenon
<1> QED
  BY <1>1, <1>4, <1>5, Zenon

(* A prefix array: Count zeros and then the entries of F.                     *)
IsPrefixed(G, F, n) == /\ G = [i \in 1 .. Count + n |-> G[i]]
                       /\ \A i \in 1 .. Count : G[i] = 0
                       /\ \A i \in 1 .. n : G[Count + i] = F[i]
LEMMA Prefixed ==
  ASSUME Positive, NEW n \in Nat, NEW F, F = [i \in 1 .. n |-> F[i]]
  PROVE  IsPrefixed(Zero \o F, F, n)
<1> DEFINE X == {0} \cup {F[i] : i \in 1 .. n}
<1>1. Zero \in Seq(X) /\ Len(Zero) = Count /\ \A i \in 1 .. Count : Zero[i] = 0
  BY DEF Zero, Positive
<1>2. F \in Seq(X) /\ Len(F) = n
  <2>1. \A i \in 1 .. n : F[i] \in X
    OBVIOUS
  <2> HIDE DEF X
  <2>2. [i \in 1 .. n |-> F[i]] \in Seq(X) /\ Len([i \in 1 .. n |-> F[i]]) = n
    BY <2>1
  <2> QED
    BY <2>2, Zenon
<1> HIDE DEF X
<1>3. /\ Zero \o F \in Seq(X) /\ Len(Zero \o F) = Count + n
      /\ \A i \in 1 .. Count : (Zero \o F)[i] = Zero[i]
  BY <1>1, <1>2 DEF Positive
<1>4. \A i \in 1 .. n : (Zero \o F)[Count + i] = F[i]
  BY <1>1, <1>2 DEF Positive
<1> HIDE DEF Zero
<1>5. Zero \o F = [i \in 1 .. Count + n |-> (Zero \o F)[i]]
  BY <1>3
<1> QED
  BY <1>1, <1>3, <1>4, <1>5, Zenon DEF IsPrefixed

(* Entry k of an array of values per rank belongs to a rank, and entry        *)
(* k - Count to the rank before it.                                           *)
LEMMA Entries ==
  ASSUME Positive, NEW k \in 1 .. P * Count
  PROVE  /\ (k - 1) \div Count \in Ranks /\ ((k - 1) % Count) + 1 \in 1 .. Count
         /\ k <= Count => (k - 1) \div Count = 0 /\ ((k - 1) % Count) + 1 = k
         /\ k > Count => /\ (k - 1) \div Count # 0
                         /\ (k - Count - 1) \div Count = ((k - 1) \div Count) - 1
                         /\ (k - Count - 1) % Count = (k - 1) % Count
                         /\ k - Count \in 1 .. P * Count
<1>1. Count \in Nat \ {0} /\ P \in Nat \ {0} /\ P * Count \in Nat /\ k \in Nat /\ k >= 1 /\ k <= P * Count
  BY DEF Positive
<1> DEFINE q == (k - 1) \div Count
           m == (k - 1) % Count
<1>2. q \in Int /\ m \in 0 .. Count - 1 /\ k - 1 = Count * q + m
  BY <1>1, DivMod
<1> HIDE DEF q, m
<1>3. 0 <= q
  <2>1. q < 0 => Count * q + Count <= Count * 0
    BY <1>1, <1>2, Times
  <2> QED
    BY <1>1, <1>2, <2>1
<1>4. q <= P - 1
  <2>1. P - 1 < q => Count * (P - 1) + Count <= Count * q
    BY <1>1, <1>2, Times
  <2>2. Count * (P - 1) + Count = P * Count
    BY <1>1
  <2> QED
    BY <1>1, <1>2, <2>1, <2>2
<1>5. ASSUME k <= Count PROVE q = 0 /\ m + 1 = k
  <2>1. 0 < q => Count * 0 + Count <= Count * q
    BY <1>1, <1>2, Times
  <2>2. q = 0
    BY <1>1, <1>2, <1>3, <1>5, <2>1
  <2> QED
    BY <1>1, <1>2, <2>2
<1>6. ASSUME k > Count
      PROVE  q # 0 /\ (k - Count - 1) \div Count = q - 1 /\ (k - Count - 1) % Count = m
  <2>1. q # 0
    BY <1>1, <1>2, <1>6
  <2>2. k - Count - 1 = Count * (q - 1) + m
    BY <1>1, <1>2
  <2>3. (Count * (q - 1) + m) \div Count = q - 1 /\ (Count * (q - 1) + m) % Count = m
    BY <1>1, <1>2, Quotient
  <2> QED
    BY <2>1, <2>2, <2>3, Zenon
<1>7. q \in Ranks /\ m + 1 \in 1 .. Count /\ (k > Count => k - Count \in 1 .. P * Count)
  BY <1>1, <1>2, <1>3, <1>4 DEF Ranks
<1> QED
  BY <1>5, <1>6, <1>7, Zenon DEF q, m

(* The scan in place turns the gathered values into the sums of MPI_Scan.     *)
LEMMA ScanIsTotal ==
  ASSUME Positive, NEW c
  PROVE  sc_scan_on_array(Zero \o Flat([r \in Ranks |-> Send(r, c)])) = Zero \o Flat([r \in Ranks |-> Total(r, c)])
<1> DEFINE n == P * Count
           S == Flat([r \in Ranks |-> Send(r, c)])
           T == Flat([r \in Ranks |-> Total(r, c)])
           Q(k) == (k - 1) \div Count
           M(k) == ((k - 1) % Count) + 1
<1>1. Count \in Nat \ {0} /\ n \in Nat
  BY DEF Positive
<1>2. \A k \in 1 .. n : S[k] = Send(Q(k), c)[M(k)] /\ T[k] = Total(Q(k), c)[M(k)]
  <2> TAKE k \in 1 .. n
  <2>1. Q(k) \in Ranks
    BY Entries, Zenon
  <2> QED
    BY <2>1, Zenon DEF Flat
<1>3. S = [k \in 1 .. n |-> S[k]] /\ T = [k \in 1 .. n |-> T[k]]
  <2>1. \A of : Flat(of) = [k \in 1 .. P * Count |-> Flat(of)[k]]
    BY Zenon DEF Flat
  <2> QED
    BY <2>1, Zenon
<1> DEFINE a == Zero \o S
           b == Zero \o T
<1> HIDE DEF S, T
<1>4. /\ a = [i \in 1 .. Count + n |-> a[i]] /\ \A i \in 1 .. Count : a[i] = 0
      /\ \A i \in 1 .. n : a[Count + i] = S[i]
  <2>1. IsPrefixed(a, S, n)
    BY <1>1, <1>3, Prefixed, Zenon
  <2> HIDE DEF a
  <2> QED
    BY <2>1, Zenon DEF IsPrefixed
<1>5. /\ b = [i \in 1 .. Count + n |-> b[i]] /\ \A i \in 1 .. Count : b[i] = 0
      /\ \A i \in 1 .. n : b[Count + i] = T[i]
  <2>1. IsPrefixed(b, T, n)
    BY <1>1, <1>3, Prefixed, Zenon
  <2> HIDE DEF b
  <2> QED
    BY <2>1, Zenon DEF IsPrefixed
<1> HIDE DEF a, b
<1>6. \A k \in 1 .. n : T[k] = S[k] + b[k]
  <2> TAKE k \in 1 .. n
  <2> DEFINE q == Q(k)
             m == M(k)
  <2>1. q \in Nat /\ m \in 1 .. Count
    <3>1. q \in Ranks /\ m \in 1 .. Count
      BY Entries, Zenon
    <3> QED
      BY <3>1 DEF Ranks, Positive
  <2>2. Total(q, c)[m] = Send(q, c)[m] + (IF q = 0 THEN 0 ELSE Total(q - 1, c)[m])
    <3>1. Total(q, c) = [i \in 1 .. Count |-> Send(q, c)[i] + (IF q = 0 THEN 0 ELSE Total(q - 1, c)[i])]
      BY <2>1, TotalIsSum, Zenon
    <3> QED
      BY <2>1, <3>1, Zenon
  <2>3. S[k] = Send(q, c)[m] /\ T[k] = Total(q, c)[m]
    BY <1>2, Zenon
  <2>4. CASE k <= Count
    <3>1. q = 0 /\ k \in 1 .. Count
      BY <1>1, <2>4, Entries, Zenon
    <3>2. b[k] = 0
      BY <1>5, <3>1, Zenon
    <3> QED
      BY <2>2, <2>3, <3>1, <3>2, Zenon
  <2>5. CASE k > Count
    <3>1. q # 0 /\ Q(k - Count) = q - 1 /\ M(k - Count) = m /\ k - Count \in 1 .. n
      BY <2>5, Entries, Zenon
    <3>2. T[k - Count] = Total(q - 1, c)[m]
      BY <1>2, <3>1, Zenon
    <3>3. b[k] = T[k - Count]
      <4>1. b[Count + (k - Count)] = T[k - Count]
        BY <1>5, <3>1, Zenon
      <4>2. Count + (k - Count) = k
        BY <1>1
      <4> QED
        BY <4>1, <4>2, Zenon
    <3> QED
      BY <2>2, <2>3, <3>1, <3>2, <3>3, Zenon
  <2> QED
    BY <1>1, <2>4, <2>5
<1>7. b = [i \in 1 .. Count + n |-> IF i <= Count THEN a[i] ELSE a[i] + b[i - Count]]
  <2>1. ASSUME NEW i \in 1 .. Count + n PROVE b[i] = IF i <= Count THEN a[i] ELSE a[i] + b[i - Count]
    <3>1. CASE i <= Count
      <4>1. i \in 1 .. Count
        BY <1>1, <3>1
      <4> QED
        BY <1>4, <1>5, <3>1, <4>1, Zenon
    <3>2. CASE ~(i <= Count)
      <4>1. i - Count \in 1 .. n /\ Count + (i - Count) = i
        BY <1>1, <3>2
      <4>2. a[Count + (i - Count)] = S[i - Count] /\ b[Count + (i - Count)] = T[i - Count]
        BY <1>4, <1>5, <4>1, Zenon
      <4>3. T[i - Count] = S[i - Count] + b[i - Count]
        BY <1>6, <4>1, Zenon
      <4> QED
        BY <3>2, <4>1, <4>2, <4>3, Zenon
    <3> QED
      BY <3>1, <3>2, Zenon
  <2> QED
    BY <1>5, <2>1, Zenon
<1>8. DOMAIN a = 1 .. Count + n /\ Count + n \in Nat
  BY <1>1, <1>4
<1>9. sc_scan_on_array(a) = b
  BY <1>7, <1>8, ScanIsUnique, Zenon
<1> QED
  BY <1>9, Zenon DEF a, b, S, T

(* Whatever the type and the nodes, a call leaves what it promises.           *)
LEMMA LeftIsPromised ==
  ASSUME Documented, ShmemInv, Chosen, NEW c \in 1 .. Len(kind)
  PROVE  Left(c) = Promised(c)
<1>1. Positive /\ kind[c] \in {"allgather", "prefix", "memcpy"} /\ c # 0
  <2>1. kind \in Seq(Ops) /\ Positive /\ Ops \subseteq {"allgather", "prefix", "memcpy"}
    BY Zenon DEF ShmemInv, Typed, Documented
  <2>2. kind[c] \in Ops /\ c # 0
    BY <2>1
  <2> QED
    BY <2>1, <2>2, Zenon
<1>2. /\ Effective \in {"BASIC", "PRESCAN", "WINDOW", "WINDOW_PRESCAN"}
      /\ Effective \in {"WINDOW", "WINDOW_PRESCAN"} => order = [i \in Ranks |-> i]
  BY Zenon DEF Documented, Chosen, Effective
<1>3. Effective \in {"WINDOW", "WINDOW_PRESCAN"} =>
         /\ [i \in Ranks |-> Send(order[i], c)] = [r \in Ranks |-> Send(r, c)]
         /\ [i \in Ranks |-> Total(order[i], c)] = [r \in Ranks |-> Total(r, c)]
  BY <1>2, Zenon
<1>4. CASE kind[c] = "memcpy"
  BY <1>1, <1>4, Zenon DEF Left, Written, Scans, Promised, sc_shmem_memcpy
<1>5. CASE kind[c] = "allgather"
  <2>1. Left(c) = sc_shmem_allgather(c) /\ Promised(c) = Flat([r \in Ranks |-> Send(r, c)])
    BY <1>1, <1>5, Zenon DEF Left, Written, Scans, Promised
  <2> QED
    BY <1>3, <2>1, Zenon DEF sc_shmem_allgather, Shared, sc_shmem_allgather_basic, sc_shmem_allgather_common
<1>6. CASE kind[c] = "prefix"
  <2>1. /\ Left(c) = IF Effective \in {"BASIC", "WINDOW"} THEN sc_scan_on_array(sc_shmem_prefix(c))
                                                          ELSE sc_shmem_prefix(c)
        /\ Promised(c) = Zero \o Flat([r \in Ranks |-> Total(r, c)])
    BY <1>1, <1>6, Zenon DEF Left, Written, Scans, Promised
  <2>2. CASE Effective = "BASIC"
    BY <1>1, <2>1, <2>2, ScanIsTotal, Zenon DEF sc_shmem_prefix, sc_shmem_prefix_basic, sc_shmem_allgather_basic
  <2>3. CASE Effective = "PRESCAN"
    BY <2>1, <2>3, Zenon DEF sc_shmem_prefix, sc_shmem_prefix_prescan
  <2>4. CASE Effective = "WINDOW"
    <3>1. sc_shmem_prefix(c) = Zero \o Flat([r \in Ranks |-> Send(r, c)])
      BY <1>3, <2>4, Zenon DEF sc_shmem_prefix, sc_shmem_prefix_common, sc_shmem_allgather_common
    <3> QED
      BY <1>1, <2>1, <2>4, <3>1, ScanIsTotal, Zenon
  <2>5. CASE Effective = "WINDOW_PRESCAN"
    BY <1>3, <2>1, <2>5, Zenon DEF sc_shmem_prefix, sc_shmem_prefix_common_prescan
  <2> QED
    BY <1>2, <2>2, <2>3, <2>4, <2>5, Zenon
<1> QED
  BY <1>1, <1>4, <1>5, <1>6, Zenon

(* So between calls every rank reads what sc_shmem.h promises of its last     *)
(* call: the values of all ranks in their order, their sums, or the copy.     *)
THEOREM SharedReadsArePromised ==
  ASSUME Documented
  PROVE  Spec => []ReadsArePromised
<1>1. ASSUME ShmemInv, Chosen PROVE ReadsArePromised
  <2> SUFFICES ASSUME NEW r \in Ranks, pc[r] = "idle"
               PROVE  mem[Leader(r)] = IF calls[r] = 0 THEN <<>> ELSE Promised(calls[r])
    BY Zenon DEF ReadsArePromised
  <2>1. Positive
    BY Zenon DEF Documented
  <2>2. mem[Leader(r)] = Left(calls[r])
    BY <1>1, <2>1, InvReads, Zenon DEF ReadsAreLeft
  <2>3. calls[r] \in 0 .. Len(kind) /\ Len(kind) \in Nat
    BY <1>1, <2>1, Counts, Zenon DEF ShmemInv
  <2>4. CASE calls[r] = 0
    BY <2>2, <2>4, Zenon DEF Left
  <2>5. CASE calls[r] # 0
    <3>1. calls[r] \in 1 .. Len(kind)
      BY <2>3, <2>5
    <3> QED
      BY <1>1, <2>2, <2>5, <3>1, LeftIsPromised, Zenon
  <2> QED
    BY <2>4, <2>5, Zenon
<1> QED
  BY <1>1, Invariance, PTL

-----------------------------------------------------------------------------
(***************************************************************************)
(* Hash tables and hash arrays                                             *)
(***************************************************************************)

(* The table s of n slots has its values, which are among V and stand for  *)
(* obj, in the slots of their hash values.                                 *)
InSlots(s, n, V, obj) ==
  /\ n \in Nat \ {0}
  /\ s \in [0 .. n - 1 -> SUBSET V]
  /\ \A i \in 0 .. n - 1 : \A v \in s[i] : hash_fn[obj[v]] % n = i

(* The objects that V stands for have hash values.                         *)
Hashed(V, obj) == \A v \in V : obj[v] \in Key \cup Item

(* m objects are not too many for n slots.                                 *)
Bounded(m, n) == m < 4 * n /\ n >= sc_hash_minimal_size

-----------------------------------------------------------------------------

(* The number of slots, and what is in them.                               *)
LEMMA SlotsOf ==
  ASSUME NEW n \in Nat \ {0}, NEW V, NEW s \in [0 .. n - 1 -> SUBSET V]
  PROVE  /\ NumSlots(s) = n
         /\ Stored(s) \subseteq V
         /\ \A v : v \in Stored(s) <=> \E i \in 0 .. n - 1 : v \in s[i]
<1>1. DOMAIN s = 0 .. n - 1
  OBVIOUS
<1>2. Cardinality(0 .. n - 1) = n
  <2>1. 0 \in Int /\ n - 1 \in Int /\ ~(0 > n - 1) /\ (n - 1) - 0 + 1 = n
    OBVIOUS
  <2> QED
    BY <2>1, FS_Interval, Zenon
<1> QED
  BY <1>1, <1>2, Zenon DEF NumSlots, Stored

(* A hash value modulo the number of slots is the number of a slot.        *)
LEMMA SlotNumber ==
  ASSUME NEW h \in Nat, NEW n \in Nat \ {0}
  PROVE  h % n \in 0 .. n - 1
OBVIOUS

(* An object is found if and only if one that is equal to it is stored:    *)
(* the search looks at one slot only.                                      *)
LEMMA FoundStored ==
  ASSUME NEW s, NEW n, NEW V, NEW obj, NEW v \in V,
         InSlots(s, n, V, obj), Hashed(V, obj)
  PROVE  Found(s, v, obj) = {w \in Stored(s) : obj[w] = obj[v]}
<1>1. n \in Nat \ {0} /\ s \in [0 .. n - 1 -> SUBSET V]
  BY Zenon DEF InSlots
<1>2. NumSlots(s) = n /\ \A w : w \in Stored(s) <=> \E i \in 0 .. n - 1 : w \in s[i]
  BY <1>1, SlotsOf, Zenon
<1>3. hash_fn[obj[v]] \in Nat
  BY HashAssumption, Zenon DEF Hashed
<1>4. Slot(s, v, obj) \in 0 .. n - 1
  BY <1>1, <1>2, <1>3, SlotNumber, Zenon DEF Slot
<1>5. ASSUME NEW i \in 0 .. n - 1, NEW w \in s[i], obj[w] = obj[v] PROVE i = Slot(s, v, obj)
  BY <1>2, <1>5, Zenon DEF InSlots, Slot
<1> QED
  BY <1>2, <1>4, <1>5, Zenon DEF Found

(* Rehashing keeps what is stored, in the slots of its hash values.        *)
LEMMA Rehashed ==
  ASSUME NEW s, NEW n, NEW V, NEW obj, NEW m \in Nat \ {0},
         InSlots(s, n, V, obj), Hashed(V, obj)
  PROVE  InSlots(Rehash(s, m, obj), m, V, obj) /\ Stored(Rehash(s, m, obj)) = Stored(s)
<1> DEFINE t == Rehash(s, m, obj)
<1>1. n \in Nat \ {0} /\ s \in [0 .. n - 1 -> SUBSET V]
  BY Zenon DEF InSlots
<1>2. Stored(s) \subseteq V
  BY <1>1, SlotsOf, Zenon
<1>3. t = [i \in 0 .. m - 1 |-> {v \in Stored(s) : hash_fn[obj[v]] % m = i}]
  BY Zenon DEF Rehash
<1> HIDE DEF t
<1>4. t \in [0 .. m - 1 -> SUBSET V]
  BY <1>2, <1>3, Zenon
<1>5. \A v : v \in Stored(t) <=> \E i \in 0 .. m - 1 : v \in t[i]
  BY <1>4, SlotsOf, Zenon
<1>6. \A v \in Stored(s) : hash_fn[obj[v]] % m \in 0 .. m - 1
  <2>1. \A v \in Stored(s) : hash_fn[obj[v]] \in Nat
    BY <1>2, HashAssumption, Zenon DEF Hashed
  <2> QED
    BY <2>1, SlotNumber, Zenon
<1>7. Stored(t) = Stored(s)
  BY <1>3, <1>5, <1>6, Zenon
<1>8. InSlots(t, m, V, obj)
  BY <1>3, <1>4, Zenon DEF InSlots
<1> QED
  BY <1>7, <1>8, Zenon DEF t

(* After sc_hash_maybe_resize the load is bounded, if it is called as soon *)
(* as the bound is reached.                                                *)
LEMMA Resized ==
  ASSUME NEW s, NEW n, NEW V, NEW obj, NEW k \in Nat,
         InSlots(s, n, V, obj), Hashed(V, obj),
         k <= 4 * n, n >= sc_hash_minimal_size
  PROVE  \E m \in Nat : /\ InSlots(sc_hash_maybe_resize(s, k, obj), m, V, obj)
                        /\ Stored(sc_hash_maybe_resize(s, k, obj)) = Stored(s)
                        /\ Bounded(k, m)
<1>1. n \in Nat \ {0} /\ s \in [0 .. n - 1 -> SUBSET V]
  BY Zenon DEF InSlots
<1>2. NumSlots(s) = n
  BY <1>1, SlotsOf, Zenon
<1> DEFINE less == n \div 4 + 1
<1>3. less \in Nat \ {0} /\ 4 * less > n
  BY <1>1
<1>4. 4 * n - 1 \in Nat \ {0}
  BY <1>1
<1>5. sc_hash_maybe_resize(s, k, obj) =
        CASE k >= 4 * n -> Rehash(s, 4 * n - 1, obj)
          [] k < 4 * n /\ k <= n \div 4 /\ less >= sc_hash_minimal_size -> Rehash(s, less, obj)
          [] OTHER -> s
  BY <1>2, Zenon DEF sc_hash_maybe_resize
<1>6. CASE k >= 4 * n
  <2>1. sc_hash_maybe_resize(s, k, obj) = Rehash(s, 4 * n - 1, obj)
    BY <1>5, <1>6, <1>1
  <2>2. Bounded(k, 4 * n - 1)
    BY <1>1, <1>6, HashAssumption DEF Bounded
  <2>3. PICK m \in Nat \ {0} : m = 4 * n - 1
    BY <1>4, Zenon
  <2>4. InSlots(Rehash(s, m, obj), m, V, obj) /\ Stored(Rehash(s, m, obj)) = Stored(s)
    BY Rehashed, Zenon
  <2>5. sc_hash_maybe_resize(s, k, obj) = Rehash(s, m, obj) /\ Bounded(k, m)
    BY <2>1, <2>2, <2>3, Zenon
  <2> QED
    BY <2>4, <2>5, Zenon
<1>7. CASE k < 4 * n /\ k <= n \div 4 /\ less >= sc_hash_minimal_size
  <2>1. sc_hash_maybe_resize(s, k, obj) = Rehash(s, less, obj)
    BY <1>5, <1>7, <1>1
  <2>2. Bounded(k, less)
    BY <1>1, <1>3, <1>7 DEF Bounded
  <2> HIDE DEF less
  <2> QED
    BY <1>3, <2>1, <2>2, Rehashed, Zenon
<1>8. CASE ~(k >= 4 * n) /\ ~(k < 4 * n /\ k <= n \div 4 /\ less >= sc_hash_minimal_size)
  <2>1. sc_hash_maybe_resize(s, k, obj) = s
    BY <1>5, <1>8, Zenon
  <2>2. Bounded(k, n)
    BY <1>1, <1>8 DEF Bounded
  <2> QED
    BY <1>1, <2>1, <2>2, Zenon
<1> QED
  BY <1>6, <1>7, <1>8, Zenon

(* The number of objects at which a table grows is a multiple of that of   *)
(* its slots, and so is not missed.                                        *)
LEMMA FourTimes ==
  ASSUME NEW n \in Nat \ {0}
  PROVE  (4 * n) % n = 0
OBVIOUS

(* What sc_hash_insert_unique makes of a table.                            *)
LEMMA TableAdd ==
  ASSUME NEW s, NEW n, NEW V, NEW obj, NEW k \in Nat, NEW v \in V,
         InSlots(s, n, V, obj), Hashed(V, obj), Bounded(k, n)
  PROVE  \E m \in Nat : /\ InSlots(Add(s, k, v, obj), m, V, obj)
                        /\ Stored(Add(s, k, v, obj)) = Stored(s) \cup {v}
                        /\ Bounded(k + 1, m)
<1> DEFINE t == [s EXCEPT ![Slot(s, v, obj)] = @ \cup {v}]
<1>1. n \in Nat \ {0} /\ s \in [0 .. n - 1 -> SUBSET V]
  BY Zenon DEF InSlots
<1>2. NumSlots(s) = n /\ \A w : w \in Stored(s) <=> \E i \in 0 .. n - 1 : w \in s[i]
  BY <1>1, SlotsOf, Zenon
<1>3. Slot(s, v, obj) = hash_fn[obj[v]] % n /\ Slot(s, v, obj) \in 0 .. n - 1
  <2>1. hash_fn[obj[v]] \in Nat
    BY HashAssumption, Zenon DEF Hashed
  <2> QED
    BY <1>1, <1>2, <2>1, SlotNumber, Zenon DEF Slot
<1>4. PICK j \in 0 .. n - 1 : j = Slot(s, v, obj)
  BY <1>3, Zenon
<1>5. t \in [0 .. n - 1 -> SUBSET V] /\ \A i \in 0 .. n - 1 : t[i] = IF i = j THEN s[i] \cup {v} ELSE s[i]
  BY <1>1, <1>4, Zenon
<1>6. InSlots(t, n, V, obj)
  BY <1>1, <1>3, <1>4, <1>5, Zenon DEF InSlots
<1>7. Stored(t) = Stored(s) \cup {v}
  <2> HIDE DEF t
  <2>1. \A w : w \in Stored(t) <=> \E i \in 0 .. n - 1 : w \in t[i]
    BY <1>1, <1>5, SlotsOf, Zenon
  <2> QED
    BY <1>2, <1>5, <2>1, Zenon
<1>8. k + 1 \in Nat /\ k + 1 <= 4 * n /\ n >= sc_hash_minimal_size
  BY <1>1 DEF Bounded
<1>9. Add(s, k, v, obj) = IF (k + 1) % n = 0 THEN sc_hash_maybe_resize(t, k + 1, obj) ELSE t
  BY <1>2, Zenon DEF Add
<1> HIDE DEF t
<1>10. CASE (k + 1) % n = 0
  <2>1. PICK q \in Nat : q = k + 1
    BY <1>8, Zenon
  <2>2. \E m \in Nat : /\ InSlots(sc_hash_maybe_resize(t, q, obj), m, V, obj)
                       /\ Stored(sc_hash_maybe_resize(t, q, obj)) = Stored(t)
                       /\ Bounded(q, m)
    BY <1>6, <1>8, <2>1, Resized
  <2> QED
    BY <1>7, <1>9, <1>10, <2>1, <2>2, Zenon
<1>11. CASE (k + 1) % n # 0
  <2>1. k + 1 # 4 * n
    BY <1>1, <1>11, FourTimes, Zenon
  <2>2. Bounded(k + 1, n)
    BY <1>1, <1>8, <2>1 DEF Bounded
  <2> QED
    BY <1>1, <1>6, <1>7, <1>9, <1>11, <2>2, Zenon
<1> QED
  BY <1>10, <1>11, Zenon

(* What sc_hash_remove makes of a table.                                   *)
LEMMA TableDel ==
  ASSUME NEW s, NEW n, NEW V, NEW obj, NEW k \in Nat \ {0}, NEW v \in V,
         InSlots(s, n, V, obj), Hashed(V, obj), Bounded(k, n)
  PROVE  \E m \in Nat : /\ InSlots(Del(s, k, v, obj), m, V, obj)
                        /\ Stored(Del(s, k, v, obj)) = Stored(s) \ {v}
                        /\ Bounded(k - 1, m)
<1> DEFINE t == [s EXCEPT ![Slot(s, v, obj)] = @ \ {v}]
<1>1. n \in Nat \ {0} /\ s \in [0 .. n - 1 -> SUBSET V]
  BY Zenon DEF InSlots
<1>2. NumSlots(s) = n /\ \A w : w \in Stored(s) <=> \E i \in 0 .. n - 1 : w \in s[i]
  BY <1>1, SlotsOf, Zenon
<1>3. Slot(s, v, obj) = hash_fn[obj[v]] % n /\ Slot(s, v, obj) \in 0 .. n - 1
  <2>1. hash_fn[obj[v]] \in Nat
    BY HashAssumption, Zenon DEF Hashed
  <2> QED
    BY <1>1, <1>2, <2>1, SlotNumber, Zenon DEF Slot
<1>4. PICK j \in 0 .. n - 1 : j = Slot(s, v, obj)
  BY <1>3, Zenon
<1>5. t \in [0 .. n - 1 -> SUBSET V] /\ \A i \in 0 .. n - 1 : t[i] = IF i = j THEN s[i] \ {v} ELSE s[i]
  BY <1>1, <1>4, Zenon
<1>6. InSlots(t, n, V, obj)
  BY <1>1, <1>5, Zenon DEF InSlots
<1>7. Stored(t) = Stored(s) \ {v}
  <2> HIDE DEF t
  <2>1. \A w : w \in Stored(t) <=> \E i \in 0 .. n - 1 : w \in t[i]
    BY <1>1, <1>5, SlotsOf, Zenon
  <2>2. \A i \in 0 .. n - 1 : v \in s[i] => i = j
    BY <1>3, <1>4, Zenon DEF InSlots
  <2> QED
    BY <1>2, <1>5, <2>1, <2>2
<1>8. k - 1 \in Nat /\ k - 1 <= 4 * n /\ n >= sc_hash_minimal_size
  BY <1>1 DEF Bounded
<1>9. Del(s, k, v, obj) =
        IF (k - 1) % sc_hash_shrink_interval = 0 THEN sc_hash_maybe_resize(t, k - 1, obj) ELSE t
  BY Zenon DEF Del
<1> HIDE DEF t
<1>10. CASE (k - 1) % sc_hash_shrink_interval = 0
  <2>1. PICK q \in Nat : q = k - 1
    BY <1>8, Zenon
  <2>2. \E m \in Nat : /\ InSlots(sc_hash_maybe_resize(t, q, obj), m, V, obj)
                       /\ Stored(sc_hash_maybe_resize(t, q, obj)) = Stored(t)
                       /\ Bounded(q, m)
    BY <1>6, <1>8, <2>1, Resized
  <2> QED
    BY <1>7, <1>9, <1>10, <2>1, <2>2, Zenon
<1>11. CASE (k - 1) % sc_hash_shrink_interval # 0
  <2>1. Bounded(k - 1, n)
    BY <1>1, <1>8 DEF Bounded
  <2> QED
    BY <1>1, <1>6, <1>7, <1>9, <1>11, <2>1, Zenon
<1> QED
  BY <1>10, <1>11, Zenon

(* A table of keys: what each call tells and leaves behind.                *)
TableInv(n) ==
  /\ hash_count \in Nat
  /\ Bounded(hash_count, n)
  /\ InSlots(slots, n, Key, Keys)
  /\ IsFiniteSet(Stored(slots)) /\ hash_count = Cardinality(Stored(slots))

(* The keys have hash values.                                              *)
LEMMA KeysHashed == Hashed(Key, Keys) /\ \A k \in Key : Keys[k] = k
BY Zenon DEF Hashed, Keys

(* A key is found exactly if it is stored.                                 *)
LEMMA FoundKey ==
  ASSUME NEW n, TableInv(n), NEW k \in Key
  PROVE  Found(slots, k, Keys) # {} <=> k \in Stored(slots)
<1>1. Found(slots, k, Keys) = {w \in Stored(slots) : Keys[w] = Keys[k]}
  BY FoundStored, KeysHashed DEF TableInv
<1>2. Stored(slots) \subseteq Key
  BY SlotsOf, Zenon DEF TableInv, InSlots
<1> QED
  BY <1>1, <1>2, KeysHashed, Zenon

(* A call of a sc_hash keeps the table's invariant, for the number of slots *)
(* it has afterwards, and acts on the set of the objects as StepOfSet says. *)
LEMMA TableStep ==
  ASSUME NEW n \in Nat, TableInv(n), TableNext
  PROVE  (\E m \in Nat : TableInv(m)') /\ StepOfSet
<1>1. /\ hash_count \in Nat /\ Bounded(hash_count, n) /\ InSlots(slots, n, Key, Keys)
      /\ IsFiniteSet(Stored(slots)) /\ hash_count = Cardinality(Stored(slots))
  BY Zenon DEF TableInv
<1>2. ASSUME NEW k \in Key, sc_hash_lookup(k)
      PROVE  (\E m \in Nat : TableInv(m)') /\ ret' = (k \in Stored(slots)) /\ Stored(slots') = Stored(slots)
  <2>1. ret' = (k \in Stored(slots)) /\ UNCHANGED <<slots, hash_count>>
    BY <1>2, FoundKey DEF sc_hash_lookup
  <2>2. TableInv(n)'
    BY <1>1, <2>1, Zenon DEF TableInv
  <2> QED
    BY <2>1, <2>2, Zenon
<1>3. ASSUME NEW k \in Key, sc_hash_insert_unique(k)
      PROVE  (\E m \in Nat : TableInv(m)') /\ ret' = (k \notin Stored(slots)) /\ Stored(slots') = Stored(slots) \cup {k}
  <2>1. CASE k \in Stored(slots)
    <3>1. ret' = FALSE /\ UNCHANGED <<slots, hash_count>>
      BY <1>3, <2>1, FoundKey, Zenon DEF sc_hash_insert_unique
    <3>2. TableInv(n)'
      BY <1>1, <3>1, Zenon DEF TableInv
    <3>3. Stored(slots') = Stored(slots) \cup {k}
      BY <2>1, <3>1, Zenon
    <3> QED
      BY <2>1, <3>1, <3>2, <3>3, Zenon
  <2>2. CASE k \notin Stored(slots)
    <3>1. ret' = TRUE /\ slots' = Add(slots, hash_count, k, Keys) /\ hash_count' = hash_count + 1
      BY <1>3, <2>2, FoundKey, Zenon DEF sc_hash_insert_unique
    <3>2. PICK m \in Nat : /\ InSlots(slots', m, Key, Keys) /\ Bounded(hash_count', m)
                           /\ Stored(slots') = Stored(slots) \cup {k}
      BY <1>1, <3>1, TableAdd, KeysHashed
    <3>3. IsFiniteSet(Stored(slots')) /\ Cardinality(Stored(slots')) = hash_count + 1
      BY <1>1, <2>2, <3>2, FS_AddElement
    <3>4. TableInv(m)'
      BY <1>1, <3>1, <3>2, <3>3 DEF TableInv
    <3> QED
      BY <2>2, <3>1, <3>2, <3>4, Zenon
  <2> QED
    BY <2>1, <2>2, Zenon
<1>4. ASSUME NEW k \in Key, sc_hash_remove(k)
      PROVE  (\E m \in Nat : TableInv(m)') /\ ret' = (k \in Stored(slots)) /\ Stored(slots') = Stored(slots) \ {k}
  <2>1. CASE k \notin Stored(slots)
    <3>1. ret' = FALSE /\ UNCHANGED <<slots, hash_count>>
      BY <1>4, <2>1, FoundKey, Zenon DEF sc_hash_remove
    <3>2. TableInv(n)'
      BY <1>1, <3>1, Zenon DEF TableInv
    <3>3. Stored(slots') = Stored(slots) \ {k}
      BY <2>1, <3>1, Zenon
    <3>4. (k \in Stored(slots)) = FALSE
      BY <2>1
    <3>5. ret' = (k \in Stored(slots))
      BY <3>1, <3>4, Zenon
    <3> QED
      BY <3>2, <3>3, <3>5, Zenon
  <2>2. CASE k \in Stored(slots)
    <3>1. ret' = TRUE /\ slots' = Del(slots, hash_count, k, Keys) /\ hash_count' = hash_count - 1
      BY <1>4, <2>2, FoundKey, Zenon DEF sc_hash_remove
    <3>2. /\ IsFiniteSet(Stored(slots) \ {k}) /\ Cardinality(Stored(slots) \ {k}) = hash_count - 1
          /\ hash_count # 0
      BY <1>1, <2>2, FS_RemoveElement, FS_EmptySet, Zenon
    <3>3. PICK m \in Nat : /\ InSlots(slots', m, Key, Keys) /\ Bounded(hash_count', m)
                           /\ Stored(slots') = Stored(slots) \ {k}
      BY <1>1, <3>1, <3>2, TableDel, KeysHashed
    <3>4. TableInv(m)'
      BY <1>1, <3>1, <3>2, <3>3 DEF TableInv
    <3> QED
      BY <2>2, <3>1, <3>3, <3>4, Zenon
  <2> QED
    BY <2>1, <2>2, Zenon
<1>5. ASSUME sc_hash_truncate PROVE TableInv(n)'
  <2>1. n \in Nat \ {0} /\ slots \in [0 .. n - 1 -> SUBSET Key]
    BY <1>1, Zenon DEF InSlots
  <2>2. hash_count' = 0 /\ slots' = [i \in 0 .. n - 1 |-> {}]
    BY <1>5, <2>1, Zenon DEF sc_hash_truncate
  <2>3. slots' \in [0 .. n - 1 -> SUBSET Key]
    BY <2>2, Zenon
  <2>4. Stored(slots') = {}
    BY <2>1, <2>2, <2>3, SlotsOf, Zenon
  <2>5. InSlots(slots', n, Key, Keys)
    BY <2>1, <2>2, <2>3, Zenon DEF InSlots
  <2>6. Bounded(0, n)
    BY <1>1, <2>1 DEF Bounded
  <2> QED
    BY <2>2, <2>4, <2>5, <2>6, FS_EmptySet, Zenon DEF TableInv
<1>6. StepOfSet
  BY <1>2, <1>3, <1>4, Zenon DEF StepOfSet
<1>7. \E m \in Nat : TableInv(m)'
  BY <1>2, <1>3, <1>4, <1>5, Zenon DEF TableNext
<1> QED
  BY <1>6, <1>7, Zenon

(* A hash array: the table holds the positions of different objects.       *)
Objects(a) == [l \in 0 .. Len(a) - 1 |-> a[l + 1]]

ArrayInv(n) ==
  /\ hash_a \in Seq(Item)
  /\ hash_count = Len(hash_a)
  /\ Bounded(hash_count, n)
  /\ InSlots(slots, n, 0 .. Len(hash_a) - 1, Objects(hash_a))
  /\ Stored(slots) = 0 .. Len(hash_a) - 1
  /\ \A k, l \in 1 .. Len(hash_a) : hash_a[k] = hash_a[l] => k = l

(* The table as the search for an item sees it, which stands for the       *)
(* position -1.                                                            *)
LEMMA WithItem ==
  ASSUME NEW n, ArrayInv(n), NEW item \in Item
  PROVE  /\ InSlots(slots, n, -1 .. Len(hash_a) - 1, Items(item))
         /\ Hashed(-1 .. Len(hash_a) - 1, Items(item))
         /\ PositionsOf(item) = {l \in 0 .. Len(hash_a) - 1 : hash_a[l + 1] = item}
<1> DEFINE V == -1 .. Len(hash_a) - 1
<1>1. Len(hash_a) \in Nat /\ -1 \in V /\ 0 .. Len(hash_a) - 1 \subseteq V
  BY DEF ArrayInv
<1>2. /\ Items(item)[-1] = item
      /\ \A l \in 0 .. Len(hash_a) - 1 : /\ Items(item)[l] = hash_a[l + 1]
                                         /\ Objects(hash_a)[l] = hash_a[l + 1]
                                         /\ hash_a[l + 1] \in Item
  <2>1. \A l \in 0 .. Len(hash_a) - 1 : hash_a[l + 1] \in Item /\ l \in V /\ l # -1
    BY <1>1 DEF ArrayInv
  <2> QED
    BY <1>1, <2>1, Zenon DEF Items, Objects
<1>3. Hashed(V, Items(item))
  <2>1. \A l \in V : l = -1 \/ l \in 0 .. Len(hash_a) - 1
    BY <1>1
  <2> QED
    BY <1>2, <2>1, Zenon DEF Hashed
<1>4. InSlots(slots, n, V, Items(item))
  <2>1. /\ n \in Nat \ {0} /\ slots \in [0 .. n - 1 -> SUBSET (0 .. Len(hash_a) - 1)]
        /\ \A i \in 0 .. n - 1 : \A v \in slots[i] : hash_fn[Objects(hash_a)[v]] % n = i
    BY Zenon DEF ArrayInv, InSlots
  <2>2. slots \in [0 .. n - 1 -> SUBSET V]
    BY <1>1, <2>1, Zenon
  <2>3. \A i \in 0 .. n - 1 : \A v \in slots[i] : hash_fn[Items(item)[v]] % n = i
    BY <1>2, <2>1
  <2> QED
    BY <2>1, <2>2, <2>3, Zenon DEF InSlots
<1> HIDE DEF V
<1>5. PositionsOf(item) = {w \in Stored(slots) : Items(item)[w] = Items(item)[-1]}
  BY <1>1, <1>3, <1>4, FoundStored DEF PositionsOf
<1>6. PositionsOf(item) = {l \in 0 .. Len(hash_a) - 1 : hash_a[l + 1] = item}
  BY <1>2, <1>5, Zenon DEF ArrayInv
<1> QED
  BY <1>3, <1>4, <1>6, Zenon DEF V

(* The position is stored in place of -1 in whatever slot that is in.      *)
LEMMA NewPosition ==
  ASSUME NEW n \in Nat, ArrayInv(n), NEW item \in Item,
         PositionsOf(item) = {}, sc_hash_array_insert_unique(item)
  PROVE  \E m \in Nat : ArrayInv(m)'
<1> DEFINE L == Len(hash_a)
           t == Add(slots, hash_count, -1, Items(item))
<1>1. /\ hash_a \in Seq(Item) /\ L \in Nat /\ hash_count = L /\ Stored(slots) = 0 .. L - 1
      /\ Bounded(hash_count, n)
      /\ \A k, l \in 1 .. L : hash_a[k] = hash_a[l] => k = l
  BY DEF ArrayInv
<1>2. /\ InSlots(slots, n, -1 .. L - 1, Items(item))
      /\ Hashed(-1 .. L - 1, Items(item))
      /\ \A l \in 0 .. L - 1 : hash_a[l + 1] # item
  BY WithItem, Zenon
<1>3. /\ slots' = [i \in DOMAIN t |-> {IF l = -1 THEN L ELSE l : l \in t[i]}]
      /\ hash_count' = hash_count + 1
      /\ hash_a' = Append(hash_a, item)
  BY Zenon DEF sc_hash_array_insert_unique
<1>4. PICK m \in Nat : /\ InSlots(t, m, -1 .. L - 1, Items(item))
                       /\ Stored(t) = Stored(slots) \cup {-1}
                       /\ Bounded(hash_count + 1, m)
  <2>1. -1 \in -1 .. L - 1 /\ hash_count \in Nat
    BY <1>1
  <2> QED
    BY <1>1, <1>2, <2>1, TableAdd
<1>5. /\ hash_a' \in Seq(Item) /\ Len(hash_a') = L + 1
      /\ \A k \in 1 .. L : hash_a'[k] = hash_a[k]
      /\ hash_a'[L + 1] = item
  BY <1>1, <1>3
<1> HIDE DEF t
<1>6. /\ m \in Nat \ {0} /\ t \in [0 .. m - 1 -> SUBSET (-1 .. L - 1)]
      /\ \A i \in 0 .. m - 1 : \A v \in t[i] : hash_fn[Items(item)[v]] % m = i
  BY <1>4, Zenon DEF InSlots
<1>7. /\ DOMAIN slots' = 0 .. m - 1
      /\ \A i \in 0 .. m - 1 : slots'[i] = {IF l = -1 THEN L ELSE l : l \in t[i]}
  BY <1>3, <1>6, Zenon
<1>8. \A i \in 0 .. m - 1 : \A v : v \in slots'[i] <=> (v = L /\ -1 \in t[i]) \/ (v \in 0 .. L - 1 /\ v \in t[i])
  <2>1. TAKE i \in 0 .. m - 1
  <2>2. TAKE v
  <2>3. t[i] \subseteq -1 .. L - 1
    BY <1>6, Zenon
  <2>4. slots'[i] = {IF l = -1 THEN L ELSE l : l \in t[i]}
    BY <1>7, Zenon
  <2> HIDE DEF L
  <2> QED
    BY <1>1, <2>3, <2>4 DEF L
<1>9. slots' \in [0 .. m - 1 -> SUBSET (0 .. L)]
  <2>1. \A i \in 0 .. m - 1 : slots'[i] \in SUBSET (0 .. L)
    BY <1>1, <1>8
  <2>2. slots' = [i \in 0 .. m - 1 |-> slots'[i]]
    BY <1>3, <1>6, Zenon
  <2> QED
    BY <2>1, <2>2, Zenon
<1>10. Stored(slots') = 0 .. L
  <2>1. \A v : v \in Stored(slots') <=> \E i \in 0 .. m - 1 : v \in slots'[i]
    BY <1>6, <1>9, SlotsOf, Zenon
  <2>2. \A v : v \in Stored(t) <=> \E i \in 0 .. m - 1 : v \in t[i]
    <3>1. PICK V : V = -1 .. L - 1
      OBVIOUS
    <3>2. m \in Nat \ {0} /\ t \in [0 .. m - 1 -> SUBSET V]
      BY <1>6, <3>1, Zenon
    <3> QED
      BY <3>2, SlotsOf, Zenon
  <2>3. \A v : v \in Stored(slots') <=> (v = L /\ -1 \in Stored(t)) \/ (v \in 0 .. L - 1 /\ v \in Stored(t))
    BY <1>8, <2>1, <2>2, Zenon
  <2>4. \A v : v \in Stored(slots') <=> v = L \/ v \in 0 .. L - 1
    BY <1>1, <1>4, <2>3, Zenon
  <2>5. \A v : v \in 0 .. L <=> v = L \/ v \in 0 .. L - 1
    BY <1>1
  <2> QED
    BY <2>4, <2>5, Zenon
<1>11. InSlots(slots', m, 0 .. L, Objects(hash_a'))
  <2>1. /\ Items(item)[-1] = item /\ Objects(hash_a')[L] = item
        /\ \A l \in 0 .. L - 1 : Items(item)[l] = Objects(hash_a')[l]
    <3>1. -1 \in -1 .. L - 1 /\ L \in 0 .. Len(hash_a') - 1
      BY <1>1, <1>5
    <3>2. \A l \in 0 .. L - 1 : /\ l \in 0 .. Len(hash_a') - 1 /\ l \in -1 .. L - 1 /\ l # -1
                                /\ hash_a'[l + 1] = hash_a[l + 1]
      BY <1>1, <1>5
    <3> QED
      BY <1>5, <3>1, <3>2, Zenon DEF Items, Objects
  <2>2. ASSUME NEW i \in 0 .. m - 1, NEW v \in slots'[i] PROVE hash_fn[Objects(hash_a')[v]] % m = i
    <3>1. (v = L /\ -1 \in t[i]) \/ (v \in 0 .. L - 1 /\ v \in t[i])
      BY <1>8, Zenon
    <3> QED
      BY <1>6, <2>1, <3>1
  <2> QED
    BY <1>6, <1>9, <2>2, Zenon DEF InSlots
<1>12. \A k, l \in 1 .. L + 1 : hash_a'[k] = hash_a'[l] => k = l
  <2>1. \A k \in 1 .. L : hash_a[k] # item
    <3>1. TAKE k \in 1 .. L
    <3>2. k - 1 \in 0 .. L - 1 /\ (k - 1) + 1 = k
      BY <1>1
    <3> QED
      BY <1>2, <3>2, Zenon
  <2>2. \A k \in 1 .. L + 1 : k = L + 1 \/ k \in 1 .. L
    BY <1>1
  <2> HIDE DEF L
  <2> QED
    BY <1>1, <1>5, <2>1, <2>2, Zenon
<1>13. Len(hash_a') - 1 = L /\ hash_count' = L + 1
  BY <1>1, <1>3, <1>5
<1>14. ArrayInv(m)'
  BY <1>3, <1>4, <1>5, <1>10, <1>11, <1>12, <1>13, Zenon DEF ArrayInv
<1> QED
  BY <1>14, Zenon

(* A call of a sc_hash_array keeps the invariant of table and array.        *)
LEMMA ArrayStep ==
  ASSUME NEW n \in Nat, ArrayInv(n), HashArrayNext
  PROVE  \E m \in Nat : ArrayInv(m)'
<1>1. ASSUME UNCHANGED <<slots, hash_count, hash_a>> PROVE ArrayInv(n)'
  BY <1>1, Zenon DEF ArrayInv
<1>2. ASSUME NEW x \in Item, sc_hash_array_lookup(x) PROVE ArrayInv(n)'
  BY <1>1, <1>2, Zenon DEF sc_hash_array_lookup
<1>3. ASSUME NEW x \in Item, sc_hash_array_insert_unique(x) PROVE \E m \in Nat : ArrayInv(m)'
  <2>1. CASE PositionsOf(x) = {}
    BY <1>3, <2>1, NewPosition, Zenon
  <2>2. CASE PositionsOf(x) # {}
    BY <1>1, <1>3, <2>2, Zenon DEF sc_hash_array_insert_unique
  <2> QED
    BY <2>1, <2>2, Zenon
<1>4. ASSUME sc_hash_array_truncate PROVE ArrayInv(n)'
  <2>1. n \in Nat \ {0} /\ slots \in [0 .. n - 1 -> SUBSET (0 .. Len(hash_a) - 1)]
    BY Zenon DEF ArrayInv, InSlots
  <2>2. hash_count' = 0 /\ hash_a' = <<>> /\ slots' = [i \in 0 .. n - 1 |-> {}]
    BY <1>4, <2>1, Zenon DEF sc_hash_array_truncate
  <2>3. hash_a' \in Seq(Item) /\ Len(hash_a') = 0 /\ 0 .. Len(hash_a') - 1 = {} /\ 1 .. Len(hash_a') = {}
    BY <2>2
  <2>4. slots' \in [0 .. n - 1 -> SUBSET {}]
    BY <2>2, Zenon
  <2>5. Stored(slots') = {}
    BY <2>1, <2>4, SlotsOf
  <2>6. InSlots(slots', n, {}, Objects(hash_a'))
    BY <2>1, <2>2, <2>4, Zenon DEF InSlots
  <2>7. Bounded(0, n)
    BY <2>1 DEF ArrayInv, Bounded
  <2> QED
    BY <2>2, <2>3, <2>5, <2>6, <2>7, Zenon DEF ArrayInv
<1> QED
  BY <1>2, <1>3, <1>4, Zenon DEF HashArrayNext

-----------------------------------------------------------------------------

HashInv ==
  /\ hash_kind \in {"hash", "hash_array"}
  /\ hash_kind = "hash" => \E n \in Nat : TableInv(n)
  /\ hash_kind = "hash_array" => \E n \in Nat : ArrayInv(n)

(* An empty table is both.                                                 *)
LEMMA HashStart == HashInit => HashInv
<1> SUFFICES ASSUME HashInit PROVE HashInv
  OBVIOUS
<1> DEFINE n == sc_hash_minimal_size
<1>1. n \in Nat \ {0}
  BY HashAssumption, Zenon
<1>2. slots = [i \in 0 .. n - 1 |-> {}] /\ hash_count = 0 /\ hash_a = <<>>
  BY Zenon DEF HashInit
<1>3. slots \in [0 .. n - 1 -> SUBSET {}]
  BY <1>2, Zenon
<1> HIDE DEF n
<1>4. Stored(slots) = {}
  BY <1>1, <1>3, SlotsOf
<1>5. \A V, obj : InSlots(slots, n, V, obj)
  BY <1>1, <1>2, Zenon DEF InSlots
<1>6. Bounded(0, n)
  BY <1>1 DEF Bounded, n
<1>7. TableInv(n)
  BY <1>2, <1>4, <1>5, <1>6, FS_EmptySet, Zenon DEF TableInv
<1>8. hash_a \in Seq(Item) /\ Len(hash_a) = 0 /\ 0 .. Len(hash_a) - 1 = {} /\ 1 .. Len(hash_a) = {}
  BY <1>2
<1>9. ArrayInv(n)
  BY <1>2, <1>4, <1>5, <1>6, <1>8, Zenon DEF ArrayInv
<1> QED
  BY <1>1, <1>7, <1>9, Zenon DEF HashInv, HashInit

(* Whichever of the two containers is exercised, a call keeps its invariant.*)
LEMMA HashStep == HashInv /\ [HashNext]_hashvars => HashInv'
<1> SUFFICES ASSUME HashInv, [HashNext]_hashvars PROVE HashInv'
  OBVIOUS
<1>1. CASE HashNext
  <2>1. hash_kind' = hash_kind
    BY <1>1, Zenon DEF HashNext
  <2>2. CASE hash_kind = "hash"
    <3>1. TableNext
      BY <1>1, <2>2, Zenon DEF HashNext
    <3>2. \E m \in Nat : TableInv(m)'
      BY <2>2, <3>1, TableStep, Zenon DEF HashInv
    <3> QED
      BY <2>1, <2>2, <3>2, Zenon DEF HashInv
  <2>3. CASE hash_kind = "hash_array"
    <3>1. HashArrayNext
      BY <1>1, <2>3, Zenon DEF HashNext
    <3>2. \E m \in Nat : ArrayInv(m)'
      BY <2>3, <3>1, ArrayStep, Zenon DEF HashInv
    <3> QED
      BY <2>1, <2>3, <3>2, Zenon DEF HashInv
  <2> QED
    BY <2>2, <2>3, Zenon DEF HashInv
<1>2. CASE UNCHANGED hashvars
  BY <1>2, Zenon DEF HashInv, hashvars, TableInv, ArrayInv
<1> QED
  BY <1>1, <1>2, Zenon

(* The invariant holds after every sequence of calls.                       *)
LEMMA HashInvariant == HashSpec => []HashInv
BY HashStart, HashStep, PTL DEF HashSpec

(* Whatever the objects, their hash values and the sequence of calls, a    *)
(* hash table never holds four objects per slot or more, although          *)
(* sc_hash_insert_unique looks at the load only now and then, and a hash   *)
(* array finds each object that it holds at its position, although         *)
(* sc_hash_array_insert_unique stores the position after the table may     *)
(* have been resized.                                                      *)
THEOREM HashSound == HashSpec => []HashIsSound
<1>1. HashInv => HashIsSound
  <2> SUFFICES ASSUME HashInv PROVE HashIsSound
    OBVIOUS
  <2>1. ASSUME NEW n \in Nat, NEW V, NEW obj, InSlots(slots, n, V, obj), Bounded(hash_count, n)
        PROVE  LoadIsBounded
    <3>1. NumSlots(slots) = n
      BY <2>1, SlotsOf, Zenon DEF InSlots
    <3> QED
      BY <2>1, <3>1, Zenon DEF Bounded, LoadIsBounded
  <2>2. LoadIsBounded
    BY <2>1, Zenon DEF HashInv, TableInv, ArrayInv
  <2>3. ASSUME hash_kind = "hash_array" PROVE HashArrayIsValid
    <3>1. PICK n \in Nat : ArrayInv(n)
      BY <2>3, Zenon DEF HashInv
    <3>2. Len(hash_a) \in Nat /\ \A l \in 0 .. Len(hash_a) - 1 : l + 1 \in 1 .. Len(hash_a) /\ hash_a[l + 1] \in Item
      BY <3>1 DEF ArrayInv
    <3>3. ASSUME NEW l \in 0 .. Len(hash_a) - 1 PROVE PositionsOf(hash_a[l + 1]) = {l}
      <4>1. PositionsOf(hash_a[l + 1]) = {k \in 0 .. Len(hash_a) - 1 : hash_a[k + 1] = hash_a[l + 1]}
        BY <3>1, <3>2, WithItem, Zenon
      <4>2. \A k \in 0 .. Len(hash_a) - 1 : hash_a[k + 1] = hash_a[l + 1] => k = l
        BY <3>1, <3>2 DEF ArrayInv
      <4> QED
        BY <4>1, <4>2, Zenon
    <3> QED
      BY <3>1, <3>3, Zenon DEF HashArrayIsValid, ArrayInv
  <2> QED
    BY <2>2, <2>3, Zenon DEF HashIsSound
<1> QED
  BY <1>1, HashInvariant, PTL

(* A hash table is a set: each call adds or removes exactly the object it  *)
(* is given, across any resizing, and its return value tells the truth.    *)
THEOREM HashIsSet == HashSpec => [][hash_kind = "hash" => StepOfSet]_hashvars
<1>1. HashInv /\ [HashNext]_hashvars => [hash_kind = "hash" => StepOfSet]_hashvars
  BY TableStep, Zenon DEF HashInv, HashNext
<1> QED
  BY <1>1, HashInvariant, PTL DEF HashSpec

=============================================================================
