------------------------------- MODULE Shmem ---------------------------------
(* Shared memory arrays (sc_shmem.c) on the node communicators that           *)
(* sc_mpi_comm_attach_node_comms computes (sc_mpi.c).  P ranks fill an array  *)
(* collectively, call after call; between calls each rank reads the array, of *)
(* which there is one per rank for the basic types and one per node for the   *)
(* window types.                                                              *)
EXTENDS Integers, Sequences, FiniteSets

CONSTANTS P, Count,     \* ranks, and values per rank
          Types,        \* sc_shmem_type_t values considered
          PerNode,      \* values of processes_per_node, 0 for hardware nodes
          Placements,   \* hardware nodes considered: functions from ranks
          Ops,          \* kinds of calls: "allgather", "prefix", "memcpy"
          CallerSync,   \* the caller has a barrier before a direct write
          MaxCalls      \* bound on the number of calls

VARIABLES type,         \* sc_shmem_get_type
          node,         \* rank -> root of its node, or <<>> without node communicators
          order,        \* place in the gathered array -> rank
          kind,         \* kind of the c-th call
          calls,        \* rank -> calls begun
          pc,           \* rank -> place in the current call
          given,        \* rank -> calls it has contributed to
          mem           \* owner of an array -> its contents, or NoArray
vars == <<type, node, order, kind, calls, pc, given, mem>>

Ranks == 0 .. P - 1
NoArray == <<"none">>

(* sc_mpi_comm_attach_node_comms: nodes given by number or by the hardware;   *)
(* hardware nodes of different sizes are not attached.                        *)
SameSize(f) == \A q, r \in Ranks : Cardinality({s \in Ranks : f[s] = f[q]}) = Cardinality({s \in Ranks : f[s] = f[r]})
sc_mpi_comm_attach_node_comms(n) ==
  LET root(f) == [r \in Ranks |-> CHOOSE q \in Ranks : f[q] = f[r] /\ \A s \in Ranks : f[s] = f[r] => q <= s]
  IN IF n >= 1 THEN {root([r \in Ranks |-> r \div n])}
     ELSE {IF SameSize(f) THEN root(f) ELSE <<>> : f \in Placements}

(* The calls fall back to the basic type without node communicators.          *)
Effective == IF node = <<>> THEN "BASIC" ELSE type
Shared == Effective \in {"WINDOW", "WINDOW_PRESCAN"}
Leader(r) == IF Shared THEN node[r] ELSE r
Team(r) == IF Shared THEN {q \in Ranks : node[q] = node[r]} ELSE {r}

(* The gather within the nodes is in the order of ranks there, the gather     *)
(* between node roots in the order of the roots.                              *)
Place(nd, r) == Cardinality({q \in Ranks : nd[q] < nd[r] \/ (nd[q] = nd[r] /\ q < r)})
Order(nd) == [i \in Ranks |-> CHOOSE r \in Ranks : Place(nd, r) = i]

-----------------------------------------------------------------------------
(* What rank r contributes to call c.                                         *)
Send(r, c) == [i \in 1 .. Count |-> (r + 1) * (10 ^ (i - 1)) + c]
Total(r, c) ==
  LET sum[q \in 0 .. r] == [i \in 1 .. Count |-> Send(q, c)[i] + (IF q = 0 THEN 0 ELSE sum[q - 1][i])] IN sum[r]

(* Entry i of an array of values per rank.                                    *)
Flat(of) == [i \in 1 .. P * Count |-> of[(i - 1) \div Count][((i - 1) % Count) + 1]]
Zero == [i \in 1 .. Count |-> 0]

(* sc_scan_on_array adds to every entry the one count places before, in place. *)
sc_scan_on_array(a) ==
  LET new[i \in DOMAIN a] == IF i <= Count THEN a[i] ELSE a[i] + new[i - Count] IN new

(* What is gathered, by ranks with the basic types and through the node roots *)
(* with the others; the prescan types gather the result of MPI_Scan.          *)
sc_shmem_allgather_basic(c) == Flat([r \in Ranks |-> Send(r, c)])
sc_shmem_allgather_common(c) == Flat([i \in Ranks |-> Send(order[i], c)])
sc_shmem_prefix_basic(c) == Zero \o sc_shmem_allgather_basic(c)
sc_shmem_prefix_prescan(c) == Zero \o Flat([r \in Ranks |-> Total(r, c)])
sc_shmem_prefix_common(c) == Zero \o sc_shmem_allgather_common(c)
sc_shmem_prefix_common_prescan(c) == Zero \o Flat([i \in Ranks |-> Total(order[i], c)])
sc_shmem_memcpy(c) == [i \in 1 .. P * Count |-> -i]

sc_shmem_allgather(c) == IF Shared THEN sc_shmem_allgather_common(c) ELSE sc_shmem_allgather_basic(c)
sc_shmem_prefix(c) == CASE Effective = "BASIC" -> sc_shmem_prefix_basic(c)
                        [] Effective = "PRESCAN" -> sc_shmem_prefix_prescan(c)
                        [] Effective = "WINDOW" -> sc_shmem_prefix_common(c)
                        [] Effective = "WINDOW_PRESCAN" -> sc_shmem_prefix_common_prescan(c)
Scans(c) == kind[c] = "prefix" /\ Effective \in {"BASIC", "WINDOW"}
Prescans(c) == kind[c] = "prefix" /\ ~Scans(c)

-----------------------------------------------------------------------------
(* sc_shmem_malloc: an array of its own for each rank, or a window of the     *)
(* node, where the ranks meet in a barrier before they use it.                *)
sc_shmem_malloc(r) ==
  /\ pc[r] = "new" /\ mem' = [mem EXCEPT ![r] = <<>>]
  /\ pc' = [pc EXCEPT ![r] = IF Shared THEN "alloc" ELSE "idle"]
  /\ UNCHANGED <<type, node, order, kind, calls, given>>
sc_shmem_malloc_window(r) ==
  /\ pc[r] = "alloc" /\ \A q \in Team(r) : pc[q] # "new"
  /\ pc' = [pc EXCEPT ![r] = "idle"] /\ UNCHANGED <<type, node, order, kind, calls, given, mem>>

(* sc_shmem_free; MPI_Win_free is collective in the node.                     *)
sc_shmem_free(r) ==
  /\ pc[r] = "idle" /\ calls[r] = MaxCalls
  /\ pc' = [pc EXCEPT ![r] = IF Shared THEN "free" ELSE "freed"]
  /\ mem' = IF Shared THEN mem ELSE [mem EXCEPT ![r] = NoArray]
  /\ UNCHANGED <<type, node, order, kind, calls, given>>
sc_shmem_free_window(r) ==
  /\ pc[r] = "free" /\ \A q \in Team(r) : pc[q] \in {"free", "freed"}
  /\ pc' = [pc EXCEPT ![r] = "freed"]
  /\ mem' = IF r = Leader(r) THEN [mem EXCEPT ![r] = NoArray] ELSE mem
  /\ UNCHANGED <<type, node, order, kind, calls, given>>

-----------------------------------------------------------------------------
(* A call.  All ranks make the same calls in the same order.  A direct write  *)
(* (sc_shmem_memcpy) has no gather and does not wait for readers by itself.   *)
Enter(r) ==
  LET c == calls[r] + 1 IN
  /\ pc[r] = "idle" /\ c <= MaxCalls
  /\ IF c \in DOMAIN kind THEN UNCHANGED kind ELSE \E k \in Ops : kind' = Append(kind, k)
  /\ calls' = [calls EXCEPT ![r] = c]
  /\ pc' = [pc EXCEPT ![r] = IF kind'[c] = "memcpy" THEN "sync" ELSE "scan"]
  /\ UNCHANGED <<type, node, order, given, mem>>

(* The caller's barrier.                                                      *)
Sync(r) == /\ pc[r] = "sync"
           /\ CallerSync => \A q \in Ranks : calls[q] >= calls[r]
           /\ pc' = [pc EXCEPT ![r] = "start"] /\ UNCHANGED <<type, node, order, kind, calls, given, mem>>

(* The rank gives its part: to MPI_Scan for the prescan types, which needs    *)
(* all lower ranks, and to the gather.                                        *)
Contribute(r) ==
  /\ pc[r] = "scan"
  /\ Prescans(calls[r]) => \A q \in 0 .. r : calls[q] >= calls[r]
  /\ given' = [given EXCEPT ![r] = calls[r]]
  /\ pc' = [pc EXCEPT ![r] = "start"] /\ UNCHANGED <<type, node, order, kind, calls, mem>>

(* sc_shmem_write_start: each rank writes with the basic types.  A node root  *)
(* writes for its window, after the gather; the others are told not to and go *)
(* on to the barrier of sc_shmem_write_end.                                   *)
sc_shmem_write_start_basic(r) == "write"
sc_shmem_write_start_window(r) == IF r = node[r] THEN "write" ELSE "end"
sc_shmem_write_start(r) ==
  /\ pc[r] = "start"
  /\ r = Leader(r) /\ kind[calls[r]] # "memcpy" => \A q \in Team(r) : given[q] >= calls[r]
  /\ pc' = [pc EXCEPT ![r] = IF Shared THEN sc_shmem_write_start_window(r) ELSE sc_shmem_write_start_basic(r)]
  /\ UNCHANGED <<type, node, order, kind, calls, given, mem>>

(* The writer's part: the gathered values, which needs all node roots, or     *)
(* the source of the copy; then a scan in place where there is one.           *)
Write(r) ==
  LET c == calls[r] IN
  /\ pc[r] = "write"
  /\ kind[c] # "memcpy" => \A q \in Ranks : given[q] >= c
  /\ mem' = [mem EXCEPT ![r] = CASE kind[c] = "memcpy" -> sc_shmem_memcpy(c)
                                 [] kind[c] = "allgather" -> sc_shmem_allgather(c)
                                 [] OTHER -> sc_shmem_prefix(c)]
  /\ pc' = [pc EXCEPT ![r] = IF Scans(c) THEN "sum" ELSE "end"]
  /\ UNCHANGED <<type, node, order, kind, calls, given>>
Scan(r) == /\ pc[r] = "sum" /\ mem' = [mem EXCEPT ![r] = sc_scan_on_array(@)]
           /\ pc' = [pc EXCEPT ![r] = "end"] /\ UNCHANGED <<type, node, order, kind, calls, given>>

(* Faulty variant: no barrier, so that ranks may read before the root writes. *)
WriteEndAtOnce(r) ==
  pc[r] = "end" /\ pc' = [pc EXCEPT ![r] = "idle"] /\ UNCHANGED <<type, node, order, kind, calls, given, mem>>

(* sc_shmem_write_end: a barrier of the node.                                 *)
Arrived(q, c) == calls[q] > c \/ (calls[q] = c /\ pc[q] \in {"end", "idle", "free", "freed"})
sc_shmem_write_end(r) ==
  /\ pc[r] = "end" /\ \A q \in Team(r) : Arrived(q, calls[r])
  /\ pc' = [pc EXCEPT ![r] = "idle"] /\ UNCHANGED <<type, node, order, kind, calls, given, mem>>

Init == /\ type \in Types /\ \E n \in PerNode : node \in sc_mpi_comm_attach_node_comms(n)
        /\ order = IF node = <<>> THEN <<>> ELSE Order(node)
        /\ kind = <<>> /\ calls = [r \in Ranks |-> 0] /\ pc = [r \in Ranks |-> "new"]
        /\ given = [r \in Ranks |-> 0] /\ mem = [r \in Ranks |-> NoArray]
Freed == \A r \in Ranks : pc[r] = "freed"
Done == Freed /\ UNCHANGED vars
Step(r) == \/ sc_shmem_malloc(r) \/ sc_shmem_malloc_window(r) \/ sc_shmem_free(r) \/ sc_shmem_free_window(r)
           \/ Enter(r) \/ Sync(r) \/ Contribute(r) \/ sc_shmem_write_start(r) \/ Write(r) \/ Scan(r) \/ sc_shmem_write_end(r)
Next == (\E r \in Ranks : Step(r)) \/ Done
Spec == Init /\ [][Next]_vars

-----------------------------------------------------------------------------
(* The array a call promises: the values in the order of ranks, or            *)
(* (0, send0, send0 op send1, ...) for a prefix sum (sc_shmem.h).             *)
Promised(c) ==
  CASE kind[c] = "memcpy" -> [i \in 1 .. P * Count |-> -i]
    [] kind[c] = "allgather" -> Flat([r \in Ranks |-> Send(r, c)])
    [] OTHER -> Zero \o Flat([r \in Ranks |-> Total(r, c)])

(* A rank that is between calls reads what its last call promised: no other   *)
(* rank's next call changes or frees the array under it, and the barrier of   *)
(* sc_shmem_write_end makes the write visible.                                *)
ReadsArePromised ==
  \A r \in Ranks : pc[r] = "idle" => mem[Leader(r)] = IF calls[r] = 0 THEN <<>> ELSE Promised(calls[r])
=============================================================================
