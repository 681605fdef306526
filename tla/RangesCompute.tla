---------------------------- MODULE RangesCompute ----------------------------
(***************************************************************************)
(* sc_ranges_compute: cover the peers of a rank by at most num_ranges      *)
(* ranges of consecutive ranks that contain as few other ranks as          *)
(* possible.  One pass over the ranks collects the gaps between peers,     *)
(* keeping no more than num_ranges - 1 of them and dropping the shortest   *)
(* whenever there is one too many; what lies between the gaps are the      *)
(* ranges.                                                                 *)
(***************************************************************************)
EXTENDS Ranges

CONSTANTS N,  \* number of ranks, num_procs in the code
          K   \* greatest number of ranges

VARIABLES procs,       \* the ranks marked as peers, maybe with the own rank
          rank,        \* the own rank, which is no peer
          num_ranges,
          ranges,      \* ranges[i]: <<start, end>>, or Unused
          nwin,        \* number of ranges in use
          prev,        \* the last peer found, or -1
          j,           \* the next rank to look at
          pc

vars == <<procs, rank, num_ranges, ranges, nwin, prev, j, pc>>

Unused == <<-1, -2>>
peers == procs \ {rank}

Init ==
  /\ procs \in SUBSET (0 .. N-1)
  /\ rank \in 0 .. N-1
  /\ num_ranges \in 1 .. K
  /\ ranges = [i \in 0 .. num_ranges - 1 |-> Unused]
  /\ nwin = 0
  /\ prev = -1
  /\ j = 0
  /\ pc = "gaps"

(* "if no peers are present there are no ranges"                           *)
NoPeers ==
  /\ pc = "gaps"
  /\ peers = {}
  /\ pc' = "done"
  /\ UNCHANGED <<procs, rank, num_ranges, ranges, nwin, prev, j>>

(* A rank that is not a peer is passed over.                               *)
PassOver ==
  /\ pc = "gaps" /\ peers # {}
  /\ j < N /\ j \notin peers
  /\ j' = j + 1
  /\ UNCHANGED <<procs, rank, num_ranges, ranges, nwin, prev, pc>>

(* The first peer, or one right behind the last.                           *)
NextPeer ==
  /\ pc = "gaps"
  /\ j < N /\ j \in peers
  /\ prev = -1 \/ prev = j - 1
  /\ prev' = j
  /\ j' = j + 1
  /\ UNCHANGED <<procs, rank, num_ranges, ranges, nwin, pc>>

(* Faulty variant: the gap found last is dropped.                          *)
ShortestLast(r) == Max(DOMAIN r)

(* The first of the shortest gaps in r.                                    *)
Shortest(r) ==
  LET length(i) == r[i][2] - r[i][1] + 1
  IN CHOOSE i \in DOMAIN r : \A k \in DOMAIN r :
       length(i) <= length(k) /\ (length(i) = length(k) => i <= k)

(* Claim an unused range for the gap; if then all are used, the last takes *)
(* the place of the shortest.                                              *)
Claim(r, gap) ==
  LET i    == Min({k \in DOMAIN r : r[k] = Unused})
      full == [r EXCEPT ![i] = gap]
      last == num_ranges - 1
  IN IF i < last THEN full
     ELSE [full EXCEPT ![Shortest(full)] = full[last], ![last] = Unused]

Gap ==
  /\ pc = "gaps"
  /\ j < N /\ j \in peers
  /\ prev # -1 /\ prev < j - 1
  /\ ranges' = Claim(ranges, <<prev + 1, j - 1>>)
  /\ nwin' = Min({nwin + 1, num_ranges - 1})
  /\ prev' = j
  /\ j' = j + 1
  /\ UNCHANGED <<procs, rank, num_ranges, pc>>

(* "sort empty ranges by start rank", and "compute real ranges from empty  *)
(* ranges": between first_peer and last_peer.                              *)
Invert ==
  LET gap == ByStart({ranges[i] : i \in 0 .. nwin - 1})
  IN /\ pc = "gaps" /\ peers # {}
     /\ j = N
     /\ ranges' = [i \in DOMAIN ranges |->
                     IF i > nwin THEN Unused
                     ELSE <<IF i = 0 THEN Min(peers) ELSE gap[i][2] + 1,
                            IF i = nwin THEN Max(peers) ELSE gap[i+1][1] - 1>>]
     /\ nwin' = nwin + 1
     /\ pc' = "done"
     /\ UNCHANGED <<procs, rank, num_ranges, prev, j>>

Done ==
  /\ pc = "done"
  /\ UNCHANGED vars

Next == NoPeers \/ PassOver \/ NextPeer \/ Gap \/ Invert \/ Done

Spec == Init /\ [][Next]_vars

-----------------------------------------------------------------------------

Covered == UNION {ranges[i][1] .. ranges[i][2] : i \in 0 .. nwin - 1}

(* The ranges cover all peers, begin and end with one, ascend with at      *)
(* least one rank between them, and those not in use are marked so: what   *)
(* the assertions at the end of sc_ranges_compute demand, and what         *)
(* sc_ranges_decode builds on when it stops at the first range it passes.  *)
RangesAreProper ==
  pc = "done" =>
    /\ nwin \in 0 .. num_ranges
    /\ peers \subseteq Covered
    /\ \A i \in 0 .. nwin - 1 : ranges[i][1] \in peers /\ ranges[i][2] \in peers
    /\ \A i \in 0 .. nwin - 1 : ranges[i][1] <= ranges[i][2]
    /\ \A i \in 1 .. nwin - 1 : ranges[i-1][2] + 1 < ranges[i][1]
    /\ \A i \in nwin .. num_ranges - 1 : ranges[i] = Unused

(* The ranges are among those the contract allows, the best cover of the   *)
(* peers: dropping the shortest gap on the way never drops one that        *)
(* belongs to the num_ranges - 1 longest.                                  *)
MeetsContract ==
  pc = "done" => [i \in 1 .. nwin |-> ranges[i-1]] \in RangesOf(peers, num_ranges)

=============================================================================
