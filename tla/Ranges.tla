------------------------------- MODULE Ranges -------------------------------
(***************************************************************************)
(* What sc_ranges_compute promises, and sc_ranges_decode, which turns the  *)
(* ranges of all ranks into lists of ranks.                                *)
(***************************************************************************)
EXTENDS Integers, FiniteSets, FiniteSetsExt, Sequences, SequencesExt

(* The maximal gaps <<start, end>> between members of S.                   *)
Gaps(S) ==
  {<<x[1] + 1, x[2] - 1>> : x \in
     {y \in S \X S : y[1] + 1 < y[2] /\ \A z \in S : z <= y[1] \/ z >= y[2]}}

Members(R) == UNION {r[1] .. r[2] : r \in R}

ByStart(R) == SetToSortSeq(R, LAMBDA x, y : x[1] < y[1])

(* What lies between the smallest and the largest member of S and in none  *)
(* of the gaps G, as an ascending sequence of ranges.                      *)
Between(S, G) ==
  LET gap == ByStart(G)
      n   == Len(gap)
  IN [i \in 1 .. n + 1 |->
        <<IF i = 1 THEN Min(S) ELSE gap[i-1][2] + 1,
          IF i = n + 1 THEN Max(S) ELSE gap[i][1] - 1>>]

(* The contract: at most num_ranges ascending ranges that cover S and      *)
(* contain as few other ranks as so many ranges can.                       *)
RangesOf(S, num_ranges) ==
  LET choices == {G \in SUBSET Gaps(S) : Cardinality(G) < num_ranges}
      size(G) == Cardinality(Members(G))
  IN IF S = {} THEN {<<>>}
     ELSE {Between(S, G) : G \in {H \in choices : \A G \in choices : size(G) <= size(H)}}

-----------------------------------------------------------------------------
(* sc_ranges_decode, for all_ranges[p] the ranges of rank p.               *)

Receivers(all_ranges, rank) ==
  UNION {r[1] .. r[2] : r \in Range(all_ranges[rank])} \ {rank}

(* The search for rank ends with the first range that does not end before. *)
PotentialSenders(all_ranges, rank) ==
  {p \in DOMAIN all_ranges \ {rank} :
     \E i \in DOMAIN all_ranges[p] :
       /\ all_ranges[p][i][1] <= rank /\ rank <= all_ranges[p][i][2]
       /\ \A k \in 1 .. i - 1 : all_ranges[p][k][2] < rank}

=============================================================================
