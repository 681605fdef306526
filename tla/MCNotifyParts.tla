--------------------------- MODULE MCNotifyParts ---------------------------
(***************************************************************************)
(* The building blocks of the notification algorithms that have a module   *)
(* of their own, for model checking.  A behaviour is one of one block, the *)
(* others rest:                                                            *)
(*   descent  NaryDescent, the tree of sc_notify_recursive_nary            *)
(*   compute  RangesCompute, sc_ranges_compute                             *)
(*   merge    NotifyMerge, sc_notify_merge                                 *)
(*   censusv  NotifyCensusv, sc_notify_payloadv_census                     *)
(*   rsx      CensusRsx, the census by remote memory access, whose module  *)
(*            this one extends and where its properties are stated         *)
(***************************************************************************)
EXTENDS CensusRsx, TLC

CONSTANTS Blocks,         \* the blocks to check
          TreeSize, W,    \* bounds of NaryDescent
          RangeSize, K,   \* bounds of RangesCompute
          To, From,       \* bounds of NotifyMerge
          Calls, Inputs   \* calls of NotifyCensusv, and what travels in them

VARIABLES block,
          n, w, me, level, start, length,                    \* NaryDescent
          procs, rank, num_ranges, ranges, nwin, prev,       \* RangesCompute
          second, output, i, ir, jr,                         \* NotifyMerge
          sorted, entered, num_senders, recv_size, crecv, first, out,  \* NotifyCensusv
          tosend, net,                                       \* NotifyCensusv
          input, j, place                                     \* of several

Descent == INSTANCE NaryDescent WITH N <- TreeSize
Compute == INSTANCE RangesCompute WITH N <- RangeSize, pc <- place
Merge == INSTANCE NotifyMerge WITH pc <- place
Censusv == INSTANCE NotifyCensusv WITH Sortings <- BOOLEAN, pc <- place

descents == <<n, w, me, level, start, length>>
computes == <<procs, rank, num_ranges, ranges, nwin, prev>>
merges == <<second, output, i, ir, jr>>
censusvs == <<sorted, entered, num_senders, recv_size, tosend, net, crecv, first, out>>

allvars == <<block, descents, computes, merges, censusvs, input, j, place, vars>>

NoDescent == n = 0 /\ w = 0 /\ me = 0 /\ level = 0 /\ start = 0 /\ length = 0
NoCompute == procs = 0 /\ rank = 0 /\ num_ranges = 0 /\ ranges = 0 /\ nwin = 0 /\ prev = 0
NoMerge == second = 0 /\ output = 0 /\ i = 0 /\ ir = 0 /\ jr = 0
NoCensusv == /\ sorted = 0 /\ entered = 0 /\ num_senders = 0 /\ recv_size = 0
             /\ tosend = 0 /\ net = 0 /\ crecv = 0 /\ first = 0 /\ out = 0

AnyInit ==
  /\ block \in Blocks
  /\ Init
  /\ block # "rsx" => ~variable
  /\ IF block = "descent" THEN Descent!Init ELSE NoDescent
  /\ IF block = "compute" THEN Compute!Init ELSE NoCompute
  /\ IF block = "merge" THEN Merge!Init ELSE NoMerge
  /\ IF block = "censusv" THEN Censusv!Init ELSE NoCensusv
  /\ block \notin {"merge", "censusv"} => input = 0
  /\ block \notin {"compute", "merge"} => j = 0
  /\ block \in {"descent", "rsx"} => place = 0

AnyNext ==
  \/ /\ block = "descent" /\ Descent!Next
     /\ UNCHANGED <<block, computes, merges, censusvs, input, j, place, vars>>
  \/ /\ block = "compute" /\ Compute!Next
     /\ UNCHANGED <<block, descents, merges, censusvs, input, vars>>
  \/ /\ block = "merge" /\ Merge!Next
     /\ UNCHANGED <<block, descents, computes, censusvs, vars>>
  \/ /\ block = "censusv" /\ Censusv!Next
     /\ UNCHANGED <<block, descents, computes, merges, j, vars>>
  \/ /\ block = "rsx" /\ Next
     /\ UNCHANGED <<block, descents, computes, merges, censusvs, input, j, place>>

AnySpec == AnyInit /\ [][AnyNext]_allvars

-----------------------------------------------------------------------------
(* What is checked, block by block; see there.                             *)

(* On every level of the n-ary tree each rank expects the number of        *)
(* messages sent to it, and they go to different buffers and fill them.    *)
ExpectsWhatIsSent ==
  block = "descent" => Descent!ExpectsWhatIsSent /\ Descent!SlotsAreDistinct

(* Every notification is handed on towards its target, which the recursion *)
(* of sc_notify_recursive_nary reaches with its assertions intact.         *)
LeadsToTarget == block = "descent" => Descent!LeadsToTarget /\ Descent!DescentReachesLeaf

(* sc_ranges_compute covers the peers by proper ranges, with as few other  *)
(* ranks as possible.                                                      *)
RangesAreCorrect == block = "compute" => Compute!RangesAreProper /\ Compute!MeetsContract

(* sc_notify_merge returns the sorted union of its two arrays.             *)
MergeIsUnion == block = "merge" => Merge!MergeIsUnion

(* sc_notify_payloadv_census: what is received fits the buffer allocated   *)
(* for it, and each sender's payload is returned next to it.               *)
ReturnsPayloadv == block = "censusv" => Censusv!NoTruncation /\ Censusv!ReturnsPayloadv

-----------------------------------------------------------------------------
(* Constants                                                               *)

AllBlocks == {"descent", "compute", "merge", "rsx", "censusv"}
OnlyRsx == {"rsx"}

(* Rank 0 informs all ranks, rank 1 informs ranks 0 and 2, rank 2 itself.  *)
ThreeRanks == (0 :> (0 :> 1 @@ 1 :> 2 @@ 2 :> 0)) @@ (1 :> (0 :> 1 @@ 2 :> 2)) @@ (2 :> (2 :> 1))

ToZero == (0 :> <<>>) @@ (1 :> (0 :> 2)) @@ (2 :> (0 :> 1))
Mixed == (0 :> (0 :> 1 @@ 1 :> 0 @@ 2 :> 2)) @@ (1 :> (0 :> 2 @@ 2 :> 1)) @@ (2 :> (0 :> 0 @@ 2 :> 1))
SomeInputs == {<<ToZero, Mixed>>, <<Mixed, ToZero>>, <<ToZero, ToZero>>}

=============================================================================
