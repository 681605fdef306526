---------------------------- MODULE MCContainers ----------------------------
(***************************************************************************)
(* The containers, for model checking.  A behaviour is one of a single     *)
(* container or algorithm; the others rest.                                *)
(***************************************************************************)
EXTENDS Arrays, Pools, Hash, TLC

CONSTANTS Blocks,            \* the containers to check
          Lists, Link, NULL  \* List

VARIABLES block, links, allocated, first, last, list_count

TheLists == INSTANCE List WITH heap <- links, elem_count <- list_count

listvars == <<links, allocated, first, last, list_count>>

allvars == <<block, listvars, arrayvars, splitvars, permutevars, queuevars, poolvars, hashvars>>

AnyInit ==
  /\ block \in Blocks
  /\ TheLists!Init /\ ArrayInit /\ SplitInit /\ PermuteInit /\ QueueInit /\ PoolsInit /\ HashInit
  /\ block # "pools" => user = "pool"
  /\ block # "hash" => hash_kind = "hash"
  /\ block # "array" => elem_count = 0

AnyNext ==
  /\ \/ /\ block = "list" /\ TheLists!Next
        /\ UNCHANGED <<arrayvars, splitvars, permutevars, queuevars, poolvars, hashvars>>
     \/ /\ block = "array" /\ ArrayNext
        /\ UNCHANGED <<listvars, splitvars, permutevars, queuevars, poolvars, hashvars>>
     \/ /\ block = "split" /\ SplitNext
        /\ UNCHANGED <<listvars, arrayvars, permutevars, queuevars, poolvars, hashvars>>
     \/ /\ block = "permute" /\ PermuteNext
        /\ UNCHANGED <<listvars, arrayvars, splitvars, queuevars, poolvars, hashvars>>
     \/ /\ block = "queue" /\ QueueNext
        /\ UNCHANGED <<listvars, arrayvars, splitvars, permutevars, poolvars, hashvars>>
     \/ /\ block = "pools" /\ PoolsNext
        /\ UNCHANGED <<listvars, arrayvars, splitvars, permutevars, queuevars, hashvars>>
     \/ /\ block = "hash" /\ HashNext
        /\ UNCHANGED <<listvars, arrayvars, splitvars, permutevars, queuevars, poolvars>>
  /\ UNCHANGED block

AnySpec == AnyInit /\ [][AnyNext]_allvars

-----------------------------------------------------------------------------
(* What is checked, container by container; see there.                     *)

(* Lists are disjoint chains of all links that are allocated.              *)
ChainsAreSound == TheLists!ChainsAreSound

(* Every operation does what its name says and nothing else: to one list   *)
(* only; to the set of objects that a hash table stands for, with the      *)
(* right return value; to an array, whose remaining elements it keeps; to  *)
(* a priority queue, which returns the greatest value inserted; and each   *)
(* swap of sc_array_permute is progress.                                   *)
OperationsAreExact ==
  [][/\ block = "list" => TheLists!StepOfList
     /\ block = "hash" /\ hash_kind = "hash" => StepOfSet
     /\ block = "array" => StepOfArray
     /\ block = "queue" => StepOfQueue
     /\ block = "permute" => StepOfPermute]_allvars

-----------------------------------------------------------------------------
(* Constants                                                               *)

AllBlocks == {"pools", "permute", "split", "list", "hash", "array", "queue"}
OnlyArray == {"array"}
TwelveKeys == 0 .. 11
FiveItems == 20 .. 24
TimesFive == [k \in TwelveKeys \cup FiveItems |-> (5 * k) % 13]

=============================================================================
