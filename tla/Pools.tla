------------------------------- MODULE Pools -------------------------------
(***************************************************************************)
(* The containers that hand out places and reuse those given back:         *)
(*                                                                         *)
(*  - the memory pool sc_mempool_t, which hands out elements of equal size *)
(*    from memory stamps (sc_mstamp_t);                                    *)
(*  - its client sc_unique_counter_t, a factory of unique numbers that     *)
(*    keeps its numbers in the elements even while they are free;          *)
(*  - sc_recycle_array_t, an array whose entries are referenced by         *)
(*    position and reused when removed.                                    *)
(*                                                                         *)
(* A behaviour is one of a single such container.                          *)
(***************************************************************************)
EXTENDS Integers, Sequences, FiniteSets

CONSTANTS Handle,       \* pointer or position variables of the application
          per_stamp,    \* number of elements on a stamp, at least one
          start_value   \* of the unique counter

ASSUME PoolsAssumption ==
  /\ IsFiniteSet(Handle)
  /\ per_stamp \in Nat \ {0}
  /\ start_value \in Int

VARIABLES user,        \* "pool", "counter" or "recycle": the container
          remember,    \* number of stamps, the last one is the current one
          cur_snext,   \* next element on the current stamp
          freed,       \* elements given back, reused last in first out
          memory,      \* memory[e]: content of the element at e
          rec_a,       \* number of entries of the recycle array
          rec_f,       \* positions removed, reused last in first out
          pool_count,
          owner        \* owner[h]: the element or <<position>> held in h

poolvars == <<user, remember, cur_snext, freed, memory, rec_a, rec_f, pool_count, owner>>

None == <<>>

(* sc_mempool_new_zero_and_persist, where sc_mstamp_init makes the first   *)
(* stamp; or sc_recycle_array_init.                                        *)
PoolsInit ==
  /\ user \in {"pool", "counter", "recycle"}
  /\ remember = 1
  /\ cur_snext = 0
  /\ freed = <<>>
  /\ memory = <<>>
  /\ rec_a = 0
  /\ rec_f = <<>>
  /\ pool_count = 0
  /\ owner = [h \in Handle |-> None]

-----------------------------------------------------------------------------
(***************************************************************************)
(* The memory pool.  An element is identified by its stamp and its place   *)
(* there.                                                                  *)
(***************************************************************************)

(* sc_mstamp_alloc, followed by a new stamp if this one is used up.        *)
sc_mstamp_alloc ==
  IF cur_snext + 1 = per_stamp
  THEN remember' = remember + 1 /\ cur_snext' = 0
  ELSE cur_snext' = cur_snext + 1 /\ UNCHANGED remember

(* The element to be handed out next, and the content that the user finds  *)
(* in it: what it was given back with, or zero if it is new.               *)
NextElement == IF freed # <<>> THEN freed[Len(freed)] ELSE <<remember, cur_snext>>
Content(e) == IF e \in DOMAIN memory THEN memory[e] ELSE 0

(* The user writes to an element.                                          *)
Write(e, x) == memory' = [b \in DOMAIN memory \cup {e} |-> IF b = e THEN x ELSE memory[b]]

(* The content is left to the user.                                        *)
sc_mempool_alloc(h) ==
  /\ owner[h] = None
  /\ pool_count' = pool_count + 1
  /\ owner' = [owner EXCEPT ![h] = NextElement]
  /\ IF freed # <<>>
     THEN freed' = SubSeq(freed, 1, Len(freed) - 1) /\ UNCHANGED <<remember, cur_snext>>
     ELSE sc_mstamp_alloc /\ UNCHANGED freed

sc_mempool_free(h) ==
  /\ owner[h] # None
  /\ pool_count' = pool_count - 1
  /\ freed' = Append(freed, owner[h])
  /\ owner' = [owner EXCEPT ![h] = None]
  /\ UNCHANGED <<remember, cur_snext>>

(* All pointers become invalid, and the pool starts over.                  *)
sc_mempool_truncate ==
  /\ freed' = <<>>
  /\ remember' = 1
  /\ cur_snext' = 0
  /\ pool_count' = 0
  /\ memory' = <<>>
  /\ owner' = [h \in Handle |-> None]

PoolNext ==
  \/ \E h \in Handle : \/ sc_mempool_alloc(h) /\ Write(NextElement, Content(NextElement))
                       \/ sc_mempool_free(h) /\ UNCHANGED memory
  \/ sc_mempool_truncate

-----------------------------------------------------------------------------
(***************************************************************************)
(* The unique counter.                                                     *)
(***************************************************************************)

(* Faulty variant: the number is not taken off its offset.                 *)
ReleaseAsIs(h) == sc_mempool_free(h) /\ UNCHANGED memory

(* A new element gets the next number, one that was released has its own.  *)
sc_unique_counter_add(h) ==
  LET y == Content(NextElement)
  IN /\ sc_mempool_alloc(h)
     /\ Write(NextElement, (IF y = 0 THEN pool_count + 1 ELSE y) + start_value - 1)

sc_unique_counter_release(h) ==
  /\ sc_mempool_free(h)
  /\ Write(owner[h], memory[owner[h]] - (start_value - 1))

CounterNext ==
  \E h \in Handle : sc_unique_counter_add(h) \/ sc_unique_counter_release(h)

-----------------------------------------------------------------------------
(***************************************************************************)
(* The recycle array.                                                      *)
(***************************************************************************)

(* Faulty variant: the number of entries in use is taken for a position.   *)
InsertByCount(h) ==
  /\ owner[h] = None
  /\ IF rec_f # <<>>
     THEN /\ owner' = [owner EXCEPT ![h] = <<pool_count>>]
          /\ rec_f' = SubSeq(rec_f, 1, Len(rec_f) - 1)
          /\ UNCHANGED rec_a
     ELSE /\ owner' = [owner EXCEPT ![h] = <<rec_a>>]
          /\ rec_a' = rec_a + 1
          /\ UNCHANGED rec_f
  /\ pool_count' = pool_count + 1

sc_recycle_array_insert(h) ==
  /\ owner[h] = None
  /\ IF rec_f # <<>>
     THEN /\ owner' = [owner EXCEPT ![h] = <<rec_f[Len(rec_f)]>>]
          /\ rec_f' = SubSeq(rec_f, 1, Len(rec_f) - 1)
          /\ UNCHANGED rec_a
     ELSE /\ owner' = [owner EXCEPT ![h] = <<rec_a>>]
          /\ rec_a' = rec_a + 1
          /\ UNCHANGED rec_f
  /\ pool_count' = pool_count + 1

sc_recycle_array_remove(h) ==
  /\ owner[h] # None
  /\ rec_f' = Append(rec_f, owner[h][1])
  /\ pool_count' = pool_count - 1
  /\ owner' = [owner EXCEPT ![h] = None]
  /\ UNCHANGED rec_a

sc_recycle_array_reset ==
  /\ rec_a' = 0
  /\ rec_f' = <<>>
  /\ pool_count' = 0
  /\ owner' = [h \in Handle |-> None]

RecycleNext ==
  \/ \E h \in Handle : sc_recycle_array_insert(h) \/ sc_recycle_array_remove(h)
  \/ sc_recycle_array_reset

-----------------------------------------------------------------------------

PoolsNext ==
  \/ user = "pool" /\ PoolNext /\ UNCHANGED <<user, rec_a, rec_f>>
  \/ user = "counter" /\ CounterNext /\ UNCHANGED <<user, rec_a, rec_f>>
  \/ user = "recycle" /\ RecycleNext /\ UNCHANGED <<user, remember, cur_snext, freed, memory>>

PoolsSpec == PoolsInit /\ [][PoolsNext]_poolvars

-----------------------------------------------------------------------------
(***************************************************************************)
(* Properties                                                              *)
(***************************************************************************)

Held == {h \in Handle : owner[h] # None}

(* No element is in use twice, and none is lost: each one taken from a     *)
(* stamp is either held through one pointer or once on the free list, and  *)
(* pool_count is the number of those held.                                 *)
PoolPartition ==
  /\ \A g, h \in Held : owner[g] = owner[h] => g = h
  /\ \A i, j \in DOMAIN freed : freed[i] = freed[j] => i = j
  /\ \A h \in Held, i \in DOMAIN freed : owner[h] # freed[i]
  /\ \A e \in DOMAIN memory : (\E h \in Held : owner[h] = e) \/ \E i \in DOMAIN freed : freed[i] = e
  /\ pool_count = Cardinality(Held)

(* Counters in use have different numbers, none below the first, and those *)
(* of all counters ever made leave no gap: "The same number will never be  *)
(* returned twice, unless the counter has been released first."            *)
UniqueNumbers ==
  LET number == [h \in Held |-> memory[owner[h]]]
  IN /\ \A g, h \in Held : number[g] = number[h] => g = h
     /\ \A h \in Held : number[h] \in start_value .. start_value + Cardinality(Held) + Len(freed) - 1

(* Likewise, each position of the recycle array is that of one entry in    *)
(* use or once among those to be reused, and pool_count is the number of   *)
(* entries in use.                                                         *)
RecyclePartition ==
  /\ \A g, h \in Held : owner[g] = owner[h] => g = h
  /\ \A i, j \in DOMAIN rec_f : rec_f[i] = rec_f[j] => i = j
  /\ \A h \in Held, i \in DOMAIN rec_f : owner[h] # <<rec_f[i]>>
  /\ \A p \in 0 .. rec_a - 1 : (\E h \in Held : owner[h] = <<p>>) \/ \E i \in DOMAIN rec_f : rec_f[i] = p
  /\ pool_count = Cardinality(Held)

(* Each element that sc_mempool_alloc has taken from a stamp, and each     *)
(* position that sc_recycle_array_insert has made, is held once or free    *)
(* once; and sc_unique_counter_add returns no number in use.               *)
PoolIsSound ==
  IF user = "recycle" THEN RecyclePartition
  ELSE PoolPartition /\ (user = "counter" => UniqueNumbers)

Abstract == INSTANCE Allocator WITH Address <- Seq(Nat)

(* The memory pool and the recycle array are allocators: what they return  *)
(* is not in use, and stays with its user until it is given back.          *)
ImplementsAllocator == Abstract!Spec

=============================================================================
