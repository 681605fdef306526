------------------------------- MODULE Arrays -------------------------------
(***************************************************************************)
(* Arrays.  The algorithms on them have one step for each pass of a loop.  *)
(*                                                                         *)
(* The storage of an sc_array_t that is not a view: how many bytes are     *)
(* allocated, and what the elements contain.                               *)
(*                                                                         *)
(* sc_array_split: the elements of an array are sorted by type, and a      *)
(* search by bisection, shared between all types, computes for each type   *)
(* the offset of its first element.                                        *)
(*                                                                         *)
(* sc_array_permute: an array is permuted in place, one cycle of the       *)
(* permutation after the other.  An element is represented by the index    *)
(* that it has before the call.                                            *)
(*                                                                         *)
(* The priority queue in an array, a binary heap with the greatest value   *)
(* at its root: sc_array_pqueue_insert and sc_array_pqueue_pop, and the    *)
(* exported sc_array_pqueue_siftup and sc_array_pqueue_siftdown that       *)
(* replace an element.  The loops of the sifts advance one level per step. *)
(***************************************************************************)
EXTENDS Integers, FiniteSets

CONSTANTS elem_size,
          Data,                 \* what the application writes into elements
          MaxArray,             \* bound on the number of elements of the storage
          debug,                \* whether SC_ENABLE_DEBUG is defined
          MaxCount, MaxTypes,   \* bounds on the input of sc_array_split
          MaxPermute,           \* bound on the length of a permuted array
          MaxQueue,             \* bound on the number of elements of the queue
          Value                 \* positive numbers in it, compared by compar

ASSUME BoundsAssumption == MaxCount \in Nat /\ MaxTypes \in Nat /\ MaxPermute \in Nat

VARIABLES elem_count, byte_alloc,
          content,    \* of each element that fits into the allocation
          aborted     \* an assertion has failed

arrayvars == <<elem_count, byte_alloc, content, aborted>>

VARIABLES num_types, count, type_fn,   \* the input of sc_array_split
          offsets,                     \* function from 0 .. num_types
          low, high, step,
          pc                           \* "idle", "guess" or "advance"

input == <<num_types, count, type_fn>>

splitvars == <<num_types, count, type_fn, offsets, low, high, step, pc>>

VARIABLES perm,          \* newindices as passed by the caller of sc_array_permute
          newindices,    \* newindices in memory
          keepperm,
          zcount, array,
          newind,        \* the copy that the loop works on, if keepperm
          zi, zj, zk,
          place          \* "idle", "pivot" or "cycle"

VARIABLES heap,          \* the array of the queue, from 0 .. heap_count - 1
          heap_count,    \* its elem_count
          sift,          \* "idle", or the sift that is running
          snn,           \* the number of elements siftdown works with
          pos,           \* the position vacant in the running sift
          arg,           \* the caller's value, 0 when newval points into the array
          popped         \* the value returned by the last pop

permutevars == <<perm, newindices, keepperm, zcount, array, newind, zi, zj, zk, place>>

queuevars == <<heap, heap_count, sift, snn, pos, arg, popped>>

-----------------------------------------------------------------------------

(* All bytes of an element are -1, or are of no known value.               *)
Fill == "fill"
Junk == "junk"

(* The elements that fit into so many bytes.                               *)
Places(bytes) == 0 .. bytes \div elem_size - 1

(* The smallest power of two that is not less than n.                      *)
SC_ROUNDUP2_64(n) == CHOOSE k \in {2^e : e \in 0 .. n} : n <= k /\ k < 2 * n

(* sc_array_init_count, and sc_array_init for n = 0.                       *)
ArrayInit ==
  \E n \in 0 .. MaxArray :
    /\ elem_count = n
    /\ byte_alloc = n * elem_size
    /\ content = [i \in Places(n * elem_size) |-> Junk]
    /\ aborted = FALSE

WriteElement(i, d) ==
  /\ i < elem_count
  /\ content' = [content EXCEPT ![i] = d]
  /\ UNCHANGED <<elem_count, byte_alloc, aborted>>

sc_array_reset ==
  /\ elem_count' = 0
  /\ byte_alloc' = 0
  /\ content' = <<>>
  /\ UNCHANGED aborted

(* The allocation is kept, whether the elements are needed or not.         *)
sc_array_truncate ==
  /\ elem_count' = 0
  /\ content' = IF debug THEN [i \in DOMAIN content |-> Fill] ELSE content
  /\ UNCHANGED <<byte_alloc, aborted>>

sc_array_rewind(n) ==
  /\ n <= elem_count
  /\ IF n = 0 THEN sc_array_reset
     ELSE elem_count' = n /\ UNCHANGED <<byte_alloc, content, aborted>>

(* The elements after a move to an allocation of so many bytes.            *)
Moved(n, bytes) ==
  [i \in Places(bytes) |-> IF i < n /\ i < elem_count THEN content[i]
                          ELSE IF debug THEN Fill ELSE Junk]

(* The allocation changes if it is too small or if half of it would do.    *)
sc_array_resize(n) ==
  LET newoffs == n * elem_size
      roundup == SC_ROUNDUP2_64(newoffs)
  IN IF n = 0 THEN sc_array_reset
     ELSE /\ elem_count' = n
          /\ IF newoffs > byte_alloc \/ roundup < byte_alloc
             THEN /\ byte_alloc' = roundup
                  /\ content' = Moved(n, roundup)
                  /\ UNCHANGED aborted
             ELSE /\ content' = IF debug THEN [i \in DOMAIN content |-> IF n <= i /\ i < elem_count THEN Fill ELSE content[i]]
                              ELSE content
                  /\ aborted' = (debug /\ \E i \in elem_count .. n - 1 : content[i] # Fill)
                  /\ UNCHANGED byte_alloc

sc_array_push_count(m) ==
  IF elem_size * (elem_count + m) > byte_alloc THEN sc_array_resize(elem_count + m)
  ELSE elem_count' = elem_count + m /\ UNCHANGED <<byte_alloc, content, aborted>>

sc_array_pop ==
  /\ elem_count > 0
  /\ elem_count' = elem_count - 1
  /\ UNCHANGED <<byte_alloc, content, aborted>>

ArrayNext ==
  /\ ~aborted
  /\ \/ \E i \in 0 .. MaxArray - 1, d \in Data : WriteElement(i, d)
     \/ sc_array_reset \/ sc_array_truncate \/ sc_array_pop
     \/ \E n \in 0 .. MaxArray : sc_array_rewind(n) \/ sc_array_resize(n)
     \/ \E m \in 1 .. MaxArray - elem_count : sc_array_push_count(m)

-----------------------------------------------------------------------------

SplitInit ==
  /\ num_types = 0 /\ count = 0 /\ type_fn = [k \in 0 .. -1 |-> 0]
  /\ offsets = [i \in 0 .. 0 |-> 0]
  /\ low = 0 /\ high = 0 /\ step = 0
  /\ pc = "idle"

(* The call, up to the loop: the array is sorted by type.                  *)
sc_array_split ==
  /\ pc = "idle"
  /\ count' \in 0 .. MaxCount
  /\ num_types' \in 0 .. MaxTypes
  /\ type_fn' \in [0 .. count' - 1 -> 0 .. num_types' - 1]
  /\ \A j, k \in 0 .. count' - 1 : j <= k => type_fn'[j] <= type_fn'[k]
  /\ offsets' = [i \in 0 .. num_types' |-> IF i = 0 THEN 0 ELSE count']
  /\ IF count' = 0 \/ num_types' <= 1
     THEN UNCHANGED <<low, high, step, pc>>
     ELSE low' = 0 /\ high' = count' /\ step' = 1 /\ pc' = "guess"

(* Faulty variant: the offset of one type only is moved.                   *)
GuessOneType ==
  LET guess == low + (high - low) \div 2
      type  == type_fn[guess]
  IN /\ pc = "guess"
     /\ \/ /\ type < step
           /\ low' = guess + 1
           /\ UNCHANGED <<offsets, high>>
        \/ /\ type >= step
           /\ offsets' = [offsets EXCEPT ![type] = guess]
           /\ high' = guess
           /\ UNCHANGED low
     /\ pc' = IF low' = high' THEN "advance" ELSE "guess"
     /\ UNCHANGED <<input, step>>

(* One look at the array.                                                  *)
Guess ==
  LET guess == low + (high - low) \div 2
      type  == type_fn[guess]
  IN /\ pc = "guess"
     /\ \/ /\ type < step
           /\ low' = guess + 1
           /\ UNCHANGED <<offsets, high>>
        \/ /\ type >= step
           /\ offsets' = [i \in 0 .. num_types |-> IF i \in step .. type THEN guess
                                                                         ELSE offsets[i]]
           /\ high' = guess
           /\ UNCHANGED low
     /\ pc' = IF low' = high' THEN "advance" ELSE "guess"
     /\ UNCHANGED <<input, step>>

(* Faulty variant: the offset of the last type is not searched for.        *)
AdvanceStopsEarly ==
  /\ pc = "advance"
  /\ step' = step + 1
  /\ high' = offsets[step + 1]
  /\ pc' = IF step + 2 >= num_types THEN "idle"
           ELSE IF low = high' THEN "advance" ELSE "guess"
  /\ UNCHANGED <<input, offsets, low>>

(* The offset of type step is found: on to the next one.                   *)
Advance ==
  /\ pc = "advance"
  /\ step' = step + 1
  /\ high' = offsets[step + 1]
  /\ pc' = IF step + 1 = num_types THEN "idle"
           ELSE IF low = high' THEN "advance" ELSE "guess"
  /\ UNCHANGED <<input, offsets, low>>

SplitNext == sc_array_split \/ Guess \/ Advance

SplitSpec == SplitInit /\ [][SplitNext]_splitvars

-----------------------------------------------------------------------------

Identity(n) == [i \in 0 .. n - 1 |-> i]

(* The inputs that sc_array_is_permutation accepts: every entry is an      *)
(* index, and each one is counted once.                                    *)
sc_array_is_permutation(n) ==
  {p \in [0 .. n - 1 -> 0 .. n - 1] :
     \A j \in 0 .. n - 1 : Cardinality({i \in 0 .. n - 1 : p[i] = j}) = 1}

PermuteInit ==
  /\ perm = Identity(0) /\ newindices = Identity(0) /\ newind = Identity(0)
  /\ array = Identity(0) /\ zcount = 0 /\ keepperm = FALSE
  /\ zi = 0 /\ zj = 0 /\ zk = 0
  /\ place = "idle"

sc_array_permute ==
  /\ place = "idle"
  /\ \E n \in 0 .. MaxPermute, keep \in BOOLEAN :
       /\ zcount' = n /\ keepperm' = keep
       /\ array' = Identity(n)
       /\ perm' \in sc_array_is_permutation(n)
       /\ place' = IF n = 0 THEN "idle" ELSE "pivot"
  /\ newindices' = perm' /\ newind' = perm'
  /\ zi' = 0 /\ zj' = 0 /\ zk' = 0

(* Faulty variant: the caller's permutation is not copied.                 *)
StoreThrough(i) ==
  /\ newind' = [newind EXCEPT ![i] = i]
  /\ newindices' = newind'

(* Stores to newind are stores to newindices unless that was copied.       *)
Store(i) ==
  /\ newind' = [newind EXCEPT ![i] = i]
  /\ newindices' = IF keepperm THEN newindices ELSE newind'

(* The outer loop looks up where the data of the pivot slot zi belongs; or *)
(* it closes a cycle and goes on to the next slot.                         *)
Pivot ==
  /\ place = "pivot"
  /\ zk' = newind[zj]
  /\ place' = "cycle"
  /\ UNCHANGED <<perm, newindices, keepperm, zcount, array, newind, zi, zj>>

(* The inner loop swaps the data in the pivot slot to where it belongs.    *)
Swap ==
  /\ place = "cycle" /\ zk # zi
  /\ array' = [array EXCEPT ![zk] = array[zi], ![zi] = array[zk]]
  /\ zj' = zk
  /\ zk' = newind[zk]
  /\ Store(zk)
  /\ UNCHANGED <<perm, keepperm, zcount, zi, place>>

CloseCycle ==
  /\ place = "cycle" /\ zk = zi
  /\ Store(zi)
  /\ zi' = zi + 1 /\ zj' = zi + 1
  /\ place' = IF zi + 1 < zcount THEN "pivot" ELSE "idle"
  /\ UNCHANGED <<perm, keepperm, zcount, array, zk>>

PermuteNext == sc_array_permute \/ Pivot \/ Swap \/ CloseCycle

PermuteSpec == PermuteInit /\ [][PermuteNext]_permutevars

-----------------------------------------------------------------------------

QueueInit ==
  /\ heap = <<>>
  /\ heap_count = 0
  /\ sift = "idle"
  /\ snn = 0 /\ pos = 0 /\ arg = 0 /\ popped = 0

parent(i) == (i - 1) \div 2

Descendant(i, j) == \* j lies in the subtree below i
  LET Above[k \in Nat] == k > i /\ (parent(k) = i \/ Above[parent(k)])
  IN Above[j]

(* pop passes the address of the last leaf, the other calls that of a      *)
(* value outside of the array.                                             *)
newval == IF arg = 0 THEN heap[snn] ELSE arg

(* sc_array_push makes room; the new element is not initialized.           *)
sc_array_pqueue_insert(v) ==
  /\ sift = "idle" /\ heap_count < MaxQueue
  /\ heap_count' = heap_count + 1
  /\ heap' = [i \in 0 .. heap_count |-> IF i < heap_count THEN heap[i] ELSE 0]
  /\ pos' = heap_count /\ arg' = v
  /\ sift' = "siftup"
  /\ UNCHANGED <<snn, popped>>

(* A user replaces the value at p by one not less than those below.        *)
ReplaceUp(p, v) ==
  /\ sift = "idle"
  /\ \A j \in 0 .. heap_count - 1 : Descendant(p, j) => v >= heap[j]
  /\ pos' = p /\ arg' = v
  /\ sift' = "siftup"
  /\ UNCHANGED <<heap, heap_count, snn, popped>>

(* A user replaces the value at p by one not greater than those above.     *)
ReplaceDown(p, v) ==
  /\ sift = "idle"
  /\ \A j \in 0 .. heap_count - 1 : Descendant(j, p) => v <= heap[j]
  /\ snn' = heap_count /\ pos' = p /\ arg' = v
  /\ sift' = "siftdown"
  /\ UNCHANGED <<heap, heap_count, popped>>

(* Faulty variant: the root is moved instead of the last leaf.             *)
PopMovesRoot ==
  /\ sift = "idle" /\ heap_count > 0
  /\ popped' = heap[0]
  /\ IF heap_count = 1
     THEN /\ heap_count' = 0 /\ heap' = <<>>
          /\ UNCHANGED <<sift, snn, pos, arg>>
     ELSE /\ snn' = heap_count - 1 /\ pos' = 0 /\ arg' = heap[0]
          /\ sift' = "siftdown"
          /\ UNCHANGED <<heap, heap_count>>

sc_array_pqueue_pop ==
  /\ sift = "idle" /\ heap_count > 0
  /\ popped' = heap[0]
  /\ IF heap_count = 1
     THEN /\ heap_count' = 0 /\ heap' = <<>>
          /\ UNCHANGED <<sift, snn, pos, arg>>
     ELSE /\ snn' = heap_count - 1 /\ pos' = 0 /\ arg' = 0
          /\ sift' = "siftdown"
          /\ UNCHANGED <<heap, heap_count>>

MoveFrom(i) ==
  /\ heap' = [heap EXCEPT ![pos] = heap[i]]
  /\ pos' = i
  /\ UNCHANGED <<heap_count, sift, snn, arg, popped>>

(* The end of a sift: newval is copied to its position.  A pop then drops  *)
(* the last leaf from the count.                                           *)
Place(n) ==
  /\ heap' = [i \in 0 .. n - 1 |-> IF i = pos THEN newval ELSE heap[i]]
  /\ heap_count' = n
  /\ sift' = "idle"
  /\ snn' = 0 /\ pos' = 0 /\ arg' = 0
  /\ UNCHANGED popped

sc_array_pqueue_siftup ==
  /\ sift = "siftup"
  /\ IF pos > 0 /\ newval > heap[parent(pos)] THEN MoveFrom(parent(pos))
                                               ELSE Place(heap_count)

(* The child of i with the greater value.                                  *)
GreaterChild(i) ==
  LET child == 2 * i + 1
  IN IF child + 1 < snn /\ heap[child] <= heap[child + 1] THEN child + 1 ELSE child

sc_array_pqueue_siftdown ==
  /\ sift = "siftdown"
  /\ IF 2 * pos + 1 < snn /\ newval < heap[GreaterChild(pos)]
     THEN MoveFrom(GreaterChild(pos))
     ELSE Place(snn)

QueueNext ==
  \/ \E v \in Value : \/ sc_array_pqueue_insert(v)
                      \/ \E p \in 0 .. heap_count - 1 : ReplaceUp(p, v) \/ ReplaceDown(p, v)
  \/ sc_array_pqueue_pop
  \/ sc_array_pqueue_siftup
  \/ sc_array_pqueue_siftdown

QueueSpec == QueueInit /\ [][QueueNext]_queuevars

-----------------------------------------------------------------------------
(***************************************************************************)
(* Properties                                                              *)
(***************************************************************************)

(* The final position of offsets[i], as defined in a comment of the code.  *)
IsFinal(i, k) ==
  /\ k \in 0 .. count
  /\ \A j \in 0 .. count - 1 : IF j < k THEN type_fn[j] < i ELSE type_fn[j] >= i

(* The loop invariants (1) and (4) to (7) that the comments in             *)
(* sc_array_split state; (2) and (3) follow from (4) and (5).  Between its *)
(* two loops, low = high.                                                  *)
LoopInvariant ==
  pc # "idle" =>
    /\ step \in 1 .. num_types - 1
    /\ \A i \in 0 .. step - 1 : offsets[i] <= low /\ IsFinal(i, offsets[i])
    /\ \A k \in 0 .. low - 1 : type_fn[k] < step
    /\ \A i \in 0 .. num_types : \A k \in offsets[i] .. count - 1 : type_fn[k] >= i
    /\ \A i, j \in 0 .. num_types : i <= j => offsets[i] <= offsets[j]
    /\ high = offsets[step]
    /\ IF pc = "guess" THEN low < high ELSE low = high

(* When sc_array_split returns, the elements of type k are exactly those   *)
(* from offsets[k] up to offsets[k + 1], as the header promises.           *)
SplitIsCorrect ==
  pc = "idle" =>
    /\ offsets[0] = 0 /\ offsets[num_types] = count
    /\ \A k \in 0 .. num_types - 1, j \in 0 .. count - 1 :
         type_fn[j] = k <=> offsets[k] <= j /\ j < offsets[k + 1]

(* When sc_array_permute returns, the data from index i is at index        *)
(* newindices[i]; the caller's permutation is unchanged if keepperm is     *)
(* true and the identity otherwise.                                        *)
PermuteIsCorrect ==
  place = "idle" =>
    /\ \A i \in 0 .. zcount - 1 : array[perm[i]] = i
    /\ newindices = IF keepperm THEN perm ELSE Identity(zcount)

(* The loops come to an end: each swap of sc_array_permute puts one more   *)
(* element in its place, and none leaves its place again.                  *)
InPlace == {i \in 0 .. zcount - 1 : array[perm[i]] = i}

StepOfPermute ==
  place # "idle" =>
    /\ InPlace \subseteq InPlace'
    /\ array' # array => InPlace # InPlace'

(* How often each value is in the queue.  While a sift runs, the vacant    *)
(* position stands for newval, and the leaf moved by pop is not counted at *)
(* its old place.                                                          *)
QueueContents ==
  LET n == IF sift = "siftdown" THEN snn ELSE heap_count
  IN [v \in Value |-> Cardinality({i \in 0 .. n - 1 :
        v = IF sift # "idle" /\ i = pos THEN newval ELSE heap[i]})]

Added(v, c) == [c EXCEPT ![v] = @ + 1]

Removed(v, c) == [c EXCEPT ![v] = @ - 1]

(* A step of the priority queue: insert adds its value, pop returns the    *)
(* greatest of all and removes one copy of it, replacing exchanges one     *)
(* value, and the sifts neither lose nor duplicate any.                    *)
StepOfQueue ==
  \/ sift # "idle" /\ QueueContents' = QueueContents
  \/ \E v \in Value : QueueContents' = Added(v, QueueContents) /\ heap_count' = heap_count + 1
  \/ \E v, w \in Value : /\ sift' # "idle" /\ heap_count' = heap_count
                         /\ QueueContents[v] > 0
                         /\ QueueContents' = Added(w, Removed(v, QueueContents))
  \/ /\ popped' \in Value
     /\ \A w \in Value : QueueContents[w] > 0 => w <= popped'
     /\ QueueContents' = Removed(popped', QueueContents)

(* No operation disturbs an element that is there before and after it, and *)
(* resizing leaves less than half of the allocation unused.                *)
StepOfArray ==
  /\ \A i \in 0 .. elem_count - 1 :
       i < elem_count' /\ content'[i] # content[i] => \E d \in Data : WriteElement(i, d)
  /\ \A n \in 1 .. MaxArray : sc_array_resize(n) => byte_alloc' < 2 * n * elem_size

(* No assertion fails.  Elements beyond the end are -1 in a debug build    *)
(* when sc_array_resize makes room for more within the allocation.         *)
AssertionsHold == ~aborted

=============================================================================
