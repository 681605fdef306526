-------------------------------- MODULE Hash --------------------------------
(***************************************************************************)
(* The hash table sc_hash_t and the hash array sc_hash_array_t.            *)
(*                                                                         *)
(* A slot is the set of objects on its list (see List; the order on it has *)
(* no meaning to the user).  The hash table stores keys.  The hash array   *)
(* stores positions in the array `a' of keys, and -1 for the object that   *)
(* is being looked up or inserted.                                         *)
(***************************************************************************)
EXTENDS Integers, Sequences, FiniteSets

CONSTANTS Key,                      \* objects in the hash table
          Item,                     \* objects in the hash array
          hash_fn,                  \* their hash values
          sc_hash_minimal_size,
          sc_hash_shrink_interval

ASSUME HashAssumption ==
  /\ hash_fn \in [Key \cup Item -> Nat]
  /\ sc_hash_minimal_size \in Nat \ {0} /\ sc_hash_shrink_interval \in Nat \ {0}

VARIABLES hash_kind,    \* "hash", or "hash_array" for the table of one
          slots,        \* function from 0 .. number of slots - 1
          hash_count,   \* elem_count of the table
          hash_a,       \* the array of the hash array
          ret           \* return value of the last call

hashvars == <<hash_kind, slots, hash_count, hash_a, ret>>

NumSlots(s) == Cardinality(DOMAIN s)
Stored(s) == UNION {s[i] : i \in DOMAIN s}

HashInit ==
  /\ hash_kind \in {"hash", "hash_array"}
  /\ slots = [i \in 0 .. sc_hash_minimal_size - 1 |-> {}]
  /\ hash_count = 0
  /\ hash_a = <<>>
  /\ ret = FALSE

-----------------------------------------------------------------------------
(***************************************************************************)
(* Hash tables with n objects, where obj[v] is the object v stands for:    *)
(* hash_fn and equal_fn look at that.                                      *)
(***************************************************************************)

(* Every object moves to its new slot.                                     *)
Rehash(s, size, obj) ==
  [i \in 0 .. size - 1 |-> {v \in Stored(s) : hash_fn[obj[v]] % size = i}]

sc_hash_maybe_resize(s, n, obj) ==
  LET old  == NumSlots(s)
      less == old \div 4 + 1
  IN CASE n >= 4 * old -> Rehash(s, 4 * old - 1, obj)
       [] n < 4 * old /\ n <= old \div 4 /\ less >= sc_hash_minimal_size -> Rehash(s, less, obj)
       [] OTHER -> s

Slot(s, v, obj) == hash_fn[obj[v]] % NumSlots(s)

(* The object in the table that is equal to v.                             *)
Found(s, v, obj) == {w \in s[Slot(s, v, obj)] : obj[w] = obj[v]}

(* sc_hash_insert_unique, if there is no such object: the new slots.       *)
Add(s, n, v, obj) ==
  LET t == [s EXCEPT ![Slot(s, v, obj)] = @ \cup {v}]
  IN IF (n + 1) % NumSlots(s) = 0 THEN sc_hash_maybe_resize(t, n + 1, obj) ELSE t

(* sc_hash_remove, if there is such an object w.                           *)
Del(s, n, w, obj) ==
  LET t == [s EXCEPT ![Slot(s, w, obj)] = @ \ {w}]
  IN IF (n - 1) % sc_hash_shrink_interval = 0 THEN sc_hash_maybe_resize(t, n - 1, obj) ELSE t

-----------------------------------------------------------------------------
(***************************************************************************)
(* sc_hash_t                                                               *)
(***************************************************************************)

Keys == [k \in Key |-> k]

sc_hash_lookup(k) ==
  /\ ret' = (Found(slots, k, Keys) # {})
  /\ UNCHANGED <<slots, hash_count, hash_a>>

sc_hash_insert_unique(k) ==
  /\ IF Found(slots, k, Keys) # {}
     THEN ret' = FALSE /\ UNCHANGED <<slots, hash_count>>
     ELSE /\ slots' = Add(slots, hash_count, k, Keys)
          /\ hash_count' = hash_count + 1
          /\ ret' = TRUE
  /\ UNCHANGED hash_a

sc_hash_remove(k) ==
  /\ IF Found(slots, k, Keys) = {}
     THEN ret' = FALSE /\ UNCHANGED <<slots, hash_count>>
     ELSE /\ slots' = Del(slots, hash_count, k, Keys)
          /\ hash_count' = hash_count - 1
          /\ ret' = TRUE
  /\ UNCHANGED hash_a

(* The slots are emptied, not made fewer.                                  *)
sc_hash_truncate ==
  /\ slots' = [i \in DOMAIN slots |-> {}]
  /\ hash_count' = 0
  /\ UNCHANGED <<hash_a, ret>>

TableNext ==
  \/ \E k \in Key : sc_hash_lookup(k) \/ sc_hash_insert_unique(k) \/ sc_hash_remove(k)
  \/ sc_hash_truncate

-----------------------------------------------------------------------------
(***************************************************************************)
(* sc_hash_array_t                                                         *)
(***************************************************************************)

Items(item) == [l \in -1 .. Len(hash_a) - 1 |-> IF l = -1 THEN item ELSE hash_a[l + 1]]

(* The object in `a' that is equal to item.                                *)
PositionsOf(item) == Found(slots, -1, Items(item))

(* The search ends with the first that it meets.                           *)
AnyOf(S) == CHOOSE l \in S : TRUE

(* ret is the position, or -1 if there is none.                            *)
sc_hash_array_lookup(item) ==
  /\ ret' = IF PositionsOf(item) = {} THEN -1 ELSE AnyOf(PositionsOf(item))
  /\ UNCHANGED <<slots, hash_count, hash_a>>

(* Faulty variant: the place of the new object is not looked up again when *)
(* the table has been resized, and the position is not stored.             *)
InsertStale(item) ==
  LET n == Len(hash_a)
      t == Add(slots, hash_count, -1, Items(item))
  IN IF PositionsOf(item) # {}
     THEN ret' = AnyOf(PositionsOf(item)) /\ UNCHANGED <<slots, hash_count, hash_a>>
     ELSE /\ slots' = IF NumSlots(t) # NumSlots(slots) THEN t
                      ELSE [i \in DOMAIN t |-> {IF l = -1 THEN n ELSE l : l \in t[i]}]
          /\ hash_count' = hash_count + 1
          /\ hash_a' = Append(hash_a, item)
          /\ ret' = n

(* The object enters the table as -1, which is then replaced by its        *)
(* position, the end of the array; the user stores the object there.       *)
sc_hash_array_insert_unique(item) ==
  LET n == Len(hash_a)
      t == Add(slots, hash_count, -1, Items(item))
  IN IF PositionsOf(item) # {}
     THEN ret' = AnyOf(PositionsOf(item)) /\ UNCHANGED <<slots, hash_count, hash_a>>
     ELSE /\ slots' = [i \in DOMAIN t |-> {IF l = -1 THEN n ELSE l : l \in t[i]}]
          /\ hash_count' = hash_count + 1
          /\ hash_a' = Append(hash_a, item)
          /\ ret' = n

sc_hash_array_truncate ==
  /\ slots' = [i \in DOMAIN slots |-> {}]
  /\ hash_count' = 0
  /\ hash_a' = <<>>
  /\ UNCHANGED ret

HashArrayNext ==
  \/ \E x \in Item : sc_hash_array_lookup(x) \/ sc_hash_array_insert_unique(x)
  \/ sc_hash_array_truncate

HashNext ==
  /\ \/ hash_kind = "hash" /\ TableNext
     \/ hash_kind = "hash_array" /\ HashArrayNext
  /\ UNCHANGED hash_kind

HashSpec == HashInit /\ [][HashNext]_hashvars

-----------------------------------------------------------------------------
(***************************************************************************)
(* Properties                                                              *)
(***************************************************************************)

(* No more than four objects per slot on average, and never fewer slots    *)
(* than the minimum: the test in sc_hash_insert_unique, made only at       *)
(* multiples of the number of slots, does not miss the time to grow.       *)
LoadIsBounded ==
  /\ hash_count < 4 * NumSlots(slots)
  /\ NumSlots(slots) >= sc_hash_minimal_size

(* sc_hash_array_is_valid: the table holds each position of the array, and *)
(* the objects in it are different, so that a lookup finds an object at    *)
(* its place.                                                              *)
HashArrayIsValid ==
  /\ hash_count = Len(hash_a)
  /\ Stored(slots) = 0 .. Len(hash_a) - 1
  /\ \A l \in 0 .. Len(hash_a) - 1 : PositionsOf(hash_a[l + 1]) = {l}

(* The number of objects per slot stays below four on average, and a hash  *)
(* array finds each object that it holds, at its position.                 *)
HashIsSound == LoadIsBounded /\ (hash_kind = "hash_array" => HashArrayIsValid)

(* The table is a set of keys, and the return values tell the truth.       *)
StepOfSet ==
  LET old == Stored(slots)
      new == Stored(slots')
  IN \A k \in Key :
       /\ sc_hash_lookup(k) => ret' = (k \in old) /\ new = old
       /\ sc_hash_insert_unique(k) => ret' = (k \notin old) /\ new = old \cup {k}
       /\ sc_hash_remove(k) => ret' = (k \in old) /\ new = old \ {k}

=============================================================================
