-------------------------------- MODULE Sort ---------------------------------
(* The parallel sort of sc_sort.c: a bitonic sort of an array distributed     *)
(* over P ranks, some of them empty.  The ranks exchange segments with        *)
(* nonblocking messages; a segment is sent out of the array itself, so that   *)
(* it may be overwritten only once it has left.                               *)
EXTENDS Integers, Sequences, SequencesExt, FiniteSets

CONSTANTS P, Values,
          Shapes    \* numbers of elements by rank considered: sequences

VARIABLES gmemb,    \* global offset of each rank, and the total
          input,    \* the array at the beginning
          data,     \* the array: global position -> element
          todo,     \* rank -> local sorts and merges it still has to do
          pc,       \* rank -> place in its current merge
          peers,    \* rank -> segments it exchanges in its current merge
          net       \* <<from, to, tag>> -> messages not yet received
vars == <<gmemb, input, data, todo, pc, peers, net>>

Ranks == 0 .. P - 1
Channels == {c \in Ranks \X Ranks \X {"LO", "HI"} : c[1] # c[2]}

(* sc_psort: the global offsets of the ranks.                                 *)
Offsets(nmemb) == LET g[i \in 0 .. P] == IF i = 0 THEN 0 ELSE g[i - 1] + nmemb[i] IN g

(* sc_bsearch_cumulative: the owner of a position, from a first guess.        *)
sc_bsearch_cumulative(g, pos, guess) ==
  LET RECURSIVE search(_, _, _)
      search(low, high, x) ==
        IF pos < g[x] THEN search(low, x - 1, (low + x) \div 2)
        ELSE IF g[x + 1] <= pos THEN search(x + 1, high, (x + 1 + high) \div 2)
        ELSE x
  IN search(0, P - 1, guess)

(* sc_search_lower_bound64: from a first guess, the first position in a       *)
(* sorted array of n elements that holds no less than target, -1 if none.     *)
sc_search_lower_bound64(target, a, n, first) ==
  LET RECURSIVE search(_, _, _)
      search(k_low, k_high, guess) ==
        IF target <= a[guess] /\ guess > 0 /\ target <= a[guess - 1]
        THEN search(k_low, guess - 1, (k_low + guess) \div 2)
        ELSE IF target > a[guess]
        THEN IF guess + 1 > k_high THEN -1 ELSE search(guess + 1, k_high, (guess + 1 + k_high) \div 2)
        ELSE guess
  IN IF n = 0 THEN -1 ELSE search(0, n - 1, first)

(* Faulty variant: the upper end of a range counts as inside.                 *)
ClosedRange(key, base, n) ==
  IF n = 0 THEN n ELSE LET at == {k \in 0 .. n - 1 : base[k] <= key /\ key <= base[k + 1]}
                       IN IF at = {} THEN n ELSE CHOOSE k \in at : \A j \in at : k <= j

(* sc_bsearch_range: the k of n + 1 sorted elements with base[k] <= key and   *)
(* key < base[k + 1], n if there is none.                                     *)
sc_bsearch_range(key, base, n) ==
  LET RECURSIVE search(_, _, _)
      search(k_low, k_high, guess) ==
        IF key < base[guess]
        THEN IF guess = k_low THEN n ELSE search(k_low, guess - 1, (k_low + guess) \div 2)
        ELSE IF base[guess + 1] <= key
        THEN IF guess = k_high THEN n ELSE search(guess + 1, k_high, (guess + 1 + k_high) \div 2)
        ELSE guess
  IN IF n = 0 THEN n ELSE search(0, n - 1, n \div 2)

(* The loop over the pairs of segments that a merge of lo .. hi - 1 compares. *)
Half(n) == LET ks == {k \in {1, 2, 4, 8, 16} : k < n} IN CHOOSE k \in ks : \A j \in ks : j <= k
Segments(g, r, lo, hi) ==
  LET lo_end == hi - Half(hi - lo)
      hi_beg == lo + Half(hi - lo)
      RECURSIVE loop(_, _, _)
      loop(offset, x, y) ==
        IF offset >= lo_end - lo THEN <<>>
        ELSE LET lo_owner == sc_bsearch_cumulative(g, lo + offset, x)
                 hi_owner == sc_bsearch_cumulative(g, hi_beg + offset, y)
                 lengths == {lo_end - (lo + offset), g[lo_owner + 1] - (lo + offset),
                             g[hi_owner + 1] - (hi_beg + offset)}
                 max_length == CHOOSE m \in lengths : \A l \in lengths : m <= l
             IN <<[lo |-> lo + offset, hi |-> hi_beg + offset, length |-> max_length,
                   lo_owner |-> lo_owner, hi_owner |-> hi_owner]>> \o loop(offset + max_length, lo_owner, hi_owner)
  IN loop(0, r, r)

(* The calls of sc_merge_bitonic and sc_psort_bitonic on a rank, in order.    *)
Takes(g, r, lo, hi) == hi - lo > 1 /\ g[r + 1] > lo /\ g[r] < hi
RECURSIVE sc_merge_bitonic(_, _, _, _, _)
sc_merge_bitonic(g, r, lo, hi, dir) ==
  IF ~Takes(g, r, lo, hi) THEN <<>>
  ELSE <<[op |-> "merge", segments |-> Segments(g, r, lo, hi), dir |-> dir]>>
       \o sc_merge_bitonic(g, r, lo, lo + Half(hi - lo), dir) \o sc_merge_bitonic(g, r, lo + Half(hi - lo), hi, dir)
RECURSIVE sc_psort_bitonic(_, _, _, _, _)
sc_psort_bitonic(g, r, lo, hi, dir) ==
  IF ~Takes(g, r, lo, hi) THEN <<>>
  ELSE IF lo >= g[r] /\ hi <= g[r + 1] THEN <<[op |-> "qsort", lo |-> lo, hi |-> hi, dir |-> dir]>>
  ELSE LET n2 == (hi - lo) \div 2
       IN sc_psort_bitonic(g, r, lo, lo + n2, ~dir) \o sc_psort_bitonic(g, r, lo + n2, hi, dir)
          \o sc_merge_bitonic(g, r, lo, hi, dir)

Task(r) == Head(todo[r])

-----------------------------------------------------------------------------
(* qsort of a part that is local; elements that compare equal are the same.   *)
Qsort(r) ==
  /\ pc[r] = "task" /\ todo[r] # <<>> /\ Task(r).op = "qsort"
  /\ LET t == Task(r)
         part == SortSeq(SubSeq(data, t.lo + 1, t.hi), LAMBDA x, y : IF t.dir THEN x < y ELSE x > y)
     IN data' = [i \in DOMAIN data |-> IF i \in t.lo + 1 .. t.hi THEN part[i - t.lo] ELSE data[i]]
  /\ todo' = [todo EXCEPT ![r] = Tail(@)] /\ UNCHANGED <<gmemb, input, pc, peers, net>>

(* Loop 1: post a receive and a send for every segment whose other half is on *)
(* another rank.  A message is [start, length, data], no data until copied.   *)
Peer(r, s) == IF s.lo_owner = r THEN [prank |-> s.hi_owner, tag |-> "HI", start |-> s.lo]
              ELSE [prank |-> s.lo_owner, tag |-> "LO", start |-> s.hi]
Other(tag) == IF tag = "HI" THEN "LO" ELSE "HI"
Post(r) ==
  /\ pc[r] = "task" /\ todo[r] # <<>> /\ Task(r).op = "merge"
  /\ LET mine == SelectSeq(Task(r).segments,
                           LAMBDA s : (s.lo_owner = r) # (s.hi_owner = r))
         new == [i \in 1 .. Len(mine) |-> Peer(r, mine[i]) @@ [length |-> mine[i].length, received |-> FALSE,
                                                               sent |-> FALSE, buffer |-> <<>>]]
         to(c) == SelectSeq(new, LAMBDA p : c = <<r, p.prank, Other(p.tag)>>)
     IN /\ peers' = [peers EXCEPT ![r] = new]
        /\ net' = [c \in Channels |-> net[c] \o [i \in 1 .. Len(to(c)) |->
                     [start |-> to(c)[i].start, length |-> to(c)[i].length, data |-> <<>>]]]
  /\ pc' = [pc EXCEPT ![r] = "local"] /\ UNCHANGED <<gmemb, input, data, todo>>

(* compar > 0, compared with the direction.                                   *)
Swaps(dir, x, y) == dir = (x > y)

(* Loop 3 goes on until everything is received and sent.                      *)
Continue(r, ps) ==
  IF \E k \in DOMAIN ps : ~ps[k].received \/ ~ps[k].sent
  THEN pc' = [pc EXCEPT ![r] = "recv"] /\ peers' = [peers EXCEPT ![r] = ps] /\ UNCHANGED todo
  ELSE /\ pc' = [pc EXCEPT ![r] = "task"] /\ peers' = [peers EXCEPT ![r] = <<>>]
       /\ todo' = [todo EXCEPT ![r] = Tail(@)]

(* Loop 2: compare what is local.                                             *)
Local(r) ==
  /\ pc[r] = "local"
  /\ LET t == Task(r)
         own == SelectSeq(t.segments, LAMBDA s : s.lo_owner = r /\ s.hi_owner = r)
         pairs == UNION {{<<own[i].lo + z, own[i].hi + z>> : z \in 1 .. own[i].length} : i \in DOMAIN own}
         swapped == {p \in pairs : Swaps(t.dir, data[p[1]], data[p[2]])}
         partner(i) == CHOOSE j \in DOMAIN data : <<i, j>> \in swapped \/ <<j, i>> \in swapped
     IN data' = [i \in DOMAIN data |-> IF \E p \in swapped : i \in {p[1], p[2]} THEN data[partner(i)] ELSE data[i]]
  /\ Continue(r, peers[r]) /\ UNCHANGED <<gmemb, input, net>>

(* A message leaves its place in the array, at any time after the send.       *)
Copy(c) == \E i \in 1 .. Len(net[c]) :
             /\ net[c][i].data = <<>>
             /\ net' = [net EXCEPT ![c][i] = [@ EXCEPT !.data = SubSeq(data, net[c][i].start + 1,
                                                                      net[c][i].start + net[c][i].length)]]
             /\ UNCHANGED <<gmemb, input, data, todo, pc, peers>>

(* The array after comparing segment p with what was received for it.         *)
Compared(r, p, d) ==
  LET dir == Task(r).dir
      z(i) == i - p.start
      takes(i) == IF r < p.prank THEN Swaps(dir, d[i], p.buffer[z(i)]) ELSE Swaps(dir, p.buffer[z(i)], d[i])
  IN [i \in DOMAIN d |-> IF i \in p.start + 1 .. p.start + p.length /\ takes(i) THEN p.buffer[z(i)] ELSE d[i]]
ComparedAll(r, ps) == FoldLeft(LAMBDA d, p : Compared(r, p, d), data, ps)

(* Loop 3: MPI_Waitsome returns some of the receives that are complete.  The  *)
(* i-th open receive from a rank gets its i-th message.  Only what has been   *)
(* sent is overwritten.                                                       *)
Message(r, k) ==
  LET p == peers[r][k]
      before == {j \in 1 .. k : ~peers[r][j].received /\ peers[r][j].prank = p.prank /\ peers[r][j].tag = p.tag}
      m == Cardinality(before)
  IN IF m <= Len(net[<<p.prank, r, p.tag>>]) THEN <<net[<<p.prank, r, p.tag>>][m], m>> ELSE <<>>
Without(s, S) == LET left == SelectSeq([i \in DOMAIN s |-> i], LAMBDA i : i \notin S)
                 IN [i \in DOMAIN left |-> s[left[i]]]
Open(r, field) == {k \in DOMAIN peers[r] : ~peers[r][k][field]}
Received(r) == {k \in Open(r, "received") : Message(r, k) # <<>> /\ Message(r, k)[1].data # <<>>}

WaitRecv(r) ==
  /\ pc[r] = "recv"
  /\ pc' = [pc EXCEPT ![r] = "send"]
  /\ IF Open(r, "received") = {} THEN UNCHANGED <<data, peers, net>>
     ELSE \E S \in SUBSET Received(r) \ {{}} :
            LET new == [k \in DOMAIN peers[r] |->
                          IF k \in S THEN [peers[r][k] EXCEPT !.received = TRUE, !.buffer = Message(r, k)[1].data]
                          ELSE peers[r][k]]
                taken(c) == {Message(r, k)[2] : k \in {j \in S : c = <<peers[r][j].prank, r, peers[r][j].tag>>}}
            IN /\ peers' = [peers EXCEPT ![r] = new]
               /\ net' = [c \in Channels |-> Without(net[c], taken(c))]
               /\ data' = ComparedAll(r, SelectSeq([k \in DOMAIN new |-> [new[k] EXCEPT !.sent = @ /\ k \in S]],
                                                   LAMBDA p : p.sent))
  /\ UNCHANGED <<gmemb, input, todo>>

(* MPI_Waitsome on the sends; what was received before is compared now.       *)
Sent(r) == {k \in Open(r, "sent") : LET p == peers[r][k] IN
              \A i \in DOMAIN net[<<r, p.prank, Other(p.tag)>>] :
                LET m == net[<<r, p.prank, Other(p.tag)>>][i] IN m.start = p.start => m.data # <<>>}
WaitSend(r) ==
  /\ pc[r] = "send"
  /\ IF Open(r, "sent") = {} THEN Continue(r, peers[r]) /\ UNCHANGED data
     ELSE \E S \in SUBSET Sent(r) \ {{}} :
            /\ Continue(r, [k \in DOMAIN peers[r] |-> IF k \in S THEN [peers[r][k] EXCEPT !.sent = TRUE]
                                                     ELSE peers[r][k]])
            /\ data' = ComparedAll(r, SelectSeq([k \in DOMAIN peers[r] |->
                                                   [peers[r][k] EXCEPT !.received = @ /\ k \in S]],
                                                LAMBDA p : p.received))
  /\ UNCHANGED <<gmemb, input, net>>

-----------------------------------------------------------------------------
Init == /\ gmemb \in {Offsets(nmemb) : nmemb \in Shapes}
        /\ input \in [1 .. gmemb[P] -> Values] /\ data = input
        /\ todo = [r \in Ranks |-> sc_psort_bitonic(gmemb, r, 0, gmemb[P], TRUE)]
        /\ pc = [r \in Ranks |-> "task"] /\ peers = [r \in Ranks |-> <<>>]
        /\ net = [c \in Channels |-> <<>>]
Finished == \A r \in Ranks : todo[r] = <<>>
Done == Finished /\ UNCHANGED vars
Step(r) == Qsort(r) \/ Post(r) \/ Local(r) \/ WaitRecv(r) \/ WaitSend(r)
Next == (\E r \in Ranks : Step(r)) \/ (\E c \in Channels : Copy(c)) \/ Done
Spec == Init /\ [][Next]_vars

-----------------------------------------------------------------------------
(* When sc_psort has returned everywhere the array is sorted and holds what   *)
(* it held before, with every rank's number of elements, and no message is    *)
(* left behind.                                                               *)
SortIsCorrect ==
  Finished => /\ \A i \in 1 .. Len(data) - 1 : data[i] <= data[i + 1]
              /\ \A v \in Values : Len(SelectSeq(data, LAMBDA x : x = v)) = Len(SelectSeq(input, LAMBDA x : x = v))
              /\ \A c \in Channels : net[c] = <<>>

(* The searches agree with each other and with what they are for, from every  *)
(* first guess: sc_bsearch_cumulative and sc_bsearch_range find the owner of  *)
(* a position, empty ranks or not, and sc_search_lower_bound64 the first      *)
(* element of the sorted array that is no less than the target.               *)
SearchIsExact ==
  Finished =>
    LET n == Len(data)
        a == [i \in 0 .. n - 1 |-> data[i + 1]]
    IN /\ \A pos \in 0 .. n - 1 : \A guess \in Ranks :
            LET owner == sc_bsearch_cumulative(gmemb, pos, guess)
            IN gmemb[owner] <= pos /\ pos < gmemb[owner + 1] /\ owner = sc_bsearch_range(pos, gmemb, P)
       /\ sc_bsearch_range(n, gmemb, P) = P
       /\ \A target \in {v + d : v \in Values, d \in {0, 1}} : \A guess \in 0 .. n - 1 :
            LET k == sc_search_lower_bound64(target, a, n, guess)
            IN IF k = -1 THEN \A i \in 0 .. n - 1 : a[i] < target
               ELSE a[k] >= target /\ \A i \in 0 .. k - 1 : a[i] < target
=============================================================================
