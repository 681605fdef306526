----------------------------- MODULE Statistics -----------------------------
(* Statistics over all ranks (sc_statistics.c): every rank keeps named random *)
(* variables, found through a key-value container (sc_keyvalue.c), sets them  *)
(* or accumulates values, and a collective call combines them with an         *)
(* operator given to MPI_Allreduce.  MPI combines the operands two at a time, *)
(* in any order and bracketing, since the operator is declared commutative.   *)
(*                                                                            *)
(* Values are integers.  The average and the variances are functions of       *)
(* count, sum_values and sum_squares and left out.                            *)
EXTENDS Integers, Sequences, FiniteSets, FiniteSetsExt, TLC

CONSTANTS Programs, \* [procs, adds, rounds, ops]: number of ranks, the [name,
                    \* empty] they add in order, and bounds on the collective
                    \* calls and on the local calls of a rank between them
          Values    \* values of a variable

VARIABLES program,  \* the program that runs
          kv,       \* kv[r]: name -> [type, value]
          sarray,   \* sarray[r]: the sc_statinfo_t of each variable
          given,    \* given[r]: the values each variable stands for
          ops,      \* local calls since the last collective one
          round,    \* round[r]: collective calls entered
          in,       \* in[r]: is in a collective call
          parts,    \* parts[k]: operands of the k-th call not combined yet
          entered   \* entered[k]: what each rank brought to the k-th call

vars == <<program, kv, sarray, given, ops, round, in, parts, entered>>

Ranks == 0 .. program.procs - 1
table == program.adds
Rounds == 1 .. program.rounds
NoRank == -1

-----------------------------------------------------------------------------
(* sc_keyvalue, as far as it is used here.                                    *)
sc_keyvalue_new == <<>>
sc_keyvalue_exists(m, key) == IF key \in DOMAIN m THEN m[key].type ELSE "NONE"
sc_keyvalue_set_int(m, key, v) == (key :> [type |-> "INT", value |-> v]) @@ m
sc_keyvalue_get_int(m, key, dvalue) == IF key \in DOMAIN m THEN m[key].value ELSE dvalue

-----------------------------------------------------------------------------
(* One variable.  Computed outputs are undefined until the first computation, *)
(* at is the collective call they come from.                                  *)
sc_stats_set1(v) == [dirty |-> TRUE, count |-> 1, sum |-> v, squares |-> v * v, min |-> v, max |-> v,
                     min_at |-> NoRank, max_at |-> NoRank, at |-> 0]
sc_stats_init == [dirty |-> TRUE, count |-> 0, sum |-> 0, squares |-> 0, min |-> 0, max |-> 0,
                  min_at |-> NoRank, max_at |-> NoRank, at |-> 0]

sc_stats_accumulate(s, v) ==
  IF s.count = 0 THEN [s EXCEPT !.count = 1, !.sum = v, !.squares = v * v, !.min = v, !.max = v]
  ELSE [s EXCEPT !.count = @ + 1, !.sum = @ + v, !.squares = @ + v * v,
                 !.min = IF v < @ THEN v ELSE @, !.max = IF v > @ THEN v ELSE @]

(* Faulty variant: the rank of the minimum is not carried along.              *)
KeepsFirstRank(in_, inout) ==
  [count |-> inout.count + in_.count, sum |-> inout.sum + in_.sum, squares |-> inout.squares + in_.squares,
   min |-> IF in_.min < inout.min THEN in_.min ELSE inout.min, min_at |-> inout.min_at,
   max |-> IF in_.max > inout.max THEN in_.max ELSE inout.max, max_at |-> inout.max_at]

(* sc_stats_mpifunc on one variable.  An operand without values is ignored    *)
(* when it is in_; the extrema of inout count in any case.                    *)
sc_stats_mpifunc(in_, inout) ==
  LET low == IF in_.min_at < inout.min_at THEN in_.min_at ELSE inout.min_at
      high == IF in_.max_at < inout.max_at THEN in_.max_at ELSE inout.max_at
  IN IF in_.count = 0 THEN inout
     ELSE [count |-> inout.count + in_.count, sum |-> inout.sum + in_.sum, squares |-> inout.squares + in_.squares,
           min |-> IF in_.min < inout.min THEN in_.min ELSE inout.min,
           min_at |-> CASE in_.min < inout.min -> in_.min_at [] in_.min = inout.min -> low [] OTHER -> inout.min_at,
           max |-> IF in_.max > inout.max THEN in_.max ELSE inout.max,
           max_at |-> CASE in_.max > inout.max -> in_.max_at [] in_.max = inout.max -> high [] OTHER -> inout.max_at]

(* What a rank contributes: zeros for a variable that is not dirty.           *)
flatin(r, s) ==
  IF s.dirty THEN [count |-> s.count, sum |-> s.sum, squares |-> s.squares, min |-> s.min, max |-> s.max,
                   min_at |-> r, max_at |-> r]
  ELSE [count |-> 0, sum |-> 0, squares |-> 0, min |-> 0, max |-> 0, min_at |-> 0, max_at |-> 0]

(* What a rank stores: nothing for a variable that is not dirty, and no       *)
(* values if there are none anywhere.                                         *)
flatout(s, f, k) ==
  CASE ~s.dirty -> s
    [] s.dirty /\ f.count = 0 -> [s EXCEPT !.count = 0, !.min_at = 0, !.max_at = 0]
    [] OTHER -> [dirty |-> FALSE, count |-> f.count, sum |-> f.sum, squares |-> f.squares, min |-> f.min,
                 max |-> f.max, min_at |-> f.min_at, max_at |-> f.max_at, at |-> k]

-----------------------------------------------------------------------------
Local(r) == /\ ~in[r] /\ UNCHANGED <<program, round, in, parts, entered>>
Update(r, i, s, values) == /\ sarray' = [sarray EXCEPT ![r] = IF i > Len(@) THEN Append(@, s) ELSE [@ EXCEPT ![i] = s]]
                           /\ given' = [given EXCEPT ![r] = IF i > Len(@) THEN Append(@, values)
                                                            ELSE [@ EXCEPT ![i] = values]]

(* sc_statistics_add and sc_statistics_add_empty; a name must be new.         *)
Register(r, s, values) ==
  LET i == Len(sarray[r]) + 1
      name == table[i].name
  IN /\ sc_keyvalue_exists(kv[r], name) = "NONE"
     /\ Local(r) /\ Update(r, i, s, values)
     /\ kv' = [kv EXCEPT ![r] = sc_keyvalue_set_int(@, name, i)] /\ UNCHANGED ops
Missing(r) == Len(sarray[r]) < Len(table)
sc_statistics_add(r) == Missing(r) /\ ~table[Len(sarray[r]) + 1].empty /\ Register(r, sc_stats_set1(0), <<0>>)
sc_statistics_add_empty(r) == Missing(r) /\ table[Len(sarray[r]) + 1].empty /\ Register(r, sc_stats_init, <<>>)

(* Calls on a variable that exists, by name.                                  *)
Access(r, i) == /\ i > 0 /\ Local(r) /\ ops[r] < program.ops /\ ops' = [ops EXCEPT ![r] = @ + 1] /\ UNCHANGED kv
sc_statistics_set(r, name, v) ==
  LET i == sc_keyvalue_get_int(kv[r], name, -1)
  IN Access(r, i) /\ Update(r, i, sc_stats_set1(v), <<v>>)
sc_statistics_accumulate(r, name, v) ==
  LET i == sc_keyvalue_get_int(kv[r], name, -1)
  IN /\ Access(r, i) /\ sarray[r][i].dirty
     /\ Update(r, i, sc_stats_accumulate(sarray[r][i], v), Append(given[r][i], v))
sc_stats_reset(r, i) == Access(r, i) /\ Update(r, i, sc_stats_init, <<>>)

(* sc_stats_compute1 takes sum_values for the one value of each variable, and *)
(* then calls sc_stats_compute: nothing else is left for the rank to do.      *)
Single(s) == [s EXCEPT !.count = 1, !.squares = s.sum * s.sum, !.min = s.sum, !.max = s.sum]
OneValue(r) == [i \in DOMAIN given[r] |-> IF sarray[r][i].dirty THEN <<sarray[r][i].sum>> ELSE given[r][i]]
sc_stats_compute1(r) ==
  /\ ~in[r] /\ ~Missing(r) /\ \A i \in DOMAIN sarray[r] : sarray[r][i].dirty
  /\ ops[r] < program.ops /\ ops' = [ops EXCEPT ![r] = program.ops]
  /\ sarray' = [sarray EXCEPT ![r] = [i \in DOMAIN @ |-> Single(@[i])]]
  /\ given' = [given EXCEPT ![r] = OneValue(r)]
  /\ UNCHANGED <<program, kv, round, in, parts, entered>>

(* sc_stats_compute: MPI_Allreduce is entered, two operands are combined, and *)
(* the result is taken once it holds all ranks.                               *)
sc_stats_compute(r) ==
  LET k == round[r] + 1 IN
  /\ ~in[r] /\ ~Missing(r) /\ k \in Rounds
  /\ in' = [in EXCEPT ![r] = TRUE] /\ round' = [round EXCEPT ![r] = k] /\ ops' = [ops EXCEPT ![r] = 0]
  /\ parts' = [parts EXCEPT ![k] = @ \cup {[of |-> {r}, flat |-> [i \in DOMAIN table |-> flatin(r, sarray[r][i])]]}]
  /\ entered' = [entered EXCEPT ![k] = (r :> [i \in DOMAIN table |-> IF sarray[r][i].dirty THEN given[r][i] ELSE <<>>]) @@ @]
  /\ UNCHANGED <<program, kv, sarray, given>>

Combine(k) ==
  \E p, q \in parts[k] :
    /\ p # q
    /\ parts' = [parts EXCEPT ![k] = (@ \ {p, q}) \cup
                   {[of |-> p.of \cup q.of, flat |-> [i \in DOMAIN table |-> sc_stats_mpifunc(p.flat[i], q.flat[i])]]}]
    /\ UNCHANGED <<program, kv, sarray, given, ops, round, in, entered>>

Return(r) ==
  /\ in[r] /\ \E p \in parts[round[r]] :
       /\ p.of = Ranks
       /\ sarray' = [sarray EXCEPT ![r] = [i \in DOMAIN @ |-> flatout(@[i], p.flat[i], round[r])]]
  /\ in' = [in EXCEPT ![r] = FALSE]
  /\ UNCHANGED <<program, kv, given, ops, round, parts, entered>>

Init == /\ program \in Programs /\ kv = [r \in Ranks |-> sc_keyvalue_new] /\ sarray = [r \in Ranks |-> <<>>]
        /\ given = [r \in Ranks |-> <<>>] /\ ops = [r \in Ranks |-> 0] /\ round = [r \in Ranks |-> 0]
        /\ in = [r \in Ranks |-> FALSE] /\ parts = [k \in Rounds |-> {}] /\ entered = [k \in Rounds |-> <<>>]

Finished == \A r \in Ranks : round[r] = program.rounds /\ ~in[r]
Done == Finished /\ UNCHANGED vars
Next == \/ \E r \in Ranks : \/ sc_statistics_add(r) \/ sc_statistics_add_empty(r)
                            \/ (\E i \in DOMAIN table, v \in Values : \/ sc_statistics_set(r, table[i].name, v)
                                                                      \/ sc_statistics_accumulate(r, table[i].name, v))
                            \/ (\E i \in DOMAIN sarray[r] : sc_stats_reset(r, i))
                            \/ sc_stats_compute1(r) \/ sc_stats_compute(r) \/ Return(r)
        \/ \E k \in Rounds : Combine(k)
        \/ Done
Spec == Init /\ [][Next]_vars

-----------------------------------------------------------------------------
(* The statistics of the values that all ranks brought to the k-th call for   *)
(* the i-th variable.  The rank of an extremum is the lowest that has it.     *)
Exact(s, k, i) ==
  LET of(r) == entered[k][r][i]
      all == UNION {{<<r, j>> : j \in DOMAIN of(r)} : r \in Ranks}
      at(x) == of(x[1])[x[2]]
      lowest(v) == Min({x[1] : x \in {y \in all : at(y) = v}})
      min == Min({at(x) : x \in all})
      max == Max({at(x) : x \in all})
  IN /\ s.count = Cardinality(all)
     /\ s.sum = MapThenSumSet(at, all) /\ s.squares = MapThenSumSet(LAMBDA x : at(x) * at(x), all)
     /\ s.min = min /\ s.max = max /\ s.min_at = lowest(min) /\ s.max_at = lowest(max)

(* On output of sc_stats_compute the fields hold the global number, sum and   *)
(* extrema of the values and the ranks that attain them (sc_statistics.h),    *)
(* in whatever order MPI combines, and a later call leaves them until the     *)
(* variable is set again.                                                     *)
ComputedIsGlobal ==
  \A r \in Ranks : \A i \in DOMAIN sarray[r] :
    LET s == sarray[r][i] IN ~s.dirty => Exact(s, s.at, i)

(* The same when every rank has a value.                                      *)
StatisticsAreExact ==
  \A r \in Ranks : \A i \in DOMAIN sarray[r] :
    LET s == sarray[r][i]
    IN ~s.dirty /\ (\A q \in Ranks : entered[s.at][q][i] # <<>>) => Exact(s, s.at, i)
=============================================================================
