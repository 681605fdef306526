----------------------------- MODULE CensusRsx -----------------------------
(***************************************************************************)
(* The census by remote memory access, sc_notify_census_rsx and            *)
(* sc_notify_censusv_rsx: each rank exposes a window of counters, adds to  *)
(* the counters of its receivers with MPI_Accumulate, and reads its own    *)
(* after the closing MPI_Win_fence.                                        *)
(*                                                                         *)
(* MPI_Accumulate is nonblocking: the library may read the origin buffer   *)
(* at any time until the closing fence completes.  Both functions pass the *)
(* address of a variable of the loop body, which the next pass writes      *)
(* again; the model lets a transfer read what the variable holds at the    *)
(* time of the transfer.                                                   *)
(***************************************************************************)
EXTENDS Integers, Sequences, FiniteSets

CONSTANTS P,
          Sizes  \* Sizes[p][q]: number of payload items from p to q, where q
                 \* is in the domain of Sizes[p] iff p informs q

Rank == 0 .. P-1
Receivers == [p \in Rank |-> DOMAIN Sizes[p]]

ASSUME RsxAssumption ==
  /\ P \in Nat
  /\ \A p \in Rank : DOMAIN Sizes[p] \subseteq Rank /\ \A q \in DOMAIN Sizes[p] : Sizes[p][q] \in Nat

VARIABLES variable,  \* whether sizes are counted too (the censusv function)
          phase,     \* place of each rank in the code
          todo,      \* receivers a rank has still to add to
          summand,   \* the origin buffer of each rank
          pending,   \* accumulates issued and not yet transferred
          win,       \* the counters exposed by each rank: <<number, size>>
          result     \* the counters as read by each rank at the end

vars == <<variable, phase, todo, summand, pending, win, result>>

Init ==
  /\ variable \in BOOLEAN
  /\ phase = [p \in Rank |-> "start"]
  /\ todo = Receivers
  /\ summand = [p \in Rank |-> <<0, 0>>]
  /\ pending = {}
  /\ win = [p \in Rank |-> <<0, 0>>]
  /\ result = [p \in Rank |-> <<-1, -1>>]

(* MPI_Win_create is collective; the fence with MPI_MODE_NOPRECEDE that    *)
(* follows need not wait for anybody.                                      *)
CreateEnter(p) ==
  /\ phase[p] = "start"
  /\ phase' = [phase EXCEPT ![p] = "create"]
  /\ UNCHANGED <<variable, todo, summand, pending, win, result>>

CreateLeave(p) ==
  /\ phase[p] = "create"
  /\ \A q \in Rank : phase[q] # "start"
  /\ phase' = [phase EXCEPT ![p] = "epoch"]
  /\ UNCHANGED <<variable, todo, summand, pending, win, result>>

Accumulate(p) ==
  /\ ~variable
  /\ phase[p] = "epoch"
  /\ \E q \in todo[p] :
       /\ summand' = [summand EXCEPT ![p] = <<1, 0>>]
       /\ pending' = pending \cup {<<p, q>>}
       /\ todo' = [todo EXCEPT ![p] = @ \ {q}]
  /\ UNCHANGED <<variable, phase, win, result>>

Accumulatev(p) ==
  /\ variable
  /\ phase[p] = "epoch"
  /\ \E q \in todo[p] :
       /\ summand' = [summand EXCEPT ![p] = <<1, Sizes[p][q]>>]
       /\ pending' = pending \cup {<<p, q>>}
       /\ todo' = [todo EXCEPT ![p] = @ \ {q}]
  /\ UNCHANGED <<variable, phase, win, result>>

(* The library carries out an accumulate, atomically at the target.        *)
Transfer ==
  \E m \in pending :
     LET p == m[1]  q == m[2]
     IN /\ phase[q] # "create"
        /\ win' = [win EXCEPT ![q] = <<@[1] + summand[p][1], @[2] + summand[p][2]>>]
        /\ pending' = pending \ {m}
        /\ UNCHANGED <<variable, phase, todo, summand, result>>

FenceEnter(p) ==
  /\ phase[p] = "epoch"
  /\ todo[p] = {}
  /\ phase' = [phase EXCEPT ![p] = "fence"]
  /\ UNCHANGED <<variable, todo, summand, pending, win, result>>

(* Faulty variant: the counters are read without the closing fence.        *)
NoFenceLeave(p) ==
  /\ phase[p] = "fence"
  /\ result' = [result EXCEPT ![p] = win[p]]
  /\ phase' = [phase EXCEPT ![p] = "done"]
  /\ UNCHANGED <<variable, todo, summand, pending, win>>

(* The closing fence waits for all ranks, for the accumulates issued by p  *)
(* and for those aimed at p.  Freeing the window is collective again and   *)
(* waits for nothing more.                                                 *)
FenceLeave(p) ==
  /\ phase[p] = "fence"
  /\ \A q \in Rank : phase[q] \in {"fence", "done"}
  /\ \A m \in pending : m[1] # p /\ m[2] # p
  /\ result' = [result EXCEPT ![p] = win[p]]
  /\ phase' = [phase EXCEPT ![p] = "done"]
  /\ UNCHANGED <<variable, todo, summand, pending, win>>

Terminated == (\A p \in Rank : phase[p] = "done") /\ UNCHANGED vars

Next ==
  \/ \E p \in Rank : \/ CreateEnter(p) \/ CreateLeave(p)
                     \/ Accumulate(p) \/ Accumulatev(p)
                     \/ FenceEnter(p) \/ FenceLeave(p)
  \/ Transfer
  \/ Terminated

Spec == Init /\ [][Next]_vars

-----------------------------------------------------------------------------

(* The counters are numbers and the pending accumulates are well formed.   *)
TypeOK ==
  /\ variable \in BOOLEAN
  /\ phase \in [Rank -> {"start", "create", "epoch", "fence", "done"}]
  /\ todo \in [Rank -> SUBSET Rank]
  /\ summand \in [Rank -> Nat \X Nat]
  /\ pending \subseteq Rank \X Rank
  /\ win \in [Rank -> Nat \X Nat]
  /\ result \in [Rank -> Int \X Int]

Informers(p) == {q \in Rank : p \in Receivers[q]}

(* The number of items of payload p is going to receive.                   *)
TotalSize(p) ==
  LET Prefix[n \in 0 .. P] ==
        IF n = 0 THEN 0
        ELSE Prefix[n-1] + IF n-1 \in Informers(p) THEN Sizes[n-1][p] ELSE 0
  IN Prefix[P]

TheCensus ==
  INSTANCE Census WITH inside <- {p \in Rank : phase[p] # "start"},
                       num_senders <- [p \in Rank |-> result[p][1]]

(* sc_notify_census_rsx tells each rank how many ranks named it, once all  *)
(* have entered.                                                           *)
ImplementsCensus == TheCensus!Spec

(* The second counter of sc_notify_censusv_rsx is the size of all data the *)
(* rank will receive, as sc_notify_payloadv_census allocates it.           *)
SizeIsTotal ==
  \A p \in Rank : variable /\ phase[p] = "done" => result[p][2] = TotalSize(p)

=============================================================================
