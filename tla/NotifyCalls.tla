----------------------------- MODULE NotifyCalls -----------------------------
(***************************************************************************)
(* What the algorithms behind sc_notify_payload have in common: the ranks  *)
(* of a communicator that make the same calls one after the other, the     *)
(* arguments of these calls, and MPI messages between the ranks.           *)
(***************************************************************************)
EXTENDS Integers, Sequences, FiniteSets

CONSTANTS P,            \* number of ranks of the communicator
          Calls,        \* number of consecutive calls made on it
          Patterns,     \* receiver patterns, in [1..Calls -> [Rank -> SUBSET Rank]]
          Modes,        \* combinations of the remaining arguments, see Mode
          Synchronised  \* types whose calls the application separates by a barrier

ASSUME PAssumption == P \in Nat \ {0}
ASSUME CallsAssumption == Calls \in Nat

Rank == 0 .. P-1

ASSUME PatternsAssumption == Patterns \subseteq [1 .. Calls -> [Rank -> SUBSET Rank]]

Types == {"allgather", "binary", "nary", "pex", "pcx", "rsx", "nbx", "ranges", "superset"}

(* What decides which way a call takes, besides the receivers:             *)
(*   type     the type of the controller, SC_NOTIFY_...                    *)
(*   sorted   the argument of this name                                    *)
(*   payload  whether in_payload is given                                  *)
(*   inplace  whether senders and out_payload are NULL, so that the        *)
(*            results replace receivers and in_payload                     *)
(*   eager    whether the payload is no larger than the eager threshold    *)
(*   stale    number of elements out_payload holds on input                *)
(*   buffered whether MPI completes a standard send before it is matched   *)
Mode == [type : Types, sorted : BOOLEAN, payload : BOOLEAN, inplace : BOOLEAN,
         eager : BOOLEAN, stale : Nat, buffered : BOOLEAN]

ASSUME ModesAssumption == Modes \subseteq Mode

VARIABLES receivers,  \* receivers[c][p]: argument of rank p in call c
          mode,       \* the other arguments, the same in all calls
          entered,    \* entered[p]: number of calls p has entered
          pc,         \* place of p in the code
          net,        \* messages sent and not received
          recv,       \* recv[p]: <<source, payload>> in order of arrival
          out         \* out[p]: results of the calls p has returned from

callvars == <<receivers, mode, entered, pc, net, recv, out>>

(* All calls of an algorithm use the same tags, so nothing in a message    *)
(* says which call it belongs to; the field `call' stands for the payload  *)
(* it carries, which is the pair of the sender and the call.               *)
Message == [src : Rank, dst : Rank, call : 1 .. Calls]
Item == Rank \X (Rank \X (1 .. Calls))

(* An array element no rank has written in this call.                      *)
Garbage == <<-1, 0>>

(* The arrays senders and out_payload as a call returns them.              *)
Result == [senders : Seq(Rank \cup {-1}),
           payload : Seq((Rank \X (1 .. Calls)) \cup {Garbage})]

Senders(c, p) == {q \in Rank : p \in receivers[c][q]}
Sources(s) == {s[i][1] : i \in 1 .. Len(s)}

CallsInit ==
  /\ receivers \in Patterns
  /\ mode \in Modes
  /\ entered = [p \in Rank |-> 0]
  /\ pc = [p \in Rank |-> "idle"]
  /\ net = {}
  /\ recv = [p \in Rank |-> <<>>]
  /\ out = [p \in Rank |-> <<>>]

(* The application makes its next call.                                    *)
MayEnter(p) ==
  /\ pc[p] = "idle"
  /\ entered[p] < Calls
  /\ mode.type \in Synchronised => \A q \in Rank : Len(out[q]) >= entered[p]

(* MPI does not let messages between the same two ranks overtake each      *)
(* other; between different senders any order of arrival is possible.      *)
Oldest(m, msgs) ==
  \A n \in msgs : n.src = m.src /\ n.dst = m.dst => m.call <= n.call

(* sc_MPI_Waitall on the standard sends of p returns.                      *)
SendsComplete(p) == mode.buffered \/ \A m \in net : m.src # p

(* qsort: any rearrangement of s that is ascending by source.              *)
SortedBySource(s) ==
  {t \in [DOMAIN s -> {s[i] : i \in DOMAIN s}] :
     /\ \A i, j \in DOMAIN s : i < j => t[i][1] <= t[j][1]
     /\ \A x \in {s[i] : i \in DOMAIN s} :
          Cardinality({i \in DOMAIN s : t[i] = x})
             = Cardinality({i \in DOMAIN s : s[i] = x})}

(* A set of pairs <<source, payload>> as output arrays, by source.         *)
Listed(S) ==
  LET t == [i \in 1 .. Cardinality(S) |-> CHOOSE x \in S : Cardinality({y \in S : y[1] < x[1]}) = i - 1]
  IN [senders |-> [i \in DOMAIN t |-> t[i][1]],
      payload |-> IF mode.payload THEN [i \in DOMAIN t |-> t[i][2]] ELSE <<>>]

AllIdle == \A p \in Rank : pc[p] = "idle" /\ entered[p] = Calls

-----------------------------------------------------------------------------

(* The senders a call returns are the ranks that named this rank in the    *)
(* same call, in ascending order if sorted.                                *)
ReturnsSenders ==
  \A p \in Rank : \A c \in 1 .. Len(out[p]) :
     LET s == out[p][c].senders
     IN /\ {s[i] : i \in DOMAIN s} = Senders(c, p)
        /\ Len(s) = Cardinality(Senders(c, p))
        /\ mode.sorted => \A i, j \in DOMAIN s : i < j => s[i] < s[j]

(* Next to each sender stands the payload item it sent in the same call.   *)
ReturnsPayload ==
  mode.payload =>
     \A p \in Rank : \A c \in 1 .. Len(out[p]) :
        out[p][c].payload = [i \in DOMAIN out[p][c].senders |-> <<out[p][c].senders[i], c>>]

(* Every call returns on every rank.                                       *)
AllReturn == <>(\A p \in Rank : Len(out[p]) = Calls)

(* The ranks' steps amount to entering a call of the collective Notify and *)
(* returning from it with one of the results it allows.                    *)
Abstract ==
  INSTANCE Notify WITH sorted <- mode.sorted, payload <- mode.payload,
                       Sortings <- {m.sorted : m \in Modes},
                       Payloads <- {m.payload : m \in Modes}

ImplementsNotify == Abstract!Spec

=============================================================================
