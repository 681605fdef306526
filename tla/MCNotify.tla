------------------------------ MODULE MCNotify ------------------------------
(***************************************************************************)
(* Instances of NotifyController for model checking.                       *)
(***************************************************************************)
EXTENDS NotifyController

(* A ring, everybody informs rank 0, the last rank informs everybody,      *)
(* everybody informs the ranks above, everybody informs everybody.         *)
Ring == [p \in Rank |-> {(p + 1) % P}]
Gather == [p \in Rank |-> {0}]
Scatter == [p \in Rank |-> IF p = P-1 THEN Rank ELSE {}]
Skew == [p \in Rank |-> {q \in Rank : q > p}]
Full == [p \in Rank |-> Rank]
None == [p \in Rank |-> {}]

AllPatterns == [1 .. Calls -> [Rank -> SUBSET Rank]]
MixedPatterns == [1 .. Calls -> {Ring, Gather, Skew}]
WidePatterns == [1 .. Calls -> {Ring, Gather, Scatter, Full}]
FairPatterns == {<<Gather, Skew>>, <<Skew, Ring>>, <<Ring, Gather>>}
SomeExtras == {[c \in 1 .. Calls |-> x] : x \in {None, Ring, Full}}

(* The default widths sc_notify_nary_{ntop,nint,nbot}_default.             *)
DefaultWidths == [top |-> 2, int |-> 2, bot |-> 2]

(* The combinations of arguments for which the results are as documented:  *)
(* payload that is not sorted goes to an empty array of its own.           *)
Good(m) ==
  /\ m.stale > 0 => m.sorted /\ ~m.inplace
  /\ m.payload /\ m.inplace => m.sorted

Small == {m \in [type : Types, sorted : BOOLEAN, payload : BOOLEAN, inplace : BOOLEAN,
                 eager : BOOLEAN, stale : {0}, buffered : BOOLEAN] : Good(m)}

(* One representative per path through the code.                           *)
CallModes ==
  {m \in Small : /\ m.buffered
                 /\ m.payload => m.inplace = m.sorted
                 /\ ~m.payload => m.eager /\ ~m.inplace
                 /\ m.type = "rsx" => m.sorted}

FairModes ==
  {m \in Small : ~m.buffered /\ m.sorted /\ m.inplace = m.payload /\ (~m.payload => m.eager)}

WideModes ==
  {m \in Small : /\ ~m.buffered /\ m.sorted /\ ~m.inplace /\ m.eager
                 /\ <<m.type, m.payload>> \in {<<"nary", TRUE>>, <<"binary", FALSE>>}}

NbxModes == {m \in Small : m.type = "nbx" /\ m.sorted /\ m.payload /\ m.eager /\ m.buffered /\ ~m.inplace}
InplaceModes == {[type |-> "nbx", sorted |-> FALSE, payload |-> TRUE, inplace |-> TRUE,
                  eager |-> TRUE, stale |-> 0, buffered |-> TRUE]}

(* The types that do not keep consecutive calls apart by themselves.       *)
Unseparated == {"nbx", "nary", "superset"}
Nothing == {}

=============================================================================
