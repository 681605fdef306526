---------------------------- MODULE NaryDescent ----------------------------
(***************************************************************************)
(* The descent of sc_notify_recursive_nary through the tree of NaryTree,   *)
(* for every rank of every communicator size up to N and all tree widths   *)
(* up to W.  The properties are what the exchange of messages on a level   *)
(* relies on: each rank works out for itself how many messages it gets and *)
(* where to put them, from nothing but its rank and the group size.        *)
(***************************************************************************)
EXTENDS NaryTree

CONSTANTS N,  \* greatest communicator size
          W   \* greatest width of a node

VARIABLES n, w,          \* communicator size and tree widths
          me,            \* a rank
          level,         \* the level the rank is on
          start, length  \* the range of ranks of its group

vars == <<n, w, me, level, start, length>>

Widths == [top : 2 .. W, int : 2 .. W, bot : 2 .. W]

Init ==
  /\ n \in 2 .. N
  /\ w \in Widths
  /\ me \in 0 .. n - 1
  /\ level = 0
  /\ start = 0
  /\ length = Prod(n, w)

(* The recursive call on the child branch.                                 *)
Descend ==
  /\ length > 1
  /\ LET lengthn == length \div Divn(n, w, level)
         mypart  == (me - start) \div lengthn
     IN /\ start' = start + mypart * lengthn
        /\ length' = lengthn
  /\ level' = level + 1
  /\ UNCHANGED <<n, w, me>>

(* "end of recursion with nothing to do"                                   *)
Bottom ==
  /\ length = 1
  /\ UNCHANGED vars

Next == Descend \/ Bottom

Spec == Init /\ [][Next]_vars

-----------------------------------------------------------------------------

(* The recursion stays in its group and ends exactly at the bottom of the  *)
(* tree with a group of one rank: the assertions at the head of            *)
(* sc_notify_recursive_nary, and `level == depth' at its end.              *)
DescentReachesLeaf ==
  /\ level \in 0 .. Depth(n, w)
  /\ start >= 0 /\ start <= me /\ me < start + length
  /\ start % length = 0
  /\ length = 1 <=> level = Depth(n, w)
  /\ length > 1 => length % Divn(n, w, level) = 0

(* The ranks that send to me on this level, as seen from the senders.      *)
Sources ==
  {q \in (0 .. n - 1) \ {me} :
     \E j \in Branches(n, w, level, q) : Peer(n, w, level, q, j) = me}

(* The number of messages a rank expects on a level is the number the      *)
(* others send to it there, also if its own group or the next is short;    *)
(* with fewer the data would be lost, with more the call would hang.       *)
ExpectsWhatIsSent ==
  length > 1 => Nrecv(n, w, level, me) = Cardinality(Sources)

(* The messages of a level go to different receive buffers, which together *)
(* with the rank's own fill the array recvbufs, so that the merge that     *)
(* follows never reads an uninitialised buffer.                            *)
SlotsAreDistinct ==
  length > 1 =>
    {Slot(n, w, level, me, q) : q \in Sources} \cup {MyPart(n, w, level, me)}
      = 0 .. Cardinality(Sources)

(* The branch chosen for a notification exists and leads towards its       *)
(* target: the rank it is handed to is at the target's position among the  *)
(* leaves below the next level.                                            *)
LeadsToTarget ==
  length > 1 =>
    \A torank \in 0 .. n - 1 :
      torank % Length(n, w, level + 1) = me % Length(n, w, level + 1) =>
        LET peer == Peer(n, w, level, me, ToPart(n, w, level, torank))
        IN /\ peer \in 0 .. n - 1
           /\ peer % length = torank % length

=============================================================================
