------------------------------ MODULE NaryTree ------------------------------
(***************************************************************************)
(* The communication tree of sc_notify_recursive_nary.  The ranks 0..n-1   *)
(* are the leaves of a tree that is w.bot wide at the bottom, w.top at the *)
(* top and w.int in between, as deep as needed to hold n leaves.  A rank   *)
(* works its way up: on every level it exchanges messages with the ranks   *)
(* at its own position in the other branches of the same group.  When n is *)
(* not a product of the widths, ranks without such a peer fall back to the *)
(* group before their own.                                                 *)
(***************************************************************************)
EXTENDS Integers, FiniteSets

Depth(n, w) ==
  IF n = 1 THEN 0
  ELSE IF n <= w.bot THEN 1
  ELSE CHOOSE d \in 2 .. n + 1 :
         /\ w.top * w.int^(d-2) * w.bot >= n
         /\ d > 2 => w.top * w.int^(d-3) * w.bot < n

(* The number of leaves of the complete tree.                              *)
Prod(n, w) ==
  IF n <= w.bot THEN w.bot ELSE w.top * w.int^(Depth(n, w) - 2) * w.bot

Divn(n, w, level) ==
  IF level = Depth(n, w) - 1 THEN w.bot ELSE IF level = 0 THEN w.top ELSE w.int

(* The number of leaves below a node of each level.                        *)
Length(n, w, level) ==
  LET length[l \in 0 .. level] ==
        IF l = 0 THEN Prod(n, w) ELSE length[l-1] \div Divn(n, w, l-1)
  IN length[level]

Start(n, w, level, me) == me - (me % Length(n, w, level))

(* The branch of its group that contains me.                               *)
MyPart(n, w, level, me) == (me % Length(n, w, level)) \div Length(n, w, level + 1)

(* The rank that stands for branch j, negative if there is none.           *)
Peer(n, w, level, me, j) ==
  LET peer == me + (j - MyPart(n, w, level, me)) * Length(n, w, level + 1)
  IN IF peer >= n THEN peer - Length(n, w, level) ELSE peer

Branches(n, w, level, me) == (0 .. Divn(n, w, level) - 1) \ {MyPart(n, w, level, me)}

(* Faulty variant: the surplus messages of a short next group are ignored. *)
NrecvNoSurplus(n, w, level, me) ==
  LET divn   == Divn(n, w, level)
      hipart == MyPart(n, w, level, me) + (n - 1 - me) \div Length(n, w, level + 1)
  IN IF hipart < divn THEN hipart ELSE divn - 1

(* The number of messages to receive, from local knowledge only.           *)
Nrecv(n, w, level, me) ==
  LET divn   == Divn(n, w, level)
      mypart == MyPart(n, w, level, me)
      hipart == mypart + (n - 1 - me) \div Length(n, w, level + 1)
  IN IF hipart < divn THEN hipart
     ELSE IF hipart < divn + mypart THEN divn - 1 + (hipart - divn + 1)
     ELSE divn - 1

(* The receive buffer for a message from source.                           *)
Slot(n, w, level, me, source) ==
  LET length  == Length(n, w, level)
      lengthn == Length(n, w, level + 1)
      mypart  == MyPart(n, w, level, me)
  IN IF source < me THEN mypart - (me - source) \div lengthn
     ELSE IF source < Start(n, w, level, me) + length
          THEN mypart + (source - me) \div lengthn
     ELSE Divn(n, w, level) + (source % length) \div lengthn

(* Faulty variant: the position is not taken relative to the group.        *)
ToPartGlobal(n, w, level, torank) == torank \div Length(n, w, level + 1)

(* The branch through which a notification for torank leaves.              *)
ToPart(n, w, level, torank) == (torank % Length(n, w, level)) \div Length(n, w, level + 1)

=============================================================================
