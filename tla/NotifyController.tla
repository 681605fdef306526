-------------------------- MODULE NotifyController --------------------------
(***************************************************************************)
(* The notification controller sc_notify_t and sc_notify_payload, which    *)
(* hands a call to the algorithm of the controller's type.  The algorithms *)
(* are the modules instantiated below; a rank's steps are those of the     *)
(* algorithm its mode selects, and the variables of the others rest.       *)
(***************************************************************************)
EXTENDS NotifyCalls

CONSTANTS Widths,      \* sc_notify_nary_set_widths
          max_ranges,  \* sc_notify_ranges_set_num_ranges
          Extras       \* what the callback of sc_notify_superset_set_callback adds

ASSUME ExtrasAssumption == Extras \subseteq [1 .. Calls -> [Rank -> SUBSET Rank]]

VARIABLES tosend, ibarrier,                        \* see NotifyNbx
          num_senders,                             \* see NotifyCensus
          array, level, recvbufs, nreceived,       \* see NotifyNary
          length, source,                          \* see NotifyBinary
          list, senders, got,                      \* see NotifyPayload
          reduced, gathered, my_ranges, awaited,   \* see NotifyRanges
          extra, queue                             \* see NotifySuperset

Nbx == INSTANCE NotifyNbx
Census == INSTANCE NotifyCensus
Nary == INSTANCE NotifyNary
Binary == INSTANCE NotifyBinary
Payload == INSTANCE NotifyPayload
Ranged == INSTANCE NotifyRanges
Superset == INSTANCE NotifySuperset

narys == <<level, recvbufs, nreceived>>
binarys == <<length, source>>
payloads == <<list, senders, got>>
rangeds == <<reduced, gathered, my_ranges, awaited>>
supersets == <<extra, queue>>

vars == <<callvars, tosend, ibarrier, num_senders, array, narys, binarys,
          payloads, rangeds, supersets>>

(* sc_notify_payload hands the payload to the algorithm only if it is not  *)
(* larger than the eager threshold, and else exchanges it afterwards.      *)
Apart == mode.payload /\ ~mode.eager

(* Whether the whole call is the step of the algorithm for this type.      *)
Selected(types) == mode.type \in types /\ ~Apart

-----------------------------------------------------------------------------

Init ==
  /\ Nbx!Init /\ Census!Init /\ Nary!Init /\ Binary!Init
  /\ Payload!Init /\ Ranged!Init /\ Superset!Init

NbxStep(p) ==
  /\ Selected({"nbx"})
  /\ Nbx!Step(p)
  /\ UNCHANGED <<num_senders, array, narys, binarys, payloads, rangeds, supersets>>

CensusStep(p) ==
  /\ Selected({"pcx", "rsx"})
  /\ Census!Step(p)
  /\ UNCHANGED <<ibarrier, array, narys, binarys, payloads, rangeds, supersets>>

NaryStep(p) ==
  /\ Selected({"nary"})
  /\ Nary!Step(p)
  /\ UNCHANGED <<tosend, ibarrier, num_senders, binarys, payloads, rangeds, supersets>>

(* The binary recursion cannot carry a payload of any size.                *)
BinaryStep(p) ==
  /\ mode.type = "binary" /\ ~mode.payload
  /\ Binary!Step(p)
  /\ UNCHANGED <<tosend, ibarrier, num_senders, narys, payloads, rangeds, supersets>>

PayloadStep(p) ==
  /\ Apart \/ mode.type \in {"allgather", "pex"} \/ (mode.type = "binary" /\ mode.payload)
  /\ Payload!Step(p)
  /\ UNCHANGED <<tosend, ibarrier, num_senders, array, narys, binarys, rangeds, supersets>>

RangedStep(p) ==
  /\ Selected({"ranges"})
  /\ Ranged!Step(p)
  /\ UNCHANGED <<tosend, ibarrier, num_senders, array, narys, binarys, payloads, supersets>>

SupersetStep(p) ==
  /\ Selected({"superset"})
  /\ Superset!Step(p)
  /\ UNCHANGED <<tosend, ibarrier, num_senders, array, narys, binarys, payloads, rangeds>>

sc_notify_payload(p) ==
  \/ NbxStep(p) \/ CensusStep(p) \/ NaryStep(p) \/ BinaryStep(p)
  \/ PayloadStep(p) \/ RangedStep(p) \/ SupersetStep(p)

(* All calls have returned everywhere.                                     *)
Terminated == AllIdle /\ UNCHANGED vars

Next == (\E p \in Rank : sc_notify_payload(p)) \/ Terminated

Spec == Init /\ [][Next]_vars

(* Every rank keeps executing its code, messages are delivered, and what   *)
(* can complete is reported to a loop that keeps asking.                   *)
Fairness == \A p \in Rank : WF_vars(sc_notify_payload(p)) /\ Nbx!Progress(p)

FairSpec == Spec /\ Fairness

-----------------------------------------------------------------------------
(***************************************************************************)
(* Properties.  ReturnsSenders, ReturnsPayload, ImplementsNotify and       *)
(* AllReturn are in NotifyCalls.                                           *)
(***************************************************************************)

(* The types of the variables of all algorithms of a controller.           *)
TypeOK ==
  /\ Selected({"nbx"}) => Nbx!TypeOK
  /\ Selected({"pcx", "rsx"}) => Census!TypeOK

(* How a rank knows that it has received every message of a call, and      *)
(* nothing else: the MPI_Ibarrier of SC_NOTIFY_NBX is complete, there were *)
(* as many messages as the census of SC_NOTIFY_PCX and RSX counted, or as  *)
(* many as the superset of SC_NOTIFY_SUPERSET has members.                 *)
ReceivedIsComplete ==
  /\ Selected({"nbx"}) => Nbx!BarrierMeansReceived
  /\ Selected({"pcx", "rsx"}) => Census!CountMeansReceived
  /\ Selected({"superset"}) => Superset!QueueMeansReceived

(* SC_NOTIFY_PCX and RSX: a receive from any source in call c can match    *)
(* only messages of call c, without a barrier between calls.               *)
CallsKeptApart == Selected({"pcx", "rsx"}) => Census!CallsKeptApart

(* SC_NOTIFY_NARY and SC_NOTIFY_BINARY: the recursion invariant, and no    *)
(* notification is lost or duplicated on its way through the tree.         *)
RecursionInvariant ==
  /\ Selected({"nary"}) => Nary!RecursionInvariant
  /\ mode.type = "binary" /\ ~mode.payload => Binary!RecursionInvariant

(* SC_NOTIFY_BINARY: the receive from any source gets one of the two       *)
(* messages it is meant for, without a barrier between calls.              *)
AnySourceIsSafe == mode.type = "binary" /\ ~mode.payload => Binary!AnySourceIsSafe

(* Payload that is exchanged by the wrapper or because of the threshold:   *)
(* a rank that returns leaves none of its messages behind.  With           *)
(* SC_NOTIFY_RANGES the receives a rank posts are those it is sent.        *)
NothingLeftOver ==
  /\ Apart \/ mode.type \in {"allgather", "pex", "binary"} => Payload!NothingLeftOver
  /\ Selected({"ranges"}) => Ranged!PostsAgree

=============================================================================
