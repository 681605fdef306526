----------------------------- MODULE NotifyMerge -----------------------------
(***************************************************************************)
(* sc_notify_merge, which the tree algorithms run on every level: it       *)
(* merges two arrays of records "torank, howmanyfroms, listof fromrank",   *)
(* both ascending by torank and within a record by fromrank, into an array *)
(* of the same form.  Records of the first array that were sent to a peer  *)
(* are marked by the torank -1 and are skipped.  One step is one pass of   *)
(* the outer loop, or of the loop over the senders of two records with the *)
(* same torank.                                                            *)
(***************************************************************************)
EXTENDS Integers, FiniteSets, Sequences, SequencesExt

CONSTANTS To, From  \* the ranks that occur as torank and as fromrank

VARIABLES input, second,  \* the arrays to merge
          output,         \* the merged array
          i, ir,          \* records of input and second already dealt with
          j, jr,          \* senders of these records already merged
          pc

vars == <<input, second, output, i, ir, j, jr, pc>>

Ascending(S) == SetToSortSeq(S, LAMBDA x, y : x < y)

(* The array that holds the senders f[t] for each torank t, with those in  *)
(* the set gone marked as sent.                                            *)
Records(f, gone) ==
  LET tos == Ascending({t \in DOMAIN f : f[t] # {}})
  IN [k \in DOMAIN tos |-> [to    |-> IF tos[k] \in gone THEN -1 ELSE tos[k],
                            froms |-> Ascending(f[tos[k]])]]

(* A sender reaches a rank on one way only: lists for the same torank have *)
(* no sender in common.                                                    *)
Init ==
  /\ \E f, g \in [To -> SUBSET From] : \E gone \in SUBSET To :
       /\ \A t \in To \ gone : f[t] \cap g[t] = {}
       /\ input = Records(f, gone)
       /\ second = Records(g, {})
  /\ output = <<>>
  /\ i = 0 /\ ir = 0 /\ j = 0 /\ jr = 0
  /\ pc = "records"

HasInput == i < Len(input)
HasSecond == ir < Len(second)
pint == input[i + 1]
psec == second[ir + 1]

(* Faulty variant: a marked record is taken for one of the second array.   *)
SkipBoth ==
  /\ pc = "records"
  /\ HasInput /\ pint.to = -1
  /\ i' = i + 1
  /\ ir' = IF HasSecond THEN ir + 1 ELSE ir
  /\ UNCHANGED <<input, second, output, j, jr, pc>>

(* "ignore data that was sent to the peer earlier"                         *)
Skip ==
  /\ pc = "records"
  /\ HasInput /\ pint.to = -1
  /\ i' = i + 1
  /\ UNCHANGED <<input, second, output, ir, j, jr, pc>>

CopyInput ==
  /\ pc = "records"
  /\ HasInput /\ pint.to # -1
  /\ HasSecond => pint.to < psec.to
  /\ output' = Append(output, pint)
  /\ i' = i + 1
  /\ UNCHANGED <<input, second, ir, j, jr, pc>>

CopySecond ==
  /\ pc = "records"
  /\ HasInput => pint.to # -1
  /\ HasSecond
  /\ HasInput => psec.to < pint.to
  /\ output' = Append(output, psec)
  /\ ir' = ir + 1
  /\ UNCHANGED <<input, second, i, j, jr, pc>>

(* "both arrays have data for the same processor"                          *)
Both ==
  /\ pc = "records"
  /\ HasInput /\ HasSecond
  /\ pint.to = psec.to
  /\ output' = Append(output, [to |-> pint.to, froms |-> <<>>])
  /\ j' = 0 /\ jr' = 0
  /\ pc' = "froms"
  /\ UNCHANGED <<input, second, i, ir>>

MoreInput == j < Len(pint.froms)
MoreSecond == jr < Len(psec.froms)

AppendFrom(x) == output' = [output EXCEPT ![Len(output)].froms = Append(@, x)]

TakeInput ==
  /\ pc = "froms"
  /\ MoreInput
  /\ MoreSecond => pint.froms[j + 1] < psec.froms[jr + 1]
  /\ AppendFrom(pint.froms[j + 1])
  /\ j' = j + 1
  /\ UNCHANGED <<input, second, i, ir, jr, pc>>

TakeSecond ==
  /\ pc = "froms"
  /\ MoreSecond
  /\ MoreInput => pint.froms[j + 1] >= psec.froms[jr + 1]
  /\ AppendFrom(psec.froms[jr + 1])
  /\ jr' = jr + 1
  /\ UNCHANGED <<input, second, i, ir, j, pc>>

BothDone ==
  /\ pc = "froms"
  /\ ~MoreInput /\ ~MoreSecond
  /\ i' = i + 1
  /\ ir' = ir + 1
  /\ pc' = "records"
  /\ UNCHANGED <<input, second, output, j, jr>>

(* "all data is processed and we are done"                                 *)
Done ==
  /\ pc = "records"
  /\ ~HasInput /\ ~HasSecond
  /\ UNCHANGED vars

Next ==
  \/ Skip \/ CopyInput \/ CopySecond \/ Both
  \/ TakeInput \/ TakeSecond \/ BothDone
  \/ Done

Spec == Init /\ [][Next]_vars

-----------------------------------------------------------------------------

Notifications(a) ==
  UNION {{<<a[k].to, a[k].froms[l]>> : l \in DOMAIN a[k].froms} : k \in DOMAIN a}

Valid == {x \in Notifications(input) : x[1] # -1} \cup Notifications(second)

(* Once both arrays are processed, the merged array is the one array of    *)
(* the required form that contains every notification of the two, except   *)
(* those sent to a peer: ascending, one record for each torank.            *)
MergeIsUnion ==
  pc = "records" /\ ~HasInput /\ ~HasSecond =>
    output = Records([t \in To |-> {x[2] : x \in {y \in Valid : y[1] = t}}], {})

=============================================================================
