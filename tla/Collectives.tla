----------------------------- MODULE Collectives ------------------------------
(* The collective operations built from messages: sc_allgather                *)
(* (sc_allgather.c), sc_reduce and sc_allreduce (sc_reduce.c), with the tree  *)
(* that sc_search_bias (sc_search.c) places over the ranks.  A rank runs a    *)
(* sequence of steps, which depends on its number only: posting receives and  *)
(* sends, waiting for them, and local work.  Calls follow each other without  *)
(* any synchronization and with the same tags.                                *)
(*                                                                            *)
(* Memory is a function from slots to values: Data for the caller's buffer of *)
(* a reduction, Peer for temporary data, and the entries of an array.  A      *)
(* message is read out of memory when it is received, or already when it is   *)
(* sent if MPI buffers it.                                                    *)
EXTENDS Integers, Sequences, SequencesExt, FiniteSets

CONSTANTS P,
          AlltoallLevel, \* SC_REDUCE_ALLTOALL_LEVEL
          AlltoallMax,   \* SC_ALLGATHER_ALLTOALL_MAX
          Programs,      \* sequences of calls [kind, op, target] considered
          Inputs,        \* rank -> its operand, for the operators of MPI
          Buffered       \* kinds of calls whose messages are buffered

VARIABLES program, todo, memory, recvs, net, result
vars == <<program, todo, memory, recvs, net, result>>

Ranks == 0 .. P - 1
Data == -1
Peer == -2

(* maxlevel = SC_LOG2_32 (mpisize - 1) + 1.                                   *)
maxlevel == CHOOSE l \in 0 .. P : 2 ^ l >= P /\ \A k \in 0 .. l - 1 : 2 ^ k < P

(* sc_search_bias: the rank that represents an interval, nearest to target.   *)
sc_search_bias(level, interval, target) ==
  LET left == interval * 2 ^ (maxlevel - level)
      right == left + 2 ^ (maxlevel - level)
  IN IF target < left THEN left ELSE IF target >= right THEN right - 1
     ELSE left + (target % (2 ^ (maxlevel - level)))

-----------------------------------------------------------------------------
(* The operators: s is folded into r.  A char wraps around.  The value of a   *)
(* custom operator is the tree of its operands, the lower ones first.         *)
sc_reduce_max(s, r) == IF s > r THEN s ELSE r
sc_reduce_min(s, r) == IF s < r THEN s ELSE r
sc_reduce_sum(s, r) == (s + r) % 256
Custom(s, r) == IF s.low < r.low THEN [low |-> s.low, of |-> <<s, r>>] ELSE [low |-> r.low, of |-> <<r, s>>]
sc_reduce_dispatch(op, s, r) ==
  CASE op = "MAX" -> sc_reduce_max(s, r) [] op = "MIN" -> sc_reduce_min(s, r)
    [] op = "SUM" -> sc_reduce_sum(s, r) [] OTHER -> Custom(s, r)
Operand(c, r) == IF c.op = "custom" THEN [low |-> r, of |-> <<>>] ELSE Inputs[r + 1]

-----------------------------------------------------------------------------
(* Steps.                                                                     *)
Post(rs, ss) == [step |-> "post", recvs |-> rs, sends |-> ss]
Recv(q, tag, slots) == [from |-> q, tag |-> tag, slots |-> slots]
Send(q, tag, slots) == [to |-> q, tag |-> tag, slots |-> slots]
WaitRecvs == [step |-> "recvs"]
WaitSends == [step |-> "sends"]
Move(from, to) == [step |-> "move", from |-> from, to |-> to]
Reduce(pairs) == [step |-> "reduce", pairs |-> pairs]
Run(n, m) == [i \in 1 .. m - n |-> n + i - 1]

(* sc_allgather_alltoall: the group of a rank begins at slot base.            *)
sc_allgather_alltoall(r, base, groupsize) ==
  LET others == SelectSeq(Run(base, base + groupsize), LAMBDA j : j # r)
  IN <<Post([j \in DOMAIN others |-> Recv(others[j], "alltoall", <<others[j]>>)],
            [j \in DOMAIN others |-> Send(others[j], "alltoall", <<r>>)]), WaitRecvs, WaitSends>>

RECURSIVE sc_allgather_recursive(_, _, _)
sc_allgather_recursive(r, base, groupsize) ==
  LET g2 == groupsize \div 2
      g2B == groupsize - g2
      myoffset == r - base
      lower == Run(base, base + g2)
      upper == Run(base + g2, base + groupsize)
  IN CASE groupsize <= AlltoallMax -> sc_allgather_alltoall(r, base, groupsize)
       [] groupsize > AlltoallMax /\ myoffset < g2 ->
            sc_allgather_recursive(r, base, g2) \o
            <<Post(<<Recv(r + g2, "B", upper)>>,
                   <<Send(r + g2, "A", lower)>> \o
                   IF myoffset = g2 - 1 /\ g2 # g2B THEN <<Send(r + g2B, "C", lower)>> ELSE <<>>),
              WaitRecvs, WaitSends>>
       [] OTHER ->
            sc_allgather_recursive(r, base + g2, g2B) \o
            <<IF myoffset = groupsize - 1 /\ g2 # g2B THEN Post(<<Recv(r - g2B, "C", lower)>>, <<>>)
              ELSE Post(<<Recv(r - g2, "A", lower)>>, <<Send(r - g2, "B", upper)>>),
              WaitRecvs, WaitSends>>

(* sc_reduce_alltoall.  The result is stored before the sends are complete.   *)
sc_reduce_alltoall(r, target, level) ==
  LET doall == target = -1
      t == IF doall THEN 0 ELSE target
      peer(l, i) == sc_search_bias(l, i, t)
      mine == CHOOSE i \in 0 .. 2 ^ level - 1 : peer(level, i) = r
      others == SelectSeq(Run(0, 2 ^ level), LAMBDA i : peer(level, i) # r /\ peer(level, i) < P)
      pairs(l) == LET is == SelectSeq(Run(0, 2 ^ l), LAMBDA i : peer(l + 1, 2 * i + 1) < P)
                      w == 2 ^ (level - 1 - l)
                  IN [k \in DOMAIN is |-> <<(2 * is[k] + 1) * w, 2 * is[k] * w>>]
  IN IF ~doall /\ target # r THEN <<Post(<<>>, <<Send(target, "reduce", <<Data>>)>>), WaitSends>>
     ELSE <<Move(Data, mine),
            Post([k \in DOMAIN others |-> Recv(peer(level, others[k]), "reduce", <<others[k]>>)],
                 IF doall THEN [k \in DOMAIN others |-> Send(peer(level, others[k]), "reduce", <<Data>>)] ELSE <<>>),
            WaitRecvs,
            Reduce(FlattenSeq([k \in 1 .. level |-> pairs(level - k)])),
            Move(0, Data), WaitSends>>

RECURSIVE sc_reduce_recursive(_, _, _, _)
sc_reduce_recursive(r, target, level, branch) ==
  LET doall == target = -1
      t == IF doall THEN 0 ELSE target
      peer == sc_search_bias(level, IF branch % 2 = 0 THEN branch + 1 ELSE branch - 1, t)
      higher == sc_search_bias(level - 1, branch \div 2, t)
      receive(slot) == <<Post(<<Recv(peer, "reduce", <<slot>>)>>, <<>>), WaitRecvs>>
      send == <<Post(<<>>, <<Send(peer, "reduce", <<Data>>)>>), WaitSends>>
  IN CASE level = 0 -> <<>>
       [] level > 0 /\ level <= AlltoallLevel -> sc_reduce_alltoall(r, target, level)
       [] level > AlltoallLevel /\ r = higher ->
            (IF peer < P THEN receive(Peer) \o <<Reduce(<<<<Peer, Data>>>>)>> ELSE <<>>)
            \o sc_reduce_recursive(r, target, level - 1, branch \div 2)
            \o (IF doall /\ peer < P THEN send ELSE <<>>)
       [] OTHER -> IF peer >= P THEN <<>> ELSE send \o IF doall THEN receive(Data) ELSE <<>>

(* sc_allgather copies the caller's part to its place first, and              *)
(* sc_reduce_custom_dispatch the operand to the result.                       *)
sc_allgather(r) == sc_allgather_recursive(r, 0, P)
sc_reduce_custom_dispatch(r, target) == sc_reduce_recursive(r, target, maxlevel, r)
Plan(c, r) == <<[step |-> "begin", call |-> c]>>
              \o (IF c.kind = "allgather" THEN sc_allgather(r) ELSE sc_reduce_custom_dispatch(r, c.target))
              \o <<[step |-> "end", call |-> c]>>

-----------------------------------------------------------------------------
At(r, step) == todo[r] # <<>> /\ Head(todo[r]).step = step
Go(r) == todo' = [todo EXCEPT ![r] = Tail(@)] /\ UNCHANGED program
call(r) == program[Len(result[r]) + 1]

Begin(r) == /\ At(r, "begin") /\ Go(r)
            /\ memory' = [memory EXCEPT ![r] = IF call(r).kind = "allgather" THEN [i \in {r} |-> r]
                                               ELSE [i \in {Data} |-> Operand(call(r), r)]]
            /\ UNCHANGED <<recvs, net, result>>

(* MPI_Irecv and MPI_Isend; a message that is not buffered has no data yet.   *)
PostStep(r) ==
  /\ At(r, "post") /\ Go(r)
  /\ LET s == Head(todo[r])
         message(m) == [tag |-> m.tag, slots |-> m.slots,
                        data |-> IF call(r).kind \in Buffered THEN [i \in DOMAIN m.slots |-> memory[r][m.slots[i]]]
                                 ELSE <<>>]
         to(q) == SelectSeq(s.sends, LAMBDA m : m.to = q)
     IN /\ recvs' = [recvs EXCEPT ![r] = @ \o s.recvs]
        /\ net' = [c \in Ranks \X Ranks |-> IF c[1] = r THEN net[c] \o [i \in DOMAIN to(c[2]) |-> message(to(c[2])[i])]
                                            ELSE net[c]]
  /\ UNCHANGED <<memory, result>>

(* A message is received by the first receive posted for its source and tag.  *)
First(s, tag) == LET is == {i \in DOMAIN s : s[i].tag = tag} IN CHOOSE i \in is : \A j \in is : i <= j
Transfer(q, r) ==
  \E k \in DOMAIN recvs[r] :
    LET p == recvs[r][k]
        c == <<q, r>>
        m == net[c][First(net[c], p.tag)]
        content == IF m.data # <<>> THEN m.data ELSE [i \in DOMAIN m.slots |-> memory[q][m.slots[i]]]
    IN /\ p.from = q /\ \E i \in DOMAIN net[c] : net[c][i].tag = p.tag
       /\ \A j \in 1 .. k - 1 : recvs[r][j].from # q \/ recvs[r][j].tag # p.tag
       /\ net' = [net EXCEPT ![c] = RemoveAt(@, First(@, p.tag))]
       /\ recvs' = [recvs EXCEPT ![r] = RemoveAt(@, k)]
       /\ memory' = [memory EXCEPT ![r] = [i \in DOMAIN @ \cup ToSet(p.slots) |->
                       IF i \in ToSet(p.slots) THEN content[CHOOSE j \in DOMAIN p.slots : p.slots[j] = i] ELSE @[i]]]
       /\ UNCHANGED <<program, todo, result>>

(* MPI_Waitall on receives and on sends.                                      *)
WaitRecvsStep(r) == At(r, "recvs") /\ recvs[r] = <<>> /\ Go(r) /\ UNCHANGED <<memory, recvs, net, result>>
WaitSendsStep(r) == /\ At(r, "sends") /\ \A q \in Ranks : \A i \in DOMAIN net[<<r, q>>] : net[<<r, q>>][i].data # <<>>
                    /\ Go(r) /\ UNCHANGED <<memory, recvs, net, result>>

MoveStep(r) == /\ At(r, "move") /\ Go(r)
               /\ LET s == Head(todo[r])
                  IN memory' = [memory EXCEPT ![r] = [i \in DOMAIN @ \cup {s.to} |-> IF i = s.to THEN @[s.from] ELSE @[i]]]
               /\ UNCHANGED <<recvs, net, result>>
(* Faulty variant: the levels of the tree are combined from the top.          *)
ReduceTopDown(r) ==
  /\ At(r, "reduce") /\ Go(r)
  /\ memory' = [memory EXCEPT ![r] = FoldLeft(
       LAMBDA m, p : [m EXCEPT ![p[2]] = sc_reduce_dispatch(call(r).op, m[p[1]], m[p[2]])], @, Reverse(Head(todo[r]).pairs))]
  /\ UNCHANGED <<recvs, net, result>>
ReduceStep(r) ==
  /\ At(r, "reduce") /\ Go(r)
  /\ memory' = [memory EXCEPT ![r] = FoldLeft(
       LAMBDA m, p : [m EXCEPT ![p[2]] = sc_reduce_dispatch(call(r).op, m[p[1]], m[p[2]])], @, Head(todo[r]).pairs)]
  /\ UNCHANGED <<recvs, net, result>>

End(r) == /\ At(r, "end") /\ Go(r)
          /\ result' = [result EXCEPT ![r] = Append(@, IF call(r).kind = "allgather" THEN memory[r]
                                                       ELSE memory[r][Data])]
          /\ UNCHANGED <<memory, recvs, net>>

Init == /\ program \in Programs
        /\ todo = [r \in Ranks |-> FlattenSeq([k \in DOMAIN program |-> Plan(program[k], r)])]
        /\ memory = [r \in Ranks |-> <<>>] /\ recvs = [r \in Ranks |-> <<>>]
        /\ net = [c \in Ranks \X Ranks |-> <<>>] /\ result = [r \in Ranks |-> <<>>]
Finished == \A r \in Ranks : todo[r] = <<>>
Done == Finished /\ UNCHANGED vars
Step(r) == Begin(r) \/ PostStep(r) \/ WaitRecvsStep(r) \/ WaitSendsStep(r) \/ MoveStep(r) \/ ReduceStep(r) \/ End(r)
Next == (\E r \in Ranks : Step(r)) \/ (\E q, r \in Ranks : Transfer(q, r)) \/ Done
Spec == Init /\ [][Next]_vars

-----------------------------------------------------------------------------
(* The reduction over the ranks of an interval, bracketed by halves of 2^l    *)
(* ranks: this depends on the size of the communicator only (sc_reduce.h).    *)
Bracketed(c) ==
  LET over[l \in 0 .. maxlevel, i \in 0 .. P] ==
        IF l = 0 THEN Operand(c, i)
        ELSE IF (2 * i + 1) * 2 ^ (l - 1) < P
        THEN sc_reduce_dispatch(c.op, over[l - 1, 2 * i + 1], over[l - 1, 2 * i]) ELSE over[l - 1, 2 * i]
  IN over[maxlevel, 0]

(* A rank that returns has the reduction in the bracketing that depends on    *)
(* the number of ranks only, whatever the target, or the parts of all ranks   *)
(* after an allgather; no call takes a message of the call before or after.   *)
CollectivesAreExact ==
  \A r \in Ranks : \A k \in DOMAIN result[r] :
    LET c == program[k] IN
    CASE c.kind = "allgather" -> result[r][k] = [q \in Ranks |-> q]
      [] c.kind = "allreduce" -> result[r][k] = Bracketed(c)
      [] OTHER -> r = c.target => result[r][k] = Bracketed(c)
=============================================================================
