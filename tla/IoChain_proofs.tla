--------------------------- MODULE IoChain_proofs ---------------------------
(* Proofs about IoChain, for any number of ranks and calls: no two ranks have *)
(* the file open at the same time, what the ranks write lies in the file in   *)
(* their order, and an error reaches all ranks behind the one that meets it.  *)
EXTENDS IoChain, TLAPS

(* The proofs count: how many messages a rank has received from its           *)
(* predecessor, in how many calls it has passed one on, and how many barriers *)
(* it has left.                                                               *)
Busy == {"recv", "fopen", "access"}
received == [r \in Rank |-> IF pc[r] = "recv" THEN calls[r] - 1 ELSE calls[r]]
passed == [r \in Rank |-> IF pc[r] \in Busy THEN calls[r] - 1 ELSE calls[r]]
left == [r \in Rank |-> IF pc[r] \in Busy \cup {"barrier", "waiting"} THEN calls[r] - 1 ELSE calls[r]]

Places == {"closed", "idle", "recv", "fopen", "access", "barrier", "waiting", "bcast"}
ChainTypes == /\ file \in [Rank -> {"NULL", "rb", "wb", "ab"}]
              /\ calls \in [Rank -> 0 .. MaxCalls] /\ pc \in [Rank -> Places]
              /\ chain \in [Rank -> Seq(Errors \cup {-1})]
              /\ arrived \in [1 .. MaxCalls -> SUBSET Rank]

(* A rank that is inside of a call has entered one, and rank 0 never waits    *)
(* for a message.  What was passed on is received or on its way.  No rank     *)
(* passes on before its predecessors or leaves a barrier before all others    *)
(* reached it.                                                                *)
ChainCounts == /\ \A r \in Rank \ {0} : Len(chain[r]) + received[r] = passed[r - 1]
               /\ \A r, s \in Rank : r < s => passed[s] <= passed[r]
               /\ \A c \in 1 .. MaxCalls : \A s \in arrived[c] : c <= passed[s]
               /\ \A r, s \in Rank : left[r] <= passed[s]
ChainPlaces == /\ pc[0] \notin {"recv", "fopen"}
               /\ \A r \in Rank : pc[r] \notin {"closed", "idle"} => calls[r] >= 1
               /\ \A r \in Rank : file[r] # "NULL" =>
                    pc[r] = "access" \/ (r = 0 /\ pc[0] \in {"idle", "bcast"})
ChainInv == ChainTypes /\ ChainCounts /\ ChainPlaces

(* Of the failures F of a call: one was met by a rank before r, and rank r    *)
(* met errno e.                                                               *)
Before(F, r) == \E i \in 1 .. Len(F) : F[i][2] < r
Reported(F, e, r) == \E i \in 1 .. Len(F) : F[i] = <<e, r>>

DataTypes == /\ disk \in Seq(Int \X Int) /\ kinds \in Seq({"read", "write"}) /\ Len(kinds) <= MaxCalls
             /\ active \in [Rank -> Errors \cup {-1, 0}] /\ errval \in [Rank -> Errors \cup {0}]
             /\ bcast \in [1 .. MaxCalls -> Errors \cup {-1, 0}]
             /\ failed \in [1 .. MaxCalls -> Seq(Errors \X Rank)]

(* What a rank wrote in a call it wrote before passing on.                    *)
DiskInv == /\ \A i \in 1 .. Len(disk) :
                disk[i][1] > 0 => disk[i][2] \in Rank /\ disk[i][1] <= passed[disk[i][2]]
           /\ ChainIsOrdered

(* A rank in the file is the first to access it in its call.  The message to  *)
(* a rank tells whether a rank before it met an error, and so does what the   *)
(* rank keeps of it; the errno itself stays with the rank that met it.        *)
FailInv ==
  /\ \A c \in 1 .. MaxCalls : /\ Len(failed[c]) <= 1
                              /\ \A i \in 1 .. Len(failed[c]) : c <= passed[failed[c][i][2]]
  /\ \A r \in Rank : /\ pc[r] \in Busy => errval[r] = 0
                     /\ pc[r] \in {"fopen", "access"} => active[r] = -1 /\ failed[calls[r]] = <<>>
  /\ \A r \in Rank \ {0} : \A i \in 1 .. Len(chain[r]) :
       chain[r][i] # -1 <=> Before(failed[received[r] + i], r)
  /\ \A r \in Rank : pc[r] \in {"barrier", "waiting"} =>
       (active[r] > 0 \/ errval[r] > 0 <=> Before(failed[calls[r]], r + 1))
  /\ \A r \in Rank : pc[r] \in {"barrier", "waiting", "bcast"} /\ errval[r] > 0 =>
       Reported(failed[calls[r]], errval[r], r)
  /\ pc[0] = "bcast" => errval[0] = 0
  /\ \A c \in 1 .. MaxCalls : bcast[c] > 0 => P > 1 /\ Reported(failed[c], bcast[c], P - 1)

DataInv == ChainInv /\ DataTypes /\ DiskInv /\ FailInv

(* Nothing is open and nothing was sent before the first sc_io_open.          *)
LEMMA ChainInvInit == Init => ChainInv
<1> SUFFICES ASSUME Init PROVE ChainInv
  OBVIOUS
<1> USE IoAssumption DEF Rank
<1>1. ChainTypes
  BY DEF Init, ChainTypes, Places
<1>2. \A r \in Rank : received[r] = 0 /\ passed[r] = 0 /\ left[r] = 0 /\ Len(chain[r]) = 0
  BY Zenon DEF Init, received, passed, left, Busy
<1>3. ChainCounts
  BY <1>2 DEF Init, ChainCounts
<1>4. ChainPlaces
  BY DEF Init, ChainPlaces
<1> QED
  BY <1>1, <1>3, <1>4, Zenon DEF ChainInv

(* Opening and closing, and rank 0's own accesses, are no part of a           *)
(* collective call: all counts stay as they are.                              *)
LEMMA ChainInvApart ==
  ASSUME ChainInv,
         \/ \E m \in AccessModes : sc_io_open(m)
         \/ sc_io_close
         \/ \E o \in 0 .. Len(disk), n \in 0 .. MaxCount : sc_io_write_at(o, n) \/ sc_io_read_at(o, n)
         \/ UNCHANGED vars
  PROVE  ChainInv'
<1> USE IoAssumption DEF Rank
<1>1. CASE \E m \in AccessModes : sc_io_open(m)
  <2>1. PICK m \in AccessModes : sc_io_open(m)
    BY <1>1, Zenon
  <2>2. /\ UNCHANGED <<calls, chain, arrived>>
        /\ \/ UNCHANGED <<file, pc>>
           \/ /\ pc' = [r \in Rank |-> "idle"]
              /\ file' = [file EXCEPT ![0] = sc_io_parse_access_mode(m)]
              /\ sc_io_parse_access_mode(m) \in {"rb", "wb", "ab"}
    <3>1. sc_io_parse_access_mode(m) # "" => sc_io_parse_access_mode(m) \in {"rb", "wb"}
      BY Zenon DEF AccessModes, sc_io_parse_access_mode
    <3> QED
      BY <2>1, <3>1, Zenon DEF sc_io_open
  <2>3. pc = [r \in Rank |-> "closed"]
    BY <2>1, Zenon DEF sc_io_open
  <2>4. UNCHANGED <<received, passed, left>>
    BY <2>2, <2>3, Zenon DEF received, passed, left, Busy
  <2>5. ChainTypes'
    BY <2>2, <2>3 DEF ChainInv, ChainTypes, Places
  <2>6. \A r \in Rank : file[r] = "NULL"
    BY <2>3, Zenon DEF ChainInv, ChainPlaces
  <2>7. \A r \in Rank : file'[r] # "NULL" => r = 0 /\ pc'[0] = "idle"
    BY <2>2, <2>6, Zenon DEF ChainInv, ChainTypes
  <2>8. \A r \in Rank : pc'[r] \in {"closed", "idle"}
    BY <2>2, <2>3, Zenon
  <2>9. ChainCounts'
    BY <2>2, <2>4, Zenon DEF ChainInv, ChainCounts
  <2>10. ChainPlaces'
    BY <2>7, <2>8 DEF ChainPlaces
  <2> QED
    BY <2>5, <2>9, <2>10, Zenon DEF ChainInv
<1>2. CASE sc_io_close
  <2>1. /\ UNCHANGED <<calls, chain, arrived>> /\ pc = [r \in Rank |-> "idle"]
        /\ pc' = [r \in Rank |-> "closed"] /\ file' = [r \in Rank |-> "NULL"]
    BY <1>2, Zenon DEF sc_io_close, Together
  <2>2. UNCHANGED <<received, passed, left>>
    BY <2>1, Zenon DEF received, passed, left, Busy
  <2>3. ChainTypes'
    BY <2>1, Zenon DEF ChainInv, ChainTypes, Places
  <2>4. ChainCounts'
    BY <2>1, <2>2, Zenon DEF ChainInv, ChainCounts
  <2>5. ChainPlaces'
    BY <2>1 DEF ChainPlaces
  <2> QED
    BY <2>3, <2>4, <2>5, Zenon DEF ChainInv
<1>3. CASE UNCHANGED <<file, calls, pc, chain, arrived>>
  BY <1>3, Zenon DEF ChainInv, ChainTypes, ChainCounts, ChainPlaces, received, passed, left, Busy
<1>4. ASSUME NEW o \in 0 .. Len(disk), NEW n \in 0 .. MaxCount,
             sc_io_write_at(o, n) \/ sc_io_read_at(o, n)
      PROVE  UNCHANGED <<file, calls, pc, chain, arrived>>
  BY <1>4, Zenon DEF sc_io_write_at, sc_io_read_at
<1>5. UNCHANGED vars => UNCHANGED <<file, calls, pc, chain, arrived>>
  BY Zenon DEF vars
<1> QED
  BY <1>1, <1>2, <1>3, <1>4, <1>5, Zenon

(* A rank that enters a call has not received anything for it yet.            *)
LEMMA ChainInvEnter ==
  ASSUME ChainInv, NEW r \in Rank, NEW k, Enter(r, k)
  PROVE  ChainInv'
<1> USE IoAssumption
<1>1. /\ UNCHANGED <<file, chain, arrived>> /\ pc[r] = "idle" /\ calls[r] < MaxCalls
      /\ calls' = [calls EXCEPT ![r] = @ + 1]
      /\ pc' = [pc EXCEPT ![r] = IF r = 0 THEN "access" ELSE "recv"]
  BY Zenon DEF Enter
<1>2. ChainTypes'
  BY <1>1 DEF ChainInv, ChainTypes, Places
<1>3. \A s \in Rank : /\ passed'[s] = passed[s] /\ left'[s] = left[s]
                      /\ s # 0 => received'[s] = received[s]
  BY <1>1 DEF ChainInv, ChainTypes, received, passed, left, Busy
<1>4. ChainCounts'
  <2>1. ASSUME NEW s \in Rank \ {0} PROVE Len(chain'[s]) + received'[s] = passed'[s - 1]
    <3>1. s \in Rank /\ s - 1 \in Rank
      BY DEF Rank
    <3>2. Len(chain[s]) + received[s] = passed[s - 1]
      BY Zenon DEF ChainInv, ChainCounts
    <3>3. chain'[s] = chain[s] /\ received'[s] = received[s] /\ passed'[s - 1] = passed[s - 1]
      BY <1>1, <1>3, <3>1, Zenon
    <3> QED
      BY <3>2, <3>3, Zenon
  <2>2. ASSUME NEW c \in 1 .. MaxCalls, NEW s \in arrived'[c] PROVE c <= passed'[s]
    <3>1. s \in Rank /\ c <= passed[s]
      BY <1>1, <2>2, Zenon DEF ChainInv, ChainTypes, ChainCounts
    <3> QED
      BY <1>3, <3>1, Zenon
  <2>3. \A q, s \in Rank : (q < s => passed'[s] <= passed'[q]) /\ left'[q] <= passed'[s]
    BY <1>3, Zenon DEF ChainInv, ChainCounts
  <2> QED
    BY <2>1, <2>2, <2>3, Zenon DEF ChainCounts
<1>5. ChainPlaces'
  BY <1>1 DEF ChainInv, ChainTypes, ChainPlaces
<1> QED
  BY <1>2, <1>4, <1>5, Zenon DEF ChainInv

(* What it means to pass on the token or an errno: the rank has its message,  *)
(* the next rank gets one, and the file is closed or stays as it is.          *)
LEMMA ChainInvPassOn ==
  ASSUME ChainInv, NEW r \in Rank, pc[r] \in Busy, ChainTypes',
         UNCHANGED <<calls, arrived>>, pc' = [pc EXCEPT ![r] = "barrier"],
         file'[r] = "NULL", \A s \in Rank \ {r} : file'[s] = file[s],
         pc[r] = "recv" => Len(chain[r]) = Len(chain'[r]) + 1,
         pc[r] # "recv" => Len(chain[r]) = Len(chain'[r]),
         \A s \in Rank \ {r} : IF s = r + 1 THEN Len(chain'[s]) = Len(chain[s]) + 1
                                              ELSE Len(chain'[s]) = Len(chain[s])
  PROVE  ChainInv'
<1> USE IoAssumption
<1>1. /\ calls \in [Rank -> Int] /\ pc \in [Rank -> Places]
      /\ \A s \in Rank : Len(chain[s]) \in Nat /\ Len(chain'[s]) \in Nat
  BY DEF ChainInv, ChainTypes
<1>2. \A s \in Rank : /\ passed'[s] = passed[s] + (IF s = r THEN 1 ELSE 0)
                      /\ received'[s] = received[s] + (IF s = r /\ pc[r] = "recv" THEN 1 ELSE 0)
                      /\ left'[s] = left[s]
                      /\ passed[s] \in Int /\ received[s] \in Int /\ left[s] \in Int
  BY <1>1 DEF received, passed, left, Busy, Places
<1>3. \A s \in Rank \ {0} : Len(chain'[s]) + received'[s] = passed'[s - 1]
  <2> SUFFICES ASSUME NEW s \in Rank \ {0} PROVE Len(chain'[s]) + received'[s] = passed'[s - 1]
    OBVIOUS
  <2>1. s \in Rank /\ s - 1 \in Rank /\ s \in Int /\ r \in Int
    BY DEF Rank
  <2>2. Len(chain[s]) + received[s] = passed[s - 1]
    BY Zenon DEF ChainInv, ChainCounts
  <2>3. passed'[s - 1] = passed[s - 1] + (IF s - 1 = r THEN 1 ELSE 0)
    BY <1>2, <2>1, Zenon
  <2>4. Len(chain'[s]) + received'[s] = Len(chain[s]) + received[s] + (IF s = r + 1 THEN 1 ELSE 0)
    <3>1. CASE s = r
      <4>1. received'[r] = received[r] + (IF pc[r] = "recv" THEN 1 ELSE 0) /\ received[r] \in Int
        BY <1>2, Zenon
      <4>2. Len(chain[r]) \in Nat /\ Len(chain'[r]) \in Nat
        BY <1>1, Zenon
      <4>3. CASE pc[r] = "recv"
        BY <2>1, <3>1, <4>1, <4>2, <4>3
      <4>4. CASE pc[r] # "recv"
        BY <2>1, <3>1, <4>1, <4>2, <4>4
      <4> QED
        BY <4>3, <4>4, Zenon
    <3>2. CASE s # r
      BY <1>1, <1>2, <2>1, <3>2
    <3> QED
      BY <3>1, <3>2, Zenon
  <2>5. /\ Len(chain[s]) + received[s] \in Int /\ passed[s - 1] \in Int
        /\ s = r + 1 <=> s - 1 = r
    BY <1>1, <1>2, <2>1
  <2> QED
    BY <2>2, <2>3, <2>4, <2>5, Zenon
<1>4. \A q \in Rank : q < r => passed[r] + 1 <= passed[q]
  <2> SUFFICES ASSUME NEW q \in Rank, q < r PROVE passed[r] + 1 <= passed[q]
    OBVIOUS
  <2>1. r \in Rank \ {0} /\ r - 1 \in Rank /\ (q = r - 1 \/ q < r - 1)
    BY DEF Rank
  <2>2. Len(chain[r]) + received[r] = passed[r - 1]
    BY <2>1, Zenon DEF ChainInv, ChainCounts
  <2>3. passed[r] + 1 <= Len(chain[r]) + received[r]
    <3>1. passed[r] = calls[r] - 1 /\ received[r] = IF pc[r] = "recv" THEN calls[r] - 1 ELSE calls[r]
      BY Zenon DEF received, passed
    <3> QED
      BY <1>1, <3>1
  <2>4. passed[r - 1] <= passed[q]
    BY <1>2, <2>1 DEF ChainInv, ChainCounts
  <2>5. /\ passed[r] \in Int /\ passed[q] \in Int /\ passed[r - 1] \in Int
        /\ Len(chain[r]) + received[r] \in Int
    BY <1>1, <1>2, <2>1
  <2> QED
    BY <2>2, <2>3, <2>4, <2>5
<1>5. \A q, s \in Rank : q < s => passed'[s] <= passed'[q]
  <2> SUFFICES ASSUME NEW q \in Rank, NEW s \in Rank, q < s PROVE passed'[s] <= passed'[q]
    OBVIOUS
  <2>1. passed[s] <= passed[q]
    BY Zenon DEF ChainInv, ChainCounts
  <2>2. s = r => passed[s] + 1 <= passed[q]
    BY <1>4, Zenon
  <2>3. passed'[s] = passed[s] + (IF s = r THEN 1 ELSE 0) /\ passed'[q] = passed[q] + (IF q = r THEN 1 ELSE 0)
    BY <1>2, Zenon
  <2> QED
    BY <1>2, <2>1, <2>2, <2>3
<1>6. \A s \in Rank : passed[s] <= passed'[s]
  BY <1>2
<1>7. \A c \in 1 .. MaxCalls : \A s \in arrived'[c] : c <= passed'[s]
  <2> SUFFICES ASSUME NEW c \in 1 .. MaxCalls, NEW s \in arrived[c] PROVE c <= passed'[s]
    OBVIOUS
  <2>1. s \in Rank
    BY Zenon DEF ChainInv, ChainTypes
  <2>2. c <= passed[s]
    BY Zenon DEF ChainInv, ChainCounts
  <2> QED
    BY <1>2, <1>6, <2>1, <2>2
<1>8. \A q, s \in Rank : left'[q] <= passed'[s]
  BY <1>2, <1>6 DEF ChainInv, ChainCounts
<1>9. ChainCounts'
  BY <1>3, <1>5, <1>7, <1>8, Zenon DEF ChainCounts
<1>10. ChainPlaces'
  BY <1>1 DEF ChainInv, ChainPlaces, Busy
<1> QED
  BY <1>9, <1>10, Zenon DEF ChainInv

(* Passing on puts one message into the chain of the next rank, if any.       *)
LEMMA PassOnChain ==
  ASSUME ChainInv, NEW r \in Rank, NEW v \in Errors \cup {-1}, PassOn(r, v)
  PROVE  /\ chain' \in [Rank -> Seq(Errors \cup {-1})]
         /\ Len(chain[r]) = Len(chain'[r])
         /\ \A s \in Rank \ {r} : IF s = r + 1 THEN Len(chain'[s]) = Len(chain[s]) + 1
                                              ELSE Len(chain'[s]) = Len(chain[s])
<1>1. chain \in [Rank -> Seq(Errors \cup {-1})]
  BY Zenon DEF ChainInv, ChainTypes
<1>2. CASE r < P - 1
  <2>1. r + 1 \in Rank /\ r + 1 # r
    BY <1>2, IoAssumption DEF Rank
  <2>2. chain' = [chain EXCEPT ![r + 1] = Append(chain[r + 1], v)]
    BY <1>2, Zenon DEF PassOn
  <2>3. /\ Append(chain[r + 1], v) \in Seq(Errors \cup {-1})
        /\ Len(Append(chain[r + 1], v)) = Len(chain[r + 1]) + 1
    BY <1>1, <2>1
  <2> QED
    BY <1>1, <2>1, <2>2, <2>3, Zenon
<1>3. CASE ~(r < P - 1)
  <2>1. \A s \in Rank : s # r + 1
    BY <1>3, IoAssumption DEF Rank
  <2> QED
    BY <1>1, <1>3, <2>1, Zenon DEF PassOn
<1> QED
  BY <1>2, <1>3, Zenon

(* Access to the file, or the failure to open it, ends with passing on; a     *)
(* rank that opens the file has the only message for its call.                *)
LEMMA ChainInvAccess ==
  ASSUME ChainInv, NEW r \in Rank, Access(r) \/ Fopen(r)
  PROVE  ChainInv'
<1>1. ASSUME NEW e \in Errors \cup {-1}, PassOn(r, e), pc[r] \in {"fopen", "access"},
             file' = [file EXCEPT ![r] = "NULL"], UNCHANGED <<calls, arrived>>
      PROVE  ChainInv'
  <2>1. pc' = [pc EXCEPT ![r] = "barrier"] /\ pc[r] \in Busy /\ pc[r] # "recv"
    BY <1>1, Zenon DEF PassOn, Busy
  <2>2. /\ chain' \in [Rank -> Seq(Errors \cup {-1})] /\ Len(chain[r]) = Len(chain'[r])
        /\ \A s \in Rank \ {r} : IF s = r + 1 THEN Len(chain'[s]) = Len(chain[s]) + 1
                                             ELSE Len(chain'[s]) = Len(chain[s])
    BY <1>1, PassOnChain, Zenon
  <2>3. ChainTypes'
    BY <1>1, <2>1, <2>2, Zenon DEF ChainInv, ChainTypes, Places
  <2>4. file'[r] = "NULL" /\ \A s \in Rank \ {r} : file'[s] = file[s]
    BY <1>1, Zenon DEF ChainInv, ChainTypes
  <2> QED
    BY <1>1, <2>1, <2>2, <2>3, <2>4, ChainInvPassOn, Zenon
<1>2. CASE Access(r)
  <2>1. \E e \in Errors \cup {-1} : PassOn(r, e)
    BY <1>2, Zenon DEF Access, Fails
  <2> QED
    BY <1>1, <1>2, <2>1, Zenon DEF Access
<1>3. CASE Fopen(r)
  <2>1. CASE \E e \in Errors : Fails(r, e) /\ UNCHANGED file
    <3>1. PICK e \in Errors : Fails(r, e) /\ UNCHANGED file
      BY <2>1, Zenon
    <3>2. file = [file EXCEPT ![r] = "NULL"]
      BY <1>3, Zenon DEF Fopen, ChainInv, ChainPlaces, ChainTypes
    <3> QED
      BY <1>1, <1>3, <3>1, <3>2, Zenon DEF Fopen, Fails
  <2>2. CASE /\ file' = [file EXCEPT ![r] = IF kinds[calls[r]] = "read" THEN "rb" ELSE "ab"]
             /\ pc' = [pc EXCEPT ![r] = "access"] /\ UNCHANGED <<active, errval, failed, chain>>
    <3>1. pc[r] = "fopen" /\ UNCHANGED <<calls, arrived>>
      BY <1>3, Zenon DEF Fopen
    <3>2. ChainTypes'
      BY <2>2, <3>1, Zenon DEF ChainInv, ChainTypes, Places
    <3>3. received' = received /\ passed' = passed /\ left' = left
      BY <2>2, <3>1, Zenon DEF ChainInv, ChainTypes, received, passed, left, Busy
    <3>4. ChainCounts'
      BY <2>2, <3>1, <3>3, Zenon DEF ChainInv, ChainCounts
    <3>5. ChainPlaces'
      BY <2>2, <3>1 DEF ChainInv, ChainTypes, ChainPlaces
    <3> QED
      BY <3>2, <3>4, <3>5, Zenon DEF ChainInv
  <2> QED
    BY <1>3, <2>1, <2>2, Zenon DEF Fopen
<1> QED
  BY <1>2, <1>3, Zenon

(* The message received lets a rank open the file, or is passed on at once.   *)
LEMMA ChainInvReceive ==
  ASSUME ChainInv, NEW r \in Rank, Receive(r)
  PROVE  ChainInv'
<1> DEFINE a == Head(chain[r])
           rest == [chain EXCEPT ![r] = Tail(chain[r])]
<1>1. /\ pc[r] = "recv" /\ chain[r] # <<>> /\ UNCHANGED <<file, calls, arrived>>
      /\ \/ a = -1 /\ pc' = [pc EXCEPT ![r] = "fopen"] /\ chain' = rest
         \/ /\ a # -1 /\ pc' = [pc EXCEPT ![r] = "barrier"]
            /\ chain' = IF r < P - 1 THEN [rest EXCEPT ![r + 1] = Append(rest[r + 1], a)] ELSE rest
  BY Zenon DEF Receive
<1>2. /\ chain[r] \in Seq(Errors \cup {-1}) /\ a \in Errors \cup {-1}
      /\ Tail(chain[r]) \in Seq(Errors \cup {-1}) /\ Len(chain[r]) = Len(Tail(chain[r])) + 1
      /\ rest \in [Rank -> Seq(Errors \cup {-1})] /\ rest[r] = Tail(chain[r])
      /\ \A s \in Rank \ {r} : rest[s] = chain[s]
  BY <1>1 DEF ChainInv, ChainTypes
<1>3. CASE a = -1
  <2>1. pc' = [pc EXCEPT ![r] = "fopen"] /\ chain' = rest
    BY <1>1, <1>3, Zenon
  <2>2. ChainTypes'
    BY <1>1, <1>2, <2>1, Zenon DEF ChainInv, ChainTypes, Places
  <2>3. \A s \in Rank : /\ passed'[s] = passed[s] /\ left'[s] = left[s]
                        /\ received'[s] = IF s = r THEN received[s] + 1 ELSE received[s]
                        /\ received[s] \in Int
    BY <1>1, <2>1 DEF ChainInv, ChainTypes, received, passed, left, Busy
  <2>4. ASSUME NEW s \in Rank \ {0} PROVE Len(chain'[s]) + received'[s] = passed'[s - 1]
    <3>1. s \in Rank /\ s - 1 \in Rank
      BY IoAssumption DEF Rank
    <3>2. Len(chain[s]) + received[s] = passed[s - 1]
      BY Zenon DEF ChainInv, ChainCounts
    <3>3. Len(chain'[s]) + received'[s] = Len(chain[s]) + received[s]
      <4>1. CASE s = r
        <5>1. Len(Tail(chain[r])) \in Nat
          BY <1>2
        <5> QED
          BY <1>2, <2>1, <2>3, <3>1, <4>1, <5>1
      <4>2. CASE s # r
        BY <1>2, <2>1, <2>3, <3>1, <4>2, Zenon
      <4> QED
        BY <4>1, <4>2, Zenon
    <3> QED
      BY <2>3, <3>1, <3>2, <3>3, Zenon
  <2>5. ASSUME NEW c \in 1 .. MaxCalls, NEW s \in arrived'[c] PROVE c <= passed'[s]
    <3>1. s \in Rank /\ c <= passed[s]
      BY <1>1, <2>5, Zenon DEF ChainInv, ChainTypes, ChainCounts
    <3> QED
      BY <2>3, <3>1, Zenon
  <2>6. \A q, s \in Rank : (q < s => passed'[s] <= passed'[q]) /\ left'[q] <= passed'[s]
    BY <2>3, Zenon DEF ChainInv, ChainCounts
  <2>7. ChainCounts'
    BY <2>4, <2>5, <2>6, Zenon DEF ChainCounts
  <2>8. ChainPlaces'
    BY <1>1, <2>1 DEF ChainInv, ChainTypes, ChainPlaces
  <2> QED
    BY <2>2, <2>7, <2>8, Zenon DEF ChainInv
<1>4. CASE a # -1
  <2>1. /\ pc' = [pc EXCEPT ![r] = "barrier"]
        /\ chain' = IF r < P - 1 THEN [rest EXCEPT ![r + 1] = Append(rest[r + 1], a)] ELSE rest
    BY <1>1, <1>4, Zenon
  <2>2. /\ chain' \in [Rank -> Seq(Errors \cup {-1})] /\ Len(chain[r]) = Len(chain'[r]) + 1
        /\ \A s \in Rank \ {r} : IF s = r + 1 THEN Len(chain'[s]) = Len(chain[s]) + 1
                                             ELSE Len(chain'[s]) = Len(chain[s])
    <3>1. CASE r < P - 1
      <4>1. r + 1 \in Rank /\ r + 1 # r
        BY <3>1, IoAssumption DEF Rank
      <4>2. chain' = [rest EXCEPT ![r + 1] = Append(chain[r + 1], a)]
        BY <1>2, <2>1, <3>1, <4>1, Zenon
      <4>3. /\ chain[r + 1] \in Seq(Errors \cup {-1})
            /\ Append(chain[r + 1], a) \in Seq(Errors \cup {-1})
            /\ Len(Append(chain[r + 1], a)) = Len(chain[r + 1]) + 1
        BY <1>2, <4>1 DEF ChainInv, ChainTypes
      <4> HIDE DEF rest, a
      <4> QED
        BY <1>2, <4>1, <4>2, <4>3, Zenon
    <3>2. CASE ~(r < P - 1)
      <4>1. \A s \in Rank : s # r + 1
        BY <3>2, IoAssumption DEF Rank
      <4> HIDE DEF rest, a
      <4> QED
        BY <1>2, <2>1, <3>2, <4>1, Zenon
    <3> QED
      BY <3>1, <3>2, Zenon
  <2>3. ChainTypes'
    BY <1>1, <2>1, <2>2, Zenon DEF ChainInv, ChainTypes, Places
  <2>4. file'[r] = "NULL" /\ \A s \in Rank \ {r} : file'[s] = file[s]
    BY <1>1, Zenon DEF ChainInv, ChainPlaces
  <2>5. pc[r] \in Busy
    BY <1>1, Zenon DEF Busy
  <2> QED
    BY <1>1, <2>1, <2>2, <2>3, <2>4, <2>5, ChainInvPassOn, Zenon
<1> QED
  BY <1>3, <1>4, Zenon

(* Reaching the barrier, leaving it once all have reached it, and returning.  *)
LEMMA ChainInvBarrier ==
  ASSUME ChainInv, NEW r \in Rank, Arrive(r) \/ Reopen(r) \/ Return(r)
  PROVE  ChainInv'
<1>1. UNCHANGED <<calls, chain>>
  BY Zenon DEF Arrive, Reopen, Return
<1>2. calls \in [Rank -> 0 .. MaxCalls] /\ pc \in [Rank -> Places]
  BY Zenon DEF ChainInv, ChainTypes
<1>3. CASE Arrive(r)
  <2>1. /\ pc[r] = "barrier" /\ pc' = [pc EXCEPT ![r] = "waiting"] /\ UNCHANGED file
        /\ arrived' = [arrived EXCEPT ![calls[r]] = arrived[calls[r]] \cup {r}]
    BY <1>3, Zenon DEF Arrive
  <2>2. received' = received /\ passed' = passed /\ left' = left
    BY <1>1, <1>2, <2>1, Zenon DEF received, passed, left, Busy
  <2>3. ChainTypes'
    BY <1>1, <1>2, <2>1, Zenon DEF ChainInv, ChainTypes, Places
  <2>4. ASSUME NEW c \in 1 .. MaxCalls, NEW s \in arrived'[c] PROVE c <= passed[s]
    <3>1. arrived'[c] = IF c = calls[r] THEN arrived[c] \cup {r} ELSE arrived[c]
      BY <2>1, Zenon DEF ChainInv, ChainTypes
    <3>2. passed[r] = calls[r]
      BY <2>1, Zenon DEF passed, Busy
    <3>3. CASE s \in arrived[c]
      BY <3>3, Zenon DEF ChainInv, ChainCounts
    <3>4. CASE s = r /\ c = calls[r]
      BY <3>2, <3>4
    <3> QED
      BY <2>4, <3>1, <3>3, <3>4, Zenon
  <2>5. ChainCounts'
    BY <1>1, <2>2, <2>4, Zenon DEF ChainInv, ChainCounts
  <2>6. ChainPlaces'
    BY <1>1, <1>2, <2>1 DEF ChainInv, ChainPlaces
  <2> QED
    BY <2>3, <2>5, <2>6, Zenon DEF ChainInv
<1>4. CASE Reopen(r)
  <2>1. /\ pc[r] = "waiting" /\ arrived[calls[r]] = Rank /\ UNCHANGED arrived
        /\ pc' = [pc EXCEPT ![r] = "bcast"]
        /\ \E f \in {"NULL", "rb", "ab"} : file' = [file EXCEPT ![r] = f] /\ (r # 0 => f = "NULL")
    BY <1>4, Zenon DEF Reopen
  <2>2. received' = received /\ passed' = passed
    BY <1>1, <1>2, <2>1, Zenon DEF received, passed, Busy
  <2>3. \A s \in Rank : left'[s] = IF s = r THEN calls[r] ELSE left[s]
    BY <1>1, <1>2, <2>1, Zenon DEF left, Busy
  <2>4. ChainTypes'
    BY <1>1, <1>2, <2>1 DEF ChainInv, ChainTypes, Places
  <2>5. \A s \in Rank : calls[r] <= passed[s]
    <3>1. calls[r] \in 1 .. MaxCalls
      BY <1>2, <2>1, IoAssumption DEF ChainInv, ChainPlaces
    <3> QED
      BY <2>1, <3>1, Zenon DEF ChainInv, ChainCounts
  <2>6. \A q, s \in Rank : left'[q] <= passed'[s]
    BY <2>2, <2>3, <2>5, Zenon DEF ChainInv, ChainCounts
  <2>7. ChainCounts'
    BY <1>1, <2>1, <2>2, <2>6, Zenon DEF ChainInv, ChainCounts
  <2>8. ChainPlaces'
    <3>1. PICK f \in {"NULL", "rb", "ab"} : file' = [file EXCEPT ![r] = f] /\ (r # 0 => f = "NULL")
      BY <2>1, Zenon
    <3>2. \A s \in Rank : pc'[s] = (IF s = r THEN "bcast" ELSE pc[s]) /\ file'[s] = IF s = r THEN f ELSE file[s]
      BY <1>2, <2>1, <3>1, Zenon DEF ChainInv, ChainTypes
    <3>3. 0 \in Rank
      BY IoAssumption DEF Rank
    <3> QED
      BY <1>1, <2>1, <3>1, <3>2, <3>3 DEF ChainInv, ChainPlaces
  <2> QED
    BY <2>4, <2>7, <2>8, Zenon DEF ChainInv
<1>5. CASE Return(r)
  <2>1. pc[r] = "bcast" /\ pc' = [pc EXCEPT ![r] = "idle"] /\ UNCHANGED <<file, arrived>>
    BY <1>5, Zenon DEF Return
  <2>2. received' = received /\ passed' = passed /\ left' = left
    BY <1>1, <1>2, <2>1, Zenon DEF received, passed, left, Busy
  <2>3. ChainTypes'
    BY <1>1, <1>2, <2>1, Zenon DEF ChainInv, ChainTypes, Places
  <2>4. ChainCounts'
    BY <1>1, <2>1, <2>2, Zenon DEF ChainInv, ChainCounts
  <2>5. ChainPlaces'
    BY <1>1, <1>2, <2>1 DEF ChainInv, ChainPlaces
  <2> QED
    BY <2>3, <2>4, <2>5, Zenon DEF ChainInv
<1> QED
  BY <1>3, <1>4, <1>5, Zenon

(* An open file behind another one, down the chain, would mean that its rank  *)
(* received a message that was not passed on yet.                             *)
LEMMA ChainInvExcludes == ChainInv => OneFileOpen
<1>1. ASSUME ChainInv, NEW r \in Rank, NEW s \in Rank, r < s, file[r] # "NULL", file[s] # "NULL"
      PROVE  FALSE
  <2>1. /\ calls[r] \in Int /\ calls[s] \in Int /\ Len(chain[s]) \in Nat
        /\ passed[r] \in Int /\ passed[s] \in Int /\ received[s] \in Int
    BY <1>1 DEF ChainInv, ChainTypes, passed, received
  <2>2. s \in Rank \ {0} /\ s - 1 \in Rank /\ (r = s - 1 \/ r < s - 1)
    BY <1>1, IoAssumption DEF Rank
  <2>3. pc[s] = "access" /\ received[s] = calls[s] /\ passed[s] = calls[s] - 1
    BY <1>1, <2>2, Zenon DEF ChainInv, ChainPlaces, received, passed, Busy
  <2>4. left[r] = passed[r]
    BY <1>1, Zenon DEF ChainInv, ChainPlaces, left, passed, Busy
  <2>5. Len(chain[s]) + received[s] = passed[s - 1]
    BY <1>1, <2>2, Zenon DEF ChainInv, ChainCounts
  <2>6. passed[s - 1] \in Int /\ passed[s - 1] <= passed[r]
    BY <1>1, <2>2 DEF ChainInv, ChainCounts, ChainTypes, passed
  <2>7. left[r] <= passed[s]
    BY <1>1, Zenon DEF ChainInv, ChainCounts
  <2> QED
    BY <2>1, <2>3, <2>4, <2>5, <2>6, <2>7
<1>2. \A r, s \in Rank : r < s \/ s < r \/ r = s
  BY IoAssumption DEF Rank
<1> QED
  BY <1>1, <1>2, Zenon DEF OneFileOpen

(* For any number of ranks and calls, and whatever fails: no two ranks have   *)
(* the file open at the same time (sc_io_open to sc_io_close of sc_io.c).     *)
THEOREM ChainIsExclusive == Spec => []OneFileOpen
<1>1. ChainInv /\ [Next]_vars => ChainInv'
  BY ChainInvApart, ChainInvEnter, ChainInvAccess, ChainInvReceive, ChainInvBarrier, Zenon DEF Next, Step
<1> QED
  BY ChainInvInit, <1>1, ChainInvExcludes, PTL DEF Spec

-----------------------------------------------------------------------------
(* The proof that the data are in order rests on where the other ranks are    *)
(* when a rank has its turn: those before it have passed on in its call, it   *)
(* and those behind it have not.                                              *)
LEMMA InTurn ==
  ASSUME ChainInv, NEW r \in Rank, pc[r] \in {"fopen", "access"}
  PROVE  /\ calls[r] \in 1 .. MaxCalls /\ passed[r] = calls[r] - 1
         /\ \A s \in Rank : IF s < r THEN passed[s] = calls[r] ELSE passed[s] <= calls[r] - 1
<1>1. /\ calls[r] \in 1 .. MaxCalls /\ pc[r] \in Busy /\ passed[r] = calls[r] - 1
      /\ received[r] = calls[r]
  <2>1. calls[r] \in 0 .. MaxCalls
    BY Zenon DEF ChainInv, ChainTypes
  <2>2. calls[r] >= 1
    BY Zenon DEF ChainInv, ChainPlaces
  <2> QED
    BY <2>1, <2>2, IoAssumption DEF Busy, passed, received
<1>2. \A s \in Rank : passed[s] \in Int /\ left[s] \in Int /\ passed[s] <= left[s] + 1
  BY DEF ChainInv, ChainTypes, passed, left, Busy
<1>3. ASSUME NEW s \in Rank, s < r PROVE passed[s] = calls[r]
  <2>1. r \in Rank \ {0} /\ r - 1 \in Rank /\ (s = r - 1 \/ s < r - 1)
    BY <1>3, IoAssumption DEF Rank
  <2>2. Len(chain[r]) + received[r] = passed[r - 1] /\ Len(chain[r]) \in Nat
    BY <2>1 DEF ChainInv, ChainCounts, ChainTypes
  <2>3. passed[r - 1] <= passed[s] /\ passed[r - 1] \in Int
    BY <1>2, <2>1 DEF ChainInv, ChainCounts
  <2>4. left[s] <= passed[r]
    BY Zenon DEF ChainInv, ChainCounts
  <2> QED
    BY <1>1, <1>2, <2>2, <2>3, <2>4
<1>4. ASSUME NEW s \in Rank, ~(s < r) PROVE passed[s] <= calls[r] - 1
  <2>1. s = r \/ r < s
    BY <1>4, IoAssumption DEF Rank
  <2> QED
    BY <1>1, <1>2, <2>1 DEF ChainInv, ChainCounts
<1> QED
  BY <1>1, <1>3, <1>4, Zenon

(* Only one rank has its turn.                                                *)
LEMMA OneTurn ==
  ASSUME ChainInv, NEW r \in Rank, NEW s \in Rank,
         pc[r] \in {"fopen", "access"}, pc[s] \in {"fopen", "access"}
  PROVE  r = s
<1>1. ASSUME NEW p \in Rank, NEW q \in Rank, p < q, pc[p] \in {"fopen", "access"}, pc[q] \in {"fopen", "access"}
      PROVE  FALSE
  <2>1. passed[p] = calls[q] /\ passed[q] = calls[q] - 1 /\ calls[q] \in Int
    BY <1>1, InTurn
  <2>2. left[p] <= passed[q] /\ left[p] = passed[p]
    BY <1>1, Zenon DEF ChainInv, ChainCounts, left, passed, Busy
  <2> QED
    BY <2>1, <2>2
<1>2. r < s \/ s < r \/ r = s
  BY IoAssumption DEF Rank
<1> QED
  BY <1>1, <1>2, Zenon

(* A recorded failure is an error code and the rank that met it.            *)
LEMMA FailedType ==
  ASSUME DataTypes, NEW c \in 1 .. MaxCalls, NEW i \in 1 .. Len(failed[c])
  PROVE  failed[c][i][1] \in Errors /\ failed[c][i][2] \in Rank
<1>1. failed[c] \in Seq(Errors \X Rank)
  BY Zenon DEF DataTypes
<1>2. failed[c][i] \in Errors \X Rank
  BY <1>1
<1> QED
  BY <1>2, Zenon

(* At first there are no data.                                                *)
LEMMA DataInvInit == Init => DataInv
<1> SUFFICES ASSUME Init PROVE DataInv
  OBVIOUS
<1> USE IoAssumption, ErrnoAssumption
<1>1. ChainInv
  BY ChainInvInit, Zenon
<1>2. DataTypes
  <2>1. disk \in Seq(Int \X Int)
    <3>1. <<0, 0>> \in Int \X Int /\ <<0, 1>> \in Int \X Int
      OBVIOUS
    <3>2. <<>> \in Seq(Int \X Int) /\ <<<<0, 0>>, <<0, 1>>>> \in Seq(Int \X Int)
      BY <3>1
    <3> QED
      BY <3>2, Zenon DEF Init
  <2>2. kinds \in Seq({"read", "write"}) /\ Len(kinds) <= MaxCalls
    BY DEF Init
  <2> QED
    BY <2>1, <2>2 DEF Init, DataTypes
<1>3. /\ \A i \in 1 .. Len(disk) : ~(disk[i][1] > 0)
      /\ \A r \in Rank : pc[r] = "closed" /\ Len(chain[r]) = 0
      /\ \A c \in 1 .. MaxCalls : Len(failed[c]) = 0 /\ bcast[c] = -1
      /\ 0 \in Rank
  BY DEF Init, Rank
<1>4. DiskInv
  BY <1>3, Zenon DEF DiskInv, ChainIsOrdered
<1>5. FailInv
  BY <1>3 DEF FailInv, Busy
<1> QED
  BY <1>1, <1>2, <1>4, <1>5, Zenon DEF DataInv

(* Opening, closing and rank 0's own accesses leave what the ranks wrote      *)
(* where it is, or drop it.                                                   *)
LEMMA DataInvQuiet ==
  ASSUME DataInv, ChainInv',
         UNCHANGED <<kinds, calls, active, errval, chain, bcast, failed>>,
         \A r \in Rank : pc'[r] # pc[r] => pc[r] \in {"closed", "idle"} /\ pc'[r] \in {"closed", "idle"},
         disk' \in Seq(Int \X Int),
         \A i \in 1 .. Len(disk') : disk'[i][1] > 0 => i \in 1 .. Len(disk) /\ disk'[i] = disk[i]
  PROVE  DataInv'
<1>1. \A r \in Rank : passed'[r] = passed[r] /\ received'[r] = received[r]
  BY Zenon DEF passed, received, Busy
<1>2. DataTypes'
  BY Zenon DEF DataInv, DataTypes
<1>3. DiskInv'
  <2>1. \A i \in 1 .. Len(disk') : disk'[i][1] > 0 => disk'[i][2] \in Rank /\ disk'[i][1] <= passed'[disk'[i][2]]
    <3>1. \A i \in 1 .. Len(disk) : disk[i][1] > 0 => disk[i][2] \in Rank /\ disk[i][1] <= passed[disk[i][2]]
      BY Zenon DEF DataInv, DiskInv
    <3> QED
      BY <1>1, <3>1, Zenon
  <2>2. \A i, j \in 1 .. Len(disk') : i < j /\ disk'[i][1] > 0 /\ disk'[j][1] > 0 =>
           \/ disk'[i][1] < disk'[j][1]
           \/ disk'[i][1] = disk'[j][1] /\ disk'[i][2] <= disk'[j][2]
    <3>1. \A i, j \in 1 .. Len(disk) : i < j /\ disk[i][1] > 0 /\ disk[j][1] > 0 =>
             \/ disk[i][1] < disk[j][1]
             \/ disk[i][1] = disk[j][1] /\ disk[i][2] <= disk[j][2]
      BY Zenon DEF DataInv, DiskInv, ChainIsOrdered
    <3>2. ASSUME NEW i \in 1 .. Len(disk'), NEW j \in 1 .. Len(disk'), i < j, disk'[i][1] > 0, disk'[j][1] > 0
          PROVE  \/ disk'[i][1] < disk'[j][1]
                 \/ disk'[i][1] = disk'[j][1] /\ disk'[i][2] <= disk'[j][2]
      <4>1. /\ i \in 1 .. Len(disk) /\ disk'[i] = disk[i]
            /\ j \in 1 .. Len(disk) /\ disk'[j] = disk[j]
        BY <3>2, Zenon
      <4>2. i < j /\ disk[i][1] > 0 /\ disk[j][1] > 0
        BY <3>2, <4>1, Zenon
      <4>3. disk[i][1] < disk[j][1] \/ (disk[i][1] = disk[j][1] /\ disk[i][2] <= disk[j][2])
        BY <3>1, <4>1, <4>2, Zenon
      <4> QED
        BY <4>1, <4>3, Zenon
    <3> QED
      BY <3>2, Zenon
  <2>3. ASSUME NEW r \in Rank, pc'[r] = "barrier", active'[r] > 0, errval'[r] = 0,
               NEW i \in 1 .. Len(disk'), disk'[i] = <<calls'[r], r>>
        PROVE  FALSE
    <3>1. pc[r] = "barrier" /\ calls[r] \in Int /\ calls[r] >= 1
      <4>1. pc[r] = "barrier"
        BY <2>3, Zenon
      <4>2. calls[r] \in 0 .. MaxCalls
        BY Zenon DEF DataInv, ChainInv, ChainTypes
      <4>3. calls[r] >= 1
        BY <4>1, Zenon DEF DataInv, ChainInv, ChainPlaces
      <4> QED
        BY <4>1, <4>2, <4>3
    <3>2. i \in 1 .. Len(disk) /\ disk[i] = <<calls[r], r>>
      BY <2>3, <3>1
    <3> QED
      BY <2>3, <3>1, <3>2, Zenon DEF DataInv, DiskInv, ChainIsOrdered
  <2> QED
    BY <2>1, <2>2, <2>3, Zenon DEF DiskInv, ChainIsOrdered
<1>4. FailInv'
  <2>1. 0 \in Rank
    BY IoAssumption DEF Rank
  <2>2. \A c \in 1 .. MaxCalls : \A i \in 1 .. Len(failed[c]) : failed[c][i][2] \in Rank
    BY FailedType, Zenon DEF DataInv
  <2>3. \A r \in Rank : pc'[r] \notin {"closed", "idle"} => pc'[r] = pc[r]
    OBVIOUS
  <2> QED
    BY <1>1, <2>1, <2>2, <2>3, Zenon DEF DataInv, FailInv, Busy
<1> QED
  BY <1>2, <1>3, <1>4, Zenon DEF DataInv

(* Opening, closing, and sc_io_write_at and sc_io_read_at at an explicit    *)
(* offset keep the invariant: rank 0 is in no collective call then.         *)
LEMMA DataInvApart ==
  ASSUME DataInv,
         \/ \E m \in AccessModes : sc_io_open(m)
         \/ sc_io_close
         \/ \E o \in 0 .. Len(disk), n \in 0 .. MaxCount : sc_io_write_at(o, n) \/ sc_io_read_at(o, n)
         \/ UNCHANGED vars
  PROVE  DataInv'
<1> USE IoAssumption
<1>1. ChainInv' /\ disk \in Seq(Int \X Int)
  BY ChainInvApart, Zenon DEF DataInv, DataTypes
<1>2. ASSUME NEW m \in AccessModes, sc_io_open(m) PROVE DataInv'
  <2>1. disk' \in {disk, <<>>} /\ \A r \in Rank : pc[r] = "closed" /\ pc'[r] \in {"closed", "idle"}
    BY <1>2, Zenon DEF sc_io_open
  <2>2. UNCHANGED <<kinds, calls, active, errval, chain, bcast, failed>>
    BY <1>2, Zenon DEF sc_io_open
  <2>3. disk' \in Seq(Int \X Int) /\ \A i \in 1 .. Len(disk') : i \in 1 .. Len(disk) /\ disk'[i] = disk[i]
    <3>1. CASE disk' = disk
      BY <1>1, <3>1, Zenon
    <3>2. CASE disk' = <<>>
      BY <3>2
    <3> QED
      BY <2>1, <3>1, <3>2, Zenon
  <2> QED
    BY <1>1, <2>1, <2>2, <2>3, DataInvQuiet, Zenon
<1>3. CASE sc_io_close
  <2>1. \A r \in Rank : pc[r] = "idle" /\ pc'[r] = "closed"
    BY <1>3, Zenon DEF sc_io_close, Together
  <2>2. UNCHANGED <<disk, kinds, calls, active, errval, chain, bcast, failed>>
    BY <1>3, Zenon DEF sc_io_close
  <2> QED
    BY <1>1, <2>1, <2>2, DataInvQuiet, Zenon
<1>4. ASSUME NEW o \in 0 .. Len(disk), NEW n \in 0 .. MaxCount, sc_io_write_at(o, n) PROVE DataInv'
  <2>1. PICK k \in 0 .. n :
          LET at == IF file[0] = "ab" THEN Len(disk) ELSE o
          IN disk' = [i \in 1 .. (IF at + k > Len(disk) THEN at + k ELSE Len(disk)) |->
                        IF at < i /\ i <= at + k THEN <<-1, 0>> ELSE disk[i]]
    BY <1>4, Zenon DEF sc_io_write_at
  <2> DEFINE at == IF file[0] = "ab" THEN Len(disk) ELSE o
             m == IF at + k > Len(disk) THEN at + k ELSE Len(disk)
  <2>2. at \in 0 .. Len(disk) /\ k \in Nat /\ m \in Nat /\ Len(disk) \in Nat
    BY <1>1
  <2>3. disk' = [i \in 1 .. m |-> IF at < i /\ i <= at + k THEN <<-1, 0>> ELSE disk[i]]
    BY <2>1, Zenon
  <2>4. \A i \in 1 .. m : (at < i /\ i <= at + k) \/ i \in 1 .. Len(disk)
    BY <2>2
  <2> HIDE DEF at, m
  <2>5. <<-1, 0>> \in Int \X Int /\ \A i \in 1 .. Len(disk) : disk[i] \in Int \X Int
    BY <1>1
  <2>6. disk' \in [1 .. m -> Int \X Int]
    BY <2>3, <2>4, <2>5, Zenon
  <2>7. disk' \in Seq(Int \X Int) /\ Len(disk') = m
    BY <2>2, <2>6
  <2>8. \A i \in 1 .. m : disk'[i][1] > 0 => i \in 1 .. Len(disk) /\ disk'[i] = disk[i]
    BY <2>3, <2>4
  <2>9. UNCHANGED <<pc, kinds, calls, active, errval, chain, bcast, failed>>
    BY <1>4, Zenon DEF sc_io_write_at
  <2> QED
    BY <1>1, <2>7, <2>8, <2>9, DataInvQuiet, Zenon
<1>5. CASE UNCHANGED <<disk, pc, kinds, calls, active, errval, chain, bcast, failed>>
  BY <1>1, <1>5, DataInvQuiet, Zenon
<1>6. ASSUME NEW o \in 0 .. Len(disk), NEW n \in 0 .. MaxCount, sc_io_read_at(o, n)
      PROVE  UNCHANGED <<disk, pc, kinds, calls, active, errval, chain, bcast, failed>>
  BY <1>6, Zenon DEF sc_io_read_at
<1>7. UNCHANGED vars => UNCHANGED <<disk, pc, kinds, calls, active, errval, chain, bcast, failed>>
  BY Zenon DEF vars
<1> QED
  BY <1>2, <1>3, <1>4, <1>5, <1>6, <1>7, Zenon

(* No access of a call that rank 0 enters has failed: it is the first one.    *)
LEMMA DataInvEnter ==
  ASSUME DataInv, NEW r \in Rank, NEW k \in {"read", "write"}, Enter(r, k)
  PROVE  DataInv'
<1> USE IoAssumption, ErrnoAssumption
<1>1. /\ pc[r] = "idle" /\ calls[r] < MaxCalls /\ UNCHANGED <<disk, chain, bcast, failed>>
      /\ calls' = [calls EXCEPT ![r] = @ + 1]
      /\ active' = [active EXCEPT ![r] = IF r = 0 THEN -1 ELSE 0]
      /\ errval' = [errval EXCEPT ![r] = 0]
      /\ pc' = [pc EXCEPT ![r] = IF r = 0 THEN "access" ELSE "recv"]
      /\ kinds' = Append(kinds, k) \/ kinds' = kinds
      /\ calls[r] # Len(kinds) => kinds' = kinds
  BY Zenon DEF Enter
<1>2. /\ calls \in [Rank -> 0 .. MaxCalls] /\ pc \in [Rank -> Places]
      /\ 0 \in Rank
  BY DEF DataInv, ChainInv, ChainTypes, Rank
<1>3. ChainInv'
  BY ChainInvEnter, Zenon DEF DataInv
<1>4. /\ \A s \in Rank : passed'[s] = passed[s] /\ (s # 0 => received'[s] = received[s])
      /\ \A s \in Rank \ {r} : /\ pc'[s] = pc[s] /\ calls'[s] = calls[s]
                               /\ active'[s] = active[s] /\ errval'[s] = errval[s]
  <2>1. active \in [Rank -> Errors \cup {-1, 0}] /\ errval \in [Rank -> Errors \cup {0}]
    BY Zenon DEF DataInv, DataTypes
  <2>2. \A s \in Rank : passed'[s] = passed[s] /\ (s # 0 => received'[s] = received[s])
    BY <1>1, <1>2 DEF passed, received, Busy
  <2> QED
    BY <1>1, <1>2, <2>1, <2>2, Zenon
<1>5. DataTypes'
  <2>1. kinds' \in Seq({"read", "write"}) /\ Len(kinds') <= MaxCalls
    <3>1. kinds \in Seq({"read", "write"}) /\ Len(kinds) <= MaxCalls
      BY Zenon DEF DataInv, DataTypes
    <3>2. CASE kinds' = kinds
      BY <3>1, <3>2, Zenon
    <3>3. CASE kinds' = Append(kinds, k) /\ calls[r] = Len(kinds)
      BY <1>1, <1>2, <3>1, <3>3
    <3> QED
      BY <1>1, <3>2, <3>3, Zenon
  <2> QED
    BY <1>1, <2>1, Zenon DEF DataInv, DataTypes
<1>6. DiskInv'
  <2>1. pc'[r] # "barrier"
    BY <1>1, <1>2, Zenon
  <2> QED
    BY <1>1, <1>4, <2>1 DEF DataInv, DiskInv, ChainIsOrdered
<1>7. r = 0 => failed[calls'[0]] = <<>>
  <2> SUFFICES ASSUME r = 0, failed[calls'[0]] # <<>> PROVE FALSE
    OBVIOUS
  <2>1. calls'[0] = calls[0] + 1 /\ calls[0] + 1 \in 1 .. MaxCalls /\ passed[0] = calls[0]
    BY <1>1, <1>2 DEF passed, Busy
  <2> DEFINE c == calls[0] + 1
  <2>2. failed[c] \in Seq(Errors \X Rank) /\ failed[c] # <<>>
    BY <2>1, Zenon DEF DataInv, DataTypes
  <2>3. 1 \in 1 .. Len(failed[c])
    BY <2>2
  <2>4. failed[c][1][2] \in Rank /\ c <= passed[failed[c][1][2]]
    BY <2>1, <2>3, FailedType, Zenon DEF DataInv, FailInv
  <2>5. passed[failed[c][1][2]] <= passed[0] /\ passed[failed[c][1][2]] \in Int
    <3>1. failed[c][1][2] = 0 \/ 0 < failed[c][1][2]
      BY <2>4 DEF Rank
    <3>2. \A s \in Rank : passed[s] \in Int
      BY <1>2 DEF passed
    <3>3. \A p, q \in Rank : p < q => passed[q] <= passed[p]
      BY Zenon DEF DataInv, ChainInv, ChainCounts
    <3> HIDE DEF c
    <3> QED
      BY <1>2, <2>4, <3>1, <3>2, <3>3
  <2> QED
    BY <1>2, <2>1, <2>4, <2>5
<1>8. FailInv'
  <2>1. \A c \in 1 .. MaxCalls : /\ Len(failed'[c]) <= 1
                                 /\ \A i \in 1 .. Len(failed'[c]) : c <= passed'[failed'[c][i][2]]
    BY <1>1, <1>4, FailedType, Zenon DEF DataInv, FailInv
  <2>2. ASSUME NEW s \in Rank
        PROVE  /\ pc'[s] \in Busy => errval'[s] = 0
               /\ pc'[s] \in {"fopen", "access"} => active'[s] = -1 /\ failed'[calls'[s]] = <<>>
    <3>1. CASE s = r
      <4>1. errval'[r] = 0 /\ active'[r] = (IF r = 0 THEN -1 ELSE 0)
        BY <1>1, Zenon DEF DataInv, DataTypes
      <4>2. pc'[r] = IF r = 0 THEN "access" ELSE "recv"
        BY <1>1, <1>2, Zenon
      <4> QED
        BY <1>1, <1>7, <3>1, <4>1, <4>2
    <3>2. CASE s # r
      BY <1>1, <1>4, <3>2 DEF DataInv, FailInv
    <3> QED
      BY <3>1, <3>2, Zenon
  <2>3. \A s \in Rank \ {0} : \A i \in 1 .. Len(chain'[s]) :
          chain'[s][i] # -1 <=> Before(failed'[received'[s] + i], s)
    BY <1>1, <1>4, Zenon DEF DataInv, FailInv
  <2>4. pc'[r] \notin {"barrier", "waiting", "bcast"}
    BY <1>1, <1>2, Zenon
  <2>5. ASSUME NEW s \in Rank
        PROVE  /\ pc'[s] \in {"barrier", "waiting"} =>
                    (active'[s] > 0 \/ errval'[s] > 0 <=> Before(failed'[calls'[s]], s + 1))
               /\ pc'[s] \in {"barrier", "waiting", "bcast"} /\ errval'[s] > 0 =>
                    Reported(failed'[calls'[s]], errval'[s], s)
               /\ s = 0 /\ pc'[s] = "bcast" => errval'[s] = 0
    BY <1>1, <1>4, <2>4, Zenon DEF DataInv, FailInv
  <2>6. \A c \in 1 .. MaxCalls : bcast'[c] > 0 => P > 1 /\ Reported(failed'[c], bcast'[c], P - 1)
    BY <1>1, <1>4, Zenon DEF DataInv, FailInv
  <2> QED
    BY <1>2, <2>1, <2>2, <2>3, <2>5, <2>6, Zenon DEF FailInv
<1> QED
  BY <1>3, <1>5, <1>6, <1>8, Zenon DEF DataInv

(* The first failure of a call, and failures met before a further one.        *)
LEMMA FirstFailure ==
  ASSUME NEW v, NEW r
  PROVE  /\ \A q : ~Before(<<>>, q) /\ (Before(Append(<<>>, <<v, r>>), q) <=> r < q)
         /\ Reported(Append(<<>>, <<v, r>>), v, r) /\ Len(Append(<<>>, <<v, r>>)) = 1
         /\ \A i \in 1 .. Len(Append(<<>>, <<v, r>>)) : Append(<<>>, <<v, r>>)[i] = <<v, r>>
<1>1. Append(<<>>, <<v, r>>) = <<<<v, r>>>> /\ Len(<<<<v, r>>>>) = 1 /\ <<<<v, r>>>>[1] = <<v, r>>
  OBVIOUS
<1>2. \A i \in 1 .. 1 : i = 1
  OBVIOUS
<1> QED
  BY <1>1, <1>2 DEF Before, Reported

(* A rank that has its turn passes on the token, or the errno it met; what it *)
(* wrote is at the end of the file.                                           *)
Passing(r, v, k) ==
  /\ pc[r] \in {"fopen", "access"} /\ PassOn(r, v) /\ UNCHANGED <<kinds, calls, bcast>>
  /\ errval' = [errval EXCEPT ![r] = IF v = -1 THEN 0 ELSE v]
  /\ v = -1 => UNCHANGED <<active, failed>>
  /\ v # -1 => /\ failed' = [failed EXCEPT ![calls[r]] = Append(failed[calls[r]], <<v, r>>)]
               /\ active' = IF r < P - 1 THEN [active EXCEPT ![r] = v] ELSE active
  /\ disk' = disk \o [i \in 1 .. k |-> <<calls[r], r>>]

(* The rank that holds the chain writes its part, or fails, and hands the   *)
(* chain on: the step that disturbs every conjunct of the invariant.        *)
LEMMA DataInvPass ==
  ASSUME DataInv, ChainInv', NEW r \in Rank, NEW v \in Errors \cup {-1}, NEW k \in Nat, Passing(r, v, k)
  PROVE  DataInv'
<1> DEFINE c0 == calls[r]
<1>1. /\ calls \in [Rank -> 0 .. MaxCalls] /\ pc \in [Rank -> Places]
      /\ active \in [Rank -> Errors \cup {-1, 0}] /\ errval \in [Rank -> Errors \cup {0}]
      /\ failed \in [1 .. MaxCalls -> Seq(Errors \X Rank)]
      /\ chain \in [Rank -> Seq(Errors \cup {-1})]
      /\ bcast \in [1 .. MaxCalls -> Errors \cup {-1, 0}]
      /\ disk \in Seq(Int \X Int)
  BY Zenon DEF DataInv, DataTypes, ChainInv, ChainTypes
<1>2. 0 \in Rank /\ r \in Int /\ v \in Int /\ (v # -1 => v > 0)
  BY IoAssumption, ErrnoAssumption DEF Rank
<1>3. /\ c0 \in 1 .. MaxCalls /\ passed[r] = c0 - 1
      /\ \A s \in Rank : IF s < r THEN passed[s] = c0 ELSE passed[s] <= c0 - 1
  BY InTurn, Zenon DEF DataInv, Passing
<1>4. /\ active[r] = -1 /\ errval[r] = 0 /\ failed[c0] = <<>>
  BY Zenon DEF DataInv, FailInv, Busy, Passing
<1>5. /\ pc' = [pc EXCEPT ![r] = "barrier"]
      /\ \A s \in Rank : /\ passed'[s] = passed[s] + (IF s = r THEN 1 ELSE 0)
                         /\ received'[s] = received[s]
                         /\ passed[s] \in Int /\ received[s] \in Int
  <2>1. pc' = [pc EXCEPT ![r] = "barrier"] /\ UNCHANGED calls /\ pc[r] \in {"fopen", "access"}
    BY Zenon DEF Passing, PassOn
  <2> QED
    BY <1>1, <2>1 DEF passed, received, Busy
<1>6. \A s \in Rank \ {r} : pc'[s] = pc[s] /\ errval'[s] = errval[s] /\ active'[s] = active[s]
  BY <1>1, <1>5, Zenon DEF Passing
<1>7. /\ \A c \in 1 .. MaxCalls : c # c0 => failed'[c] = failed[c]
      /\ v = -1 => failed'[c0] = <<>>
      /\ v # -1 => failed'[c0] = Append(<<>>, <<v, r>>)
  BY <1>1, <1>3, <1>4, Zenon DEF Passing
<1> HIDE DEF c0
<1>8. /\ \A q : Before(failed'[c0], q) <=> v # -1 /\ r < q
      /\ v # -1 => Reported(failed'[c0], v, r)
  <2>1. CASE v = -1
    BY <1>7, <2>1, FirstFailure, Zenon
  <2>2. CASE v # -1
    <3>1. /\ \A q : Before(Append(<<>>, <<v, r>>), q) <=> r < q
          /\ Reported(Append(<<>>, <<v, r>>), v, r)
      BY FirstFailure, Zenon
    <3> QED
      BY <1>7, <2>2, <3>1, Zenon
  <2> QED
    BY <2>1, <2>2, Zenon
<1>9. DataTypes'
  <2>1. <<c0, r>> \in Int \X Int
    BY <1>2, <1>3
  <2>2. [i \in 1 .. k |-> <<c0, r>>] \in Seq(Int \X Int)
    BY <2>1
  <2>3. disk' \in Seq(Int \X Int)
    <3> DEFINE w == [i \in 1 .. k |-> <<c0, r>>]
    <3>1. disk' = disk \o w /\ w \in Seq(Int \X Int)
      BY <2>2, Zenon DEF Passing, c0
    <3> HIDE DEF w
    <3> QED
      BY <1>1, <3>1
  <2>4. failed' \in [1 .. MaxCalls -> Seq(Errors \X Rank)]
    <3>1. CASE v = -1
      BY <1>1, <3>1, Zenon DEF Passing
    <3>2. CASE v # -1
      <4>1. <<v, r>> \in Errors \X Rank
        BY <3>2, Zenon
      <4>2. Append(failed[calls[r]], <<v, r>>) \in Seq(Errors \X Rank)
        BY <1>1, <1>3, <4>1 DEF c0
      <4> QED
        BY <1>1, <3>2, <4>2, Zenon DEF Passing
    <3> QED
      BY <3>1, <3>2, Zenon
  <2>5. active' \in [Rank -> Errors \cup {-1, 0}] /\ errval' \in [Rank -> Errors \cup {0}]
    BY <1>1, Zenon DEF Passing
  <2> QED
    BY <1>1, <2>3, <2>4, <2>5, Zenon DEF DataInv, DataTypes, Passing
<1>10. DiskInv'
  <2> DEFINE n == Len(disk)
  <2>1. /\ n \in Nat /\ Len(disk') = n + k
        /\ \A i \in 1 .. n : disk'[i] = disk[i] /\ disk[i] \in Int \X Int
        /\ \A i \in 1 .. n + k : i > n => disk'[i] = <<c0, r>>
    <3>1. disk' = disk \o [i \in 1 .. k |-> <<c0, r>>]
      BY Zenon DEF Passing, c0
    <3>2. [i \in 1 .. k |-> <<c0, r>>] \in Seq(Int \X Int) /\ Len([i \in 1 .. k |-> <<c0, r>>]) = k
      BY <1>2, <1>3
    <3> QED
      BY <1>1, <3>1, <3>2
  <2>2. \A i \in 1 .. n : disk[i][1] > 0 => disk[i][2] \in Rank /\ disk[i][1] <= passed[disk[i][2]]
    BY Zenon DEF DataInv, DiskInv
  <2>3. \A i, j \in 1 .. n : i < j /\ disk[i][1] > 0 /\ disk[j][1] > 0 =>
          \/ disk[i][1] < disk[j][1]
          \/ disk[i][1] = disk[j][1] /\ disk[i][2] <= disk[j][2]
    BY Zenon DEF DataInv, DiskInv, ChainIsOrdered
  <2> HIDE DEF n
  <2>4. ASSUME NEW i \in 1 .. n + k, disk'[i][1] > 0
        PROVE  disk'[i][2] \in Rank /\ disk'[i][1] <= passed'[disk'[i][2]]
    <3>1. CASE i > n
      <4>1. disk'[i] = <<c0, r>>
        BY <2>1, <3>1, Zenon
      <4>2. disk'[i][1] = c0 /\ disk'[i][2] = r
        BY <4>1
      <4>3. passed'[r] = c0
        BY <1>3, <1>5
      <4> QED
        BY <1>3, <4>2, <4>3
    <3>2. CASE i \in 1 .. n
      <4>1. disk[i][2] \in Rank /\ disk[i][1] <= passed[disk[i][2]] /\ disk[i][1] \in Int
        BY <2>1, <2>2, <2>4, <3>2, Zenon
      <4> QED
        BY <1>5, <2>1, <3>2, <4>1
    <3> QED
      BY <2>1, <3>1, <3>2
  <2>5. ASSUME NEW i \in 1 .. n + k, NEW j \in 1 .. n + k, i < j, disk'[i][1] > 0, disk'[j][1] > 0
        PROVE  \/ disk'[i][1] < disk'[j][1]
               \/ disk'[i][1] = disk'[j][1] /\ disk'[i][2] <= disk'[j][2]
    <3>1. CASE i > n
      <4>1. disk'[i] = <<c0, r>> /\ disk'[j] = <<c0, r>>
        BY <2>1, <2>5, <3>1
      <4> QED
        BY <1>2, <1>3, <4>1
    <3>2. CASE i \in 1 .. n /\ j > n
      <4>1. disk'[j] = <<c0, r>> /\ disk'[i] = disk[i] /\ disk[i][1] \in Int
        BY <2>1, <2>5, <3>2, Zenon
      <4>2. disk[i][2] \in Rank /\ disk[i][1] <= passed[disk[i][2]]
        BY <2>2, <2>5, <3>2, <4>1, Zenon
      <4>3. CASE disk[i][2] < r
        <5>1. disk[i][1] <= c0
          BY <1>3, <4>2, <4>3, Zenon
        <5> QED
          BY <1>2, <1>3, <4>1, <4>2, <4>3, <5>1 DEF Rank
      <4>4. CASE ~(disk[i][2] < r)
        <5>1. passed[disk[i][2]] <= c0 - 1 /\ passed[disk[i][2]] \in Int
          BY <1>3, <1>5, <4>2, <4>4, Zenon
        <5> QED
          BY <1>3, <4>1, <4>2, <5>1
      <4> QED
        BY <4>3, <4>4, Zenon
    <3>3. CASE i \in 1 .. n /\ j \in 1 .. n
      <4>1. disk'[i] = disk[i] /\ disk'[j] = disk[j]
        BY <2>1, <3>3, Zenon
      <4> QED
        BY <2>3, <2>5, <3>3, <4>1
    <3> QED
      BY <2>1, <3>1, <3>2, <3>3
  <2>6. ASSUME NEW s \in Rank, pc'[s] = "barrier", active'[s] > 0, errval'[s] = 0,
               NEW i \in 1 .. n + k, disk'[i] = <<calls'[s], s>>
        PROVE  FALSE
    <3>1. CASE s = r
      <4>1. errval'[r] = IF v = -1 THEN 0 ELSE v
        BY <1>1, Zenon DEF Passing
      <4>2. v = -1
        BY <1>2, <2>6, <3>1, <4>1
      <4> QED
        BY <1>4, <2>6, <3>1, <4>2 DEF Passing
    <3>2. CASE s # r
      <4>1. i \in 1 .. n
        BY <2>1, <2>6, <3>2
      <4>2. pc[s] = "barrier" /\ active[s] > 0 /\ errval[s] = 0 /\ disk[i] = <<calls[s], s>>
        BY <1>6, <2>1, <2>6, <3>2, <4>1, Zenon DEF Passing
      <4> QED
        BY <4>1, <4>2, Zenon DEF n, DataInv, DiskInv, ChainIsOrdered
    <3> QED
      BY <3>1, <3>2, Zenon
  <2> QED
    BY <2>1, <2>4, <2>5, <2>6, Zenon DEF DiskInv, ChainIsOrdered
<1>11. FailInv'
  <2>1. ASSUME NEW c \in 1 .. MaxCalls
        PROVE  /\ Len(failed'[c]) <= 1
               /\ \A i \in 1 .. Len(failed'[c]) : c <= passed'[failed'[c][i][2]]
    <3>1. CASE c # c0
      <4>1. failed'[c] = failed[c] /\ Len(failed[c]) <= 1
        BY <1>7, <3>1, Zenon DEF DataInv, FailInv
      <4>2. ASSUME NEW i \in 1 .. Len(failed[c]) PROVE c <= passed'[failed[c][i][2]]
        <5>1. failed[c][i][2] \in Rank /\ c <= passed[failed[c][i][2]]
          BY FailedType, Zenon DEF DataInv, FailInv
        <5> QED
          BY <1>5, <5>1
      <4> QED
        BY <4>1, <4>2, Zenon
    <3>2. CASE c = c0 /\ v = -1
      BY <1>7, <3>2
    <3>3. CASE c = c0 /\ v # -1
      <4>1. /\ Len(failed'[c0]) = 1 /\ \A i \in 1 .. Len(failed'[c0]) : failed'[c0][i] = <<v, r>>
        BY <1>7, <3>3, FirstFailure, Zenon
      <4>2. c0 <= passed'[r]
        BY <1>3, <1>5
      <4> QED
        BY <3>3, <4>1, <4>2
    <3> QED
      BY <3>1, <3>2, <3>3, Zenon
  <2>2. ASSUME NEW s \in Rank
        PROVE  /\ pc'[s] \in Busy => errval'[s] = 0
               /\ pc'[s] \in {"fopen", "access"} => active'[s] = -1 /\ failed'[calls'[s]] = <<>>
    <3>1. CASE s = r
      BY <1>1, <1>5, <3>1, Zenon DEF Busy
    <3>2. CASE s # r
      <4>1. pc'[s] = pc[s] /\ errval'[s] = errval[s]
        BY <1>6, <3>2, Zenon
      <4>2. pc[s] \notin {"fopen", "access"}
        BY <3>2, OneTurn, Zenon DEF Passing, DataInv
      <4> QED
        BY <4>1, <4>2, Zenon DEF DataInv, FailInv
    <3> QED
      BY <3>1, <3>2, Zenon
  <2>3. ASSUME NEW s \in Rank \ {0}, NEW i \in 1 .. Len(chain'[s])
        PROVE  chain'[s][i] # -1 <=> Before(failed'[received'[s] + i], s)
    <3>1. s \in Rank /\ s - 1 \in Rank /\ s \in Int
      BY <1>2, IoAssumption DEF Rank
    <3>2. /\ Len(chain[s]) + received[s] = passed[s - 1] /\ Len(chain[s]) \in Nat
          /\ passed[s - 1] \in Int /\ received[s] \in Int /\ received'[s] = received[s]
      BY <1>1, <1>5, <3>1 DEF DataInv, ChainInv, ChainCounts
    <3>3. CASE i \in 1 .. Len(chain[s]) /\ chain'[s][i] = chain[s][i]
      <4> DEFINE c == received[s] + i
      <4>1. chain[s][i] # -1 <=> Before(failed[c], s)
        BY <3>3, Zenon DEF DataInv, FailInv
      <4>2. c \in 1 .. MaxCalls
        <5>1. c <= passed[s - 1] /\ passed[s - 1] <= MaxCalls /\ received[s] >= 0
          <6>1. calls[s] \in 0 .. MaxCalls /\ calls[s - 1] \in 0 .. MaxCalls
            BY <1>1, <3>1, Zenon
          <6>2. pc[s] = "recv" => calls[s] >= 1
            BY <3>1, Zenon DEF DataInv, ChainInv, ChainPlaces
          <6>3. received[s] >= 0 /\ passed[s - 1] <= MaxCalls
            BY <3>1, <6>1, <6>2, IoAssumption DEF received, passed
          <6> QED
            BY <3>2, <3>3, <6>3
        <5> QED
          BY <3>2, <3>3, <5>1, IoAssumption
      <4>3. CASE c # c0
        BY <1>7, <3>2, <3>3, <4>1, <4>2, <4>3, Zenon
      <4>4. CASE c = c0
        <5>1. ~(r < s)
          <6> SUFFICES ASSUME r < s PROVE FALSE
            OBVIOUS
          <6>1. ~(s - 1 < r)
            BY <1>2, <3>1
          <6> QED
            BY <1>3, <3>1, <3>2, <3>3, <4>4, <6>1
        <5>2. chain[s][i] = -1
          BY <1>4, <4>1, <4>4, FirstFailure, Zenon
        <5> QED
          BY <1>8, <3>2, <3>3, <4>4, <5>1, <5>2, Zenon
      <4> QED
        BY <4>3, <4>4, Zenon
    <3>4. CASE s = r + 1 /\ i = Len(chain[s]) + 1 /\ chain'[s][i] = v
      <4>1. received[s] + i = c0
        <5>1. passed[s - 1] = passed[r]
          BY <1>2, <3>4
        <5> QED
          BY <1>3, <3>2, <3>4, <5>1
      <4>2. r < s
        BY <1>2, <3>4
      <4> QED
        BY <1>8, <3>2, <3>4, <4>1, <4>2, Zenon
    <3>5. \/ i \in 1 .. Len(chain[s]) /\ chain'[s][i] = chain[s][i]
          \/ s = r + 1 /\ i = Len(chain[s]) + 1 /\ chain'[s][i] = v
      <4>1. chain' = IF r < P - 1 THEN [chain EXCEPT ![r + 1] = Append(chain[r + 1], v)] ELSE chain
        BY Zenon DEF Passing, PassOn
      <4>2. CASE s = r + 1
        <5>1. r < P - 1 /\ chain'[s] = Append(chain[s], v)
          BY <1>2, <1>1, <3>1, <4>1, <4>2, IoAssumption DEF Rank
        <5>2. /\ Len(Append(chain[s], v)) = Len(chain[s]) + 1
              /\ \A j \in 1 .. Len(chain[s]) : Append(chain[s], v)[j] = chain[s][j]
              /\ Append(chain[s], v)[Len(chain[s]) + 1] = v
          BY <1>1, <3>1
        <5> QED
          BY <3>2, <4>2, <5>1, <5>2
      <4>3. CASE s # r + 1
        <5>1. chain'[s] = chain[s]
          BY <1>1, <3>1, <4>1, <4>3, Zenon
        <5> QED
          BY <5>1, Zenon
      <4> QED
        BY <4>2, <4>3, Zenon
    <3> QED
      BY <3>3, <3>4, <3>5, Zenon
  <2>4. \A c \in 1 .. MaxCalls : \A e, q : Reported(failed[c], e, q) => Reported(failed'[c], e, q)
    <3>1. ~\E e, q : Reported(<<>>, e, q)
      BY DEF Reported
    <3> QED
      BY <1>4, <1>7, <3>1, Zenon
  <2>5. ASSUME NEW s \in Rank, pc'[s] \in {"barrier", "waiting"}
        PROVE  active'[s] > 0 \/ errval'[s] > 0 <=> Before(failed'[calls'[s]], s + 1)
    <3>1. CASE s = r
      <4>1. errval'[r] = (IF v = -1 THEN 0 ELSE v) /\ calls'[r] = c0 /\ (v = -1 => active'[r] = -1)
        BY <1>1, <1>4, Zenon DEF Passing, c0
      <4>2. r < r + 1
        BY <1>2
      <4> QED
        BY <1>2, <1>8, <3>1, <4>1, <4>2
    <3>2. CASE s # r
      <4>1. /\ pc[s] \in {"barrier", "waiting"} /\ calls'[s] = calls[s]
            /\ active'[s] = active[s] /\ errval'[s] = errval[s]
        BY <1>6, <2>5, <3>2, Zenon DEF Passing
      <4>2. active[s] > 0 \/ errval[s] > 0 <=> Before(failed[calls[s]], s + 1)
        BY <4>1, Zenon DEF DataInv, FailInv
      <4>3. calls[s] \in 1 .. MaxCalls /\ passed[s] = calls[s]
        <5>1. calls[s] \in 0 .. MaxCalls /\ calls[s] >= 1
          BY <1>1, <4>1, Zenon DEF DataInv, ChainInv, ChainPlaces
        <5> QED
          BY <4>1, <5>1, IoAssumption DEF passed, Busy
      <4>4. CASE calls[s] # c0
        <5>1. failed'[calls'[s]] = failed[calls[s]]
          BY <1>7, <4>1, <4>3, <4>4, Zenon
        <5> QED
          BY <4>1, <4>2, <5>1, Zenon
      <4>5. CASE calls[s] = c0
        <5>1. s < r
          BY <1>3, <4>3, <4>5
        <5>2. ~(r < s + 1)
          BY <1>2, <5>1 DEF Rank
        <5>3. ~Before(failed[c0], s + 1)
          BY <1>4, FirstFailure, Zenon
        <5>4. ~Before(failed'[c0], s + 1)
          BY <1>8, <5>2, Zenon
        <5> QED
          BY <4>1, <4>2, <4>5, <5>3, <5>4, Zenon
      <4> QED
        BY <4>4, <4>5, Zenon
    <3> QED
      BY <3>1, <3>2, Zenon
  <2>6. ASSUME NEW s \in Rank, pc'[s] \in {"barrier", "waiting", "bcast"}, errval'[s] > 0
        PROVE  Reported(failed'[calls'[s]], errval'[s], s)
    <3>1. CASE s = r
      <4>1. errval'[r] = (IF v = -1 THEN 0 ELSE v) /\ calls'[r] = c0
        BY <1>1, Zenon DEF Passing, c0
      <4> QED
        BY <1>8, <2>6, <3>1, <4>1
    <3>2. CASE s # r
      <4>1. /\ pc[s] \in {"barrier", "waiting", "bcast"} /\ calls'[s] = calls[s]
            /\ errval'[s] = errval[s]
        BY <1>6, <2>6, <3>2, Zenon DEF Passing
      <4>2. Reported(failed[calls[s]], errval[s], s)
        BY <2>6, <4>1, Zenon DEF DataInv, FailInv
      <4>3. calls[s] \in 1 .. MaxCalls
        <5>1. calls[s] \in 0 .. MaxCalls /\ calls[s] >= 1
          BY <1>1, <4>1, Zenon DEF DataInv, ChainInv, ChainPlaces
        <5> QED
          BY <5>1, IoAssumption
      <4> QED
        BY <2>4, <4>1, <4>2, <4>3, Zenon
    <3> QED
      BY <3>1, <3>2, Zenon
  <2>7. pc'[0] = "bcast" => errval'[0] = 0
    BY <1>2, <1>1, <1>5, <1>6, Zenon DEF DataInv, FailInv
  <2>8. \A c \in 1 .. MaxCalls : bcast'[c] > 0 => P > 1 /\ Reported(failed'[c], bcast'[c], P - 1)
    BY <2>4, Zenon DEF DataInv, FailInv, Passing
  <2> QED
    BY <2>1, <2>2, <2>3, <2>5, <2>6, <2>7, <2>8, Zenon DEF FailInv
<1> QED
  BY <1>9, <1>10, <1>11, Zenon DEF DataInv

(* What the invariant says about rank r alone.                                *)
RankInv(r) ==
  /\ pc[r] \in Busy => errval[r] = 0
  /\ pc[r] \in {"fopen", "access"} => active[r] = -1 /\ failed[calls[r]] = <<>>
  /\ pc[r] \in {"barrier", "waiting"} =>
       (active[r] > 0 \/ errval[r] > 0 <=> Before(failed[calls[r]], r + 1))
  /\ pc[r] \in {"barrier", "waiting", "bcast"} /\ errval[r] > 0 => Reported(failed[calls[r]], errval[r], r)
  /\ r = 0 /\ pc[r] = "bcast" => errval[r] = 0

(* A step of rank r that neither passes anything on nor writes.               *)
LEMMA DataInvAlone ==
  ASSUME DataInv, ChainInv', DataTypes', NEW r \in Rank, RankInv(r)',
         UNCHANGED <<disk, kinds, calls, chain, failed>>,
         \A s \in Rank : passed'[s] = passed[s] /\ received'[s] = received[s],
         \A s \in Rank \ {r} : pc'[s] = pc[s] /\ active'[s] = active[s] /\ errval'[s] = errval[s],
         pc'[r] = "barrier" => pc[r] = "barrier" /\ active'[r] = active[r] /\ errval'[r] = errval[r],
         \A c \in 1 .. MaxCalls : bcast'[c] > 0 => P > 1 /\ Reported(failed[c], bcast'[c], P - 1)
  PROVE  DataInv'
<1>1. DiskInv'
  BY DEF DataInv, DiskInv, ChainIsOrdered
<1>2. FailInv'
  <2>1. \A c \in 1 .. MaxCalls : /\ Len(failed'[c]) <= 1
                                 /\ \A i \in 1 .. Len(failed'[c]) : c <= passed'[failed'[c][i][2]]
    BY FailedType, Zenon DEF DataInv, FailInv
  <2>2. ASSUME NEW s \in Rank PROVE RankInv(s)'
    BY Zenon DEF DataInv, FailInv, RankInv
  <2>3. \A s \in Rank \ {0} : \A i \in 1 .. Len(chain'[s]) :
          chain'[s][i] # -1 <=> Before(failed'[received'[s] + i], s)
    BY Zenon DEF DataInv, FailInv
  <2>4. 0 \in Rank
    BY IoAssumption DEF Rank
  <2> QED
    BY <2>1, <2>2, <2>3, <2>4, Zenon DEF FailInv, RankInv
<1> QED
  BY <1>1, <1>2, Zenon DEF DataInv

(* Opening the file leads to an access, or fails like one.                    *)
LEMMA DataInvAccess ==
  ASSUME DataInv, NEW r \in Rank, Access(r) \/ Fopen(r)
  PROVE  DataInv'
<1>1. ChainInv' /\ disk \in Seq(Int \X Int)
  BY ChainInvAccess, Zenon DEF DataInv, DataTypes
<1>2. disk = disk \o [i \in 1 .. 0 |-> <<calls[r], r>>]
  BY <1>1
<1>3. \A e \in Errors : e # -1 /\ e \in Errors \cup {-1}
  BY ErrnoAssumption
<1>4. CASE Access(r)
  <2>1. PICK n \in count(r), k \in 0 .. MaxCount, e \in {0} \cup Errors :
          /\ k <= n /\ (e = 0 => k = n)
          /\ disk' = IF kinds[calls[r]] = "write" THEN Fwrite(r, k) ELSE disk
          /\ IF e # 0 THEN Fails(r, e)
             ELSE /\ PassOn(r, -1) /\ errval' = [errval EXCEPT ![r] = 0]
                  /\ UNCHANGED <<active, failed>>
    BY <1>4, Zenon DEF Access
  <2>2. PICK m \in Nat : disk' = disk \o [i \in 1 .. m |-> <<calls[r], r>>]
    <3>1. k \in Nat /\ 0 \in Nat
      BY IoAssumption
    <3> QED
      BY <1>2, <2>1, <3>1, Zenon DEF Fwrite
  <2>3. pc[r] = "access" /\ UNCHANGED <<kinds, calls, bcast>>
    BY <1>4, Zenon DEF Access
  <2>4. CASE e # 0
    <3>1. Passing(r, e, m) /\ e \in Errors \cup {-1}
      BY <1>3, <2>1, <2>2, <2>3, <2>4, Zenon DEF Passing, Fails
    <3> QED
      BY <1>1, <3>1, DataInvPass, Zenon
  <2>5. CASE e = 0
    <3>1. Passing(r, -1, m)
      BY <2>1, <2>2, <2>3, <2>5, Zenon DEF Passing
    <3> QED
      BY <1>1, <3>1, DataInvPass, Zenon
  <2> QED
    BY <2>4, <2>5, Zenon
<1>5. CASE Fopen(r)
  <2>1. pc[r] = "fopen" /\ UNCHANGED <<disk, kinds, calls, bcast>>
    BY <1>5, Zenon DEF Fopen
  <2>2. ASSUME NEW e \in Errors, Fails(r, e) PROVE DataInv'
    <3>1. Passing(r, e, 0) /\ e \in Errors \cup {-1}
      BY <1>2, <1>3, <2>1, <2>2, Zenon DEF Passing, Fails
    <3> QED
      BY <1>1, <3>1, DataInvPass, Zenon
  <2>3. CASE /\ pc' = [pc EXCEPT ![r] = "access"] /\ UNCHANGED <<active, errval, failed, chain>>
    <3>1. \A s \in Rank : passed'[s] = passed[s] /\ received'[s] = received[s]
      BY <2>1, <2>3, Zenon DEF DataInv, ChainInv, ChainTypes, passed, received, Busy
    <3>2. DataTypes'
      BY <2>1, <2>3, Zenon DEF DataInv, DataTypes
    <3>3. pc'[r] = "access" /\ \A s \in Rank \ {r} : pc'[s] = pc[s]
      BY <2>3, Zenon DEF DataInv, ChainInv, ChainTypes
    <3>4. RankInv(r)'
      BY <2>1, <2>3, <3>3, Zenon DEF DataInv, FailInv, RankInv, Busy
    <3>5. \A c \in 1 .. MaxCalls : bcast'[c] > 0 => P > 1 /\ Reported(failed[c], bcast'[c], P - 1)
      BY <2>1, Zenon DEF DataInv, FailInv
    <3> QED
      BY <1>1, <2>1, <2>3, <3>1, <3>2, <3>3, <3>4, <3>5, DataInvAlone, Zenon
  <2> QED
    BY <1>5, <2>2, <2>3, Zenon DEF Fopen
<1> QED
  BY <1>4, <1>5, Zenon

(* Reaching the barrier, leaving it, and returning what was broadcast.        *)
LEMMA DataInvBarrier ==
  ASSUME DataInv, NEW r \in Rank, Arrive(r) \/ Reopen(r) \/ Return(r)
  PROVE  DataInv'
<1>1. ChainInv' /\ UNCHANGED <<disk, kinds, calls, chain, failed>>
  BY ChainInvBarrier, Zenon DEF DataInv, Arrive, Reopen, Return
<1>2. /\ pc \in [Rank -> Places] /\ calls \in [Rank -> 0 .. MaxCalls]
      /\ active \in [Rank -> Errors \cup {-1, 0}] /\ errval \in [Rank -> Errors \cup {0}]
      /\ bcast \in [1 .. MaxCalls -> Errors \cup {-1, 0}]
  BY Zenon DEF DataInv, ChainInv, ChainTypes, DataTypes
<1>3. pc[r] \notin {"closed", "idle"} => calls[r] \in 1 .. MaxCalls
  <2>1. pc[r] \notin {"closed", "idle"} => calls[r] >= 1 /\ calls[r] \in 0 .. MaxCalls
    BY <1>2, Zenon DEF DataInv, ChainInv, ChainPlaces
  <2> QED
    BY <2>1, IoAssumption
<1>4. \A c \in 1 .. MaxCalls : bcast[c] > 0 => P > 1 /\ Reported(failed[c], bcast[c], P - 1)
  BY Zenon DEF DataInv, FailInv
<1>5. RankInv(r)
  BY Zenon DEF DataInv, FailInv, RankInv
<1>6. CASE Arrive(r)
  <2>1. pc[r] = "barrier" /\ pc' = [pc EXCEPT ![r] = "waiting"] /\ UNCHANGED <<active, errval, bcast>>
    BY <1>6, Zenon DEF Arrive
  <2>2. DataTypes' /\ \A s \in Rank : passed'[s] = passed[s] /\ received'[s] = received[s]
    BY <1>1, <1>2, <2>1, Zenon DEF DataInv, DataTypes, passed, received, Busy
  <2>3. pc'[r] = "waiting" /\ \A s \in Rank \ {r} : pc'[s] = pc[s]
    BY <1>2, <2>1, Zenon
  <2>4. RankInv(r)'
    BY <1>1, <1>5, <2>1, <2>3, Zenon DEF RankInv, Busy
  <2> QED
    BY <1>1, <1>4, <2>1, <2>2, <2>3, <2>4, DataInvAlone, Zenon
<1>7. CASE Reopen(r)
  <2>1. pc[r] = "waiting" /\ pc' = [pc EXCEPT ![r] = "bcast"] /\ UNCHANGED <<active, bcast>>
    BY <1>7, Zenon DEF Reopen
  <2>2. errval' = IF r = 0 THEN [errval EXCEPT ![0] = 0] ELSE errval
    BY <1>7, Zenon DEF Reopen
  <2>3. /\ pc'[r] = "bcast" /\ \A s \in Rank \ {r} : pc'[s] = pc[s] /\ errval'[s] = errval[s]
        /\ errval'[r] = (IF r = 0 THEN 0 ELSE errval[r]) /\ errval' \in [Rank -> Errors \cup {0}]
    BY <1>2, <2>1, <2>2, Zenon
  <2>4. DataTypes' /\ \A s \in Rank : passed'[s] = passed[s] /\ received'[s] = received[s]
    BY <1>1, <1>2, <2>1, <2>3, Zenon DEF DataInv, DataTypes, passed, received, Busy
  <2>5. RankInv(r)'
    BY <1>1, <1>5, <2>1, <2>3 DEF RankInv, Busy
  <2> QED
    BY <1>1, <1>4, <2>1, <2>3, <2>4, <2>5, DataInvAlone, Zenon
<1>8. CASE Return(r)
  <2> DEFINE value == IF r = P - 1 THEN errval[r] ELSE bcast[calls[r]]
  <2>1. /\ pc[r] = "bcast" /\ pc' = [pc EXCEPT ![r] = "idle"]
        /\ errval' = [errval EXCEPT ![r] = 0] /\ active' = [active EXCEPT ![r] = 0]
        /\ bcast' = [bcast EXCEPT ![calls[r]] = value]
    BY <1>8, Zenon DEF Return
  <2>2. calls[r] \in 1 .. MaxCalls /\ value \in Errors \cup {-1, 0}
    BY <1>2, <1>3, <2>1, Zenon
  <2>3. /\ pc'[r] = "idle"
        /\ \A s \in Rank \ {r} : pc'[s] = pc[s] /\ errval'[s] = errval[s] /\ active'[s] = active[s]
    BY <1>2, <2>1, Zenon
  <2>4. /\ errval' \in [Rank -> Errors \cup {0}] /\ active' \in [Rank -> Errors \cup {-1, 0}]
        /\ bcast' \in [1 .. MaxCalls -> Errors \cup {-1, 0}]
    BY <1>2, <2>1, <2>2, Zenon
  <2>5. DataTypes' /\ \A s \in Rank : passed'[s] = passed[s] /\ received'[s] = received[s]
    BY <1>1, <1>2, <2>1, <2>4, Zenon DEF DataInv, DataTypes, passed, received, Busy
  <2>6. RankInv(r)'
    BY <2>3, Zenon DEF RankInv, Busy
  <2>7. value > 0 => P > 1 /\ Reported(failed[calls[r]], value, P - 1)
    <3>1. CASE r # P - 1
      BY <1>4, <2>2, <3>1, Zenon
    <3>2. CASE r = P - 1
      <4>1. errval[r] > 0 => r # 0 /\ Reported(failed[calls[r]], errval[r], r)
        BY <1>5, <2>1 DEF RankInv
      <4>2. r # 0 => P > 1
        BY <3>2, IoAssumption
      <4> QED
        BY <3>2, <4>1, <4>2, Zenon
    <3> QED
      BY <3>1, <3>2, Zenon
  <2>8. \A c \in 1 .. MaxCalls : bcast'[c] > 0 => P > 1 /\ Reported(failed[c], bcast'[c], P - 1)
    BY <1>2, <1>4, <2>1, <2>2, <2>7, Zenon
  <2> QED
    BY <1>1, <2>3, <2>5, <2>6, <2>8, DataInvAlone, Zenon
<1> QED
  BY <1>6, <1>7, <1>8, Zenon

(* A rank receives what its predecessor passed on.  An errno is on its way to *)
(* it exactly if a rank before it failed in the call, and it hands that on.   *)
LEMMA DataInvReceive ==
  ASSUME DataInv, NEW r \in Rank, Receive(r)
  PROVE  DataInv'
<1> DEFINE c0 == calls[r]
           a == Head(chain[r])
<1>1. /\ calls \in [Rank -> 0 .. MaxCalls] /\ pc \in [Rank -> Places]
      /\ active \in [Rank -> Errors \cup {-1, 0}] /\ errval \in [Rank -> Errors \cup {0}]
      /\ failed \in [1 .. MaxCalls -> Seq(Errors \X Rank)]
      /\ chain \in [Rank -> Seq(Errors \cup {-1})]
  BY Zenon DEF DataInv, DataTypes, ChainInv, ChainTypes
<1>2. /\ pc[r] = "recv" /\ chain[r] # <<>> /\ active' = [active EXCEPT ![r] = a]
      /\ pc' = [pc EXCEPT ![r] = IF a = -1 THEN "fopen" ELSE "barrier"]
      /\ UNCHANGED <<disk, kinds, calls, errval, bcast, failed>>
  BY Zenon DEF Receive
<1>3. 0 \in Rank /\ r \in Int /\ r # 0 /\ r - 1 \in Rank
  BY <1>2, IoAssumption DEF Rank, DataInv, ChainInv, ChainPlaces
<1>4. c0 \in 1 .. MaxCalls /\ received[r] = c0 - 1 /\ passed[r] = c0 - 1
  <2>1. c0 \in 0 .. MaxCalls /\ c0 >= 1
    BY <1>1, <1>2, Zenon DEF DataInv, ChainInv, ChainPlaces
  <2> QED
    BY <1>2, <2>1, IoAssumption DEF received, passed, Busy
<1>5. /\ a \in Errors \cup {-1} /\ a = chain[r][1] /\ Len(chain[r]) >= 1
      /\ Tail(chain[r]) \in Seq(Errors \cup {-1}) /\ Len(Tail(chain[r])) = Len(chain[r]) - 1
      /\ \A i \in 1 .. Len(Tail(chain[r])) : i + 1 \in 1 .. Len(chain[r]) /\ Tail(chain[r])[i] = chain[r][i + 1]
  <2>1. chain[r] \in Seq(Errors \cup {-1}) /\ chain[r] # <<>>
    BY <1>1, <1>2, Zenon
  <2> QED
    BY <2>1
<1> HIDE DEF c0, a
<1>6. a \in Int /\ (a # -1 <=> a > 0)
  BY <1>5, ErrnoAssumption
<1>7. a # -1 <=> Before(failed[c0], r)
  <2>1. chain[r][1] # -1 <=> Before(failed[received[r] + 1], r)
    BY <1>3, <1>5 DEF DataInv, FailInv
  <2> QED
    BY <1>4, <1>5, <2>1
<1>8. \A i \in 1 .. Len(failed[c0]) : failed[c0][i][2] \in Rank /\ failed[c0][i][2] < r
  <2> SUFFICES ASSUME NEW i \in 1 .. Len(failed[c0])
               PROVE  failed[c0][i][2] \in Rank /\ failed[c0][i][2] < r
    OBVIOUS
  <2>1. failed[c0][i][2] \in Rank /\ c0 <= passed[failed[c0][i][2]]
    BY <1>4, FailedType, Zenon DEF DataInv, FailInv
  <2>2. \A s \in Rank : passed[s] \in Int /\ (r < s => passed[s] <= passed[r])
    BY <1>1 DEF DataInv, ChainInv, ChainCounts, passed
  <2>3. failed[c0][i][2] # r /\ ~(r < failed[c0][i][2])
    BY <1>4, <2>1, <2>2
  <2> QED
    BY <1>3, <2>1, <2>3 DEF Rank
<1>9. /\ a # -1 <=> Before(failed[c0], r + 1)
      /\ a = -1 => failed[c0] = <<>>
  <2>1. failed[c0] \in Seq(Errors \X Rank)
    BY <1>1, <1>4, Zenon
  <2>2. Before(failed[c0], r) <=> Len(failed[c0]) > 0
    BY <1>8, <2>1 DEF Before
  <2>3. Before(failed[c0], r + 1) <=> Len(failed[c0]) > 0
    <3>1. \A q \in Rank : q < r => q < r + 1
      BY <1>3 DEF Rank
    <3> QED
      BY <1>8, <2>1, <3>1 DEF Before
  <2> QED
    BY <1>7, <2>1, <2>2, <2>3
<1>10. \A s \in Rank : /\ passed'[s] = passed[s] + (IF s = r /\ a # -1 THEN 1 ELSE 0)
                       /\ received'[s] = received[s] + (IF s = r THEN 1 ELSE 0)
                       /\ passed[s] \in Int /\ received[s] \in Int
  BY <1>1, <1>2 DEF passed, received, Busy
<1>11. \A s \in Rank \ {r} : pc'[s] = pc[s] /\ errval'[s] = errval[s] /\ active'[s] = active[s]
  BY <1>1, <1>2, Zenon
<1>12. /\ pc'[r] = (IF a = -1 THEN "fopen" ELSE "barrier") /\ active'[r] = a
       /\ errval'[r] = 0 /\ calls'[r] = c0
  BY <1>1, <1>2, Zenon DEF DataInv, FailInv, Busy, c0
<1>13. DataTypes'
  BY <1>1, <1>2, <1>5, Zenon DEF DataInv, DataTypes
<1>14. DiskInv'
  <2>1. \A i \in 1 .. Len(disk) :
          disk[i][1] > 0 => disk[i][2] \in Rank /\ disk[i][1] <= passed[disk[i][2]]
    BY Zenon DEF DataInv, DiskInv
  <2>2. \A i \in 1 .. Len(disk) : disk[i][1] \in Int
    BY DEF DataInv, DataTypes
  <2>3. \A i \in 1 .. Len(disk') :
          disk'[i][1] > 0 => disk'[i][2] \in Rank /\ disk'[i][1] <= passed'[disk'[i][2]]
    BY <1>2, <1>10, <2>1, <2>2
  <2>4. ASSUME NEW s \in Rank, pc'[s] = "barrier", active'[s] > 0, errval'[s] = 0,
               NEW i \in 1 .. Len(disk), disk[i] = <<calls[s], s>>
        PROVE  FALSE
    <3>1. CASE s = r
      <4>1. disk[i][1] = c0 /\ disk[i][2] = r
        BY <2>4, <3>1 DEF c0
      <4> QED
        BY <1>4, <2>1, <4>1
    <3>2. CASE s # r
      BY <1>11, <2>4, <3>2, Zenon DEF DataInv, DiskInv, ChainIsOrdered
    <3> QED
      BY <3>1, <3>2, Zenon
  <2>5. ChainIsOrdered'
    BY <1>2, <2>4, Zenon DEF DataInv, DiskInv, ChainIsOrdered
  <2> QED
    BY <2>3, <2>5, Zenon DEF DiskInv
<1>15. ASSUME NEW s \in Rank \ {0}, NEW i \in 1 .. Len(chain'[s])
       PROVE  chain'[s][i] # -1 <=> Before(failed[received'[s] + i], s)
  <2>1. /\ s \in Rank /\ s - 1 \in Rank /\ s \in Int
        /\ Len(chain[s]) + received[s] = passed[s - 1] /\ Len(chain[s]) \in Nat
        /\ \A j \in 1 .. Len(chain[s]) : chain[s][j] # -1 <=> Before(failed[received[s] + j], s)
    <3>1. s \in Rank /\ s - 1 \in Rank /\ s \in Int
      BY IoAssumption DEF Rank
    <3>2. Len(chain[s]) + received[s] = passed[s - 1]
      BY Zenon DEF DataInv, ChainInv, ChainCounts
    <3>3. Len(chain[s]) \in Nat
      BY <1>1, <3>1
    <3> QED
      BY <3>1, <3>2, <3>3, Zenon DEF DataInv, FailInv
  <2>2. CASE s = r
    <3>1. chain'[r] = Tail(chain[r])
      <4>1. r + 1 # r
        BY <1>3
      <4> QED
        BY <1>1, <4>1, Zenon DEF Receive
    <3>2. i \in Nat /\ i + 1 \in 1 .. Len(chain[r]) /\ chain'[s][i] = chain[r][i + 1]
      BY <1>5, <2>2, <3>1
    <3>3. received'[s] + i = received[s] + (i + 1)
      <4>1. received'[s] = received[s] + 1 /\ received[s] \in Int
        BY <1>10, <2>2, Zenon
      <4>2. \A x \in Int, j \in Nat : (x + 1) + j = x + (j + 1)
        OBVIOUS
      <4> QED
        BY <3>2, <4>1, <4>2, Zenon
    <3> QED
      BY <2>1, <2>2, <3>2, <3>3, Zenon
  <2>3. CASE s # r /\ chain'[s] = chain[s]
    BY <1>10, <2>1, <2>3
  <2>4. CASE s = r + 1 /\ a # -1 /\ chain'[s] = Append(chain[s], a)
    <3>1. /\ Len(Append(chain[s], a)) = Len(chain[s]) + 1
          /\ \A j \in 1 .. Len(chain[s]) : Append(chain[s], a)[j] = chain[s][j]
          /\ Append(chain[s], a)[Len(chain[s]) + 1] = a
      BY <1>1, <1>5, <2>1
    <3>2. received'[s] = received[s] /\ passed[s - 1] = passed[r]
      BY <1>3, <1>10, <2>1, <2>4
    <3>3. CASE i \in 1 .. Len(chain[s])
      BY <2>1, <2>4, <3>1, <3>2, <3>3, Zenon
    <3>4. CASE i = Len(chain[s]) + 1
      <4>1. received'[s] + i = c0
        BY <1>4, <1>10, <2>1, <3>2, <3>4
      <4> QED
        BY <1>9, <2>4, <3>1, <3>4, <4>1, Zenon
    <3> QED
      BY <2>1, <2>4, <3>1, <3>3, <3>4
  <2>5. s # r => chain'[s] = chain[s] \/ (s = r + 1 /\ a # -1 /\ chain'[s] = Append(chain[s], a))
    BY <1>1, <2>1 DEF Receive, a
  <2> QED
    BY <2>2, <2>3, <2>4, <2>5, Zenon
<1>16. FailInv'
  <2>1. ASSUME NEW c \in 1 .. MaxCalls
        PROVE  /\ Len(failed[c]) <= 1
               /\ \A i \in 1 .. Len(failed[c]) : c <= passed'[failed[c][i][2]]
    <3>1. Len(failed[c]) <= 1
      BY Zenon DEF DataInv, FailInv
    <3>2. \A i \in 1 .. Len(failed[c]) : failed[c][i][2] \in Rank /\ c <= passed[failed[c][i][2]]
      BY FailedType, Zenon DEF DataInv, FailInv
    <3> QED
      BY <1>10, <3>1, <3>2
  <2>2. ASSUME NEW s \in Rank PROVE RankInv(s)'
    <3>1. CASE s = r
      <4>1. ~(errval'[r] > 0)
        BY <1>12
      <4> QED
        BY <1>2, <1>3, <1>6, <1>9, <1>12, <3>1, <4>1 DEF RankInv, Busy
    <3>2. CASE s # r
      BY <1>2, <1>11, <3>2, Zenon DEF DataInv, FailInv, RankInv
    <3> QED
      BY <3>1, <3>2, Zenon
  <2>3. \A c \in 1 .. MaxCalls : bcast'[c] > 0 => P > 1 /\ Reported(failed'[c], bcast'[c], P - 1)
    BY <1>2, Zenon DEF DataInv, FailInv
  <2> QED
    BY <1>2, <1>3, <1>15, <2>1, <2>2, <2>3, Zenon DEF FailInv, RankInv
<1> QED
  BY <1>13, <1>14, <1>16, ChainInvReceive, Zenon DEF DataInv

(* A message or a barrier tells of failures up to the rank's own, and what    *)
(* the last rank broadcasts is an errno it met.                               *)
LEMMA DataInvSound == DataInv => ChainIsSound
<1> SUFFICES ASSUME DataInv PROVE ErrorsTravel
  BY Zenon DEF DataInv, DiskInv, ChainIsSound
<1> SUFFICES ASSUME NEW c \in 1 .. Len(kinds)
             PROVE  /\ Len(failed[c]) <= 1
                    /\ \A r \in Rank : calls[r] = c /\ pc[r] \in {"barrier", "waiting"} =>
                         (active[r] > 0 \/ errval[r] > 0) = (\E f \in Elements(failed[c]) : f[2] <= r)
                    /\ bcast[c] > 0 <=> bcast[c] # -1 /\ P > 1
                                        /\ \E f \in Elements(failed[c]) : f = <<bcast[c], P - 1>>
  BY Zenon DEF ErrorsTravel
<1>1. c \in 1 .. MaxCalls
  BY IoAssumption DEF DataInv, DataTypes
<1>2. failed[c] \in Seq(Errors \X Rank) /\ Elements(failed[c]) = {failed[c][i] : i \in 1 .. Len(failed[c])}
  <2>1. failed[c] \in Seq(Errors \X Rank)
    BY <1>1, Zenon DEF DataInv, DataTypes
  <2>2. DOMAIN failed[c] = 1 .. Len(failed[c])
    BY <2>1
  <2> QED
    BY <2>1, <2>2, Zenon DEF Elements
<1>3. \A i \in 1 .. Len(failed[c]) : failed[c][i] \in Errors \X Rank
  BY <1>2
<1>4. Len(failed[c]) <= 1
  BY <1>1, Zenon DEF DataInv, FailInv
<1>5. ASSUME NEW r \in Rank, calls[r] = c, pc[r] \in {"barrier", "waiting"}
      PROVE  (active[r] > 0 \/ errval[r] > 0) = (\E f \in Elements(failed[c]) : f[2] <= r)
  <2>1. active[r] > 0 \/ errval[r] > 0 <=> Before(failed[c], r + 1)
    BY <1>5, Zenon DEF DataInv, FailInv
  <2>2. \A i \in 1 .. Len(failed[c]) : failed[c][i][2] < r + 1 <=> failed[c][i][2] <= r
    BY <1>3 DEF Rank
  <2>3. Before(failed[c], r + 1) <=> \E f \in Elements(failed[c]) : f[2] <= r
    BY <1>2, <2>2, Zenon DEF Before
  <2> QED
    BY <2>1, <2>3, Zenon
<1>6. bcast[c] > 0 => P > 1 /\ Reported(failed[c], bcast[c], P - 1)
  BY <1>1, Zenon DEF DataInv, FailInv
<1>7. ASSUME NEW f \in Elements(failed[c]), f = <<bcast[c], P - 1>>
      PROVE  bcast[c] > 0
  <2>1. f \in Errors \X Rank
    BY <1>2, <1>3, Zenon
  <2>2. bcast[c] \in Errors
    BY <1>7, <2>1, Zenon
  <2> QED
    BY <2>2, \A n \in Nat \ {0} : n > 0, ErrnoAssumption, Zenon
<1>8. ~(-1 > 0)
  OBVIOUS
<1>9. Reported(failed[c], bcast[c], P - 1) => \E f \in Elements(failed[c]) : f = <<bcast[c], P - 1>>
  BY <1>2, Zenon DEF Reported
<1> QED
  BY <1>4, <1>5, <1>6, <1>7, <1>8, <1>9, Zenon

(* For any number of ranks and calls, whatever fails and whoever is late:     *)
(* what sc_io_write_at_all leaves in the file is in the order of the calls    *)
(* and within a call of the ranks, an errno reaches the ranks behind the one  *)
(* that met it and no other, and what is returned is the errno of the last    *)
(* rank if that one failed.                                                   *)
THEOREM ChainSound == Spec => []ChainIsSound
<1>1. DataInv /\ [Next]_vars => DataInv'
  BY DataInvApart, DataInvEnter, DataInvAccess, DataInvReceive, DataInvBarrier, Zenon DEF Next, Step
<1> QED
  BY DataInvInit, <1>1, DataInvSound, PTL DEF Spec

=============================================================================
