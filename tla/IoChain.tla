------------------------------- MODULE IoChain -------------------------------
(* Parallel file access without MPI I/O (sc_io.c): sc_io_open, sc_io_read_at, *)
(* sc_io_write_at, sc_io_read_at_all, sc_io_write_at_all and sc_io_close.     *)
(* Only rank 0 keeps the file open between calls.  A collective call passes   *)
(* a token along the ranks: each opens the file, accesses it, closes it and   *)
(* hands the token on, or hands on the errno of a failure instead.            *)
(*                                                                            *)
(* The file is a sequence of elements <<call, rank>>.  The FILE pointers of   *)
(* stdio are external: a file opened "ab" writes at its end, whatever the     *)
(* position; an empty mode is refused with EINVAL.                            *)
EXTENDS Integers, Sequences

CONSTANTS P,         \* number of ranks
          Errors,    \* errno values an access may fail with (positive)
          MaxCalls,  \* bound on the collective accesses of a session
          MaxCount,  \* bound on the elements of one access
          AtCalls    \* bound on the calls to sc_io_read_at, sc_io_write_at

ASSUME IoAssumption == P \in Nat \ {0} /\ MaxCalls \in Nat /\ MaxCount \in Nat
ASSUME ErrnoAssumption == Errors \subseteq Nat \ {0}

VARIABLES disk,    \* contents of the file
          amode,   \* access mode of the last sc_io_open
          file,    \* mpifile->file of each rank: NULL or the stdio mode
          kinds,   \* the collective accesses started, "read" or "write"
          calls,   \* calls[r]: number of collective accesses rank r entered
          pc,      \* where rank r is in its call
          active,  \* active of rank r
          errval,  \* errval of rank r
          chain,   \* chain[r]: messages from rank r - 1 not yet received
          arrived, \* arrived[c]: ranks that reached the barrier of call c
          bcast,   \* bcast[c]: value broadcast by the last rank, -1 before
          ret,     \* ret[r]: error class last returned to rank r
          failed,  \* failed[c]: the failures of call c, <<errno, rank>>
          ats      \* number of calls to read_at and write_at so far

vars == <<disk, amode, file, kinds, calls, pc, active, errval, chain, arrived, bcast,
          ret, failed, ats>>

Rank == 0 .. P - 1
Elements(s) == {s[i] : i \in DOMAIN s}

(* sc_io_error_class: the MPI error class of an errno (numbers as on Linux).  *)
EINVAL == 22
sc_io_error_class(errorcode) ==
  CASE errorcode = 0 -> "SUCCESS"
    [] errorcode \in {9, 29} -> "FILE"                      \* EBADF ESPIPE
    [] errorcode \in {EINVAL, 95} -> "AMODE"                \* EINVAL EOPNOTSUPP
    [] errorcode = 2 -> "NO_SUCH_FILE"                      \* ENOENT
    [] errorcode = 17 -> "FILE_EXISTS"                      \* EEXIST
    [] errorcode \in {14, 19, 20, 21, 36, 40} -> "BAD_FILE" \* EFAULT ... ELOOP
    [] errorcode \in {1, 13, 26, 30} -> "ACCESS"            \* EPERM EACCES ETXTBSY EROFS
    [] errorcode \in {27, 28, 75} -> "NO_SPACE"             \* EFBIG ENOSPC EOVERFLOW
    [] errorcode \in {12, 23, 24} -> "NO_MEM"               \* ENOMEM ENFILE EMFILE
    [] errorcode \in {4, 5, 6, 11, 32, 89} -> "IO"          \* EINTR EIO ENXIO EAGAIN EPIPE EDESTADDRREQ
    [] OTHER -> "UNKNOWN"

(* sc_io_parse_access_mode: appending has no stdio mode of its own; the file  *)
(* is said to be opened in the write call.                                    *)
AccessModes == {"READ", "WRITE_CREATE", "WRITE_APPEND"}
sc_io_parse_access_mode(a) == CASE a = "READ" -> "rb" [] a = "WRITE_CREATE" -> "wb" [] a = "WRITE_APPEND" -> ""

Init == /\ disk \in {<<>>, <<<<0, 0>>, <<0, 1>>>>}
        /\ amode = "READ" /\ file = [r \in Rank |-> "NULL"] /\ kinds = <<>>
        /\ calls = [r \in Rank |-> 0] /\ pc = [r \in Rank |-> "closed"]
        /\ active = [r \in Rank |-> 0] /\ errval = [r \in Rank |-> 0]
        /\ chain = [r \in Rank |-> <<>>]
        /\ arrived = [c \in 1 .. MaxCalls |-> {}]
        /\ bcast = [c \in 1 .. MaxCalls |-> -1]
        /\ ret = [r \in Rank |-> "SUCCESS"]
        /\ failed = [c \in 1 .. MaxCalls |-> <<>>] /\ ats = 0

Together == pc = [r \in Rank |-> "idle"] /\ \A r \in Rank : calls[r] = Len(kinds)

(* sc_io_open: rank 0 opens, its errno is broadcast, and on an error every    *)
(* rank frees its context and returns no file.                                *)
sc_io_open(a) ==
  LET mode == sc_io_parse_access_mode(a) IN
  /\ pc = [r \in Rank |-> "closed"] /\ amode' = a
  /\ \/ /\ \E e \in (IF mode = "" THEN {EINVAL} ELSE Errors) :
             ret' = [r \in Rank |-> sc_io_error_class(e)]
        /\ UNCHANGED <<disk, file, pc>>
     \/ /\ mode # ""
        /\ file' = [file EXCEPT ![0] = mode]
        /\ disk' = IF mode = "wb" THEN <<>> ELSE disk
        /\ pc' = [r \in Rank |-> "idle"] /\ ret' = [r \in Rank |-> "SUCCESS"]
  /\ UNCHANGED <<kinds, calls, active, errval, chain, arrived, bcast, failed, ats>>

(* sc_io_close: rank 0 closes, and its result is broadcast.                   *)
sc_io_close ==
  /\ Together
  /\ file' = [r \in Rank |-> "NULL"] /\ pc' = [r \in Rank |-> "closed"]
  /\ \E e \in {0} \cup Errors : ret' = [r \in Rank |-> sc_io_error_class(e)]
  /\ UNCHANGED <<amode, disk, kinds, calls, active, errval, chain, arrived, bcast, failed, ats>>

(* sc_io_write_at: legal on rank 0 only, unless the count is zero.  Seeking   *)
(* has no effect on a file opened "ab"; a failed seek or write leaves the     *)
(* first elements written or none.                                            *)
sc_io_write_at(offset, n) ==
  /\ pc[0] = "idle" /\ ats < AtCalls /\ file[0] \in {"wb", "ab"} /\ offset <= Len(disk)
  /\ \E k \in 0 .. n :
       LET at == IF file[0] = "ab" THEN Len(disk) ELSE offset
       IN disk' = [i \in 1 .. (IF at + k > Len(disk) THEN at + k ELSE Len(disk)) |->
                     IF at < i /\ i <= at + k THEN <<-1, 0>> ELSE disk[i]]
  /\ ats' = ats + 1
  /\ UNCHANGED <<amode, file, kinds, calls, pc, active, errval, chain, arrived, bcast, ret, failed>>

(* sc_io_read_at: the same for reading; the position is put back afterwards.  *)
sc_io_read_at(offset, n) ==
  /\ pc[0] = "idle" /\ ats < AtCalls /\ file[0] = "rb" /\ offset + n <= Len(disk)
  /\ ats' = ats + 1
  /\ UNCHANGED <<amode, disk, file, kinds, calls, pc, active, errval, chain, arrived, bcast, ret, failed>>

-----------------------------------------------------------------------------
(* The collective accesses.  A rank enters; the first to do so fixes the      *)
(* kind, which is the same on all ranks.                                      *)
Enter(r, kind) ==
  /\ pc[r] = "idle" /\ calls[r] < MaxCalls
  /\ IF calls[r] = Len(kinds) THEN kinds' = Append(kinds, kind)
     ELSE kind = kinds[calls[r] + 1] /\ UNCHANGED kinds
  /\ kind = (IF amode = "READ" THEN "read" ELSE "write")
  /\ calls' = [calls EXCEPT ![r] = @ + 1]
  /\ active' = [active EXCEPT ![r] = IF r = 0 THEN -1 ELSE 0]
  /\ errval' = [errval EXCEPT ![r] = 0]
  /\ pc' = [pc EXCEPT ![r] = IF r = 0 THEN "access" ELSE "recv"]
  /\ UNCHANGED <<amode, disk, file, chain, arrived, bcast, ret, failed, ats>>

(* A message to the next rank, if there is one, then on to the barrier.       *)
PassOn(r, value) ==
  /\ chain' = IF r < P - 1 THEN [chain EXCEPT ![r + 1] = Append(@, value)] ELSE chain
  /\ pc' = [pc EXCEPT ![r] = "barrier"]

Fails(r, e) ==
  /\ errval' = [errval EXCEPT ![r] = e]
  /\ active' = IF r < P - 1 THEN [active EXCEPT ![r] = e] ELSE active
  /\ failed' = [failed EXCEPT ![calls[r]] = Append(@, <<e, r>>)]
  /\ PassOn(r, e)

(* Faulty variant: a rank that is told of an error hands the token on.        *)
ReceiveSwallows(r) ==
  /\ pc[r] = "recv" /\ chain[r] # <<>>
  /\ LET a == Head(chain[r])
         rest == [chain EXCEPT ![r] = Tail(@)]
     IN /\ active' = [active EXCEPT ![r] = a]
        /\ IF a = -1 THEN pc' = [pc EXCEPT ![r] = "fopen"] /\ chain' = rest
           ELSE /\ pc' = [pc EXCEPT ![r] = "barrier"]
                /\ chain' = IF r < P - 1 THEN [rest EXCEPT ![r + 1] = Append(@, -1)] ELSE rest
  /\ UNCHANGED <<amode, disk, file, kinds, calls, errval, arrived, bcast, ret, failed, ats>>

(* MPI_Recv from the preceding rank: the token, or the errno to hand on.      *)
Receive(r) ==
  /\ pc[r] = "recv" /\ chain[r] # <<>>
  /\ LET a == Head(chain[r])
         rest == [chain EXCEPT ![r] = Tail(@)]
     IN /\ active' = [active EXCEPT ![r] = a]
        /\ IF a = -1 THEN pc' = [pc EXCEPT ![r] = "fopen"] /\ chain' = rest
           ELSE /\ pc' = [pc EXCEPT ![r] = "barrier"]
                /\ chain' = IF r < P - 1 THEN [rest EXCEPT ![r + 1] = Append(@, a)] ELSE rest
  /\ UNCHANGED <<amode, disk, file, kinds, calls, errval, arrived, bcast, ret, failed, ats>>

(* Another rank than 0 opens the file when its turn comes.                    *)
Fopen(r) ==
  /\ pc[r] = "fopen"
  /\ \/ /\ file' = [file EXCEPT ![r] = IF kinds[calls[r]] = "read" THEN "rb" ELSE "ab"]
        /\ pc' = [pc EXCEPT ![r] = "access"]
        /\ UNCHANGED <<active, errval, failed, chain>>
     \/ \E e \in Errors : Fails(r, e) /\ UNCHANGED file
  /\ UNCHANGED <<amode, disk, kinds, calls, arrived, bcast, ret, ats>>

(* The count used for the access is that of the block's own variable, which   *)
(* hides the parameter: 1 from MPI_Get_count on a rank that received, and     *)
(* never assigned on rank 0.                                                  *)
count(r) == IF r = 0 THEN 0 .. MaxCount ELSE {1}

(* fwrite puts n elements at the end of the file.                             *)
Fwrite(r, n) == disk \o [i \in 1 .. n |-> <<calls[r], r>>]

(* fseek, fread or fwrite, fflush and fclose of one rank.  A failed access    *)
(* has transferred fewer elements than were asked for.                        *)
Access(r) ==
  /\ pc[r] = "access"
  /\ \E n \in count(r), k \in 0 .. MaxCount, e \in {0} \cup Errors :
       /\ k <= n /\ (e = 0 => k = n)
       /\ disk' = IF kinds[calls[r]] = "write" THEN Fwrite(r, k) ELSE disk
       /\ IF e # 0 THEN Fails(r, e)
          ELSE /\ PassOn(r, -1) /\ errval' = [errval EXCEPT ![r] = 0]
               /\ UNCHANGED <<active, failed>>
  /\ file' = [file EXCEPT ![r] = "NULL"]
  /\ UNCHANGED <<amode, kinds, calls, arrived, bcast, ret, ats>>

Arrive(r) ==
  /\ pc[r] = "barrier"
  /\ arrived' = [arrived EXCEPT ![calls[r]] = @ \cup {r}]
  /\ pc' = [pc EXCEPT ![r] = "waiting"]
  /\ UNCHANGED <<amode, disk, file, kinds, calls, active, errval, chain, bcast, ret, failed, ats>>

(* Faulty variant: rank 0 opens the file again without the barrier.           *)
ReopenAtOnce(r) ==
  /\ pc[r] = "waiting" /\ pc' = [pc EXCEPT ![r] = "bcast"]
  /\ file' = [file EXCEPT ![r] = IF r # 0 THEN "NULL" ELSE IF kinds[calls[0]] = "read" THEN "rb" ELSE "ab"]
  /\ errval' = [errval EXCEPT ![r] = IF r = 0 THEN 0 ELSE @]
  /\ UNCHANGED <<amode, disk, kinds, calls, active, chain, arrived, bcast, ret, failed, ats>>

(* Behind the barrier rank 0 opens the file again and thereby overwrites its  *)
(* errval; a failure to do so aborts the program and is not modelled.         *)
Reopen(r) ==
  /\ pc[r] = "waiting" /\ arrived[calls[r]] = Rank
  /\ IF r = 0 THEN /\ file' = [file EXCEPT ![0] = IF kinds[calls[0]] = "read" THEN "rb" ELSE "ab"]
                   /\ errval' = [errval EXCEPT ![0] = 0]
     ELSE file' = [file EXCEPT ![r] = "NULL"] /\ UNCHANGED errval
  /\ pc' = [pc EXCEPT ![r] = "bcast"]
  /\ UNCHANGED <<amode, disk, kinds, calls, active, chain, arrived, bcast, ret, failed, ats>>

(* The last rank broadcasts its errval, and every rank classifies it.         *)
Return(r) ==
  /\ pc[r] = "bcast"
  /\ LET value == IF r = P - 1 THEN errval[r] ELSE bcast[calls[r]]
     IN /\ value # -1
        /\ bcast' = [bcast EXCEPT ![calls[r]] = value]
        /\ ret' = [ret EXCEPT ![r] = sc_io_error_class(value)]
  /\ errval' = [errval EXCEPT ![r] = 0] /\ active' = [active EXCEPT ![r] = 0]
  /\ pc' = [pc EXCEPT ![r] = "idle"]
  /\ UNCHANGED <<amode, disk, file, kinds, calls, chain, arrived, failed, ats>>

Step(r) == Receive(r) \/ Fopen(r) \/ Access(r) \/ Arrive(r) \/ Reopen(r) \/ Return(r)

Next == \/ \E m \in AccessModes : sc_io_open(m)
        \/ sc_io_close
        \/ \E o \in 0 .. Len(disk), n \in 0 .. MaxCount : sc_io_write_at(o, n) \/ sc_io_read_at(o, n)
        \/ \E r \in Rank : (\E k \in {"read", "write"} : Enter(r, k)) \/ Step(r)

Spec == Init /\ [][Next]_vars

-----------------------------------------------------------------------------
(* No two ranks ever have the file open: the token keeps them apart although  *)
(* ranks enter, pass on and leave a collective call each at its own pace.     *)
OneFileOpen == \A r, s \in Rank : file[r] # "NULL" /\ file[s] # "NULL" => r = s

(* Token passing keeps the accesses of the ranks apart (sc_io.c:1920, "they   *)
(* are not allowed to start other I/O operations"): the elements of one       *)
(* collective write lie in the file in rank order, those of a later write     *)
(* behind those of an earlier one, and no rank behind the first one to fail   *)
(* writes anything.                                                           *)
ChainIsOrdered ==
  /\ \A i, j \in 1 .. Len(disk) :
       i < j /\ disk[i][1] > 0 /\ disk[j][1] > 0 =>
         \/ disk[i][1] < disk[j][1]
         \/ disk[i][1] = disk[j][1] /\ disk[i][2] <= disk[j][2]
  /\ \A r \in Rank : pc[r] = "barrier" /\ active[r] > 0 /\ errval[r] = 0 =>
       \A i \in 1 .. Len(disk) : disk[i] # <<calls[r], r>>

(* An errno travels down the whole chain and none is invented: at most one    *)
(* access of a call fails, every rank behind it is told before it reaches the *)
(* barrier, no rank before it is, and what all ranks return is that errno if  *)
(* the last rank failed and success otherwise.                                *)
ErrorsTravel ==
  \A c \in 1 .. Len(kinds) :
    /\ Len(failed[c]) <= 1
    /\ \A r \in Rank : calls[r] = c /\ pc[r] \in {"barrier", "waiting"} =>
         (active[r] > 0 \/ errval[r] > 0) = (\E f \in Elements(failed[c]) : f[2] <= r)
    /\ bcast[c] > 0 <=> bcast[c] # -1 /\ P > 1 /\ \E f \in Elements(failed[c]) : f = <<bcast[c], P - 1>>

(* Both: what sc_io_write_at_all leaves in the file and returns is what the   *)
(* ranks wrote and met in their order.                                        *)
ChainIsSound == ChainIsOrdered /\ ErrorsTravel

(* No collective access is under way, on any rank.                            *)
Quiet == \A r \in Rank : pc[r] \in {"idle", "closed"} /\ calls[r] = Len(kinds)

(* sc_io.c:1949 and 2238: "last rank broadcasts the first error that          *)
(* appeared".                                                                 *)
FirstErrorReported ==
  \A c \in 1 .. Len(kinds) : bcast[c] # -1 =>
    \A f \in Elements(failed[c]) : sc_io_error_class(bcast[c]) = sc_io_error_class(f[1])
=============================================================================
