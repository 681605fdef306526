----------------------------- MODULE MCLibrary -----------------------------
(***************************************************************************)
(* Files, options, packages and collective algorithms, for model checking. *)
(* A behaviour is one of a single component; the others rest.  Except for  *)
(* those of IoChain, whose module this one extends, the variables y1 to    *)
(* y14 stand for different things in different behaviours.                 *)
(***************************************************************************)
EXTENDS IoChain, FiniteSets, TLC

CONSTANT Components      \* the components to check

VARIABLES block, y1, y2, y3, y4, y5, y6, y7, y8, y9, y10, y11, y12, y13, y14

-----------------------------------------------------------------------------
(* The instances and their bounds                                          *)

\* A short user string that starts like padding, and one of full length.
UserText(n, c) == [i \in 1 .. n |-> c]
UserStrings == {[text |-> UserText(1, "-"), bin |-> FALSE], [text |-> UserText(58, " "), bin |-> FALSE]}

Files == INSTANCE Scda WITH P <- 2, Modes <- {"clean", "faulty", "fuzzy"}, Users <- UserStrings,
  BlockSizes <- {0, 26}, ElemSizes <- {13}, MaxElems <- 2, MaxSections <- 1,
  FuzzyCodes <- {"FORMAT", "MPI"}, SkipApart <- FALSE,
  mode <- y1, phase <- y2, file <- y3, fc <- y4, errcode <- y5, count_err <- y6, call <- y7,
  stage <- y8, acted <- y9, seeds_agree <- y10, out <- y11, written <- y12

Streams == INSTANCE SinkSource WITH Types <- {"BUFFER", "FILENAME", "FILEFILE"},
  Appends <- {"FILENAME"}, ElemSizes <- {1, 2}, Sizes <- {0, 1, 3}, Aligns <- {2, 4}, MaxOps <- 3,
  Window <- 2, store <- y1, old <- y2, sink <- y3, source <- y4, script <- y5, at <- y6, seen <- y7,
  wrong <- y8, loaded <- y9

Coding == INSTANCE Encode WITH Bytes <- {0, 255}, MaxLen <- 4, DBC <- 9, Block <- 2, Chunk <- 2,
  Damage <- {0, 61, 65, 122}, ElemSizes <- {1, 2}, MaxSizes <- {0, 3},
  data <- y1, phase <- y2, text <- y3, clean <- y4, result <- y5, info <- y6

\* Option tables that between them have every type of option but JSONFILE.
Option(t, c, n, v, i) == [type |-> t, char |-> c, name |-> n, var |-> v, init |-> i]
OptionTables ==
  { [main |-> <<Option("SWITCH", "-v", <<"verb">>, 1, "0"), Option("STRING", "-s", <<>>, 2, "x")>>,
     sub  |-> <<Option("STRING", "-t", <<>>, 3, "x")>>],
    [main |-> <<Option("INT", "-v", <<"num">>, 1, "0"), Option("INIFILE", "-f", <<>>, 2, "x")>>,
     sub  |-> <<Option("BOOL", "-b", <<"n">>, 3, "1")>>],
    [main |-> <<Option("SIZE_T", "", <<"verb">>, 1, "0"), Option("DOUBLE", "", <<"num">>, 2, "2")>>,
     sub  |-> <<Option("KEYVALUE", "-s", <<>>, 3, "k1"), Option("CALLBACK", "-b", <<"boo">>, 4, "0")>>] }

Parsing == INSTANCE Options WITH Tables <- OptionTables, Words <- {"x", ""}, Args <- {<<"a">>},
  Huge <- {},
  Edited <- {<<"junk", "\n", "[", "p", "]", "\n", "-s", "=", "#", "x", "\n">>,
             <<"[", "Options", "]", "\n", "verb", "=", "1", "\n", "junk", "\n">>},
  MaxEvents <- 1, MaxCalls <- 4, items <- y1, sub <- y2, live <- y3, value <- y4, string <- y5,
  rc <- y6, errno <- y7, args <- y8, file <- y9, saved <- y10, last <- y11, calls <- y12

Accounts == INSTANCE Packages WITH Names <- {"p"}, Threads <- {"t1", "t2"}, MaxOps <- 2,
  MaxTable <- 3, pthread <- y1, table <- y2, num <- y3, dflt <- y4, mutex <- y5, where <- y6, op <- y7,
  tmp <- y8, live <- y9, refs <- y10, output <- y11, last <- y12, ops <- y13, changes <- y14

\* Four ranks on two nodes.
NodePlacements == {[r \in 0 .. 3 |-> r \div 2]}

Sharing == INSTANCE Shmem WITH P <- 4, Count <- 2, Types <- {"BASIC", "PRESCAN", "WINDOW", "WINDOW_PRESCAN"},
  PerNode <- {0, 1}, Placements <- NodePlacements, Ops <- {"allgather", "prefix", "memcpy"},
  CallerSync <- TRUE, MaxCalls <- 2, type <- y1, node <- y2, order <- y3, kind <- y4, calls <- y5,
  pc <- y6, given <- y7, mem <- y8

Sorting == INSTANCE Sort WITH P <- 3, Values <- {0, 1}, Shapes <- {<<1, 0, 2>>, <<2, 1, 1>>},
  gmemb <- y1, input <- y2, data <- y3, todo <- y4, pc <- y5, peers <- y6, net <- y7

Call(k, o, t) == [kind |-> k, op |-> o, target |-> t]
CollectivePrograms ==
  {<<Call("allreduce", "custom", -1)>>, <<Call("reduce", "custom", 3), Call("reduce", "SUM", 1)>>,
   <<Call("allgather", "none", -1)>>, <<Call("reduce", "MAX", 0), Call("allgather", "none", -1)>>,
   <<Call("reduce", "MIN", 4)>>}

Reducing == INSTANCE Collectives WITH P <- 5, AlltoallLevel <- 2, AlltoallMax <- 2,
  Programs <- CollectivePrograms, Inputs <- <<100, 7, 200, 3, 90>>,
  Buffered <- {"allreduce"}, program <- y1, todo <- y2, memory <- y3, recvs <- y4, net <- y5,
  result <- y6

Variable(n, e) == [name |-> n, empty |-> e]
StatisticsPrograms ==
  {[procs |-> 3, adds |-> <<Variable("a", TRUE)>>, rounds |-> 1, ops |-> 1],
   [procs |-> 2, adds |-> <<Variable("a", FALSE), Variable("b", TRUE)>>, rounds |-> 1, ops |-> 1],
   [procs |-> 2, adds |-> <<Variable("a", TRUE)>>, rounds |-> 2, ops |-> 1]}

Averaging == INSTANCE Statistics WITH Programs <- StatisticsPrograms, Values <- {-3, 2},
  program <- y1, kv <- y2, sarray <- y3, given <- y4, ops <- y5, round <- y6, in <- y7, parts <- y8,
  entered <- y9

-----------------------------------------------------------------------------
ys == <<y1, y2, y3, y4, y5, y6, y7, y8, y9, y10, y11, y12, y13, y14>>
allvars == <<block, ys, vars>>

No13 == y13 = 0 /\ y14 = 0
No10 == y10 = 0 /\ y11 = 0 /\ y12 = 0 /\ No13
No9 == y9 = 0 /\ No10
No7 == y7 = 0 /\ y8 = 0 /\ No9

AnyInit ==
  /\ block \in Components
  /\ Init /\ (block # "iochain" => disk = <<>>)
  /\ CASE block = "scda"        -> Files!Init /\ No13
       [] block = "sinksource"  -> Streams!Init /\ No10
       [] block = "encode"      -> Coding!Init /\ No7
       [] block = "options"     -> Parsing!Init /\ No13
       [] block = "packages"    -> Accounts!Init
       [] block = "shmem"       -> Sharing!Init /\ No9
       [] block = "sort"        -> Sorting!Init /\ y8 = 0 /\ No9
       [] block = "collectives" -> Reducing!Init /\ No7
       [] block = "statistics"  -> Averaging!Init /\ No10
       [] OTHER                 -> /\ y1 = 0 /\ y2 = 0 /\ y3 = 0 /\ y4 = 0 /\ y5 = 0 /\ y6 = 0
                                   /\ No7

AnyNext ==
  /\ \/ block = "iochain" /\ Next /\ UNCHANGED ys
     \/ block = "scda" /\ Files!Next /\ UNCHANGED <<y13, y14, vars>>
     \/ block = "sinksource" /\ Streams!Next /\ UNCHANGED <<y10, y11, y12, y13, y14, vars>>
     \/ block = "encode" /\ Coding!Next /\ UNCHANGED <<y7, y8, y9, y10, y11, y12, y13, y14, vars>>
     \/ block = "options" /\ Parsing!Next /\ UNCHANGED <<y13, y14, vars>>
     \/ block = "packages" /\ Accounts!Next /\ UNCHANGED vars
     \/ block = "shmem" /\ Sharing!Next /\ UNCHANGED <<y9, y10, y11, y12, y13, y14, vars>>
     \/ block = "sort" /\ Sorting!Next /\ UNCHANGED <<y8, y9, y10, y11, y12, y13, y14, vars>>
     \/ block = "collectives" /\ Reducing!Next /\ UNCHANGED <<y7, y8, y9, y10, y11, y12, y13, y14, vars>>
     \/ block = "statistics" /\ Averaging!Next /\ UNCHANGED <<y10, y11, y12, y13, y14, vars>>
  /\ UNCHANGED block

(* Whenever some rank or thread can go on, one does.  Options, streams and *)
(* encoding have one process that waits for nobody.                        *)
Concurrent == /\ block \notin {"sinksource", "encode", "options"}
              /\ AnyNext
AnySpec == AnyInit /\ [][AnyNext]_allvars /\ WF_allvars(Concurrent)

-----------------------------------------------------------------------------
(* What is checked, component by component; see there.                     *)

(* The file written by several ranks is the one a single rank writes.      *)
SerialEquivalent == block = "scda" => Files!SerialEquivalent

(* What sc_scda_fwrite_* wrote, sc_scda_fread_* reads, with any partition. *)
ReadsBack == block = "scda" => Files!ReadsBack

(* All ranks return the same error code, whether errors are real or        *)
(* simulated, and none is ahead of another by a collective step.           *)
RanksAgree == block = "scda" => Files!RanksAgree /\ Files!NotOvertaken

(* A source that replays the operations of a sink passes out what was put  *)
(* in; the mirror and sc_io_file_load have the bytes and nothing else.     *)
StreamsAreExact ==
  block = "sinksource" => Streams!SourceFollowsSink /\ Streams!MirrorAndLoadAreExact

(* Decoding and a VTK reader get back the data that was encoded.           *)
EncodingIsExact ==
  block = "encode" => Coding!DecodesWhatWasEncoded /\ Coding!VtkReadsBack

(* What sc_options_save saved loads, and a JSON file sets what it names.   *)
OptionsAreLoaded ==
  block = "options" => Parsing!PlainIsLoaded /\ Parsing!JsonIsLoaded

(* The strings passed to the user exist as long as an object needs them.   *)
StringsStayValid == block = "options" => Parsing!StringsStayValid

(* No update of a counter is lost, leaks are reported, slots are unique.   *)
CountsAreExact ==
  block = "packages" => Accounts!CountsAreExact /\ Accounts!LeaksAreReported /\ Accounts!TableIsSound

(* The lines of one package are not torn apart by another thread.          *)
LinesAreWhole == block = "packages" => Accounts!LinesAreWhole

(* Between calls a rank reads in shared memory what its last call promised.*)
ReadsArePromised == block = "shmem" => Sharing!ReadsArePromised

(* sc_psort sorts, and the binary searches find what they search for.      *)
SortIsCorrect == block = "sort" => Sorting!SortIsCorrect /\ Sorting!SearchIsExact

(* sc_reduce, sc_allreduce and sc_allgather return what they are for.      *)
CollectivesAreExact == block = "collectives" => Reducing!CollectivesAreExact

(* Statistics computed from contributions of every rank are exact.         *)
StatisticsAreExact == block = "statistics" => Averaging!StatisticsAreExact

(* sc_statistics.h: what is computed is the minimum and maximum over all   *)
(* ranks, those without a value left out.                                  *)
ComputedIsGlobal == block = "statistics" => Averaging!ComputedIsGlobal

(* No call waits for ever: all collective functions return on all ranks,   *)
(* and every thread gets past the locks.                                   *)
LibraryReturns ==
  []<>CASE block = "iochain"     -> Quiet
        [] block = "scda"        -> Files!Idle
        [] block = "packages"    -> Accounts!Idle
        [] block = "shmem"       -> Sharing!Freed
        [] block = "sort"        -> Sorting!Finished
        [] block = "collectives" -> Reducing!Finished
        [] block = "statistics"  -> Averaging!Finished
        [] OTHER                 -> TRUE

-----------------------------------------------------------------------------
AllBlocks == {"iochain", "scda", "sinksource", "encode", "options", "packages", "shmem", "sort",
              "collectives", "statistics"}
OnlyStatistics == {"statistics"}
=============================================================================
