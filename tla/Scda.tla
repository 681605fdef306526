-------------------------------- MODULE Scda --------------------------------
(***************************************************************************)
(* Writing and reading a file of the scda format in parallel (sc_scda.c).  *)
(* Every function of the interface is a sequence of stages, see Program.   *)
(* In a serial stage one rank, the root, works on the file and the others  *)
(* wait for the error code it broadcasts in SC_SCDA_HANDLE_NONCOLL_ERR; in *)
(* a collective stage all ranks act and check together.  A session writes  *)
(* a file with one partition and then reads it back with another.          *)
(*                                                                         *)
(* The file is a function from offsets to fields: a header with its user   *)
(* string, a count, an item of data or padding.  Of the bytes of an item   *)
(* we keep who it is and whether its last byte is a line break.            *)
(***************************************************************************)
EXTENDS Integers, Sequences, FiniteSets, FiniteSetsExt, TLC

CONSTANTS P,                \* fc->mpisize
          Modes,            \* "clean", "faulty" (I/O and arguments) or "fuzzy"
          Users,            \* the user strings: [text, bin]
          BlockSizes, ElemSizes, MaxElems, MaxSections,
          FuzzyCodes,       \* error codes that fuzzy testing may return
          SkipApart         \* may ranks disagree on skipping a section?

VARIABLES mode, phase, file, fc, errcode, count_err, call, stage, acted,
          seeds_agree, out, written

vars == <<mode, phase, file, fc, errcode, count_err, call, stage, acted,
          seeds_agree, out, written>>

Rank == 0 .. P - 1
HEADER_ROOT == 0
HEADER_BYTES == 128
COMMON_FIELD == 64
COUNT_FIELD == 32
INLINE_FIELD == 32
USER_STRING_FIELD == 62
USER_STRING_BYTES == 58
PADDING_MOD == 32

All(v) == [r \in Rank |-> v]
Before(counts, r) == MapThenSumSet(LAMBDA q : counts[q], 0 .. r - 1)
Total(counts) == Before(counts, P)

-----------------------------------------------------------------------------
(* The conversions of the format                                           *)

PadToFixLen(text, n) ==
  text \o <<" ">> \o [i \in 1 .. n - Len(text) - 2 |-> "-"] \o <<"\n">>

\* The raw length, or -1 if the bytes do not follow the convention.
CheckPadToFixLen(padded) ==
  LET n    == Len(padded)
      stop == Max({1} \union {i \in 2 .. n - 1 : padded[i] # "-"})
  IN  IF n < 4 \/ padded[n] # "\n" \/ padded[stop] # " " THEN -1 ELSE stop - 1

GetPadToFixLen(padded) == SubSeq(padded, 1, CheckPadToFixLen(padded))

PadToModLen(n) ==
  LET k == (PADDING_MOD - (n % PADDING_MOD)) % PADDING_MOD
  IN  IF k < 7 THEN k + PADDING_MOD ELSE k

\* The padding of n bytes of data, nl: the last one is a line break.
PadToMod(nl, n) ==
  [k |-> "pad", len |-> PadToModLen(n), first |-> IF n > 0 /\ nl THEN "=" ELSE "\n"]

CheckPadToMod(nl, n, pad) ==
  /\ pad.k = "pad" /\ pad.len = PadToModLen(n)
  /\ pad.first = "\n" \/ (pad.first = "=" /\ n # 0 /\ nl)

\* A C string of exactly 58 bytes is refused as well: the code looks for the
\* nul in the last byte of the string instead of the byte after it.
InvalidUserString(u) ==
  IF u.bin THEN Len(u.text) > USER_STRING_BYTES ELSE ~(Len(u.text) < USER_STRING_BYTES)

Header(k, u) == [k |-> k, len |-> IF k = "F" THEN HEADER_BYTES ELSE COMMON_FIELD, user |-> u.text]
Count(k, n) == [k |-> k, len |-> COUNT_FIELD, val |-> n]
Item(sec, i, n, nl) == [k |-> "data", len |-> n, sec |-> sec, elem |-> i, nl |-> nl]

Field(off) == IF off \in DOMAIN file THEN file[off] ELSE [k |-> "none", len |-> 0]
EndsInBreak(off) == \E o \in DOMAIN file : file[o].k = "data" /\ o + file[o].len = off /\ file[o].nl
FileBytes == Max({0} \union {o + file[o].len : o \in DOMAIN file})
ReadUserString(f) ==
  IF f.k \in {"F", "I", "B", "A"} THEN GetPadToFixLen(PadToFixLen(f.user, USER_STRING_FIELD)) ELSE <<>>

-----------------------------------------------------------------------------
(* What a stage checks, in the order of the code.  A check is an argument  *)
(* or format test, an I/O operation or its byte count.                     *)

Check(bad, code) == <<[what |-> "check", bad |-> bad, code |-> code]>>
WriteAt == <<[what |-> "io", bad |-> FALSE, code |-> "MPI"],
             [what |-> "count", bad |-> FALSE, code |-> "SHORT"]>>
ReadAt(off, n) == <<[what |-> "io", bad |-> FALSE, code |-> "MPI"],
                    [what |-> "count", bad |-> off + n > FileBytes, code |-> "SHORT"]>>

\* The error code that freeing the MPI type of an indirect array overwrites;
\* the byte count of the failed write is then what reveals the failure.
WriteIndirect == <<[what |-> "freed", bad |-> FALSE, code |-> "MPI"],
                   [what |-> "count", bad |-> FALSE, code |-> "SHORT"]>>

\* Results with which a check that did not find an error may still end.
Failures(c) ==
  CASE mode = "faulty" /\ c.what \in {"io", "count"} -> {[code |-> c.code, done |-> FALSE]}
    [] mode = "faulty" /\ c.what = "freed" ->
         {[code |-> IF Total(call.counts) * call.size > 0 THEN "SHORT" ELSE "SUCCESS", done |-> FALSE]}
    [] mode = "fuzzy" /\ c.what \in {"io", "freed"} -> {[code |-> "MPI", done |-> FALSE]}
    [] mode = "fuzzy" /\ c.what = "check" -> {[code |-> d, done |-> FALSE] : d \in FuzzyCodes}
    [] OTHER -> {}

Outcomes(checks) ==
  LET bad  == {i \in DOMAIN checks : checks[i].bad}
      last == Min(bad \union {Len(checks) + 1}) - 1
  IN  {[code |-> IF bad = {} THEN "SUCCESS" ELSE checks[last + 1].code, done |-> bad = {}]}
      \union UNION {Failures(checks[i]) : i \in 1 .. last}

Letter == [fwrite_inline |-> "I", fwrite_block |-> "B", fwrite_array |-> "A",
           fread_inline_data |-> "I", fread_block_data |-> "B", fread_array_data |-> "A"]

last_byte_owner == Max({0} \union {r \in Rank : call.counts[r] # 0})
ByteCount == IF Letter[call.op] = "A" THEN Total(call.counts) * call.size ELSE call.size

-----------------------------------------------------------------------------
(* The stages: what is checked, what is put into the file, by how much the *)
(* place in the file moves and what the root finds.                        *)

Writes(checks, put, advance) == [checks |-> checks, put |-> put, advance |-> advance, found |-> out[HEADER_ROOT]]
Reads(checks, advance, found) == [checks |-> checks, put |-> <<>>, advance |-> advance, found |-> found]
Tests(checks) == Writes(checks, <<>>, 0)

UserString == Check(InvalidUserString(call.user), "ARG")

sc_scda_fopen_write_header_serial == Writes(UserString \o WriteAt, 0 :> Header("F", call.user), HEADER_BYTES)

sc_scda_fwrite_inline_header_serial(pos) ==
  Writes(UserString \o WriteAt, pos :> Header("I", call.user), COMMON_FIELD)

sc_scda_fwrite_inline_data_serial(pos) ==
  Writes(Check(call.bad, "ARG") \o WriteAt, pos :> Item(Len(written) + 1, 0, INLINE_FIELD, call.nl), INLINE_FIELD)

\* A count of 64 bits never has more than the 26 digits of its entry.
sc_scda_fwrite_block_header_serial(pos) ==
  Writes(UserString \o WriteAt,
         pos :> Header("B", call.user) @@ (pos + COMMON_FIELD) :> Count("E", call.size),
         COMMON_FIELD + COUNT_FIELD)

sc_scda_fwrite_block_data_serial(pos) ==
  Writes(Check(call.bad, "ARG") \o WriteAt,
         IF call.size > 0 THEN pos :> Item(Len(written) + 1, 0, call.size, call.nl) ELSE <<>>,
         call.size)

sc_scda_fwrite_array_header_serial(pos) ==
  Writes(UserString \o WriteAt,
         pos :> Header("A", call.user) @@ (pos + COMMON_FIELD) :> Count("N", Total(call.counts))
           @@ (pos + COMMON_FIELD + COUNT_FIELD) :> Count("E", call.size),
         COMMON_FIELD + 2 * COUNT_FIELD)

\* Faulty variant: every rank takes the counts of the others for its own.
WriteArrayEqually(pos) ==
  LET elems == UNION {{r * call.counts[r] + i : i \in 0 .. call.counts[r] - 1} : r \in Rank}
  IN  Writes(IF call.indirect THEN WriteIndirect ELSE WriteAt,
             [o \in {pos + i * call.size : i \in elems} |->
                LET i == (o - pos) \div call.size
                IN  Item(Len(written) + 1, i, call.size, call.nl /\ i = Total(call.counts) - 1)],
             ByteCount)

\* All ranks write the elements they own behind those of the ranks before.
WriteArray(pos) ==
  LET own(r)   == Before(call.counts, r) .. Before(call.counts, r + 1) - 1
      elems    == UNION {own(r) : r \in Rank}
      last(i)  == i = Total(call.counts) - 1
  IN  Writes(IF call.indirect THEN WriteIndirect ELSE WriteAt,
             [o \in {pos + i * call.size : i \in elems} |->
                LET i == (o - pos) \div call.size IN Item(Len(written) + 1, i, call.size, call.nl /\ last(i))],
             ByteCount)

\* The last byte of an indirect array is looked up in the array of its
\* descriptors, and may be anything.
sc_scda_fwrite_mod_padding_serial(pos, byte) ==
  Writes(WriteAt, pos :> PadToMod(IF call.indirect THEN byte ELSE call.nl, ByteCount), PadToModLen(ByteCount))

Val(f) == IF f.k \in {"E", "N"} THEN f.val ELSE 0

sc_scda_check_file_header(f) == Check(f.k # "F", "FORMAT")

sc_scda_fopen_read_header_serial ==
  Reads(ReadAt(0, HEADER_BYTES) \o sc_scda_check_file_header(Field(0)), HEADER_BYTES,
        [k |-> "F", user |-> ReadUserString(Field(0))])

sc_scda_fread_section_header_common_serial(pos) ==
  Reads(ReadAt(pos, COMMON_FIELD) \o Check(Field(pos).k \notin {"I", "B", "A"}, "FORMAT"), COMMON_FIELD,
        [k |-> Field(pos).k, user |-> ReadUserString(Field(pos)), elem_count |-> 0, elem_size |-> 0])

sc_scda_check_count_entry(k, pos) == ReadAt(pos, COUNT_FIELD) \o Check(Field(pos).k # k, "FORMAT")

\* The root moves on by itself, see Serial, and the others when they know the
\* type of the section.
sc_scda_fread_block_header_serial(pos) ==
  Reads(sc_scda_check_count_entry("E", pos), 0, [out[HEADER_ROOT] EXCEPT !.elem_size = Val(Field(pos))])

sc_scda_fread_array_header_serial(pos) ==
  Reads(sc_scda_check_count_entry("N", pos) \o sc_scda_check_count_entry("E", pos + COUNT_FIELD), 0,
        [out[HEADER_ROOT] EXCEPT !.elem_count = Val(Field(pos)), !.elem_size = Val(Field(pos + COUNT_FIELD))])

ReadCounts(pos) ==
  CASE out[HEADER_ROOT].k = "I" -> Tests(<<>>)
    [] out[HEADER_ROOT].k = "B" -> sc_scda_fread_block_header_serial(pos)
    [] out[HEADER_ROOT].k = "A" -> sc_scda_fread_array_header_serial(pos)

\* The test of the caller's array is overwritten by the result of the read.
sc_scda_fread_inline_data_serial(pos) == Reads(ReadAt(pos, INLINE_FIELD), INLINE_FIELD, {Field(pos)})

sc_scda_fread_block_data_serial(pos) ==
  Reads(Check(call.bad, "ARG") \o ReadAt(pos, call.size), call.size,
        IF call.size > 0 THEN {Field(pos)} ELSE out[call.root])

ReadArray(pos) ==
  Reads(ReadAt(pos, Max({0} \union {Before(call.counts, q + 1) * call.size : q \in {q \in Rank : ~call.skip[q]}})),
        ByteCount, {})

\* Faulty variant: every rank reads from the beginning of the array.
ShareFromStart(r, pos) ==
  IF call.skip[r] THEN {} ELSE {Field(pos + i * call.size) : i \in 0 .. call.counts[r] - 1}

\* What rank r reads of an array.
Share(r, pos) ==
  IF call.skip[r] THEN {}
  ELSE {Field(pos + i * call.size) : i \in Before(call.counts, r) .. Before(call.counts, r + 1) - 1}

\* Reading the padding needs the last byte of the data: the root of a block
\* has it in memory unless it skips the data, otherwise it is read as well.
sc_scda_fread_mod_padding_serial(r, pos) ==
  LET n        == ByteCount
      from_mem == Letter[call.op] = "B" /\ ~call.skip[call.root]
      extra    == IF n > 0 /\ ~from_mem THEN 1 ELSE 0
  IN  Reads(ReadAt(pos - extra, PadToModLen(n) + extra)
              \o Check(~CheckPadToMod(EndsInBreak(pos), n, Field(pos)), "FORMAT"),
            PadToModLen(n), out[r])

sc_scda_check_coll_params == Tests(Check(call.odd, "ARG"))

\* The parameters that must agree, and the arrays of data that must fit them;
\* a rank without an array takes no notice of what the others found.
sc_scda_check_array_params(r) == Tests(Check(call.odd \/ (call.bad /\ ~call.skip[r]), "ARG"))

Usage(r) == Tests(Check(~(fc[r].header_before /\ fc[r].last_type = Letter[call.op]), "USAGE"))

Program ==
  [fopen_write          |-> <<"params", "open", "fopen_write_header">>,
   fwrite_inline        |-> <<"write_inline_header", "write_inline_data">>,
   fwrite_block         |-> <<"params", "write_block_header", "write_block_data", "write_padding">>,
   fwrite_array         |-> <<"array_params", "write_array_header", "write_array", "write_padding">>,
   fopen_read           |-> <<"params", "open", "fopen_read_header">>,
   fread_section_header |-> <<"read_common", "read_counts">>,
   fread_inline_data    |-> <<"usage", "read_inline">>,
   fread_block_data     |-> <<"params", "usage", "read_block", "read_padding">>,
   fread_array_data     |-> <<"array_params", "usage", "read_array", "read_padding">>,
   fclose               |-> <<"close">>]

Collective == {"params", "open", "array_params", "usage", "write_array", "read_array", "close"}

Stage(st, r, byte) ==
  LET pos == fc[r].accessed_bytes
  IN  CASE st = "params" -> sc_scda_check_coll_params
        [] st \in {"open", "close"} -> Tests(SubSeq(WriteAt, 1, 1))
        [] st = "array_params" -> sc_scda_check_array_params(r)
        [] st = "usage" -> Usage(r)
        [] st = "fopen_write_header" -> sc_scda_fopen_write_header_serial
        [] st = "write_inline_header" -> sc_scda_fwrite_inline_header_serial(pos)
        [] st = "write_inline_data" -> sc_scda_fwrite_inline_data_serial(pos)
        [] st = "write_block_header" -> sc_scda_fwrite_block_header_serial(pos)
        [] st = "write_block_data" -> sc_scda_fwrite_block_data_serial(pos)
        [] st = "write_array_header" -> sc_scda_fwrite_array_header_serial(pos)
        [] st = "write_array" -> WriteArray(pos)
        [] st = "write_padding" -> sc_scda_fwrite_mod_padding_serial(pos, byte)
        [] st = "fopen_read_header" -> sc_scda_fopen_read_header_serial
        [] st = "read_common" -> sc_scda_fread_section_header_common_serial(pos)
        [] st = "read_counts" -> ReadCounts(pos)
        [] st = "read_inline" -> sc_scda_fread_inline_data_serial(pos)
        [] st = "read_block" -> sc_scda_fread_block_data_serial(pos)
        [] st = "read_array" -> ReadArray(pos)
        [] st = "read_padding" -> sc_scda_fread_mod_padding_serial(r, pos)

Checks(st, r) == Stage(st, r, FALSE).checks

Root(st) ==
  CASE st \in {"write_inline_data", "write_block_data", "read_inline", "read_block"} -> call.root
    [] st \in {"write_padding", "read_padding"} /\ Letter[call.op] = "B" -> call.root
    [] st = "write_padding" /\ Letter[call.op] = "A" -> last_byte_owner
    [] OTHER -> HEADER_ROOT

CountBytes(k) == CASE k = "I" -> 0 [] k = "B" -> COUNT_FIELD [] k = "A" -> 2 * COUNT_FIELD

stages == Program[call.op]
At(r) == stages[stage[r]]
Idle == \A r \in Rank : stage[r] = 0
NextStage(i) == IF i = Len(stages) THEN 0 ELSE i + 1

\* The context of rank r after a stage that did not fail.
Passed(r, st) ==
  LET moved == [fc[r] EXCEPT !.accessed_bytes = @ + Stage(st, r, FALSE).advance
                  + IF st = "read_counts" /\ r # HEADER_ROOT THEN CountBytes(out[HEADER_ROOT].k) ELSE 0]
  IN  CASE st \in {"fopen_write_header", "fopen_read_header"} ->
             [moved EXCEPT !.accessed_bytes = HEADER_BYTES, !.header_before = FALSE, !.last_type = ""]
        [] st = "read_counts" -> [moved EXCEPT !.header_before = TRUE, !.last_type = out[HEADER_ROOT].k]
        [] stage[r] = Len(stages) /\ "usage" \in {stages[i] : i \in DOMAIN stages} ->
             [moved EXCEPT !.header_before = FALSE]
        [] OTHER -> moved

Closed == [live |-> FALSE, accessed_bytes |-> 0, header_before |-> FALSE, last_type |-> ""]
Opened == [Closed EXCEPT !.live = TRUE]

\* The history of the sections that are complete on all ranks.
Record(returned) ==
  written' = IF returned /\ call.op \in {"fwrite_inline", "fwrite_block", "fwrite_array"}
             THEN Append(written, [k |-> Letter[call.op], user |-> call.user.text, size |-> call.size,
                                   count |-> Total(call.counts), nl |-> call.nl, indirect |-> call.indirect])
             ELSE written

-----------------------------------------------------------------------------
(* Actions                                                                 *)

Init ==
  /\ mode \in Modes /\ phase = "start" /\ file = <<>> /\ fc = All(Closed)
  /\ errcode = All("SUCCESS") /\ count_err = All(FALSE)
  /\ call = [op |-> "none"] /\ stage = All(0) /\ acted = FALSE
  /\ seeds_agree = TRUE /\ out = All({}) /\ written = <<>>

\* All ranks enter a function with the arguments in args.
Enter(op, args) ==
  /\ Idle
  /\ call' = args @@ [op |-> op, user |-> [text |-> <<>>, bin |-> TRUE], root |-> 0, size |-> INLINE_FIELD,
                      counts |-> All(0), skip |-> All(FALSE), indirect |-> FALSE, nl |-> FALSE,
                      odd |-> FALSE, bad |-> FALSE]
  /\ stage' = All(1)
  /\ acted' = FALSE
  /\ out' = All({})
  /\ UNCHANGED <<mode, file, errcode, count_err, seeds_agree, written>>

Usable == \A r \in Rank : fc[r].live
Odd == IF mode = "faulty" THEN BOOLEAN ELSE {FALSE}
Writable == Idle /\ phase = "write" /\ Usable /\ Len(written) < (IF mode = "clean" THEN MaxSections ELSE 1)
                            /\ UNCHANGED <<phase, fc>>
Readable == Idle /\ phase = "read" /\ Usable /\ UNCHANGED <<phase, fc>>

sc_scda_fopen_write ==
  /\ phase = "start" /\ phase' = "write" /\ fc' = All(Opened)
  /\ \E u \in Users, o \in Odd : Enter("fopen_write", [user |-> u, odd |-> o])

sc_scda_fwrite_inline ==
  /\ Writable
  /\ \E u \in Users, root \in Rank, nl \in BOOLEAN, b \in Odd :
       Enter("fwrite_inline", [user |-> u, root |-> root, nl |-> nl, bad |-> b])

sc_scda_fwrite_block ==
  /\ Writable
  /\ \E u \in Users, root \in Rank, n \in BlockSizes, nl \in BOOLEAN, o \in Odd, b \in Odd :
       /\ n = 0 => ~nl
       /\ Enter("fwrite_block", [user |-> u, root |-> root, size |-> n, nl |-> nl, odd |-> o, bad |-> b])

sc_scda_fwrite_array ==
  /\ Writable
  /\ \E u \in Users, c \in [Rank -> 0 .. MaxElems], n \in ElemSizes, ind \in BOOLEAN, nl \in BOOLEAN, o \in Odd, b \in Odd :
       /\ Total(c) = 0 => ~nl
       /\ Enter("fwrite_array", [user |-> u, counts |-> c, size |-> n, indirect |-> ind, nl |-> nl, odd |-> o, bad |-> b])

sc_scda_fclose ==
  /\ phase \in {"write", "read"} /\ Usable /\ UNCHANGED <<phase, fc>>
  /\ Enter("fclose", <<>>)

sc_scda_fopen_read ==
  /\ phase = "closed" /\ phase' = "read" /\ fc' = All(Opened)
  /\ \E o \in Odd : Enter("fopen_read", [odd |-> o])

sc_scda_fread_section_header ==
  /\ Readable /\ \A r \in Rank : ~fc[r].header_before
  /\ Enter("fread_section_header", <<>>)

\* Which ranks pass no array to be filled.
Skips(op) ==
  IF op = "fread_array_data" \/ SkipApart THEN [Rank -> BOOLEAN] ELSE {All(FALSE), All(TRUE)}

\* A reader passes the sizes that it found in the section header.
sc_scda_fread_inline_data ==
  /\ Readable
  /\ \E root \in Rank, k \in Skips("fread_inline_data"), b \in Odd :
       Enter("fread_inline_data", [root |-> root, skip |-> k, bad |-> b])

HeaderRead == call.op = "fread_section_header"

sc_scda_fread_block_data ==
  /\ Readable /\ HeaderRead
  /\ \E root \in Rank, k \in Skips("fread_block_data"), o \in Odd, b \in Odd :
       Enter("fread_block_data", [root |-> root, size |-> out[0].elem_size, skip |-> k, odd |-> o, bad |-> b])

sc_scda_fread_array_data ==
  /\ Readable /\ HeaderRead
  /\ \E c \in [Rank -> 0 .. out[0].elem_count], k \in Skips("fread_array_data"), ind \in BOOLEAN, o \in Odd, b \in Odd :
       /\ Total(c) = out[0].elem_count
       /\ b /\ ~SkipApart => k = All(FALSE)
       /\ Enter("fread_array_data", [counts |-> c, size |-> out[0].elem_size, skip |-> k, indirect |-> ind, odd |-> o, bad |-> b])

\* A rank that passes no array does not take part in reading the data of an
\* inline or block section.
Skip(r) ==
  /\ stage[r] # 0 /\ At(r) \in {"read_inline", "read_block"} /\ call.skip[r]
  /\ fc' = [fc EXCEPT ![r] = Passed(r, At(r))]
  /\ stage' = [stage EXCEPT ![r] = NextStage(@)]
  /\ UNCHANGED <<mode, phase, file, errcode, count_err, call, acted, seeds_agree, out, written>>

\* The root of a serial stage works on the file.
Serial(r) ==
  /\ stage[r] # 0 /\ At(r) \notin Collective /\ r = Root(At(r)) /\ ~acted
  /\ ~(At(r) \in {"read_inline", "read_block"} /\ call.skip[r])
  /\ \E work \in {Stage(At(r), r, byte) :
                    byte \in IF At(r) = "write_padding" /\ call.indirect THEN BOOLEAN ELSE {FALSE}} :
       \E o \in Outcomes(work.checks) :
         /\ IF work.checks = <<>> THEN UNCHANGED <<errcode, count_err>>
            ELSE /\ errcode' = [errcode EXCEPT ![r] = IF o.code = "SHORT" THEN "SUCCESS" ELSE o.code]
                 /\ count_err' = [count_err EXCEPT ![r] = o.code = "SHORT"]
         /\ file' = IF o.done THEN work.put @@ file ELSE file
         /\ out' = IF o.done THEN [out EXCEPT ![r] = work.found] ELSE out
         /\ fc' = IF o.done /\ At(r) = "read_counts"
                  THEN [fc EXCEPT ![r].accessed_bytes = @ + CountBytes(out[r].k)] ELSE fc
  /\ acted' = TRUE
  /\ seeds_agree' = (mode # "fuzzy")
  /\ UNCHANGED <<mode, phase, call, stage, written>>

\* Faulty variant: the random states stay as the root has left them.
UnsyncedState(agree) == agree

\* After the maximum of the random states is taken, all ranks have the same.
sc_scda_fuzzy_sync_state(agree) == TRUE

\* Error codes that the ranks draw when a check finds no error.
Draws(agree) ==
  LET codes == {"SUCCESS"} \union (IF mode = "fuzzy" THEN FuzzyCodes ELSE {})
  IN  IF agree THEN {All(c) : c \in codes} ELSE [Rank -> codes]

Sync(st) == \A r \in Rank : stage[r] # 0 /\ At(r) = st

\* SC_SCDA_HANDLE_NONCOLL_COUNT_ERR: an error that is drawn for the count check
\* itself is stored, but it does not end the function.
HandleCountErr(cerror, drawn) == IF cerror THEN All("COUNT") ELSE drawn

\* SC_SCDA_CHECK_COLL_COUNT_ERR: the same after collective I/O.
CollCountErr(code, drawn) == IF code = "SHORT" THEN "COUNT" ELSE drawn

\* SC_SCDA_HANDLE_NONCOLL_ERR: all ranks learn the error of the root.
Handle ==
  /\ ~Idle /\ acted
  /\ \E st \in {stages[i] : i \in DOMAIN stages} \ Collective, i \in DOMAIN stages :
       /\ stages[i] = st /\ Sync(st)
       /\ LET e     == errcode[Root(st)]
              c     == count_err[Root(st)]
              fails == e # "SUCCESS" \/ c
              agree == sc_scda_fuzzy_sync_state(seeds_agree)
          IN  \E d \in Draws(agree) :
                /\ fails => d = All("SUCCESS")
                /\ errcode' = IF e # "SUCCESS" THEN All(e) ELSE HandleCountErr(c, d)
                /\ count_err' = All(c)
                /\ seeds_agree' = agree
                /\ fc' = [r \in Rank |-> IF fails THEN Closed ELSE Passed(r, st)]
                /\ stage' = All(IF fails THEN 0 ELSE NextStage(i))
                /\ out' = IF ~fails /\ st \in {"fopen_read_header", "read_counts"} THEN All(out[HEADER_ROOT]) ELSE out
                /\ Record(~fails /\ i = Len(stages))
  /\ acted' = FALSE
  /\ UNCHANGED <<mode, phase, file, call>>

\* A stage in which all ranks take part, SC_SCDA_CHECK_COLL_ERR after it and,
\* for collective I/O, SC_SCDA_CHECK_COLL_COUNT_ERR.
CheckColl ==
  /\ ~Idle
  /\ \E st \in Collective, i \in DOMAIN stages :
       /\ stages[i] = st /\ Sync(st)
       /\ \E may \in {[r \in Rank |-> Outcomes(Checks(st, r))]} :
          \E o \in [Rank -> UNION {may[r] : r \in Rank}], d \in Draws(seeds_agree) :
            /\ \A r \in Rank : o[r] \in may[r]
            /\ seeds_agree => \A r, q \in Rank : may[r] = may[q] => o[r] = o[q]
            /\ LET fails(r) == o[r].code # "SUCCESS"
                   io       == st \in {"write_array", "read_array"}
                   ends(r)  == fails(r) \/ st = "close"
               IN  /\ ~io \/ (\E r \in Rank : fails(r)) => d = All("SUCCESS")
                   /\ errcode' = [r \in Rank |-> IF fails(r) /\ o[r].code # "SHORT" THEN o[r].code
                                               ELSE IF io THEN CollCountErr(o[r].code, d[r]) ELSE "SUCCESS"]
                   /\ fc' = [r \in Rank |-> IF ends(r) THEN Closed ELSE Passed(r, st)]
                   /\ stage' = [r \in Rank |-> IF ends(r) THEN 0 ELSE NextStage(i)]
                   /\ file' = IF st = "write_array" /\ \A r \in Rank : o[r].done
                              THEN Stage(st, HEADER_ROOT, FALSE).put @@ file
                              ELSE IF st = "open" /\ phase = "write" THEN <<>> ELSE file
                   /\ out' = IF st = "read_array" /\ \A r \in Rank : ~fails(r)
                             THEN [r \in Rank |-> Share(r, fc[r].accessed_bytes)] ELSE out
                   /\ phase' = IF st = "close" THEN IF phase = "write" THEN "closed" ELSE "end" ELSE phase
  /\ UNCHANGED <<mode, count_err, call, acted, seeds_agree, written>>

\* A function that fails has closed the file; nothing more can be done.
Finish ==
  /\ Idle /\ phase \in {"write", "read"} /\ \A r \in Rank : ~fc[r].live
  /\ phase' = "end"
  /\ UNCHANGED <<mode, file, fc, errcode, count_err, call, stage, acted, seeds_agree, out, written>>

Done == phase = "end" /\ UNCHANGED vars

Next ==
  \/ sc_scda_fopen_write \/ sc_scda_fwrite_inline \/ sc_scda_fwrite_block \/ sc_scda_fwrite_array
  \/ sc_scda_fopen_read \/ sc_scda_fread_section_header \/ sc_scda_fread_inline_data
  \/ sc_scda_fread_block_data \/ sc_scda_fread_array_data \/ sc_scda_fclose
  \/ \E r \in Rank : Skip(r) \/ Serial(r)
  \/ Handle \/ CheckColl \/ Finish \/ Done

Spec == Init /\ [][Next]_vars

-----------------------------------------------------------------------------
(* Properties                                                              *)

\* Where section i begins, by the definition of the format.
HeaderBytes(k) == COMMON_FIELD + CountBytes(k)
DataBytes(w) == IF w.k = "A" THEN w.count * w.size ELSE w.size
SectionBytes(w) ==
  HeaderBytes(w.k) + DataBytes(w) + IF w.k = "I" THEN 0 ELSE PadToModLen(DataBytes(w))
Offset ==
  LET at[i \in 1 .. Len(written) + 1] ==
        IF i = 1 THEN HEADER_BYTES ELSE at[i - 1] + SectionBytes(written[i - 1])
  IN  at

\* The elements of section i, by number.
Element(i, j) ==
  LET w == written[i] IN Item(i, j, w.size, w.nl /\ j = IF w.k = "A" THEN w.count - 1 ELSE 0)
Elements(i) == IF written[i].k = "A" THEN 0 .. written[i].count - 1 ELSE IF written[i].size = 0 THEN {} ELSE {0}

\* Whatever the partition and the root, the file that was written holds each
\* section at the place, with the counts, elements and padding that the format
\* prescribes: it does not depend on the number of processes.  (The first byte
\* of the padding of an indirect array is excepted, see ReadsBack.)
SerialEquivalent ==
  Idle /\ (phase = "closed" \/ (phase = "write" /\ Usable)) /\ file # <<>> =>
    /\ FileBytes = Offset[Len(written) + 1]
    /\ \A i \in DOMAIN written :
         LET w == written[i]
             data == Offset[i] + HeaderBytes(w.k)
             pad  == Field(data + DataBytes(w))
         IN  /\ Field(Offset[i]).k = w.k /\ Field(Offset[i]).user = w.user
             /\ w.k = "B" => Field(data - COUNT_FIELD) = Count("E", w.size)
             /\ w.k = "A" => /\ Field(data - 2 * COUNT_FIELD) = Count("N", w.count)
                             /\ Field(data - COUNT_FIELD) = Count("E", w.size)
             /\ \A j \in Elements(i) : Field(data + j * w.size) = Element(i, j)
             /\ w.k # "I" => \/ pad = PadToMod(w.nl, DataBytes(w))
                             \/ w.indirect /\ pad.k = "pad" /\ pad.len = PadToModLen(DataBytes(w))

\* The padding of an indirect array was derived from the wrong byte.
Misled == \E i \in DOMAIN written :
  LET o == Offset[i] + HeaderBytes(written[i].k) + DataBytes(written[i])
  IN  written[i].indirect /\ Field(o) # PadToMod(written[i].nl, DataBytes(written[i]))

\* Without faults a file is read back with any partition and any ranks that
\* skip data: headers and elements arrive as they were written, and a reading
\* function only fails if it does not fit the section or if the file is at
\* its end.  (Not for a file whose indirect arrays misled the padding.)
ReadsBack ==
  mode = "clean" /\ phase = "read" /\ Idle /\ call.op # "fopen_read" /\ ~Misled =>
    \/ \A r \in Rank : ~fc[r].live /\ errcode[r] = "USAGE"
                       /\ call.op \in DOMAIN Letter
    \/ \A r \in Rank : ~fc[r].live /\ errcode[r] = "COUNT" /\ HeaderRead
    \/ /\ HeaderRead
       /\ \E i \in DOMAIN written : \A r \in Rank :
            /\ fc[r].live /\ fc[r].accessed_bytes = Offset[i] + HeaderBytes(written[i].k)
            /\ out[r] = [k |-> written[i].k, user |-> written[i].user,
                         elem_count |-> IF written[i].k = "A" THEN written[i].count ELSE 0,
                         elem_size |-> IF written[i].k = "I" THEN 0 ELSE written[i].size]
    \/ /\ ~HeaderRead
       /\ \E i \in DOMAIN written : \A r \in Rank :
            /\ fc[r].live /\ fc[r].accessed_bytes = Offset[i + 1] /\ call.op \in DOMAIN Letter
            /\ Letter[call.op] = written[i].k
            /\ out[r] = {Element(i, j) : j \in {j \in Elements(i) :
                           ~call.skip[r] /\ IF written[i].k = "A"
                                            THEN j \in Before(call.counts, r) .. Before(call.counts, r + 1) - 1
                                            ELSE r = call.root}}

\* When a function has returned, the ranks agree on its error code, on whether
\* the file is still open, on the place in the file and on the section whose
\* data comes next: this is what makes every function callable collectively.
RanksAgree ==
  Idle => \A r, q \in Rank : errcode[r] = errcode[q] /\ fc[r] = fc[q]

\* No rank waits in a collective operation that another rank has passed by,
\* or has left the function without.
NotOvertaken ==
  \A r, q \in Rank :
    stage[r] # 0 /\ stage[q] # stage[r] =>
      \/ stage[q] # 0 /\ stage[q] < stage[r]
      \/ At(r) \in {"read_inline", "read_block"} /\ call.skip[r]

\* errcode encodes success if and only if the function does not return NULL.
ErrcodeIffNull ==
  Idle /\ phase \in {"write", "read"} =>
    \A r \in Rank : fc[r].live <=> errcode[r] = "SUCCESS"

=============================================================================
