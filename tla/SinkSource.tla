----------------------------- MODULE SinkSource -----------------------------
(* Sinks and sources of bytes (sc_io.c): a sink appends to an array or to a   *)
(* file, a source reads from one, either aligns to byte boundaries counted    *)
(* from the last completion, and a source on a file can mirror what it reads. *)
(* A session writes through a sink and then reads through a source, replaying *)
(* the operations of the writer one by one.  Written bytes are numbered, so   *)
(* that each one is told apart; alignment writes zeros.                       *)
EXTENDS Integers, Sequences, SequencesExt

CONSTANTS Types,    \* iotypes: "BUFFER", "FILENAME", "FILEFILE"
          Appends,  \* the iotypes opened in mode APPEND (others: WRITE)
          ElemSizes,\* element sizes of a buffer
          Sizes,    \* lengths passed to write and read
          Aligns,   \* byte boundaries aligned to
          MaxOps,   \* bound on the operations on the sink
          Window    \* bytes read at a time by sc_io_file_load

VARIABLES store,   \* bytes of the array or of the file
          old,     \* what it held before the session
          sink, source,
          script,  \* operations the sink carried out
          at,      \* number of operations the source has replayed
          seen,    \* bytes passed out while the mirror was active
          wrong,   \* a replayed operation went differently
          loaded   \* result of sc_io_file_load: bytes and state

vars == <<store, old, sink, source, script, at, seen, wrong, loaded>>

NULL == [iotype |-> "NULL"]
Garbage == -1
IsFile(x) == x.iotype \in {"FILENAME", "FILEFILE"}
least(a, b) == IF a < b THEN a ELSE b
Written == FoldLeft(LAMBDA n, o : n + (IF o[1] = "write" THEN Len(o[2]) ELSE 0), 0, script)
NotLoaded == [buffer |-> <<>>, state |-> "none"]

Init == /\ old \in {<<>>, <<101, 102>>} /\ store = old
        /\ sink = NULL /\ source = NULL /\ script = <<>> /\ at = 0
        /\ seen = <<>> /\ wrong = FALSE /\ loaded = NotLoaded

-----------------------------------------------------------------------------
(* sc_io_sink_new: mode WRITE empties the array or file.  What an appended    *)
(* file holds already is for a reader as if it had been written and completed *)
(* before.                                                                    *)
sc_io_sink_new(t, es) ==
  /\ sink = NULL /\ source = NULL /\ script = <<>> /\ loaded = NotLoaded
  /\ (t = "BUFFER" => Len(old) % es = 0) /\ (t # "BUFFER" => es = 1)
  /\ sink' = [iotype |-> t, elem_size |-> es, buffer_bytes |-> 0, bytes_in |-> 0, bytes_out |-> 0]
  /\ store' = IF t \in Appends THEN store ELSE <<>>
  /\ script' = IF t \in Appends /\ old # <<>> THEN <<<<"write", old>>, <<"complete", 0>>>> ELSE script
  /\ UNCHANGED <<old, source, at, seen, wrong, loaded>>

Resized(s, n) == [i \in 1 .. n |-> IF i <= Len(s) THEN s[i] ELSE Garbage]

(* sc_io_sink_write: the array is resized to whole elements and the data      *)
(* copied behind the bytes written so far; the file is appended to.  A short  *)
(* write to a file is an error that leaves the counters, and ends the session *)
(* of the writer.                                                             *)
sink_write(k, d) ==
  IF d = <<>> THEN k
  ELSE [k EXCEPT !.buffer_bytes = IF IsFile(k) THEN @ ELSE @ + Len(d),
                 !.bytes_in = @ + Len(d), !.bytes_out = @ + Len(d)]
stored(s, k, d) ==
  IF IsFile(k) \/ d = <<>> THEN s \o d
  ELSE LET es == k.elem_size
           room == Resized(s, ((k.buffer_bytes + Len(d) + es - 1) \div es) * es)
       IN [i \in 1 .. Len(room) |->
             IF k.buffer_bytes < i /\ i <= k.buffer_bytes + Len(d) THEN d[i - k.buffer_bytes] ELSE room[i]]

Failed == script # <<>> /\ Last(script)[1] = "failed"
Ready == sink # NULL /\ Len(script) < MaxOps /\ ~Failed

sc_io_sink_write(n) ==
  LET d == [i \in 1 .. n |-> Written + i] IN
  /\ Ready
  /\ \/ /\ sink' = sink_write(sink, d) /\ store' = stored(store, sink, d)
        /\ script' = Append(script, <<"write", d>>)
     \/ \E k \in 0 .. n - 1 :
          /\ IsFile(sink) /\ store' = store \o SubSeq(d, 1, k)
          /\ script' = Append(script, <<"failed", k>>) /\ UNCHANGED sink
  /\ UNCHANGED <<old, source, at, seen, wrong, loaded>>

fill_bytes(k, align) == (align - (k.bytes_out % align)) % align

sc_io_sink_align(align) ==
  LET d == [i \in 1 .. fill_bytes(sink, align) |-> 0] IN
  /\ Ready
  /\ sink' = sink_write(sink, d) /\ store' = stored(store, sink, d)
  /\ script' = Append(script, <<"align", align>>)
  /\ UNCHANGED <<old, source, at, seen, wrong, loaded>>

(* sc_io_sink_complete, sc_io_source_complete: AGAIN while an element of the  *)
(* array is incomplete, and then the counters stay.                           *)
Again(x) == x.iotype = "BUFFER" /\ x.buffer_bytes % x.elem_size # 0
completed(x) == IF Again(x) THEN x ELSE [x EXCEPT !.bytes_in = 0, !.bytes_out = 0]

sc_io_sink_complete ==
  /\ Ready /\ sink' = completed(sink)
  /\ script' = Append(script, <<"complete", IF Again(sink) THEN 1 ELSE 0>>)
  /\ UNCHANGED <<store, old, source, at, seen, wrong, loaded>>

(* sc_io_sink_destroy completes the sink, closes a named file and frees it.   *)
sc_io_sink_destroy ==
  /\ sink # NULL /\ sink' = NULL
  /\ script' = Append(script, <<"destroy", IF Again(sink) THEN 1 ELSE 0>>)
  /\ IF Failed THEN UNCHANGED source ELSE \E t \in (IF sink.iotype = "BUFFER" THEN {"BUFFER"} ELSE Types \ {"BUFFER"}) :
       source' = [iotype |-> t, elem_size |-> sink.elem_size, buffer_bytes |-> 0,
                  bytes_in |-> 0, bytes_out |-> 0, is_eof |-> FALSE, mirror |-> FALSE, mirrored |-> <<>>]
  /\ UNCHANGED <<store, old, at, seen, wrong, loaded>>

-----------------------------------------------------------------------------
(* sc_io_source_read: of n bytes, k are read.  Skipping (data NULL) in a file *)
(* seeks, past the end too, without reaching the end of file; reading notes   *)
(* the end.  A short read is an error when the caller passes no bytes_out.    *)
(* buffer_bytes stands for the position in a file as well.                    *)
readable(x, n, data) ==
  IF n = 0 \/ x.is_eof THEN 0
  ELSE IF IsFile(x) /\ ~data THEN n
  ELSE IF Len(store) < x.buffer_bytes THEN 0 ELSE least(Len(store) - x.buffer_bytes, n)

bytes(x, k) == SubSeq(store, x.buffer_bytes + 1, x.buffer_bytes + k)

(* Faulty variant: bytes that are skipped are not counted.                    *)
SkipUncounted(x, n, data, exact) ==
  LET k == readable(x, n, data)
      end == n > 0 /\ (x.is_eof \/ IF IsFile(x) THEN k < n /\ data ELSE k = 0)
      y == [x EXCEPT !.is_eof = @ \/ end, !.buffer_bytes = @ + k,
                     !.mirrored = IF x.mirror /\ data THEN @ \o bytes(x, k) ELSE @]
  IN IF (n = 0 \/ x.is_eof) THEN [x |-> x, err |-> FALSE, out |-> <<>>]
     ELSE IF exact /\ k < n THEN [x |-> y, err |-> TRUE, out |-> <<>>]
     ELSE [x |-> IF data THEN [y EXCEPT !.bytes_in = @ + k, !.bytes_out = @ + k] ELSE y, err |-> FALSE,
           out |-> IF data THEN bytes(x, k) ELSE <<>>]

source_read(x, n, data, exact) ==
  LET k == readable(x, n, data)
      eof == n > 0 /\ (x.is_eof \/ IF IsFile(x) THEN k < n /\ data ELSE k = 0)
      y == [x EXCEPT !.is_eof = @ \/ eof, !.buffer_bytes = @ + k,
                     !.mirrored = IF x.mirror /\ data THEN @ \o bytes(x, k) ELSE @]
  IN IF (n = 0 \/ x.is_eof) THEN [x |-> x, err |-> FALSE, out |-> <<>>]
     ELSE IF exact /\ k < n THEN [x |-> y, err |-> TRUE, out |-> <<>>]
     ELSE [x |-> [y EXCEPT !.bytes_in = @ + k, !.bytes_out = @ + k], err |-> FALSE,
           out |-> IF data THEN bytes(x, k) ELSE <<>>]

Replayed(r, asexpected) ==
  /\ source' = r.x /\ at' = at + 1 /\ wrong' = (wrong \/ r.err \/ ~asexpected)
  /\ seen' = IF source.mirror THEN seen \o r.out ELSE seen
  /\ UNCHANGED <<store, old, sink, script, loaded>>

Reading == source # NULL /\ at < Len(script)

sc_io_source_read ==
  /\ Reading /\ script[at + 1][1] = "write"
  /\ \E data, exact \in BOOLEAN :
       LET d == script[at + 1][2]
           r == source_read(source, Len(d), data, exact)
       IN Replayed(r, data => r.out = d)

sc_io_source_align ==
  /\ Reading /\ script[at + 1][1] = "align"
  /\ Replayed(source_read(source, fill_bytes(source, script[at + 1][2]), FALSE, TRUE), TRUE)

sc_io_source_complete ==
  /\ Reading /\ script[at + 1][1] = "complete"
  /\ Replayed([x |-> completed(source), err |-> FALSE, out |-> <<>>],
              Again(source) = (script[at + 1][2] = 1))

(* sc_io_source_destroy: completes, frees the mirror and the source.          *)
sc_io_source_destroy ==
  /\ Reading /\ script[at + 1][1] = "destroy"
  /\ wrong' = (wrong \/ Again(source) # (script[at + 1][2] = 1))
  /\ source' = NULL /\ at' = at + 1 /\ UNCHANGED <<store, old, sink, script, seen, loaded>>

sc_io_source_activate_mirror ==
  /\ Reading /\ IsFile(source) /\ ~source.mirror
  /\ source' = [source EXCEPT !.mirror = TRUE]
  /\ UNCHANGED <<store, old, sink, script, at, seen, wrong, loaded>>

(* sc_io_source_read_mirror reads from the start of the mirror, each time.    *)
read_mirror(x, n) == SubSeq(x.mirrored, 1, least(n, Len(x.mirrored)))

-----------------------------------------------------------------------------
(* sc_io_file_save: the file becomes the buffer, or is left with a part of it *)
(* and an error is returned.                                                  *)
sc_io_file_save(n) ==
  /\ sink = NULL /\ source = NULL /\ script = <<>> /\ loaded = NotLoaded
  /\ store' = [i \in 1 .. n |-> i] /\ script' = <<<<"saved", n>>>>
  /\ UNCHANGED <<old, sink, source, at, seen, wrong, loaded>>

(* sc_io_file_load: windows are read until one comes back short; each read    *)
(* may fail, which abandons the buffer.                                       *)
sc_io_file_load ==
  /\ script # <<>> /\ script[1][1] = "saved" /\ loaded.state \in {"none", "reading"}
  /\ LET bpos == Len(loaded.buffer)
         bout == least(Window, Len(store) - bpos)
     IN \/ loaded' = [buffer |-> loaded.buffer \o SubSeq(store, bpos + 1, bpos + bout),
                      state |-> IF bout < Window THEN "loaded" ELSE "reading"]
        \/ loaded' = [buffer |-> loaded.buffer, state |-> "failed"]
  /\ UNCHANGED <<store, old, sink, source, script, at, seen, wrong>>

Done == /\ sink = NULL /\ source = NULL /\ script # <<>>
        /\ (at = Len(script) \/ (\E o \in Range(script) : o[1] = "failed") \/ loaded.state \in {"loaded", "failed"}) /\ UNCHANGED vars

Next == \/ \E t \in Types, es \in ElemSizes : sc_io_sink_new(t, es)
        \/ \E n \in Sizes : sc_io_sink_write(n) \/ sc_io_file_save(n)
        \/ \E a \in Aligns : sc_io_sink_align(a)
        \/ sc_io_sink_complete \/ sc_io_sink_destroy
        \/ sc_io_source_read \/ sc_io_source_align \/ sc_io_source_complete
        \/ sc_io_source_destroy \/ sc_io_source_activate_mirror
        \/ sc_io_file_load \/ Done

Spec == Init /\ [][Next]_vars

-----------------------------------------------------------------------------
(* A source that performs the operations of the sink in the same order gets   *)
(* the same bytes: reads return what was written, aligning skips the zeros    *)
(* that aligning wrote wherever completions reset the counters, an incomplete *)
(* element is reported by both sides, and what an appended file held comes    *)
(* first (sc_io.h:84, "Semantics as "a" in fopen").                           *)
SourceFollowsSink == ~wrong

(* The mirror holds exactly the bytes passed out since it was activated, in   *)
(* that order, across skips, short reads and completions; and loading a saved *)
(* file returns all of it for any length relative to the window.              *)
MirrorAndLoadAreExact ==
  /\ source # NULL => /\ source.mirrored = seen
                      /\ read_mirror(source, Len(seen)) = seen
  /\ loaded.state = "loaded" => loaded.buffer = store
=============================================================================
