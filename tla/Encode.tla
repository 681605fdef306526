------------------------------- MODULE Encode -------------------------------
(* Binary data as text: the base 64 coder (libb64), the uncompressed zlib     *)
(* format written without zlib, sc_io_encode, sc_io_decode_info, sc_io_decode *)
(* and the two VTK writers (sc_io.c).                                         *)
(* Bytes and characters are numbers; sizes of lines, blocks and chunks are    *)
(* constants.  zlib's compress2 and the decompressor of sc_puff are external. *)
EXTENDS Integers, Sequences, SequencesExt

CONSTANTS Bytes,      \* the byte values data is made of
          MaxLen,     \* bound on the length of the data
          DBC,        \* SC_IO_DBC: data bytes in a line of text
          Block,      \* SC_IO_NONCOMP_BLOCK, and the block size of VTK
          Chunk,      \* bytes passed to the coder at a time by VTK
          Damage,     \* the characters a damaged text may contain
          ElemSizes,  \* element sizes of the array decoded into
          MaxSizes    \* values of max_original_size

VARIABLES data, phase, text, clean, result, info

vars == <<data, phase, text, clean, result, info>>

LBC == (DBC \div 3) * 4
LBE == LBC + 2
EQ == 61
NL == 10
NUL == 0

(* base64_encode_value, base64_decode_value: the alphabet and its inverse.    *)
base64_encode_value(v) ==
  CASE v < 26 -> 65 + v [] v < 52 -> 71 + v [] v < 62 -> v - 4 [] v = 62 -> 43 [] OTHER -> 47
decoding == <<62, -1, -1, -1, 63>> \o [i \in 1 .. 10 |-> 51 + i] \o <<-1, -1, -1, -2, -1, -1, -1>>
            \o [i \in 1 .. 26 |-> i - 1] \o [i \in 1 .. 6 |-> -1] \o [i \in 1 .. 26 |-> 25 + i]
base64_decode_value(c) == IF c - 43 \in 0 .. Len(decoding) - 1 THEN decoding[c - 42] ELSE -1

(* The coder's state survives between blocks, so a block may end anywhere.    *)
base64_init == [step |-> 0, result |-> 0, out |-> <<>>]

EncodeByte(s, b) ==
  CASE s.step = 0 -> [step |-> 1, result |-> (b % 4) * 16,
                      out |-> Append(s.out, base64_encode_value(b \div 4))]
    [] s.step = 1 -> [step |-> 2, result |-> (b % 16) * 4,
                      out |-> Append(s.out, base64_encode_value(s.result + b \div 16))]
    [] OTHER      -> [step |-> 0, result |-> b % 64,
                      out |-> s.out \o <<base64_encode_value(s.result + b \div 64),
                                         base64_encode_value(b % 64)>>]

base64_encode_block(s, plain) == FoldLeft(EncodeByte, [s EXCEPT !.out = <<>>], plain)

base64_encode_blockend(s) ==
  CASE s.step = 1 -> <<base64_encode_value(s.result), EQ, EQ>>
    [] s.step = 2 -> <<base64_encode_value(s.result), EQ>>
    [] OTHER      -> <<>>

(* Characters outside of the alphabet are skipped.                            *)
DecodeChar(s, c) ==
  LET f == base64_decode_value(c) IN
  CASE f < 0      -> s
    [] s.step = 0 -> [step |-> 1, result |-> f * 4, out |-> s.out]
    [] s.step = 1 -> [step |-> 2, result |-> (f % 16) * 16, out |-> Append(s.out, s.result + f \div 16)]
    [] s.step = 2 -> [step |-> 3, result |-> (f % 4) * 64, out |-> Append(s.out, s.result + f \div 4)]
    [] OTHER      -> [step |-> 0, result |-> 0, out |-> Append(s.out, s.result + f)]

base64_decode_block(s, code) == FoldLeft(DecodeChar, [s EXCEPT !.out = <<>>], code)

-----------------------------------------------------------------------------
(* sc_io_adler32: two sums modulo 65521.                                      *)
sc_io_adler32(s) ==
  LET sums == FoldLeft(LAMBDA a, b : <<(a[1] + b) % 65521, (a[2] + a[1] + b) % 65521>>, <<1, 0>>, s)
  IN <<sums[2] \div 256, sums[2] % 256, sums[1] \div 256, sums[1] % 256>>

Blocks(s, n) == [i \in 1 .. ((Len(s) + n - 1) \div n) |->
                   SubSeq(s, (i - 1) * n + 1, IF i * n < Len(s) THEN i * n ELSE Len(s))]

(* sc_io_noncompress: header, stored blocks (one even without data), sum.     *)
BlockHeader(last, n) == <<last, n % 256, n \div 256, 255 - (n % 256), 255 - (n \div 256)>>
sc_io_noncompress(s) ==
  LET bs == IF s = <<>> THEN <<s>> ELSE Blocks(s, Block)
  IN <<120, 1>> \o FlattenSeq([i \in 1 .. Len(bs) |->
                      BlockHeader(IF i = Len(bs) THEN 1 ELSE 0, Len(bs[i])) \o bs[i]])
     \o sc_io_adler32(s)

sc_io_noncompress_bound(n) ==
  LET blocks == (n + Block - 1) \div Block IN 2 + 5 * (IF blocks > 1 THEN blocks ELSE 1) + n + 4

(* Stored blocks are read from z, all within the room of n bytes; the result  *)
(* is the data and the number of bytes used, or an error.                     *)
Error == [ok |-> FALSE, out |-> <<>>]
StoredBlock(z, s) ==
  LET at == s.used
      n == z[at + 2] + 256 * z[at + 3]
  IN IF s.final \/ ~s.ok THEN s
     ELSE IF Len(z) - at < 5 \/ z[at + 1] > 1 THEN [s EXCEPT !.ok = FALSE]
     ELSE IF z[at + 2] + z[at + 4] # 255 \/ z[at + 3] + z[at + 5] # 255 \/ n > Len(z) - at - 5
          THEN [s EXCEPT !.ok = FALSE]
     ELSE [ok |-> TRUE, final |-> z[at + 1] = 1, used |-> at + 5 + n,
           out |-> s.out \o SubSeq(z, at + 6, at + 5 + n)]
sc_puff(z) == FoldLeft(LAMBDA s, i : StoredBlock(z, s),
                       [ok |-> TRUE, final |-> FALSE, used |-> 0, out |-> <<>>],
                       [i \in 1 .. Len(z) \div 5 + 1 |-> i])

sc_io_nonuncompress(size, z) ==
  IF Len(z) < 2 THEN Error
  ELSE IF z[1] % 16 # 8 \/ z[1] >= 128 \/ (z[1] * 256 + z[2]) % 31 # 0 \/ (z[2] \div 32) % 2 = 1
       THEN Error
  ELSE IF Len(z) - 2 < 5 THEN Error
  ELSE LET p == sc_puff(SubSeq(z, 3, Len(z) - 4))
       IN IF p.ok /\ p.final /\ p.used = Len(z) - 6 /\ size = <<0, 0, 0, 0, 0, 0, Len(p.out) \div 256, Len(p.out) % 256>>
             /\ SubSeq(z, Len(z) - 3, Len(z)) = sc_io_adler32(p.out)
          THEN [ok |-> TRUE, out |-> p.out] ELSE Error

-----------------------------------------------------------------------------
(* sc_io_encode_zlib: the size in eight bytes, big endian, the letter z and   *)
(* the compressed data, coded line by line with one coder state.              *)
INFO_LEN == 9
original_size(s) == <<0, 0, 0, 0, 0, 0, Len(s) \div 256, Len(s) % 256, 122>>
encoded_size(n) == 4 * ((n + 2) \div 3) + 2 * ((n + DBC - 1) \div DBC) + 1
EncodeLine(s, line) ==
  LET t == base64_encode_block(s, line) IN [t EXCEPT !.out = s.out \o t.out \o <<EQ, NL>>]
sc_io_encode(s) ==
  LET plain == original_size(s) \o sc_io_noncompress(s)
      lines == Blocks(plain, DBC)
      all == FoldLeft(EncodeLine, base64_init, Front(lines))
      end == base64_encode_block(all, Last(lines))
  IN all.out \o end.out \o base64_encode_blockend(end) \o <<EQ, NL, NUL>>

(* sc_io_decode_info: twelve characters give the nine bytes of the info.      *)
sc_io_decode_info(t) ==
  LET dec == base64_decode_block(base64_init, SubSeq(t, 1, 12)).out
  IN IF Len(t) < 12 \/ Len(dec) # 9 THEN Error ELSE [ok |-> TRUE, out |-> dec]

(* sc_io_decode: line by line with one decoder state; every line but the last *)
(* must give DBC bytes, the last at least one.                                *)
DecodeLine(t, s, i) ==
  LET lines == (Len(t) - 1 + LBE - 1) \div LBE
      irem == Len(t) - 1 - 2 * lines - (i - 1) * LBC
      lein == IF irem < LBC THEN irem ELSE LBC
      d == base64_decode_block(s, SubSeq(t, (i - 1) * LBE + 1, (i - 1) * LBE + lein))
  IN IF ~s.ok THEN s
     ELSE IF Len(d.out) = 0 \/ (i < lines /\ Len(d.out) # DBC) THEN [s EXCEPT !.ok = FALSE]
     ELSE [ok |-> TRUE, step |-> d.step, result |-> d.result, out |-> s.out \o d.out]
sc_io_decode(t, elem_size, max_original_size) ==
  LET lines == (Len(t) - 1 + LBE - 1) \div LBE
      d == FoldLeft(LAMBDA s, i : DecodeLine(t, s, i), [ok |-> TRUE] @@ base64_init,
                    [i \in 1 .. lines |-> i])
      size == SubSeq(d.out, 1, 8)
  IN IF t = <<>> \/ Last(t) # NUL THEN Error
     ELSE IF ~d.ok \/ Len(d.out) < INFO_LEN THEN Error
     ELSE IF d.out[INFO_LEN] # 122 \/ size[8] % elem_size # 0 THEN Error
     ELSE IF max_original_size > 0 /\ (size[8] > max_original_size \/ \E i \in 1 .. 7 : size[i] # 0) THEN Error
     ELSE sc_io_nonuncompress(size, SubSeq(d.out, INFO_LEN + 1, Len(d.out)))

-----------------------------------------------------------------------------
(* Faulty variant: the coder starts afresh with every chunk.                  *)
EncodePartAfresh(s, part) ==
  LET t == base64_encode_block(base64_init, part) IN [t EXCEPT !.out = s.out \o t.out]

(* sc_vtk_write_binary: a 32 bit length, then the data in chunks, as one      *)
(* base 64 stream.                                                            *)
Word(n) == <<n % 256, (n \div 256) % 256, 0, 0>>
EncodePart(s, part) ==
  LET t == base64_encode_block(s, part) IN [t EXCEPT !.out = s.out \o t.out]
Stream(parts) ==
  LET s == FoldLeft(EncodePart, base64_init, parts) IN s.out \o base64_encode_blockend(s)
sc_vtk_write_binary(s) == Stream(<<Word(Len(s))>> \o Blocks(s, Chunk))

(* compress2 of zlib, external: any injection will do.                        *)
compress2(s) == <<Len(s) + 7>> \o s
uncompress2(c) == Tail(c)

(* sc_vtk_write_compressed: a header of zeros is written first and replaced   *)
(* once the compressed sizes are known; the data must not be touched by it.   *)
VtkHeader(s, sizes) ==
  LET last == Len(s) % Block
  IN Stream(<<FlattenSeq(<<Word(Len(sizes)), Word(Block),
                           Word(IF last > 0 \/ s = <<>> THEN last ELSE Block)>>
                         \o [i \in 1 .. Len(sizes) |-> Word(sizes[i])])>>)
Overwrite(f, pos, s) ==
  [i \in 1 .. (IF pos + Len(s) > Len(f) THEN pos + Len(s) ELSE Len(f)) |->
     IF pos < i /\ i <= pos + Len(s) THEN s[i - pos] ELSE f[i]]
sc_vtk_write_compressed(f, s) ==
  LET comp == [i \in 1 .. Len(Blocks(s, Block)) |-> compress2(Blocks(s, Block)[i])]
      dummy == VtkHeader(s, [i \in 1 .. Len(comp) |-> 0])
      header == VtkHeader(s, [i \in 1 .. Len(comp) |-> Len(comp[i])])
  IN Overwrite(f \o dummy \o Stream(comp), Len(f), header)

-----------------------------------------------------------------------------
Init == /\ data \in SeqOf(Bytes, MaxLen) /\ phase = "data"
        /\ text = <<>> /\ clean = TRUE /\ result = Error /\ info = Error

Encode == /\ phase = "data" /\ phase' = "text" /\ text' = sc_io_encode(data)
          /\ UNCHANGED <<data, clean, result, info>>

(* One character of the text is lost to another one on the way.               *)
Corrupt == /\ phase = "text" /\ clean
           /\ \E i \in 1 .. Len(text) : \E c \in Damage \cup {text[i] + 1} : text' = [text EXCEPT ![i] = c]
           /\ clean' = FALSE /\ UNCHANGED <<data, phase, result, info>>

Decode == /\ phase = "text" /\ phase' = "decoded" /\ info' = sc_io_decode_info(text)
          /\ \E e \in ElemSizes, m \in MaxSizes :
               /\ Len(data) % e = 0 /\ (m > 0 => Len(data) <= m)
               /\ result' = sc_io_decode(text, e, m)
          /\ UNCHANGED <<data, text, clean>>

WriteVtk == /\ phase = "data" /\ phase' \in {"vtk", "vtkz"}
            /\ text' = IF phase' = "vtk" THEN sc_vtk_write_binary(data)
                       ELSE sc_vtk_write_compressed(<<NL>>, data)
            /\ UNCHANGED <<data, clean, result, info>>

Done == phase \in {"decoded", "vtk", "vtkz"} /\ UNCHANGED vars

Next == Encode \/ Corrupt \/ Decode \/ WriteVtk \/ Done

Spec == Init /\ [][Next]_vars

-----------------------------------------------------------------------------
(* What sc_io_encode writes, sc_io_decode reads back, for data of any length  *)
(* over line, block and coder boundaries, and the text has the size computed  *)
(* in advance (the assertion ocnt == encoded_size of sc_io.c:1009).  A single *)
(* damaged character never goes unnoticed: decoding fails or the data is      *)
(* still right (sc_io.h: "This function detects malformed input by erroring   *)
(* out").                                                                     *)
DecodesWhatWasEncoded ==
  /\ phase = "text" => Len(text) = encoded_size(INFO_LEN + sc_io_noncompress_bound(Len(data)))
  /\ phase = "decoded" =>
       /\ clean => result = [ok |-> TRUE, out |-> data] /\ info = [ok |-> TRUE, out |-> original_size(data)]
       /\ result.ok => result.out = data

(* A reader of the VTK files gets the data back: the coder carries its state  *)
(* over chunks whose length is no multiple of three, and the header written   *)
(* last covers exactly the place held for it.                                 *)
Plain(code) == base64_decode_block(base64_init, code).out
HeaderCode(n) == 4 * ((4 * (3 + n) + 2) \div 3)
VtkReadsBack ==
  /\ phase = "vtk" => Plain(text) = Word(Len(data)) \o data
  /\ phase = "vtkz" =>
       LET n == Len(Blocks(data, Block))
           header == Plain(SubSeq(text, 2, 1 + HeaderCode(n)))
           rest == Plain(SubSeq(text, 2 + HeaderCode(n), Len(text)))
           size(i) == header[9 + 4 * i]
           start(i) == FoldLeft(LAMBDA a, j : a + size(j), 0, [j \in 1 .. i - 1 |-> j])
       IN /\ header[1] = n
          /\ FlattenSeq([i \in 1 .. n |-> uncompress2(SubSeq(rest, start(i) + 1, start(i) + size(i)))]) = data
=============================================================================
