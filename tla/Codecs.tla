------------------------------- MODULE Codecs -------------------------------
(***************************************************************************)
(* The codecs that websocketpp's frames and handshakes rest on: masking,   *)
(* base64 and the block handling of md5 and sha1, machines that share no   *)
(* state.                                                                  *)
(***************************************************************************)
EXTENDS Integers, Sequences, SequencesExt

-----------------------------------------------------------------------------
(***************************************************************************)
(* The masking functions of frame.hpp, on words of 4 or 8 bytes, the least *)
(* significant first, of machines of either byte order.  A byte of the key *)
(* is its index in the key, and a masked byte the index of the key's byte  *)
(* it was combined with.                                                   *)
(***************************************************************************)
CONSTANTS MaxChunk,     \* bound on the bytes of a call
          MaxPayload    \* bound on the bytes of a payload

VARIABLES machine,      \* sizeof(size_t) and is_little_endian
          key,          \* prepared_key
          masked        \* the payload so far
maskVars == <<machine, key, masked>>

NoByte == -1
MaskWord == 1 .. machine.size
Memory(w) == IF machine.little THEN w ELSE Reverse(w)
MaskLeft(w, n) == [i \in MaskWord |-> IF i <= n THEN NoByte ELSE w[i - n]]
MaskRight(w, n) == [i \in MaskWord |-> IF i + n <= machine.size THEN w[i + n] ELSE NoByte]
MaskOr(v, w) == [i \in MaskWord |-> IF v[i] = NoByte THEN w[i] ELSE v[i]]

\* key.i, once or twice.
prepare_masking_key(m) ==
  LET low == IF m.little THEN <<0, 1, 2, 3>> ELSE <<3, 2, 1, 0>> IN
    IF m.size = 8 THEN low \o low ELSE low

\* Variant of circshift_prepared_key for one byte order.
circshift_little(w, offset) ==
  IF offset = 0 THEN w ELSE MaskOr(MaskRight(w, offset), MaskLeft(w, machine.size - offset))

circshift_prepared_key(w, offset) ==
  IF offset = 0 THEN w
  ELSE IF machine.little THEN MaskOr(MaskRight(w, offset), MaskLeft(w, machine.size - offset))
  ELSE MaskOr(MaskLeft(w, offset), MaskRight(w, machine.size - offset))

MaskInit ==
  /\ machine \in [size : {4, 8}, little : BOOLEAN]
  /\ key = prepare_masking_key(machine)
  /\ masked = <<>>

Chunk(n) == key # <<>> /\ n \in 0 .. MaxChunk /\ Len(masked) + n <= MaxPayload

-----------------------------------------------------------------------------
\* Streaming: the key comes back turned, for the next chunk.
word_mask_circ(n) ==
  LET rest == n % machine.size IN    \* l
    /\ Chunk(n)
    /\ masked' = masked \o [i \in 1 .. n |-> Memory(key)[((i - 1) % machine.size) + 1]]
    /\ key' = circshift_prepared_key(key, rest)
    /\ UNCHANGED machine

\* The low half of the key, as it is in memory.
LowBytes == IF machine.little THEN SubSeq(key, 1, 4) ELSE Reverse(SubSeq(key, 1, 4))
byte_mask_circ(n) ==
  /\ Chunk(n)
  /\ masked' = masked \o [i \in 1 .. n |-> LowBytes[((i - 1) % 4) + 1]]
  /\ key' = circshift_prepared_key(key, n % 4)
  /\ UNCHANGED machine

\* A payload at once: words, and byte by byte what is left; no key is returned.
word_mask_exact(n) ==
  LET words == n - (n % machine.size) IN
    /\ masked = <<>> /\ Chunk(n)
    /\ masked' = [i \in 1 .. n |-> IF i <= words THEN Memory(key)[((i - 1) % machine.size) + 1] ELSE (i - 1) % 4]
    /\ key' = <<>>
    /\ UNCHANGED machine

MaskNext == \E n \in 0 .. MaxChunk : word_mask_circ(n) \/ byte_mask_circ(n) \/ word_mask_exact(n)

MaskSpec == MaskInit /\ [][MaskNext]_maskVars

-----------------------------------------------------------------------------
(* However a payload is cut into calls, and whichever of the functions     *)
(* masks each piece, every byte meets the byte of the key that its place   *)
(* in the payload asks for, on every machine (word_mask_circ,              *)
(* byte_mask_circ, word_mask_exact, circshift_prepared_key).               *)
MaskAligned == \A i \in DOMAIN masked : masked[i] = (i - 1) % 4

-----------------------------------------------------------------------------
(***************************************************************************)
(* base64_encode and base64_decode of websocketpp (base64/base64.hpp), by  *)
(* which handshake keys are made and checked.  A character is its index in *)
(* base64_chars; the fields are cut out of bytes by division, the width of *)
(* unsigned char kept.                                                     *)
(***************************************************************************)
CONSTANTS Bytes,      \* values of bytes that occur
          MaxInput    \* bound on the bytes encoded

VARIABLES input,      \* bytes that are encoded
          coded       \* the characters made of them, and the loop of base64_decode
base64Vars == <<input, coded>>

Pad == 64             \* the character =
NotFound == 255       \* find gives npos for a byte that is no character
Stray == 65           \* a character that is not of the alphabet
is_base64(c) == c \in 0..63

\* Three bytes make four characters.
Sextets(b) == <<b[1] \div 4, ((b[1] % 4) * 16) + (b[2] \div 16), ((b[2] % 16) * 4) + (b[3] \div 64), b[3] % 64>>
\* Four characters make three bytes.
Octets(c) == <<((c[1] * 4) + ((c[2] \div 16) % 4)) % 256, (((c[2] % 16) * 16) + ((c[3] \div 4) % 16)) % 256,
               (((c[3] % 4) * 64) + c[4]) % 256>>

Groups(s) == [k \in 1..(Len(s) \div 3) |-> SubSeq(s, 3 * k - 2, 3 * k)]
PaddedRest(s) ==
  IF s = <<>> THEN <<>>
  ELSE SubSeq(Sextets(s \o [j \in 1..(3 - Len(s)) |-> 0]), 1, Len(s) + 1) \o [j \in 1..(3 - Len(s)) |-> Pad]
base64_encode(s) ==
  FlattenSeq([k \in 1..Len(Groups(s)) |-> Sextets(Groups(s)[k])]) \o PaddedRest(SubSeq(s, 3 * (Len(s) \div 3) + 1, Len(s)))

\* What is decoded may hold a stray character, after so many others.
Base64Init ==
  /\ input \in BoundedSeq(Bytes, MaxInput)
  /\ LET text == base64_encode(input)
     IN  \E good \in 0 .. Len(text), stray \in {<<>>, <<Stray>>} :
           /\ stray = <<>> => good = Len(text)
           /\ coded = [text |-> SubSeq(text, 1, good) \o stray \o SubSeq(text, good + 1, Len(text)), good |-> good,
                       four |-> <<>>, ret |-> <<>>, pc |-> "loop"]

\* base64_decode: one character, up to the padding or one that is not of the
\* alphabet; then what is left of four.
Decode(c) ==
  LET four == Append(c.four, c.text[1])
      read == [c EXCEPT !.text = SubSeq(@, 2, Len(@))]
  IN  IF Len(four) = 4 THEN [read EXCEPT !.ret = @ \o Octets(four), !.four = <<>>]
      ELSE [read EXCEPT !.four = four]
LastGroup(c) ==
  IF c.four = <<>> THEN c
  ELSE [c EXCEPT !.ret = @ \o SubSeq(Octets(c.four \o [j \in 1..(4 - Len(c.four)) |-> NotFound]), 1, Len(c.four) - 1)]
base64_decode ==
  /\ coded.pc = "loop"
  /\ coded' = IF coded.text # <<>> /\ Head(coded.text) # Pad /\ is_base64(Head(coded.text)) THEN Decode(coded)
              ELSE [LastGroup(coded) EXCEPT !.pc = "done"]
  /\ UNCHANGED input
Base64Next == base64_decode

\* What was encoded is decoded to itself, up to the bytes that are whole before a
\* stray character; in characters of the alphabet only, in fours: the padding
\* bytes never reach the result.
Whole(characters) == (characters * 3) \div 4
DecodesToItself ==
  /\ coded.pc = "done" =>
       coded.ret = SubSeq(input, 1, IF Whole(coded.good) < Len(input) THEN Whole(coded.good) ELSE Len(input))
  /\ coded.ret = SubSeq(input, 1, Len(coded.ret))
  /\ \A i \in 1..Len(coded.text) : coded.text[i] \in 0..Stray
  /\ Len(base64_encode(input)) % 4 = 0

-----------------------------------------------------------------------------
(***************************************************************************)
(* The block handling of the two digests of websocketpp: md5_append and    *)
(* md5_finish of common/md5.hpp, which take a message in pieces, and calc  *)
(* of sha1/sha1.hpp, which takes it whole.  Both cut the message into      *)
(* blocks of 64 bytes and pad the last one.  What the rounds compute of a  *)
(* block is left out: the digest is the sequence of the blocks that the    *)
(* compression function was given, so that different blocks mean different *)
(* digests.  A byte is a tuple that says which byte it is, so that one     *)
(* left in a buffer from before is told from the one that belongs there.   *)
(***************************************************************************)
CONSTANTS WordBits,   \* the width of the counters; 32 in the code
          Pieces,     \* lengths of the pieces given to md5_append
          MaxPieces,  \* bound on their number
          MaxLength   \* bound on the message of calc, which counts its bits
                      \* in one word

VARIABLES md5,    \* md5_state_t: count, abcd as the blocks processed, buf
          sha1,   \* the locals of calc
          given   \* lengths of the pieces appended so far

digestVars == <<md5, sha1, given>>

Word == 2^WordBits

\* Bytes: the i-th of the message, the mark behind it, zero, the j-th byte of
\* a word of the length, and one that was never written.
Byte(i) == <<"message", i, 0>>
Mark == <<"mark", 0, 0>>
Zero == <<"zero", 0, 0>>
Unset == <<"unset", 0, 0>>
WordBytes(v) == [j \in 1 .. 4 |-> IF v = 0 THEN Zero ELSE <<"length", j, v>>]
Zeros(n) == [i \in 1 .. n |-> Zero]
Message(from, n) == [i \in 1 .. n |-> Byte(from + i)]

\* memcpy(buf + offset, data, Len(data)).
memcpy(buf, offset, data) ==
  [i \in 1 .. 64 |-> IF i \in offset + 1 .. offset + Len(data) THEN data[i - offset] ELSE buf[i]]

-----------------------------------------------------------------------------
md5_init == [count |-> <<0, 0>>, blocks |-> <<>>, buf |-> [i \in 1 .. 64 |-> Unset], done |-> FALSE]

md5_process(m, block) == [m EXCEPT !.blocks = Append(@, block)]

\* The full blocks of data, and the rest of it into the buffer.
FullBlocks(m, data) ==
  LET full == Len(data) \div 64
      block(i) == SubSeq(data, 64 * i + 1, 64 * i + 64)
      rest == SubSeq(data, 64 * full + 1, Len(data))
  IN  [m EXCEPT !.blocks = @ \o [i \in 1 .. full |-> block(i - 1)],
                !.buf = memcpy(@, 0, rest)]

\* The message length in bits, the low word first.
AddLength(count, nbytes) ==
  LET nbits == (nbytes * 8) % Word
      low == (count[1] + nbits) % Word
      carry == IF low < nbits THEN 1 ELSE 0
  IN  <<low, (count[2] + nbytes \div 2^(WordBits - 3) + carry) % Word>>

md5_append(m, data) ==
  LET nbytes == Len(data)
      offset == (m.count[1] \div 8) % 64
      copy   == IF offset + nbytes > 64 THEN 64 - offset ELSE nbytes
      longer == [m EXCEPT !.count = AddLength(@, nbytes)]
      filled == [longer EXCEPT !.buf = memcpy(@, offset, SubSeq(data, 1, copy))]
  IN  IF nbytes = 0 THEN m
      ELSE IF offset = 0 THEN FullBlocks(longer, data)
      ELSE IF offset + copy < 64 THEN filled
      ELSE FullBlocks(md5_process(filled, filled.buf), SubSeq(data, copy + 1, nbytes))

\* The length is saved before padding; the pad takes the message to 56 bytes
\* of a block.
md5_finish(m) ==
  LET data == WordBytes(m.count[1]) \o WordBytes(m.count[2])
      pad  == <<Mark>> \o Zeros((55 - m.count[1] \div 8) % 64)
  IN  [md5_append(md5_append(m, pad), data) EXCEPT !.done = TRUE]

-----------------------------------------------------------------------------
clearWBuffert == Zeros(64)

innerHash(s) == [s EXCEPT !.result = Append(@, s.w)]

calc(n) == [bytelength |-> n, currentBlock |-> 0, w |-> [i \in 1 .. 64 |-> Unset],
            result |-> <<>>, done |-> FALSE]

\* One turn of the loop over the complete blocks.
CompleteBlock(s) ==
  innerHash([s EXCEPT !.w = Message(s.currentBlock, 64), !.currentBlock = @ + 64])

\* Bytes are or'ed into the cleared buffer.
Or(x, y) == IF x = Zero THEN y ELSE IF y = Zero THEN x ELSE <<"mixed", 0, 0>>
OrInto(w, from, data) ==
  [i \in 1 .. 64 |-> IF i \in from + 1 .. from + Len(data) THEN Or(w[i], data[i - from]) ELSE w[i]]

LastBlock(s) ==
  LET left   == s.bytelength - s.currentBlock
      marked == [s EXCEPT !.w = OrInto(clearWBuffert, 0, Append(Message(s.currentBlock, left), Mark))]
      longer == IF left >= 56 THEN [innerHash(marked) EXCEPT !.w = clearWBuffert] ELSE marked
  IN  [innerHash([longer EXCEPT !.w = memcpy(@, 60, WordBytes((s.bytelength * 8) % Word))])
         EXCEPT !.done = TRUE]

-----------------------------------------------------------------------------
DigestInit == md5 = md5_init /\ sha1 \in {calc(n) : n \in 0 .. MaxLength} /\ given = <<>>

Given == FoldSeq(LAMBDA a, b : a + b, 0, given)

\* The caller has another piece of the message, or no more.
Piece ==
  /\ ~md5.done /\ Len(given) < MaxPieces
  /\ \E n \in Pieces :
       /\ md5' = md5_append(md5, Message(Given, n))
       /\ given' = Append(given, n)
  /\ UNCHANGED sha1

Finish == ~md5.done /\ md5' = md5_finish(md5) /\ UNCHANGED <<sha1, given>>

\* currentBlock <= endOfFullBlocks, if there is one.
Complete ==
  /\ ~sha1.done /\ sha1.currentBlock + 64 <= sha1.bytelength
  /\ sha1' = CompleteBlock(sha1)
  /\ UNCHANGED <<md5, given>>

Rest ==
  /\ ~sha1.done /\ sha1.currentBlock + 64 > sha1.bytelength
  /\ sha1' = LastBlock(sha1)
  /\ UNCHANGED <<md5, given>>

Md5 == Piece \/ Finish
Sha1 == Complete \/ Rest
DigestNext == Md5 \/ Sha1

DigestSpec == DigestInit /\ [][DigestNext]_digestVars

-----------------------------------------------------------------------------
\* The padding that both standards ask for: the mark, zeros, and the length
\* in bits in the last eight bytes of a block.
Padded(n, length) ==
  Message(0, n) \o <<Mark>> \o Zeros((55 - n) % 64) \o length

Blocks(bytes) == [i \in 1 .. Len(bytes) \div 64 |-> SubSeq(bytes, 64 * i - 63, 64 * i)]

(* However the message is cut into pieces, the blocks that md5 digests are *)
(* those of the padded message; no byte is left in the buffer, taken twice *)
(* or taken from an earlier block (md5_append, md5_finish).                *)
PiecesDoNotMatter ==
  md5.done =>
    LET bits == 8 * Given
        length == WordBytes(bits % Word) \o WordBytes(bits \div Word)
    IN  md5.blocks = Blocks(Padded(Given, length))

(* For every length, the blocks that calc digests are those of the padded  *)
(* message, around the lengths where the padding needs a block of its own  *)
(* too (calc, clearWBuffert).                                              *)
DigestsPadded ==
  sha1.done =>
    LET length == WordBytes(0) \o WordBytes(8 * sha1.bytelength)
    IN  sha1.result = Blocks(Padded(sha1.bytelength, length))
=============================================================================
