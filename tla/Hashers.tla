------------------------------- MODULE Hashers -------------------------------
(***************************************************************************)
(* The buffering of Md5Hasher and Sha1Hasher (src/Stp/Base/Crypto/Md5.cpp, *)
(* Sha1.cpp), which are fed the same message in pieces.  What they compute *)
(* of a block is left out; what matters is which blocks they compute it of.*)
(* Byte i of the message is the number i.                                  *)
(***************************************************************************)
EXTENDS Integers, Sequences

CONSTANTS
  Block,     \* bytes of a block: 64
  Low,       \* values of the lower half of the count of bits: 2^32, a multiple of 8 * Block
  MaxPiece, MaxLength

\* The count is at the end of the last block, as two cells.
CountSize == 2

Mark == -1     \* 0x80
Garbage == -2  \* what is left in a block of which Sha1Hasher has swapped the bytes
Zeros(k) == [i \in 1 .. k |-> 0]

VARIABLES
  length,  \* of the message so far
  phase,   \* "updating", or "finished", before reset is called again
  md5,     \* in_, bits_, and the bytes of the blocks that were transformed
  sha      \* m_, cursor_, l_, and the bytes of the blocks that were processed

vars == <<length, phase, md5, sha>>

Init ==
  /\ length = 0 /\ phase = "updating"
  /\ md5 = [in |-> [i \in 1 .. Block |-> Garbage], bits |-> <<0, 0>>, taken |-> <<>>]
  /\ sha = [m |-> [i \in 1 .. Block |-> Garbage], cursor |-> 0, l |-> 0, taken |-> <<>>]

\* memcpy of bytes to a place in a buffer.
Put(buffer, at, bytes) == [i \in DOMAIN buffer |-> IF i - at \in DOMAIN bytes THEN bytes[i - at] ELSE buffer[i]]

------------------------------------------------------------------------------
(* Md5Hasher. *)

\* transform reads the block and leaves it.
transform(h) == [h EXCEPT !.taken = @ \o h.in]

\* The bits of a piece are added to two words of 32 bits.
Counted(bits, size) ==
  LET t == (bits[1] + 8 * size) % Low
      carry == IF t < bits[1] THEN 1 ELSE 0
  IN <<t, bits[2] + carry + (size \div (Low \div 8))>>

\* Where the next byte goes.
Offset(h) == (h.bits[1] \div 8) % Block

\* Whole blocks, and the beginning of one.
Chunks(h, d) ==
  LET whole == (Len(d) \div Block) * Block
      last == IF whole = 0 THEN h.in ELSE SubSeq(d, whole - Block + 1, whole)
  IN [h EXCEPT !.taken = @ \o SubSeq(d, 1, whole), !.in = Put(last, 0, SubSeq(d, whole + 1, Len(d)))]

Md5Update(h, d) ==
  LET counted == [h EXCEPT !.bits = Counted(@, Len(d))]
      t == Offset(h)
      lead == Block - t
      filled == [counted EXCEPT !.in = Put(@, t, SubSeq(d, 1, lead))]
  IN IF t = 0 THEN Chunks(counted, d)
     ELSE IF Len(d) < lead THEN [counted EXCEPT !.in = Put(@, t, d)]
     ELSE Chunks(transform(filled), SubSeq(d, lead + 1, Len(d)))

\* Mutation: the count goes over the last bytes of padding that do not fit.
PaddedTight(h) ==
  LET p == Offset(h) + 1
      marked == [h EXCEPT !.in = Put(@, p - 1, <<Mark>>)]
  IN IF Block - p < CountSize - 1
     THEN [transform([marked EXCEPT !.in = Put(@, p, Zeros(Block - p))]) EXCEPT !.in = Put(@, 0, Zeros(Block - CountSize))]
     ELSE [marked EXCEPT !.in = Put(@, p, Zeros(Block - p - CountSize))]

\* The mark, and zeros up to the count, if that does not fit in another block.
Padded(h) ==
  LET p == Offset(h) + 1
      marked == [h EXCEPT !.in = Put(@, p - 1, <<Mark>>)]
  IN IF Block - p < CountSize
     THEN [transform([marked EXCEPT !.in = Put(@, p, Zeros(Block - p))]) EXCEPT !.in = Put(@, 0, Zeros(Block - CountSize))]
     ELSE [marked EXCEPT !.in = Put(@, p, Zeros(Block - p - CountSize))]

Md5Finish(h) ==
  LET padded == Padded(h) IN transform([padded EXCEPT !.in = Put(@, Block - CountSize, h.bits)])

------------------------------------------------------------------------------
(* Sha1Hasher. *)

process(h) == [h EXCEPT !.taken = @ \o h.m, !.m = [i \in 1 .. Block |-> Garbage], !.cursor = 0]

Byte(h, byte) == [h EXCEPT !.m = Put(@, h.cursor, <<byte>>), !.cursor = @ + 1]

One(h, byte) ==
  LET stored == Byte(h, byte)
      taken == IF stored.cursor >= Block THEN process(stored) ELSE stored
  IN [taken EXCEPT !.l = @ + 8]

ShaUpdate(h, d) ==
  LET after[i \in 0 .. Len(d)] == IF i = 0 THEN h ELSE One(after[i - 1], d[i])
  IN after[Len(d)]

Bytes(h, d) ==
  LET after[i \in 0 .. Len(d)] == IF i = 0 THEN h ELSE Byte(after[i - 1], d[i])
  IN after[Len(d)]

\* Zeros up to a cursor.
PadTo(h, cursor) == Bytes(h, Zeros(cursor - h.cursor))

pad(h) ==
  LET marked == Byte(h, Mark)
      room == IF marked.cursor > Block - CountSize THEN process(PadTo(marked, Block)) ELSE marked
  IN Bytes(PadTo(room, Block - CountSize), <<h.l \div Low, h.l % Low>>)

------------------------------------------------------------------------------
Piece(size) == [i \in 1 .. size |-> length + i]

update(size) ==
  /\ phase = "updating" /\ length + size <= MaxLength
  /\ length' = length + size
  /\ md5' = Md5Update(md5, Piece(size)) /\ sha' = ShaUpdate(sha, Piece(size))
  /\ UNCHANGED phase

finish ==
  /\ phase = "updating" /\ phase' = "finished"
  /\ md5' = Md5Finish(md5) /\ sha' = process(pad(sha))
  /\ UNCHANGED length

\* What is in the buffers stays.
reset ==
  /\ phase' = "updating" /\ length' = 0
  /\ md5' = [md5 EXCEPT !.bits = <<0, 0>>, !.taken = <<>>]
  /\ sha' = [sha EXCEPT !.cursor = 0, !.l = 0, !.taken = <<>>]

Next == (\E size \in 0 .. MaxPiece : update(size)) \/ finish \/ reset

Spec == Init /\ [][Next]_vars

------------------------------------------------------------------------------
(* Correctness. *)

Message == [i \in 1 .. length |-> i]

\* The least padding that fills the last block.
Whole(count) == Message \o <<Mark>> \o Zeros((2 * Block - length - 1 - CountSize) % Block) \o count

\* However the message is cut in pieces, and whatever an earlier one has left in
\* the buffers, the blocks and what is still buffered are the message, each byte
\* once and in order, and in the end the padded message with the count of all
\* its bits.
DigestsTakeAll ==
  LET bits == 8 * length
  IN IF phase = "finished"
     THEN /\ md5.taken = Whole(<<bits % Low, bits \div Low>>)
          /\ sha.taken = Whole(<<bits \div Low, bits % Low>>)
     ELSE /\ md5.taken \o SubSeq(md5.in, 1, Offset(md5)) = Message
          /\ sha.taken \o SubSeq(sha.m, 1, sha.cursor) = Message
          /\ md5.bits = <<bits % Low, bits \div Low>> /\ sha.l = bits
==============================================================================
