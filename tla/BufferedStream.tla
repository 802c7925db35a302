---------------------------- MODULE BufferedStream ----------------------------
(***************************************************************************)
(* BufferedStream (src/Stp/Base/Io/BufferedStream.cpp) over a seekable     *)
(* stream such as FileStream: one buffer, used for what was read ahead or  *)
(* for what is still to be written.  Every operation is one step: streams  *)
(* belong to one thread.  The stream below may throw when it is asked to   *)
(* read or to write.                                                       *)
(***************************************************************************)
EXTENDS Integers, Sequences

CONSTANTS
  Inputs,       \* what callers write; its single bytes are written by writeByte
  BufferSizes,
  MaxLength,    \* bound on positions and lengths
  Whole,        \* whether the stream below has written nothing when it throws
  Asserts,      \* ASSERT_IS_ON
  Careful       \* whether callers drop a buffer they have read to its end, with
                \* setPosition, before setLength and setBufferSize

Byte == 0 .. 255

ASSUME BufferedStreamAssumption ==
  /\ Inputs \subseteq Seq(Byte)
  /\ BufferSizes \subseteq Nat \ {0} /\ BufferSizes # {}
  /\ MaxLength \in Nat \ {0}
  /\ Whole \in BOOLEAN /\ Asserts \in BOOLEAN /\ Careful \in BOOLEAN

VARIABLES
  stream,       \* file, pos: the bytes and the position of underlying_;
                \* pending: the write_pos_ bytes to write; ahead: the read_len_
                \* bytes read, of which read_pos_ were consumed; size: buffer_size_
  open,         \* underlying_ # nullptr
  result,       \* what the last operation returned
  panicked      \* "no", or the ASSERT that has failed

vars == <<stream, open, result, panicked>>

Init ==
  /\ \E size \in BufferSizes :
       stream = [file |-> <<>>, pos |-> 0, pending |-> <<>>, ahead |-> <<>>, read_pos |-> 0, size |-> size]
  /\ open = TRUE /\ result = <<>> /\ panicked = "no"

S == INSTANCE StreamSpec WITH content <- stream.file, position <- stream.pos

Ready == open /\ panicked = "no"

Least(m, n) == IF m < n THEN m ELSE n

------------------------------------------------------------------------------
(* The private functions, from one state s of stream to another. *)

hasPendingWrite(s) == s.pending # <<>>
hasPendingRead(s) == s.read_pos < Len(s.ahead)

Below(s, input) ==
  [s EXCEPT !.file = S!Written(s.file, s.pos, input), !.pos = s.pos + Len(input)]

flushWriteBuffer(s) == [Below(s, s.pending) EXCEPT !.pending = <<>>]

Discard(s) == [s EXCEPT !.ahead = <<>>, !.read_pos = 0]

flushReadBuffer(s) == [Discard(s) EXCEPT !.pos = s.pos + s.read_pos - Len(s.ahead)]

flushBuffers(s) ==
  IF hasPendingWrite(s) THEN flushWriteBuffer(s)
  ELSE IF hasPendingRead(s) THEN flushReadBuffer(s) ELSE s

clearReadBufferBeforeWrite(s) ==
  IF hasPendingRead(s) THEN flushReadBuffer(s) ELSE Discard(s)

\* What readFromBuffer gives, and leaves.
FromBuffer(s, n) == SubSeq(s.ahead, s.read_pos + 1, Least(s.read_pos + n, Len(s.ahead)))
Consumed(s, n) == [s EXCEPT !.read_pos = Least(s.read_pos + n, Len(s.ahead))]

writeToBuffer(s, input) ==
  [s EXCEPT !.pending = @ \o SubSeq(input, 1, Least(s.size - Len(@), Len(input)))]

\* The buffer is filled from below.
Fill(s) ==
  LET bytes == S!BytesAt(s.file, s.pos, s.size)
  IN [s EXCEPT !.ahead = bytes, !.read_pos = 0, !.pos = s.pos + Len(bytes)]

Tell(s) == s.pos + s.read_pos - Len(s.ahead) + Len(s.pending)

\* flushWriteBuffer where the code calls it with pending bytes.
Flushed(s) == IF hasPendingWrite(s) THEN flushWriteBuffer(s) ELSE s

\* An operation that flushes pending bytes may end in an exception: they are all
\* kept, even if the stream below has taken some of them.
Throws ==
  /\ Ready /\ hasPendingWrite(stream)
  /\ \E k \in IF Whole THEN {0} ELSE 0 .. Len(stream.pending) - 1 :
       /\ Tell(stream) + k <= MaxLength
       /\ stream' = Below(stream, SubSeq(stream.pending, 1, k))
  /\ UNCHANGED <<open, result, panicked>>

------------------------------------------------------------------------------
(* Reading. *)

\* readAtMost without a call of the stream below ...
readFromBuffer(n) ==
  /\ Ready /\ Len(FromBuffer(stream, n)) = n
  /\ result' = FromBuffer(stream, n)
  /\ stream' = Consumed(stream, n)
  /\ UNCHANGED <<open, panicked>>

\* ... and with one, into the output if that is not smaller than the buffer.
readAtMost(n) ==
  /\ Ready
  /\ LET first == FromBuffer(stream, n)
         rest == n - Len(first)
         s == Discard(Flushed(Consumed(stream, n)))
         direct == S!BytesAt(s.file, s.pos, rest)
         filled == Fill(s)
     IN /\ rest > 0
        /\ \/ /\ rest >= s.size
              /\ result' = first \o direct
              /\ stream' = [s EXCEPT !.pos = s.pos + Len(direct)]
           \/ /\ rest < s.size
              /\ result' = first \o FromBuffer(filled, rest)
              /\ stream' = Consumed(filled, rest)
  /\ UNCHANGED <<open, panicked>>

\* The stream below throws: what the buffer gave is lost with the exception.
readAtMostFails(n) ==
  /\ Ready /\ Len(FromBuffer(stream, n)) < n
  /\ stream' = Discard(Flushed(Consumed(stream, n)))
  /\ UNCHANGED <<open, result, panicked>>

tryReadByte ==
  /\ Ready
  /\ LET s == IF hasPendingRead(stream) THEN stream ELSE Fill(Flushed(stream))
     IN /\ result' = FromBuffer(s, 1)
        /\ stream' = Consumed(s, 1)
  /\ UNCHANGED <<open, panicked>>

------------------------------------------------------------------------------
(* Writing. *)

\* The bound on what is written.
ReadyFor(input) == Ready /\ Tell(stream) + Len(input) <= MaxLength

\* Mutation: the stream below is left where reading ahead has brought it.
StartUnsought(s) == IF hasPendingWrite(s) THEN s ELSE Discard(s)

\* The first byte of the buffer ends the reading.
Start(s) == IF hasPendingWrite(s) THEN s ELSE clearReadBufferBeforeWrite(s)

Large(s, input) == Len(s.pending) + Len(input) > 2 * s.size

\* The input fits into the buffer, and into a second one.
write(input) ==
  /\ ReadyFor(input)
  /\ LET s == Start(stream)
         t == writeToBuffer(s, input)
         wrote == Len(t.pending) - Len(s.pending)
     IN /\ ~Large(s, input)
        /\ stream' = IF Len(t.pending) = t.size
                     THEN writeToBuffer(flushWriteBuffer(t), SubSeq(input, wrote + 1, Len(input)))
                     ELSE t
  /\ UNCHANGED <<open, result, panicked>>

\* flushWriteBuffer throws between the two.
writeFails(input) ==
  /\ ReadyFor(input)
  /\ LET s == Start(stream)
         t == writeToBuffer(s, input)
     IN /\ ~Large(s, input) /\ Len(t.pending) = t.size
        /\ stream' = t
  /\ UNCHANGED <<open, result, panicked>>

\* The input passes the buffer.  flushWriteBuffer asserts that there is
\* something to flush.
writeDirectly(input) ==
  /\ ReadyFor(input)
  /\ LET s == Start(stream)
     IN /\ Large(s, input)
        /\ IF Asserts /\ ~hasPendingWrite(s)
           THEN panicked' = "hasPendingWrite" /\ stream' = s
           ELSE stream' = Below(flushWriteBuffer(s), input) /\ UNCHANGED panicked
  /\ UNCHANGED <<open, result>>

\* Only the write of the input throws.
writeDirectlyFails(input) ==
  /\ ReadyFor(input)
  /\ LET s == Start(stream)
     IN /\ Large(s, input) /\ (Asserts => hasPendingWrite(s))
        /\ stream' = flushWriteBuffer(s)
  /\ UNCHANGED <<open, result, panicked>>

writeByte(byte) ==
  /\ ReadyFor(<<byte>>)
  /\ LET s == IF Len(stream.pending) = stream.size THEN flushWriteBuffer(stream) ELSE Start(stream)
     IN stream' = [s EXCEPT !.pending = Append(@, byte)]
  /\ UNCHANGED <<open, result, panicked>>

------------------------------------------------------------------------------
(* Position and length. *)

\* Where seek wants to go; the stream below throws if that is negative.
Target(s, offset, origin) ==
  CASE origin = "Begin" -> offset
    [] origin = "Current" -> s.pos + offset - (Len(s.ahead) - s.read_pos)
    [] origin = "End" -> Len(s.file) + offset

\* Mutation: the stream below is not brought to the end of the buffer again.
SoughtBelow(s, to) ==
  LET read_pos == to - Tell(s) + s.read_pos
  IN IF 0 <= read_pos /\ read_pos < Len(s.ahead)
     THEN [s EXCEPT !.read_pos = read_pos, !.pos = to]
     ELSE [Discard(s) EXCEPT !.pos = to]

\* A target inside of the buffer leaves the bytes there.
Sought(s, to) ==
  LET read_pos == to - Tell(s) + s.read_pos
  IN IF 0 <= read_pos /\ read_pos < Len(s.ahead)
     THEN [s EXCEPT !.read_pos = read_pos, !.pos = to + Len(s.ahead) - read_pos]
     ELSE [Discard(s) EXCEPT !.pos = to]

seek(offset, origin) ==
  /\ Ready
  /\ LET s == Flushed(stream)
         to == Target(s, offset, origin)
     IN /\ to <= MaxLength
        /\ IF to < 0 THEN stream' = s /\ UNCHANGED result
                     ELSE stream' = Sought(s, to) /\ result' = <<to>>
  /\ UNCHANGED <<open, panicked>>

setPosition(to) ==
  /\ Ready
  /\ stream' = [Discard(Flushed(stream)) EXCEPT !.pos = to]
  /\ result' = <<to>>
  /\ UNCHANGED <<open, panicked>>

getPosition ==
  /\ Ready
  /\ result' = <<Tell(stream)>>
  /\ UNCHANGED <<stream, open, panicked>>

getLength ==
  /\ Ready
  /\ stream' = Flushed(stream)
  /\ result' = <<Len(stream'.file)>>
  /\ UNCHANGED <<open, panicked>>

\* flushBuffers keeps a buffer that was read to its end.
Spent(s) == s.ahead # <<>> /\ ~hasPendingRead(s)

setLength(length) ==
  /\ Ready /\ (Careful => ~Spent(stream))
  /\ stream' = [flushBuffers(stream) EXCEPT !.file = S!Resized(flushBuffers(stream).file, length)]
  /\ UNCHANGED <<open, result, panicked>>

setBufferSize(size) ==
  /\ Ready /\ (Careful => ~Spent(stream))
  /\ stream' = [flushBuffers(stream) EXCEPT !.size = size]
  /\ UNCHANGED <<open, result, panicked>>

flush ==
  /\ Ready
  /\ stream' = flushBuffers(stream)
  /\ UNCHANGED <<open, result, panicked>>

\* The stream below, which is not owned, stays where it is.
close ==
  /\ Ready
  /\ stream' = IF hasPendingWrite(stream) THEN flushWriteBuffer(stream) ELSE Discard(stream)
  /\ open' = FALSE
  /\ UNCHANGED <<result, panicked>>

openInternal ==
  /\ ~open /\ open' = TRUE
  /\ UNCHANGED <<stream, result, panicked>>

Next ==
  \/ \E n \in 1 .. MaxLength : readFromBuffer(n) \/ readAtMost(n) \/ readAtMostFails(n)
  \/ tryReadByte
  \/ \E input \in Inputs :
       \/ write(input) \/ writeFails(input)
       \/ writeDirectly(input) \/ writeDirectlyFails(input)
       \/ Len(input) = 1 /\ writeByte(input[1])
  \/ \E offset \in -MaxLength .. MaxLength, origin \in {"Begin", "Current", "End"} :
       seek(offset, origin)
  \/ \E n \in 0 .. MaxLength : setPosition(n) \/ setLength(n)
  \/ \E size \in BufferSizes : setBufferSize(size)
  \/ getPosition \/ getLength \/ flush \/ close \/ openInternal
  \/ Throws

Spec == Init /\ [][Next]_vars

------------------------------------------------------------------------------
(* Correctness. *)

\* Every variable has its type, the buffer holds what is in it, and is never used
\* for both: bytes to write would lie on bytes read.
TypeOK ==
  /\ stream.pos \in 0 .. MaxLength /\ stream.read_pos \in 0 .. Len(stream.ahead)
  /\ stream.size \in BufferSizes
  /\ Len(stream.pending) <= stream.size /\ Len(stream.ahead) <= stream.size
  /\ open \in BOOLEAN
  /\ panicked \in {"no", "hasPendingWrite"}
  /\ stream.pending = <<>> \/ stream.ahead = <<>>

\* What was read ahead is what the stream below has just before its position:
\* a cached byte is never stale, and going back in the buffer is going back in
\* the stream.  The types are right, too.
AheadIsCurrent ==
  /\ TypeOK
  /\ Len(stream.ahead) <= stream.pos
  /\ stream.ahead = S!BytesAt(stream.file, stream.pos - Len(stream.ahead), Len(stream.ahead))

\* A BufferedStream behaves as the stream below would without it.
Contract == INSTANCE StreamSpec WITH
  content <- S!Written(stream.file, stream.pos, stream.pending),
  position <- Tell(stream)

ImplementsStream == Contract!Spec

\* No ASSERT fails.
AssertsHold == panicked = "no"
==============================================================================
