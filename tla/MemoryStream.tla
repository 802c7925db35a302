---------------------------- MODULE MemoryStream ----------------------------
(***************************************************************************)
(* src/Stp/Base/Io/MemoryStream.cpp: a stream over memory, which is either *)
(* its own and grows, or a view of somebody else's, perhaps only to read.  *)
(* An operation that throws changes nothing: it is not enabled here.       *)
(***************************************************************************)
EXTENDS Integers, Sequences

CONSTANTS
  Inputs, MaxLength,
  MinCapacity, MaxCapacity,  \* MinCapacity_ and MaxCapacity_
  Garbage,                   \* the content of memory that nobody has written
  Careful                    \* callers do not write behind the end of the stream

VARIABLES
  mode,  \* "closed", "read" or "write" (a view), or "expandable"
  memory, length, capacity, position,
  result

vars == <<mode, memory, length, capacity, position, result>>

Reallocated(n) == [i \in 1 .. n |-> IF i <= Len(memory) THEN memory[i] ELSE Garbage]

Filled(bytes, from, input) ==
  [i \in DOMAIN bytes |-> IF from < i /\ i <= from + Len(input) THEN input[i - from] ELSE bytes[i]]

\* What ensureCapacity makes of a request that is not satisfied.
NewCapacity(request) ==
  LET doubled == 2 * capacity
  IN IF doubled > MaxCapacity THEN MaxCapacity
     ELSE IF request < doubled THEN doubled
     ELSE IF request < MinCapacity THEN MinCapacity
     ELSE request

CanEnsure(request) == request <= capacity \/ (mode = "expandable" /\ request <= MaxCapacity)

Capacity(request) == IF request <= capacity THEN capacity ELSE NewCapacity(request)

Ensured(request) == IF request <= capacity THEN memory ELSE Reallocated(NewCapacity(request))

Init ==
  /\ mode = "closed" /\ memory = <<>> /\ length = 0
  /\ capacity = -1 /\ position = 0 /\ result = <<>>

openNewBytes == mode = "closed" /\ mode' = "expandable" /\ UNCHANGED <<memory, length, capacity, position, result>>

\* A buffer of these bytes with room for more.
adoptAndOpen(bytes, room) ==
  /\ mode = "closed"
  /\ mode' = "expandable"
  /\ memory' = bytes \o [i \in 1 .. room |-> Garbage]
  /\ length' = Len(bytes)
  /\ capacity' = Len(bytes) + room
  /\ UNCHANGED <<position, result>>

open(bytes, writable) ==
  /\ mode = "closed"
  /\ mode' = IF writable THEN "write" ELSE "read"
  /\ memory' = bytes
  /\ length' = Len(bytes)
  /\ UNCHANGED <<capacity, position, result>>

\* The stream stays open, and where it was.
closeAndrelease ==
  /\ mode = "expandable"
  /\ result' = SubSeq(memory, 1, length)
  /\ memory' = <<>> /\ length' = 0 /\ capacity' = 0
  /\ UNCHANGED <<mode, position>>

close ==
  /\ mode # "closed"
  /\ mode' = "closed" /\ memory' = <<>> /\ length' = 0 /\ capacity' = 0 /\ position' = 0
  /\ UNCHANGED result

ensureCapacity(request) ==
  /\ mode # "closed" /\ CanEnsure(request)
  /\ memory' = Ensured(request)
  /\ capacity' = Capacity(request)
  /\ UNCHANGED <<mode, length, position, result>>

\* uninitializedCopy of the n bytes at offset, or as many as there are.
Bytes(offset, n) == SubSeq(memory, offset + 1, IF offset + n < length THEN offset + n ELSE length)

\* Also tryReadByte, where n is one.
readAtMost(n) ==
  /\ mode # "closed"
  /\ result' = Bytes(position, n)
  /\ position' = position + Len(result')
  /\ UNCHANGED <<mode, memory, length, capacity>>

positionalRead(offset, n) ==
  /\ mode # "closed" /\ offset + n <= length
  /\ result' = Bytes(offset, n)
  /\ UNCHANGED <<mode, memory, length, capacity, position>>

\* The bytes of a gap keep the garbage in the memory.
Stored(offset, input) ==
  LET after == offset + Len(input)
      grows == after > length
  IN /\ mode \in {"write", "expandable"}
     /\ Careful => offset <= length
     /\ after <= MaxCapacity
     /\ grows => CanEnsure(after)
     /\ length' = IF grows THEN after ELSE length
     /\ memory' = Filled(IF grows THEN Ensured(after) ELSE memory, offset, input)
     /\ capacity' = IF grows THEN Capacity(after) ELSE capacity

positionalWrite(offset, input) == Stored(offset, input) /\ UNCHANGED <<mode, position, result>>

write(input) == Stored(position, input) /\ position' = position + Len(input) /\ UNCHANGED <<mode, result>>

\* In a gap it is the first bytes of the memory that are cleared.
writeByte(byte) ==
  /\ mode \in {"write", "expandable"}
  /\ Careful => position <= length
  /\ IF position < length THEN memory' = Filled(memory, position, <<byte>>) /\ UNCHANGED <<length, capacity>>
     ELSE /\ CanEnsure(position + 1)
          /\ memory' = Filled(Filled(Ensured(position + 1), 0, [i \in 1 .. position - length |-> 0]), position, <<byte>>)
          /\ capacity' = Capacity(position + 1)
          /\ length' = position + 1
  /\ position' = position + 1
  /\ UNCHANGED <<mode, result>>

seek(to) == mode # "closed" /\ position' = to /\ result' = <<to>> /\ UNCHANGED <<mode, memory, length, capacity>>

setPosition(to) == to < MaxCapacity /\ seek(to)

\* Mutation: the memory acquired by growing is taken as it is.
LengthenedDirty(n) == Ensured(n)

Lengthened(n) == Filled(Ensured(n), length, [i \in 1 .. n - length |-> 0])

\* The capacity after shrinking to n.
Contracted(n) == LET least == IF n < MinCapacity THEN MinCapacity ELSE n
                 IN IF least <= capacity \div 2 THEN least ELSE capacity

\* Neither asks whether the stream may be written.
setLength(n) ==
  /\ mode # "closed"
  /\ \/ /\ n > length
        /\ n < MaxCapacity /\ CanEnsure(n)
        /\ memory' = Lengthened(n)
        /\ capacity' = Capacity(n)
     \/ /\ n <= length
        /\ capacity' = Contracted(n)
        /\ memory' = IF capacity' = capacity THEN memory ELSE Reallocated(capacity')
  /\ length' = n
  /\ UNCHANGED <<mode, position, result>>

getLength == mode # "closed" /\ result' = <<length>> /\ UNCHANGED <<mode, memory, length, capacity, position>>

Positions == 0 .. MaxLength

Next ==
  \/ openNewBytes
  \/ \E bytes \in Inputs : \E room \in 0 .. MaxCapacity - Len(bytes) : adoptAndOpen(bytes, room)
  \/ \E bytes \in Inputs, writable \in BOOLEAN : open(bytes, writable)
  \/ closeAndrelease
  \/ close
  \/ \E n \in 1 .. MaxLength : ensureCapacity(n) \/ readAtMost(n)
  \/ \E input \in Inputs : write(input) \/ (\E offset \in Positions : positionalWrite(offset, input))
  \/ \E input \in Inputs : writeByte(input[1])
  \/ \E offset \in Positions, n \in 1 .. MaxLength : positionalRead(offset, n)
  \/ \E n \in Positions : seek(n) \/ setPosition(n) \/ setLength(n)
  \/ getLength

Spec == Init /\ [][Next]_vars

(* Properties *)

\* The stream lies in its memory, and what it says it can hold is there: no read
\* or write, after any growing and contracting, leaves the memory.
StaysInMemory ==
  /\ length <= Len(memory)
  /\ capacity <= MaxCapacity
  /\ mode = "expandable" => Len(memory) = IF capacity > 0 THEN capacity ELSE 0

Contract == INSTANCE StreamSpec WITH content <- SubSeq(memory, 1, length)

\* The operations that the contract does not have: those that name a position
\* and do not move it, and the release of the bytes.
Further ==
  /\ position' = position
  /\ LET bytes == SubSeq(memory, 1, length)
     IN \/ \E offset \in Positions, n \in 1 .. MaxLength : result' = Contract!BytesAt(bytes, offset, n) /\ SubSeq(memory', 1, length') = bytes
        \/ \E input \in Inputs, offset \in Positions : result' = result /\ SubSeq(memory', 1, length') = Contract!Written(bytes, offset, input)
        \/ result' = bytes /\ length' = 0

\* While it is open, a memory stream is a seekable stream: growing, contracting
\* and lengthening never show bytes that nobody has written, or lose others.
ImplementsStream == mode # "closed" /\ mode' # "closed" => [Contract!Next]_(Contract!vars) \/ Further
==============================================================================
