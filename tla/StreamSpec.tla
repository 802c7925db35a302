----------------------------- MODULE StreamSpec -----------------------------
(***************************************************************************)
(* What a seekable Stream promises (src/Stp/Base/Io/Stream.h): bytes, a    *)
(* position, and operations that act on them at once.  An operation that   *)
(* throws may have written, or passed over, a part of what it was asked    *)
(* for.                                                                    *)
(***************************************************************************)
EXTENDS Integers, Sequences

CONSTANTS Inputs, MaxLength

VARIABLES content, position, result

vars == <<content, position, result>>

\* The bytes after a write of input at pos: a gap reads as zeros.
Written(bytes, pos, input) ==
  IF input = <<>> THEN bytes
  ELSE [i \in 1 .. IF pos + Len(input) > Len(bytes) THEN pos + Len(input) ELSE Len(bytes) |->
          IF pos < i /\ i <= pos + Len(input) THEN input[i - pos]
          ELSE IF i <= Len(bytes) THEN bytes[i] ELSE 0]

\* At most n bytes from pos on.
BytesAt(bytes, pos, n) == SubSeq(bytes, pos + 1, IF pos + n < Len(bytes) THEN pos + n ELSE Len(bytes))

Resized(bytes, n) == [i \in 1 .. n |-> IF i <= Len(bytes) THEN bytes[i] ELSE 0]

Init == content = <<>> /\ position = 0 /\ result = <<>>

Read(n) ==
  /\ result' = BytesAt(content, position, n)
  /\ position' = position + Len(result')
  /\ UNCHANGED content

ReadFails(n) == position' \in position .. position + n /\ UNCHANGED <<content, result>>

\* input, or what was written of it before the exception.
Write(input) ==
  /\ content' = Written(content, position, input)
  /\ position' = position + Len(input)
  /\ UNCHANGED result

Seek(pos) == position' = pos /\ result' = <<pos>> /\ UNCHANGED content

Tell == result' = <<position>> /\ UNCHANGED <<content, position>>

GetLength == result' = <<Len(content)>> /\ UNCHANGED <<content, position>>

\* "The file position is undefined after this operation."
SetLength(n) ==
  /\ content' = Resized(content, n)
  /\ position' \in 0 .. MaxLength
  /\ UNCHANGED result

\* Closed, and opened again by somebody who does not know the position.
Reopen == position' \in 0 .. MaxLength /\ UNCHANGED <<content, result>>

Next ==
  \/ \E n \in 1 .. MaxLength : Read(n) \/ ReadFails(n)
  \/ \E input \in Inputs : \E n \in 0 .. Len(input) : Write(SubSeq(input, 1, n))
  \/ \E pos \in 0 .. MaxLength : Seek(pos) \/ SetLength(pos)
  \/ Tell \/ GetLength \/ Reopen

Spec == Init /\ [][Next]_vars
==============================================================================
