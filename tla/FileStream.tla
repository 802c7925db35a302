----------------------------- MODULE FileStream -----------------------------
(***************************************************************************)
(* src/Stp/Base/Io/FileStreamPosix.cpp and FileStream.cpp: a stream over a *)
(* descriptor.  The system may transfer fewer bytes than it was asked to,  *)
(* be interrupted by a signal, or fail; meanwhile others append to the     *)
(* same file.                                                              *)
(***************************************************************************)
EXTENDS Integers, Sequences

CONSTANTS
  Inputs, MaxLength,
  Accesses,  \* of FileAccess, that streams are opened with
  Other,   \* a byte that another process writes
  Careful  \* a stream whose descriptor was released is not used again

VARIABLES
  file,    \* the bytes of the file
  fd,      \* what native_ refers to: "none", a "file" or a "pipe", its offset, whether it
           \* appends, and whether whoever opened it wants to keep it
  object,  \* access_, lifetime_, seekable_
  call,    \* the loop that runs: what is left of the input or the output, and offset
  asked,   \* history: the call, and the places and bytes that were transferred for it
  result,
  astray   \* history: a descriptor was left open by a stream that had to close it, or the reverse

vars == <<file, fd, object, call, asked, result, astray>>

NoFd == [kind |-> "none", pos |-> 0, append |-> FALSE, keep |-> FALSE]
New == [access |-> "ReadWrite", lifetime |-> "AutoClose", seekable |-> -1]
NoCall == [op |-> "none", input |-> <<>>, size |-> 0, offset |-> 0]
NothingAsked ==
  [op |-> "none", input |-> <<>>, size |-> 0, start |-> 0, append |-> FALSE, moved |-> <<>>, state |-> "returned"]

Init ==
  /\ file = <<>> /\ fd = NoFd /\ object = New /\ call = NoCall
  /\ asked = NothingAsked
  /\ result = <<>> /\ astray = FALSE

isOpen == fd.kind # "none"
Idle == call.op = "none"
canRead == isOpen /\ object.access # "WriteOnly"
canWrite == isOpen /\ object.access # "ReadOnly"

\* No loop runs; the last one is history.
Between == Idle /\ asked' = NothingAsked /\ UNCHANGED call

------------------------------------------------------------------------------
(* Opening and closing. *)

\* open and create on a path with a file; those that fail change nothing.
tryOpenInternal(mode, access) ==
  /\ ~isOpen
  /\ mode # "CreateNew" /\ (mode = "Append" => access = "WriteOnly")
  /\ file' = IF mode \in {"Create", "OpenTruncated"} THEN <<>> ELSE file
  /\ fd' = [NoFd EXCEPT !.kind = "file", !.append = (mode = "Append")]
  /\ object' = [object EXCEPT !.access = access]
  /\ Between /\ UNCHANGED <<result, astray>>

openNative(kind, access, lifetime) ==
  /\ ~isOpen
  /\ fd' = [NoFd EXCEPT !.kind = kind, !.keep = (lifetime = "DontClose")]
  /\ object' = [object EXCEPT !.access = access, !.lifetime = lifetime]
  /\ Between /\ UNCHANGED <<file, result, astray>>

\* The descriptor is given up.
Leave == Between /\ fd' = NoFd /\ result' = <<>> /\ UNCHANGED file

\* Closed even if closeInternal throws.
close ==
  /\ isOpen /\ Leave
  /\ object' = [object EXCEPT !.lifetime = "AutoClose", !.seekable = -1]
  /\ UNCHANGED astray

\* Neither seekable_ nor lifetime_ is reset.
releaseNativeFile ==
  /\ isOpen /\ Leave
  /\ object' \in IF Careful THEN {New} ELSE {New, object}
  /\ UNCHANGED astray

\* ~FileStream, and another stream.
destroy ==
  /\ Leave
  /\ object' = New
  /\ astray' = (astray \/ (isOpen /\ fd.keep # (object.lifetime = "DontClose")))

\* canSeekInternal, when fstat may fail.
Knows(o) == object' = IF o.seekable >= 0 THEN o ELSE [o EXCEPT !.seekable = IF fd.kind = "file" THEN 1 ELSE 0]

canSeek ==
  /\ isOpen
  /\ Knows(object) \/ (object.seekable < 0 /\ object' = [object EXCEPT !.seekable = 0])
  /\ Between /\ UNCHANGED <<file, fd, result, astray>>

------------------------------------------------------------------------------
(* Reading and writing, of at least one byte: each turn of a loop is a call  *)
(* of the system.                                                            *)

Begin(op, input, size, offset) ==
  /\ Idle
  /\ call' = [op |-> op, input |-> input, size |-> size, offset |-> offset]
  /\ asked' = [op |-> op, input |-> input, size |-> size, start |-> fd.pos,
               append |-> fd.append, moved |-> <<>>, state |-> "running"]
  /\ UNCHANGED <<file, fd, result, astray>>

readAtMost(n) == canRead /\ fd.kind = "file" /\ Begin("read", <<>>, n, 0) /\ UNCHANGED object
write(input) == canWrite /\ fd.kind = "file" /\ Begin("write", input, 0, 0) /\ UNCHANGED object

Seekable == fd.kind = "file" /\ object.seekable # 0 /\ Knows(object)

positionalRead(offset, n) == canRead /\ Seekable /\ Begin("positionalRead", <<>>, n, offset)
positionalWrite(offset, input) == canWrite /\ Seekable /\ ~fd.append /\ Begin("positionalWrite", input, 0, offset)

Bytes(moved) == [i \in DOMAIN moved |-> moved[i][2]]
Places(at, bytes) == [i \in DOMAIN bytes |-> <<at + i - 1, bytes[i]>>]

\* The loop ends, or an exception ends it.
End(state, moved) ==
  /\ call' = NoCall
  /\ asked' = [asked EXCEPT !.state = state, !.moved = moved]
  /\ result' = IF state = "returned" /\ call.size > 0 THEN Bytes(moved) ELSE result

\* These bytes, at this place, were transferred, and this is left of the call.
Turn(at, bytes, rest) ==
  LET moved == asked.moved \o Places(at, bytes)
  IN IF rest.size = 0 /\ rest.input = <<>> THEN End("returned", moved)
     ELSE call' = rest /\ asked' = [asked EXCEPT !.moved = moved] /\ UNCHANGED result

\* read and pread give k bytes.
Reads(at, k) ==
  /\ at + k <= Len(file)
  /\ Turn(at, SubSeq(file, at + 1, at + k),
          [call EXCEPT !.size = @ - k, !.offset = IF call.op = "read" THEN @ ELSE @ + k])
  /\ UNCHANGED file

Read ==
  /\ call.op = "read"
  /\ \/ \E k \in 1 .. call.size : Reads(fd.pos, k) /\ fd' = [fd EXCEPT !.pos = @ + k]
     \/ fd.pos >= Len(file) /\ End("returned", asked.moved) /\ UNCHANGED <<file, fd>>

PositionalRead ==
  /\ call.op = "positionalRead"
  /\ \/ \E k \in 1 .. call.size : Reads(call.offset, k)
     \/ call.offset >= Len(file) /\ End("threw", asked.moved) /\ UNCHANGED file
  /\ UNCHANGED fd

Slices == UNION {UNION {{SubSeq(input, i, j) : j \in DOMAIN input} : i \in DOMAIN input} : input \in Inputs}
S == INSTANCE StreamSpec WITH content <- file, position <- fd.pos, Inputs <- Slices

\* Mutation: after a short write the rest goes where the input was to begin.
AdvancedInPlace(k) == [call EXCEPT !.input = SubSeq(@, k + 1, Len(@))]

\* offset and input behind the k bytes that were written.
Advanced(k) == [call EXCEPT !.input = SubSeq(@, k + 1, Len(@)), !.offset = IF call.op = "write" THEN @ ELSE @ + k]

Writes(at, k) ==
  /\ file' = S!Written(file, at, SubSeq(call.input, 1, k))
  /\ Turn(at, SubSeq(call.input, 1, k), Advanced(k))

Write ==
  /\ call.op = "write"
  /\ LET at == IF fd.append THEN Len(file) ELSE fd.pos
     IN \E k \in 1 .. Len(call.input) : Writes(at, k) /\ fd' = [fd EXCEPT !.pos = at + k]

PositionalWrite ==
  /\ call.op = "positionalWrite"
  /\ \E k \in 1 .. Len(call.input) : Writes(call.offset, k)
  /\ UNCHANGED fd

\* A signal: the loop goes on.
Interrupted == ~Idle /\ UNCHANGED <<file, fd, call, asked, result>>

Fails == ~Idle /\ End("threw", asked.moved) /\ UNCHANGED <<file, fd>>

Loop == (Read \/ PositionalRead \/ Write \/ PositionalWrite \/ Interrupted \/ Fails) /\ UNCHANGED <<object, astray>>

------------------------------------------------------------------------------
(* What is one call of the system; also setPosition and getPosition. *)

seek(to) ==
  /\ Between /\ Seekable
  /\ fd' = [fd EXCEPT !.pos = to] /\ result' = <<to>>
  /\ UNCHANGED <<file, astray>>

getLength == Between /\ fd.kind = "file" /\ result' = <<Len(file)>> /\ UNCHANGED <<file, fd, object, astray>>

setLength(n) == Between /\ canWrite /\ fd.kind = "file" /\ file' = S!Resized(file, n) /\ UNCHANGED <<fd, object, result, astray>>

\* Another process appends a byte; there is one such byte at a time.
Others ==
  /\ Len(file) + Len(call.input) < MaxLength
  /\ \A i \in DOMAIN file : file[i] # Other
  /\ file' = Append(file, Other)
  /\ UNCHANGED <<fd, object, call, asked, result, astray>>

Modes == {"Create", "CreateNew", "OpenExisting", "OpenTruncated", "OpenOrCreate", "Append"}

Next ==
  \/ \E mode \in Modes, access \in Accesses : tryOpenInternal(mode, access)
  \/ \E lifetime \in {"AutoClose", "DontClose"} : openNative("pipe", "ReadWrite", lifetime)
  \/ close \/ releaseNativeFile \/ destroy
  \/ canSeek \/ getLength
  \/ \E n \in 0 .. MaxLength : (n > 0 /\ readAtMost(n)) \/ seek(n) \/ setLength(n)
  \/ \E offset \in 0 .. MaxLength, n \in 1 .. MaxLength : positionalRead(offset, n)
  \/ \E input \in Inputs : fd.pos + Len(input) <= MaxLength /\ Len(file) + Len(input) <= MaxLength /\ write(input)
  \/ \E input \in Inputs, offset \in 0 .. MaxLength : offset + Len(input) <= MaxLength /\ positionalWrite(offset, input)
  \/ Loop
  \/ Others

Spec == Init /\ [][Next]_vars

------------------------------------------------------------------------------
(* Correctness. *)

\* However the system cuts a transfer up, every byte of it is moved once and in
\* order, and, but for appending, between consecutive places; a call that
\* returns has moved all of them, or was stopped by the end of the file.
TransfersOnce ==
  LET moved == asked.moved
      bytes == Bytes(moved)
      writes == asked.input # <<>>
  IN /\ \A i \in 1 .. Len(moved) - 1 : moved[i + 1][1] > moved[i][1] /\ (moved[i + 1][1] = moved[i][1] + 1 \/ asked.append)
     /\ IF writes THEN bytes = SubSeq(asked.input, 1, Len(bytes)) ELSE Len(bytes) <= asked.size
     /\ asked.state = "returned" /\ writes => bytes = asked.input
     /\ asked.state = "returned" /\ asked.op = "positionalRead" => Len(bytes) = asked.size

\* What the stream believes of its descriptor is true of the one it has, and
\* the descriptor is closed by who is to close it.
KnowsItsFile == (isOpen /\ object.seekable = 1 => fd.kind = "file") /\ ~astray

\* A read that runs has moved nothing yet for those who look at the whole call.
Contract == INSTANCE StreamSpec WITH
  content <- file, position <- IF call.op = "read" THEN asked.start ELSE fd.pos, Inputs <- Slices

\* What the contract does not have: others who append, appending, and the
\* operations that name a place and leave the position.
Further ==
  \/ file' = Append(file, Other) /\ UNCHANGED <<fd, result>>
  \/ \E bytes \in Slices :
       /\ UNCHANGED result
       /\ \/ fd.append /\ file' = file \o bytes /\ fd'.pos = Len(file')
          \/ \E offset \in 0 .. MaxLength : file' = S!Written(file, offset, bytes) /\ fd'.pos = fd.pos
  \/ /\ UNCHANGED <<file, fd>>
     /\ \E offset \in 0 .. MaxLength, n \in 1 .. MaxLength : result' = S!BytesAt(file, offset, n) /\ Len(result') = n

\* While it is open, a file stream is a seekable stream, whatever the system does.
ImplementsStream == isOpen /\ isOpen' => [Contract!Next]_(Contract!vars) \/ Further
==============================================================================
