------------------------------ MODULE MCStreams ------------------------------
(* The streams and the files for TLC, in one run that follows one of them at *)
(* a time.  The buffers of a BufferedStream have one and two bytes; an input *)
(* of three bytes passes the smaller one.                                    *)
EXTENDS BufferedStream

CONSTANTS
  Contents, MinCapacity, MaxCapacity, Garbage,  \* MemoryStream; Contents are its Inputs
  Slips, FileLength, Accesses, Other,           \* FileStream; Slips are its Inputs, FileLength its MaxLength
  Writers, Readers, Atomic, Value, Old, NONE    \* Files

\* What is written are bytes, and fits into what is looked at of a stream.
ASSUME MemoryAssumption ==
  /\ \A bytes \in Contents : bytes \in Seq(Byte) /\ Len(bytes) \in 1 .. MaxLength
  /\ MinCapacity \in Nat \ {0} /\ MaxCapacity \in MinCapacity .. MaxLength
  /\ Garbage \in Byte

ASSUME FileAssumption ==
  /\ \A bytes \in Slips : bytes \in Seq(Byte) /\ bytes # <<>>
  /\ FileLength \in Nat /\ Other \in Byte

\* Processes and files are different, and what is written are bytes.
ASSUME DiskAssumption ==
  /\ Atomic \subseteq Writers /\ Writers \cap Readers = {}
  /\ Old \notin Writers /\ NONE \notin Writers \cup {Old}
  /\ Value \in [Writers \cup {Old} -> Seq(Byte)]

VARIABLES
  part,
  mode, memory, length, capacity, position, returned,  \* MemoryStream
  file, fd, object, call, asked, received, astray,     \* FileStream
  path, temps, bytes, proc, spoilt, excused            \* Files

memoryVars == <<mode, memory, length, capacity, position, returned>>
fileVars == <<file, fd, object, call, asked, received, astray>>
diskVars == <<path, temps, bytes, proc, spoilt, excused>>

MCInputs == {<<1>>, <<2>>, <<1, 2>>, <<2, 1, 2>>}
MCContents == {<<1>>, <<0, 1>>}
MCSlips == {<<1, 2>>}
MCValue == [a |-> <<1, 1>>, b |-> <<2>>, c |-> <<3>>, old |-> <<0, 0>>]

Memory == INSTANCE MemoryStream WITH Inputs <- Contents, Careful <- TRUE, result <- returned

File == INSTANCE FileStream WITH Inputs <- Slips, MaxLength <- FileLength, Careful <- TRUE, result <- received

Disk == INSTANCE Files

MCInit ==
  /\ part \in {"buffered", "memory", "file", "disk"}
  /\ Init /\ (part # "buffered" => stream.size = 1)
  /\ Memory!Init /\ File!Init /\ Disk!Init

MCNext ==
  \/ part = "buffered" /\ Next /\ UNCHANGED <<part, memoryVars, fileVars, diskVars>>
  \/ part = "memory" /\ Memory!Next /\ UNCHANGED <<part, vars, fileVars, diskVars>>
  \/ part = "file" /\ File!Next /\ UNCHANGED <<part, vars, memoryVars, diskVars>>
  \/ part = "disk" /\ Disk!Next /\ UNCHANGED <<part, vars, memoryVars, fileVars>>

MCSpec == MCInit /\ [][MCNext]_<<part, vars, memoryVars, fileVars, diskVars>>

\* A memory stream is a stream, within its memory.
StreamsAreStreams ==
  /\ [](part = "memory" => Memory!StaysInMemory)
  /\ [][part = "memory" => Memory!ImplementsStream]_memoryVars

\* So is a file stream, however the system cuts its transfers up.
FilesAreStreams ==
  /\ [](part = "file" => File!TransfersOnce /\ File!KnowsItsFile)
  /\ [][part = "file" => File!ImplementsStream]_fileVars

\* Files are replaced as a whole, whatever fails, and nothing is left behind.
FilesAreWhole == part = "disk" => Disk!PathIsWhole /\ Disk!ReadsAreWhole /\ Disk!LeftoversAreExcused
==============================================================================
