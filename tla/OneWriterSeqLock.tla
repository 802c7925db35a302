-------------------------- MODULE OneWriterSeqLock --------------------------
(***************************************************************************)
(* OneWriterSeqLock (src/Stp/Base/Thread/OneWriterSeqLock.cpp): one writer *)
(* and many readers of data in several words.  The writer makes the        *)
(* sequence number odd, stores the words and makes it even again; a reader *)
(* copies the words between two loads of an even number and tries again    *)
(* when the number has changed.                                            *)
(*                                                                         *)
(* A write is told by its number: a word holds the number of the write     *)
(* that stored it.  Words are stored and copied one by one in any order,   *)
(* as the compiler likes.  The increments are full barriers (both are      *)
(* Barrier_AtomicIncrement) and ReadRetry has a fence before its load, but *)
(* ReadBegin uses NoBarrier_Load, which orders nothing: with Reorders the  *)
(* copy may overtake it.                                                   *)
(***************************************************************************)
EXTENDS Integers

CONSTANTS
  Readers,
  Words,
  None,         \* a word not copied yet
  Modulus,      \* of the sequence number: 2^32 in the code
  MaxWrites,    \* bound on the number of writes
  Reorders      \* whether loads may move before a relaxed load

ASSUME SeqLockAssumption ==
  /\ Modulus \in Nat /\ Modulus >= 2 /\ Modulus % 2 = 0
  /\ MaxWrites \in Nat
  /\ Reorders \in BOOLEAN
  /\ None \notin Nat

VARIABLES
  sequence,     \* sequence_
  data,         \* per word, the number of the write that stored it
  writing,      \* between WriteBegin and WriteEnd
  unstored,     \* the words the writer has still to store
  writes,       \* the number of writes begun so far
  pc, version,  \* per reader: where it is, the local version ...
  copy,         \* ... and the copy
  base, moved   \* history per reader: the last write completed when version was
                \* loaded, the increments of the sequence since then

writerVars == <<sequence, data, writing, unstored, writes>>
readerVars == <<pc, version, copy, base, moved>>
vars == <<sequence, data, writing, unstored, writes, pc, version, copy, base, moved>>

Init ==
  /\ sequence = 0
  /\ data = [w \in Words |-> 0]
  /\ writing = FALSE /\ unstored = {} /\ writes = 0
  /\ pc = [r \in Readers |-> "idle"]
  /\ version = [r \in Readers |-> 0]
  /\ copy = [r \in Readers |-> [w \in Words |-> None]]
  /\ base = [r \in Readers |-> 0]
  /\ moved = [r \in Readers |-> 0]

Increment ==
  /\ sequence' = IF sequence + 1 = Modulus THEN 0 ELSE sequence + 1
  /\ moved' = [r \in Readers |-> IF pc[r] = "copy" THEN moved[r] + 1 ELSE moved[r]]

------------------------------------------------------------------------------
(* The writer. *)

WriteBegin ==
  /\ ~writing /\ writes < MaxWrites
  /\ Increment
  /\ writing' = TRUE /\ unstored' = Words /\ writes' = writes + 1
  /\ UNCHANGED <<data, pc, version, copy, base>>

\* The writer assigns to the data.
WriteWord(w) ==
  /\ writing /\ w \in unstored
  /\ data' = [data EXCEPT ![w] = writes]
  /\ unstored' = unstored \ {w}
  /\ UNCHANGED <<sequence, writing, writes, readerVars>>

WriteEnd ==
  /\ writing /\ unstored = {}
  /\ Increment
  /\ writing' = FALSE
  /\ UNCHANGED <<data, unstored, writes, pc, version, copy, base>>

------------------------------------------------------------------------------
(* The readers. *)

\* A reader wants a copy.
Read(r) ==
  /\ pc[r] \in {"idle", "done"}
  /\ pc' = [pc EXCEPT ![r] = "begin"]
  /\ copy' = [copy EXCEPT ![r] = [w \in Words |-> None]]
  /\ UNCHANGED <<writerVars, version, base, moved>>

\* ReadBegin yields until the number is even.
ReadBegin(r) ==
  /\ pc[r] = "begin" /\ sequence % 2 = 0
  /\ pc' = [pc EXCEPT ![r] = "copy"]
  /\ version' = [version EXCEPT ![r] = sequence]
  /\ base' = [base EXCEPT ![r] = writes]
  /\ moved' = [moved EXCEPT ![r] = 0]
  /\ UNCHANGED <<writerVars, copy>>

\* The reader copies a word; before ReadBegin's load if that orders nothing.
ReadWord(r, w) ==
  /\ pc[r] = "copy" \/ (Reorders /\ pc[r] = "begin")
  /\ copy[r][w] = None
  /\ copy' = [copy EXCEPT ![r][w] = data[w]]
  /\ UNCHANGED <<writerVars, pc, version, base, moved>>

Copied(r) == \A w \in Words : copy[r][w] # None

\* Mutation: a changed number is not noticed while it is even.
ReadRetryOdd(r) ==
  /\ pc[r] = "copy" /\ Copied(r)
  /\ IF sequence % 2 = 0
     THEN pc' = [pc EXCEPT ![r] = "done"] /\ UNCHANGED copy
     ELSE /\ pc' = [pc EXCEPT ![r] = "begin"]
          /\ copy' = [copy EXCEPT ![r] = [w \in Words |-> None]]
  /\ UNCHANGED <<writerVars, version, base, moved>>

\* Mutation: the copy is made again without a new ReadBegin.
ReadRetryStale(r) ==
  /\ pc[r] = "copy" /\ Copied(r)
  /\ IF sequence = version[r]
     THEN pc' = [pc EXCEPT ![r] = "done"] /\ UNCHANGED copy
     ELSE copy' = [copy EXCEPT ![r] = [w \in Words |-> None]] /\ UNCHANGED pc
  /\ UNCHANGED <<writerVars, version, base, moved>>

\* ReadRetry: the copy is accepted, or made again.
ReadRetry(r) ==
  /\ pc[r] = "copy" /\ Copied(r)
  /\ IF sequence = version[r]
     THEN pc' = [pc EXCEPT ![r] = "done"] /\ UNCHANGED copy
     ELSE /\ pc' = [pc EXCEPT ![r] = "begin"]
          /\ copy' = [copy EXCEPT ![r] = [w \in Words |-> None]]
  /\ UNCHANGED <<writerVars, version, base, moved>>

Writer == WriteBegin \/ WriteEnd \/ \E w \in Words : WriteWord(w)
Reader(r) == ReadBegin(r) \/ ReadRetry(r) \/ \E w \in Words : ReadWord(r, w)

Next == Writer \/ \E r \in Readers : Read(r) \/ Reader(r)

Spec == Init /\ [][Next]_vars

\* Threads that have something to do are scheduled.
FairSpec == Spec /\ WF_vars(Writer) /\ \A r \in Readers : WF_vars(Reader(r))

------------------------------------------------------------------------------
(* Correctness. *)

\* Types; the number is odd exactly while a write is going on.
TypeOK ==
  /\ sequence \in 0 .. Modulus - 1
  /\ data \in [Words -> Nat]
  /\ writing \in BOOLEAN /\ unstored \subseteq Words /\ writes \in Nat
  /\ writing <=> sequence % 2 = 1
  /\ pc \in [Readers -> {"idle", "begin", "copy", "done"}]
  /\ version \in [Readers -> 0 .. Modulus - 1]
  /\ copy \in [Readers -> [Words -> Nat \cup {None}]]
  /\ base \in [Readers -> Nat] /\ moved \in [Readers -> Nat]

\* An accepted copy is the whole of one write, the last one that was complete
\* when the version was loaded, whatever the writer did meanwhile; unless the
\* number came round to the same value while the reader was copying.
ConsistentCopy ==
  \A r \in Readers : pc[r] = "done" /\ moved[r] < Modulus =>
    \A w \in Words : copy[r][w] = base[r]

\* When the writer pauses long enough a reader gets its copy.
ReaderFinishes == \A r \in Readers : pc[r] = "begin" ~> pc[r] = "done"
==============================================================================
