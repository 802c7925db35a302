---------------------------- MODULE RuntimeProofs ----------------------------
(***************************************************************************)
(* Proofs about the six components of MCRuntime, which share no state: an  *)
(* inductive invariant for each, and the theorems for the composition.     *)
(***************************************************************************)
EXTENDS MCRuntime, WellFoundedInduction, TLAPS

------------------------------------------------------------------------------
(* OneWriterSeqLock, for loads that are not reordered.  While fewer        *)
(* increments than the modulus have passed since a reader loaded its       *)
(* version, the number equals the version only if none has passed          *)
(* (InStep); and if none has passed the writer is resting, so that the     *)
(* data are those of the last complete write and so is what has been       *)
(* copied (Undisturbed).                                                   *)

Typed ==
  /\ sequence \in 0 .. Modulus - 1
  /\ data \in [Words -> Nat]
  /\ writing \in BOOLEAN /\ unstored \subseteq Words /\ writes \in Nat
  /\ pc \in [Readers -> {"idle", "begin", "copy", "done"}]
  /\ version \in [Readers -> 0 .. Modulus - 1]
  /\ copy \in [Readers -> [Words -> Nat \cup {None}]]
  /\ base \in [Readers -> Nat] /\ moved \in [Readers -> Nat]

OddWhileWriting == writing <=> sequence % 2 = 1

\* A resting writer has stored every word of its last write.
Stored ==
  /\ ~writing => unstored = {}
  /\ \A w \in Words : w \notin unstored => data[w] = writes

\* Before the number wraps round, it tells how many increments have passed.
InStep ==
  \A r \in Readers : pc[r] = "copy" /\ moved[r] < Modulus =>
    sequence = version[r] + moved[r] \/ sequence = version[r] + moved[r] - Modulus

Undisturbed ==
  \A r \in Readers : pc[r] = "copy" /\ moved[r] = 0 =>
    /\ ~writing /\ base[r] = writes
    /\ \A w \in Words : copy[r][w] # None => copy[r][w] = base[r]

\* Nothing is copied before the version is loaded.
NothingCopied ==
  \A r \in Readers : pc[r] = "begin" => \A w \in Words : copy[r][w] = None

CopiesInv ==
  /\ Typed /\ OddWhileWriting /\ Stored
  /\ InStep /\ Undisturbed /\ NothingCopied /\ ConsistentCopy

------------------------------------------------------------------------------

LEMMA InitCopiesInv == Init => CopiesInv
<1> SUFFICES ASSUME Init PROVE CopiesInv
  OBVIOUS
<1> USE SeqLockAssumption
<1>1. Typed
  <2>1. 0 \in 0 .. Modulus - 1
    OBVIOUS
  <2>2. copy \in [Readers -> [Words -> Nat \cup {None}]]
    BY DEF Init
  <2>3. data \in [Words -> Nat] /\ base \in [Readers -> Nat] /\ moved \in [Readers -> Nat]
    BY DEF Init
  <2>4. pc \in [Readers -> {"idle", "begin", "copy", "done"}]
    BY DEF Init
  <2>5. version \in [Readers -> 0 .. Modulus - 1] /\ sequence \in 0 .. Modulus - 1
    BY <2>1 DEF Init
  <2> QED
    BY <2>2, <2>3, <2>4, <2>5 DEF Init, Typed
<1>2. OddWhileWriting
  BY DEF Init, OddWhileWriting
<1>3. Stored
  BY DEF Init, Stored
<1>4. InStep /\ Undisturbed /\ NothingCopied /\ ConsistentCopy
  BY DEF Init, InStep, Undisturbed, NothingCopied, ConsistentCopy
<1> QED
  BY <1>1, <1>2, <1>3, <1>4 DEF CopiesInv

\* What an increment does to the number and to the readers.
LEMMA IncrementFacts ==
  ASSUME Typed, InStep, Increment, version' = version, pc' = pc
  PROVE  /\ sequence' \in 0 .. Modulus - 1
         /\ (sequence % 2 = 1) <=> ~(sequence' % 2 = 1)
         /\ moved' \in [Readers -> Nat]
         /\ InStep'
         /\ \A r \in Readers : pc[r] = "copy" => moved'[r] > 0
         /\ \A r \in Readers : pc[r] # "copy" => moved'[r] = moved[r]
<1> USE SeqLockAssumption
<1>1. sequence \in Int /\ 0 <= sequence /\ sequence < Modulus /\ Modulus \in Nat
  BY DEF Typed
<1>2. sequence' = IF sequence + 1 = Modulus THEN 0 ELSE sequence + 1
  BY DEF Increment
<1>3. sequence' \in 0 .. Modulus - 1
  BY <1>1, <1>2
<1>4. (sequence % 2 = 1) <=> ~(sequence' % 2 = 1)
  BY <1>1, <1>2
<1>5. moved' \in [Readers -> Nat]
  BY DEF Increment, Typed
<1>6. \A r \in Readers : pc[r] = "copy" => moved'[r] = moved[r] + 1
  BY DEF Increment
<1>7. InStep'
  <2> SUFFICES ASSUME NEW r \in Readers, pc[r] = "copy", moved'[r] < Modulus
               PROVE  \/ sequence' = version[r] + moved'[r]
                      \/ sequence' = version[r] + moved'[r] - Modulus
    BY DEF InStep
  <2>1. moved'[r] = moved[r] + 1 /\ moved[r] \in Nat /\ version[r] \in 0 .. Modulus - 1
    BY <1>6 DEF Typed
  <2>2. sequence = version[r] + moved[r] \/ sequence = version[r] + moved[r] - Modulus
    BY <2>1, <1>1 DEF InStep
  <2> QED
    BY <2>1, <2>2, <1>1, <1>2
<1>8. \A r \in Readers : pc[r] = "copy" => moved'[r] > 0
  BY <1>6 DEF Typed
<1>9. \A r \in Readers : pc[r] # "copy" => moved'[r] = moved[r]
  BY DEF Increment
<1> QED
  BY <1>3, <1>4, <1>5, <1>7, <1>8, <1>9

LEMMA WriteBeginCopiesInv ==
  ASSUME CopiesInv, WriteBegin
  PROVE  CopiesInv'
<1> USE SeqLockAssumption DEF WriteBegin
<1>1. /\ ~writing /\ writing' = TRUE /\ unstored' = Words /\ writes' = writes + 1
      /\ data' = data /\ pc' = pc /\ version' = version /\ copy' = copy /\ base' = base
      /\ Increment
  OBVIOUS
<1>2. /\ sequence' \in 0 .. Modulus - 1
      /\ (sequence % 2 = 1) <=> ~(sequence' % 2 = 1)
      /\ moved' \in [Readers -> Nat] /\ InStep'
      /\ \A r \in Readers : pc[r] = "copy" => moved'[r] > 0
      /\ \A r \in Readers : pc[r] # "copy" => moved'[r] = moved[r]
  BY <1>1, IncrementFacts DEF CopiesInv
<1>3. Typed'
  BY <1>1, <1>2 DEF CopiesInv, Typed
<1>4. OddWhileWriting'
  BY <1>1, <1>2 DEF CopiesInv, OddWhileWriting
<1>5. Stored'
  BY <1>1 DEF Stored
<1>6. Undisturbed'
  BY <1>1, <1>2 DEF Undisturbed
<1>7. NothingCopied' /\ ConsistentCopy'
  BY <1>1, <1>2 DEF CopiesInv, NothingCopied, ConsistentCopy
<1> QED
  BY <1>2, <1>3, <1>4, <1>5, <1>6, <1>7 DEF CopiesInv

LEMMA WriteEndCopiesInv ==
  ASSUME CopiesInv, WriteEnd
  PROVE  CopiesInv'
<1> USE SeqLockAssumption DEF WriteEnd
<1>1. /\ writing /\ unstored = {} /\ writing' = FALSE /\ unstored' = unstored /\ writes' = writes
      /\ data' = data /\ pc' = pc /\ version' = version /\ copy' = copy /\ base' = base
      /\ Increment
  OBVIOUS
<1>2. /\ sequence' \in 0 .. Modulus - 1
      /\ (sequence % 2 = 1) <=> ~(sequence' % 2 = 1)
      /\ moved' \in [Readers -> Nat] /\ InStep'
      /\ \A r \in Readers : pc[r] = "copy" => moved'[r] > 0
      /\ \A r \in Readers : pc[r] # "copy" => moved'[r] = moved[r]
  BY <1>1, IncrementFacts DEF CopiesInv
<1>3. Typed'
  BY <1>1, <1>2 DEF CopiesInv, Typed
<1>4. OddWhileWriting'
  BY <1>1, <1>2 DEF CopiesInv, OddWhileWriting
<1>5. Stored'
  BY <1>1 DEF CopiesInv, Stored
<1>6. Undisturbed'
  BY <1>1, <1>2 DEF Undisturbed
<1>7. NothingCopied' /\ ConsistentCopy'
  BY <1>1, <1>2 DEF CopiesInv, NothingCopied, ConsistentCopy
<1> QED
  BY <1>2, <1>3, <1>4, <1>5, <1>6, <1>7 DEF CopiesInv

LEMMA WriteWordCopiesInv ==
  ASSUME CopiesInv, NEW w \in Words, WriteWord(w)
  PROVE  CopiesInv'
<1> USE SeqLockAssumption
<1>1. /\ writing /\ w \in unstored /\ data' = [data EXCEPT ![w] = writes]
      /\ unstored' = unstored \ {w}
      /\ sequence' = sequence /\ writing' = writing /\ writes' = writes
      /\ pc' = pc /\ version' = version /\ copy' = copy /\ base' = base /\ moved' = moved
  BY DEF WriteWord, readerVars
<1>2. Typed' /\ OddWhileWriting'
  BY <1>1 DEF CopiesInv, Typed, OddWhileWriting
<1>3. Stored'
  BY <1>1 DEF CopiesInv, Stored, Typed
<1>4. InStep'
  BY <1>1 DEF CopiesInv, InStep
<1>5. Undisturbed'
  BY <1>1 DEF CopiesInv, Undisturbed
<1>6. NothingCopied' /\ ConsistentCopy'
  BY <1>1 DEF CopiesInv, NothingCopied, ConsistentCopy
<1> QED
  BY <1>2, <1>3, <1>4, <1>5, <1>6 DEF CopiesInv

LEMMA ReadCopiesInv ==
  ASSUME CopiesInv, NEW r \in Readers, Read(r)
  PROVE  CopiesInv'
<1> DEFINE nothing == [w \in Words |-> None]
<1>1. /\ pc' = [pc EXCEPT ![r] = "begin"] /\ copy' = [copy EXCEPT ![r] = nothing]
      /\ sequence' = sequence /\ data' = data /\ writing' = writing /\ unstored' = unstored
      /\ writes' = writes /\ version' = version /\ base' = base /\ moved' = moved
  BY DEF Read, writerVars
<1>2. nothing \in [Words -> Nat \cup {None}] /\ \A w \in Words : nothing[w] = None
  OBVIOUS
<1> HIDE DEF nothing
<1>3. /\ pc'[r] = "begin" /\ copy'[r] = nothing
      /\ \A q \in Readers \ {r} : pc'[q] = pc[q] /\ copy'[q] = copy[q]
  BY <1>1 DEF CopiesInv, Typed
<1>4. Typed' /\ OddWhileWriting' /\ Stored'
  BY <1>1, <1>2 DEF CopiesInv, Typed, OddWhileWriting, Stored
<1>5. InStep'
  BY <1>1, <1>3 DEF CopiesInv, InStep
<1>6. Undisturbed'
  BY <1>1, <1>3 DEF CopiesInv, Undisturbed
<1>7. NothingCopied'
  BY <1>2, <1>3 DEF CopiesInv, NothingCopied
<1>8. ConsistentCopy'
  BY <1>1, <1>3 DEF CopiesInv, ConsistentCopy
<1> QED
  BY <1>4, <1>5, <1>6, <1>7, <1>8 DEF CopiesInv

LEMMA ReadBeginCopiesInv ==
  ASSUME CopiesInv, NEW r \in Readers, ReadBegin(r)
  PROVE  CopiesInv'
<1> USE SeqLockAssumption
<1>1. /\ pc[r] = "begin" /\ sequence % 2 = 0
      /\ pc' = [pc EXCEPT ![r] = "copy"] /\ version' = [version EXCEPT ![r] = sequence]
      /\ base' = [base EXCEPT ![r] = writes] /\ moved' = [moved EXCEPT ![r] = 0]
      /\ sequence' = sequence /\ data' = data /\ writing' = writing /\ unstored' = unstored
      /\ writes' = writes /\ copy' = copy
  BY DEF ReadBegin, writerVars
<1>2. /\ pc'[r] = "copy" /\ version'[r] = sequence /\ base'[r] = writes /\ moved'[r] = 0
      /\ \A q \in Readers \ {r} : /\ pc'[q] = pc[q] /\ version'[q] = version[q]
                                  /\ base'[q] = base[q] /\ moved'[q] = moved[q]
  BY <1>1 DEF CopiesInv, Typed
<1>3. Typed'
  BY <1>1 DEF CopiesInv, Typed
<1>4. OddWhileWriting' /\ Stored'
  BY <1>1 DEF CopiesInv, OddWhileWriting, Stored
<1>5. InStep'
  <2>1. sequence = sequence + 0
    BY DEF CopiesInv, Typed
  <2> QED
    BY <2>1, <1>1, <1>2 DEF CopiesInv, InStep
<1>6. ~writing
  BY <1>1 DEF CopiesInv, OddWhileWriting
<1>7. Undisturbed'
  BY <1>1, <1>2, <1>6 DEF CopiesInv, Undisturbed, NothingCopied
<1>8. NothingCopied' /\ ConsistentCopy'
  BY <1>1, <1>2 DEF CopiesInv, NothingCopied, ConsistentCopy
<1> QED
  BY <1>3, <1>4, <1>5, <1>7, <1>8 DEF CopiesInv

LEMMA ReadWordCopiesInv ==
  ASSUME ~Reorders, CopiesInv, NEW r \in Readers, NEW w \in Words, ReadWord(r, w)
  PROVE  CopiesInv'
<1>1. /\ pc[r] = "copy" /\ copy' = [copy EXCEPT ![r][w] = data[w]]
      /\ sequence' = sequence /\ data' = data /\ writing' = writing /\ unstored' = unstored
      /\ writes' = writes /\ pc' = pc /\ version' = version /\ base' = base /\ moved' = moved
  BY DEF ReadWord, writerVars
<1>2. /\ copy'[r][w] = data[w]
      /\ \A v \in Words \ {w} : copy'[r][v] = copy[r][v]
      /\ \A q \in Readers \ {r} : copy'[q] = copy[q]
  BY <1>1 DEF CopiesInv, Typed
<1>3. Typed' /\ OddWhileWriting' /\ Stored'
  BY <1>1 DEF CopiesInv, Typed, OddWhileWriting, Stored
<1>4. InStep'
  BY <1>1 DEF CopiesInv, InStep
<1>5. Undisturbed'
  BY <1>1, <1>2 DEF CopiesInv, Undisturbed, Stored
<1>6. NothingCopied' /\ ConsistentCopy'
  BY <1>1, <1>2 DEF CopiesInv, NothingCopied, ConsistentCopy
<1> QED
  BY <1>3, <1>4, <1>5, <1>6 DEF CopiesInv

LEMMA ReadRetryCopiesInv ==
  ASSUME CopiesInv, NEW r \in Readers, ReadRetry(r)
  PROVE  CopiesInv'
<1> USE SeqLockAssumption
<1> DEFINE nothing == [w \in Words |-> None]
<1>1. /\ pc[r] = "copy" /\ Copied(r)
      /\ sequence' = sequence /\ data' = data /\ writing' = writing /\ unstored' = unstored
      /\ writes' = writes /\ version' = version /\ base' = base /\ moved' = moved
  BY DEF ReadRetry, writerVars
<1>2. CASE sequence = version[r]
  <2>1. pc' = [pc EXCEPT ![r] = "done"] /\ copy' = copy
    BY <1>2 DEF ReadRetry
  <2>2. pc'[r] = "done" /\ \A q \in Readers \ {r} : pc'[q] = pc[q]
    BY <2>1 DEF CopiesInv, Typed
  <2>3. Typed' /\ OddWhileWriting' /\ Stored'
    BY <1>1, <2>1 DEF CopiesInv, Typed, OddWhileWriting, Stored
  <2>4. InStep' /\ Undisturbed' /\ NothingCopied'
    BY <1>1, <2>1, <2>2 DEF CopiesInv, InStep, Undisturbed, NothingCopied
  <2>5. moved[r] < Modulus => moved[r] = 0
    <3>1. moved[r] \in Nat /\ version[r] \in Int
      BY DEF CopiesInv, Typed
    <3> QED
      BY <1>1, <1>2, <3>1 DEF CopiesInv, InStep
  <2>6. ConsistentCopy'
    BY <1>1, <2>1, <2>2, <2>5 DEF CopiesInv, ConsistentCopy, Undisturbed, Copied
  <2> QED
    BY <2>3, <2>4, <2>6 DEF CopiesInv
<1>3. CASE sequence # version[r]
  <2>1. pc' = [pc EXCEPT ![r] = "begin"] /\ copy' = [copy EXCEPT ![r] = nothing]
    BY <1>3 DEF ReadRetry
  <2>2. nothing \in [Words -> Nat \cup {None}] /\ \A w \in Words : nothing[w] = None
    OBVIOUS
  <2> HIDE DEF nothing
  <2>3. /\ pc'[r] = "begin" /\ copy'[r] = nothing
        /\ \A q \in Readers \ {r} : pc'[q] = pc[q] /\ copy'[q] = copy[q]
    BY <2>1 DEF CopiesInv, Typed
  <2>4. Typed' /\ OddWhileWriting' /\ Stored'
    BY <1>1, <2>1, <2>2 DEF CopiesInv, Typed, OddWhileWriting, Stored
  <2>5. InStep'
    BY <1>1, <2>3 DEF CopiesInv, InStep
  <2>6. Undisturbed'
    BY <1>1, <2>3 DEF CopiesInv, Undisturbed
  <2>7. NothingCopied' /\ ConsistentCopy'
    BY <1>1, <2>2, <2>3 DEF CopiesInv, NothingCopied, ConsistentCopy
  <2> QED
    BY <2>4, <2>5, <2>6, <2>7 DEF CopiesInv
<1> QED
  BY <1>2, <1>3

LEMMA StepCopiesInv ==
  ASSUME ~Reorders
  PROVE  CopiesInv /\ [Next]_vars => CopiesInv'
<1> SUFFICES ASSUME CopiesInv, [Next]_vars PROVE CopiesInv'
  OBVIOUS
<1>1. CASE UNCHANGED vars
  <2>1. /\ Typed' /\ OddWhileWriting' /\ Stored'
        /\ InStep' /\ Undisturbed' /\ NothingCopied' /\ ConsistentCopy'
    BY <1>1 DEF vars, CopiesInv, Typed, OddWhileWriting, Stored, InStep, Undisturbed,
       NothingCopied, ConsistentCopy
  <2> QED
    BY <2>1 DEF CopiesInv
<1>2. CASE Writer
  BY <1>2, WriteBeginCopiesInv, WriteEndCopiesInv, WriteWordCopiesInv DEF Writer
<1>3. ASSUME NEW r \in Readers, Read(r) PROVE CopiesInv'
  BY <1>3, ReadCopiesInv
<1>4. ASSUME NEW r \in Readers, Reader(r) PROVE CopiesInv'
  BY <1>4, ReadBeginCopiesInv, ReadWordCopiesInv, ReadRetryCopiesInv DEF Reader
<1> QED
  BY <1>1, <1>2, <1>3, <1>4 DEF Next

------------------------------------------------------------------------------

\* The types, and an odd number exactly during a write, when loads keep their
\* order.
THEOREM TypeCorrect ==
  ASSUME ~Reorders
  PROVE  Spec => []TypeOK
<1>1. CopiesInv => TypeOK
  BY DEF CopiesInv, Typed, OddWhileWriting, TypeOK
<1> QED
  BY <1>1, InitCopiesInv, StepCopiesInv, PTL DEF Spec

\* For any number of readers, words and writes, and any even modulus: ReadRetry
\* accepts only the whole of the last complete write, if loads keep their order
\* and the number does not come round.
THEOREM CopiesAreConsistent ==
  ASSUME ~Reorders
  PROVE  Spec => []ConsistentCopy
<1>1. CopiesInv => ConsistentCopy
  BY DEF CopiesInv
<1> QED
  BY <1>1, InitCopiesInv, StepCopiesInv, PTL DEF Spec

------------------------------------------------------------------------------
(* Lock: whoever is between the native calls holds the native lock, so     *)
(* that there is one such thread; and the owner is it, while it is inside. *)

LockThreads == Workers \cup {Main}
HasNative == {"marking", "inside", "releasing", "waiting"}

LocksInv ==
  /\ holder \in LockThreads \cup {NONE} /\ owner \in LockThreads \cup {NONE}
  /\ where \in [LockThreads -> HasNative \cup {"outside", "asleep"}]
  /\ \A t \in LockThreads : where[t] \in HasNative => holder = t
  /\ \A t \in LockThreads : where[t] = "inside" <=> owner = t

LEMMA LocksInitInv == Locks!Init => LocksInv
BY ThreadsAssumption DEF Locks!Init, LocksInv, LockThreads, HasNative

LEMMA LocksStepInv == LocksInv /\ (Locks!Next \/ UNCHANGED lockVars) => LocksInv'
<1> SUFFICES ASSUME LocksInv, Locks!Next \/ UNCHANGED lockVars PROVE LocksInv'
  OBVIOUS
<1> USE ThreadsAssumption DEF LocksInv, HasNative, Locks!To
<1>1. ASSUME NEW t \in LockThreads, Locks!NativeAcquire(t) PROVE LocksInv'
  BY <1>1 DEF Locks!NativeAcquire, LockThreads
<1>2. ASSUME NEW t \in LockThreads, Locks!Mark(t) PROVE LocksInv'
  <2>1. where[t] = "marking" /\ holder = t
    BY <1>2 DEF Locks!Mark
  <2>2. owner = NONE
    BY <2>1
  <2> QED
    BY <1>2, <2>1, <2>2 DEF Locks!Mark, LockThreads
<1>3. ASSUME NEW t \in LockThreads, NEW next \in {"releasing", "waiting"}, Locks!Unmark(t, next) PROVE LocksInv'
  BY <1>3 DEF Locks!Unmark, LockThreads
<1>4. ASSUME NEW t \in LockThreads, Locks!NativeRelease(t) PROVE LocksInv'
  BY <1>4 DEF Locks!NativeRelease
<1>5. ASSUME NEW t \in LockThreads, Locks!Sleep(t) PROVE LocksInv'
  BY <1>5 DEF Locks!Sleep
<1>6. ASSUME NEW t \in LockThreads, Locks!WakeUp(t) PROVE LocksInv'
  BY <1>6 DEF Locks!WakeUp, LockThreads
<1>7. ASSUME NEW some, Locks!Wake(some) PROVE LocksInv'
  BY <1>7 DEF Locks!Wake
<1>8. CASE UNCHANGED lockVars
  BY <1>8 DEF lockVars
<1> QED
  BY <1>1, <1>2, <1>3, <1>4, <1>5, <1>6, <1>7, <1>8 DEF Locks!Next, LockThreads

LEMMA OneHolds == LocksInv => Locks!OwnerIsHolder
BY DEF LocksInv, HasNative, Locks!OwnerIsHolder, LockThreads

------------------------------------------------------------------------------
(* CallOnce: who calls the function is alone, and the state tells whether  *)
(* it has been called.                                                     *)

OnceInv ==
  /\ state \in {"NotStarted", "Claimed", "Done"}
  /\ place \in [LockThreads -> {"outside", "claiming", "calling", "waiting", "returned", "thrown"}]
  /\ calls = IF state = "NotStarted" THEN 0 ELSE 1
  /\ \A t, u \in LockThreads : place[t] = "calling" =>
       state = "Claimed" /\ (place[u] = "calling" => u = t)

LEMMA OnceInitInv == Once!Init => OnceInv
BY DEF Once!Init, OnceInv, LockThreads

LEMMA OnceStepInv == OnceInv /\ (Once!Next \/ UNCHANGED onceVars) => OnceInv'
<1> SUFFICES ASSUME OnceInv, Once!Next \/ UNCHANGED onceVars PROVE OnceInv'
  OBVIOUS
<1> USE DEF OnceInv, Once!To
<1>1. ASSUME NEW t \in LockThreads, Once!Enter(t) PROVE OnceInv'
  BY <1>1 DEF Once!Enter
<1>2. ASSUME NEW t \in LockThreads, Once!Claim(t) PROVE OnceInv'
  BY <1>2 DEF Once!Claim
<1>3. ASSUME NEW t \in LockThreads, Once!Waited(t) PROVE OnceInv'
  BY <1>3 DEF Once!Waited
<1>4. ASSUME NEW t \in LockThreads, Once!Finish(t) PROVE OnceInv'
  BY <1>4 DEF Once!Finish
<1>5. ASSUME NEW t \in LockThreads, Once!Throw(t) PROVE OnceInv'
  BY <1>5 DEF Once!Throw
<1>6. ASSUME NEW t \in LockThreads, Once!Again(t) PROVE OnceInv'
  BY <1>6 DEF Once!Again
<1>7. CASE UNCHANGED onceVars
  BY <1>7 DEF onceVars
<1> QED
  BY <1>1, <1>2, <1>3, <1>4, <1>5, <1>6, <1>7 DEF Once!Next, LockThreads

LEMMA OneCalls == OnceInv => Once!CalledOnce
BY DEF OnceInv, Once!CalledOnce, LockThreads
------------------------------------------------------------------------------
(* Thread, for careful users.  A Thread object has at most one thread that *)
(* has not ended, and is there while it has one; a ThreadData of an object *)
(* is only used by that thread, and its first OnDestroy takes it away from *)
(* the thread before the thread can end.                                   *)

AllThreads == Workers \cup Externals \cup {Main}
Stages == {"unborn", "starting", "body", "exiting", "disposing", "ended"}

LifeTyped ==
  /\ stage \in [AllThreads -> Stages]
  /\ starter \in [AllThreads -> Objects \cup {NONE}]
  /\ current \in [AllThreads -> Objects \cup AllThreads \cup {NONE}]
  /\ key \in {"none", "valid", "deleted"}
  /\ DOMAIN task = AllThreads /\ \A t \in AllThreads : DOMAIN task[t] = {"that", "left", "called"}
  /\ rounds \in [AllThreads -> Nat]
  /\ alive \in [Objects -> BOOLEAN]

\* The key is there as long as other threads are.
KeyIsValid ==
  /\ \A t \in Workers : stage[t] \notin {"unborn", "ended"} => key = "valid"
  /\ \A t \in Workers : IF stage[t] = "unborn" THEN starter[t] = NONE ELSE starter[t] \in Objects

OneThread ==
  \A t \in Workers :
    /\ stage[t] \notin {"unborn", "ended"} => alive[starter[t]]
    /\ \A u \in Workers : /\ t # u /\ starter[t] = starter[u]
                          /\ stage[t] \notin {"unborn", "ended"} /\ stage[u] # "unborn"
                          => stage[u] = "ended"

\* Whose the ThreadData of an object is.
DataOfThread ==
  \A t \in Workers :
    /\ stage[t] \in {"unborn", "starting"} => rounds[t] = 0
    /\ current[t] \in Objects =>
         current[t] = starter[t] /\ rounds[t] = 0 /\ stage[t] \in {"body", "exiting"}
    /\ task[t].that \in Objects => task[t].that = starter[t] /\ stage[t] = "disposing"

LifeInv == LifeTyped /\ KeyIsValid /\ OneThread /\ DataOfThread

LEMMA LifeInitInv == Life!Init => LifeInv
<1> SUFFICES ASSUME Life!Init PROVE LifeInv
  OBVIOUS
<1> USE ThreadsAssumption DEF Life!Init, Life!NoTask, Life!Threads, AllThreads
<1>1. LifeTyped
  BY DEF LifeTyped, Stages
<1>2. KeyIsValid /\ OneThread /\ DataOfThread
  BY DEF KeyIsValid, OneThread, DataOfThread
<1> QED
  BY <1>1, <1>2 DEF LifeInv

\* Steps that leave what LifeInv is about alone.
LEMMA LifeSame ==
  ASSUME LifeInv, UNCHANGED <<stage, starter, current, key, task, rounds, alive>>
  PROVE  LifeInv'
BY DEF LifeInv, LifeTyped, KeyIsValid, OneThread, DataOfThread

\* The task of a thread after a step that may change its other fields.
LEMMA LifeStepInv ==
  ASSUME Careful
  PROVE  LifeInv /\ (Life!Next \/ UNCHANGED lifeVars) => LifeInv'
<1> SUFFICES ASSUME LifeInv, Life!Next \/ UNCHANGED lifeVars PROVE LifeInv'
  OBVIOUS
<1> USE ThreadsAssumption DEF LifeInv
<1>1. CASE UNCHANGED lifeVars
  BY <1>1, LifeSame DEF lifeVars
<1>2. ASSUME Life!ClassInit PROVE LifeInv'
  <2>1. /\ key' = "valid" /\ current' = [current EXCEPT ![Main] = Main]
        /\ UNCHANGED <<stage, starter, task, rounds, alive>>
    BY <1>2 DEF Life!ClassInit
  <2>2. LifeTyped'
    BY <2>1 DEF LifeTyped, AllThreads
  <2>3. KeyIsValid' /\ OneThread'
    BY <2>1 DEF KeyIsValid, OneThread
  <2>4. DataOfThread'
    BY <2>1 DEF DataOfThread, LifeTyped, AllThreads
  <2> QED
    BY <2>2, <2>3, <2>4
<1>3. ASSUME NEW o \in Objects, NEW t \in Workers, Life!Start(o, t) PROVE LifeInv'
  <2>1. /\ stage[t] = "unborn" /\ alive[o] /\ key = "valid"
        /\ \A u \in Workers : starter[u] = o => stage[u] \in {"unborn", "ended"}
        /\ starter' = [starter EXCEPT ![t] = o] /\ stage' = [stage EXCEPT ![t] = "starting"]
        /\ UNCHANGED <<current, key, task, rounds, alive>>
    BY <1>3 DEF Life!Start, Life!InUserCode, Life!Settled, Life!Runs
  <2>2. LifeTyped'
    BY <2>1 DEF LifeTyped, Stages
  <2>3. KeyIsValid' /\ OneThread'
    BY <2>1 DEF KeyIsValid, OneThread, LifeTyped, AllThreads
  <2>4. DataOfThread'
    BY <2>1 DEF DataOfThread, LifeTyped, AllThreads
  <2> QED
    BY <2>2, <2>3, <2>4
<1>4. ASSUME NEW t \in AllThreads, Life!ThreadMain(t) PROVE LifeInv'
  <2>1. /\ stage[t] = "starting"
        /\ stage' = [stage EXCEPT ![t] = "body"] /\ current' = [current EXCEPT ![t] = starter[t]]
        /\ UNCHANGED <<starter, key, task, rounds, alive>>
    BY <1>4 DEF Life!ThreadMain
  <2>2. LifeTyped'
    BY <2>1 DEF LifeTyped, Stages
  <2>3. KeyIsValid' /\ OneThread'
    BY <2>1 DEF KeyIsValid, OneThread, LifeTyped, AllThreads
  <2>4. DataOfThread'
    BY <2>1 DEF DataOfThread, LifeTyped, AllThreads
  <2> QED
    BY <2>2, <2>3, <2>4
<1>5. ASSUME NEW t \in AllThreads, Life!Adopt(t) PROVE LifeInv'
  <2>1. current' = [current EXCEPT ![t] = t] /\ UNCHANGED <<stage, starter, key, task, rounds, alive>>
    BY <1>5 DEF Life!Adopt
  <2>2. LifeTyped' /\ KeyIsValid' /\ OneThread'
    BY <2>1 DEF LifeTyped, KeyIsValid, OneThread
  <2>3. DataOfThread'
    BY <2>1 DEF DataOfThread, LifeTyped, AllThreads
  <2> QED
    BY <2>2, <2>3
<1>6. ASSUME NEW t \in AllThreads, Life!Return(t) PROVE LifeInv'
  <2>1. /\ stage[t] = "body" /\ stage' = [stage EXCEPT ![t] = "exiting"]
        /\ UNCHANGED <<starter, current, key, task, rounds, alive>>
    BY <1>6 DEF Life!Return
  <2>2. LifeTyped'
    BY <2>1 DEF LifeTyped, Stages
  <2>3. KeyIsValid' /\ OneThread' /\ DataOfThread'
    BY <2>1 DEF KeyIsValid, OneThread, DataOfThread, LifeTyped, AllThreads
  <2> QED
    BY <2>2, <2>3
<1>7. ASSUME NEW t \in AllThreads, Life!OnDestroy(t) PROVE LifeInv'
  <2>1. /\ stage[t] = "exiting" /\ current' = [current EXCEPT ![t] = NONE]
        /\ rounds' = [rounds EXCEPT ![t] = @ + 1] /\ stage' = [stage EXCEPT ![t] = "disposing"]
        /\ task' = [task EXCEPT ![t] = [that |-> current[t], left |-> at_exit[current[t]], called |-> FALSE]]
        /\ UNCHANGED <<starter, key, alive>>
    BY <1>7 DEF Life!OnDestroy, Life!Dispose
  <2>2. LifeTyped'
    BY <2>1 DEF LifeTyped, Stages
  <2>3. KeyIsValid' /\ OneThread'
    BY <2>1 DEF KeyIsValid, OneThread, LifeTyped, AllThreads
  <2>4. DataOfThread'
    BY <2>1 DEF DataOfThread, LifeTyped, AllThreads
  <2> QED
    BY <2>2, <2>3, <2>4
<1>8. ASSUME Life!ClassFini PROVE LifeInv'
  <2>1. /\ stage[Main] = "body" /\ stage' = [stage EXCEPT ![Main] = "disposing"]
        /\ task' = [task EXCEPT ![Main] = [that |-> current[Main], left |-> at_exit[current[Main]], called |-> FALSE]]
        /\ UNCHANGED <<starter, current, rounds, key, alive>>
    BY <1>8 DEF Life!ClassFini, Life!Dispose
  <2>2. LifeTyped'
    BY <2>1 DEF LifeTyped, Stages, AllThreads
  <2>3. KeyIsValid' /\ OneThread' /\ DataOfThread'
    BY <2>1 DEF KeyIsValid, OneThread, DataOfThread, LifeTyped, AllThreads
  <2> QED
    BY <2>2, <2>3
<1>9. ASSUME NEW t \in AllThreads, Life!Call(t) PROVE LifeInv'
  <2>1. UNCHANGED <<stage, starter, current, key, rounds, alive>>
    BY <1>9 DEF Life!Call
  <2>2. /\ DOMAIN task' = AllThreads /\ \A u \in AllThreads : DOMAIN task'[u] = {"that", "left", "called"}
        /\ \A u \in AllThreads : task'[u].that = task[u].that
    BY <1>9 DEF Life!Call, LifeTyped
  <2>3. LifeTyped'
    BY <2>1, <2>2 DEF LifeTyped
  <2>4. KeyIsValid' /\ OneThread' /\ DataOfThread'
    BY <2>1, <2>2 DEF KeyIsValid, OneThread, DataOfThread, AllThreads
  <2> QED
    BY <2>3, <2>4
<1>10. ASSUME NEW t \in AllThreads, Life!Disposed(t) PROVE LifeInv'
  <2>1. /\ stage[t] = "disposing" /\ stage' = [stage EXCEPT ![t] = IF t = Main THEN "ended" ELSE "exiting"]
        /\ task' = [task EXCEPT ![t] = [that |-> NONE, left |-> <<>>, called |-> FALSE]]
        /\ key' = IF t = Main THEN "deleted" ELSE key
        /\ t = Main => \A u \in AllThreads \ {Main} : stage[u] \in {"unborn", "ended"}
        /\ UNCHANGED <<starter, current, rounds, alive>>
    BY <1>10 DEF Life!Disposed, Life!NoTask, Life!Threads, AllThreads
  <2>2. LifeTyped'
    BY <2>1 DEF LifeTyped, Stages
  <2>3. KeyIsValid'
    BY <2>1 DEF KeyIsValid, LifeTyped, AllThreads
  <2>4. OneThread' /\ DataOfThread'
    BY <2>1 DEF OneThread, DataOfThread, LifeTyped, AllThreads
  <2> QED
    BY <2>2, <2>3, <2>4
<1>11. ASSUME NEW t \in AllThreads, Life!End(t) PROVE LifeInv'
  <2>1. /\ stage[t] = "exiting" /\ stage' = [stage EXCEPT ![t] = "ended"]
        /\ key # "valid" \/ current[t] = NONE \/ rounds[t] = Iterations
        /\ UNCHANGED <<starter, current, key, task, rounds, alive>>
    BY <1>11 DEF Life!End
  <2>2. t \in Workers => current[t] \notin Objects
    BY <2>1 DEF KeyIsValid, DataOfThread
  <2>3. LifeTyped'
    BY <2>1 DEF LifeTyped, Stages
  <2>4. KeyIsValid' /\ OneThread'
    BY <2>1 DEF KeyIsValid, OneThread, LifeTyped, AllThreads
  <2>5. DataOfThread'
    BY <2>1, <2>2 DEF DataOfThread, LifeTyped, AllThreads
  <2> QED
    BY <2>3, <2>4, <2>5
<1>12. ASSUME NEW o \in Objects, Life!Destroy(o) PROVE LifeInv'
  <2>1. /\ \A u \in Workers : starter[u] = o => stage[u] \in {"unborn", "ended"}
        /\ alive' = [alive EXCEPT ![o] = FALSE]
        /\ UNCHANGED <<stage, starter, current, key, task, rounds>>
    BY <1>12 DEF Life!Destroy, Life!Settled, Life!Runs
  <2>2. LifeTyped'
    BY <2>1 DEF LifeTyped
  <2>3. KeyIsValid' /\ OneThread' /\ DataOfThread'
    BY <2>1 DEF KeyIsValid, OneThread, DataOfThread, LifeTyped
  <2> QED
    BY <2>2, <2>3
<1>13. ASSUME NEW t, Life!AtExit(t) PROVE LifeInv'
  BY <1>13, LifeSame DEF Life!AtExit
<1>14. ASSUME NEW o, Life!Join(o) \/ Life!Detach(o) PROVE LifeInv'
  BY <1>14, LifeSame DEF Life!Join, Life!Detach
<1>15. ASSUME Life!JoinReturns PROVE LifeInv'
  BY <1>15, LifeSame DEF Life!JoinReturns
<1>16. CASE Life!Next
  BY <1>16, <1>2, <1>3, <1>4, <1>5, <1>6, <1>7, <1>8, <1>9, <1>10, <1>11, <1>12, <1>13, <1>14, <1>15
     DEF Life!Next, Life!Threads, AllThreads
<1> QED
  BY <1>1, <1>16

LEMMA LifeIsLive == LifeInv => Life!DataIsLive
<1> SUFFICES ASSUME LifeInv PROVE Life!DataIsLive
  OBVIOUS
<1> USE DEF LifeInv
<1>1. ASSUME NEW t \in Workers, NEW o \in Objects,
             o \in {current[t], task[t].that} \/ (starter[t] = o /\ stage[t] \in {"starting", "body"})
      PROVE  alive[o]
  <2>1. starter[t] = o /\ stage[t] \notin {"unborn", "ended"}
    BY <1>1 DEF DataOfThread
  <2> QED
    BY <2>1 DEF OneThread
<1>2. ASSUME NEW t \in Workers, NEW u \in Workers,
             t # u, stage[t] # "unborn", starter[t] = starter[u]
      PROVE  "ended" \in {stage[t], stage[u]}
  BY <1>2, ThreadsAssumption DEF OneThread, KeyIsValid
<1> QED
  BY <1>1, <1>2 DEF Life!DataIsLive

------------------------------------------------------------------------------
(* The callbacks of the threads, for careful users.  What a thread has     *)
(* registered since its last OnDestroy is pending in its ThreadData; what  *)
(* it registered before has been called or is left in its task.            *)

CallLists == Seq(AllThreads \X Nat)

CallsTyped ==
  /\ at_exit \in [AllThreads \cup Objects -> CallLists]
  /\ task \in [AllThreads -> [that : Objects \cup AllThreads \cup {NONE}, left : CallLists, called : BOOLEAN]]
  /\ history \in [AllThreads -> [accepted : Seq(Nat), called : CallLists]]

\* What a thread's stage says about its ThreadData and its task.
StagesOf(t) ==
  /\ stage[t] # "disposing" => task[t].left = <<>>
  /\ current[t] \in AllThreads => current[t] = t
  /\ current[t] \in Objects => t \in Workers
  /\ stage[t] \in {"unborn", "starting"} => t \in Workers /\ current[t] = NONE
  /\ t # Main /\ stage[t] = "ended" => current[t] = NONE \/ rounds[t] = Iterations
  /\ rounds[t] <= Iterations

\* ClassInit comes before all of it, ClassFini after.
KeyOutlives ==
  /\ stage[Main] \in {"body", "disposing", "ended"} /\ rounds[Main] = 0
  /\ key = "none" => \A t \in AllThreads : current[t] = NONE /\ stage[t] \in {"unborn", "body"}
  /\ key # "none" => current[Main] = Main
  /\ key = "deleted" => \A t \in AllThreads \ {Main} : stage[t] \in {"unborn", "ended"}

\* A ThreadData that is nobody's current one is empty, and so is that of the
\* main thread once ClassFini disposes of it.
NoLeftovers ==
  /\ stage[Main] # "body" => at_exit[Main] = <<>>
  /\ \A d \in AllThreads \cup Objects : at_exit[d] # <<>> => \E t \in AllThreads : current[t] = d

\* The rounds of a thread that have begun.
Begun(t) == IF t # Main THEN rounds[t] ELSE IF stage[Main] = "body" THEN 0 ELSE 1

\* The callbacks in c are of t, which has passed to AtExit one in each of the rounds.
Of(t, c, round) == \A i \in DOMAIN c : c[i] = <<t, c[i][2]>> /\ c[i][2] \in DOMAIN round

Earlier(round, k, l) == round[k] < round[l] \/ (round[k] = round[l] /\ k > l)

\* q holds the callbacks of round b, in order; those of other rounds are of earlier ones.
PendingIn(t, round, q, b) ==
  /\ Of(t, q, round)
  /\ \A i \in DOMAIN q : round[q[i][2]] = b
  /\ \A k \in DOMAIN round : round[k] < b \/ \E i \in DOMAIN q : q[i] = <<t, k>>
  /\ \A i, j \in DOMAIN q : i < j => q[i][2] < q[j][2]

\* The callbacks of the rounds before b have been called in order or are left.
PlayedIn(t, round, called, left, b) ==
  /\ Of(t, called, round) /\ Of(t, left, round)
  /\ \A i \in DOMAIN called : round[called[i][2]] < b
  /\ \A i \in DOMAIN left : round[left[i][2]] < b
  /\ \A k \in DOMAIN round : round[k] < b =>
       (\E i \in DOMAIN called : called[i] = <<t, k>>) \/ (\E i \in DOMAIN left : left[i] = <<t, k>>)
  /\ \A i, j \in DOMAIN called : i < j => Earlier(round, called[i][2], called[j][2])
  /\ \A i \in DOMAIN called, j \in DOMAIN left : Earlier(round, called[i][2], left[j][2])
  /\ \A i, j \in DOMAIN left : i < j => Earlier(round, left[j][2], left[i][2])

DataOf(t) == IF current[t] = NONE THEN <<>> ELSE at_exit[current[t]]
Pending(t) == PendingIn(t, history[t].accepted, DataOf(t), Begun(t))
Played(t) == PlayedIn(t, history[t].accepted, history[t].called, task[t].left, Begun(t))

CallsInv ==
  /\ CallsTyped /\ KeyOutlives /\ NoLeftovers
  /\ \A t \in AllThreads : StagesOf(t) /\ Pending(t) /\ Played(t)

LEMMA CallsInitInv == Life!Init => CallsInv
<1> SUFFICES ASSUME Life!Init PROVE CallsInv
  OBVIOUS
<1> USE ThreadsAssumption DEF Life!Init, Life!NoTask, Life!Threads, AllThreads
<1>1. CallsTyped
  BY DEF CallsTyped, CallLists
<1>2. KeyOutlives /\ NoLeftovers
  BY DEF KeyOutlives, NoLeftovers
<1>3. ASSUME NEW t \in AllThreads PROVE StagesOf(t) /\ Pending(t) /\ Played(t)
  <2>1. history[t].accepted = <<>> /\ history[t].called = <<>> /\ task[t].left = <<>> /\ current[t] = NONE
    OBVIOUS
  <2>2. StagesOf(t)
    BY <2>1 DEF StagesOf
  <2> QED
    BY <2>1, <2>2 DEF Pending, PendingIn, DataOf, Played, PlayedIn, Of
<1> QED
  BY <1>1, <1>2, <1>3 DEF CallsInv

\* What becomes of the lists when a callback is added, the pending ones are moved out
\* and the last of these is called.
LEMMA AddedIsPending ==
  ASSUME NEW t \in AllThreads, NEW round \in Seq(Nat), NEW q \in CallLists, NEW b \in Nat, PendingIn(t, round, q, b)
  PROVE  PendingIn(t, Append(round, b), Append(q, <<t, Len(round) + 1>>), b)
<1> DEFINE n == Len(round) + 1
           m == Len(q) + 1
           new == Append(round, b)
           r == Append(q, <<t, n>>)
<1>1. DOMAIN new = DOMAIN round \cup {n} /\ new[n] = b /\ n \notin DOMAIN round /\ \A k \in DOMAIN round : new[k] = round[k]
  OBVIOUS
<1>2. /\ DOMAIN r = DOMAIN q \cup {m} /\ \A i \in DOMAIN q : r[i] = q[i] /\ i \in Nat /\ i < m
      /\ r[m] = <<t, n>> /\ m \in Nat
  BY DEF CallLists
<1>3. \A k \in DOMAIN round : k < n /\ k \in Nat
  OBVIOUS
<1>4. r[m][2] = n
  BY <1>2
<1>5. /\ \A i \in DOMAIN q : q[i] = <<t, q[i][2]>> /\ q[i][2] \in DOMAIN round /\ round[q[i][2]] = b
      /\ \A k \in DOMAIN round : round[k] < b \/ \E i \in DOMAIN q : q[i] = <<t, k>>
      /\ \A i, j \in DOMAIN q : i < j => q[i][2] < q[j][2]
  BY DEF PendingIn, Of
<1> HIDE DEF new, r, n, m
<1>6. \A i \in DOMAIN r : r[i] = <<t, r[i][2]>> /\ r[i][2] \in DOMAIN new /\ new[r[i][2]] = b
  BY <1>1, <1>2, <1>4, <1>5
<1>7. \A k \in DOMAIN new : new[k] < b \/ \E i \in DOMAIN r : r[i] = <<t, k>>
  BY <1>1, <1>2, <1>5
<1>8. \A i, j \in DOMAIN r : i < j => r[i][2] < r[j][2]
  <2> SUFFICES ASSUME NEW i \in DOMAIN r, NEW j \in DOMAIN r, i < j PROVE r[i][2] < r[j][2]
    OBVIOUS
  <2>1. i \in DOMAIN q
    BY <1>2
  <2> QED
    BY <1>2, <1>3, <1>4, <1>5, <2>1
<1>9. PendingIn(t, new, r, b)
  BY <1>6, <1>7, <1>8 DEF PendingIn, Of
<1> QED
  BY <1>9 DEF new, r, n

LEMMA AddedIsNotPlayed ==
  ASSUME NEW t \in AllThreads, NEW round \in Seq(Nat), NEW called, NEW left, NEW b \in Nat,
         PlayedIn(t, round, called, left, b)
  PROVE  PlayedIn(t, Append(round, b), called, left, b)
<1> DEFINE n == Len(round) + 1
           new == Append(round, b)
<1>1. DOMAIN new = DOMAIN round \cup {n} /\ new[n] = b /\ n \notin DOMAIN round /\ \A k \in DOMAIN round : new[k] = round[k]
  OBVIOUS
<1>2. Of(t, called, round) /\ Of(t, left, round)
  BY DEF PlayedIn
<1> HIDE DEF new, n
<1>3. Of(t, called, new) /\ Of(t, left, new)
  BY <1>1, <1>2 DEF Of
<1>4. /\ \A i \in DOMAIN called : new[called[i][2]] < b
      /\ \A i \in DOMAIN left : new[left[i][2]] < b
  BY <1>1, <1>2 DEF PlayedIn, Of
<1>5. \A k \in DOMAIN new : new[k] < b =>
        (\E i \in DOMAIN called : called[i] = <<t, k>>) \/ (\E i \in DOMAIN left : left[i] = <<t, k>>)
  BY <1>1 DEF PlayedIn
<1>6. \A k, l \in DOMAIN round : Earlier(round, k, l) => Earlier(new, k, l)
  BY <1>1 DEF Earlier
<1>7. /\ \A i, j \in DOMAIN called : i < j => Earlier(new, called[i][2], called[j][2])
      /\ \A i \in DOMAIN called, j \in DOMAIN left : Earlier(new, called[i][2], left[j][2])
      /\ \A i, j \in DOMAIN left : i < j => Earlier(new, left[j][2], left[i][2])
  BY <1>2, <1>6 DEF PlayedIn, Of
<1>8. PlayedIn(t, new, called, left, b)
  BY <1>3, <1>4, <1>5, <1>7 DEF PlayedIn
<1> QED
  BY <1>8 DEF new

LEMMA PendingIsMoved ==
  ASSUME NEW t \in AllThreads, NEW round \in Seq(Nat), NEW q, NEW called, NEW b \in Nat,
         PendingIn(t, round, q, b), PlayedIn(t, round, called, <<>>, b)
  PROVE  PendingIn(t, round, <<>>, b + 1) /\ PlayedIn(t, round, called, q, b + 1)
<1>1. \A k \in DOMAIN round : round[k] \in Nat /\ k \in Nat
  OBVIOUS
<1>2. /\ \A i \in DOMAIN q : q[i] = <<t, q[i][2]>> /\ q[i][2] \in DOMAIN round /\ round[q[i][2]] = b
      /\ \A k \in DOMAIN round : round[k] < b \/ \E i \in DOMAIN q : q[i] = <<t, k>>
      /\ \A i, j \in DOMAIN q : i < j => q[i][2] < q[j][2]
  BY DEF PendingIn, Of
<1>3. \A k \in DOMAIN round : round[k] < b + 1
  BY <1>1, <1>2
<1>4. PendingIn(t, round, <<>>, b + 1)
  BY <1>3 DEF PendingIn, Of
<1>5. /\ \A i \in DOMAIN called : called[i] = <<t, called[i][2]>> /\ called[i][2] \in DOMAIN round
      /\ \A i \in DOMAIN called : round[called[i][2]] < b
      /\ \A k \in DOMAIN round : round[k] < b => \E i \in DOMAIN called : called[i] = <<t, k>>
      /\ \A i, j \in DOMAIN called : i < j => Earlier(round, called[i][2], called[j][2])
  BY DEF PlayedIn, Of
<1>6. /\ \A i \in DOMAIN called : round[called[i][2]] < b + 1
      /\ \A i \in DOMAIN q : round[q[i][2]] < b + 1
  BY <1>2, <1>3, <1>5
<1>7. \A k \in DOMAIN round : (\E i \in DOMAIN called : called[i] = <<t, k>>) \/ (\E i \in DOMAIN q : q[i] = <<t, k>>)
  BY <1>2, <1>5
<1>8. \A i \in DOMAIN called, j \in DOMAIN q : Earlier(round, called[i][2], q[j][2])
  BY <1>2, <1>5 DEF Earlier
<1>9. \A i, j \in DOMAIN q : i < j => Earlier(round, q[j][2], q[i][2])
  BY <1>1, <1>2 DEF Earlier
<1> QED
  BY <1>2, <1>4, <1>5, <1>6, <1>7, <1>8, <1>9 DEF PlayedIn, Of

LEMMA LastIsPlayed ==
  ASSUME NEW t \in AllThreads, NEW round \in Seq(Nat), NEW called \in CallLists, NEW left \in CallLists, NEW b \in Nat,
         left # <<>>, PlayedIn(t, round, called, left, b)
  PROVE  PlayedIn(t, round, Append(called, left[Len(left)]), SubSeq(left, 1, Len(left) - 1), b)
<1> DEFINE n == Len(left)
           m == Len(called)
           less == SubSeq(left, 1, n - 1)
           more == Append(called, left[n])
<1>1. n \in Nat \ {0} /\ m \in Nat /\ DOMAIN left = 1 .. n /\ DOMAIN called = 1 .. m
  BY DEF CallLists
<1>2. DOMAIN less = 1 .. (n - 1) /\ \A i \in 1 .. (n - 1) : less[i] = left[i]
  BY DEF CallLists
<1>3. DOMAIN more = 1 .. (m + 1) /\ more[m + 1] = left[n] /\ \A i \in 1 .. m : more[i] = called[i]
  BY DEF CallLists
<1>4. /\ \A i \in 1 .. m : called[i] = <<t, called[i][2]>> /\ called[i][2] \in DOMAIN round
      /\ \A i \in 1 .. n : left[i] = <<t, left[i][2]>> /\ left[i][2] \in DOMAIN round
      /\ \A i \in 1 .. m : round[called[i][2]] < b
      /\ \A i \in 1 .. n : round[left[i][2]] < b
      /\ \A k \in DOMAIN round : round[k] < b =>
           (\E i \in 1 .. m : called[i] = <<t, k>>) \/ (\E i \in 1 .. n : left[i] = <<t, k>>)
      /\ \A i, j \in 1 .. m : i < j => Earlier(round, called[i][2], called[j][2])
      /\ \A i \in 1 .. m, j \in 1 .. n : Earlier(round, called[i][2], left[j][2])
      /\ \A i, j \in 1 .. n : i < j => Earlier(round, left[j][2], left[i][2])
  BY <1>1 DEF PlayedIn, Of
<1> HIDE DEF n, m, less, more
<1>5. \A i \in 1 .. m + 1 : i \in 1 .. m \/ i = m + 1
  BY <1>1
<1>6. \A i \in 1 .. n - 1 : i \in 1 .. n /\ i < n
  BY <1>1
<1>7. \A i \in 1 .. n : i \in 1 .. n - 1 \/ i = n
  BY <1>1
<1>8. (\A i \in 1 .. m : i \in 1 .. m + 1) /\ n \in 1 .. n /\ m + 1 \in 1 .. m + 1
  BY <1>1
<1>9. \A i \in 1 .. m + 1 : more[i] = <<t, more[i][2]>> /\ more[i][2] \in DOMAIN round /\ round[more[i][2]] < b
  BY <1>3, <1>4, <1>5, <1>8
<1>10. \A i \in 1 .. n - 1 : less[i] = <<t, less[i][2]>> /\ less[i][2] \in DOMAIN round /\ round[less[i][2]] < b
  BY <1>2, <1>4, <1>6
<1>11. ASSUME NEW k \in DOMAIN round, round[k] < b
       PROVE  (\E i \in 1 .. m + 1 : more[i] = <<t, k>>) \/ (\E i \in 1 .. n - 1 : less[i] = <<t, k>>)
  <2>1. CASE \E i \in 1 .. m : called[i] = <<t, k>>
    BY <1>3, <1>8, <2>1
  <2>2. CASE \E i \in 1 .. n : left[i] = <<t, k>>
    BY <1>2, <1>3, <1>7, <1>8, <2>2
  <2> QED
    BY <1>4, <1>11, <2>1, <2>2
<1>12. ASSUME NEW i \in 1 .. m + 1, NEW j \in 1 .. m + 1, i < j PROVE Earlier(round, more[i][2], more[j][2])
  <2>1. i \in 1 .. m
    BY <1>1, <1>12
  <2>2. CASE j \in 1 .. m
    BY <1>3, <1>4, <1>12, <2>1, <2>2
  <2>3. CASE j = m + 1
    BY <1>3, <1>4, <1>8, <2>1, <2>3
  <2> QED
    BY <1>5, <2>2, <2>3
<1>13. ASSUME NEW i \in 1 .. m + 1, NEW j \in 1 .. n - 1 PROVE Earlier(round, more[i][2], less[j][2])
  <2>1. less[j] = left[j] /\ j \in 1 .. n /\ j < n
    BY <1>2, <1>6
  <2>2. CASE i \in 1 .. m
    BY <1>3, <1>4, <2>1, <2>2
  <2>3. CASE i = m + 1
    BY <1>3, <1>4, <1>8, <2>1, <2>3
  <2> QED
    BY <1>5, <2>2, <2>3
<1>14. ASSUME NEW i \in 1 .. n - 1, NEW j \in 1 .. n - 1, i < j PROVE Earlier(round, less[j][2], less[i][2])
  BY <1>2, <1>4, <1>6, <1>14
<1>15. PlayedIn(t, round, more, less, b)
  BY <1>2, <1>3, <1>9, <1>10, <1>11, <1>12, <1>13, <1>14 DEF PlayedIn, Of
<1> QED
  BY <1>15 DEF more, less, n

\* The steps that leave a thread's callbacks alone.
LEMMA PendingSame ==
  ASSUME NEW t \in AllThreads, Pending(t), history'[t] = history[t], Begun(t)' = Begun(t),
         current'[t] = current[t], current[t] # NONE => at_exit'[current[t]] = at_exit[current[t]]
  PROVE  Pending(t)'
BY DEF Pending, DataOf

LEMMA PlayedSame ==
  ASSUME NEW t \in AllThreads, Played(t), history'[t] = history[t], Begun(t)' = Begun(t),
         task'[t].left = task[t].left
  PROVE  Played(t)'
BY DEF Played

LEMMA QuietStep ==
  ASSUME CallsInv, CallsTyped', UNCHANGED <<history, at_exit, current, rounds>>,
         \A t \in AllThreads : task'[t].left = task[t].left,
         stage'[Main] = "body" <=> stage[Main] = "body"
  PROVE  NoLeftovers' /\ \A t \in AllThreads : Pending(t)' /\ Played(t)'
<1>1. NoLeftovers'
  BY DEF CallsInv, NoLeftovers
<1>2. ASSUME NEW t \in AllThreads PROVE Pending(t)' /\ Played(t)'
  <2>1. Begun(t)' = Begun(t)
    BY DEF Begun
  <2> QED
    BY <2>1, PendingSame, PlayedSame DEF CallsInv
<1> QED
  BY <1>1, <1>2

\* A thread gets a ThreadData, which is empty.
LEMMA RegisterStep ==
  ASSUME CallsInv, NEW t \in AllThreads, NEW d \in AllThreads \cup Objects,
         current[t] = NONE, d # NONE, at_exit[d] = <<>>, current' = [current EXCEPT ![t] = d],
         current \in [AllThreads -> Objects \cup AllThreads \cup {NONE}],
         UNCHANGED <<history, at_exit, rounds, task>>, stage'[Main] = "body" <=> stage[Main] = "body"
  PROVE  CallsTyped' /\ NoLeftovers' /\ \A u \in AllThreads : Pending(u)' /\ Played(u)'
<1>1. CallsTyped'
  BY DEF CallsInv, CallsTyped
<1>2. NoLeftovers'
  <2> SUFFICES ASSUME NEW e \in AllThreads \cup Objects, at_exit[e] # <<>>
               PROVE  \E u \in AllThreads : current'[u] = e
    BY ThreadsAssumption DEF CallsInv, NoLeftovers
  <2>1. PICK u \in AllThreads : current[u] = e
    BY DEF CallsInv, NoLeftovers
  <2>2. u # t
    BY <2>1, ThreadsAssumption DEF AllThreads
  <2> QED
    BY <2>1, <2>2
<1>3. ASSUME NEW u \in AllThreads PROVE Pending(u)' /\ Played(u)'
  <2>1. Begun(u)' = Begun(u)
    BY DEF Begun
  <2>2. Played(u)'
    BY <2>1, PlayedSame DEF CallsInv
  <2>3. CASE u # t
    BY <2>1, <2>2, <2>3, PendingSame DEF CallsInv
  <2>4. CASE u = t
    <3>1. DataOf(t) = <<>> /\ DataOf(t)' = <<>>
      BY DEF DataOf
    <3>2. Pending(t)
      BY DEF CallsInv
    <3>3. Pending(t)'
      BY <2>1, <2>4, <3>1, <3>2 DEF Pending
    <3> QED
      BY <2>2, <2>4, <3>3
  <2> QED
    BY <2>3, <2>4
<1> QED
  BY <1>1, <1>2, <1>3

\* No two threads have the same ThreadData.
LEMMA Apart ==
  ASSUME LifeInv, CallsInv, NEW t \in AllThreads, NEW u \in AllThreads, t # u, current[t] # NONE
  PROVE  current[u] # current[t]
<1> SUFFICES ASSUME current[u] = current[t] PROVE FALSE
  OBVIOUS
<1>1. current[t] \in Objects \cup AllThreads
  BY DEF LifeInv, LifeTyped
<1>2. CASE current[t] \in AllThreads
  BY <1>2 DEF CallsInv, StagesOf
<1>3. CASE current[t] \in Objects
  <2>1. t \in Workers /\ u \in Workers
    BY <1>3 DEF CallsInv, StagesOf
  <2>2. /\ starter[t] = starter[u] /\ stage[t] \in {"body", "exiting"} /\ stage[u] \in {"body", "exiting"}
    BY <1>3, <2>1 DEF LifeInv, DataOfThread
  <2> QED
    BY <2>1, <2>2 DEF LifeInv, OneThread
<1> QED
  BY <1>1, <1>2, <1>3

\* Thread::AtExit, in the round of the thread.
LEMMA AtExitCallsInv ==
  ASSUME Careful, LifeInv, CallsInv, NEW t \in AllThreads, Life!AtExit(t)
  PROVE  CallsInv'
<1> DEFINE d == current[t]
           acc == history[t].accepted
           n == Len(acc) + 1
<1>1. /\ key = "valid" /\ d # NONE
      /\ at_exit' = [at_exit EXCEPT ![d] = Append(@, <<t, n>>)]
      /\ history' = [history EXCEPT ![t].accepted = Append(@, rounds[t])]
      /\ UNCHANGED <<stage, starter, current, key, task, rounds>>
      /\ t = Main => stage[t] = "body"
  BY DEF Life!AtExit, Life!InUserCode, Life!Accepted
<1>2. d \in AllThreads \cup Objects /\ acc \in Seq(Nat) /\ at_exit[d] \in CallLists /\ rounds[t] \in Nat
  BY <1>1 DEF LifeInv, LifeTyped, CallsInv, CallsTyped
<1>3. n \in Nat /\ Append(acc, rounds[t]) \in Seq(Nat)
  BY <1>2
<1>4. /\ \A u \in AllThreads : history'[u].called = history[u].called
      /\ \A u \in AllThreads : u # t => history'[u] = history[u]
      /\ history'[t].accepted = Append(acc, rounds[t])
      /\ history' \in [AllThreads -> [accepted : Seq(Nat), called : CallLists]]
  BY <1>1, <1>3 DEF CallsInv, CallsTyped
<1>5. CallsTyped'
  <2>1. <<t, n>> \in AllThreads \X Nat
    BY <1>3
  <2>2. Append(at_exit[d], <<t, n>>) \in CallLists
    BY <1>2, <2>1 DEF CallLists
  <2> QED
    BY <1>1, <1>4, <2>2 DEF CallsInv, CallsTyped
<1>6. KeyOutlives' /\ \A u \in AllThreads : StagesOf(u)'
  BY <1>1 DEF CallsInv, KeyOutlives, StagesOf
<1>7. NoLeftovers'
  <2>1. stage[Main] # "body" => d # Main
    BY <1>1 DEF CallsInv, StagesOf, AllThreads
  <2>2. stage[Main] # "body" => at_exit'[Main] = at_exit[Main]
    BY <1>1, <2>1
  <2>3. \A e \in AllThreads \cup Objects : at_exit'[e] # <<>> => at_exit[e] # <<>> \/ e = d
    BY <1>1 DEF CallsInv, CallsTyped
  <2> QED
    BY <1>1, <2>2, <2>3 DEF CallsInv, NoLeftovers
<1>8. \A u \in AllThreads : Begun(u)' = Begun(u)
  BY <1>1 DEF Begun
<1>9. Begun(t) = rounds[t]
  BY <1>1 DEF Begun, CallsInv, KeyOutlives
<1>10. ASSUME NEW u \in AllThreads, u # t PROVE Pending(u)' /\ Played(u)'
  <2>1. current[u] # NONE => current[u] # d
    BY <1>1, <1>10, Apart
  <2>2. current[u] # NONE => at_exit'[current[u]] = at_exit[current[u]]
    BY <1>1, <2>1
  <2> QED
    BY <1>1, <1>4, <1>8, <1>10, <2>2, PendingSame, PlayedSame DEF CallsInv
<1>11. Played(t)'
  <2>1. PlayedIn(t, acc, history[t].called, task[t].left, rounds[t])
    BY <1>9 DEF CallsInv, Played
  <2>2. PlayedIn(t, Append(acc, rounds[t]), history[t].called, task[t].left, rounds[t])
    BY <1>2, <2>1, AddedIsNotPlayed
  <2>3. Begun(t)' = rounds[t]
    BY <1>8, <1>9
  <2> QED
    BY <1>1, <1>4, <2>2, <2>3 DEF Played
<1>12. Pending(t)'
  <2>1. DataOf(t) = at_exit[d] /\ DataOf(t)' = Append(at_exit[d], <<t, n>>)
    BY <1>1, <1>2 DEF DataOf, CallsInv, CallsTyped
  <2>2. PendingIn(t, acc, at_exit[d], rounds[t])
    BY <1>9, <2>1 DEF CallsInv, Pending
  <2>3. PendingIn(t, Append(acc, rounds[t]), Append(at_exit[d], <<t, n>>), rounds[t])
    BY <1>2, <2>2, AddedIsPending
  <2>4. Begun(t)' = rounds[t]
    BY <1>8, <1>9
  <2> QED
    BY <1>4, <2>1, <2>3, <2>4 DEF Pending
<1> QED
  BY <1>5, <1>6, <1>7, <1>10, <1>11, <1>12 DEF CallsInv

\* Dispose moves the callbacks out of the ThreadData, in OnDestroy and ClassFini.
LEMMA DisposeStep ==
  ASSUME LifeInv, CallsInv, NEW t \in AllThreads, current[t] # NONE, task[t].left = <<>>, Life!Dispose(t),
         Begun(t) \in Nat, Begun(t)' = Begun(t) + 1, \A u \in AllThreads : u # t => Begun(u)' = Begun(u),
         current' = [current EXCEPT ![t] = NONE] \/ current' = current
  PROVE  CallsTyped' /\ NoLeftovers' /\ \A u \in AllThreads : Pending(u)' /\ Played(u)'
<1> DEFINE d == current[t]
           acc == history[t].accepted
           q == at_exit[d]
<1>1. /\ task' = [task EXCEPT ![t] = [that |-> d, left |-> q, called |-> FALSE]]
      /\ at_exit' = [at_exit EXCEPT ![d] = <<>>]
      /\ UNCHANGED history
  BY DEF Life!Dispose
<1>2. /\ d \in AllThreads \cup Objects /\ acc \in Seq(Nat) /\ q \in CallLists
  BY DEF LifeInv, LifeTyped, CallsInv, CallsTyped
<1>3. CallsTyped'
  <2>1. <<>> \in CallLists
    BY DEF CallLists
  <2>2. [that |-> d, left |-> q, called |-> FALSE] \in [that : Objects \cup AllThreads \cup {NONE}, left : CallLists, called : BOOLEAN]
    BY <1>2
  <2> QED
    BY <1>1, <1>2, <2>1, <2>2 DEF CallsInv, CallsTyped
<1>4. at_exit'[d] = <<>> /\ \A e \in AllThreads \cup Objects : e # d => at_exit'[e] = at_exit[e]
  BY <1>1, <1>2 DEF CallsInv, CallsTyped
<1>5. current'[t] \in {NONE, d} /\ \A u \in AllThreads : u # t => current'[u] = current[u]
  BY DEF LifeInv, LifeTyped
<1>6. NoLeftovers'
  <2>0. stage'[Main] # "body" => at_exit'[Main] = <<>>
    <3>1. t = Main => d = Main
      BY DEF CallsInv, KeyOutlives, LifeInv, LifeTyped
    <3>2. t # Main => stage'[Main] = stage[Main]
      BY DEF Life!Dispose
    <3>3. Main \in AllThreads \cup Objects
      BY DEF AllThreads
    <3> QED
      BY <1>4, <3>1, <3>2, <3>3 DEF CallsInv, NoLeftovers
  <2> SUFFICES ASSUME NEW e \in AllThreads \cup Objects, at_exit'[e] # <<>>
               PROVE  \E u \in AllThreads : current'[u] = e
    BY <2>0 DEF NoLeftovers
  <2>1. e # d /\ at_exit[e] # <<>>
    BY <1>4
  <2>2. PICK u \in AllThreads : current[u] = e
    BY <2>1 DEF CallsInv, NoLeftovers
  <2> QED
    BY <1>5, <2>1, <2>2
<1>7. ASSUME NEW u \in AllThreads, u # t PROVE Pending(u)' /\ Played(u)'
  <2>1. current[u] # NONE => current[u] # d /\ current[u] \in AllThreads \cup Objects
    BY <1>7, Apart DEF LifeInv, LifeTyped
  <2>2. current[u] # NONE => at_exit'[current[u]] = at_exit[current[u]]
    BY <1>4, <2>1
  <2>3. task'[u].left = task[u].left
    BY <1>1, <1>7 DEF CallsInv, CallsTyped
  <2> QED
    BY <1>1, <1>5, <1>7, <2>2, <2>3, PendingSame, PlayedSame DEF CallsInv
<1>8. task'[t].left = q
  BY <1>1 DEF CallsInv, CallsTyped
<1>9. PendingIn(t, acc, q, Begun(t)) /\ PlayedIn(t, acc, history[t].called, <<>>, Begun(t))
  <2>1. DataOf(t) = q
    BY DEF DataOf
  <2> QED
    BY <2>1 DEF CallsInv, Pending, Played
<1>10. PendingIn(t, acc, <<>>, Begun(t) + 1) /\ PlayedIn(t, acc, history[t].called, q, Begun(t) + 1)
  BY <1>2, <1>9, PendingIsMoved
<1>11. DataOf(t)' = <<>>
  BY <1>4, <1>5 DEF DataOf
<1>12. Pending(t)'
  BY <1>1, <1>10, <1>11 DEF Pending
<1>13. Played(t)'
  BY <1>1, <1>8, <1>10 DEF Played
<1> QED
  BY <1>3, <1>6, <1>7, <1>12, <1>13

\* A turn of the loop of Dispose: the last callback left is called.
LEMMA CallCallsInv ==
  ASSUME LifeInv, CallsInv, NEW t \in AllThreads, Life!Call(t)
  PROVE  CallsInv'
<1> DEFINE acc == history[t].accepted
           left == task[t].left
           called == history[t].called
           n == Len(left)
           less == task'[t].left
           more == history'[t].called
<1>1. /\ stage[t] = "disposing" /\ left # <<>>
      /\ task' = [task EXCEPT ![t].left = SubSeq(@, 1, Len(@) - 1), ![t].called = TRUE]
      /\ history' = [history EXCEPT ![t].called = Append(@, left[n])]
      /\ UNCHANGED <<stage, starter, current, key, at_exit, rounds>>
  BY DEF Life!Call, Life!Front, Life!Last
<1>2. left \in CallLists /\ called \in CallLists /\ acc \in Seq(Nat)
  BY DEF CallsInv, CallsTyped
<1>3. n \in Nat \ {0} /\ left[n] \in AllThreads \X Nat
  BY <1>1, <1>2 DEF CallLists
<1>4. SubSeq(left, 1, n - 1) \in CallLists /\ Append(called, left[n]) \in CallLists
  BY <1>2, <1>3 DEF CallLists
<1>5. /\ less = SubSeq(left, 1, n - 1) /\ \A u \in AllThreads : u # t => task'[u] = task[u]
      /\ more = Append(called, left[n]) /\ \A u \in AllThreads : u # t => history'[u] = history[u]
      /\ history'[t].accepted = acc
  BY <1>1 DEF CallsInv, CallsTyped
<1>6. CallsTyped'
  BY <1>1, <1>4 DEF CallsInv, CallsTyped
<1>7. KeyOutlives' /\ NoLeftovers'
  BY <1>1 DEF CallsInv, KeyOutlives, NoLeftovers
<1>8. ASSUME NEW u \in AllThreads PROVE StagesOf(u)'
  <2>1. u # t => task'[u] = task[u]
    BY <1>5
  <2> QED
    BY <1>1, <2>1 DEF CallsInv, StagesOf
<1>9. \A u \in AllThreads : Begun(u)' = Begun(u)
  BY <1>1 DEF Begun
<1>10. ASSUME NEW u \in AllThreads, u # t PROVE Pending(u)' /\ Played(u)'
  BY <1>1, <1>5, <1>9, <1>10, PendingSame, PlayedSame DEF CallsInv
<1>11. Pending(t)'
  <2>1. DataOf(t)' = DataOf(t)
    BY <1>1 DEF DataOf
  <2> QED
    BY <1>5, <1>9, <2>1 DEF CallsInv, Pending
<1>12. Played(t)'
  <2>1. PlayedIn(t, acc, called, left, Begun(t)) /\ Begun(t) \in Nat
    BY DEF CallsInv, Played, Begun, LifeInv, LifeTyped
  <2>2. PlayedIn(t, acc, Append(called, left[Len(left)]), SubSeq(left, 1, Len(left) - 1), Begun(t))
    BY <1>1, <1>2, <2>1, LastIsPlayed
  <2> QED
    BY <1>5, <1>9, <2>2 DEF Played
<1> QED
  BY <1>6, <1>7, <1>8, <1>10, <1>11, <1>12 DEF CallsInv

\* A step that moves s to another stage and leaves the callbacks alone.
LEMMA StageStep ==
  ASSUME CallsInv, NEW s \in AllThreads, NEW p, stage' = [stage EXCEPT ![s] = p], s # Main,
         stage \in [AllThreads -> Stages], StagesOf(s)',
         UNCHANGED <<history, at_exit, current, rounds, task, key>>,
         p \in {"unborn", "body"} \/ key # "none", p \in {"unborn", "ended"} \/ key # "deleted"
  PROVE  CallsInv'
<1>1. stage'[s] = p /\ \A t \in AllThreads : t # s => stage'[t] = stage[t]
  OBVIOUS
<1>2. CallsTyped'
  BY DEF CallsInv, CallsTyped
<1>3. KeyOutlives'
  BY <1>1, ThreadsAssumption DEF CallsInv, KeyOutlives, AllThreads
<1>4. \A t \in AllThreads : StagesOf(t)'
  BY <1>1 DEF CallsInv, StagesOf
<1>5. stage'[Main] = stage[Main]
  BY <1>1 DEF AllThreads
<1> QED
  BY <1>2, <1>3, <1>4, <1>5, QuietStep DEF CallsInv

LEMMA CallsSame ==
  ASSUME CallsInv, UNCHANGED <<stage, current, key, at_exit, task, rounds, history>>
  PROVE  CallsInv'
<1>1. CallsTyped' /\ KeyOutlives' /\ \A t \in AllThreads : StagesOf(t)'
  BY DEF CallsInv, CallsTyped, KeyOutlives, StagesOf
<1> QED
  BY <1>1, QuietStep DEF CallsInv

LEMMA CallsStepInv ==
  ASSUME Careful
  PROVE  LifeInv /\ CallsInv /\ (Life!Next \/ UNCHANGED lifeVars) => CallsInv'
<1> SUFFICES ASSUME LifeInv, CallsInv, Life!Next \/ UNCHANGED lifeVars PROVE CallsInv'
  OBVIOUS
<1> USE ThreadsAssumption
<1>0. /\ stage \in [AllThreads -> Stages] /\ rounds \in [AllThreads -> Nat]
      /\ current \in [AllThreads -> Objects \cup AllThreads \cup {NONE}] /\ key \in {"none", "valid", "deleted"}
  BY DEF LifeInv, LifeTyped
<1>1. CASE UNCHANGED lifeVars
  BY <1>1, CallsSame DEF lifeVars
<1>2. ASSUME Life!ClassInit PROVE CallsInv'
  <2>1. /\ key = "none" /\ key' = "valid" /\ current' = [current EXCEPT ![Main] = Main]
        /\ UNCHANGED <<stage, task, rounds, at_exit, history>>
    BY <1>2 DEF Life!ClassInit
  <2>2. current[Main] = NONE /\ stage[Main] = "body" /\ Main \in AllThreads
    BY <2>1 DEF CallsInv, KeyOutlives, AllThreads
  <2>3. at_exit[Main] = <<>>
    BY <2>1, <2>2 DEF CallsInv, KeyOutlives, NoLeftovers
  <2>4. CallsTyped' /\ NoLeftovers' /\ \A u \in AllThreads : Pending(u)' /\ Played(u)'
    BY <1>0, <2>1, <2>2, <2>3, RegisterStep DEF AllThreads
  <2>5. current'[Main] = Main /\ \A u \in AllThreads : u # Main => current'[u] = current[u]
    BY <1>0, <2>1 DEF AllThreads
  <2>6. KeyOutlives'
    BY <2>1, <2>5 DEF CallsInv, KeyOutlives
  <2>7. \A u \in AllThreads : StagesOf(u)'
    BY <2>1, <2>2, <2>5 DEF CallsInv, StagesOf
  <2> QED
    BY <2>4, <2>6, <2>7 DEF CallsInv
<1>3. ASSUME NEW o \in Objects, NEW t \in Workers, Life!Start(o, t) PROVE CallsInv'
  <2>1. /\ stage[t] = "unborn" /\ key = "valid" /\ stage' = [stage EXCEPT ![t] = "starting"]
        /\ UNCHANGED <<current, key, task, rounds, at_exit, history>>
    BY <1>3 DEF Life!Start, Life!InUserCode
  <2>2. StagesOf(t)'
    BY <1>0, <2>1 DEF CallsInv, StagesOf, AllThreads
  <2> QED
    BY <1>0, <2>1, <2>2, StageStep DEF AllThreads
<1>4. ASSUME NEW t \in AllThreads, Life!ThreadMain(t) PROVE CallsInv'
  <2>1. /\ stage[t] = "starting" /\ stage' = [stage EXCEPT ![t] = "body"]
        /\ current' = [current EXCEPT ![t] = starter[t]]
        /\ UNCHANGED <<starter, key, task, rounds, at_exit, history>>
    BY <1>4 DEF Life!ThreadMain
  <2>2. t # Main /\ current[t] = NONE /\ key = "valid"
    BY <1>0, <2>1 DEF CallsInv, KeyOutlives, StagesOf
  <2>3. t \in Workers /\ starter[t] \in Objects
    BY <2>1 DEF CallsInv, StagesOf, LifeInv, KeyIsValid
  <2>4. at_exit[starter[t]] = <<>>
    <3> SUFFICES ASSUME at_exit[starter[t]] # <<>> PROVE FALSE
      OBVIOUS
    <3>1. PICK u \in AllThreads : current[u] = starter[t]
      BY <2>3 DEF CallsInv, NoLeftovers
    <3>2. u \in Workers /\ u # t /\ starter[u] = starter[t] /\ stage[u] \in {"body", "exiting"}
      BY <2>2, <2>3, <3>1 DEF CallsInv, StagesOf, LifeInv, DataOfThread
    <3> QED
      BY <2>1, <2>3, <3>2 DEF LifeInv, OneThread
  <2>5. stage'[t] = "body" /\ \A u \in AllThreads : u # t => stage'[u] = stage[u]
    BY <1>0, <2>1
  <2>6. CallsTyped' /\ NoLeftovers' /\ \A u \in AllThreads : Pending(u)' /\ Played(u)'
    BY <1>0, <2>1, <2>2, <2>3, <2>4, <2>5, RegisterStep DEF AllThreads
  <2>7. current'[t] = starter[t] /\ \A u \in AllThreads : u # t => current'[u] = current[u]
    BY <1>0, <2>1
  <2>8. KeyOutlives'
    BY <2>1, <2>2, <2>5, <2>7 DEF CallsInv, KeyOutlives, AllThreads
  <2>9. StagesOf(t)'
    BY <2>1, <2>3, <2>5, <2>7 DEF CallsInv, StagesOf, AllThreads
  <2>10. \A u \in AllThreads : u # t => StagesOf(u)'
    BY <2>1, <2>5, <2>7 DEF CallsInv, StagesOf
  <2> QED
    BY <2>6, <2>8, <2>9, <2>10 DEF CallsInv
<1>5. ASSUME NEW t \in AllThreads, Life!Adopt(t) PROVE CallsInv'
  <2>1. /\ current[t] = NONE /\ key = "valid" /\ stage[t] \in {"body", "disposing"}
        /\ current' = [current EXCEPT ![t] = t]
        /\ UNCHANGED <<stage, key, task, rounds, at_exit, history>>
    BY <1>5 DEF Life!Adopt, Life!InUserCode
  <2>2. at_exit[t] = <<>>
    <3>1. \A u \in AllThreads : current[u] # t
      BY <2>1 DEF CallsInv, StagesOf, AllThreads
    <3> QED
      BY <3>1 DEF CallsInv, NoLeftovers
  <2>3. CallsTyped' /\ NoLeftovers' /\ \A u \in AllThreads : Pending(u)' /\ Played(u)'
    BY <1>0, <2>1, <2>2, RegisterStep DEF AllThreads
  <2>4. current'[t] = t /\ \A u \in AllThreads : u # t => current'[u] = current[u]
    BY <1>0, <2>1
  <2>5. KeyOutlives'
    BY <2>1, <2>4 DEF CallsInv, KeyOutlives, AllThreads
  <2>6. \A u \in AllThreads : StagesOf(u)'
    BY <2>1, <2>4 DEF CallsInv, StagesOf, AllThreads
  <2> QED
    BY <2>3, <2>5, <2>6 DEF CallsInv
<1>6. ASSUME NEW t \in AllThreads, Life!Return(t) PROVE CallsInv'
  <2>1. /\ t # Main /\ key = "valid" /\ stage[t] = "body" /\ stage' = [stage EXCEPT ![t] = "exiting"]
        /\ UNCHANGED <<current, key, task, rounds, at_exit, history>>
    BY <1>6 DEF Life!Return
  <2>2. StagesOf(t)'
    BY <1>0, <2>1 DEF CallsInv, StagesOf
  <2> QED
    BY <1>0, <2>1, <2>2, StageStep
<1>7. ASSUME NEW t \in AllThreads, Life!OnDestroy(t) PROVE CallsInv'
  <2>1. /\ stage[t] = "exiting" /\ key = "valid" /\ current[t] # NONE /\ rounds[t] < Iterations
        /\ current' = [current EXCEPT ![t] = NONE]
        /\ rounds' = [rounds EXCEPT ![t] = @ + 1] /\ stage' = [stage EXCEPT ![t] = "disposing"]
        /\ UNCHANGED key
    BY <1>7 DEF Life!OnDestroy, Life!Dispose
  <2>2. t # Main /\ task[t].left = <<>>
    BY <2>1 DEF CallsInv, KeyOutlives, StagesOf
  <2>3. /\ stage'[t] = "disposing" /\ \A u \in AllThreads : u # t => stage'[u] = stage[u]
        /\ rounds'[t] = rounds[t] + 1 /\ \A u \in AllThreads : u # t => rounds'[u] = rounds[u]
        /\ current'[t] = NONE /\ \A u \in AllThreads : u # t => current'[u] = current[u]
    BY <1>0, <2>1
  <2>4. Begun(t) \in Nat /\ Begun(t)' = Begun(t) + 1 /\ \A u \in AllThreads : u # t => Begun(u)' = Begun(u)
    BY <1>0, <2>2, <2>3 DEF Begun, AllThreads
  <2>5. CallsTyped' /\ NoLeftovers' /\ \A u \in AllThreads : Pending(u)' /\ Played(u)'
    <3>1. Life!Dispose(t)
      BY <1>7 DEF Life!OnDestroy
    <3> QED
      BY <2>1, <2>2, <2>4, <3>1, DisposeStep
  <2>6. KeyOutlives'
    BY <2>1, <2>2, <2>3 DEF CallsInv, KeyOutlives, AllThreads
  <2>7. StagesOf(t)'
    <3>1. rounds'[t] <= Iterations
      BY <1>0, <2>1, <2>3
    <3>2. current'[t] \notin AllThreads \cup Objects
      BY <2>3 DEF AllThreads
    <3> QED
      BY <2>3, <3>1, <3>2 DEF StagesOf
  <2>8. \A u \in AllThreads : u # t => task'[u] = task[u]
    BY <1>7 DEF Life!OnDestroy, Life!Dispose, CallsInv, CallsTyped
  <2>9. \A u \in AllThreads : u # t => StagesOf(u)'
    BY <2>3, <2>8 DEF CallsInv, StagesOf
  <2> QED
    BY <2>5, <2>6, <2>7, <2>9 DEF CallsInv
<1>8. ASSUME Life!ClassFini PROVE CallsInv'
  <2>1. /\ stage[Main] = "body" /\ key = "valid" /\ stage' = [stage EXCEPT ![Main] = "disposing"]
        /\ UNCHANGED <<current, rounds, key>>
    BY <1>8 DEF Life!ClassFini, Life!Dispose, Life!InUserCode
  <2>2. Main \in AllThreads /\ current[Main] = Main /\ task[Main].left = <<>>
    BY <2>1 DEF CallsInv, KeyOutlives, StagesOf, AllThreads
  <2>3. stage'[Main] = "disposing" /\ \A u \in AllThreads : u # Main => stage'[u] = stage[u]
    BY <1>0, <2>1 DEF AllThreads
  <2>4. Begun(Main) \in Nat /\ Begun(Main)' = Begun(Main) + 1 /\ \A u \in AllThreads : u # Main => Begun(u)' = Begun(u)
    BY <2>1, <2>3 DEF Begun
  <2>5. CallsTyped' /\ NoLeftovers' /\ \A u \in AllThreads : Pending(u)' /\ Played(u)'
    <3>1. Life!Dispose(Main) /\ current[Main] # NONE
      BY <1>8, <2>2 DEF Life!ClassFini, AllThreads
    <3> QED
      BY <2>1, <2>2, <2>4, <3>1, DisposeStep
  <2>6. KeyOutlives'
    BY <2>1, <2>3 DEF CallsInv, KeyOutlives
  <2>7. \A u \in AllThreads : u # Main => task'[u] = task[u]
    BY <1>8 DEF Life!ClassFini, Life!Dispose, CallsInv, CallsTyped
  <2>8. \A u \in AllThreads : StagesOf(u)'
    BY <2>1, <2>2, <2>3, <2>7 DEF CallsInv, StagesOf
  <2> QED
    BY <2>5, <2>6, <2>8 DEF CallsInv
<1>9. ASSUME NEW t \in AllThreads, Life!Call(t) PROVE CallsInv'
  BY <1>9, CallCallsInv
<1>10. ASSUME NEW t \in AllThreads, Life!Disposed(t) PROVE CallsInv'
  <2>1. /\ stage[t] = "disposing" /\ task[t].left = <<>>
        /\ stage' = [stage EXCEPT ![t] = IF t = Main THEN "ended" ELSE "exiting"]
        /\ task' = [task EXCEPT ![t] = [that |-> NONE, left |-> <<>>, called |-> FALSE]]
        /\ key' = IF t = Main THEN "deleted" ELSE key
        /\ t = Main => \A u \in AllThreads \ {Main} : stage[u] \in {"unborn", "ended"}
        /\ UNCHANGED <<current, rounds, at_exit, history>>
    BY <1>10 DEF Life!Disposed, Life!NoTask, Life!Threads, AllThreads
  <2>2. key = "valid" \/ t = Main
    BY <1>0, <2>1 DEF CallsInv, KeyOutlives
  <2>3. /\ stage'[t] = (IF t = Main THEN "ended" ELSE "exiting") /\ \A u \in AllThreads : u # t => stage'[u] = stage[u]
        /\ task'[t].left = <<>> /\ \A u \in AllThreads : u # t => task'[u] = task[u]
    BY <1>0, <2>1 DEF CallsInv, CallsTyped
  <2>4. CallsTyped'
    <3>1. [that |-> NONE, left |-> <<>>, called |-> FALSE] \in [that : Objects \cup AllThreads \cup {NONE}, left : CallLists, called : BOOLEAN]
      BY DEF CallLists
    <3> QED
      BY <2>1, <3>1 DEF CallsInv, CallsTyped
  <2>5. NoLeftovers' /\ \A u \in AllThreads : Pending(u)' /\ Played(u)'
    <3>1. \A u \in AllThreads : task'[u].left = task[u].left
      BY <2>1, <2>3
    <3>2. stage'[Main] # "body" <=> stage[Main] # "body"
      BY <2>1, <2>3 DEF AllThreads
    <3> QED
      BY <2>1, <2>4, <3>1, <3>2, QuietStep
  <2>6. KeyOutlives'
    BY <2>1, <2>2, <2>3 DEF CallsInv, KeyOutlives, AllThreads
  <2>7. \A u \in AllThreads : StagesOf(u)'
    BY <2>1, <2>3 DEF CallsInv, StagesOf
  <2> QED
    BY <2>4, <2>5, <2>6, <2>7 DEF CallsInv
<1>11. ASSUME NEW t \in AllThreads, Life!End(t) PROVE CallsInv'
  <2>1. /\ stage[t] = "exiting" /\ stage' = [stage EXCEPT ![t] = "ended"]
        /\ key # "valid" \/ current[t] = NONE \/ rounds[t] = Iterations
        /\ UNCHANGED <<current, key, task, rounds, at_exit, history>>
    BY <1>11 DEF Life!End
  <2>2. t # Main /\ key = "valid"
    BY <1>0, <2>1 DEF CallsInv, KeyOutlives
  <2>3. StagesOf(t)'
    BY <1>0, <2>1, <2>2 DEF CallsInv, StagesOf
  <2> QED
    BY <1>0, <2>1, <2>2, <2>3, StageStep
<1>12. ASSUME NEW t \in AllThreads, Life!AtExit(t) PROVE CallsInv'
  BY <1>12, AtExitCallsInv
<1>13. ASSUME NEW o, Life!Join(o) \/ Life!Detach(o) \/ Life!Destroy(o) \/ Life!JoinReturns PROVE CallsInv'
  BY <1>13, CallsSame DEF Life!Join, Life!Detach, Life!Destroy, Life!JoinReturns
<1>14. CASE Life!Next
  BY <1>14, <1>2, <1>3, <1>4, <1>5, <1>6, <1>7, <1>8, <1>9, <1>10, <1>11, <1>12, <1>13
     DEF Life!Next, Life!Threads, AllThreads
<1> QED
  BY <1>1, <1>14

LEMMA CallsAreRun == LifeInv /\ CallsInv => Life!CallbacksRun
<1> SUFFICES ASSUME LifeInv, CallsInv, NEW t \in AllThreads, stage[t] = "ended"
             PROVE  /\ Life!Range(history[t].called)
                         = {<<t, k>> : k \in {i \in DOMAIN history[t].accepted : history[t].accepted[i] < Iterations}}
                    /\ \A i, j \in DOMAIN history[t].called :
                         i < j => Life!Before(t, history[t].called[i][2], history[t].called[j][2])
  BY DEF Life!CallbacksRun, Life!Threads, AllThreads
<1> DEFINE round == history[t].accepted
           called == history[t].called
<1>1. /\ round \in Seq(Nat) /\ called \in CallLists /\ task[t].left = <<>>
      /\ rounds[t] \in Nat /\ rounds[t] <= Iterations
  BY DEF LifeInv, LifeTyped, CallsInv, CallsTyped, StagesOf
<1>2. /\ \A i \in DOMAIN called : called[i] = <<t, called[i][2]>> /\ called[i][2] \in DOMAIN round
      /\ \A i \in DOMAIN called : round[called[i][2]] < Begun(t)
      /\ \A k \in DOMAIN round : round[k] < Begun(t) => \E i \in DOMAIN called : called[i] = <<t, k>>
      /\ \A i, j \in DOMAIN called : i < j => Earlier(round, called[i][2], called[j][2])
  BY <1>1 DEF CallsInv, Played, PlayedIn, Of
<1>3. \A k \in DOMAIN round : round[k] < Begun(t) <=> round[k] < Iterations
  <2>1. \A k \in DOMAIN round : round[k] \in Nat
    BY <1>1
  <2>2. Begun(t) \in Nat /\ Begun(t) <= Iterations
    BY <1>1, ThreadsAssumption DEF Begun
  <2>3. CASE t # Main /\ rounds[t] = Iterations
    BY <2>3 DEF Begun
  <2>4. CASE DataOf(t) = <<>>
    <3>1. \A k \in DOMAIN round : round[k] < Begun(t)
      BY <2>4 DEF CallsInv, Pending, PendingIn
    <3> QED
      BY <2>1, <2>2, <3>1, ThreadsAssumption
  <2>5. CASE t = Main
    <3>1. DataOf(t) = <<>>
      BY <2>5 DEF CallsInv, NoLeftovers, KeyOutlives, DataOf, AllThreads
    <3> QED
      BY <2>4, <3>1
  <2> QED
    BY <2>3, <2>4, <2>5 DEF CallsInv, StagesOf, DataOf
<1> HIDE DEF round, called
<1>4. Life!Range(called) = {<<t, k>> : k \in {i \in DOMAIN round : round[i] < Iterations}}
  BY <1>2, <1>3 DEF Life!Range
<1>5. \A i, j \in DOMAIN called : i < j => Life!Before(t, called[i][2], called[j][2])
  BY <1>2 DEF Life!Before, Earlier, round
<1> QED
  BY <1>4, <1>5 DEF round, called

------------------------------------------------------------------------------
(* LinearAllocator.  Sums over the blocks are followed through a new first *)
(* block and through a change of the first one, by induction.              *)

LEMMA Least ==
  ASSUME NEW S \in SUBSET Nat, S # {}
  PROVE  \E n \in S : \A m \in S : n <= m
<1> DEFINE R == OpToRel(<, Nat)
<1>1. IsWellFoundedOn(R, Nat)
  BY NatLessThanWellFounded
<1>2. PICK n \in S : \A m \in S : ~ (<<m, n>> \in R)
  <2> HIDE DEF R
  <2> QED
    BY <1>1, WFMin
<1>3. \A m \in S : ~(m < n)
  BY <1>2 DEF OpToRel
<1> QED
  BY <1>3

\* Induction over the numbers up to n.
LEMMA InductUpTo ==
  ASSUME NEW n \in Nat, NEW S, 0 \in S, \A i \in 1 .. n : i - 1 \in S => i \in S
  PROVE  \A i \in 0 .. n : i \in S
<1> SUFFICES ASSUME (0 .. n) \ S # {} PROVE FALSE
  OBVIOUS
<1>1. PICK m \in (0 .. n) \ S : \A i \in (0 .. n) \ S : m <= i
  <2> DEFINE T == (0 .. n) \ S
  <2>1. T \in SUBSET Nat /\ T # {}
    OBVIOUS
  <2> HIDE DEF T
  <2>2. PICK m \in T : \A i \in T : m <= i
    BY <2>1, Least
  <2> QED
    BY <2>2 DEF T
<1>2. m \in 1 .. n /\ m - 1 \in 0 .. n
  BY <1>1
<1> QED
  BY <1>1, <1>2

IsSum(s, f, n) ==
  s \in [0 .. n -> Int] /\ s[0] = 0 /\ \A i \in 1 .. n : s[i] = s[i - 1] + f[i]

LEMMA SumExists ==
  ASSUME NEW n \in Nat, NEW f \in [1 .. n -> Int]
  PROVE  \E s : IsSum(s, f, n)
<1> DEFINE S == {m \in 0 .. n : \E s : IsSum(s, f, m)}
<1>1. 0 \in S
  <2>1. IsSum([i \in 0 .. 0 |-> 0], f, 0)
    BY DEF IsSum
  <2> QED
    BY <2>1
<1>2. ASSUME NEW m \in 1 .. n, m - 1 \in S PROVE m \in S
  <2>1. PICK s : IsSum(s, f, m - 1)
    BY <1>2
  <2> DEFINE t == [i \in 0 .. m |-> IF i < m THEN s[i] ELSE s[m - 1] + f[m]]
  <2>2. \A i \in 0 .. m - 1 : s[i] \in Int /\ t[i] = s[i]
    BY <2>1 DEF IsSum
  <2>3. t[m] = t[m - 1] + f[m] /\ t[m] \in Int
    <3>1. m - 1 \in 0 .. m - 1 /\ f[m] \in Int /\ m \in 0 .. m
      OBVIOUS
    <3>2. t[m - 1] = s[m - 1] /\ s[m - 1] \in Int
      BY <2>2, <3>1
    <3> QED
      BY <3>1, <3>2
  <2>4. \A i \in 1 .. m : t[i] = t[i - 1] + f[i]
    BY <2>1, <2>2, <2>3 DEF IsSum
  <2>5. IsSum(t, f, m)
    BY <2>1, <2>2, <2>3, <2>4 DEF IsSum
  <2> QED
    BY <2>5
<1>3. \A i \in 1 .. n : i - 1 \in S => i \in S
  BY <1>2
<1> HIDE DEF S
<1>4. \A i \in 0 .. n : i \in S
  BY <1>1, <1>3, InductUpTo
<1> QED
  BY <1>4 DEF S

LEMMA SumIs ==
  ASSUME NEW n \in Nat, NEW f \in [1 .. n -> Int]
  PROVE  \E s : IsSum(s, f, n) /\ Memory!Sum(f, n) = s[n]
<1> DEFINE Def(s) == s = [i \in 0 .. n |-> IF i = 0 THEN 0 ELSE s[i - 1] + f[i]]
           r == CHOOSE s : Def(s)
<1>1. PICK s : IsSum(s, f, n)
  BY SumExists
<1>2. Def(s)
  BY <1>1 DEF IsSum
<1>3. Def(r)
  BY <1>2
<1>4. Memory!Sum(f, n) = r[n]
  BY DEF Memory!Sum
<1>5. \A i \in 0 .. n : r[i] = s[i]
  <2> DEFINE S == {i \in 0 .. n : r[i] = s[i]}
  <2> HIDE DEF r
  <2>1. 0 \in S
    BY <1>1, <1>3 DEF IsSum
  <2>2. \A i \in 1 .. n : i - 1 \in S => i \in S
    BY <1>1, <1>3 DEF IsSum
  <2> HIDE DEF S
  <2>3. \A i \in 0 .. n : i \in S
    BY <2>1, <2>2, InductUpTo
  <2> QED
    BY <2>3 DEF S
<1> QED
  BY <1>1, <1>4, <1>5

\* The sums, with a new first number.
LEMMA SumPrepended ==
  ASSUME NEW n \in Nat, NEW f \in [1 .. n -> Int], NEW g \in [1 .. n + 1 -> Int],
         \A i \in 1 .. n : g[i + 1] = f[i]
  PROVE  Memory!Sum(g, n + 1) = g[1] + Memory!Sum(f, n)
<1>1. PICK s : IsSum(s, f, n) /\ Memory!Sum(f, n) = s[n]
  BY SumIs
<1>2. PICK t : IsSum(t, g, n + 1) /\ Memory!Sum(g, n + 1) = t[n + 1]
  <2> DEFINE m == n + 1
  <2>1. m \in Nat /\ g \in [1 .. m -> Int]
    OBVIOUS
  <2> HIDE DEF m
  <2>2. \E t : IsSum(t, g, m) /\ Memory!Sum(g, m) = t[m]
    BY <2>1, SumIs
  <2> QED
    BY <2>2 DEF m
<1> DEFINE S == {i \in 0 .. n : t[i + 1] = g[1] + s[i]}
<1>3. 0 \in S
  BY <1>1, <1>2 DEF IsSum
<1>4. ASSUME NEW i \in 1 .. n, i - 1 \in S PROVE i \in S
  <2>1. t[i] = g[1] + s[i - 1]
    BY <1>4
  <2>2. t[i + 1] = t[i] + g[i + 1] /\ s[i] = s[i - 1] + f[i] /\ g[i + 1] = f[i]
    <3>1. i + 1 \in 1 .. n + 1 /\ (i + 1) - 1 = i
      OBVIOUS
    <3>2. t[i + 1] = t[(i + 1) - 1] + g[i + 1]
      BY <1>2, <3>1 DEF IsSum
    <3> QED
      BY <1>1, <3>1, <3>2 DEF IsSum
  <2>3. s[i - 1] \in Int /\ f[i] \in Int /\ g[1] \in Int
    BY <1>1 DEF IsSum
  <2> QED
    BY <2>1, <2>2, <2>3
<1>5. \A i \in 1 .. n : i - 1 \in S => i \in S
  BY <1>4
<1> HIDE DEF S
<1>6. \A i \in 0 .. n : i \in S
  BY <1>3, <1>5, InductUpTo
<1> QED
  BY <1>1, <1>2, <1>6 DEF S

\* ... and with another first number.
LEMMA SumReplaced ==
  ASSUME NEW n \in Nat \ {0}, NEW f \in [1 .. n -> Int], NEW g \in [1 .. n -> Int],
         \A i \in 2 .. n : g[i] = f[i]
  PROVE  Memory!Sum(g, n) = Memory!Sum(f, n) - f[1] + g[1]
<1>1. PICK s : IsSum(s, f, n) /\ Memory!Sum(f, n) = s[n]
  BY SumIs
<1>2. PICK t : IsSum(t, g, n) /\ Memory!Sum(g, n) = t[n]
  BY SumIs
<1> DEFINE S == {i \in 0 .. n : i > 0 => t[i] = s[i] - f[1] + g[1]}
<1>3. 0 \in S
  OBVIOUS
<1>4. ASSUME NEW i \in 1 .. n, i - 1 \in S PROVE i \in S
  <2>1. t[i] = t[i - 1] + g[i] /\ s[i] = s[i - 1] + f[i]
    BY <1>1, <1>2 DEF IsSum
  <2>2. s[i - 1] \in Int /\ f[i] \in Int /\ g[i] \in Int /\ f[1] \in Int /\ g[1] \in Int
    BY <1>1 DEF IsSum
  <2>3. CASE i = 1
    BY <1>1, <1>2, <2>1, <2>2, <2>3 DEF IsSum
  <2>4. CASE i # 1
    BY <1>4, <2>1, <2>2, <2>4
  <2> QED
    BY <2>3, <2>4
<1>5. \A i \in 1 .. n : i - 1 \in S => i \in S
  BY <1>4
<1> HIDE DEF S
<1>6. \A i \in 0 .. n : i \in S
  BY <1>3, <1>5, InductUpTo
<1> QED
  BY <1>1, <1>2, <1>6 DEF S

\* Of no number, and of one.
LEMMA SumOfFew ==
  ASSUME NEW n \in {0, 1}, NEW f \in [1 .. n -> Int]
  PROVE  Memory!Sum(f, n) = IF n = 0 THEN 0 ELSE f[1]
<1>1. PICK s : IsSum(s, f, n) /\ Memory!Sum(f, n) = s[n]
  BY SumIs
<1> QED
  BY <1>1 DEF IsSum

------------------------------------------------------------------------------

LEMMA DivMod ==
  ASSUME NEW z \in Int, NEW a \in Nat \ {0}
  PROVE  z = a * (z \div a) + (z % a) /\ z % a \in 0 .. a - 1 /\ z \div a \in Int
OBVIOUS

LEMMA NoRemainder ==
  ASSUME NEW k \in Int, NEW a \in Nat \ {0}
  PROVE  (a * k) % a = 0
<1> DEFINE z == a * k
           m == z % a
           d == z \div a
           j == k - d
<1>1. z \in Int
  OBVIOUS
<1>2. z = a * d + m /\ m \in 0 .. a - 1 /\ d \in Int
  <2> HIDE DEF z
  <2> QED
    BY <1>1, DivMod
<1>3. a * k = a * d + m
  BY <1>2
<1> HIDE DEF z, m, d
<1>4. a * j = m /\ j \in Int
  BY <1>2, <1>3
<1> HIDE DEF j
<1>5. j >= 1 => a * j >= a
  BY <1>4
<1>6. j <= -1 => a * j <= -a
  BY <1>4
<1>7. j = 0
  BY <1>2, <1>4, <1>5, <1>6
<1>8. m = 0
  BY <1>4, <1>7
<1> QED
  BY <1>8 DEF m, z

\* An aligned address, for any alignment.
LEMMA Aligns ==
  ASSUME NEW x \in Int, NEW a \in Nat \ {0}
  PROVE  LET y == Memory!alignForward(x, a) IN y \in Int /\ x <= y /\ y < x + a /\ y % a = 0
<1> DEFINE r == (-x) % a
           q == (-x) \div a
<1>1. r \in 0 .. a - 1 /\ q \in Int /\ -x = a * q + r
  OBVIOUS
<1>2. x + r = a * (-q)
  BY <1>1
<1>3. (a * (-q)) % a = 0
  BY <1>1, NoRemainder
<1> QED
  BY <1>1, <1>2, <1>3 DEF Memory!alignForward

------------------------------------------------------------------------------
(* The allocations that callers hold and the totals, for any blocks bs and *)
(* any allocations q.                                                      *)

Blocks == Seq([size : Nat, used : Nat])
Allocations == Seq([block : Nat, from : Nat, size : Nat, alignment : Nat \ {0}])

Fill(bs) == \A i \in DOMAIN bs : bs[i].used <= bs[i].size

\* What is held is aligned and lies in what its block has given out ...
Held(bs, q) ==
  \A i \in DOMAIN q :
    /\ q[i].block \in 1 .. Len(bs)
    /\ (Address + q[i].from) % q[i].alignment = 0
    /\ q[i].from + q[i].size <= bs[Len(bs) + 1 - q[i].block].used

\* ... in the order of the allocations.
InTurn(q) ==
  \A i, j \in DOMAIN q : i < j /\ q[i].block = q[j].block => q[i].from + q[i].size <= q[j].from

SizeOf(bs) == [i \in 1 .. Len(bs) |-> bs[i].size]
UsedOf(bs) == [i \in 1 .. Len(bs) |-> bs[i].used]
LostOf(bs) == [i \in 1 .. Len(bs) |-> IF i = 1 THEN 0 ELSE bs[i].size - bs[i].used]

Totals(bs, capacity, used, lost) ==
  /\ capacity = Memory!Sum(SizeOf(bs), Len(bs))
  /\ used = Memory!Sum(UsedOf(bs), Len(bs))
  /\ lost = Memory!Sum(LostOf(bs), Len(bs))

MemoryInv ==
  /\ blocks \in Blocks /\ live \in Allocations /\ chunk_size \in Nat
  /\ total_capacity \in Int /\ total_used \in Int /\ total_lost \in Int
  /\ Fill(blocks) /\ Held(blocks, live) /\ InTurn(live)
  /\ Totals(blocks, total_capacity, total_used, total_lost)

LEMMA ElementsAre ==
  ASSUME NEW S, NEW q \in Seq(S)
  PROVE  /\ Len(q) \in Nat /\ DOMAIN q = 1 .. Len(q) /\ (q # <<>> => Len(q) # 0)
         /\ \A i \in DOMAIN q : q[i] \in S
OBVIOUS

LEMMA BlocksAre ==
  ASSUME NEW bs \in Blocks
  PROVE  /\ Len(bs) \in Nat /\ DOMAIN bs = 1 .. Len(bs) /\ (bs # <<>> => Len(bs) \in Nat \ {0} /\ 1 \in DOMAIN bs)
         /\ \A i \in DOMAIN bs : bs[i] \in [size : Nat, used : Nat] /\ bs[i].size \in Nat /\ bs[i].used \in Nat
<1> DEFINE S == [size : Nat, used : Nat]
<1>1. bs \in Seq(S)
  BY DEF Blocks
<1> HIDE DEF S
<1>2. /\ Len(bs) \in Nat /\ DOMAIN bs = 1 .. Len(bs) /\ (bs # <<>> => Len(bs) # 0)
      /\ \A i \in DOMAIN bs : bs[i] \in S
  BY <1>1, ElementsAre
<1> QED
  BY <1>2 DEF S

LEMMA AllocationsAre ==
  ASSUME NEW q \in Allocations
  PROVE  /\ Len(q) \in Nat /\ DOMAIN q = 1 .. Len(q) /\ (q # <<>> => Len(q) # 0)
         /\ \A i \in DOMAIN q : q[i].block \in Nat /\ q[i].from \in Nat /\ q[i].size \in Nat /\ q[i].alignment \in Nat \ {0}
<1> DEFINE S == [block : Nat, from : Nat, size : Nat, alignment : Nat \ {0}]
<1>1. q \in Seq(S)
  BY DEF Allocations
<1> HIDE DEF S
<1>2. /\ Len(q) \in Nat /\ DOMAIN q = 1 .. Len(q) /\ (q # <<>> => Len(q) # 0)
      /\ \A i \in DOMAIN q : q[i] \in S
  BY <1>1, ElementsAre
<1> QED
  BY <1>2 DEF S

LEMMA SumsTyped ==
  ASSUME NEW bs \in Blocks
  PROVE  /\ Len(bs) \in Nat /\ DOMAIN bs = 1 .. Len(bs)
         /\ SizeOf(bs) \in [1 .. Len(bs) -> Int]
         /\ UsedOf(bs) \in [1 .. Len(bs) -> Int]
         /\ LostOf(bs) \in [1 .. Len(bs) -> Int]
<1>1. /\ Len(bs) \in Nat /\ DOMAIN bs = 1 .. Len(bs)
      /\ \A i \in DOMAIN bs : bs[i].size \in Nat /\ bs[i].used \in Nat
  BY BlocksAre
<1> QED
  BY <1>1 DEF SizeOf, UsedOf, LostOf

\* No block, and a single one that is empty.
LEMMA FewTotals ==
  /\ Totals(<<>>, 0, 0, 0) /\ <<>> \in Blocks /\ Fill(<<>>)
  /\ \A n \in Nat : LET bs == <<[size |-> n, used |-> 0]>> IN Totals(bs, n, 0, 0) /\ bs \in Blocks /\ Fill(bs)
<1>1. <<>> \in Blocks /\ Len(<<>>) = 0 /\ Fill(<<>>)
  BY DEF Blocks, Fill
<1>2. Totals(<<>>, 0, 0, 0)
  <2> DEFINE bs == <<>>
  <2>1. bs \in Blocks /\ Len(bs) = 0
    BY <1>1
  <2> HIDE DEF bs
  <2>2. SizeOf(bs) \in [1 .. 0 -> Int] /\ UsedOf(bs) \in [1 .. 0 -> Int] /\ LostOf(bs) \in [1 .. 0 -> Int]
    BY <2>1, SumsTyped
  <2>3. Memory!Sum(SizeOf(bs), 0) = 0 /\ Memory!Sum(UsedOf(bs), 0) = 0 /\ Memory!Sum(LostOf(bs), 0) = 0
    BY <2>2, SumOfFew
  <2>4. Totals(bs, 0, 0, 0)
    BY <2>1, <2>3 DEF Totals
  <2> QED
    BY <2>4 DEF bs
<1>3. ASSUME NEW n \in Nat
      PROVE  LET bs == <<[size |-> n, used |-> 0]>> IN Totals(bs, n, 0, 0) /\ bs \in Blocks /\ Fill(bs)
  <2> DEFINE bs == <<[size |-> n, used |-> 0]>>
  <2>1. bs \in Blocks /\ Len(bs) = 1 /\ bs[1].size = n /\ bs[1].used = 0
    BY DEF Blocks
  <2> HIDE DEF bs
  <2>2. SizeOf(bs) \in [1 .. 1 -> Int] /\ UsedOf(bs) \in [1 .. 1 -> Int] /\ LostOf(bs) \in [1 .. 1 -> Int]
    BY <2>1, SumsTyped
  <2>3. SizeOf(bs)[1] = n /\ UsedOf(bs)[1] = 0 /\ LostOf(bs)[1] = 0
    BY <2>1 DEF SizeOf, UsedOf, LostOf
  <2>4. Memory!Sum(SizeOf(bs), 1) = n /\ Memory!Sum(UsedOf(bs), 1) = 0 /\ Memory!Sum(LostOf(bs), 1) = 0
    BY <2>2, <2>3, SumOfFew
  <2>5. Totals(bs, n, 0, 0) /\ Fill(bs)
    BY <2>1, <2>4 DEF Totals, Fill, Blocks
  <2> QED
    BY <2>1, <2>5 DEF bs
<1> QED
  BY <1>1, <1>2, <1>3

\* The block in front has given out more or less.
LEMMA FrontUsed ==
  ASSUME NEW bs \in Blocks, bs # <<>>, Fill(bs), NEW capacity \in Int, NEW used \in Int, NEW lost \in Int,
         Totals(bs, capacity, used, lost), NEW new, new \in Nat, new <= bs[1].size
  PROVE  LET cs == [bs EXCEPT ![1].used = new]
         IN /\ cs \in Blocks /\ Len(cs) = Len(bs) /\ Fill(cs)
            /\ cs[1].used = new /\ \A i \in 2 .. Len(bs) : cs[i] = bs[i]
            /\ Totals(cs, capacity, used - bs[1].used + new, lost)
<1> DEFINE n == Len(bs)
           cs == [bs EXCEPT ![1].used = new]
<1>1. n \in Nat \ {0} /\ DOMAIN bs = 1 .. n /\ bs[1] \in [size : Nat, used : Nat]
  BY BlocksAre
<1>2. cs[1] = [bs[1] EXCEPT !.used = new] /\ \A i \in 2 .. n : cs[i] = bs[i]
  BY <1>1
<1>3. cs[1].used = new /\ cs[1].size = bs[1].size /\ cs[1] \in [size : Nat, used : Nat]
  BY <1>1, <1>2
<1>4. cs \in Blocks /\ Len(cs) = n
  BY <1>1, <1>3 DEF Blocks
<1> HIDE DEF cs
<1>5. Fill(cs)
  <2>1. DOMAIN cs = 1 .. n
    BY <1>4, BlocksAre
  <2>2. \A i \in 1 .. n : i = 1 \/ i \in 2 .. n
    BY <1>1
  <2> QED
    BY <1>1, <1>2, <1>3, <2>1, <2>2 DEF Fill
<1>6. SizeOf(cs) = SizeOf(bs) /\ LostOf(cs) = LostOf(bs)
  <2>1. \A i \in 1 .. n : cs[i].size = bs[i].size /\ (i # 1 => cs[i].used = bs[i].used)
    <3>1. \A i \in 1 .. n : i = 1 \/ i \in 2 .. n
      BY <1>1
    <3> QED
      BY <1>2, <1>3, <3>1
  <2>2. SizeOf(cs) = SizeOf(bs)
    BY <1>4, <2>1 DEF SizeOf
  <2>3. LostOf(cs) = LostOf(bs)
    BY <1>4, <2>1 DEF LostOf
  <2> QED
    BY <2>2, <2>3
<1>7. UsedOf(bs) \in [1 .. n -> Int] /\ UsedOf(cs) \in [1 .. n -> Int]
  BY <1>4, SumsTyped
<1>8. UsedOf(bs)[1] = bs[1].used /\ UsedOf(cs)[1] = new /\ \A i \in 2 .. n : UsedOf(cs)[i] = UsedOf(bs)[i]
  BY <1>1, <1>2, <1>3, <1>4 DEF UsedOf
<1>9. Memory!Sum(UsedOf(cs), n) = Memory!Sum(UsedOf(bs), n) - bs[1].used + new
  <2> HIDE DEF n
  <2> QED
    BY <1>1, <1>7, <1>8, SumReplaced, ZenonT(30)
<1>10. Totals(cs, capacity, used - bs[1].used + new, lost)
  BY <1>4, <1>6, <1>9 DEF Totals
<1> QED
  BY <1>2, <1>3, <1>4, <1>5, <1>10 DEF cs

LEMMA Padding ==
  ASSUME NEW u \in Nat, NEW alignment \in Nat \ {0}
  PROVE  LET from == Memory!alignForward(Address + u, alignment) - Address
         IN from \in Nat /\ u <= from /\ from < u + alignment /\ (Address + from) % alignment = 0
<1> DEFINE x == Address + u
           y == Memory!alignForward(x, alignment)
           from == y - Address
<1>1. Address \in Nat
  BY MemoryAssumption
<1>2. x \in Int
  BY <1>1
<1>3. y \in Int /\ x <= y /\ y < x + alignment /\ y % alignment = 0
  <2> HIDE DEF x
  <2> QED
    BY <1>2, Aligns
<1> HIDE DEF y
<1>4. from \in Nat /\ u <= from /\ from < u + alignment /\ Address + from = y
  <2>1. y \in Int /\ x <= y /\ y < x + alignment
    BY <1>3
  <2> QED
    BY <1>1, <2>1
<1>5. (Address + from) % alignment = 0
  BY <1>3, <1>4
<1> QED
  BY <1>4, <1>5 DEF y

\* tryAllocateWithinBlock.
LEMMA AllocateStep ==
  ASSUME NEW bs \in Blocks, bs # <<>>, NEW q \in Allocations, Fill(bs), Held(bs, q), InTurn(q),
         NEW capacity \in Int, NEW used \in Int, NEW lost \in Int, Totals(bs, capacity, used, lost),
         NEW size \in Nat, NEW alignment \in Nat \ {0}, NEW from \in Nat,
         bs[1].used <= from, (Address + from) % alignment = 0, from + size <= bs[1].size
  PROVE  LET cs == [bs EXCEPT ![1].used = from + size]
             r == Append(q, [block |-> Len(bs), from |-> from, size |-> size, alignment |-> alignment])
         IN /\ cs \in Blocks /\ r \in Allocations
            /\ Fill(cs) /\ Held(cs, r) /\ InTurn(r)
            /\ Totals(cs, capacity, used + (from - bs[1].used) + size, lost)
            /\ used + (from - bs[1].used) + size \in Int
<1> DEFINE cs == [bs EXCEPT ![1].used = from + size]
           a == [block |-> Len(bs), from |-> from, size |-> size, alignment |-> alignment]
           r == Append(q, a)
<1>1. Len(bs) \in Nat \ {0} /\ DOMAIN bs = 1 .. Len(bs) /\ bs[1].used \in Nat /\ bs[1].size \in Nat
  BY BlocksAre
<1>2. Address \in Nat
  BY MemoryAssumption
<1>3. from + size \in Nat
  OBVIOUS
<1>4. /\ cs \in Blocks /\ Len(cs) = Len(bs) /\ Fill(cs)
      /\ cs[1].used = from + size /\ \A i \in 2 .. Len(bs) : cs[i] = bs[i]
      /\ Totals(cs, capacity, used - bs[1].used + (from + size), lost)
  <2> DEFINE new == from + size
  <2>1. new \in Nat /\ new <= bs[1].size
    OBVIOUS
  <2> HIDE DEF new
  <2>2. LET ds == [bs EXCEPT ![1].used = new]
        IN /\ ds \in Blocks /\ Len(ds) = Len(bs) /\ Fill(ds)
           /\ ds[1].used = new /\ \A i \in 2 .. Len(bs) : ds[i] = bs[i]
           /\ Totals(ds, capacity, used - bs[1].used + new, lost)
    BY <2>1, FrontUsed
  <2> QED
    BY <2>2 DEF new
<1>5. Totals(cs, capacity, used + (from - bs[1].used) + size, lost) /\ used + (from - bs[1].used) + size \in Int
  <2>1. used - bs[1].used + (from + size) = used + (from - bs[1].used) + size
    BY <1>1, <1>2, <1>3
  <2> HIDE DEF cs
  <2> QED
    BY <1>1, <1>2, <1>3, <1>4, <2>1
<1> HIDE DEF cs
<1>6. a \in [block : Nat, from : Nat, size : Nat, alignment : Nat \ {0}]
  BY <1>1, <1>2, <1>3
<1>7. /\ r \in Allocations /\ DOMAIN r = 1 .. Len(q) + 1 /\ Len(q) \in Nat /\ DOMAIN q = 1 .. Len(q)
      /\ r[Len(q) + 1] = a /\ \A i \in DOMAIN q : r[i] = q[i]
  <2> DEFINE S == [block : Nat, from : Nat, size : Nat, alignment : Nat \ {0}]
  <2>1. q \in Seq(S) /\ a \in S
    BY <1>6 DEF Allocations
  <2> HIDE DEF S, a
  <2>2. /\ r \in Seq(S) /\ DOMAIN r = 1 .. Len(q) + 1 /\ Len(q) \in Nat /\ DOMAIN q = 1 .. Len(q)
        /\ r[Len(q) + 1] = a /\ \A i \in DOMAIN q : r[i] = q[i]
    BY <2>1
  <2> QED
    BY <2>2 DEF S, Allocations
<1>8. a.block = Len(bs) /\ a.from = from /\ a.size = size /\ a.alignment = alignment
  OBVIOUS
<1> HIDE DEF r, a
<1>9. \A i \in DOMAIN q : /\ q[i].block \in 1 .. Len(bs) /\ q[i].from \in Nat /\ q[i].size \in Nat
                          /\ (Address + q[i].from) % q[i].alignment = 0
                          /\ q[i].from + q[i].size <= bs[Len(bs) + 1 - q[i].block].used
  BY AllocationsAre DEF Held
<1>10. Held(cs, r)
  <2> SUFFICES ASSUME NEW i \in DOMAIN r
               PROVE  /\ r[i].block \in 1 .. Len(cs)
                      /\ (Address + r[i].from) % r[i].alignment = 0
                      /\ r[i].from + r[i].size <= cs[Len(cs) + 1 - r[i].block].used
    BY DEF Held
  <2>1. CASE i = Len(q) + 1
    <3>1. r[i] = a /\ Len(cs) + 1 - a.block = 1
      BY <1>1, <1>4, <1>7, <1>8, <2>1
    <3>2. a.block \in 1 .. Len(cs)
      BY <1>1, <1>4, <1>8
    <3>3. a.from + a.size <= cs[Len(cs) + 1 - a.block].used
      BY <1>3, <1>4, <1>8, <3>1
    <3>4. (Address + a.from) % a.alignment = 0
      BY <1>8
    <3> QED
      BY <3>1, <3>2, <3>3, <3>4
  <2>2. CASE i \in DOMAIN q
    <3>1. r[i] = q[i]
      BY <1>7, <2>2
    <3> DEFINE k == Len(bs) + 1 - q[i].block
    <3>2. k \in 1 .. Len(bs) /\ Len(cs) + 1 - q[i].block = k
      <4>1. q[i].block \in 1 .. Len(bs) /\ Len(bs) \in Nat /\ Len(cs) = Len(bs)
        BY <1>1, <1>4, <1>9, <2>2
      <4> QED
        BY <4>1, SMTT(30)
    <3>3. q[i].from + q[i].size <= bs[k].used /\ q[i].from + q[i].size \in Nat
      BY <1>9, <2>2
    <3> HIDE DEF k
    <3>4. q[i].from + q[i].size <= cs[k].used
      <4>1. CASE k = 1
        BY <1>1, <1>2, <1>3, <1>4, <3>3, <4>1
      <4>2. CASE k \in 2 .. Len(bs)
        BY <1>4, <3>3, <4>2
      <4> QED
        BY <3>2, <4>1, <4>2
    <3> QED
      BY <1>4, <1>9, <2>2, <3>1, <3>2, <3>4
  <2> QED
    BY <1>7, <2>1, <2>2
<1>11. InTurn(r)
  <2> SUFFICES ASSUME NEW i \in DOMAIN r, NEW j \in DOMAIN r, i < j, r[i].block = r[j].block
               PROVE  r[i].from + r[i].size <= r[j].from
    BY DEF InTurn
  <2>1. i \in DOMAIN q /\ r[i] = q[i]
    BY <1>7
  <2>2. CASE j \in DOMAIN q
    BY <1>7, <2>1, <2>2 DEF InTurn
  <2>3. CASE j = Len(q) + 1
    <3>1. r[j] = a /\ q[i].block = Len(bs)
      BY <1>7, <1>8, <2>1, <2>3
    <3>2. q[i].from + q[i].size <= bs[1].used
      <4>1. Len(bs) + 1 - q[i].block = 1
        BY <1>1, <3>1
      <4> QED
        BY <1>9, <2>1, <4>1
    <3> QED
      BY <1>1, <1>3, <1>8, <1>9, <2>1, <3>1, <3>2
  <2> QED
    BY <1>7, <2>2, <2>3
<1> QED
  BY <1>4, <1>5, <1>7, <1>10, <1>11 DEF cs, r, a

\* A new block, in front of the others.
LEMMA NewBlock ==
  ASSUME NEW bs \in Blocks, NEW q \in Allocations, Fill(bs), Held(bs, q), NEW room \in Nat,
         NEW capacity \in Int, NEW used \in Int, NEW lost \in Int, Totals(bs, capacity, used, lost)
  PROVE  LET cs == <<[size |-> room, used |-> 0]>> \o bs
             more == IF bs = <<>> THEN lost ELSE lost + bs[1].size - bs[1].used
         IN /\ cs \in Blocks /\ cs # <<>> /\ Len(cs) = Len(bs) + 1 /\ cs[1].size = room /\ cs[1].used = 0
            /\ Fill(cs) /\ Held(cs, q)
            /\ more \in Int /\ Totals(cs, capacity + room, used, more)
<1> DEFINE n == Len(bs)
           b == [size |-> room, used |-> 0]
           cs == <<b>> \o bs
           more == IF bs = <<>> THEN lost ELSE lost + bs[1].size - bs[1].used
<1>1. n \in Nat /\ DOMAIN bs = 1 .. n /\ (bs # <<>> => n \in Nat \ {0}) /\ (bs = <<>> => n = 0)
  BY BlocksAre
<1>2. /\ cs \in Blocks /\ Len(cs) = n + 1 /\ DOMAIN cs = 1 .. n + 1
      /\ cs[1] = b /\ \A i \in 1 .. n : cs[i + 1] = bs[i]
  <2> DEFINE S == [size : Nat, used : Nat]
  <2>1. bs \in Seq(S) /\ b \in S
    BY DEF Blocks
  <2> HIDE DEF S, b
  <2>2. /\ cs \in Seq(S) /\ Len(cs) = n + 1 /\ DOMAIN cs = 1 .. n + 1
        /\ cs[1] = b /\ \A i \in 1 .. n : cs[i + 1] = bs[i]
    BY <2>1
  <2> QED
    BY <2>2 DEF S, Blocks
<1>3. b.size = room /\ b.used = 0
  OBVIOUS
<1>4. \A i \in 1 .. n + 1 : i = 1 \/ (i - 1 \in 1 .. n /\ cs[i] = bs[i - 1])
  BY <1>1, <1>2
<1> HIDE DEF cs, b
<1>5. \A i \in 1 .. n : bs[i].size \in Nat /\ bs[i].used \in Nat
  BY <1>1, BlocksAre
<1>6. Fill(cs)
  <2> SUFFICES ASSUME NEW i \in 1 .. n + 1 PROVE cs[i].used <= cs[i].size
    BY <1>2 DEF Fill
  <2>1. CASE i = 1
    BY <1>2, <1>3, <2>1
  <2>2. CASE i # 1
    BY <1>1, <1>4, <2>2 DEF Fill
  <2> QED
    BY <2>1, <2>2
<1>7. Held(cs, q)
  <2> SUFFICES ASSUME NEW i \in DOMAIN q
               PROVE  /\ q[i].block \in 1 .. Len(cs)
                      /\ (Address + q[i].from) % q[i].alignment = 0
                      /\ q[i].from + q[i].size <= cs[Len(cs) + 1 - q[i].block].used
    BY DEF Held
  <2> DEFINE k == n + 1 - q[i].block
  <2>1. q[i].block \in 1 .. n /\ q[i].from + q[i].size <= bs[k].used /\ (Address + q[i].from) % q[i].alignment = 0
    BY DEF Held
  <2>2. k \in 1 .. n /\ Len(cs) + 1 - q[i].block = k + 1 /\ q[i].block \in 1 .. Len(cs)
    BY <1>1, <1>2, <2>1
  <2> HIDE DEF k
  <2>3. cs[k + 1] = bs[k]
    BY <1>2, <2>2
  <2> QED
    BY <2>1, <2>2, <2>3
<1>8. /\ SizeOf(bs) \in [1 .. n -> Int] /\ SizeOf(cs) \in [1 .. n + 1 -> Int]
      /\ UsedOf(bs) \in [1 .. n -> Int] /\ UsedOf(cs) \in [1 .. n + 1 -> Int]
      /\ LostOf(bs) \in [1 .. n -> Int] /\ LostOf(cs) \in [1 .. n + 1 -> Int]
  BY <1>2, SumsTyped
<1>9. Memory!Sum(SizeOf(cs), n + 1) = room + Memory!Sum(SizeOf(bs), n)
  <2>1. SizeOf(cs)[1] = room /\ \A i \in 1 .. n : SizeOf(cs)[i + 1] = SizeOf(bs)[i]
    BY <1>1, <1>2, <1>3 DEF SizeOf
  <2> HIDE DEF n
  <2> QED
    BY <1>1, <1>8, <2>1, SumPrepended
<1>10. Memory!Sum(UsedOf(cs), n + 1) = Memory!Sum(UsedOf(bs), n)
  <2>1. UsedOf(cs)[1] = 0 /\ \A i \in 1 .. n : UsedOf(cs)[i + 1] = UsedOf(bs)[i]
    BY <1>1, <1>2, <1>3 DEF UsedOf
  <2> HIDE DEF n
  <2>2. Memory!Sum(UsedOf(cs), n + 1) = 0 + Memory!Sum(UsedOf(bs), n)
    BY <1>1, <1>8, <2>1, SumPrepended
  <2>3. Memory!Sum(UsedOf(bs), n) \in Int
    BY DEF Totals, n
  <2> QED
    BY <2>2, <2>3
<1>11. Memory!Sum(LostOf(cs), n + 1) = more /\ more \in Int
  <2> DEFINE f == [i \in 1 .. n |-> bs[i].size - bs[i].used]
  <2>1. f \in [1 .. n -> Int] /\ LostOf(cs)[1] = 0 /\ \A i \in 1 .. n : LostOf(cs)[i + 1] = f[i]
    BY <1>1, <1>2, <1>5 DEF LostOf
  <2>2. n # 0 => f[1] = bs[1].size - bs[1].used /\ LostOf(bs)[1] = 0 /\ bs[1].size \in Nat /\ bs[1].used \in Nat
    BY <1>1, <1>5 DEF LostOf
  <2>3. \A i \in 2 .. n : f[i] = LostOf(bs)[i]
    BY <1>1 DEF LostOf
  <2>4. Memory!Sum(LostOf(bs), n) = lost
    BY DEF Totals, n
  <2> HIDE DEF f, n
  <2>5. Memory!Sum(LostOf(cs), n + 1) = 0 + Memory!Sum(f, n)
    BY <1>1, <1>8, <2>1, SumPrepended
  <2>6. CASE n = 0
    <3>1. f \in [1 .. 0 -> Int] /\ LostOf(bs) \in [1 .. 0 -> Int]
      BY <1>8, <2>1, <2>6
    <3>2. Memory!Sum(f, 0) = 0 /\ Memory!Sum(LostOf(bs), 0) = 0
      BY <3>1, SumOfFew
    <3> QED
      BY <1>1, <2>4, <2>5, <2>6, <3>2
  <2>7. CASE n # 0
    <3>1. n \in Nat \ {0} /\ bs # <<>>
      BY <1>1, <2>7
    <3>2. Memory!Sum(f, n) = Memory!Sum(LostOf(bs), n) - LostOf(bs)[1] + f[1]
      BY <1>8, <2>1, <2>3, <3>1, SumReplaced
    <3> QED
      BY <2>2, <2>4, <2>5, <2>7, <3>1, <3>2
  <2> QED
    BY <2>6, <2>7
<1>12. Totals(cs, capacity + room, used, more)
  BY <1>2, <1>9, <1>10, <1>11 DEF Totals
<1>13. cs # <<>>
  BY <1>1, <1>2
<1> QED
  BY <1>2, <1>3, <1>6, <1>7, <1>11, <1>12, <1>13 DEF cs, b

\* There is a first among the largest blocks, which clear() keeps.
LEMMA LargestIs ==
  ASSUME NEW bs \in Blocks, bs # <<>>
  PROVE  \E i \in DOMAIN bs : /\ \A j \in DOMAIN bs : bs[j].size <= bs[i].size
                              /\ \A j \in 1 .. i - 1 : bs[j].size < bs[i].size
<1> DEFINE n == Len(bs)
           Top(m) == \E i \in 1 .. m : /\ \A j \in 1 .. m : bs[j].size <= bs[i].size
                                       /\ \A j \in 1 .. i - 1 : bs[j].size < bs[i].size
           S == {m \in 0 .. n : m = 0 \/ Top(m)}
<1>1. n \in Nat \ {0} /\ DOMAIN bs = 1 .. n /\ \A i \in 1 .. n : bs[i].size \in Nat
  BY BlocksAre
<1> HIDE DEF n
<1>2. ASSUME NEW m \in 1 .. n, m - 1 \in S PROVE m \in S
  <2>1. CASE m = 1
    <3>1. Top(1)
      BY <1>1
    <3> QED
      BY <1>1, <2>1, <3>1
  <2>2. CASE m # 1
    <3>1. Top(m - 1)
      BY <1>2, <2>2
    <3>2. PICK i \in 1 .. m - 1 : /\ \A j \in 1 .. m - 1 : bs[j].size <= bs[i].size
                                  /\ \A j \in 1 .. i - 1 : bs[j].size < bs[i].size
      BY <3>1
    <3>3. /\ m \in 1 .. m /\ i \in 1 .. m /\ bs[m].size \in Nat /\ bs[i].size \in Nat
          /\ \A j \in 1 .. m : j = m \/ j \in 1 .. m - 1
          /\ \A j \in 1 .. m - 1 : bs[j].size \in Nat
      BY <1>1
    <3>4. CASE bs[m].size <= bs[i].size
      <4>1. \A j \in 1 .. m : bs[j].size <= bs[i].size
        BY <3>2, <3>3, <3>4
      <4> QED
        BY <3>2, <3>3, <4>1
    <3>5. CASE bs[i].size < bs[m].size
      <4>1. \A j \in 1 .. m - 1 : bs[j].size < bs[m].size
        BY <3>2, <3>3, <3>5
      <4>2. \A j \in 1 .. m : bs[j].size <= bs[m].size
        BY <3>3, <4>1
      <4> QED
        BY <3>3, <4>1, <4>2
    <3> QED
      BY <3>3, <3>4, <3>5
  <2> QED
    BY <2>1, <2>2
<1>3. 0 \in S /\ \A m \in 1 .. n : m - 1 \in S => m \in S
  BY <1>1, <1>2
<1> HIDE DEF S
<1>4. \A i \in 0 .. n : i \in S
  BY <1>1, <1>3, InductUpTo
<1>5. n \in S /\ n # 0
  BY <1>1, <1>4
<1> QED
  BY <1>1, <1>5 DEF S

------------------------------------------------------------------------------

LEMMA MemoryInitInv == Memory!Init => MemoryInv
<1> SUFFICES ASSUME Memory!Init PROVE MemoryInv
  OBVIOUS
<1>1. blocks = <<>> /\ live = <<>> /\ chunk_size = MinBlockSize /\ total_capacity = 0 /\ total_used = 0 /\ total_lost = 0
  BY DEF Memory!Init
<1>2. live \in Allocations /\ Held(blocks, live) /\ InTurn(live)
  BY <1>1 DEF Allocations, Held, InTurn
<1> QED
  BY <1>1, <1>2, FewTotals, MemoryAssumption DEF MemoryInv

LEMMA FitsIs ==
  ASSUME NEW b, NEW size, NEW alignment, Memory!FitsWithin(b, size, alignment)
  PROVE  (Memory!alignForward(Address + b.used, alignment) - Address) + size <= b.size
BY DEF Memory!FitsWithin

\* Allocate, in blocks for which the totals are right already.
LEMMA AllocateInv ==
  ASSUME NEW bs \in Blocks, bs # <<>>, Fill(bs), Held(bs, live), MemoryInv,
         NEW capacity \in Int, NEW lost \in Int, Totals(bs, capacity, total_used, lost),
         NEW size \in Sizes, NEW alignment \in Alignments,
         (Memory!alignForward(Address + bs[1].used, alignment) - Address) + size <= bs[1].size,
         Memory!Allocate(bs, size, alignment),
         total_capacity' = capacity, total_lost' = lost, chunk_size' \in Nat
  PROVE  MemoryInv'
<1> DEFINE from == Memory!alignForward(Address + bs[1].used, alignment) - Address
           cs == [bs EXCEPT ![1].used = from + size]
           r == Append(live, [block |-> Len(bs), from |-> from, size |-> size, alignment |-> alignment])
<1>1. size \in Nat /\ alignment \in Nat \ {0} /\ bs[1].used \in Nat
  BY MemoryAssumption, BlocksAre
<1>2. from \in Nat /\ bs[1].used <= from /\ (Address + from) % alignment = 0
  BY <1>1, Padding
<1>3. blocks' = cs /\ live' = r /\ total_used' = total_used + (from - bs[1].used) + size
  BY DEF Memory!Allocate
<1>4. from + size <= bs[1].size
  OBVIOUS
<1>5. live \in Allocations /\ InTurn(live) /\ total_used \in Int
  BY DEF MemoryInv
<1> HIDE DEF from
<1>6. /\ cs \in Blocks /\ r \in Allocations
      /\ Fill(cs) /\ Held(cs, r) /\ InTurn(r)
      /\ Totals(cs, capacity, total_used + (from - bs[1].used) + size, lost)
      /\ total_used + (from - bs[1].used) + size \in Int
  BY <1>1, <1>2, <1>4, <1>5, AllocateStep
<1> QED
  BY <1>3, <1>6 DEF MemoryInv

LEMMA MemoryStepInv == MemoryInv /\ (Memory!Next \/ UNCHANGED memoryVars) => MemoryInv'
<1> SUFFICES ASSUME MemoryInv, Memory!Next \/ UNCHANGED memoryVars PROVE MemoryInv'
  OBVIOUS
<1>0. /\ blocks \in Blocks /\ live \in Allocations /\ chunk_size \in Nat
      /\ total_capacity \in Int /\ total_used \in Int /\ total_lost \in Int
      /\ Fill(blocks) /\ Held(blocks, live) /\ InTurn(live)
      /\ Totals(blocks, total_capacity, total_used, total_lost)
  BY DEF MemoryInv
<1>1. CASE UNCHANGED memoryVars
  <2>1. UNCHANGED <<blocks, live, chunk_size, total_capacity, total_used, total_lost>>
    BY <1>1 DEF memoryVars
  <2> QED
    BY <1>0, <2>1 DEF MemoryInv
<1>2. ASSUME NEW size \in Sizes, NEW alignment \in Alignments, Memory!tryAllocateHere(size, alignment)
      PROVE  MemoryInv'
  <2>1. /\ blocks # <<>> /\ Memory!FitsWithin(blocks[1], size, alignment) /\ Memory!Allocate(blocks, size, alignment)
        /\ UNCHANGED <<chunk_size, total_capacity, total_lost>>
    BY <1>2 DEF Memory!tryAllocateHere
  <2>2. (Memory!alignForward(Address + blocks[1].used, alignment) - Address) + size <= blocks[1].size
    BY <2>1, FitsIs
  <2> QED
    BY <1>0, <2>1, <2>2, AllocateInv
<1>3. ASSUME NEW size \in Sizes, NEW alignment \in Alignments, Memory!tryAllocateAnew(size, alignment)
      PROVE  MemoryInv'
  <2> DEFINE needed == size + alignment
             room == IF needed < chunk_size THEN chunk_size ELSE needed
             grown == Memory!alignForward(chunk_size + chunk_size \div 2, MaxAlign)
             cs == <<[size |-> room, used |-> 0]>> \o blocks
             more == IF blocks = <<>> THEN total_lost ELSE total_lost + blocks[1].size - blocks[1].used
  <2>1. /\ Memory!Allocate(cs, size, alignment)
        /\ total_capacity' = total_capacity + room /\ total_lost' = more
        /\ chunk_size' = IF chunk_size >= MaxBlockSize THEN chunk_size
                         ELSE IF grown < MaxBlockSize THEN grown ELSE MaxBlockSize
    BY <1>3 DEF Memory!tryAllocateAnew
  <2>2. size \in Nat /\ alignment \in Nat \ {0} /\ MaxBlockSize \in Nat /\ MaxAlign \in Nat \ {0} /\ Address \in Nat
    BY MemoryAssumption
  <2>3. room \in Nat /\ size + alignment <= room
    BY <1>0, <2>2
  <2>4. chunk_size' \in Nat
    <3> DEFINE x == chunk_size + chunk_size \div 2
    <3>1. x \in Nat /\ x \in Int
      BY <1>0
    <3> HIDE DEF x
    <3>2. MaxAlign \in Nat \ {0}
      BY MemoryAssumption
    <3> DEFINE y == Memory!alignForward(x, MaxAlign)
    <3>3. y \in Int /\ x <= y
      BY <3>1, <3>2, Aligns
    <3> HIDE DEF y
    <3>4. y \in Nat
      BY <3>1, <3>3
    <3>5. grown \in Nat
      BY <3>4 DEF x, y
    <3> HIDE DEF grown
    <3> QED
      BY <1>0, <2>1, <2>2, <3>5
  <2> HIDE DEF room, grown
  <2>5. /\ cs \in Blocks /\ cs # <<>> /\ Len(cs) = Len(blocks) + 1 /\ cs[1].size = room /\ cs[1].used = 0
        /\ Fill(cs) /\ Held(cs, live)
        /\ more \in Int /\ Totals(cs, total_capacity + room, total_used, more)
    BY <1>0, <2>3, NewBlock
  <2>6. (Memory!alignForward(Address + cs[1].used, alignment) - Address) + size <= cs[1].size
    <3> DEFINE from == Memory!alignForward(Address + 0, alignment) - Address
    <3>1. from \in Nat /\ from < 0 + alignment
      BY <2>2, Padding
    <3> HIDE DEF from
    <3>2. from + size <= room
      BY <2>2, <2>3, <3>1
    <3> QED
      BY <2>5, <3>2 DEF from
  <2>7. total_capacity + room \in Int
    BY <1>0, <2>3
  <2> HIDE DEF cs, more
  <2> QED
    BY <2>1, <2>4, <2>5, <2>6, <2>7, AllocateInv
<1>4. ASSUME Memory!freeRecent PROVE MemoryInv'
  <2> DEFINE n == Len(live)
             a == live[n]
             bytes == blocks[1].used - a.from
  <2>1. /\ live # <<>> /\ a.block = Len(blocks)
        /\ total_used' = total_used - bytes
        /\ blocks' = [blocks EXCEPT ![1].used = @ - bytes]
        /\ live' = SubSeq(live, 1, n - 1)
        /\ UNCHANGED <<chunk_size, total_capacity, total_lost>>
    BY <1>4 DEF Memory!freeRecent, Memory!Last, Memory!Front
  <2>2. /\ n \in Nat /\ n # 0 /\ DOMAIN live = 1 .. n
        /\ \A i \in 1 .. n : /\ live[i].block \in Nat /\ live[i].from \in Nat /\ live[i].size \in Nat
                             /\ live[i].alignment \in Nat \ {0}
    BY <1>0, <2>1, AllocationsAre
  <2>3. /\ a.block \in 1 .. Len(blocks) /\ a.from + a.size <= blocks[Len(blocks) + 1 - a.block].used
        /\ a.from \in Nat /\ a.size \in Nat
    BY <1>0, <2>2 DEF Held
  <2>4. /\ Len(blocks) \in Nat \ {0} /\ DOMAIN blocks = 1 .. Len(blocks) /\ blocks # <<>>
        /\ blocks[1].used \in Nat /\ blocks[1].size \in Nat /\ blocks[1].used <= blocks[1].size
    <3>1. Len(blocks) \in Nat /\ DOMAIN blocks = 1 .. Len(blocks) /\ Len(blocks) # 0
      BY <1>0, <2>3, BlocksAre
    <3>2. 1 \in DOMAIN blocks /\ blocks # <<>>
      BY <3>1
    <3> QED
      BY <1>0, <3>1, <3>2, BlocksAre DEF Fill
  <2>5. a.from + a.size <= blocks[1].used
    <3>1. Len(blocks) + 1 - a.block = 1
      BY <2>1, <2>4
    <3> QED
      BY <2>3, <3>1
  <2>6. blocks' = [blocks EXCEPT ![1].used = a.from] /\ total_used' = total_used - blocks[1].used + a.from
    <3>1. blocks[1].used - bytes = a.from /\ total_used - bytes = total_used - blocks[1].used + a.from
      BY <1>0, <2>3, <2>4
    <3> QED
      BY <2>1, <3>1
  <2> DEFINE new == a.from
  <2>7. new \in Nat /\ new <= blocks[1].size
    BY <2>3, <2>4, <2>5
  <2>8. /\ blocks' \in Blocks /\ Len(blocks') = Len(blocks) /\ Fill(blocks')
        /\ blocks'[1].used = new /\ \A i \in 2 .. Len(blocks) : blocks'[i] = blocks[i]
        /\ Totals(blocks', total_capacity, total_used', total_lost)
    <3>1. blocks' = [blocks EXCEPT ![1].used = new] /\ total_used' = total_used - blocks[1].used + new
      BY <2>6
    <3> HIDE DEF new
    <3>2. LET cs == [blocks EXCEPT ![1].used = new]
          IN /\ cs \in Blocks /\ Len(cs) = Len(blocks) /\ Fill(cs)
             /\ cs[1].used = new /\ \A i \in 2 .. Len(blocks) : cs[i] = blocks[i]
             /\ Totals(cs, total_capacity, total_used - blocks[1].used + new, total_lost)
      BY <1>0, <2>4, <2>7, FrontUsed
    <3> QED
      BY <3>1, <3>2
  <2>9. live' \in Allocations /\ DOMAIN live' = 1 .. n - 1 /\ \A i \in 1 .. n - 1 : live'[i] = live[i]
    <3> DEFINE S == [block : Nat, from : Nat, size : Nat, alignment : Nat \ {0}]
    <3>1. live \in Seq(S)
      BY <1>0 DEF Allocations
    <3> HIDE DEF S
    <3>2. live' \in Seq(S) /\ DOMAIN live' = 1 .. n - 1 /\ \A i \in 1 .. n - 1 : live'[i] = live[i]
      BY <2>1, <2>2, <3>1
    <3> QED
      BY <3>2 DEF S, Allocations
  <2>10. InTurn(live')
    <3>1. \A i, j \in 1 .. n - 1 : i < j /\ live[i].block = live[j].block => live[i].from + live[i].size <= live[j].from
      <4>1. \A i \in 1 .. n - 1 : i \in DOMAIN live
        BY <2>2
      <4>2. InTurn(live)
        BY <1>0
      <4> QED
        BY <4>1, <4>2 DEF InTurn
    <3> QED
      BY <2>9, <3>1 DEF InTurn
  <2>11. Held(blocks', live')
    <3> SUFFICES ASSUME NEW i \in 1 .. n - 1
                 PROVE  /\ live[i].block \in 1 .. Len(blocks)
                        /\ (Address + live[i].from) % live[i].alignment = 0
                        /\ live[i].from + live[i].size <= blocks'[Len(blocks) + 1 - live[i].block].used
      BY <2>8, <2>9 DEF Held
    <3> DEFINE k == Len(blocks) + 1 - live[i].block
    <3>1. i \in 1 .. n /\ i < n /\ n \in 1 .. n
      BY <2>2
    <3>2. /\ live[i].block \in 1 .. Len(blocks) /\ (Address + live[i].from) % live[i].alignment = 0
          /\ live[i].from + live[i].size <= blocks[k].used
      BY <1>0, <2>2, <3>1 DEF Held
    <3>3. k = 1 => live[i].block = a.block
      BY <2>1, <2>4, <3>2
    <3>4. k = 1 => live[i].from + live[i].size <= new
      BY <1>0, <2>2, <3>1, <3>3 DEF InTurn
    <3>5. k \in 1 .. Len(blocks)
      BY <2>4, <3>2
    <3> HIDE DEF k, new
    <3>6. k = 1 \/ k \in 2 .. Len(blocks)
      BY <2>4, <3>5
    <3>7. live[i].from + live[i].size <= blocks'[k].used
      BY <2>8, <3>2, <3>4, <3>6
    <3> QED
      BY <3>2, <3>7 DEF k
  <2>12. total_used' \in Int
    BY <1>0, <2>3, <2>4, <2>6
  <2> HIDE DEF a, n, bytes, new
  <2> QED
    BY <1>0, <2>1, <2>8, <2>9, <2>10, <2>11, <2>12 DEF MemoryInv
<1>5. ASSUME Memory!clear PROVE MemoryInv'
  <2>1. /\ chunk_size' = MinBlockSize /\ total_used' = 0 /\ total_lost' = 0 /\ live' = <<>>
        /\ total_capacity' = IF blocks = <<>> THEN 0 ELSE blocks'[1].size
    BY <1>5 DEF Memory!clear
  <2>2. CASE blocks = <<>>
    <3>1. blocks' = <<>> /\ total_capacity' = 0
      BY <1>5, <2>1, <2>2 DEF Memory!clear
    <3> QED
      BY <2>1, <3>1, FewTotals, MemoryAssumption DEF MemoryInv, Allocations, Held, InTurn
  <2>3. CASE blocks # <<>>
    <3> DEFINE Largest(i) == /\ \A j \in DOMAIN blocks : blocks[j].size <= blocks[i].size
                             /\ \A j \in 1 .. i - 1 : blocks[j].size < blocks[i].size
               largest == CHOOSE i \in DOMAIN blocks : Largest(i)
    <3>1. blocks' = <<[size |-> blocks[largest].size, used |-> 0]>>
      BY <1>5, <2>3 DEF Memory!clear
    <3>2. \E i \in DOMAIN blocks : Largest(i)
      BY <1>0, <2>3, LargestIs
    <3>3. largest \in DOMAIN blocks
      BY <3>2
    <3> HIDE DEF largest
    <3> DEFINE n == blocks[largest].size
    <3>4. n \in Nat
      BY <1>0, <3>3, BlocksAre
    <3>5. blocks'[1].size = n
      BY <3>1
    <3> HIDE DEF n
    <3>6. LET bs == <<[size |-> n, used |-> 0]>> IN Totals(bs, n, 0, 0) /\ bs \in Blocks /\ Fill(bs)
      BY <3>4, FewTotals
    <3>7. blocks' = <<[size |-> n, used |-> 0]>> /\ total_capacity' = n
      BY <2>1, <2>3, <3>1, <3>5 DEF n
    <3>8. live' \in Allocations /\ Held(blocks', live') /\ InTurn(live')
      BY <2>1 DEF Allocations, Held, InTurn
    <3> QED
      BY <2>1, <3>4, <3>6, <3>7, <3>8, MemoryAssumption DEF MemoryInv
  <2> QED
    BY <2>2, <2>3
<1>6. ASSUME Memory!reset PROVE MemoryInv'
  <2>1. /\ blocks' = <<>> /\ live' = <<>> /\ chunk_size' = MinBlockSize
        /\ total_capacity' = 0 /\ total_used' = 0 /\ total_lost' = 0
    BY <1>6 DEF Memory!reset
  <2> QED
    BY <2>1, FewTotals, MemoryAssumption DEF MemoryInv, Allocations, Held, InTurn
<1>7. CASE Memory!Next
  BY <1>7, <1>2, <1>3, <1>4, <1>5, <1>6 DEF Memory!Next
<1> QED
  BY <1>1, <1>7

LEMMA MemoryIsSafe == MemoryInv => AllocationsAreSafe
<1> SUFFICES ASSUME MemoryInv PROVE Memory!TotalsAgree /\ Memory!AllocationsAreSafe
  BY DEF AllocationsAreSafe
<1>1. Memory!TotalsAgree
  BY DEF MemoryInv, Memory!TotalsAgree, Totals, SizeOf, UsedOf, LostOf
<1>2. ASSUME NEW i \in DOMAIN live
      PROVE  LET a == live[i] b == blocks[Len(blocks) + 1 - a.block]
             IN (Address + a.from) % a.alignment = 0 /\ a.from + a.size <= b.used /\ b.used <= b.size
  <2> DEFINE k == Len(blocks) + 1 - live[i].block
  <2>1. /\ live[i].block \in 1 .. Len(blocks) /\ (Address + live[i].from) % live[i].alignment = 0
        /\ live[i].from + live[i].size <= blocks[k].used
    BY DEF MemoryInv, Held
  <2>2. Len(blocks) \in Nat /\ DOMAIN blocks = 1 .. Len(blocks)
    BY BlocksAre DEF MemoryInv
  <2>3. k \in DOMAIN blocks
    BY <2>1, <2>2
  <2>4. blocks[k].used <= blocks[k].size
    BY <2>3 DEF MemoryInv, Fill
  <2> QED
    BY <2>1, <2>4
<1>3. InTurn(live)
  BY DEF MemoryInv
<1> QED
  BY <1>1, <1>2, <1>3 DEF Memory!AllocationsAreSafe, InTurn

------------------------------------------------------------------------------
(* Application.  The parts that are registered are a list q, which the     *)
(* pointers of the code link, Base first and every part behind what it     *)
(* depends on.  The parts being registered are those of the calls in       *)
(* progress, and each of their dependencies is registered, still to come   *)
(* or the part of the call inside.                                         *)

PartStatus == {"Unregistered", "Registering", "Registered"}
Frame == [part : Parts \ {Base}, todo : Seq(Parts \ {Base})]

Linked(q, n, p, t) ==
  /\ Len(q) # 0 /\ q[1] = Base /\ t = q[Len(q)]
  /\ \A i, j \in 1 .. Len(q) : q[i] = q[j] => i = j
  /\ \A i \in 1 .. Len(q) - 1 : n[q[i]] = q[i + 1] /\ p[q[i + 1]] = q[i]
  /\ p[Base] = NONE /\ n[t] = NONE
  /\ \A x \in Parts : (\A i \in 1 .. Len(q) : q[i] # x) => n[x] = NONE

Behind(q, d) ==
  \A i \in 1 .. Len(q) : \A k \in DOMAIN d[q[i]] : \E j \in 1 .. i - 1 : q[j] = d[q[i]][k]

Members(q, st) ==
  \A x \in Parts \ {Base} : st[x] = "Registered" <=> \E i \in 1 .. Len(q) : q[i] = x

\* The dependencies of frame c, the call inside of which is for the part x.
Provided(c, x, st, d) ==
  \A k \in DOMAIN d[c.part] :
    \/ st[d[c.part][k]] = "Registered"
    \/ \E j \in DOMAIN c.todo : c.todo[j] = d[c.part][k]
    \/ d[c.part][k] = x

\* The calls cs in progress, and one for x about to be made.
Frames(cs, x, st, d) ==
  /\ \A i \in 1 .. Len(cs) : st[cs[i].part] = "Registering"
  /\ \A i, j \in 1 .. Len(cs) : cs[i].part = cs[j].part => i = j
  /\ \A y \in Parts : st[y] = "Registering" => \E i \in 1 .. Len(cs) : cs[i].part = y
  /\ \A i \in 1 .. Len(cs) : Provided(cs[i], IF i = Len(cs) THEN x ELSE cs[i + 1].part, st, d)

\* A rank of the parts, which there is when they do not depend on each other in
\* a circle: in the graph d and down the calls cs it falls.
IsRank(r, d) == \A x \in Parts : \A k \in DOMAIN d[x] : r[d[x][k]] < r[x]

Falls(cs, d) ==
  /\ \A i \in 1 .. Len(cs) : \A j \in DOMAIN cs[i].todo :
       \E k \in DOMAIN d[cs[i].part] : cs[i].todo[j] = d[cs[i].part][k]
  /\ \A r \in [Parts -> Nat] : IsRank(r, d) =>
       \A i, j \in 1 .. Len(cs) : i < j => r[cs[j].part] < r[cs[i].part]

NoCircles == \A d \in Graphs : \E r \in [Parts -> Nat] : IsRank(r, d)

\* How far init and fini have come, whose turn it is being tr.
Progress(q, ph, ini, fin, tr) ==
  /\ Len(ini) <= Len(q) /\ \A i \in 1 .. Len(ini) : ini[i] = q[i]
  /\ Len(fin) <= Len(q) /\ \A i \in 1 .. Len(fin) : fin[i] = q[Len(q) + 1 - i]
  /\ ph = "Born" => ini = <<>>
  /\ ph \in {"Born", "Initializing", "Running"} => fin = <<>>
  /\ ph = "Initializing" => tr = IF Len(ini) < Len(q) THEN q[Len(ini) + 1] ELSE NONE
  /\ ph \in {"Running", "Finalizing", "Dead"} => Len(ini) = Len(q)
  /\ ph = "Finalizing" => tr = IF Len(fin) < Len(q) THEN q[Len(q) - Len(fin)] ELSE NONE

PartsTyped ==
  /\ phase \in {"Born", "Initializing", "Running", "Finalizing", "Dead"}
  /\ deps \in Graphs
  /\ status \in [Parts -> PartStatus] /\ status[Base] = "Unregistered"
  /\ next_part \in [Parts -> Parts \cup {NONE}] /\ prev_part \in [Parts -> Parts \cup {NONE}]
  /\ adding \in Seq(Frame)
  /\ initialized \in Seq(Parts) /\ finalized \in Seq(Parts)

PartsInv ==
  /\ PartsTyped
  /\ phase # "Born" => adding = <<>> /\ panicked # "circle"
  /\ panicked # "circle" => Frames(adding, NONE, status, deps)
  /\ Falls(adding, deps)
  /\ runs # <<>> => phase \in {"Finalizing", "Dead"} /\ Len(finalized) = Len(initialized)
  /\ \E q \in Seq(Parts) :
       /\ Linked(q, next_part, prev_part, parts_tail) /\ Behind(q, deps) /\ Members(q, status)
       /\ Progress(q, phase, initialized, finalized, turn)

LEMMA GraphsAre ==
  ASSUME NEW d \in Graphs
  PROVE  /\ DOMAIN d = Parts /\ d[Base] = <<>>
         /\ \A x \in Parts : d[x] \in Seq(Parts \ {Base}) /\ \A k \in DOMAIN d[x] : d[x][k] \in Parts \ {Base}
<1>1. DOMAIN d = Parts /\ d[Base] = <<>> /\ \A x \in Parts : d[x] \in Seq(Parts \ {Base})
  BY PartsAssumption
<1> QED
  BY <1>1, ElementsAre

LEMMA PartsInitInv == App!Init => PartsInv
<1> SUFFICES ASSUME App!Init PROVE PartsInv
  OBVIOUS
<1> USE PartsAssumption
<1>1. /\ phase = "Born" /\ deps \in Graphs /\ status = [x \in Parts |-> "Unregistered"]
      /\ next_part = [x \in Parts |-> NONE] /\ prev_part = [x \in Parts |-> NONE] /\ parts_tail = Base
      /\ adding = <<>> /\ initialized = <<>> /\ finalized = <<>> /\ runs = <<>> /\ panicked = "no"
  BY DEF App!Init
<1>2. PartsTyped
  BY <1>1 DEF PartsTyped, PartStatus
<1>3. Frames(adding, NONE, status, deps) /\ Falls(adding, deps)
  BY <1>1 DEF Frames, Falls
<1> DEFINE q == <<Base>>
<1>4. q \in Seq(Parts) /\ Len(q) = 1 /\ q[1] = Base
  OBVIOUS
<1> HIDE DEF q
<1>5. Linked(q, next_part, prev_part, parts_tail) /\ Members(q, status)
  BY <1>1, <1>4 DEF Linked, Members
<1>6. Behind(q, deps)
  BY <1>1, <1>4, GraphsAre DEF Behind
<1>7. Progress(q, phase, initialized, finalized, turn)
  BY <1>1, <1>4 DEF Progress
<1> QED
  BY <1>1, <1>2, <1>3, <1>4, <1>5, <1>6, <1>7 DEF PartsInv

\* Steps that leave everything but the tasks at exit alone.
LEMMA PartsSame ==
  ASSUME PartsInv,
         UNCHANGED <<phase, deps, status, next_part, prev_part, parts_tail, adding, turn, initialized, finalized>>,
         panicked' = panicked \/ (phase # "Born" /\ panicked' # "circle"),
         runs' # <<>> => \/ runs # <<>>
                         \/ phase = "Finalizing" /\ Len(finalized) = Len(initialized)
  PROVE  PartsInv'
<1>1. PartsTyped'
  BY DEF PartsInv, PartsTyped
<1>2. panicked' # "circle" => Frames(adding, NONE, status, deps)
  BY DEF PartsInv
<1> QED
  BY <1>1, <1>2 DEF PartsInv

\* A call of addPart for x inside of the calls cs: unless it meets a circle, a
\* new frame if x is new, and nothing if x is registered.
LEMMA CallFrames ==
  ASSUME NEW st \in [Parts -> PartStatus], NEW d \in Graphs, NEW x \in Parts \ {Base}, NEW cs \in Seq(Frame),
         Frames(cs, x, st, d), st[x] # "Registering"
  PROVE  LET new == st[x] = "Unregistered"
             su == IF new THEN [st EXCEPT ![x] = "Registering"] ELSE st
             ds == IF new THEN Append(cs, [part |-> x, todo |-> d[x]]) ELSE cs
         IN Frames(ds, NONE, su, d) /\ ds \in Seq(Frame)
<1> DEFINE c == [part |-> x, todo |-> d[x]]
           su == [st EXCEPT ![x] = "Registering"]
           ds == Append(cs, c)
           n == Len(cs)
<1>1. n \in Nat /\ \A i \in 1 .. n : cs[i] \in Frame /\ cs[i].part \in Parts \ {Base}
  <2>1. n \in Nat /\ \A i \in 1 .. n : cs[i] \in Frame
    BY ElementsAre
  <2> QED
    BY <2>1 DEF Frame
<1>2. c \in Frame /\ c.part = x /\ c.todo = d[x]
  BY GraphsAre DEF Frame
<1> HIDE DEF c
<1>3. ds \in Seq(Frame) /\ Len(ds) = n + 1 /\ ds[n + 1] = c /\ \A i \in 1 .. n : ds[i] = cs[i]
  <2> HIDE DEF Frame
  <2> QED
    BY <1>2
<1>4. su[x] = "Registering" /\ \A y \in Parts : y # x => su[y] = st[y]
  OBVIOUS
<1> HIDE DEF su, ds
<1>5. /\ \A i \in 1 .. n : st[cs[i].part] = "Registering"
      /\ \A i, j \in 1 .. n : cs[i].part = cs[j].part => i = j
      /\ \A y \in Parts : st[y] = "Registering" => \E i \in 1 .. n : cs[i].part = y
      /\ \A i \in 1 .. n : Provided(cs[i], IF i = n THEN x ELSE cs[i + 1].part, st, d)
  BY DEF Frames
<1>6. CASE st[x] = "Registered"
  <2>1. \A i \in 1 .. n : Provided(cs[i], IF i = n THEN NONE ELSE cs[i + 1].part, st, d)
    BY <1>5, <1>6 DEF Provided
  <2>2. Frames(cs, NONE, st, d)
    BY <1>5, <2>1 DEF Frames
  <2> QED
    BY <1>6, <2>2
<1>7. CASE st[x] = "Unregistered"
  <2>1. \A i \in 1 .. n + 1 : i = n + 1 \/ i \in 1 .. n
    BY <1>1
  <2>2. \A i \in 1 .. n : cs[i].part # x
    BY <1>5, <1>7
  <2>3. \A i \in 1 .. n + 1 : su[ds[i].part] = "Registering"
    BY <1>1, <1>2, <1>3, <1>4, <1>5, <2>1
  <2>4. \A i, j \in 1 .. n + 1 : ds[i].part = ds[j].part => i = j
    <3> SUFFICES ASSUME NEW i \in 1 .. n + 1, NEW j \in 1 .. n + 1, ds[i].part = ds[j].part PROVE i = j
      OBVIOUS
    <3>1. CASE i \in 1 .. n /\ j \in 1 .. n
      BY <1>3, <1>5, <3>1
    <3>2. CASE i = n + 1 /\ j \in 1 .. n
      BY <1>2, <1>3, <2>2, <3>2
    <3>3. CASE j = n + 1 /\ i \in 1 .. n
      BY <1>2, <1>3, <2>2, <3>3
    <3> QED
      BY <2>1, <3>1, <3>2, <3>3
  <2>5. \A y \in Parts : su[y] = "Registering" => \E i \in 1 .. n + 1 : ds[i].part = y
    <3> SUFFICES ASSUME NEW y \in Parts, su[y] = "Registering" PROVE \E i \in 1 .. n + 1 : ds[i].part = y
      OBVIOUS
    <3>1. CASE y = x
      BY <1>1, <1>2, <1>3, <3>1
    <3>2. CASE y # x
      <4>1. PICK i \in 1 .. n : cs[i].part = y
        BY <1>4, <1>5, <3>2
      <4>2. i \in 1 .. n + 1 /\ ds[i].part = y
        BY <1>1, <1>3, <4>1
      <4> QED
        BY <4>2
    <3> QED
      BY <3>1, <3>2
  <2>6. ASSUME NEW i \in 1 .. n + 1
        PROVE  Provided(ds[i], IF i = n + 1 THEN NONE ELSE ds[i + 1].part, su, d)
    <3>1. CASE i = n + 1
      BY <1>2, <1>3, <3>1 DEF Provided
    <3>2. CASE i \in 1 .. n
      <4> DEFINE z == IF i = n THEN x ELSE cs[i + 1].part
      <4>1. Provided(cs[i], z, st, d) /\ cs[i].part \in Parts
        BY <1>1, <1>5, <3>2
      <4>2. ds[i] = cs[i] /\ i # n + 1 /\ ds[i + 1].part = z
        <5>1. i # n => i + 1 \in 1 .. n
          BY <1>1, <3>2
        <5> QED
          BY <1>1, <1>2, <1>3, <3>2, <5>1
      <4> HIDE DEF z
      <4>3. \A y \in Parts : st[y] = "Registered" => su[y] = "Registered"
        BY <1>4, <1>7
      <4>4. \A k \in DOMAIN d[cs[i].part] : d[cs[i].part][k] \in Parts
        BY <4>1, GraphsAre
      <4>5. Provided(cs[i], z, su, d)
        BY <4>1, <4>3, <4>4 DEF Provided
      <4> QED
        BY <4>2, <4>5
    <3> QED
      BY <2>1, <3>1, <3>2
  <2>7. Frames(ds, NONE, su, d)
    BY <1>3, <2>3, <2>4, <2>5, <2>6 DEF Frames
  <2> QED
    BY <1>3, <1>7, <2>7 DEF su, ds, c
<1>8. st[x] = "Registered" \/ st[x] = "Unregistered"
  BY DEF PartStatus
<1> QED
  BY <1>6, <1>7, <1>8

\* The rank falls from the calls cs to a new one for x, a dependency of the last.
LEMMA CallFalls ==
  ASSUME NEW d \in Graphs, NEW x \in Parts \ {Base}, NEW cs \in Seq(Frame), Falls(cs, d),
         Len(cs) # 0 => \E k \in DOMAIN d[cs[Len(cs)].part] : x = d[cs[Len(cs)].part][k]
  PROVE  Falls(Append(cs, [part |-> x, todo |-> d[x]]), d)
<1> DEFINE c == [part |-> x, todo |-> d[x]]
           ds == Append(cs, c)
           n == Len(cs)
<1>1. n \in Nat /\ \A i \in 1 .. n : cs[i].part \in Parts
  <2>1. n \in Nat /\ \A i \in 1 .. n : cs[i] \in Frame
    BY ElementsAre
  <2> QED
    BY <2>1 DEF Frame
<1>2. c \in Frame /\ c.part = x /\ c.todo = d[x]
  BY GraphsAre DEF Frame
<1> HIDE DEF c
<1>3. Len(ds) = n + 1 /\ ds[n + 1] = c /\ \A i \in 1 .. n : ds[i] = cs[i]
  <2> HIDE DEF Frame
  <2> QED
    BY <1>2
<1> HIDE DEF ds
<1>4. \A i \in 1 .. n + 1 : i = n + 1 \/ i \in 1 .. n
  BY <1>1
<1>5. \A i \in 1 .. n + 1 : \A j \in DOMAIN ds[i].todo : \E k \in DOMAIN d[ds[i].part] : ds[i].todo[j] = d[ds[i].part][k]
  <2> SUFFICES ASSUME NEW i \in 1 .. n + 1, NEW j \in DOMAIN ds[i].todo
               PROVE  \E k \in DOMAIN d[ds[i].part] : ds[i].todo[j] = d[ds[i].part][k]
    OBVIOUS
  <2>1. CASE i = n + 1
    BY <1>2, <1>3, <2>1
  <2>2. CASE i \in 1 .. n
    BY <1>3, <2>2 DEF Falls
  <2> QED
    BY <1>4, <2>1, <2>2
<1>6. ASSUME NEW r \in [Parts -> Nat], IsRank(r, d), NEW i \in 1 .. n + 1, NEW j \in 1 .. n + 1, i < j
      PROVE  r[ds[j].part] < r[ds[i].part]
  <2>1. i \in 1 .. n
    BY <1>1, <1>6
  <2>2. CASE j \in 1 .. n
    BY <1>3, <1>6, <2>1, <2>2 DEF Falls
  <2>3. CASE j = n + 1
    <3>1. r[x] < r[cs[n].part]
      <4>1. n \in 1 .. n /\ n # 0
        BY <1>1, <2>1
      <4> QED
        BY <1>1, <1>6, <4>1 DEF IsRank
    <3>2. i = n \/ r[cs[n].part] < r[cs[i].part]
      <4>1. i = n \/ (i < n /\ n \in 1 .. n)
        BY <1>1, <2>1
      <4> QED
        BY <1>6, <2>1, <4>1 DEF Falls
    <3>3. r[x] \in Nat /\ r[cs[n].part] \in Nat /\ r[cs[i].part] \in Nat
      <4>1. n \in 1 .. n
        BY <1>1, <2>1
      <4> QED
        BY <1>1, <2>1, <4>1
    <3>4. r[x] < r[cs[i].part]
      BY <3>1, <3>2, <3>3
    <3> QED
      BY <1>2, <1>3, <2>1, <2>3, <3>4
  <2> QED
    BY <1>4, <2>2, <2>3
<1>7. Falls(ds, d)
  BY <1>3, <1>5, <1>6 DEF Falls
<1> QED
  BY <1>7 DEF ds, c

\* Where nothing depends on itself, no call is for a part being registered.
LEMMA NoCircle ==
  ASSUME NEW d \in Graphs, NEW r \in [Parts -> Nat], IsRank(r, d),
         NEW x \in Parts \ {Base}, NEW st, NEW cs \in Seq(Frame), Frames(cs, x, st, d), Falls(cs, d),
         Len(cs) # 0 => \E k \in DOMAIN d[cs[Len(cs)].part] : x = d[cs[Len(cs)].part][k]
  PROVE  st[x] # "Registering"
<1> SUFFICES ASSUME st[x] = "Registering" PROVE FALSE
  OBVIOUS
<1> DEFINE n == Len(cs)
<1>1. n \in Nat /\ \A i \in 1 .. n : cs[i].part \in Parts
  <2>1. n \in Nat /\ \A i \in 1 .. n : cs[i] \in Frame
    BY ElementsAre
  <2> QED
    BY <2>1 DEF Frame
<1>2. PICK i \in 1 .. n : cs[i].part = x
  BY DEF Frames
<1>3. n \in 1 .. n /\ n # 0
  BY <1>1
<1>4. r[x] < r[cs[n].part]
  BY <1>1, <1>3 DEF IsRank
<1>5. i = n \/ r[cs[n].part] < r[cs[i].part]
  <2>1. i = n \/ i < n
    BY <1>1
  <2> QED
    BY <1>3, <2>1 DEF Falls
<1>6. r[x] \in Nat /\ r[cs[n].part] \in Nat
  BY <1>1, <1>3
<1> QED
  BY <1>2, <1>4, <1>5, <1>6

\* addPart, whoever calls it.
LEMMA CallInv ==
  ASSUME Asserts \/ NoCircles, PartsInv, NEW x \in Parts \ {Base}, NEW outer \in Seq(Frame),
         panicked = "no", phase = "Born",
         Frames(outer, x, status, deps), Falls(outer, deps),
         Len(outer) # 0 => \E k \in DOMAIN deps[outer[Len(outer)].part] : x = deps[outer[Len(outer)].part][k],
         App!CallAddPart(x, outer), App!Registration, UNCHANGED <<next_part, prev_part, parts_tail>>
  PROVE  PartsInv'
<1> DEFINE new == status[x] = "Unregistered"
<1>1. /\ status' = IF new THEN [status EXCEPT ![x] = "Registering"] ELSE status
      /\ adding' = IF new THEN Append(outer, [part |-> x, todo |-> deps[x]]) ELSE outer
      /\ panicked' = IF Asserts /\ status[x] = "Registering" THEN "circle" ELSE panicked
  BY DEF App!CallAddPart
<1>2. UNCHANGED <<phase, deps, turn, initialized, finalized, runs, next_part, prev_part, parts_tail>>
  BY DEF App!Registration
<1>3. PartsTyped
  BY DEF PartsInv
<1>4. deps \in Graphs /\ status \in [Parts -> PartStatus] /\ status[Base] = "Unregistered"
  BY <1>3 DEF PartsTyped
<1>5. [part |-> x, todo |-> deps[x]] \in Frame
  BY <1>4, GraphsAre DEF Frame
<1>6. adding' \in Seq(Frame)
  <2> HIDE DEF Frame
  <2> QED
    BY <1>1, <1>5
<1>7. PartsTyped'
  BY <1>1, <1>2, <1>3, <1>6 DEF PartsTyped, PartStatus
<1>8. Falls(adding, deps)'
  BY <1>1, <1>2, <1>4, CallFalls
<1>9. panicked' # "circle" => status[x] # "Registering"
  <2>1. CASE Asserts
    BY <1>1, <2>1
  <2>2. CASE NoCircles
    <3>1. PICK r \in [Parts -> Nat] : IsRank(r, deps)
      BY <1>4, <2>2 DEF NoCircles
    <3> QED
      BY <1>4, <3>1, NoCircle
  <2> QED
    BY <2>1, <2>2
<1>10. panicked' # "circle" => Frames(adding, NONE, status, deps)'
  <2> SUFFICES ASSUME panicked' # "circle" PROVE Frames(adding, NONE, status, deps)'
    OBVIOUS
  <2>1. Frames(adding', NONE, status', deps)
    BY <1>1, <1>4, <1>9, CallFrames
  <2> QED
    BY <1>2, <2>1
<1>11. runs' # <<>> => phase' \in {"Finalizing", "Dead"} /\ Len(finalized') = Len(initialized')
  BY <1>2 DEF PartsInv
<1>12. PICK q \in Seq(Parts) :
         /\ Linked(q, next_part, prev_part, parts_tail) /\ Behind(q, deps) /\ Members(q, status)
         /\ Progress(q, phase, initialized, finalized, turn)
  BY DEF PartsInv
<1>13. Members(q, status')
  BY <1>1, <1>4, <1>12 DEF Members
<1> QED
  BY <1>2, <1>7, <1>8, <1>10, <1>11, <1>12, <1>13 DEF PartsInv

LEMMA AddPartInv ==
  ASSUME Asserts \/ NoCircles, PartsInv, NEW p \in Parts \ {Base}, App!addPart(p)
  PROVE  PartsInv'
<1>1. /\ panicked = "no" /\ phase = "Born" /\ adding = <<>> /\ App!CallAddPart(p, adding)
      /\ App!Registration /\ UNCHANGED <<next_part, prev_part, parts_tail>>
  BY DEF App!addPart, App!Running
<1>2. Frames(adding, NONE, status, deps) /\ Falls(adding, deps)
  BY <1>1 DEF PartsInv
<1>3. Len(adding) = 0 /\ adding \in Seq(Frame)
  BY <1>1
<1>4. Frames(adding, p, status, deps)
  BY <1>2, <1>3 DEF Frames
<1> QED
  BY <1>1, <1>2, <1>3, <1>4, CallInv

LEMMA FrontIs ==
  ASSUME NEW S, NEW s \in Seq(S), Len(s) # 0
  PROVE  LET f == SubSeq(s, 1, Len(s) - 1)
         IN f \in Seq(S) /\ Len(f) = Len(s) - 1 /\ \A i \in 1 .. Len(s) - 1 : f[i] = s[i]
<1> DEFINE n == Len(s) - 1
<1>1. n \in Nat /\ n <= Len(s) /\ Len(s) \in Nat
  OBVIOUS
<1> HIDE DEF n
<1>2. /\ \A i \in 1 .. n : i \in 1 .. Len(s) /\ s[i] \in S
      /\ SubSeq(s, 1, n) \in Seq(S)
      /\ Len(SubSeq(s, 1, n)) = IF 1 <= n THEN n - 1 + 1 ELSE 0
  BY <1>1
<1>3. Len(SubSeq(s, 1, n)) = n
  BY <1>1, <1>2
<1>4. \A i \in 1 .. n : SubSeq(s, 1, n)[i] = s[i]
  BY <1>1, <1>3
<1> QED
  BY <1>2, <1>3, <1>4 DEF n

LEMMA LastReplaced ==
  ASSUME NEW S, NEW s \in Seq(S), Len(s) # 0, NEW e \in S
  PROVE  LET u == Append(SubSeq(s, 1, Len(s) - 1), e)
         IN /\ u \in Seq(S) /\ Len(u) = Len(s) /\ u[Len(s)] = e
            /\ \A i \in 1 .. Len(s) : i # Len(s) => u[i] = s[i]
<1> DEFINE f == SubSeq(s, 1, Len(s) - 1)
<1>1. f \in Seq(S) /\ Len(f) = Len(s) - 1 /\ \A i \in 1 .. Len(s) - 1 : f[i] = s[i]
  BY FrontIs
<1> HIDE DEF f
<1>2. Append(f, e) \in Seq(S) /\ Len(Append(f, e)) = Len(s) /\ Append(f, e)[Len(s)] = e
  BY <1>1
<1>3. \A i \in 1 .. Len(s) : i # Len(s) => Append(f, e)[i] = s[i]
  BY <1>1
<1> QED
  BY <1>2, <1>3 DEF f

LEMMA FrameOn ==
  ASSUME NEW c \in Frame, Tail(c.todo) \in Seq(Parts \ {Base})
  PROVE  LET e == [c EXCEPT !.todo = Tail(c.todo)]
         IN e \in Frame /\ e.part = c.part /\ e.todo = Tail(c.todo)
<1>1. PICK a \in Parts \ {Base}, b \in Seq(Parts \ {Base}) : c = [part |-> a, todo |-> b]
  BY DEF Frame
<1>2. [c EXCEPT !.todo = Tail(c.todo)] = [part |-> a, todo |-> Tail(b)]
  BY <1>1
<1> QED
  BY <1>1, <1>2 DEF Frame

LEMMA AddDependencyInv ==
  ASSUME Asserts \/ NoCircles, PartsInv, App!AddDependency
  PROVE  PartsInv'
<1> DEFINE n == Len(adding)
           c == adding[n]
           x == c.todo[1]
           e == [c EXCEPT !.todo = Tail(c.todo)]
           outer == Append(SubSeq(adding, 1, n - 1), e)
<1>1. /\ panicked = "no" /\ adding # <<>> /\ c.todo # <<>> /\ App!CallAddPart(x, outer)
      /\ App!Registration /\ UNCHANGED <<next_part, prev_part, parts_tail>>
  BY DEF App!AddDependency, App!Running, App!Last, App!Front
<1>2. phase = "Born" /\ PartsTyped /\ Frames(adding, NONE, status, deps) /\ Falls(adding, deps)
  BY <1>1 DEF PartsInv
<1>3. adding \in Seq(Frame) /\ deps \in Graphs /\ status \in [Parts -> PartStatus]
  BY <1>2 DEF PartsTyped
<1>4. n \in Nat /\ n # 0 /\ \A i \in 1 .. n : adding[i] \in Frame
  <2> HIDE DEF Frame
  <2> QED
    BY <1>1, <1>3, ElementsAre
<1>5. /\ n \in 1 .. n /\ c.part \in Parts \ {Base} /\ c.todo \in Seq(Parts \ {Base}) /\ c = [part |-> c.part, todo |-> c.todo]
      /\ \A i \in 1 .. n : adding[i].part \in Parts
  BY <1>4 DEF Frame
<1>6. /\ Len(c.todo) \in Nat \ {0} /\ x \in Parts \ {Base} /\ 1 \in DOMAIN c.todo
      /\ Tail(c.todo) \in Seq(Parts \ {Base})
      /\ \A j \in DOMAIN c.todo : j = 1 \/ (j - 1 \in DOMAIN Tail(c.todo) /\ Tail(c.todo)[j - 1] = c.todo[j])
      /\ \A j \in DOMAIN Tail(c.todo) : j + 1 \in DOMAIN c.todo /\ Tail(c.todo)[j] = c.todo[j + 1]
  BY <1>1, <1>5
<1>7. e \in Frame /\ e.part = c.part /\ e.todo = Tail(c.todo)
  BY <1>4, <1>5, <1>6, FrameOn
<1> HIDE DEF e
<1>8. outer \in Seq(Frame) /\ Len(outer) = n /\ outer[n] = e /\ \A i \in 1 .. n : i # n => outer[i] = adding[i]
  BY <1>3, <1>4, <1>7, LastReplaced
<1> HIDE DEF outer, x, c
<1>9. \A i \in 1 .. n : outer[i].part = adding[i].part
  BY <1>7, <1>8 DEF c
<1>10. /\ \A i \in 1 .. n : status[adding[i].part] = "Registering"
       /\ \A i, j \in 1 .. n : adding[i].part = adding[j].part => i = j
       /\ \A y \in Parts : status[y] = "Registering" => \E i \in 1 .. n : adding[i].part = y
       /\ \A i \in 1 .. n : Provided(adding[i], IF i = n THEN NONE ELSE adding[i + 1].part, status, deps)
  BY <1>2 DEF Frames
<1>11. Provided(e, x, status, deps)
  <2>1. Provided(c, NONE, status, deps) /\ c = adding[n]
    BY <1>5, <1>10 DEF c
  <2>2. \A k \in DOMAIN deps[c.part] : deps[c.part][k] \in Parts
    BY <1>3, <1>5, GraphsAre DEF c
  <2>3. \A k \in DOMAIN deps[c.part] : deps[c.part][k] # NONE
    BY <2>2, PartsAssumption
  <2> QED
    <3> SUFFICES ASSUME NEW k \in DOMAIN deps[c.part]
                 PROVE  \/ status[deps[c.part][k]] = "Registered"
                        \/ \E j \in DOMAIN e.todo : e.todo[j] = deps[c.part][k]
                        \/ deps[c.part][k] = x
      BY <1>7 DEF Provided
    <3>1. CASE status[deps[c.part][k]] = "Registered"
      BY <3>1
    <3>2. CASE \E j \in DOMAIN c.todo : c.todo[j] = deps[c.part][k]
      <4>1. PICK j \in DOMAIN c.todo : c.todo[j] = deps[c.part][k]
        BY <3>2
      <4> QED
        BY <1>6, <1>7, <4>1 DEF x
    <3> QED
      BY <2>1, <2>3, <3>1, <3>2 DEF Provided
<1>12. ASSUME NEW i \in 1 .. n
       PROVE  Provided(outer[i], IF i = n THEN x ELSE outer[i + 1].part, status, deps)
  <2>1. CASE i = n
    BY <1>8, <1>11, <2>1
  <2>2. CASE i # n
    <3>1. i + 1 \in 1 .. n
      BY <1>4, <2>2
    <3> QED
      BY <1>8, <1>9, <1>10, <2>2, <3>1
  <2> QED
    BY <2>1, <2>2
<1>13. Frames(outer, x, status, deps)
  <2>1. \A i \in 1 .. n : status[outer[i].part] = "Registering"
    BY <1>9, <1>10
  <2>2. \A i, j \in 1 .. n : outer[i].part = outer[j].part => i = j
    BY <1>9, <1>10
  <2>3. \A y \in Parts : status[y] = "Registering" => \E i \in 1 .. n : outer[i].part = y
    BY <1>9, <1>10
  <2> QED
    BY <1>8, <1>12, <2>1, <2>2, <2>3 DEF Frames
<1>14. /\ \A i \in 1 .. n : \A j \in DOMAIN adding[i].todo :
            \E k \in DOMAIN deps[adding[i].part] : adding[i].todo[j] = deps[adding[i].part][k]
       /\ \A r \in [Parts -> Nat] : IsRank(r, deps) =>
            \A i, j \in 1 .. n : i < j => r[adding[j].part] < r[adding[i].part]
  BY <1>2 DEF Falls
<1>15. \A i \in 1 .. n : \A j \in DOMAIN outer[i].todo :
         \E k \in DOMAIN deps[outer[i].part] : outer[i].todo[j] = deps[outer[i].part][k]
  <2> SUFFICES ASSUME NEW i \in 1 .. n, NEW j \in DOMAIN outer[i].todo
               PROVE  \E k \in DOMAIN deps[outer[i].part] : outer[i].todo[j] = deps[outer[i].part][k]
    OBVIOUS
  <2>1. CASE i = n
    <3>1. outer[i].todo = Tail(c.todo) /\ outer[i].part = c.part /\ c = adding[n]
      BY <1>7, <1>8, <2>1 DEF c
    <3>2. j + 1 \in DOMAIN c.todo /\ outer[i].todo[j] = c.todo[j + 1]
      BY <1>6, <3>1
    <3> QED
      BY <1>5, <1>14, <3>1, <3>2
  <2>2. CASE i # n
    BY <1>8, <1>14, <2>2
  <2> QED
    BY <2>1, <2>2
<1>16. Falls(outer, deps)
  BY <1>8, <1>9, <1>14, <1>15 DEF Falls
<1>17. \E k \in DOMAIN deps[outer[Len(outer)].part] : x = deps[outer[Len(outer)].part][k]
  BY <1>5, <1>6, <1>7, <1>8, <1>14 DEF c, x
<1> QED
  BY <1>1, <1>2, <1>6, <1>8, <1>13, <1>16, <1>17, CallInv

\* The list with the part x behind its tail.
LEMMA ListAppended ==
  ASSUME NEW q \in Seq(Parts), NEW n \in [Parts -> Parts \cup {NONE}], NEW p \in [Parts -> Parts \cup {NONE}], NEW t,
         Linked(q, n, p, t), NEW x \in Parts \ {Base}, \A i \in 1 .. Len(q) : q[i] # x
  PROVE  Linked(Append(q, x), [n EXCEPT ![t] = x], [p EXCEPT ![x] = t], x)
<1> DEFINE u == Append(q, x)
           m == Len(q)
<1>1. m \in Nat /\ m # 0 /\ t = q[m] /\ t \in Parts /\ t # x /\ \A i \in 1 .. m : q[i] \in Parts
  BY DEF Linked
<1>2. Len(u) = m + 1 /\ u[m + 1] = x /\ \A i \in 1 .. m : u[i] = q[i]
  BY <1>1
<1> HIDE DEF u
<1>3. \A i \in 1 .. m + 1 : i = m + 1 \/ i \in 1 .. m
  BY <1>1
<1>4. \A i, j \in 1 .. m + 1 : u[i] = u[j] => i = j
  <2> SUFFICES ASSUME NEW i \in 1 .. m + 1, NEW j \in 1 .. m + 1, u[i] = u[j] PROVE i = j
    OBVIOUS
  <2>1. CASE i \in 1 .. m /\ j \in 1 .. m
    BY <1>2, <2>1 DEF Linked
  <2>2. CASE i = m + 1 /\ j \in 1 .. m
    BY <1>2, <2>2
  <2>3. CASE j = m + 1 /\ i \in 1 .. m
    BY <1>2, <2>3
  <2> QED
    BY <1>3, <2>1, <2>2, <2>3
<1>5. ASSUME NEW i \in 1 .. m
      PROVE  [n EXCEPT ![t] = x][u[i]] = u[i + 1] /\ [p EXCEPT ![x] = t][u[i + 1]] = u[i]
  <2>1. CASE i = m
    BY <1>1, <1>2, <2>1
  <2>2. CASE i # m
    <3>1. i \in 1 .. m - 1 /\ i + 1 \in 1 .. m /\ m \in 1 .. m
      BY <1>1, <2>2
    <3>2. n[q[i]] = q[i + 1] /\ p[q[i + 1]] = q[i] /\ q[i] # q[m]
      BY <2>2, <3>1 DEF Linked
    <3> QED
      BY <1>1, <1>2, <3>1, <3>2
  <2> QED
    BY <2>1, <2>2
<1>6. [p EXCEPT ![x] = t][Base] = NONE /\ [n EXCEPT ![t] = x][x] = NONE
  BY <1>1, PartsAssumption DEF Linked
<1>7. \A y \in Parts : (\A i \in 1 .. m + 1 : u[i] # y) => [n EXCEPT ![t] = x][y] = NONE
  <2> SUFFICES ASSUME NEW y \in Parts, \A i \in 1 .. m + 1 : u[i] # y PROVE [n EXCEPT ![t] = x][y] = NONE
    OBVIOUS
  <2>1. \A i \in 1 .. m : q[i] # y
    BY <1>1, <1>2
  <2>2. y # t
    BY <1>1, <2>1
  <2> QED
    BY <2>1, <2>2 DEF Linked
<1>8. u[1] = Base
  BY <1>1, <1>2 DEF Linked
<1>9. Linked(u, [n EXCEPT ![t] = x], [p EXCEPT ![x] = t], x)
  <2>1. Len(u) - 1 = m /\ Len(u) # 0
    BY <1>1, <1>2
  <2> QED
    BY <1>2, <1>4, <1>5, <1>6, <1>7, <1>8, <2>1 DEF Linked
<1> QED
  BY <1>9 DEF u

\* The innermost call, for which nothing is to come, is over.
LEMMA CallOver ==
  ASSUME NEW st \in [Parts -> PartStatus], NEW d \in Graphs, NEW cs \in Seq(Frame), Len(cs) # 0,
         Frames(cs, NONE, st, d), Falls(cs, d)
  PROVE  LET f == SubSeq(cs, 1, Len(cs) - 1)
             su == [st EXCEPT ![cs[Len(cs)].part] = "Registered"]
         IN f \in Seq(Frame) /\ Frames(f, NONE, su, d) /\ Falls(f, d)
<1> DEFINE n == Len(cs)
           x == cs[n].part
           f == SubSeq(cs, 1, n - 1)
           su == [st EXCEPT ![x] = "Registered"]
<1>1. n \in Nat /\ n \in 1 .. n /\ \A i \in 1 .. n : cs[i].part \in Parts \ {Base}
  <2>1. n \in Nat /\ \A i \in 1 .. n : cs[i] \in Frame
    BY ElementsAre
  <2> QED
    BY <2>1 DEF Frame
<1>2. f \in Seq(Frame) /\ Len(f) = n - 1 /\ \A i \in 1 .. n - 1 : f[i] = cs[i]
  <2> HIDE DEF Frame
  <2> QED
    BY FrontIs
<1>3. x \in Parts /\ su[x] = "Registered" /\ \A y \in Parts : y # x => su[y] = st[y]
  BY <1>1
<1> HIDE DEF f, su
<1>4. /\ \A i \in 1 .. n : st[cs[i].part] = "Registering"
      /\ \A i, j \in 1 .. n : cs[i].part = cs[j].part => i = j
      /\ \A y \in Parts : st[y] = "Registering" => \E i \in 1 .. n : cs[i].part = y
      /\ \A i \in 1 .. n : Provided(cs[i], IF i = n THEN NONE ELSE cs[i + 1].part, st, d)
  BY DEF Frames
<1>5. \A i \in 1 .. n - 1 : i \in 1 .. n /\ i # n /\ i + 1 \in 1 .. n /\ cs[i].part # x /\ f[i] = cs[i]
  <2>1. \A i \in 1 .. n - 1 : i \in 1 .. n /\ i # n /\ i + 1 \in 1 .. n
    BY <1>1
  <2> QED
    BY <1>1, <1>2, <1>4, <2>1
<1>6. ASSUME NEW i \in 1 .. n - 1 PROVE su[f[i].part] = "Registering"
  <2> DEFINE y == cs[i].part
  <2>1. y \in Parts /\ y # x /\ st[y] = "Registering" /\ f[i] = cs[i]
    BY <1>1, <1>4, <1>5
  <2> HIDE DEF x
  <2> QED
    BY <1>3, <2>1
<1>7. \A i, j \in 1 .. n - 1 : f[i].part = f[j].part => i = j
  BY <1>4, <1>5
<1>8. \A y \in Parts : su[y] = "Registering" => \E i \in 1 .. n - 1 : f[i].part = y
  <2> SUFFICES ASSUME NEW y \in Parts, su[y] = "Registering" PROVE \E i \in 1 .. n - 1 : f[i].part = y
    OBVIOUS
  <2>1. y # x /\ st[y] = "Registering"
    BY <1>3
  <2>2. PICK i \in 1 .. n : cs[i].part = y
    BY <1>4, <2>1
  <2>3. i \in 1 .. n - 1
    BY <1>1, <2>1, <2>2
  <2> QED
    BY <1>5, <2>2, <2>3
<1>9. ASSUME NEW i \in 1 .. n - 1
      PROVE  Provided(f[i], IF i = n - 1 THEN NONE ELSE f[i + 1].part, su, d)
  <2> DEFINE z == cs[i + 1].part
  <2>1. Provided(cs[i], z, st, d) /\ f[i] = cs[i] /\ cs[i].part \in Parts
    BY <1>1, <1>4, <1>5
  <2>2. \A y \in Parts : st[y] = "Registered" => su[y] = "Registered"
    BY <1>3
  <2>3. \A k \in DOMAIN d[cs[i].part] : d[cs[i].part][k] \in Parts
    BY <2>1, GraphsAre
  <2>4. CASE i = n - 1
    <3>1. z = x
      BY <1>1, <2>4
    <3> HIDE DEF z, x
    <3> QED
      BY <1>3, <2>1, <2>2, <2>3, <2>4, <3>1 DEF Provided
  <2>5. CASE i # n - 1
    <3>1. f[i + 1].part = z
      <4>1. i + 1 \in 1 .. n - 1
        BY <1>1, <2>5
      <4> QED
        BY <1>5, <4>1
    <3> HIDE DEF z, x
    <3> QED
      BY <2>1, <2>2, <2>3, <2>5, <3>1 DEF Provided
  <2> QED
    BY <2>4, <2>5
<1>10. Frames(f, NONE, su, d)
  BY <1>2, <1>6, <1>7, <1>8, <1>9 DEF Frames
<1>11. Falls(f, d)
  <2>1. \A i \in 1 .. n - 1 : \A k \in DOMAIN f[i].todo : \E l \in DOMAIN d[f[i].part] : f[i].todo[k] = d[f[i].part][l]
    <3> SUFFICES ASSUME NEW i \in 1 .. n - 1, NEW k \in DOMAIN f[i].todo
                 PROVE  \E l \in DOMAIN d[f[i].part] : f[i].todo[k] = d[f[i].part][l]
      OBVIOUS
    <3>1. f[i] = cs[i] /\ i \in 1 .. n
      BY <1>5
    <3> QED
      BY <3>1 DEF Falls
  <2>2. ASSUME NEW r \in [Parts -> Nat], IsRank(r, d), NEW i \in 1 .. n - 1, NEW j \in 1 .. n - 1, i < j
        PROVE  r[f[j].part] < r[f[i].part]
    BY <1>5, <2>2 DEF Falls
  <2> QED
    BY <1>2, <2>1, <2>2 DEF Falls
<1> QED
  BY <1>2, <1>10, <1>11 DEF f, su, x

LEMMA AppendPartInv ==
  ASSUME PartsInv, App!AppendPart
  PROVE  PartsInv'
<1> DEFINE n == Len(adding)
           x == adding[n].part
<1>1. /\ panicked = "no" /\ adding # <<>> /\ adding[n].todo = <<>>
      /\ status' = [status EXCEPT ![x] = "Registered"]
      /\ next_part' = [next_part EXCEPT ![parts_tail] = x]
      /\ prev_part' = [prev_part EXCEPT ![x] = parts_tail]
      /\ parts_tail' = x /\ adding' = SubSeq(adding, 1, n - 1)
      /\ UNCHANGED <<phase, deps, turn, initialized, finalized, runs, panicked>>
  BY DEF App!AppendPart, App!Running, App!Last, App!Front, App!Registration
<1>2. phase = "Born" /\ PartsTyped /\ Frames(adding, NONE, status, deps) /\ Falls(adding, deps) /\ runs = <<>>
  BY <1>1 DEF PartsInv
<1>3. /\ adding \in Seq(Frame) /\ deps \in Graphs /\ status \in [Parts -> PartStatus]
      /\ next_part \in [Parts -> Parts \cup {NONE}] /\ prev_part \in [Parts -> Parts \cup {NONE}]
  BY <1>2 DEF PartsTyped
<1>4. n \in Nat /\ n # 0 /\ n \in 1 .. n /\ adding[n] \in Frame
  <2> HIDE DEF Frame
  <2> QED
    BY <1>1, <1>3, ElementsAre
<1>5. x \in Parts \ {Base}
  BY <1>4 DEF Frame
<1>6. /\ adding' \in Seq(Frame) /\ Frames(adding', NONE, status', deps) /\ Falls(adding', deps)
  BY <1>1, <1>2, <1>3, <1>4, CallOver
<1>7. status[x] = "Registering" /\ Provided(adding[n], NONE, status, deps)
  BY <1>2, <1>4 DEF Frames
<1>8. \A k \in DOMAIN deps[x] : deps[x][k] \in Parts \ {Base} /\ status[deps[x][k]] = "Registered"
  <2>1. \A k \in DOMAIN deps[x] : deps[x][k] \in Parts \ {Base}
    BY <1>3, <1>5, GraphsAre
  <2>2. \A k \in DOMAIN deps[x] : deps[x][k] # NONE
    BY <2>1, PartsAssumption
  <2>3. DOMAIN adding[n].todo = {}
    BY <1>1
  <2> QED
    BY <1>7, <2>1, <2>2, <2>3 DEF Provided
<1> HIDE DEF x
<1>9. PICK q \in Seq(Parts) :
        /\ Linked(q, next_part, prev_part, parts_tail) /\ Behind(q, deps) /\ Members(q, status)
        /\ Progress(q, phase, initialized, finalized, turn)
  BY DEF PartsInv
<1> DEFINE m == Len(q)
           u == Append(q, x)
<1>10. m \in Nat /\ \A i \in 1 .. m : q[i] # x
  BY <1>5, <1>7, <1>9 DEF Members
<1>11. Linked(u, next_part', prev_part', parts_tail')
  BY <1>1, <1>3, <1>5, <1>9, <1>10, ListAppended
<1>12. u \in Seq(Parts) /\ Len(u) = m + 1 /\ u[m + 1] = x /\ \A i \in 1 .. m : u[i] = q[i]
  BY <1>5
<1> HIDE DEF u
<1>13. \A i \in 1 .. m + 1 : i = m + 1 \/ i \in 1 .. m
  BY <1>10
<1>14. Behind(u, deps)
  <2> SUFFICES ASSUME NEW i \in 1 .. m + 1, NEW k \in DOMAIN deps[u[i]]
               PROVE  \E j \in 1 .. i - 1 : u[j] = deps[u[i]][k]
    BY <1>12 DEF Behind
  <2>1. CASE i = m + 1
    <3>1. PICK j \in 1 .. m : q[j] = deps[x][k]
      BY <1>8, <1>9, <1>12, <2>1 DEF Members
    <3> QED
      BY <1>10, <1>12, <2>1, <3>1
  <2>2. CASE i \in 1 .. m
    <3>1. PICK j \in 1 .. i - 1 : q[j] = deps[q[i]][k]
      BY <1>9, <1>12, <2>2 DEF Behind
    <3>2. j \in 1 .. m
      BY <1>10, <2>2, <3>1
    <3> QED
      BY <1>12, <2>2, <3>1, <3>2
  <2> QED
    BY <1>13, <2>1, <2>2
<1>15. Members(u, status')
  <2> SUFFICES ASSUME NEW y \in Parts \ {Base}
               PROVE  status'[y] = "Registered" <=> \E i \in 1 .. m + 1 : u[i] = y
    BY <1>12 DEF Members
  <2>1. CASE y = x
    <3>1. m + 1 \in 1 .. m + 1
      BY <1>10
    <3> QED
      BY <1>1, <1>3, <1>5, <1>12, <2>1, <3>1
  <2>2. CASE y # x
    <3>1. status'[y] = status[y]
      BY <1>1, <1>3, <2>2
    <3>2. (\E i \in 1 .. m : q[i] = y) <=> \E i \in 1 .. m + 1 : u[i] = y
      BY <1>10, <1>12, <1>13, <2>2
    <3> QED
      BY <1>9, <3>1, <3>2 DEF Members
  <2> QED
    BY <2>1, <2>2
<1>16. Progress(u, phase, initialized, finalized, turn)
  <2>1. initialized = <<>> /\ finalized = <<>>
    BY <1>2, <1>9 DEF Progress
  <2> QED
    BY <1>2, <1>10, <1>12, <2>1 DEF Progress
<1>17. PartsTyped'
  <2>1. parts_tail \in Parts
    BY <1>9 DEF Linked
  <2>2. /\ status' \in [Parts -> PartStatus] /\ status'[Base] = "Unregistered"
        /\ next_part' \in [Parts -> Parts \cup {NONE}] /\ prev_part' \in [Parts -> Parts \cup {NONE}]
    BY <1>1, <1>2, <1>3, <1>5, <2>1 DEF PartStatus, PartsTyped
  <2> QED
    BY <1>1, <1>2, <1>6, <2>2 DEF PartsTyped
<1> QED
  BY <1>1, <1>2, <1>6, <1>11, <1>12, <1>14, <1>15, <1>16, <1>17 DEF PartsInv

\* init, and the init of every part.
LEMMA InitStepsInv ==
  ASSUME PartsInv, App!init \/ App!InitPart \/ App!DidInit
  PROVE  PartsInv'
<1>1. panicked = "no" /\ panicked' = "no" /\ phase \in {"Born", "Initializing"}
  BY DEF App!init, App!InitPart, App!DidInit, App!Running, App!atExitVars
<1>2. UNCHANGED <<deps, status, next_part, prev_part, parts_tail, adding, finalized, runs>>
  BY DEF App!init, App!InitPart, App!DidInit, App!registry, App!atExitVars
<1>3. PartsTyped /\ Frames(adding, NONE, status, deps) /\ Falls(adding, deps) /\ runs = <<>>
  BY <1>1 DEF PartsInv
<1>4. adding = <<>> /\ finalized = <<>>
  <2>1. adding = <<>>
    BY <1>1 DEF PartsInv, App!init, App!InitPart, App!DidInit
  <2> QED
    BY <1>1, <2>1 DEF PartsInv, Progress
<1>5. PICK q \in Seq(Parts) :
        /\ Linked(q, next_part, prev_part, parts_tail) /\ Behind(q, deps) /\ Members(q, status)
        /\ Progress(q, phase, initialized, finalized, turn)
  BY DEF PartsInv
<1> DEFINE m == Len(q)
           k == Len(initialized)
<1>6. /\ m \in Nat /\ m # 0 /\ q[1] = Base /\ q[m] = parts_tail /\ next_part[parts_tail] = NONE
      /\ \A i \in 1 .. m : q[i] \in Parts /\ q[i] # NONE
      /\ \A i \in 1 .. m - 1 : next_part[q[i]] = q[i + 1]
  BY <1>5, PartsAssumption DEF Linked
<1>7. k \in Nat /\ k <= m /\ (\A i \in 1 .. k : initialized[i] = q[i]) /\ initialized \in Seq(Parts)
  BY <1>3, <1>5 DEF Progress, PartsTyped
<1>8. /\ phase' \in {"Initializing", "Running"} /\ initialized' \in Seq(Parts)
      /\ Progress(q, phase', initialized', finalized', turn')
  <2>1. CASE App!init
    <3>1. phase = "Born" /\ phase' = "Initializing" /\ turn' = Base /\ initialized' = initialized
      BY <2>1 DEF App!init
    <3>2. initialized = <<>>
      BY <1>5, <3>1 DEF Progress
    <3>3. k = 0 /\ Len(finalized) = 0
      BY <1>4, <3>2
    <3> QED
      BY <1>2, <1>4, <1>6, <1>7, <3>1, <3>3 DEF Progress
  <2>2. CASE App!InitPart
    <3>1. /\ phase = "Initializing" /\ phase' = phase /\ turn # NONE
          /\ initialized' = Append(initialized, turn) /\ turn' = next_part[turn]
      BY <2>2 DEF App!InitPart
    <3>2. k < m /\ turn = q[k + 1]
      BY <1>5, <1>7, <3>1 DEF Progress
    <3>3. k + 1 \in 1 .. m
      BY <1>6, <1>7, <3>2
    <3>4. /\ initialized' \in Seq(Parts) /\ Len(initialized') = k + 1
          /\ \A i \in 1 .. k + 1 : initialized'[i] = q[i]
      BY <1>6, <1>7, <3>1, <3>2, <3>3
    <3>5. turn' = IF k + 1 < m THEN q[k + 2] ELSE NONE
      <4>1. CASE k + 1 < m
        <5>1. k + 1 \in 1 .. m - 1
          BY <1>6, <1>7, <4>1
        <5>2. (k + 1) + 1 = k + 2
          BY <1>7
        <5> QED
          BY <1>6, <3>1, <3>2, <4>1, <5>1, <5>2
      <4>2. CASE k + 1 = m
        BY <1>6, <3>1, <3>2, <4>2
      <4> QED
        BY <1>6, <1>7, <3>2, <4>1, <4>2
    <3>6. Len(finalized) = 0 /\ finalized' = finalized
      BY <1>2, <1>4
    <3>7. (k + 1) + 1 = k + 2 /\ k + 1 <= m
      BY <1>6, <1>7, <3>2
    <3> QED
      BY <1>4, <1>6, <3>1, <3>4, <3>5, <3>6, <3>7 DEF Progress
  <2>3. CASE App!DidInit
    <3>1. phase = "Initializing" /\ phase' = "Running" /\ turn = NONE /\ turn' = turn /\ initialized' = initialized
      BY <2>3 DEF App!DidInit
    <3>2. ~(k < m)
      <4>1. k < m => turn = q[k + 1] /\ k + 1 \in 1 .. m
        BY <1>5, <1>6, <1>7, <3>1 DEF Progress
      <4> QED
        BY <1>6, <3>1, <4>1
    <3>3. k = m
      BY <1>6, <1>7, <3>2
    <3>4. Len(finalized) = 0 /\ finalized' = finalized
      BY <1>2, <1>4
    <3> QED
      BY <1>4, <1>6, <1>7, <3>1, <3>3, <3>4 DEF Progress
  <2> QED
    BY <2>1, <2>2, <2>3
<1>9. PartsTyped'
  BY <1>2, <1>3, <1>8 DEF PartsTyped
<1> QED
  BY <1>1, <1>2, <1>3, <1>4, <1>5, <1>8, <1>9 DEF PartsInv

\* fini, and the fini of every part.
LEMMA FiniStepsInv ==
  ASSUME PartsInv, App!fini \/ App!FiniPart
  PROVE  PartsInv'
<1>1. panicked = "no" /\ panicked' = "no" /\ phase \in {"Running", "Finalizing"} /\ phase' = "Finalizing"
  BY DEF App!fini, App!FiniPart, App!Running, App!atExitVars
<1>2. UNCHANGED <<deps, status, next_part, prev_part, parts_tail, adding, initialized, runs>>
  BY DEF App!fini, App!FiniPart, App!registry, App!atExitVars
<1>3. PartsTyped /\ Frames(adding, NONE, status, deps) /\ Falls(adding, deps) /\ adding = <<>>
  BY <1>1 DEF PartsInv
<1>4. PICK q \in Seq(Parts) :
        /\ Linked(q, next_part, prev_part, parts_tail) /\ Behind(q, deps) /\ Members(q, status)
        /\ Progress(q, phase, initialized, finalized, turn)
  BY DEF PartsInv
<1> DEFINE m == Len(q)
           k == Len(finalized)
<1>5. /\ m \in Nat /\ m # 0 /\ q[1] = Base /\ q[m] = parts_tail /\ prev_part[Base] = NONE
      /\ \A i \in 1 .. m : q[i] \in Parts /\ q[i] # NONE
      /\ \A i \in 1 .. m - 1 : prev_part[q[i + 1]] = q[i]
  BY <1>4, PartsAssumption DEF Linked
<1>6. /\ k \in Nat /\ k <= m /\ (\A i \in 1 .. k : finalized[i] = q[m + 1 - i]) /\ finalized \in Seq(Parts)
      /\ Len(initialized) = m /\ (\A i \in 1 .. m : initialized[i] = q[i])
  BY <1>1, <1>3, <1>4 DEF Progress, PartsTyped
<1>7. /\ finalized' \in Seq(Parts) /\ runs = <<>>
      /\ Progress(q, "Finalizing", initialized, finalized', turn')
  <2>1. CASE App!fini
    <3>1. phase = "Running" /\ turn' = parts_tail /\ finalized' = finalized
      BY <2>1 DEF App!fini
    <3>2. finalized = <<>>
      BY <1>4, <3>1 DEF Progress
    <3>3. k = 0 /\ runs = <<>>
      BY <3>1, <3>2 DEF PartsInv
    <3>4. turn' = IF k < m THEN q[m - k] ELSE NONE
      <4>1. m - k = m /\ k < m
        BY <1>5, <3>3
      <4> QED
        BY <1>5, <3>1, <4>1
    <3> QED
      BY <1>5, <1>6, <3>1, <3>3, <3>4 DEF Progress
  <2>2. CASE App!FiniPart
    <3>1. phase = "Finalizing" /\ turn # NONE /\ finalized' = Append(finalized, turn) /\ turn' = prev_part[turn]
      BY <2>2 DEF App!FiniPart
    <3>2. k < m /\ turn = q[m - k]
      BY <1>4, <1>6, <3>1 DEF Progress
    <3>3. runs = <<>>
      BY <1>5, <1>6, <3>2 DEF PartsInv
    <3>4. m - k \in 1 .. m /\ m + 1 - (k + 1) = m - k
      BY <1>5, <1>6, <3>2
    <3>5. /\ finalized' \in Seq(Parts) /\ Len(finalized') = k + 1
          /\ \A i \in 1 .. k + 1 : finalized'[i] = q[m + 1 - i]
      <4>1. finalized' \in Seq(Parts) /\ Len(finalized') = k + 1 /\ finalized'[k + 1] = turn
        BY <1>5, <1>6, <3>1, <3>2, <3>4
      <4>2. \A i \in 1 .. k : finalized'[i] = finalized[i]
        BY <1>5, <1>6, <3>1, <3>2, <3>4
      <4>3. \A i \in 1 .. k + 1 : i = k + 1 \/ i \in 1 .. k
        BY <1>6
      <4> QED
        BY <1>6, <3>2, <3>4, <4>1, <4>2, <4>3
    <3>6. turn' = IF k + 1 < m THEN q[m - (k + 1)] ELSE NONE
      <4>1. CASE k + 1 < m
        <5>1. m - (k + 1) \in 1 .. m - 1 /\ (m - (k + 1)) + 1 = m - k
          BY <1>5, <1>6, <4>1
        <5> QED
          BY <1>5, <3>1, <3>2, <4>1, <5>1
      <4>2. CASE k + 1 = m
        <5>1. m - k = 1
          BY <1>5, <1>6, <4>2
        <5> QED
          BY <1>5, <3>1, <3>2, <4>2, <5>1
      <4> QED
        BY <1>5, <1>6, <3>2, <4>1, <4>2
    <3>7. k + 1 <= m
      BY <1>5, <1>6, <3>2
    <3> QED
      BY <1>5, <1>6, <3>3, <3>5, <3>6, <3>7 DEF Progress
  <2> QED
    BY <2>1, <2>2
<1>8. PartsTyped'
  BY <1>1, <1>2, <1>3, <1>7 DEF PartsTyped
<1> QED
  BY <1>1, <1>2, <1>3, <1>4, <1>7, <1>8 DEF PartsInv

\* The tasks at exit, and exceptions.
LEMMA TaskStepsInv ==
  ASSUME PartsInv,
         \/ App!Throw \/ App!ProcessTasks \/ App!FinishTasks
         \/ \E c \in Callbacks : App!RunTask(c) \/ App!registerCallback(c)
  PROVE  PartsInv'
<1>1. CASE App!Throw
  BY <1>1, PartsSame DEF App!Throw, App!registry
<1>2. CASE App!ProcessTasks
  <2>1. phase = "Finalizing" /\ turn = NONE /\ panicked' = panicked
        /\ UNCHANGED <<phase, deps, status, next_part, prev_part, parts_tail, adding, turn, initialized, finalized>>
    BY <1>2 DEF App!ProcessTasks, App!Manager!Process, App!registry
  <2>2. PICK q \in Seq(Parts) : Linked(q, next_part, prev_part, parts_tail) /\ Progress(q, phase, initialized, finalized, turn)
    BY DEF PartsInv
  <2>3. /\ Len(q) \in Nat /\ Len(finalized) \in Nat /\ Len(finalized) <= Len(q) /\ Len(initialized) = Len(q)
        /\ Len(finalized) < Len(q) => turn = q[Len(q) - Len(finalized)]
    BY <2>1, <2>2 DEF Progress, PartsInv, PartsTyped
  <2>4. ~(Len(finalized) < Len(q))
    <3>1. Len(finalized) < Len(q) => Len(q) - Len(finalized) \in 1 .. Len(q)
      BY <2>3
    <3> QED
      BY <2>1, <2>3, <3>1, PartsAssumption
  <2>5. Len(finalized) = Len(initialized)
    BY <2>3, <2>4
  <2> QED
    BY <2>1, <2>5, PartsSame
<1>3. CASE \E c \in Callbacks : App!RunTask(c) \/ App!registerCallback(c)
  <2>1. /\ UNCHANGED <<phase, deps, status, next_part, prev_part, parts_tail, adding, turn, initialized, finalized>>
        /\ panicked' = panicked /\ (runs' # <<>> => runs # <<>>)
    BY <1>3 DEF App!RunTask, App!registerCallback, App!Manager!RunTask, App!Manager!Register, App!registry
  <2> QED
    BY <2>1, PartsSame
<1>4. CASE App!FinishTasks
  <2>1. /\ runs # <<>> /\ phase' = "Dead" /\ panicked' = panicked
        /\ UNCHANGED <<deps, status, next_part, prev_part, parts_tail, adding, turn, initialized, finalized>>
    BY <1>4 DEF App!FinishTasks, App!Manager!Finish, App!registry
  <2>2. phase \in {"Finalizing", "Dead"} /\ Len(finalized) = Len(initialized)
    BY <2>1 DEF PartsInv
  <2>3. PartsTyped'
    BY <2>1 DEF PartsInv, PartsTyped
  <2>4. PICK q \in Seq(Parts) :
          /\ Linked(q, next_part, prev_part, parts_tail) /\ Behind(q, deps) /\ Members(q, status)
          /\ Progress(q, phase, initialized, finalized, turn)
    BY DEF PartsInv
  <2>5. Progress(q, "Dead", initialized, finalized, turn)
    BY <2>2, <2>4 DEF Progress
  <2> QED
    BY <2>1, <2>2, <2>3, <2>4, <2>5 DEF PartsInv
<1> QED
  BY <1>1, <1>2, <1>3, <1>4

LEMMA PartsStepInv ==
  ASSUME Asserts \/ NoCircles
  PROVE  PartsInv /\ (App!Next \/ UNCHANGED appVars) => PartsInv'
<1> SUFFICES ASSUME PartsInv, App!Next \/ UNCHANGED appVars PROVE PartsInv'
  OBVIOUS
<1>1. CASE \E p \in Parts \ {Base} : App!addPart(p)
  BY <1>1, AddPartInv
<1>2. CASE App!AddDependency
  BY <1>2, AddDependencyInv
<1>3. CASE App!AppendPart
  BY <1>3, AppendPartInv
<1>4. CASE App!init \/ App!InitPart \/ App!DidInit
  BY <1>4, InitStepsInv
<1>5. CASE App!fini \/ App!FiniPart
  BY <1>5, FiniStepsInv
<1>6. CASE \/ App!Throw \/ App!ProcessTasks \/ App!FinishTasks
           \/ \E c \in Callbacks : App!RunTask(c) \/ App!registerCallback(c)
  BY <1>6, TaskStepsInv
<1>7. CASE UNCHANGED appVars
  BY <1>7, PartsSame DEF appVars
<1> QED
  BY <1>1, <1>2, <1>3, <1>4, <1>5, <1>6, <1>7 DEF App!Next

LEMMA SameElements ==
  ASSUME NEW S, NEW s \in Seq(S), NEW t \in Seq(S), Len(s) = Len(t), \A i \in 1 .. Len(s) : s[i] = t[i]
  PROVE  s = t
<1>1. s = [i \in 1 .. Len(s) |-> s[i]] /\ t = [i \in 1 .. Len(s) |-> t[i]]
  OBVIOUS
<1> QED
  BY <1>1, Zenon

LEMMA PrefixIs ==
  ASSUME NEW S, NEW s \in Seq(S), NEW t \in Seq(S), Len(s) <= Len(t), \A i \in 1 .. Len(s) : s[i] = t[i]
  PROVE  SubSeq(s, 1, Len(s)) = SubSeq(t, 1, Len(s))
<1> DEFINE n == Len(s)
<1>1. n \in Nat /\ Len(t) \in Nat /\ n <= Len(t)
  OBVIOUS
<1> HIDE DEF n
<1>2. \A i \in 1 .. n : i \in 1 .. Len(s) /\ i \in 1 .. Len(t) /\ s[i] \in S /\ t[i] \in S
  BY <1>1 DEF n
<1>3. /\ SubSeq(s, 1, n) \in Seq(S) /\ Len(SubSeq(s, 1, n)) = IF 1 <= n THEN n - 1 + 1 ELSE 0
      /\ SubSeq(t, 1, n) \in Seq(S) /\ Len(SubSeq(t, 1, n)) = IF 1 <= n THEN n - 1 + 1 ELSE 0
  BY <1>1, <1>2
<1>4. Len(SubSeq(s, 1, n)) = n /\ Len(SubSeq(t, 1, n)) = n
  BY <1>1, <1>3
<1>5. \A i \in 1 .. n : SubSeq(s, 1, n)[i] = s[i] /\ SubSeq(t, 1, n)[i] = t[i]
  BY <1>1, <1>4
<1>6. \A i \in 1 .. n : SubSeq(s, 1, n)[i] = SubSeq(t, 1, n)[i]
  BY <1>2, <1>5 DEF n
<1>7. SubSeq(s, 1, n) = SubSeq(t, 1, n)
  BY <1>3, <1>4, <1>6, SameElements
<1> QED
  BY <1>7 DEF n

LEMMA PartsAreInOrder == PartsInv => App!PartsInOrder
<1> SUFFICES ASSUME PartsInv PROVE App!PartsInOrder
  OBVIOUS
<1>1. PartsTyped /\ initialized \in Seq(Parts) /\ finalized \in Seq(Parts) /\ deps \in Graphs
  BY DEF PartsInv, PartsTyped
<1>2. PICK q \in Seq(Parts) :
        /\ Linked(q, next_part, prev_part, parts_tail) /\ Behind(q, deps) /\ Members(q, status)
        /\ Progress(q, phase, initialized, finalized, turn)
  BY DEF PartsInv
<1> DEFINE m == Len(q)
           k == Len(initialized)
           f == Len(finalized)
<1>3. /\ m \in Nat /\ k \in Nat /\ f \in Nat /\ k <= m /\ f <= m /\ DOMAIN initialized = 1 .. k /\ DOMAIN finalized = 1 .. f
      /\ \A i \in 1 .. k : i \in 1 .. m /\ initialized[i] = q[i] /\ q[i] \in Parts
      /\ \A i, j \in 1 .. m : q[i] = q[j] => i = j
      /\ m # 0 /\ q[1] = Base
      /\ \A i \in 1 .. f : finalized[i] = q[m + 1 - i]
  BY <1>1, <1>2 DEF Progress, Linked
<1>4. f # 0 => k = m
  <2>1. f # 0 => finalized # <<>>
    OBVIOUS
  <2>2. f # 0 => phase \in {"Finalizing", "Dead"}
    BY <1>2, <2>1 DEF PartsInv, PartsTyped, Progress
  <2> QED
    BY <1>2, <2>2 DEF Progress
<1>5. App!Once(initialized)
  BY <1>3 DEF App!Once
<1>6. App!IsPrefix(finalized, App!Reverse(initialized))
  <2> DEFINE r == App!Reverse(initialized)
  <2>1. r \in Seq(Parts) /\ Len(r) = k /\ \A i \in 1 .. k : r[i] = initialized[k - i + 1]
    BY <1>1, <1>3 DEF App!Reverse
  <2> HIDE DEF r
  <2>2. f <= k
    BY <1>3, <1>4
  <2>3. \A i \in 1 .. f : i \in 1 .. k /\ finalized[i] = r[i]
    <3> SUFFICES ASSUME NEW i \in 1 .. f PROVE i \in 1 .. k /\ finalized[i] = r[i]
      OBVIOUS
    <3>1. k = m /\ i \in 1 .. k /\ k - i + 1 \in 1 .. k /\ m + 1 - i = k - i + 1
      <4>1. f # 0
        BY <1>3
      <4> QED
        BY <1>3, <1>4, <2>2, <4>1
    <3>2. finalized[i] = q[m + 1 - i] /\ initialized[k - i + 1] = q[k - i + 1]
      BY <1>3, <3>1
    <3> QED
      BY <2>1, <3>1, <3>2
  <2>4. SubSeq(finalized, 1, f) = SubSeq(r, 1, f) /\ f <= Len(r)
    BY <1>1, <2>1, <2>2, <2>3, PrefixIs
  <2> QED
    BY <2>4 DEF App!IsPrefix, r
<1>7. ASSUME NEW i \in 1 .. k
      PROVE  App!ToSet(deps[initialized[i]]) \cup {Base} \subseteq App!ToSet(SubSeq(initialized, 1, i - 1)) \cup {Base}
  <2>1. i - 1 \in 0 .. k
    BY <1>3
  <2> SUFFICES ASSUME NEW y \in App!ToSet(deps[initialized[i]]) PROVE y \in App!ToSet(SubSeq(initialized, 1, i - 1))
    OBVIOUS
  <2>2. PICK l \in DOMAIN deps[q[i]] : deps[q[i]][l] = y
    BY <1>3 DEF App!ToSet
  <2>3. PICK j \in 1 .. i - 1 : q[j] = y
    <3>1. i \in 1 .. m /\ \A e \in DOMAIN deps[q[i]] : \E j \in 1 .. i - 1 : q[j] = deps[q[i]][e]
      BY <1>2, <1>3 DEF Behind
    <3> QED
      BY <2>2, <3>1
  <2>4. j \in 1 .. k /\ initialized[j] = y
    BY <1>3, <2>1, <2>3
  <2>5. j \in DOMAIN SubSeq(initialized, 1, i - 1) /\ SubSeq(initialized, 1, i - 1)[j] = initialized[j]
    BY <1>1, <1>3, <2>1, <2>3
  <2> QED
    BY <2>4, <2>5 DEF App!ToSet
<1>8. initialized # <<>> => Head(initialized) = Base
  <2>1. initialized # <<>> => 1 \in 1 .. k /\ Head(initialized) = initialized[1]
    BY <1>1, <1>3
  <2> QED
    BY <1>3, <2>1
<1>9. ASSUME phase = "Running", NEW p \in Parts, status[p] # "Unregistered" PROVE p \in App!ToSet(initialized)
  <2>1. Frames(adding, NONE, status, deps) /\ adding = <<>> /\ k = m
    BY <1>2, <1>9 DEF PartsInv, Progress
  <2>2. status[p] # "Registering"
    <3>1. Len(adding) = 0
      BY <2>1
    <3> QED
      BY <2>1, <3>1 DEF Frames
  <2>3. status[p] = "Registered" /\ p # Base
    BY <1>1, <1>9, <2>2 DEF PartsTyped, PartStatus
  <2>4. PICK i \in 1 .. m : q[i] = p
    BY <1>2, <2>3 DEF Members
  <2> QED
    BY <1>3, <2>1, <2>4 DEF App!ToSet
<1>10. runs # <<>> => f = k
  BY DEF PartsInv
<1>11. \A i \in DOMAIN initialized :
         App!ToSet(deps[initialized[i]]) \cup {Base} \subseteq App!ToSet(SubSeq(initialized, 1, i - 1)) \cup {Base}
  BY <1>3, <1>7
<1>12. phase = "Running" => {p \in Parts : status[p] # "Unregistered"} \subseteq App!ToSet(initialized)
  BY <1>9
<1> QED
  BY <1>5, <1>6, <1>8, <1>10, <1>11, <1>12 DEF App!PartsInOrder

------------------------------------------------------------------------------
(* The composition: each of its steps is one of one component.             *)

LEMMA Independent ==
  /\ MCNext => \/ Life!Next /\ UNCHANGED <<onceVars, lockVars, vars, appVars, memoryVars>>
               \/ Once!Next /\ UNCHANGED <<lifeVars, lockVars, vars, appVars, memoryVars>>
               \/ Locks!Next /\ UNCHANGED <<lifeVars, onceVars, vars, appVars, memoryVars>>
               \/ Next /\ UNCHANGED <<lifeVars, onceVars, lockVars, appVars, memoryVars>>
               \/ App!Next /\ UNCHANGED <<lifeVars, onceVars, lockVars, vars, memoryVars>>
               \/ Memory!Next /\ UNCHANGED <<lifeVars, onceVars, lockVars, vars, appVars>>
  /\ UNCHANGED all => UNCHANGED <<lifeVars, onceVars, lockVars, vars, appVars, memoryVars>>
BY DEF MCNext, LifeOnly, OnceOnly, LocksOnly, CopiesOnly, PartsOnly, MemoryOnly, all

\* The mark in a Lock is of the thread that holds the native lock, wherever
\* threads are waiting or have been woken, and a once-called function is called
\* once, even when it throws: for any number of threads.
THEOREM LocksExclude == MCSpec => []ExclusionHolds
<1>1. MCInit => LocksInv /\ OnceInv
  BY LocksInitInv, OnceInitInv DEF MCInit
<1>2. LocksInv /\ OnceInv /\ [MCNext]_all => LocksInv' /\ OnceInv'
  BY LocksStepInv, OnceStepInv, Independent DEF lockVars, onceVars
<1>3. LocksInv /\ OnceInv => ExclusionHolds
  BY OneHolds, OneCalls DEF ExclusionHolds
<1> QED
  BY <1>1, <1>2, <1>3, PTL DEF MCSpec

\* For any number of workers, other threads and Thread objects: if users keep an
\* object until its thread has ended and ClassFini comes last, no thread ever
\* uses an object or its ThreadData after it is gone, or together with another.
THEOREM ThreadDataIsLive ==
  ASSUME Careful
  PROVE  MCSpec => []DataIsLive
<1>1. MCInit => LifeInv
  BY LifeInitInv DEF MCInit
<1>2. LifeInv /\ [MCNext]_all => LifeInv'
  BY LifeStepInv, Independent
<1>3. LifeInv => DataIsLive
  BY LifeIsLive DEF DataIsLive
<1> QED
  BY <1>1, <1>2, <1>3, PTL DEF MCSpec

\* For any number of threads, callbacks and iterations, for the same users:
\* when a thread has ended, each callback it passed to AtExit before the last
\* round that the system grants has been called exactly once, in the reverse
\* order of its round, and those passed by callbacks after all before.
THEOREM EveryCallbackRuns ==
  ASSUME Careful
  PROVE  MCSpec => []CallbacksRun
<1>1. MCInit => LifeInv /\ CallsInv
  BY LifeInitInv, CallsInitInv DEF MCInit
<1>2. LifeInv /\ CallsInv /\ [MCNext]_all => LifeInv' /\ CallsInv'
  BY LifeStepInv, CallsStepInv, Independent
<1>3. LifeInv /\ CallsInv => CallbacksRun
  BY CallsAreRun DEF CallbacksRun
<1> QED
  BY <1>1, <1>2, <1>3, PTL DEF MCSpec

\* For any sizes and alignments, block sizes and base address: the pieces of
\* memory that the allocator has handed out are aligned, inside of their blocks
\* and apart from each other, and its totals are those of its blocks.
THEOREM AllocatorIsSafe == MCSpec => []AllocationsAreSafe
<1>1. MCInit => MemoryInv
  BY MemoryInitInv DEF MCInit
<1>2. MemoryInv /\ [MCNext]_all => MemoryInv'
  BY MemoryStepInv, Independent
<1>3. MemoryInv => AllocationsAreSafe
  BY MemoryIsSafe DEF AllocationsAreSafe
<1> QED
  BY <1>1, <1>2, <1>3, PTL DEF MCSpec

\* For any parts and dependencies, in a debug build, or when no part depends on
\* itself in a circle: each part is initialised once, behind Base and all that
\* it depends on, all that were added are when main() runs, and they are
\* finalised in reverse, all before the tasks at exit.
THEOREM PartsComeInOrder ==
  ASSUME Asserts \/ NoCircles
  PROVE  MCSpec => []PartsInOrder
<1>1. MCInit => PartsInv
  BY PartsInitInv DEF MCInit
<1>2. PartsInv /\ [MCNext]_all => PartsInv'
  BY PartsStepInv, Independent
<1>3. PartsInv => PartsInOrder
  BY PartsAreInOrder DEF PartsInOrder
<1> QED
  BY <1>1, <1>2, <1>3, PTL DEF MCSpec
==============================================================================
