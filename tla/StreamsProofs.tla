---------------------------- MODULE StreamsProofs ----------------------------
(***************************************************************************)
(* Proofs about the parts of MCStreams: the files, the buffered stream, the *)
(* memory stream and the file stream, for any processes, values, inputs,    *)
(* lengths and sizes of buffers.                                            *)
(***************************************************************************)
EXTENDS MCStreams, SequenceTheorems, TLAPS

------------------------------------------------------------------------------
(* The files. *)

Places == {"begin", "open", "write", "close", "replace", "catch", "remove", "length", "read", "closeRead", "done"}
Outcomes == {"none", "returned", "threw", "crashed"}

Procs ==
  [at : Places, on : Disk!Files \cup {NONE}, pos : Nat, end : Nat, got : Seq(Byte), outcome : Outcomes]

DiskTyped ==
  /\ path \in Disk!Files \cup {NONE}
  /\ temps \subseteq Atomic /\ excused \subseteq Atomic /\ spoilt \subseteq Disk!Files
  /\ bytes \in [Disk!Files -> Seq(Byte)]
  /\ proc \in [Writers \cup Readers -> Procs]

\* The files that have been at the path: what an atomic writer has put there,
\* and what a writeAll was let at.
Published == {Old} \cup {f \in Atomic : proc[f].outcome = "returned"} \cup (spoilt \ Atomic)

PathIsPublished == path \in Published \cup {NONE} /\ spoilt \subseteq Published

\* But for writeAll, they stay as they are.
PublishedIsWhole == \A f \in Published \ spoilt : bytes[f] = Value[f]

\* What an atomic writer has done to its own temporary file, until it returns.
AtomicWriter(p) ==
  /\ proc[p].at # "done" => proc[p].outcome = "none"
  /\ proc[p].at \in {"begin", "open"} => proc[p].pos = 0 /\ bytes[p] = <<>>
  /\ proc[p].at = "write" =>
       proc[p].on = p /\ proc[p].pos <= Len(Value[p]) /\ bytes[p] = SubSeq(Value[p], 1, proc[p].pos)
  /\ proc[p].at \in {"close", "replace"} => bytes[p] = Value[p]

\* Every other writer writes to a file that counts as spoilt.
OtherWriter(p) ==
  /\ proc[p].at \in {"begin", "write", "close", "done"}
  /\ proc[p].at = "write" => proc[p].on \in spoilt

\* What a reader has read of a file that was at the path when it was opened.
Reading(r) ==
  LET f == proc[r].on
  IN /\ f \in Published \cup {NONE}
     /\ proc[r].at \in {"length", "read", "closeRead"} => f # NONE /\ proc[r].outcome = "none"
     /\ proc[r].at = "length" => proc[r].pos = 0 /\ proc[r].got = <<>>
     /\ f \notin spoilt /\ proc[r].at \in {"read", "closeRead"} =>
          /\ proc[r].end = Len(Value[f]) /\ proc[r].pos <= proc[r].end
          /\ proc[r].got = SubSeq(Value[f], 1, proc[r].pos)
     /\ proc[r].at = "closeRead" => proc[r].pos = proc[r].end
     /\ proc[r].outcome = "returned" => f # NONE /\ (f \notin spoilt => proc[r].got = Value[f])

Processes ==
  /\ \A p \in Atomic : AtomicWriter(p)
  /\ \A p \in Writers \ Atomic : OtherWriter(p)
  /\ \A r \in Readers : Reading(r)

DInv == DiskTyped /\ PathIsPublished /\ PublishedIsWhole /\ Processes /\ Disk!LeftoversAreExcused

LEMMA DiskInit ==
  Disk!Init => DInv
<1> SUFFICES ASSUME Disk!Init PROVE DInv
  OBVIOUS
<1> USE DiskAssumption
<1>1. DiskTyped
  BY DEF Disk!Init, Disk!Files, Disk!Idle, DiskTyped, Procs, Places, Outcomes
<1>2. Published = {Old} /\ spoilt = {} /\ path = Old
  BY DEF Disk!Init, Disk!Idle, Published
<1>3. PathIsPublished /\ PublishedIsWhole
  BY <1>2 DEF Disk!Init, Disk!Files, PathIsPublished, PublishedIsWhole
<1>4. Processes
  BY <1>2 DEF Disk!Init, Disk!Files, Disk!Idle, Processes, AtomicWriter, OtherWriter, Reading
<1>5. Disk!LeftoversAreExcused
  BY DEF Disk!Init, Disk!LeftoversAreExcused
<1> QED BY <1>1, <1>3, <1>4, <1>5 DEF DInv

\* A step of p that leaves the path and the files alone, and ends no atomic
\* write, concerns p only.
LEMMA OnlyItself ==
  ASSUME DInv, NEW p \in Writers \cup Readers, UNCHANGED <<path, bytes, spoilt>>,
         \A q \in (Writers \cup Readers) \ {p} : proc'[q] = proc[q],
         p \in Atomic => proc[p].outcome # "returned" /\ proc'[p].outcome # "returned" /\ AtomicWriter(p)',
         p \in Writers \ Atomic => OtherWriter(p)', p \in Readers => Reading(p)'
  PROVE  PathIsPublished' /\ PublishedIsWhole' /\ Processes'
<1> USE DiskAssumption DEF DInv
<1>1. Published' = Published
  BY DEF Published
<1>2. PathIsPublished' /\ PublishedIsWhole'
  BY <1>1 DEF PathIsPublished, PublishedIsWhole
<1>3. ASSUME NEW q \in Atomic PROVE AtomicWriter(q)'
  BY <1>3 DEF Processes, AtomicWriter
<1>4. ASSUME NEW q \in Writers \ Atomic PROVE OtherWriter(q)'
  BY <1>4 DEF Processes, OtherWriter
<1>5. ASSUME NEW q \in Readers PROVE Reading(q)'
  BY <1>1, <1>5 DEF Processes, Reading
<1> QED BY <1>2, <1>3, <1>4, <1>5 DEF Processes


------------------------------------------------------------------------------
(* Bytes written to a stream, and read from it. *)

LEMMA BytesAreASeq ==
  ASSUME NEW n \in Nat, NEW f \in [1 .. n -> Byte]
  PROVE  f \in Seq(Byte) /\ Len(f) = n
BY SeqDef, LenProperties

LEMMA WrittenProperties ==
  ASSUME NEW b \in Seq(Byte), NEW pos \in Nat, NEW input \in Seq(Byte),
         NEW w, w = S!Written(b, pos, input)
  PROVE  /\ w \in Seq(Byte)
         /\ Len(w) = IF input # <<>> /\ pos + Len(input) > Len(b) THEN pos + Len(input) ELSE Len(b)
         /\ \A i \in 1 .. Len(w) :
              w[i] = IF pos < i /\ i <= pos + Len(input) THEN input[i - pos]
                     ELSE IF i <= Len(b) THEN b[i] ELSE 0
<1>1. CASE input = <<>>
  BY <1>1, EmptySeq, ElementOfSeq DEF S!Written
<1>2. CASE input # <<>>
  <2> DEFINE n == IF pos + Len(input) > Len(b) THEN pos + Len(input) ELSE Len(b)
  <2>1. w = [i \in 1 .. n |-> IF pos < i /\ i <= pos + Len(input) THEN input[i - pos]
                              ELSE IF i <= Len(b) THEN b[i] ELSE 0]
    BY <1>2 DEF S!Written
  <2>2. n \in Nat /\ Len(b) \in Nat /\ Len(input) \in Nat
    BY LenProperties
  <2>3. ASSUME NEW i \in 1 .. n PROVE w[i] \in Byte
    <3>1. CASE pos < i /\ i <= pos + Len(input)
      <4>1. i - pos \in 1 .. Len(input) /\ w[i] = input[i - pos]
        BY <3>1, <2>1, <2>2
      <4> QED BY <4>1, ElementOfSeq
    <3>2. CASE ~(pos < i /\ i <= pos + Len(input)) /\ i <= Len(b)
      <4>1. i \in 1 .. Len(b) /\ w[i] = b[i]
        BY <3>2, <2>1, <2>2
      <4> QED BY <4>1, ElementOfSeq
    <3>3. CASE ~(pos < i /\ i <= pos + Len(input)) /\ ~(i <= Len(b))
      BY <3>3, <2>1, <2>2 DEF Byte
    <3> QED BY <3>1, <3>2, <3>3
  <2>4. w \in [1 .. n -> Byte]
    BY <2>1, <2>3
  <2>5. w \in Seq(Byte) /\ Len(w) = n
    BY <2>2, <2>4, BytesAreASeq
  <2> QED BY <1>2, <2>1, <2>5
<1> QED BY <1>1, <1>2

\* What is read from a stream are as many bytes as there are.
LEMMA Slice ==
  ASSUME NEW b \in Seq(Byte), NEW m \in Nat \ {0}, NEW n \in Int, n <= Len(b)
  PROVE  /\ SubSeq(b, m, n) \in Seq(Byte)
         /\ Len(SubSeq(b, m, n)) = IF m <= n THEN n - m + 1 ELSE 0
         /\ \A i \in 1 .. n - m + 1 : SubSeq(b, m, n)[i] = b[m + i - 1]
<1>1. \A i \in m .. n : b[i] \in Byte
  BY ElementOfSeq, LenProperties
<1> QED BY <1>1, SubSeqProperties

LEMMA WrittenOn ==
  ASSUME NEW v \in Seq(Byte), NEW pos \in 0 .. Len(v), NEW k \in 1 .. Len(v) - pos
  PROVE  S!Written(SubSeq(v, 1, pos), pos, SubSeq(v, pos + 1, pos + k)) = SubSeq(v, 1, pos + k)
<1> DEFINE b == SubSeq(v, 1, pos)
           input == SubSeq(v, pos + 1, pos + k)
           whole == SubSeq(v, 1, pos + k)
           w == S!Written(b, pos, input)
<1>1. Len(v) \in Nat /\ pos \in Nat /\ k \in Nat \ {0} /\ pos + k <= Len(v)
  BY LenProperties
<1>2. /\ b \in Seq(Byte) /\ Len(b) = pos
      /\ \A i \in 1 .. pos : b[i] = v[i]
  BY <1>1, Slice
<1>3. /\ input \in Seq(Byte) /\ Len(input) = k /\ input # <<>>
      /\ \A i \in 1 .. k : input[i] = v[pos + i]
  <2>1. /\ input \in Seq(Byte)
        /\ Len(input) = IF pos + 1 <= pos + k THEN pos + k - (pos + 1) + 1 ELSE 0
        /\ \A i \in 1 .. pos + k - (pos + 1) + 1 : input[i] = v[pos + 1 + i - 1]
    <3> DEFINE m == pos + 1
               n == pos + k
    <3>1. m \in Nat \ {0} /\ n \in Int /\ n <= Len(v)
      BY <1>1
    <3> HIDE DEF m, n
    <3>2. /\ SubSeq(v, m, n) \in Seq(Byte)
          /\ Len(SubSeq(v, m, n)) = IF m <= n THEN n - m + 1 ELSE 0
          /\ \A i \in 1 .. n - m + 1 : SubSeq(v, m, n)[i] = v[m + i - 1]
      BY <3>1, Slice
    <3> QED BY <3>2 DEF m, n
  <2> HIDE DEF input
  <2>2. Len(input) = k
    BY <1>1, <2>1
  <2>4. ASSUME NEW i \in 1 .. k PROVE input[i] = v[pos + i]
    <3>1. i \in 1 .. pos + k - (pos + 1) + 1 /\ pos + 1 + i - 1 = pos + i
      BY <1>1
    <3>2. input[i] = v[pos + 1 + i - 1]
      BY <2>1, <3>1
    <3> QED BY <3>1, <3>2
  <2>3. input # <<>>
    BY <1>1, <2>2
  <2> QED BY <2>1, <2>2, <2>3, <2>4
<1>4. /\ whole \in Seq(Byte) /\ Len(whole) = pos + k
      /\ \A i \in 1 .. pos + k : whole[i] = v[i]
  BY <1>1, Slice
<1> HIDE DEF b, input, whole
<1>5. /\ w \in Seq(Byte)
      /\ Len(w) = IF input # <<>> /\ pos + Len(input) > Len(b) THEN pos + Len(input) ELSE Len(b)
      /\ \A i \in 1 .. Len(w) :
           w[i] = IF pos < i /\ i <= pos + Len(input) THEN input[i - pos] ELSE IF i <= Len(b) THEN b[i] ELSE 0
  BY <1>1, <1>2, <1>3, WrittenProperties
<1> HIDE DEF w
<1>6. Len(w) = Len(whole)
  BY <1>1, <1>2, <1>3, <1>4, <1>5
<1>7. ASSUME NEW i \in 1 .. Len(w) PROVE w[i] = whole[i]
  <2>1. i \in 1 .. pos + k /\ whole[i] = v[i]
    BY <1>4, <1>6
  <2>2. CASE i <= pos
    BY <1>1, <1>2, <1>5, <2>1, <2>2
  <2>3. CASE i > pos
    <3>1. i - pos \in 1 .. k /\ pos + (i - pos) = i
      BY <1>1, <2>1, <2>3
    <3>2. w[i] = input[i - pos]
      BY <1>1, <1>3, <1>5, <2>1, <2>3
    <3>3. input[i - pos] = v[pos + (i - pos)]
      BY <1>3, <3>1
    <3> QED BY <2>1, <3>1, <3>2, <3>3
  <2> QED BY <1>1, <2>1, <2>2, <2>3
<1>8. w = whole
  BY <1>4, <1>5, <1>6, <1>7, SeqEqual
<1> QED BY <1>8 DEF w, b, input, whole

LEMMA DiskWritten ==
  ASSUME NEW b, NEW pos, NEW input
  PROVE  Disk!S!Written(b, pos, input) = S!Written(b, pos, input)
BY DEF Disk!S!Written, S!Written


------------------------------------------------------------------------------
(* Each step of the processes. *)

\* The file p has open, where it goes to, and how its call ends, if it does.
Moved(p, at, on, outcome) ==
  /\ proc' \in [Writers \cup Readers -> Procs]
  /\ \A q \in (Writers \cup Readers) \ {p} : proc'[q] = proc[q]
  /\ proc'[p].at = at /\ proc'[p].on = on /\ proc'[p].outcome = outcome
  /\ proc'[p].pos = proc[p].pos /\ proc'[p].end = proc[p].end /\ proc'[p].got = proc[p].got

LEMMA Moves ==
  ASSUME DiskTyped, NEW p \in Writers \cup Readers, NEW at \in Places,
         NEW on \in Disk!Files \cup {NONE}, NEW outcome \in Outcomes,
         proc' = [proc EXCEPT ![p] = [proc[p] EXCEPT !.at = at, !.on = on, !.outcome = outcome]]
  PROVE  Moved(p, at, on, outcome)
<1>1. proc[p] \in Procs
  BY DEF DiskTyped
<1> DEFINE r == [proc[p] EXCEPT !.at = at, !.on = on, !.outcome = outcome]
<1>2. /\ r \in Procs
      /\ r.at = at /\ r.on = on /\ r.outcome = outcome
      /\ r.pos = proc[p].pos /\ r.end = proc[p].end /\ r.got = proc[p].got
  BY <1>1 DEF Procs, Places, Outcomes
<1>3. proc' = [proc EXCEPT ![p] = r]
  OBVIOUS
<1> HIDE DEF r
<1> QED BY <1>2, <1>3 DEF DiskTyped, Moved

LEMMA Ending ==
  ASSUME DiskTyped, NEW p \in Writers \cup Readers, NEW outcome \in Outcomes, Disk!Ends(p, outcome)
  PROVE  Moved(p, "done", NONE, outcome)
<1>1. proc' = [proc EXCEPT ![p] = [proc[p] EXCEPT !.at = "done", !.on = NONE, !.outcome = outcome]]
  BY DEF Disk!Ends
<1> QED BY <1>1, Moves DEF Places

LEMMA Going ==
  ASSUME DiskTyped, NEW p \in Writers \cup Readers, NEW at \in Places, Disk!Goes(p, at)
  PROVE  Moved(p, at, proc[p].on, proc[p].outcome)
<1>1. proc[p] \in Procs
  BY DEF DiskTyped
<1>2. proc[p].on \in Disk!Files \cup {NONE} /\ proc[p].outcome \in Outcomes
  BY <1>1 DEF Procs, Outcomes
<1>3. proc' = [proc EXCEPT ![p] = [proc[p] EXCEPT !.at = at, !.on = proc[p].on, !.outcome = proc[p].outcome]]
  BY <1>1 DEF Disk!Goes, Procs
<1> QED BY <1>2, <1>3, Moves

LEMMA CreateTemporaryKeeps ==
  ASSUME DInv, NEW p \in Writers, Disk!createTemporaryIn(p)
  PROVE  DInv'
<1> USE DiskAssumption DEF DInv
<1>1. p \in Atomic /\ proc[p].at = "begin" /\ UNCHANGED <<path, bytes, spoilt, excused>>
  BY DEF Disk!createTemporaryIn, Disk!At, Disk!Stays
<1>2. proc[p].outcome = "none" /\ proc[p].pos = 0 /\ bytes[p] = <<>>
  BY <1>1 DEF Processes, AtomicWriter
<1>3. \/ Moved(p, "open", proc[p].on, "none") /\ temps' = temps \cup {p}
      \/ Moved(p, "done", NONE, "threw") /\ temps' = temps
  BY <1>2, Going, Ending DEF Disk!createTemporaryIn, Disk!Stays, Places, Outcomes
<1>4. DiskTyped'
  BY <1>1, <1>3 DEF DiskTyped, Moved
<1>5. PathIsPublished' /\ PublishedIsWhole' /\ Processes'
  BY <1>1, <1>2, <1>3, OnlyItself DEF Moved, AtomicWriter
<1>6. Disk!LeftoversAreExcused'
  BY <1>1, <1>3 DEF Moved, Disk!LeftoversAreExcused
<1> QED BY <1>4, <1>5, <1>6

LEMMA OpenTemporaryKeeps ==
  ASSUME DInv, NEW p \in Writers, Disk!openTemporary(p)
  PROVE  DInv'
<1> USE DiskAssumption DEF DInv
<1>1. proc[p].at = "open" /\ p \in Atomic /\ UNCHANGED <<path, temps, bytes, spoilt>>
  BY DEF Disk!openTemporary, Disk!At, Processes, OtherWriter
<1>2. proc[p].outcome = "none" /\ proc[p].pos = 0 /\ bytes[p] = <<>> /\ p \in Disk!Files
  BY <1>1 DEF Processes, AtomicWriter, Disk!Files
<1>3. \/ Moved(p, "write", p, "none") /\ excused' = excused
      \/ Moved(p, "done", NONE, "threw") /\ excused' = excused \cup {p}
  <2>1. CASE Disk!Opens(p, p) /\ excused' = excused
    <3>1. proc[p] \in Procs
      BY DEF DiskTyped
    <3>2. proc' = [proc EXCEPT ![p] = [proc[p] EXCEPT !.at = "write", !.on = p, !.outcome = "none"]]
      BY <1>2, <2>1, <3>1 DEF Disk!Opens, Procs
    <3> QED BY <1>2, <2>1, <3>2, Moves DEF Places, Outcomes
  <2>2. CASE Disk!Ends(p, "threw") /\ excused' = excused \cup {p}
    BY <2>2, Ending DEF Outcomes
  <2> QED BY <2>1, <2>2 DEF Disk!openTemporary, Disk!Target
<1>4. DiskTyped'
  BY <1>1, <1>3 DEF DiskTyped, Moved
<1>5. Value[p] \in Seq(Byte) /\ Len(Value[p]) \in Nat /\ SubSeq(Value[p], 1, 0) = <<>>
  BY LenProperties, SubSeqEmpty
<1>6. AtomicWriter(p)'
  BY <1>1, <1>2, <1>3, <1>5 DEF Moved, AtomicWriter
<1>7. PathIsPublished' /\ PublishedIsWhole' /\ Processes'
  BY <1>1, <1>2, <1>3, <1>6, OnlyItself DEF Moved
<1>8. Disk!LeftoversAreExcused'
  BY <1>1, <1>3 DEF Moved, Disk!LeftoversAreExcused
<1> QED BY <1>4, <1>8, <1>7

LEMMA CloseKeeps ==
  ASSUME DInv, NEW p \in Writers, Disk!close(p)
  PROVE  DInv'
<1> USE DiskAssumption DEF DInv
<1>1. proc[p].at = "close" /\ UNCHANGED <<path, temps, bytes, spoilt, excused>>
  BY DEF Disk!close, Disk!At, Disk!Stays
<1>2. CASE p \in Atomic
  <2>1. proc[p].outcome = "none" /\ bytes[p] = Value[p]
    BY <1>1, <1>2 DEF Processes, AtomicWriter
  <2>2. proc[p] \in Procs
    BY DEF DiskTyped
  <2>3. \E at \in {"replace", "remove"} :
          proc' = [proc EXCEPT ![p] = [proc[p] EXCEPT !.at = at, !.on = NONE, !.outcome = "none"]]
    <3>1. \/ proc' = [proc EXCEPT ![p].at = "replace", ![p].on = NONE]
          \/ proc' = [proc EXCEPT ![p].at = "remove", ![p].on = NONE]
      BY <1>2 DEF Disk!close
    <3>2. ASSUME NEW at, proc' = [proc EXCEPT ![p].at = at, ![p].on = NONE]
          PROVE  proc' = [proc EXCEPT ![p] = [proc[p] EXCEPT !.at = at, !.on = NONE, !.outcome = "none"]]
      BY <2>1, <2>2, <3>2 DEF Procs
    <3> QED BY <3>1, <3>2
  <2>4. \E at \in {"replace", "remove"} : Moved(p, at, NONE, "none")
    BY <2>3, Moves DEF Places, Outcomes
  <2>5. DiskTyped'
    BY <1>1, <2>4 DEF DiskTyped, Moved
  <2>6. PathIsPublished' /\ PublishedIsWhole' /\ Processes'
    BY <1>1, <1>2, <2>1, <2>4, OnlyItself DEF Moved, AtomicWriter
  <2>7. Disk!LeftoversAreExcused'
    BY <1>1, <2>4 DEF Moved, Disk!LeftoversAreExcused
  <2> QED BY <2>5, <2>6, <2>7
<1>3. CASE p \notin Atomic
  <2>1. \E outcome \in {"returned", "threw"} : Moved(p, "done", NONE, outcome)
    BY <1>3, Ending DEF Disk!close, Outcomes
  <2>2. DiskTyped'
    BY <1>1, <2>1 DEF DiskTyped, Moved
  <2>3. PathIsPublished' /\ PublishedIsWhole' /\ Processes'
    BY <1>1, <1>3, <2>1, OnlyItself DEF Moved, OtherWriter
  <2>4. Disk!LeftoversAreExcused'
    BY <1>1, <1>3, <2>1 DEF Moved, Disk!LeftoversAreExcused
  <2> QED BY <2>2, <2>3, <2>4
<1> QED BY <1>2, <1>3

LEMMA CatchKeeps ==
  ASSUME DInv, NEW p \in Writers, Disk!catch(p)
  PROVE  DInv'
<1> USE DiskAssumption DEF DInv
<1>1. proc[p].at = "catch" /\ p \in Atomic /\ UNCHANGED <<path, temps, bytes, spoilt>>
  BY DEF Disk!catch, Disk!At, Processes, OtherWriter
<1>2. proc[p].outcome = "none"
  BY <1>1 DEF Processes, AtomicWriter
<1>3. \/ Moved(p, "remove", NONE, "none") /\ excused' = excused
      \/ Moved(p, "done", NONE, "threw") /\ excused' = excused \cup {p}
  <2>1. CASE proc' = [proc EXCEPT ![p].at = "remove", ![p].on = NONE] /\ excused' = excused
    <3>1. proc[p] \in Procs
      BY DEF DiskTyped
    <3>2. proc' = [proc EXCEPT ![p] = [proc[p] EXCEPT !.at = "remove", !.on = NONE, !.outcome = "none"]]
      BY <1>2, <2>1, <3>1 DEF Procs
    <3> QED BY <2>1, <3>2, Moves DEF Places, Outcomes
  <2>2. CASE Disk!Ends(p, "threw") /\ excused' = excused \cup {p}
    BY <2>2, Ending DEF Outcomes
  <2> QED BY <2>1, <2>2 DEF Disk!catch
<1>4. DiskTyped'
  BY <1>1, <1>3 DEF DiskTyped, Moved
<1>5. PathIsPublished' /\ PublishedIsWhole' /\ Processes'
  BY <1>1, <1>2, <1>3, OnlyItself DEF Moved, AtomicWriter
<1>6. Disk!LeftoversAreExcused'
  BY <1>1, <1>3 DEF Moved, Disk!LeftoversAreExcused
<1> QED BY <1>4, <1>5, <1>6

LEMMA TryRemoveKeeps ==
  ASSUME DInv, NEW p \in Writers, Disk!tryRemove(p)
  PROVE  DInv'
<1> USE DiskAssumption DEF DInv
<1>1. /\ proc[p].at = "remove" /\ p \in Atomic /\ UNCHANGED <<path, bytes, spoilt>>
      /\ \/ temps' = temps \ {p} /\ excused' = excused
         \/ temps' = temps /\ excused' = excused \cup {p}
  BY DEF Disk!tryRemove, Disk!At, Processes, OtherWriter
<1>2. proc[p].outcome = "none"
  BY <1>1 DEF Processes, AtomicWriter
<1>3. Moved(p, "done", NONE, "threw")
  BY Ending DEF Disk!tryRemove, Outcomes
<1>4. DiskTyped'
  BY <1>1, <1>3 DEF DiskTyped, Moved
<1>5. PathIsPublished' /\ PublishedIsWhole' /\ Processes'
  BY <1>1, <1>2, <1>3, OnlyItself DEF Moved, AtomicWriter
<1>6. Disk!LeftoversAreExcused'
  BY <1>1, <1>3 DEF Moved, Disk!LeftoversAreExcused
<1> QED BY <1>4, <1>5, <1>6


\* What has been at the path is no file of an atomic writer still at work.
LEMMA PublishedIsDone ==
  ASSUME DInv, NEW f \in Published, f \in Atomic
  PROVE  proc[f].at = "done" /\ proc[f].outcome = "returned"
BY DiskAssumption DEF DInv, Published, Processes, AtomicWriter

LEMMA OpenForWriteAllKeeps ==
  ASSUME DInv, NEW p \in Writers, Disk!openForWriteAll(p)
  PROVE  DInv'
<1> USE DiskAssumption DEF DInv
<1>1. proc[p].at = "begin" /\ p \in Writers \ Atomic /\ UNCHANGED <<temps, excused>>
  BY DEF Disk!openForWriteAll, Disk!At
<1>2. proc[p] \in Procs
  BY DEF DiskTyped
<1>3. CASE Disk!Ends(p, "threw") /\ UNCHANGED <<path, bytes, spoilt>>
  <2>1. Moved(p, "done", NONE, "threw")
    BY <1>3, Ending DEF Outcomes
  <2>2. DiskTyped'
    BY <1>1, <1>3, <2>1 DEF DiskTyped, Moved
  <2>3. PathIsPublished' /\ PublishedIsWhole' /\ Processes'
    BY <1>1, <1>3, <2>1, OnlyItself DEF Moved, OtherWriter
  <2>4. Disk!LeftoversAreExcused'
    BY <1>1, <1>3, <2>1 DEF Moved, Disk!LeftoversAreExcused
  <2> QED BY <2>2, <2>3, <2>4
<1>4. ASSUME NEW f, f = IF path = NONE THEN p ELSE path,
             path' = f, bytes' = [bytes EXCEPT ![f] = <<>>], spoilt' = spoilt \cup {f}, Disk!Opens(p, f)
      PROVE  DInv'
  <2>1. f \in Disk!Files /\ (f \in Published \/ f = p)
    BY <1>4 DEF DiskTyped, Disk!Files, PathIsPublished
  <2>2. Moved(p, "write", f, proc[p].outcome)
    <3>1. proc' = [proc EXCEPT ![p] = [proc[p] EXCEPT !.at = "write", !.on = f, !.outcome = proc[p].outcome]]
      BY <1>1, <1>2, <1>4 DEF Disk!Opens, Procs
    <3>2. proc[p].outcome \in Outcomes
      BY <1>2 DEF Procs
    <3> QED BY <2>1, <3>1, <3>2, Moves DEF Places
  <2>3. DiskTyped'
    <3>1. bytes' \in [Disk!Files -> Seq(Byte)]
      BY <1>4, <2>1, EmptySeq DEF DiskTyped
    <3> QED BY <1>1, <1>4, <2>1, <2>2, <3>1 DEF DiskTyped, Moved
  <2>4. \A q \in Atomic : q # p /\ proc'[q] = proc[q] /\ q \in Writers \cup Readers
    BY <1>1, <2>2 DEF Moved
  <2>5. Published' = Published \cup {f}
    BY <1>1, <1>4, <2>1, <2>4 DEF Published
  <2>6. PathIsPublished'
    BY <1>4, <2>5 DEF PathIsPublished
  <2>7. PublishedIsWhole'
    BY <1>4, <2>5 DEF PublishedIsWhole, DiskTyped, Published, Disk!Files
  <2>8. ASSUME NEW q \in Atomic PROVE AtomicWriter(q)'
    <3>1. CASE q = f
      <4>1. proc[q].at = "done"
        BY <1>1, <2>1, <3>1, PublishedIsDone
      <4> QED BY <2>4, <4>1 DEF AtomicWriter
    <3>2. CASE q # f
      BY <1>4, <2>4, <3>2 DEF Processes, AtomicWriter, DiskTyped, Disk!Files
    <3> QED BY <3>1, <3>2
  <2>9. ASSUME NEW q \in Writers \ Atomic PROVE OtherWriter(q)'
    BY <1>4, <2>2 DEF Processes, OtherWriter, Moved
  <2>10. ASSUME NEW r \in Readers PROVE Reading(r)'
    <3>1. proc'[r] = proc[r] /\ Reading(r)
      BY <2>2 DEF Moved, Processes
    <3> QED BY <1>4, <2>5, <3>1 DEF Reading
  <2>11. Disk!LeftoversAreExcused'
    BY <1>1, <2>4 DEF Disk!LeftoversAreExcused
  <2> QED BY <2>3, <2>6, <2>7, <2>8, <2>9, <2>10, <2>11 DEF Processes
<1> QED BY <1>3, <1>4 DEF Disk!openForWriteAll

LEMMA ReplaceKeeps ==
  ASSUME DInv, NEW p \in Writers, Disk!replace(p)
  PROVE  DInv'
<1> USE DiskAssumption DEF DInv
<1>1. proc[p].at = "replace" /\ p \in Atomic /\ UNCHANGED <<bytes, spoilt, excused>>
  BY DEF Disk!replace, Disk!At, Processes, OtherWriter
<1>2. proc[p].outcome = "none" /\ bytes[p] = Value[p]
  BY <1>1 DEF Processes, AtomicWriter
<1>3. CASE Disk!Goes(p, "remove") /\ UNCHANGED <<path, temps>>
  <2>1. Moved(p, "remove", proc[p].on, "none")
    BY <1>2, <1>3, Going DEF Places
  <2>2. DiskTyped'
    BY <1>1, <1>3, <2>1 DEF DiskTyped, Moved
  <2>3. PathIsPublished' /\ PublishedIsWhole' /\ Processes'
    BY <1>1, <1>2, <1>3, <2>1, OnlyItself DEF Moved, AtomicWriter
  <2>4. Disk!LeftoversAreExcused'
    BY <1>1, <1>3, <2>1 DEF Moved, Disk!LeftoversAreExcused
  <2> QED BY <2>2, <2>3, <2>4
<1>4. CASE path' = p /\ temps' = temps \ {p} /\ Disk!Ends(p, "returned")
  <2>1. Moved(p, "done", NONE, "returned")
    BY <1>4, Ending DEF Outcomes
  <2>2. DiskTyped'
    BY <1>1, <1>4, <2>1 DEF DiskTyped, Moved, Disk!Files
  <2>3. \A q \in (Writers \cup Readers) \ {p} : proc'[q] = proc[q]
    BY <2>1 DEF Moved
  <2>4. Published' = Published \cup {p}
    BY <1>1, <2>1, <2>3 DEF Moved, Published
  <2>5. PathIsPublished' /\ PublishedIsWhole'
    BY <1>1, <1>2, <1>4, <2>4 DEF PathIsPublished, PublishedIsWhole
  <2>6. ASSUME NEW q \in Atomic PROVE AtomicWriter(q)'
    BY <1>1, <2>1, <2>3 DEF Processes, AtomicWriter, Moved
  <2>7. ASSUME NEW q \in Writers \ Atomic PROVE OtherWriter(q)'
    BY <1>1, <2>3 DEF Processes, OtherWriter
  <2>8. ASSUME NEW r \in Readers PROVE Reading(r)'
    <3>1. proc'[r] = proc[r] /\ Reading(r)
      BY <2>3 DEF Processes
    <3> QED BY <1>1, <2>4, <3>1 DEF Reading
  <2>9. Disk!LeftoversAreExcused'
    BY <1>1, <1>4, <2>3 DEF Disk!LeftoversAreExcused
  <2> QED BY <2>2, <2>5, <2>6, <2>7, <2>8, <2>9 DEF Processes
<1> QED BY <1>3, <1>4 DEF Disk!replace


LEMMA WriteKeeps ==
  ASSUME DInv, NEW p \in Writers, Disk!write(p)
  PROVE  DInv'
<1> USE DiskAssumption DEF DInv
<1> DEFINE f == proc[p].on
           pos == proc[p].pos
<1>1. proc[p].at = "write" /\ UNCHANGED <<path, temps, spoilt, excused>>
  BY DEF Disk!write, Disk!At
<1>2. proc[p] \in Procs
  BY DEF DiskTyped
<1>3. CASE Disk!Threw(p, "catch") /\ UNCHANGED bytes
  <2>1. CASE p \in Atomic
    <3>1. proc[p].outcome = "none"
      BY <1>1, <2>1 DEF Processes, AtomicWriter
    <3>2. Moved(p, "catch", f, "none")
      BY <1>3, <2>1, <3>1, Going DEF Disk!Threw, Places
    <3>3. DiskTyped'
      BY <1>1, <1>3, <3>2 DEF DiskTyped, Moved
    <3>4. PathIsPublished' /\ PublishedIsWhole' /\ Processes'
      BY <1>1, <1>3, <2>1, <3>1, <3>2, OnlyItself DEF Moved, AtomicWriter
    <3>5. Disk!LeftoversAreExcused'
      BY <1>1, <1>3, <3>2 DEF Moved, Disk!LeftoversAreExcused
    <3> QED BY <3>3, <3>4, <3>5
  <2>2. CASE p \notin Atomic
    <3>1. Moved(p, "done", NONE, "threw")
      BY <1>3, <2>2, Ending DEF Disk!Threw, Outcomes
    <3>2. DiskTyped'
      BY <1>1, <1>3, <3>1 DEF DiskTyped, Moved
    <3>3. PathIsPublished' /\ PublishedIsWhole' /\ Processes'
      BY <1>1, <1>3, <2>2, <3>1, OnlyItself DEF Moved, OtherWriter
    <3>4. Disk!LeftoversAreExcused'
      BY <1>1, <2>2, <3>1 DEF Moved, Disk!LeftoversAreExcused
    <3> QED BY <3>2, <3>3, <3>4
  <2> QED BY <2>1, <2>2
<1>4. ASSUME NEW k \in 1 .. Len(Value[p]) - pos,
             bytes' = [bytes EXCEPT ![f] = Disk!S!Written(@, pos, SubSeq(Value[p], pos + 1, pos + k))],
             proc' = [proc EXCEPT ![p].pos = pos + k, ![p].at = IF pos + k = Len(Value[p]) THEN "close" ELSE @]
      PROVE  DInv'
  <2> DEFINE v == Value[p]
             input == SubSeq(v, pos + 1, pos + k)
             at == IF pos + k = Len(v) THEN "close" ELSE "write"
  <2>1. v \in Seq(Byte) /\ Len(v) \in Nat /\ pos \in Nat /\ k \in Nat \ {0} /\ pos + k <= Len(v) /\ pos + k \in Nat
    BY <1>2, <1>4, LenProperties DEF Procs
  <2>2. /\ \A q \in (Writers \cup Readers) \ {p} : proc'[q] = proc[q]
        /\ proc'[p] \in Procs /\ proc' \in [Writers \cup Readers -> Procs]
        /\ proc'[p].at = at /\ proc'[p].on = f /\ proc'[p].pos = pos + k /\ proc'[p].outcome = proc[p].outcome
    <3> DEFINE r == [proc[p] EXCEPT !.at = at, !.pos = pos + k]
    <3>1. r \in Procs /\ r.at = at /\ r.on = f /\ r.pos = pos + k /\ r.outcome = proc[p].outcome
      BY <1>2, <2>1 DEF Procs, Places
    <3>2. proc' = [proc EXCEPT ![p] = r]
      BY <1>1, <1>2, <1>4 DEF Procs
    <3> HIDE DEF r
    <3> QED BY <3>1, <3>2 DEF DiskTyped
  <2> HIDE DEF at
  <2>3. f \in Disk!Files /\ bytes[f] \in Seq(Byte) /\ f \in spoilt \cup {p}
    <3>1. CASE p \in Atomic
      BY <1>1, <3>1 DEF Processes, AtomicWriter, DiskTyped, Disk!Files
    <3>2. CASE p \notin Atomic
      BY <1>1, <3>2 DEF Processes, OtherWriter, DiskTyped
    <3> QED BY <3>1, <3>2
  <2>4. bytes' = [bytes EXCEPT ![f] = S!Written(bytes[f], pos, input)]
    BY <1>4, DiskWritten
  <2>5. input \in Seq(Byte)
    BY <2>1, Slice
  <2>6. S!Written(bytes[f], pos, input) \in Seq(Byte)
    BY <2>1, <2>3, <2>5, WrittenProperties
  <2>7. DiskTyped'
    <3>1. bytes' \in [Disk!Files -> Seq(Byte)]
      BY <2>3, <2>4, <2>6 DEF DiskTyped
    <3> QED BY <1>1, <2>2, <3>1 DEF DiskTyped
  <2>8. Published' = Published
    BY <1>1, <2>2 DEF Published
  <2>9. \A q \in Disk!Files : q # f => bytes'[q] = bytes[q]
    BY <2>4 DEF DiskTyped
  <2>10. p \in Atomic => /\ f = p /\ p \notin Published
                         /\ bytes'[p] = SubSeq(v, 1, pos + k) /\ (pos + k = Len(v) => bytes'[p] = v)
    <3>1. SUFFICES ASSUME p \in Atomic
                   PROVE  /\ f = p /\ p \notin Published
                          /\ bytes'[p] = SubSeq(v, 1, pos + k) /\ (pos + k = Len(v) => bytes'[p] = v)
      OBVIOUS
    <3>2. f = p /\ bytes[p] = SubSeq(v, 1, pos) /\ pos \in 0 .. Len(v) /\ proc[p].outcome = "none"
      BY <1>1, <2>1, <3>1 DEF Processes, AtomicWriter
    <3>3. p \notin Published
      BY <3>1, <3>2, PublishedIsDone
    <3>4. S!Written(SubSeq(v, 1, pos), pos, input) = SubSeq(v, 1, pos + k)
      <4> HIDE DEF v, pos
      <4> QED BY SMTT(30), <1>4, <2>1, <3>2, WrittenOn DEF v, pos
    <3>5. bytes'[p] = SubSeq(v, 1, pos + k)
      BY <2>3, <2>4, <3>2, <3>4 DEF DiskTyped
    <3>6. pos + k = Len(v) => SubSeq(v, 1, pos + k) = v
      BY <2>1, SubSeqFull
    <3> QED BY <3>2, <3>3, <3>5, <3>6
  <2>11. PathIsPublished' /\ PublishedIsWhole'
    <3>1. PathIsPublished'
      BY <1>1, <2>8 DEF PathIsPublished
    <3>2. ASSUME NEW q \in Published \ spoilt PROVE bytes'[q] = Value[q]
      <4>1. q \in Disk!Files
        BY DEF Published, Disk!Files, DiskTyped
      <4>2. q # f
        <5>1. CASE p \in Atomic
          BY <2>10, <5>1
        <5>2. CASE p \notin Atomic
          BY <1>1, <5>2 DEF Processes, OtherWriter
        <5> QED BY <5>1, <5>2
      <4> QED BY <2>9, <4>1, <4>2 DEF PublishedIsWhole
    <3> QED BY <1>1, <2>8, <3>1, <3>2 DEF PublishedIsWhole
  <2>12. ASSUME NEW q \in Atomic PROVE AtomicWriter(q)'
    <3>1. CASE q = p
      <4>1. proc[p].outcome = "none"
        BY <1>1, <3>1 DEF Processes, AtomicWriter
      <4> QED BY <2>1, <2>2, <2>10, <3>1, <4>1 DEF AtomicWriter, at
    <3>2. CASE q # p
      <4>1. proc'[q] = proc[q] /\ AtomicWriter(q) /\ q \in Disk!Files
        BY <2>2, <3>2 DEF Processes, Disk!Files
      <4>2. CASE q = f
        <5>1. q \in Published
          BY <2>3, <3>2, <4>2 DEF PathIsPublished
        <5>2. proc[q].at = "done" /\ proc[q].outcome = "returned"
          BY <5>1, PublishedIsDone
        <5> QED BY <4>1, <5>2 DEF AtomicWriter
      <4>3. CASE q # f
        BY <2>9, <4>1, <4>3 DEF AtomicWriter
      <4> QED BY <4>2, <4>3
    <3> QED BY <3>1, <3>2
  <2>13. ASSUME NEW q \in Writers \ Atomic PROVE OtherWriter(q)'
    BY <1>1, <2>2 DEF Processes, OtherWriter, at
  <2>14. ASSUME NEW r \in Readers PROVE Reading(r)'
    <3>1. proc'[r] = proc[r] /\ Reading(r)
      BY <2>2 DEF Processes
    <3> QED BY <1>1, <2>8, <3>1 DEF Reading
  <2>15. Disk!LeftoversAreExcused'
    BY <1>1, <2>2 DEF Disk!LeftoversAreExcused, at
  <2> QED BY <2>7, <2>11, <2>12, <2>13, <2>14, <2>15 DEF Processes
<1> QED BY <1>3, <1>4 DEF Disk!write


\* A step of a reader concerns its own record only.
LEMMA ReaderKeeps ==
  ASSUME DInv, NEW p \in Readers, UNCHANGED <<path, temps, bytes, spoilt, excused>>,
         NEW r \in Procs, proc' = [proc EXCEPT ![p] = r], Reading(p)'
  PROVE  DInv'
<1> USE DiskAssumption DEF DInv
<1>1. \A q \in (Writers \cup Readers) \ {p} : proc'[q] = proc[q]
  BY DEF DiskTyped
<1>2. DiskTyped'
  BY DEF DiskTyped
<1>3. PathIsPublished' /\ PublishedIsWhole' /\ Processes'
  BY <1>1, OnlyItself
<1>4. Disk!LeftoversAreExcused'
  BY <1>1 DEF Disk!LeftoversAreExcused
<1> QED BY <1>2, <1>3, <1>4

LEMMA PublishedStays ==
  ASSUME DInv, NEW p \in Readers, NEW r, proc' = [proc EXCEPT ![p] = r], UNCHANGED spoilt
  PROVE  Published' = Published
<1>1. \A q \in Atomic : proc'[q] = proc[q]
  BY DiskAssumption DEF DInv, DiskTyped
<1> QED BY <1>1 DEF Published

LEMMA OpenForReadAllKeeps ==
  ASSUME DInv, NEW p \in Readers, Disk!openForReadAll(p)
  PROVE  DInv'
<1> USE DiskAssumption
<1>1. UNCHANGED <<path, temps, bytes, spoilt, excused>>
  BY DEF Disk!openForReadAll, Disk!Stays
<1>2. \E r \in Procs :
        /\ proc' = [proc EXCEPT ![p] = r]
        /\ \/ r.at = "length" /\ r.on = path /\ path # NONE /\ r.pos = 0 /\ r.got = <<>> /\ r.outcome = "none"
           \/ r.at = "done" /\ r.on = NONE /\ r.outcome = "threw"
  <2>1. Disk!Idle \in Procs /\ Disk!Idle.pos = 0 /\ Disk!Idle.got = <<>> /\ Disk!Idle.outcome = "none" /\ Disk!Idle.on = NONE
    BY EmptySeq DEF Disk!Idle, Procs, Places, Outcomes
  <2>2. path \in Disk!Files \cup {NONE}
    BY DEF DInv, DiskTyped
  <2>3. CASE path # NONE /\ proc' = [proc EXCEPT ![p] = [Disk!Idle EXCEPT !.at = "length", !.on = path]]
    <3> DEFINE r == [Disk!Idle EXCEPT !.at = "length", !.on = path]
    <3>1. r \in Procs /\ r.at = "length" /\ r.on = path /\ r.pos = 0 /\ r.got = <<>> /\ r.outcome = "none"
      BY <2>1, <2>2 DEF Procs, Places
    <3> HIDE DEF r
    <3>2. proc' = [proc EXCEPT ![p] = r]
      BY <2>3 DEF r
    <3> QED BY <2>3, <3>1, <3>2
  <2>4. CASE proc' = [proc EXCEPT ![p] = [Disk!Idle EXCEPT !.at = "done", !.outcome = "threw"]]
    <3> DEFINE r == [Disk!Idle EXCEPT !.at = "done", !.outcome = "threw"]
    <3>1. r \in Procs /\ r.at = "done" /\ r.on = NONE /\ r.outcome = "threw"
      BY <2>1 DEF Procs, Places, Outcomes
    <3> HIDE DEF r
    <3>2. proc' = [proc EXCEPT ![p] = r]
      BY <2>4 DEF r
    <3> QED BY <3>1, <3>2
  <2> QED BY <2>3, <2>4 DEF Disk!openForReadAll
<1>3. PICK r \in Procs :
        /\ proc' = [proc EXCEPT ![p] = r]
        /\ \/ r.at = "length" /\ r.on = path /\ path # NONE /\ r.pos = 0 /\ r.got = <<>> /\ r.outcome = "none"
           \/ r.at = "done" /\ r.on = NONE /\ r.outcome = "threw"
  BY <1>2
<1>4. proc'[p] = r
  BY <1>3 DEF DInv, DiskTyped
<1>5. Published' = Published
  BY <1>1, <1>3, PublishedStays
<1>6. r.on \in Published' \cup {NONE}
  BY <1>3, <1>5 DEF DInv, PathIsPublished
<1>7. Reading(p)'
  BY <1>3, <1>4, <1>6 DEF Reading
<1> QED BY <1>1, <1>3, <1>7, ReaderKeeps

\* The call of a reader throws, or its process crashes.
LEMMA ReaderEnds ==
  ASSUME DInv, NEW p \in Readers, NEW outcome \in {"threw", "crashed"}, Disk!Ends(p, outcome),
         UNCHANGED <<path, temps, bytes, spoilt, excused>>
  PROVE  DInv'
<1> USE DiskAssumption
<1>1. proc[p] \in Procs
  BY DEF DInv, DiskTyped
<1> DEFINE r == [proc[p] EXCEPT !.at = "done", !.on = NONE, !.outcome = outcome]
<1>2. r \in Procs /\ r.at = "done" /\ r.on = NONE /\ r.outcome = outcome
  BY <1>1 DEF Procs, Places, Outcomes
<1>3. proc' = [proc EXCEPT ![p] = r]
  BY DEF Disk!Ends
<1> HIDE DEF r
<1>4. proc'[p] = r
  BY <1>3 DEF DInv, DiskTyped
<1>5. Reading(p)'
  BY <1>2, <1>4 DEF Reading
<1> QED BY <1>2, <1>3, <1>5, ReaderKeeps

LEMMA GetLengthKeeps ==
  ASSUME DInv, NEW p \in Readers, Disk!getLength(p)
  PROVE  DInv'
<1> USE DiskAssumption
<1> DEFINE f == proc[p].on
           r == [proc[p] EXCEPT !.at = "read", !.end = Len(bytes[f])]
<1>1. UNCHANGED <<path, temps, bytes, spoilt, excused>> /\ proc[p].at = "length"
  BY DEF Disk!getLength, Disk!Stays, Disk!At
<1>2. CASE Disk!Ends(p, "threw")
  BY <1>1, <1>2, ReaderEnds
<1>3. CASE proc' = [proc EXCEPT ![p].at = "read", ![p].end = Len(bytes[f])]
  <2>1. proc[p] \in Procs /\ Reading(p)
    BY DEF DInv, DiskTyped, Processes
  <2>2. f \in Disk!Files /\ f # NONE /\ bytes[f] \in Seq(Byte) /\ Len(bytes[f]) \in Nat
    <3>1. f \in Disk!Files
      BY <1>1, <2>1 DEF Procs, Reading
    <3> QED BY <3>1, LenProperties DEF DInv, DiskTyped, Disk!Files
  <2>3. /\ r \in Procs /\ r.at = "read" /\ r.on = f /\ r.end = Len(bytes[f])
        /\ r.pos = proc[p].pos /\ r.got = proc[p].got /\ r.outcome = proc[p].outcome
    BY <2>1, <2>2 DEF Procs, Places
  <2>4. proc' = [proc EXCEPT ![p] = r]
    BY <1>3
  <2> HIDE DEF r
  <2>5. proc'[p] = r /\ Published' = Published
    BY <1>1, <2>4, PublishedStays DEF DInv, DiskTyped
  <2>6. f \notin spoilt => bytes[f] = Value[f] /\ SubSeq(Value[f], 1, 0) = <<>>
    <3>1. f \notin spoilt => bytes[f] = Value[f]
      BY <2>1, <2>2 DEF Reading, DInv, PublishedIsWhole
    <3> QED BY <3>1, SubSeqEmpty
  <2>7. f \in Published /\ proc[p].pos = 0 /\ proc[p].got = <<>> /\ proc[p].outcome = "none"
    BY <1>1, <2>1 DEF Reading
  <2>8. Reading(p)'
    <3> DEFINE n == Len(bytes[f])
    <3>1. n \in Nat /\ (f \notin spoilt => n = Len(Value[f]) /\ SubSeq(Value[f], 1, 0) = <<>>)
      BY <2>2, <2>6
    <3>2. /\ proc'[p].at = "read" /\ proc'[p].on = f /\ proc'[p].end = n /\ proc'[p].pos = 0
          /\ proc'[p].got = <<>> /\ proc'[p].outcome = "none"
      BY SMTT(30), <2>3, <2>5, <2>7
    <3> HIDE DEF n, f
    <3> QED BY <1>1, <2>5, <2>7, <2>2, <3>1, <3>2 DEF Reading
  <2> QED BY <1>1, <2>3, <2>4, <2>8, ReaderKeeps
<1> QED BY <1>2, <1>3 DEF Disk!getLength


LEMMA ReadKeeps ==
  ASSUME DInv, NEW p \in Readers, Disk!read(p)
  PROVE  DInv'
<1> USE DiskAssumption
<1> DEFINE f == proc[p].on
           pos == proc[p].pos
           end == proc[p].end
           content == bytes[f]
<1>1. UNCHANGED <<path, temps, bytes, spoilt, excused>> /\ proc[p].at = "read"
  BY DEF Disk!read, Disk!Stays, Disk!At
<1>2. proc[p] \in Procs /\ Reading(p)
  BY DEF DInv, DiskTyped, Processes
<1>3. /\ pos \in Nat /\ end \in Nat /\ f \in Disk!Files /\ f \in Published /\ proc[p].outcome = "none"
      /\ f \notin spoilt => end = Len(Value[f]) /\ pos <= end /\ proc[p].got = SubSeq(Value[f], 1, pos) /\ content = Value[f]
      /\ proc[p].got \in Seq(Byte) /\ content \in Seq(Byte)
  <2>1. f \in Disk!Files /\ f \in Published
    BY <1>1, <1>2 DEF Procs, Reading
  <2> QED BY <1>1, <1>2, <2>1 DEF Procs, Reading, DInv, PublishedIsWhole, DiskTyped
<1>4. CASE Disk!Ends(p, "threw")
  BY <1>1, <1>4, ReaderEnds
<1>5. CASE pos = end /\ Disk!Goes(p, "closeRead")
  <2> DEFINE r == [proc[p] EXCEPT !.at = "closeRead"]
  <2>1. /\ r \in Procs /\ r.at = "closeRead" /\ r.on = f /\ r.end = end
        /\ r.pos = pos /\ r.got = proc[p].got /\ r.outcome = "none"
    BY <1>2, <1>3 DEF Procs, Places
  <2>2. proc' = [proc EXCEPT ![p] = r]
    BY <1>5 DEF Disk!Goes
  <2> HIDE DEF r
  <2>3. proc'[p] = r /\ Published' = Published
    BY <1>1, <2>2, PublishedStays DEF DInv, DiskTyped
  <2> HIDE DEF f, pos, end
  <2>4. Reading(p)'
    <3>1. /\ proc'[p].at = "closeRead" /\ proc'[p].on = f /\ proc'[p].end = end /\ proc'[p].pos = pos
          /\ proc'[p].got = proc[p].got /\ proc'[p].outcome = "none"
      BY <2>1, <2>3
    <3>2. f \in Published' /\ f # NONE /\ pos = end /\ spoilt' = spoilt
      BY <1>1, <1>3, <1>5, <2>3 DEF Disk!Files
    <3> QED BY <1>3, <3>1, <3>2 DEF Reading
  <2> QED BY <1>1, <2>1, <2>2, <2>4, ReaderKeeps
<1>6. ASSUME NEW k \in 1 .. end - pos, pos + k <= Len(content),
             proc' = [proc EXCEPT ![p].pos = pos + k, ![p].got = @ \o SubSeq(content, pos + 1, pos + k)]
      PROVE  DInv'
  <2> DEFINE got == proc[p].got \o SubSeq(content, pos + 1, pos + k)
             r == [proc[p] EXCEPT !.pos = pos + k, !.got = got]
  <2>1. pos + k \in Nat /\ pos + 1 \in Nat \ {0} /\ pos + k <= end
    BY SMTT(30), <1>3, <1>6
  <2>2. SubSeq(content, pos + 1, pos + k) \in Seq(Byte)
    <3> DEFINE m == pos + 1
               n == pos + k
    <3>1. m \in Nat \ {0} /\ n \in Int /\ n <= Len(content)
      BY <1>6, <2>1
    <3> HIDE DEF m, n
    <3>2. SubSeq(content, m, n) \in Seq(Byte)
      BY <1>3, <3>1, Slice
    <3> QED BY <3>2 DEF m, n
  <2>3. got \in Seq(Byte)
    BY <1>3, <2>2, ConcatProperties
  <2>4. f \notin spoilt => got = SubSeq(Value[f], 1, pos + k)
    <3>1. SUFFICES ASSUME f \notin spoilt PROVE got = SubSeq(content, 1, pos + k)
      BY <1>3
    <3>2. Len(content) \in Nat
      BY <1>3, LenProperties
    <3>3. 1 \in 1 .. Len(content) + 1 /\ pos \in 1 - 1 .. Len(content) /\ pos + k \in pos .. Len(content)
      <4> HIDE DEF pos, content
      <4> QED BY <1>3, <1>6, <2>1, <3>2
    <3> DEFINE n == pos + k
    <3> HIDE DEF n
    <3>4. n \in pos .. Len(content)
      BY <3>3 DEF n
    <3> HIDE DEF pos, content
    <3>5. SubSeq(content, 1, pos) \o SubSeq(content, pos + 1, n) = SubSeq(content, 1, n)
      BY <1>3, <3>3, <3>4, ConcatAdjacentSubSeq
    <3>6. proc[p].got = SubSeq(content, 1, pos)
      BY <1>3, <3>1
    <3> QED BY <3>5, <3>6 DEF n
  <2> HIDE DEF got
  <2>5. /\ r \in Procs /\ r.at = "read" /\ r.on = f /\ r.end = end
        /\ r.pos = pos + k /\ r.got = got /\ r.outcome = "none"
    BY <1>1, <1>2, <1>3, <2>1, <2>3 DEF Procs
  <2>6. proc' = [proc EXCEPT ![p] = r]
    BY <1>6 DEF got
  <2> HIDE DEF r
  <2>7. proc'[p] = r /\ Published' = Published
    BY <1>1, <2>6, PublishedStays DEF DInv, DiskTyped
  <2> HIDE DEF f, pos, end
  <2>8. Reading(p)'
    <3>1. /\ proc'[p].at = "read" /\ proc'[p].on = f /\ proc'[p].end = end /\ proc'[p].pos = pos + k
          /\ proc'[p].got = got /\ proc'[p].outcome = "none"
      BY <2>5, <2>7
    <3>2. f \in Published' /\ f # NONE /\ spoilt' = spoilt
      BY <1>1, <1>3, <2>7 DEF Disk!Files
    <3> QED BY <1>3, <2>1, <2>4, <3>1, <3>2 DEF Reading
  <2> QED BY <1>1, <2>5, <2>6, <2>8, ReaderKeeps
<1> QED BY ZenonT(30), <1>4, <1>5, <1>6 DEF Disk!read

LEMMA CloseReadKeeps ==
  ASSUME DInv, NEW p \in Readers, Disk!closeRead(p)
  PROVE  DInv'
<1> USE DiskAssumption
<1> DEFINE f == proc[p].on
<1>1. UNCHANGED <<path, temps, bytes, spoilt, excused>> /\ proc[p].at = "closeRead"
  BY DEF Disk!closeRead, Disk!Stays, Disk!At
<1>2. proc[p] \in Procs /\ Reading(p)
  BY DEF DInv, DiskTyped, Processes
<1>3. PICK outcome \in {"returned", "threw"} : proc' = [proc EXCEPT ![p].at = "done", ![p].outcome = outcome]
  BY DEF Disk!closeRead
<1> DEFINE r == [proc[p] EXCEPT !.at = "done", !.outcome = outcome]
<1>4. r \in Procs /\ r.at = "done" /\ r.on = f /\ r.got = proc[p].got /\ r.outcome = outcome
  BY <1>2 DEF Procs, Places, Outcomes
<1>5. proc' = [proc EXCEPT ![p] = r]
  BY <1>3
<1> HIDE DEF r
<1>6. proc'[p] = r /\ Published' = Published
  BY <1>1, <1>5, PublishedStays DEF DInv, DiskTyped
<1>7. f \in Published /\ f # NONE /\ (f \notin spoilt => proc[p].got = Value[f])
  <2>1. f \in Published /\ f # NONE
    BY <1>1, <1>2 DEF Reading
  <2>2. SUFFICES ASSUME f \notin spoilt PROVE proc[p].got = Value[f]
    BY <2>1
  <2>3. proc[p].got = SubSeq(Value[f], 1, Len(Value[f]))
    BY <1>1, <1>2, <2>2 DEF Reading
  <2>4. Value[f] \in Seq(Byte)
    BY <1>2, <2>1 DEF Procs, Disk!Files
  <2> QED BY <2>3, <2>4, SubSeqFull
<1> HIDE DEF f
<1>8. Reading(p)'
  BY <1>1, <1>4, <1>6, <1>7 DEF Reading
<1> QED BY <1>1, <1>4, <1>5, <1>8, ReaderKeeps

LEMMA CrashKeeps ==
  ASSUME DInv, NEW p \in Writers \cup Readers, Disk!Crash(p)
  PROVE  DInv'
<1> USE DiskAssumption
<1>1. /\ proc[p].at \notin {"begin", "done"} /\ Disk!Ends(p, "crashed")
      /\ excused' = excused \cup (temps \cap {p}) /\ UNCHANGED <<path, temps, bytes, spoilt>>
  BY DEF Disk!Crash
<1>2. CASE p \in Readers
  <2>1. excused' = excused
    BY <1>1, <1>2 DEF DInv, DiskTyped
  <2> QED BY <1>1, <1>2, <2>1, ReaderEnds
<1>3. CASE p \in Writers
  <2>1. Moved(p, "done", NONE, "crashed")
    BY <1>1, Ending DEF DInv, Outcomes
  <2>2. DiskTyped'
    BY <1>1, <2>1 DEF DInv, DiskTyped, Moved
  <2>3. p \in Atomic => proc[p].outcome = "none"
    BY <1>1 DEF DInv, Processes, AtomicWriter
  <2>4. PathIsPublished' /\ PublishedIsWhole' /\ Processes'
    <3>1. p \in Atomic => AtomicWriter(p)'
      BY <2>1 DEF Moved, AtomicWriter
    <3>2. OtherWriter(p)'
      BY <2>1 DEF Moved, OtherWriter
    <3> QED BY <1>1, <1>3, <2>1, <2>3, <3>1, <3>2, OnlyItself DEF Moved
  <2>5. Disk!LeftoversAreExcused'
    BY <1>1, <2>1 DEF DInv, Moved, Disk!LeftoversAreExcused
  <2> QED BY <2>2, <2>4, <2>5 DEF DInv
<1> QED BY <1>2, <1>3

LEMMA RemoveKeeps ==
  ASSUME DInv, Disk!remove
  PROVE  DInv'
BY DiskAssumption DEF DInv, Disk!remove, DiskTyped, PathIsPublished, PublishedIsWhole, Published,
   Processes, AtomicWriter, OtherWriter, Reading, Disk!LeftoversAreExcused

LEMMA DiskNext ==
  ASSUME DInv, [Disk!Next]_diskVars
  PROVE  DInv'
<1>1. CASE Disk!Next
  BY <1>1, CreateTemporaryKeeps, OpenTemporaryKeeps, OpenForWriteAllKeeps, WriteKeeps, CloseKeeps, ReplaceKeeps,
     CatchKeeps, TryRemoveKeeps, OpenForReadAllKeeps, GetLengthKeeps, ReadKeeps, CloseReadKeeps, CrashKeeps,
     RemoveKeeps DEF Disk!Next
<1>2. CASE UNCHANGED diskVars
  BY <1>2 DEF diskVars, DInv, DiskTyped, PathIsPublished, PublishedIsWhole, Published,
     Processes, AtomicWriter, OtherWriter, Reading, Disk!LeftoversAreExcused
<1> QED BY <1>1, <1>2

LEMMA DiskSafe ==
  DInv => FilesAreWhole
<1> SUFFICES ASSUME DInv PROVE FilesAreWhole
  OBVIOUS
<1>1. Disk!PathIsWhole
  BY DiskAssumption DEF DInv, PathIsPublished, PublishedIsWhole, Published, Disk!PathIsWhole
<1>2. Disk!ReadsAreWhole
  BY DEF DInv, Processes, Reading, Disk!ReadsAreWhole
<1> QED BY <1>1, <1>2 DEF DInv, FilesAreWhole

\* Whoever crashes, fails or is overtaken between any two calls of the system:
\* an atomically written path has a whole value of a writer that has returned,
\* who reads it gets a whole value, and a temporary file is only left by a crash
\* or a second failure (File::writeAtomically, readAll).  For any processes and
\* values.
THEOREM FilesStayWhole == MCSpec => []FilesAreWhole
<1>1. MCInit => DInv
  BY DiskInit DEF MCInit
<1>2. DInv /\ [MCNext]_<<part, vars, memoryVars, fileVars, diskVars>> => DInv'
  <2>1. [MCNext]_<<part, vars, memoryVars, fileVars, diskVars>> => [Disk!Next]_diskVars
    BY DEF MCNext
  <2> QED BY <2>1, DiskNext
<1> QED BY <1>1, <1>2, DiskSafe, PTL DEF MCSpec


------------------------------------------------------------------------------
(* More about bytes: writing twice is writing once, and reading twice is     *)
(* reading once.                                                             *)

LEMMA WrittenNothing ==
  ASSUME NEW b, NEW pos
  PROVE  S!Written(b, pos, <<>>) = b
BY DEF S!Written

LEMMA WrittenTwice ==
  ASSUME NEW f \in Seq(Byte), NEW pos \in Nat, NEW a \in Seq(Byte), NEW b \in Seq(Byte)
  PROVE  S!Written(S!Written(f, pos, a), pos + Len(a), b) = S!Written(f, pos, a \o b)
<1> DEFINE w1 == S!Written(f, pos, a)
           to == pos + Len(a)
           w2 == S!Written(w1, to, b)
           c == a \o b
           w == S!Written(f, pos, c)
<1>1. Len(f) \in Nat /\ Len(a) \in Nat /\ Len(b) \in Nat /\ to \in Nat
  BY LenProperties
<1>2. /\ c \in Seq(Byte) /\ Len(c) = Len(a) + Len(b)
      /\ \A i \in 1 .. Len(c) : c[i] = IF i <= Len(a) THEN a[i] ELSE b[i - Len(a)]
  BY ConcatProperties
<1>3. /\ a = <<>> <=> Len(a) = 0
      /\ b = <<>> <=> Len(b) = 0
      /\ c = <<>> <=> Len(c) = 0
  BY <1>2, EmptySeq
<1>10. w1 = S!Written(f, pos, a) /\ w2 = S!Written(w1, to, b) /\ w = S!Written(f, pos, c)
  OBVIOUS
<1> HIDE DEF c, w1, w2, w
<1>4. /\ w1 \in Seq(Byte)
      /\ Len(w1) = IF a # <<>> /\ pos + Len(a) > Len(f) THEN pos + Len(a) ELSE Len(f)
      /\ \A i \in 1 .. Len(w1) :
           w1[i] = IF pos < i /\ i <= pos + Len(a) THEN a[i - pos] ELSE IF i <= Len(f) THEN f[i] ELSE 0
  BY <1>10, WrittenProperties
<1> HIDE DEF to
<1>5. /\ w2 \in Seq(Byte)
      /\ Len(w2) = IF b # <<>> /\ to + Len(b) > Len(w1) THEN to + Len(b) ELSE Len(w1)
      /\ \A i \in 1 .. Len(w2) :
           w2[i] = IF to < i /\ i <= to + Len(b) THEN b[i - to] ELSE IF i <= Len(w1) THEN w1[i] ELSE 0
  BY <1>1, <1>4, <1>10, WrittenProperties
<1>6. /\ w \in Seq(Byte)
      /\ Len(w) = IF c # <<>> /\ pos + Len(c) > Len(f) THEN pos + Len(c) ELSE Len(f)
      /\ \A i \in 1 .. Len(w) :
           w[i] = IF pos < i /\ i <= pos + Len(c) THEN c[i - pos] ELSE IF i <= Len(f) THEN f[i] ELSE 0
  BY <1>2, <1>10, WrittenProperties
<1>7. CASE b = <<>>
  <2>1. c = a
    BY <1>7, ConcatEmptySeq DEF c
  <2> QED BY <1>7, <2>1, WrittenNothing DEF w1, w2, w, c, to
<1>8. CASE a = <<>>
  <2>1. c = b /\ w1 = f /\ to = pos
    BY <1>1, <1>3, <1>8, ConcatEmptySeq, WrittenNothing DEF c, w1, to
  <2> QED BY <2>1 DEF w2, w, to, c, w1
<1>9. CASE a # <<>> /\ b # <<>>
  <2>1. to = pos + Len(a) /\ Len(a) > 0 /\ Len(b) > 0
    BY <1>1, <1>3, <1>9 DEF to
  <2>2. Len(w2) = Len(w)
    BY <1>1, <1>2, <1>3, <1>4, <1>5, <1>6, <1>9, <2>1
  <2>3. ASSUME NEW i \in 1 .. Len(w) PROVE w2[i] = w[i]
    <3>0. i \in 1 .. Len(w2) /\ i \in Nat
      BY <2>2, <1>6, LenProperties
    <3>1. CASE i <= pos
      <4>1. ~(pos < i) /\ ~(to < i)
        BY <1>1, <2>1, <3>0, <3>1
      <4>2. w[i] = IF i <= Len(f) THEN f[i] ELSE 0
        BY <1>6, <4>1
      <4>3. w2[i] = IF i <= Len(w1) THEN w1[i] ELSE 0
        BY <1>5, <3>0, <4>1
      <4>4. Len(w1) \in Nat /\ Len(w1) >= Len(f) /\ (i <= Len(w1) => w1[i] = IF i <= Len(f) THEN f[i] ELSE 0)
        BY <1>1, <1>4, <3>0, <4>1
      <4> QED BY <1>1, <3>0, <4>2, <4>3, <4>4
    <3>2. CASE pos < i /\ i <= to
      <4>1. i - pos \in 1 .. Len(a) /\ i - pos \in 1 .. Len(c)
        BY <1>1, <1>2, <2>1, <3>0, <3>2
      <4>5. i \in 1 .. Len(w1)
        <5>1. Len(w1) = IF to > Len(f) THEN to ELSE Len(f)
          BY <1>4, <1>9, <2>1
        <5> HIDE DEF w1
        <5> QED BY <1>1, <2>1, <3>0, <3>2, <5>1
      <4>2. w2[i] = w1[i]
        <5>1. i <= Len(w1) /\ ~(to < i)
          BY <1>1, <3>2, <4>5
        <5> QED BY <1>5, <3>0, <5>1
      <4>6. w1[i] = a[i - pos]
        BY <1>4, <2>1, <3>2, <4>5
      <4>7. i <= pos + Len(c)
        BY <1>1, <1>2, <2>1, <3>0, <3>2
      <4>3. w[i] = c[i - pos]
        BY <1>6, <3>2, <4>7
      <4>4. c[i - pos] = a[i - pos]
        <5> DEFINE j == i - pos
        <5>1. j \in 1 .. Len(c) /\ j <= Len(a)
          BY <1>1, <4>1
        <5> HIDE DEF j
        <5>2. c[j] = a[j]
          BY <1>2, <5>1
        <5> QED BY <5>2 DEF j
      <4> QED BY <4>2, <4>3, <4>4, <4>6
    <3>3. CASE to < i /\ i <= to + Len(b)
      <4>1. i - pos \in 1 .. Len(c) /\ ~(i - pos <= Len(a)) /\ (i - pos) - Len(a) = i - to
        BY <1>1, <1>2, <2>1, <3>0, <3>3
      <4>2. w2[i] = b[i - to]
        BY <1>5, <3>0, <3>3
      <4>3. w[i] = c[i - pos]
        BY <1>1, <1>2, <1>6, <2>1, <3>0, <3>3
      <4>4. c[i - pos] = b[(i - pos) - Len(a)]
        BY <1>2, <4>1
      <4> QED BY <4>1, <4>2, <4>3, <4>4
    <3>4. CASE i > to + Len(b)
      BY SMTT(30), <1>1, <1>2, <1>3, <1>4, <1>5, <1>6, <1>9, <2>1, <2>2, <3>0, <3>4
    <3> QED BY <1>1, <2>1, <3>0, <3>1, <3>2, <3>3, <3>4
  <2>4. w2 = w
    BY <1>5, <1>6, <2>2, <2>3, SeqEqual
  <2> QED BY <2>4 DEF w2, w, w1, to, c
<1> QED BY <1>7, <1>8, <1>9

\* r is what a read of n bytes at pos gives.
IsRead(r, b, pos, n) ==
  /\ r \in Seq(Byte)
  /\ Len(r) = IF pos + n <= Len(b) THEN n ELSE IF pos <= Len(b) THEN Len(b) - pos ELSE 0
  /\ \A i \in 1 .. Len(r) : r[i] = b[pos + i]

LEMMA BytesAtProperties ==
  ASSUME NEW b \in Seq(Byte), NEW pos \in Nat, NEW n \in Nat
  PROVE  IsRead(S!BytesAt(b, pos, n), b, pos, n)
<1> DEFINE r == S!BytesAt(b, pos, n)
           m == pos + 1
           k == IF pos + n < Len(b) THEN pos + n ELSE Len(b)
<1>1. m \in Nat \ {0} /\ k \in Int /\ k <= Len(b) /\ Len(b) \in Nat
  BY LenProperties
<1>2. r = SubSeq(b, m, k)
  BY DEF S!BytesAt
<1> HIDE DEF m, k, r
<1>3. /\ r \in Seq(Byte)
      /\ Len(r) = IF m <= k THEN k - m + 1 ELSE 0
      /\ \A i \in 1 .. k - m + 1 : r[i] = b[m + i - 1]
  BY <1>1, <1>2, Slice
<1>4. Len(r) = IF pos + n <= Len(b) THEN n ELSE IF pos <= Len(b) THEN Len(b) - pos ELSE 0
  BY <1>1, <1>3 DEF m, k
<1>5. ASSUME NEW i \in 1 .. Len(r) PROVE r[i] = b[pos + i]
  <2>1. i \in 1 .. k - m + 1 /\ m + i - 1 = pos + i
    BY <1>1, <1>3 DEF m
  <2>2. r[i] = b[m + i - 1]
    BY <1>3, <2>1
  <2> QED BY <2>1, <2>2
<1> QED BY <1>3, <1>4, <1>5 DEF r, IsRead

\* A second read goes on where the first, which has got all it asked for, ended.
LEMMA BytesAtTwice ==
  ASSUME NEW b \in Seq(Byte), NEW pos \in Nat, NEW m \in Nat, NEW n \in Nat,
         Len(S!BytesAt(b, pos, m)) = m
  PROVE  S!BytesAt(b, pos, m) \o S!BytesAt(b, pos + m, n) = S!BytesAt(b, pos, m + n)
<1> DEFINE to == pos + m
           k == m + n
           p == S!BytesAt(b, pos, m)
           q == S!BytesAt(b, to, n)
           r == S!BytesAt(b, pos, k)
<1>1. to \in Nat /\ k \in Nat /\ Len(b) \in Nat /\ to = pos + m /\ k = m + n
  BY LenProperties
<1>2. IsRead(p, b, pos, m) /\ IsRead(q, b, to, n) /\ IsRead(r, b, pos, k)
  <2> HIDE DEF to, k
  <2> QED BY <1>1, BytesAtProperties
<1>3. Len(p) = m
  OBVIOUS
<1> HIDE DEF to, k, p, q, r
<1>4. p \in Seq(Byte) /\ q \in Seq(Byte) /\ r \in Seq(Byte) /\ Len(q) \in Nat
  BY <1>2, LenProperties DEF IsRead
<1>5. /\ p \o q \in Seq(Byte) /\ Len(p \o q) = Len(p) + Len(q)
      /\ \A i \in 1 .. Len(p) + Len(q) : (p \o q)[i] = IF i <= Len(p) THEN p[i] ELSE q[i - Len(p)]
  BY <1>4, ConcatProperties
<1>6. /\ p \o q \in Seq(Byte) /\ Len(p \o q) = m + Len(q)
      /\ \A i \in 1 .. m + Len(q) : (p \o q)[i] = IF i <= m THEN p[i] ELSE q[i - m]
  BY <1>3, <1>5
<1>7. Len(p \o q) = Len(r)
  BY <1>1, <1>2, <1>3, <1>6 DEF IsRead
<1>8. ASSUME NEW i \in 1 .. Len(p \o q) PROVE (p \o q)[i] = r[i]
  <2>1. i \in 1 .. m + Len(q) /\ i \in 1 .. Len(r) /\ Len(q) \in Nat /\ r[i] = b[pos + i]
    BY <1>2, <1>4, <1>6, <1>7 DEF IsRead
  <2>2. CASE i <= m
    BY <1>2, <1>3, <1>6, <2>1, <2>2 DEF IsRead
  <2>3. CASE i > m
    <3>1. i - m \in 1 .. Len(q) /\ to + (i - m) = pos + i
      BY <1>1, <2>1, <2>3
    <3>2. q[i - m] = b[to + (i - m)]
      BY <1>2, <3>1 DEF IsRead
    <3> QED BY <1>6, <2>1, <2>3, <3>1, <3>2
  <2> QED BY <2>2, <2>3
<1>9. p \o q = r
  BY <1>4, <1>6, <1>7, <1>8, SeqEqual
<1> QED BY <1>9 DEF p, q, r, to, k

\* A part of what was read at pos is what a read of that part gives.
LEMMA BytesAtPart ==
  ASSUME NEW b \in Seq(Byte), NEW pos \in Nat, NEW a \in Seq(Byte), a = S!BytesAt(b, pos, Len(a)),
         NEW i \in 0 .. Len(a), NEW j \in i .. Len(a)
  PROVE  /\ SubSeq(a, i + 1, j) = S!BytesAt(b, pos + i, j - i)
         /\ SubSeq(a, i + 1, j) \in Seq(Byte)
         /\ Len(SubSeq(a, i + 1, j)) = j - i
<1> DEFINE from == pos + i
           n == j - i
           m == i + 1
           p == SubSeq(a, m, j)
           r == S!BytesAt(b, from, n)
<1>1. /\ Len(a) \in Nat /\ Len(b) \in Nat /\ i \in Nat /\ j \in Nat /\ i <= j /\ j <= Len(a)
      /\ from \in Nat /\ n \in Nat /\ m \in Nat \ {0}
      /\ from = pos + i /\ n = j - i /\ m = i + 1
  BY LenProperties
<1>2. /\ Len(a) = IF pos + Len(a) <= Len(b) THEN Len(a) ELSE IF pos <= Len(b) THEN Len(b) - pos ELSE 0
      /\ \A k \in 1 .. Len(a) : a[k] = b[pos + k]
  <2>1. IsRead(a, b, pos, Len(a))
    BY <1>1, BytesAtProperties
  <2> QED BY <2>1 DEF IsRead
<1> HIDE DEF from, n, m
<1>3. p \in Seq(Byte) /\ Len(p) = (IF m <= j THEN j - m + 1 ELSE 0) /\ \A k \in 1 .. j - m + 1 : p[k] = a[m + k - 1]
  BY <1>1, Slice
<1>4. /\ r \in Seq(Byte)
      /\ Len(r) = IF from + n <= Len(b) THEN n ELSE IF from <= Len(b) THEN Len(b) - from ELSE 0
      /\ \A k \in 1 .. Len(r) : r[k] = b[from + k]
  <2>1. IsRead(r, b, from, n)
    BY <1>1, BytesAtProperties
  <2> HIDE DEF r
  <2> QED BY <2>1 DEF IsRead
<1> HIDE DEF p, r
<1>5. Len(p) = n
  BY <1>1, <1>3
<1>6. Len(r) = n
  BY <1>1, <1>2, <1>4
<1>7. ASSUME NEW k \in 1 .. Len(p) PROVE p[k] = r[k]
  <2>1. k \in 1 .. j - m + 1 /\ m + k - 1 \in 1 .. Len(a) /\ pos + (m + k - 1) = from + k
    BY <1>1, <1>5
  <2>2. p[k] = a[m + k - 1]
    BY <1>3, <2>1
  <2>3. a[m + k - 1] = b[pos + (m + k - 1)]
    BY <1>2, <2>1
  <2>4. r[k] = b[from + k]
    BY <1>4, <1>5, <1>6
  <2> QED BY <2>1, <2>2, <2>3, <2>4
<1>8. p = r
  BY <1>3, <1>4, <1>5, <1>6, <1>7, SeqEqual
<1> QED BY <1>3, <1>5, <1>8 DEF p, r, from, n, m


------------------------------------------------------------------------------
(* The buffered stream.  A sound state holds either bytes that the stream    *)
(* below has just before its position or bytes to write there; its content   *)
(* and its position are those of the stream that callers see.                *)

States ==
  [file : Seq(Byte), pos : Nat, pending : Seq(Byte), ahead : Seq(Byte), read_pos : Nat, size : BufferSizes]

Sound(s) ==
  /\ s \in States
  /\ s.read_pos <= Len(s.ahead) /\ Len(s.ahead) <= s.size /\ Len(s.pending) <= s.size
  /\ s.pending = <<>> \/ s.ahead = <<>>
  /\ Len(s.ahead) <= s.pos /\ s.ahead = S!BytesAt(s.file, s.pos - Len(s.ahead), Len(s.ahead))
  /\ s.pos + Len(s.pending) <= MaxLength /\ Len(s.file) <= MaxLength

Content(s) == S!Written(s.file, s.pos, s.pending)

\* Neither bytes to write nor bytes read.
Empty(s) == s.pending = <<>> /\ s.ahead = <<>> /\ s.read_pos = 0

\* A sound state that callers cannot tell from s, over the same buffer.
Keeps(s, t) == Sound(t) /\ Content(t) = Content(s) /\ Tell(t) = Tell(s) /\ t.size = s.size

LEMMA SoundFacts ==
  ASSUME NEW s, Sound(s)
  PROVE  /\ s.file \in Seq(Byte) /\ s.pending \in Seq(Byte) /\ s.ahead \in Seq(Byte)
         /\ s.pos \in Nat /\ s.read_pos \in Nat /\ s.size \in Nat \ {0} /\ s.size \in BufferSizes
         /\ Len(s.file) \in Nat /\ Len(s.pending) \in Nat /\ Len(s.ahead) \in Nat
         /\ Tell(s) \in 0 .. MaxLength /\ Content(s) \in Seq(Byte)
         /\ s.pending = <<>> <=> Len(s.pending) = 0
         /\ s.ahead = <<>> <=> Len(s.ahead) = 0
         /\ s.pending = <<>> => Content(s) = s.file
         /\ s.ahead = <<>> => s.read_pos = 0
<1> USE BufferedStreamAssumption
<1>1. /\ s.file \in Seq(Byte) /\ s.pending \in Seq(Byte) /\ s.ahead \in Seq(Byte)
      /\ s.pos \in Nat /\ s.read_pos \in Nat /\ s.size \in Nat \ {0} /\ s.size \in BufferSizes
  BY DEF Sound, States
<1>2. /\ Len(s.file) \in Nat /\ Len(s.pending) \in Nat /\ Len(s.ahead) \in Nat
      /\ s.pending = <<>> <=> Len(s.pending) = 0
      /\ s.ahead = <<>> <=> Len(s.ahead) = 0
  BY <1>1, LenProperties, EmptySeq
<1>3. Tell(s) \in 0 .. MaxLength
  <2>1. MaxLength \in Nat /\ s.read_pos <= Len(s.ahead) /\ Len(s.ahead) <= s.pos /\ s.pos + Len(s.pending) <= MaxLength
    BY DEF Sound
  <2>2. ASSUME NEW p \in Nat, NEW r \in Nat, NEW a \in Nat, NEW n \in Nat, r <= a, a <= p, p + n <= MaxLength
        PROVE  p + r - a + n \in 0 .. MaxLength
    BY <2>1, <2>2
  <2> QED BY <1>1, <1>2, <2>1, <2>2 DEF Tell
<1>4. Content(s) \in Seq(Byte)
  BY <1>1, WrittenProperties DEF Content
<1>5. s.pending = <<>> => Content(s) = s.file
  BY WrittenNothing DEF Content
<1> QED BY <1>1, <1>2, <1>3, <1>4, <1>5 DEF Sound

\* A state with an empty buffer is sound wherever it is.
LEMMA EmptyIsSound ==
  ASSUME NEW t \in States, Empty(t), t.pos <= MaxLength, Len(t.file) <= MaxLength
  PROVE  Sound(t) /\ Content(t) = t.file /\ Tell(t) = t.pos
<1> USE BufferedStreamAssumption DEF Empty
<1>1. Len(t.ahead) = 0 /\ Len(t.pending) = 0 /\ t.pos \in Nat /\ t.size \in Nat /\ t.file \in Seq(Byte)
  BY EmptySeq DEF States
<1>2. S!BytesAt(t.file, t.pos - 0, 0) = <<>>
  <2>1. t.pos - 0 = t.pos
    BY <1>1
  <2>2. IsRead(S!BytesAt(t.file, t.pos, 0), t.file, t.pos, 0)
    BY <1>1, BytesAtProperties
  <2> DEFINE r == S!BytesAt(t.file, t.pos, 0)
  <2>3. r \in Seq(Byte) /\ Len(r) = 0
    <3> HIDE DEF r
    <3>1. Len(t.file) \in Nat
      BY <1>1, LenProperties
    <3>2. IsRead(r, t.file, t.pos, 0)
      BY <2>2 DEF r
    <3> QED BY <1>1, <3>1, <3>2 DEF IsRead
  <2> QED BY <2>1, <2>3, EmptySeq
<1>3. Sound(t)
  BY <1>1, <1>2 DEF Sound
<1>4. Content(t) = t.file
  BY WrittenNothing DEF Content
<1>5. Tell(t) = t.pos
  BY <1>1 DEF Tell
<1> QED BY <1>3, <1>4, <1>5

\* The stream below takes input where it is.
LEMMA BelowWrites ==
  ASSUME NEW s, Sound(s), s.ahead = <<>>, NEW input \in Seq(Byte), s.pos + Len(input) <= MaxLength,
         NEW t, t = Below(s, input)
  PROVE  /\ t \in States /\ Len(t.file) <= MaxLength
         /\ t.file = S!Written(s.file, s.pos, input) /\ t.pos = s.pos + Len(input)
         /\ t.pending = s.pending /\ t.ahead = <<>> /\ t.read_pos = 0 /\ t.size = s.size
<1> DEFINE w == S!Written(s.file, s.pos, input)
           to == s.pos + Len(input)
<1>1. w \in Seq(Byte) /\ Len(w) = IF input # <<>> /\ to > Len(s.file) THEN to ELSE Len(s.file)
  BY SoundFacts, WrittenProperties
<1>2. to \in Nat /\ Len(w) <= MaxLength
  <2>1. to \in Nat /\ to <= MaxLength /\ Len(s.file) <= MaxLength
    BY SoundFacts, LenProperties DEF Sound
  <2> HIDE DEF to, w
  <2> QED BY <1>1, <2>1
<1> HIDE DEF w, to
<1>3. t = [s EXCEPT !.file = w, !.pos = to]
  BY DEF Below, w, to
<1>4. s \in States /\ s.read_pos = 0
  BY SoundFacts DEF Sound
<1>5. t \in States /\ t.file = w /\ t.pos = to /\ t.pending = s.pending /\ t.ahead = s.ahead /\ t.read_pos = 0 /\ t.size = s.size
  BY <1>1, <1>2, <1>3, <1>4 DEF States
<1> QED BY <1>2, <1>5 DEF w, to

LEMMA FlushKeeps ==
  ASSUME NEW s, Sound(s), s.ahead = <<>>
  PROVE  Keeps(s, flushWriteBuffer(s)) /\ Empty(flushWriteBuffer(s))
<1> DEFINE b == Below(s, s.pending)
           t == flushWriteBuffer(s)
<1>1. /\ b \in States /\ Len(b.file) <= MaxLength
      /\ b.file = Content(s) /\ b.pos = s.pos + Len(s.pending)
      /\ b.ahead = <<>> /\ b.read_pos = 0 /\ b.size = s.size
  BY SoundFacts, BelowWrites DEF Sound, Content
<1> HIDE DEF b
<1>2. t = [b EXCEPT !.pending = <<>>]
  BY DEF flushWriteBuffer, b
<1> HIDE DEF t
<1>3. /\ t \in States /\ Empty(t) /\ t.file = Content(s) /\ t.pos = s.pos + Len(s.pending) /\ t.size = s.size
      /\ Len(t.file) <= MaxLength
  BY <1>1, <1>2, EmptySeq DEF States, Empty
<1>4. Tell(s) = s.pos + Len(s.pending) /\ t.pos <= MaxLength
  BY <1>3, SoundFacts DEF Tell, Sound
<1> QED BY <1>3, <1>4, EmptyIsSound DEF Keeps, t

\* What was read is given up.
LEMMA Discards ==
  ASSUME NEW s, Sound(s), s.pending = <<>>
  PROVE  /\ Sound(Discard(s)) /\ Empty(Discard(s)) /\ Content(Discard(s)) = Content(s)
         /\ Tell(Discard(s)) = s.pos /\ Discard(s).size = s.size /\ Discard(s).pos = s.pos /\ Discard(s).file = s.file
<1> DEFINE t == Discard(s)
<1>1. /\ t \in States /\ Empty(t) /\ t.file = s.file /\ t.pos = s.pos /\ t.size = s.size
      /\ t.pos <= MaxLength /\ Len(t.file) <= MaxLength
  <2>1. s \in States /\ s.pos <= MaxLength /\ Len(s.file) <= MaxLength
    BY SoundFacts DEF Sound
  <2> QED BY <2>1, EmptySeq DEF Discard, States, Empty
<1> HIDE DEF t
<1>2. Content(s) = s.file
  BY SoundFacts
<1> QED BY <1>1, <1>2, EmptyIsSound DEF t

\* ... and the stream below goes back to where the caller is.
LEMMA FlushReadKeeps ==
  ASSUME NEW s, Sound(s), s.pending = <<>>
  PROVE  Keeps(s, flushReadBuffer(s)) /\ Empty(flushReadBuffer(s))
<1> DEFINE d == Discard(s)
           t == flushReadBuffer(s)
           to == s.pos + s.read_pos - Len(s.ahead)
<1>1. d \in States /\ Empty(d) /\ d.file = s.file /\ d.size = s.size /\ Len(d.file) <= MaxLength /\ Content(s) = s.file
  BY Discards, SoundFacts DEF Sound
<1>2. to \in Nat /\ to <= MaxLength /\ Tell(s) = to
  BY SoundFacts, EmptySeq DEF Sound, Tell
<1> HIDE DEF d, to
<1>3. t = [d EXCEPT !.pos = to]
  BY DEF flushReadBuffer, d, to
<1> HIDE DEF t
<1>4. t \in States /\ Empty(t) /\ t.file = s.file /\ t.pos = to /\ t.size = s.size /\ Len(t.file) <= MaxLength
  BY <1>1, <1>2, <1>3 DEF States, Empty
<1> QED BY <1>1, <1>2, <1>4, EmptyIsSound DEF Keeps, t


LEMMA StartKeeps ==
  ASSUME NEW s, Sound(s)
  PROVE  Keeps(s, Start(s)) /\ Start(s).ahead = <<>> /\ (s.pending = <<>> => Empty(Start(s)))
<1>1. CASE hasPendingWrite(s)
  <2>1. Start(s) = s /\ s.ahead = <<>> /\ s.pending # <<>>
    BY <1>1 DEF Start, hasPendingWrite, Sound
  <2> QED BY <2>1 DEF Keeps
<1>2. CASE ~hasPendingWrite(s) /\ hasPendingRead(s)
  <2>1. Start(s) = flushReadBuffer(s) /\ s.pending = <<>>
    BY <1>2 DEF Start, clearReadBufferBeforeWrite, hasPendingWrite
  <2> QED BY <2>1, FlushReadKeeps DEF Empty
<1>3. CASE ~hasPendingWrite(s) /\ ~hasPendingRead(s)
  <2>1. Start(s) = Discard(s) /\ s.pending = <<>>
    BY <1>3 DEF Start, clearReadBufferBeforeWrite, hasPendingWrite
  <2>2. Tell(s) = s.pos
    BY <1>3, <2>1, SoundFacts, EmptySeq DEF hasPendingRead, Sound, Tell
  <2> QED BY <2>1, <2>2, Discards DEF Keeps, Empty
<1> QED BY <1>1, <1>2, <1>3

LEMMA FlushedKeeps ==
  ASSUME NEW s, Sound(s)
  PROVE  Keeps(s, Flushed(s)) /\ Flushed(s).pending = <<>> /\ (s.pending = <<>> => Flushed(s) = s)
<1>1. CASE hasPendingWrite(s)
  <2>1. Flushed(s) = flushWriteBuffer(s) /\ s.ahead = <<>> /\ s.pending # <<>>
    BY <1>1 DEF Flushed, hasPendingWrite, Sound
  <2> QED BY <2>1, FlushKeeps DEF Empty
<1>2. CASE ~hasPendingWrite(s)
  <2>1. Flushed(s) = s /\ s.pending = <<>>
    BY <1>2 DEF Flushed, hasPendingWrite
  <2> QED BY <2>1 DEF Keeps
<1> QED BY <1>1, <1>2

LEMMA FlushBuffersKeeps ==
  ASSUME NEW s, Sound(s)
  PROVE  Keeps(s, flushBuffers(s)) /\ flushBuffers(s).pending = <<>> /\ (~Spent(s) => Empty(flushBuffers(s)))
<1>1. CASE hasPendingWrite(s)
  <2>1. flushBuffers(s) = flushWriteBuffer(s) /\ s.ahead = <<>>
    BY <1>1 DEF flushBuffers, hasPendingWrite, Sound
  <2> QED BY <2>1, FlushKeeps DEF Empty
<1>2. CASE ~hasPendingWrite(s) /\ hasPendingRead(s)
  <2>1. flushBuffers(s) = flushReadBuffer(s) /\ s.pending = <<>>
    BY <1>2 DEF flushBuffers, hasPendingWrite
  <2> QED BY <2>1, FlushReadKeeps DEF Empty
<1>3. CASE ~hasPendingWrite(s) /\ ~hasPendingRead(s)
  <2>1. flushBuffers(s) = s /\ s.pending = <<>>
    BY <1>3 DEF flushBuffers, hasPendingWrite
  <2>2. ~Spent(s) => s.ahead = <<>>
    BY <1>3 DEF Spent
  <2> QED BY <2>1, <2>2, SoundFacts DEF Keeps, Empty
<1> QED BY <1>1, <1>2, <1>3

LEMMA BelowAdvances ==
  ASSUME NEW s, Sound(s), Empty(s), NEW input \in Seq(Byte), Tell(s) + Len(input) <= MaxLength
  PROVE  LET t == Below(s, input)
         IN Sound(t) /\ Content(t) = S!Written(Content(s), Tell(s), input) /\ Tell(t) = Tell(s) + Len(input)
<1> DEFINE t == Below(s, input)
<1>1. s.file = Content(s) /\ Tell(s) = s.pos
  BY SoundFacts, EmptySeq DEF Empty, Tell
<1>2. /\ t \in States /\ Len(t.file) <= MaxLength
      /\ t.file = S!Written(s.file, s.pos, input) /\ t.pos = s.pos + Len(input)
      /\ t.pending = s.pending /\ t.ahead = <<>> /\ t.read_pos = 0 /\ t.size = s.size
  BY <1>1, BelowWrites DEF Empty
<1> HIDE DEF t
<1>3. Empty(t) /\ t.pos <= MaxLength
  BY <1>1, <1>2 DEF Empty
<1> QED BY <1>1, <1>2, <1>3, EmptyIsSound DEF t

LEMMA ReadIsOne ==
  ASSUME NEW r, NEW q, NEW b, NEW pos, NEW n, IsRead(r, b, pos, n), IsRead(q, b, pos, n)
  PROVE  r = q
BY SeqEqual DEF IsRead

LEMMA BytesAtLength ==
  ASSUME NEW b \in Seq(Byte), NEW pos \in Nat, NEW n \in Nat, NEW r, r = S!BytesAt(b, pos, n)
  PROVE  r \in Seq(Byte) /\ Len(r) \in 0 .. n /\ r = S!BytesAt(b, pos, Len(r)) /\ (r # <<>> => pos + Len(r) <= Len(b))
<1>1. IsRead(r, b, pos, n)
  BY BytesAtProperties
<1>2. r \in Seq(Byte) /\ Len(r) \in Nat /\ Len(b) \in Nat /\ (r = <<>> <=> Len(r) = 0)
  BY <1>1, LenProperties, EmptySeq DEF IsRead
<1>3. Len(r) <= n /\ (r # <<>> => pos + Len(r) <= Len(b))
  BY <1>1, <1>2 DEF IsRead
<1>4. IsRead(r, b, pos, Len(r))
  BY <1>1, <1>2 DEF IsRead
<1>5. IsRead(S!BytesAt(b, pos, Len(r)), b, pos, Len(r))
  BY <1>2, BytesAtProperties
<1>6. r = S!BytesAt(b, pos, Len(r))
  BY <1>4, <1>5, ReadIsOne
<1> QED BY <1>2, <1>3, <1>6

\* What the buffer gives to a read of n bytes are the next bytes of the stream.
LEMMA ConsumedAdvances ==
  ASSUME NEW s, Sound(s), NEW n \in Nat, NEW r, r = FromBuffer(s, n), NEW t, t = Consumed(s, n)
  PROVE  /\ Sound(t) /\ Content(t) = Content(s) /\ Tell(t) = Tell(s) + Len(r)
         /\ r \in Seq(Byte) /\ Len(r) \in 0 .. n /\ r = S!BytesAt(Content(s), Tell(s), Len(r))
         /\ Len(r) < n => t.read_pos = Len(t.ahead)
         /\ t.size = s.size /\ t.pending = s.pending /\ t.ahead = s.ahead /\ t.pos = s.pos /\ t.file = s.file
<1> DEFINE j == Least(s.read_pos + n, Len(s.ahead))
           from == s.pos - Len(s.ahead)
<1>1. /\ s.ahead \in Seq(Byte) /\ s.file \in Seq(Byte) /\ Len(s.ahead) \in Nat /\ s.read_pos \in Nat /\ s.pos \in Nat
      /\ Len(s.pending) \in Nat /\ (s.pending = <<>> <=> Len(s.pending) = 0) /\ (s.ahead = <<>> <=> Len(s.ahead) = 0)
      /\ s.read_pos <= Len(s.ahead) /\ Len(s.ahead) <= s.pos /\ s \in States
  BY SoundFacts DEF Sound
<1>2. /\ j \in s.read_pos .. Len(s.ahead) /\ from \in Nat /\ j \in Nat
      /\ j - s.read_pos \in 0 .. n /\ (j - s.read_pos < n => j = Len(s.ahead))
  BY <1>1 DEF Least
<1>3. t = [s EXCEPT !.read_pos = j] /\ r = SubSeq(s.ahead, s.read_pos + 1, j)
  BY DEF Consumed, FromBuffer
<1>4. s.ahead = S!BytesAt(s.file, from, Len(s.ahead))
  BY DEF Sound
<1> HIDE DEF j, from
<1>5. /\ r = S!BytesAt(s.file, from + s.read_pos, j - s.read_pos) /\ r \in Seq(Byte) /\ Len(r) = j - s.read_pos
  <2> DEFINE a == s.ahead
             i == s.read_pos
             f == s.file
  <2>1. /\ a \in Seq(Byte) /\ f \in Seq(Byte) /\ i \in 0 .. Len(a) /\ j \in i .. Len(a) /\ from \in Nat
        /\ a = S!BytesAt(f, from, Len(a)) /\ r = SubSeq(a, i + 1, j)
    BY <1>1, <1>2, <1>3, <1>4
  <2> HIDE DEF a, i, f
  <2>2. /\ SubSeq(a, i + 1, j) = S!BytesAt(f, from + i, j - i)
        /\ SubSeq(a, i + 1, j) \in Seq(Byte)
        /\ Len(SubSeq(a, i + 1, j)) = j - i
    BY <2>1, BytesAtPart
  <2> QED BY <2>1, <2>2 DEF a, i, f
<1>6. /\ t \in States /\ t.read_pos = j
      /\ t.size = s.size /\ t.pending = s.pending /\ t.ahead = s.ahead /\ t.pos = s.pos /\ t.file = s.file
  BY <1>1, <1>2, <1>3 DEF States
<1>7. Sound(t) /\ Content(t) = Content(s)
  BY <1>2, <1>6 DEF Sound, Content
<1>8. Tell(t) = Tell(s) + Len(r)
  <2> DEFINE p == s.pos
             i == s.read_pos
             a == Len(s.ahead)
             m == Len(s.pending)
  <2>1. p \in Nat /\ i \in Nat /\ a \in Nat /\ m \in Nat /\ j \in Nat
    BY <1>1, <1>2
  <2>2. Tell(t) = p + j - a + m /\ Tell(s) = p + i - a + m /\ Len(r) = j - i
    BY <1>5, <1>6 DEF Tell
  <2> HIDE DEF p, i, a, m
  <2> QED BY <2>1, <2>2
<1>9. r = S!BytesAt(Content(s), Tell(s), Len(r))
  <2>1. CASE s.pending = <<>>
    <3>1. Content(s) = s.file
      BY <2>1, SoundFacts
    <3>2. Tell(s) = from + s.read_pos
      BY <1>1, <2>1 DEF Tell, from
    <3> QED BY <1>5, <3>1, <3>2
  <2>2. CASE s.pending # <<>>
    <3>1. s.ahead = <<>>
      BY <2>2 DEF Sound
    <3>2. Len(r) = 0 /\ r = <<>>
      BY <1>1, <1>2, <1>5, <3>1, EmptySeq
    <3>3. Content(s) \in Seq(Byte) /\ Tell(s) \in Nat
      BY SoundFacts
    <3> DEFINE q == S!BytesAt(Content(s), Tell(s), 0)
    <3>4. q \in Seq(Byte) /\ Len(q) \in 0 .. 0
      <4> HIDE DEF q
      <4>1. q = S!BytesAt(Content(s), Tell(s), 0)
        BY DEF q
      <4> QED BY <3>3, <4>1, BytesAtLength
    <3>5. q = <<>>
      BY <3>4, EmptySeq
    <3> QED BY <3>2, <3>5
  <2> QED BY <2>1, <2>2
<1> QED BY <1>2, <1>5, <1>6, <1>7, <1>8, <1>9

\* The buffer is filled with the next bytes of the stream.
LEMMA FillKeeps ==
  ASSUME NEW s, Sound(s), s.pending = <<>>, s.read_pos = Len(s.ahead)
  PROVE  Keeps(s, Fill(s)) /\ Fill(s).ahead = S!BytesAt(Content(s), Tell(s), s.size) /\ Fill(s).read_pos = 0
<1> DEFINE a == S!BytesAt(s.file, s.pos, s.size)
           to == s.pos + Len(a)
           t == Fill(s)
<1>0. a = S!BytesAt(s.file, s.pos, s.size) /\ to = s.pos + Len(a)
  OBVIOUS
<1>1. /\ s \in States /\ s.file \in Seq(Byte) /\ s.pos \in Nat /\ s.size \in Nat /\ Len(s.ahead) \in Nat
      /\ Len(s.pending) = 0 /\ s.pos <= MaxLength /\ Len(s.file) <= MaxLength /\ Content(s) = s.file /\ Len(s.file) \in Nat
  BY SoundFacts DEF Sound
<1>2. t = [s EXCEPT !.ahead = a, !.read_pos = 0, !.pos = to]
  BY DEF Fill
<1> HIDE DEF a, to, t
<1>3. a \in Seq(Byte) /\ Len(a) \in 0 .. s.size /\ a = S!BytesAt(s.file, s.pos, Len(a)) /\ (a # <<>> => s.pos + Len(a) <= Len(s.file))
  BY <1>0, <1>1, BytesAtLength
<1>4. a = <<>> <=> Len(a) = 0
  BY <1>3, EmptySeq
<1>5. to \in Nat /\ to <= MaxLength /\ Len(a) <= to /\ to - Len(a) = s.pos
  BY <1>0, <1>1, <1>3, <1>4, BufferedStreamAssumption
<1>6. /\ t \in States /\ t.ahead = a /\ t.read_pos = 0 /\ t.pos = to
      /\ t.file = s.file /\ t.pending = <<>> /\ t.size = s.size
  BY <1>1, <1>2, <1>3, <1>5 DEF States
<1>7. Sound(t)
  BY <1>1, <1>3, <1>5, <1>6 DEF Sound
<1>8. Content(t) = Content(s)
  BY <1>1, <1>6, <1>7, SoundFacts
<1>9. Tell(s) = s.pos /\ Tell(t) = s.pos
  BY <1>0, <1>1, <1>3, <1>6 DEF Tell
<1> QED BY <1>0, <1>1, <1>6, <1>7, <1>8, <1>9 DEF Keeps, t

\* Bytes for which there is room in the buffer.
LEMMA PendingAdvances ==
  ASSUME NEW s, Sound(s), s.ahead = <<>>, NEW x \in Seq(Byte), Len(s.pending) + Len(x) <= s.size,
         Tell(s) + Len(x) <= MaxLength, NEW t, t = [s EXCEPT !.pending = @ \o x]
  PROVE  /\ Sound(t) /\ t.ahead = <<>> /\ t.size = s.size /\ Len(t.pending) = Len(s.pending) + Len(x)
         /\ Content(t) = S!Written(Content(s), Tell(s), x) /\ Tell(t) = Tell(s) + Len(x)
<1> DEFINE y == s.pending \o x
<1>1. /\ s \in States /\ s.pending \in Seq(Byte) /\ Len(s.pending) \in Nat /\ s.pos \in Nat /\ s.read_pos = 0
      /\ s.file \in Seq(Byte) /\ Len(s.ahead) = 0 /\ Len(s.file) <= MaxLength
      /\ s.ahead = S!BytesAt(s.file, s.pos - Len(s.ahead), Len(s.ahead)) /\ s.size \in Nat
  BY SoundFacts DEF Sound
<1>2. y \in Seq(Byte) /\ Len(y) = Len(s.pending) + Len(x)
  BY <1>1, ConcatProperties
<1>3. Len(x) \in Nat
  BY LenProperties
<1>4. Tell(s) = s.pos + Len(s.pending)
  BY <1>1 DEF Tell
<1>5. S!Written(s.file, s.pos, y) = S!Written(S!Written(s.file, s.pos, s.pending), s.pos + Len(s.pending), x)
  BY <1>1, WrittenTwice
<1>6. t = [s EXCEPT !.pending = y]
  OBVIOUS
<1> HIDE DEF y
<1>7. /\ t \in States /\ t.pending = y /\ t.ahead = <<>> /\ t.read_pos = 0
      /\ t.file = s.file /\ t.pos = s.pos /\ t.size = s.size
  BY <1>1, <1>2, <1>6 DEF States
<1>8. Sound(t)
  BY <1>1, <1>2, <1>3, <1>4, <1>7 DEF Sound
<1>9. Content(t) = S!Written(Content(s), Tell(s), x)
  BY <1>4, <1>5, <1>7 DEF Content
<1>10. Tell(t) = Tell(s) + Len(x)
  <2>1. Len(t.ahead) = 0 /\ Tell(t) = s.pos + 0 - Len(t.ahead) + Len(y)
    BY <1>7, EmptySeq DEF Tell
  <2>2. ASSUME NEW p \in Nat, NEW m \in Nat, NEW n \in Nat PROVE p + 0 - 0 + (m + n) = (p + m) + n
    OBVIOUS
  <2>3. s.pos + 0 - 0 + (Len(s.pending) + Len(x)) = (s.pos + Len(s.pending)) + Len(x)
    BY <1>1, <1>3, <2>2
  <2> QED BY <1>2, <1>4, <2>1, <2>3
<1> QED BY <1>2, <1>7, <1>8, <1>9, <1>10


\* As much of the input as there is room for.
LEMMA WriteToBufferAdvances ==
  ASSUME NEW s, Sound(s), s.ahead = <<>>, NEW input \in Seq(Byte), Tell(s) + Len(input) <= MaxLength,
         NEW t, t = writeToBuffer(s, input), NEW k, k = Least(s.size - Len(s.pending), Len(input))
  PROVE  /\ k \in 0 .. Len(input) /\ (k = Len(input) \/ Len(t.pending) = t.size)
         /\ Sound(t) /\ t.ahead = <<>> /\ t.size = s.size /\ Len(t.pending) = Len(s.pending) + k
         /\ Content(t) = S!Written(Content(s), Tell(s), SubSeq(input, 1, k)) /\ Tell(t) = Tell(s) + k
<1> DEFINE x == SubSeq(input, 1, k)
<1>1. Len(input) \in Nat /\ Len(s.pending) \in Nat /\ s.size \in Nat /\ Len(s.pending) <= s.size /\ Tell(s) \in Nat
  BY SoundFacts, LenProperties DEF Sound
<1>2. k \in 0 .. Len(input) /\ Len(s.pending) + k <= s.size /\ (k = Len(input) \/ Len(s.pending) + k = s.size)
  BY <1>1 DEF Least
<1>3. x \in Seq(Byte) /\ Len(x) = k
  BY <1>1, <1>2, Slice
<1>4. t = [s EXCEPT !.pending = @ \o x]
  BY DEF writeToBuffer
<1>5. Tell(s) + Len(x) <= MaxLength
  BY <1>1, <1>2, <1>3, BufferedStreamAssumption
<1> HIDE DEF x
<1>6. /\ Sound(t) /\ t.ahead = <<>> /\ t.size = s.size /\ Len(t.pending) = Len(s.pending) + Len(x)
      /\ Content(t) = S!Written(Content(s), Tell(s), x) /\ Tell(t) = Tell(s) + Len(x)
  BY <1>2, <1>3, <1>4, <1>5, PendingAdvances
<1> QED BY <1>2, <1>3, <1>6 DEF x

LEMMA SoughtGoes ==
  ASSUME NEW s, Sound(s), s.pending = <<>>, NEW to \in 0 .. MaxLength
  PROVE  Sound(Sought(s, to)) /\ Content(Sought(s, to)) = Content(s) /\ Tell(Sought(s, to)) = to
<1> DEFINE read_pos == to - Tell(s) + s.read_pos
           t == Sought(s, to)
<1>1. /\ s \in States /\ s.file \in Seq(Byte) /\ s.pos \in Nat /\ Len(s.ahead) \in Nat /\ s.read_pos \in Nat
      /\ Len(s.pending) = 0 /\ Content(s) = s.file /\ Len(s.file) <= MaxLength /\ Len(s.ahead) <= s.pos
  BY SoundFacts DEF Sound
<1>2. to \in Nat /\ to <= MaxLength
  BY BufferedStreamAssumption
<1>3. Tell(s) = s.pos + s.read_pos - Len(s.ahead) + 0
  BY <1>1 DEF Tell
<1>4. read_pos \in Int /\ to + Len(s.ahead) - read_pos = s.pos /\ s.pos + read_pos - Len(s.ahead) + 0 = to
  <2> DEFINE p == s.pos
             i == s.read_pos
             a == Len(s.ahead)
             f == Tell(s)
  <2>1. p \in Nat /\ i \in Nat /\ a \in Nat /\ f = p + i - a + 0 /\ read_pos = to - f + i
    BY <1>1, <1>3
  <2>2. read_pos \in Int /\ to + a - read_pos = p /\ p + read_pos - a + 0 = to
    <3> HIDE DEF p, i, a, f, read_pos
    <3> QED BY <1>2, <2>1
  <2> QED BY <2>2
<1>5. CASE 0 <= read_pos /\ read_pos < Len(s.ahead)
  <2>1. t = [s EXCEPT !.read_pos = read_pos, !.pos = s.pos]
    BY <1>4, <1>5 DEF Sought
  <2> HIDE DEF read_pos, t
  <2>2. read_pos \in Nat
    BY <1>4, <1>5
  <2>3. /\ t \in States /\ t.read_pos = read_pos /\ t.pos = s.pos /\ t.ahead = s.ahead
        /\ t.file = s.file /\ t.pending = <<>> /\ t.size = s.size
    BY <1>1, <2>1, <2>2 DEF States
  <2>4. Sound(t)
    BY <1>1, <1>5, <2>2, <2>3 DEF Sound
  <2>5. Content(t) = Content(s)
    BY <1>1, <2>3, <2>4, SoundFacts
  <2>6. Tell(t) = to
    BY <1>1, <1>4, <2>3 DEF Tell
  <2> QED BY <2>4, <2>5, <2>6 DEF t
<1>6. CASE ~(0 <= read_pos /\ read_pos < Len(s.ahead))
  <2>1. t = [Discard(s) EXCEPT !.pos = to]
    BY <1>6 DEF Sought
  <2> DEFINE d == Discard(s)
  <2>2. d \in States /\ Empty(d) /\ d.file = s.file
    BY Discards DEF Sound
  <2>3. t = [d EXCEPT !.pos = to]
    BY <2>1
  <2> HIDE DEF d, t
  <2>4. t \in States /\ Empty(t) /\ t.file = s.file /\ t.pos = to
    BY <1>2, <2>2, <2>3 DEF States, Empty
  <2> QED BY <1>1, <1>2, <2>4, EmptyIsSound DEF t
<1> QED BY <1>5, <1>6

------------------------------------------------------------------------------
(* The steps of the stream that callers see. *)

LEMMA SeesNothing ==
  ASSUME Keeps(stream, stream'), result' = result
  PROVE  UNCHANGED Contract!vars
BY DEF Keeps, Content, Contract!vars

LEMMA SeesRead ==
  ASSUME NEW n \in 1 .. MaxLength, Content(stream') = Content(stream),
         result' = S!BytesAt(Content(stream), Tell(stream), n), Tell(stream') = Tell(stream) + Len(result')
  PROVE  Contract!Next
<1>1. Contract!Read(n)
  BY DEF Contract!Read, Contract!BytesAt, S!BytesAt, Content
<1> QED BY <1>1 DEF Contract!Next

LEMMA SeesReadFail ==
  ASSUME NEW n \in 1 .. MaxLength, Content(stream') = Content(stream), result' = result,
         Tell(stream') \in Tell(stream) .. Tell(stream) + n
  PROVE  Contract!Next
<1>1. Contract!ReadFails(n)
  BY DEF Contract!ReadFails, Content
<1> QED BY <1>1 DEF Contract!Next

LEMMA SeesWrite ==
  ASSUME NEW input \in Inputs, NEW n \in 0 .. Len(input), result' = result,
         Content(stream') = S!Written(Content(stream), Tell(stream), SubSeq(input, 1, n)),
         Tell(stream') = Tell(stream) + n
  PROVE  Contract!Next
<1>1. Len(SubSeq(input, 1, n)) = n
  <2>1. input \in Seq(Byte)
    BY BufferedStreamAssumption
  <2> QED BY <2>1, LenProperties, Slice
<1>2. Contract!Write(SubSeq(input, 1, n))
  BY <1>1 DEF Contract!Write, Contract!Written, S!Written, Content
<1> QED BY <1>2 DEF Contract!Next

LEMMA SeesSeek ==
  ASSUME NEW to \in 0 .. MaxLength, Content(stream') = Content(stream), Tell(stream') = to, result' = <<to>>
  PROVE  Contract!Next
<1>1. Contract!Seek(to)
  BY DEF Contract!Seek, Content
<1> QED BY <1>1 DEF Contract!Next

LEMMA SeesSetLength ==
  ASSUME NEW n \in 0 .. MaxLength, Content(stream') = S!Resized(Content(stream), n), Tell(stream') \in 0 .. MaxLength,
         result' = result
  PROVE  Contract!Next
<1>1. Contract!SetLength(n)
  BY DEF Contract!SetLength, Contract!Resized, S!Resized, Content
<1> QED BY <1>1 DEF Contract!Next

LEMMA SeesReopen ==
  ASSUME Content(stream') = Content(stream), Tell(stream') \in 0 .. MaxLength, result' = result
  PROVE  Contract!Next
<1>1. Contract!Reopen
  BY DEF Contract!Reopen, Content
<1> QED BY <1>1 DEF Contract!Next


------------------------------------------------------------------------------
(* Each operation, from a sound state, leads to a sound state, and is a step *)
(* of the stream that callers see or none.                                   *)

Seen == Sound(stream') /\ (Contract!Next \/ UNCHANGED Contract!vars)

LEMMA KeepsIsSeen ==
  ASSUME Keeps(stream, stream'), result' = result
  PROVE  Seen
BY SeesNothing DEF Seen, Keeps

LEMMA ReadFromBufferIsSeen ==
  ASSUME Sound(stream), NEW n \in 1 .. MaxLength, readFromBuffer(n)
  PROVE  Seen
<1> DEFINE r == FromBuffer(stream, n)
           t == Consumed(stream, n)
<1>1. Len(r) = n /\ result' = r /\ stream' = t /\ n \in Nat
  BY DEF readFromBuffer
<1>2. r = FromBuffer(stream, n) /\ t = Consumed(stream, n)
  OBVIOUS
<1> HIDE DEF r, t
<1>3. /\ Sound(t) /\ Content(t) = Content(stream) /\ Tell(t) = Tell(stream) + Len(r)
      /\ r = S!BytesAt(Content(stream), Tell(stream), Len(r))
  BY <1>1, <1>2, ConsumedAdvances
<1> QED BY <1>1, <1>3, SeesRead DEF Seen

\* The buffer is read to its end, and given up.
LEMMA Drained ==
  ASSUME Sound(stream), NEW n \in 1 .. MaxLength, NEW first, first = FromBuffer(stream, n), Len(first) < n,
         NEW s, s = Discard(Flushed(Consumed(stream, n)))
  PROVE  /\ Sound(s) /\ Empty(s) /\ Content(s) = Content(stream) /\ Tell(s) = Tell(stream) + Len(first)
         /\ first = S!BytesAt(Content(stream), Tell(stream), Len(first)) /\ Len(first) \in Nat
<1> DEFINE t == Consumed(stream, n)
           u == Flushed(t)
<1>1. t = Consumed(stream, n) /\ n \in Nat
  OBVIOUS
<1> HIDE DEF t
<1>2. /\ Sound(t) /\ Content(t) = Content(stream) /\ Tell(t) = Tell(stream) + Len(first)
      /\ Len(first) \in 0 .. n /\ first = S!BytesAt(Content(stream), Tell(stream), Len(first))
      /\ t.read_pos = Len(t.ahead)
  BY <1>1, ConsumedAdvances
<1>3. Keeps(t, u) /\ u.pending = <<>> /\ (t.pending = <<>> => u = t)
  BY <1>2, FlushedKeeps
<1>4. s = Discard(u)
  BY DEF t
<1> HIDE DEF u
<1>5. Sound(s) /\ Empty(s) /\ Content(s) = Content(u) /\ Tell(s) = u.pos
  BY <1>3, <1>4, Discards DEF Keeps
<1>6. Tell(u) = u.pos
  <2>1. u.read_pos = Len(u.ahead)
    <3>1. CASE t.pending = <<>>
      BY <1>2, <1>3, <3>1
    <3>2. CASE t.pending # <<>>
      <4>1. t.ahead = <<>>
        BY <1>2, <3>2 DEF Sound
      <4>2. u = flushWriteBuffer(t)
        BY <3>2 DEF u, Flushed, hasPendingWrite
      <4>3. Empty(u)
        BY <1>2, <4>1, <4>2, FlushKeeps
      <4> QED BY <4>3, EmptySeq DEF Empty
    <3> QED BY <3>1, <3>2
  <2>2. u.pos \in Nat /\ u.read_pos \in Nat /\ Len(u.pending) = 0
    BY <1>3, SoundFacts DEF Keeps
  <2> QED BY <2>1, <2>2 DEF Tell
<1> QED BY <1>2, <1>3, <1>5, <1>6 DEF Keeps

LEMMA ReadAtMostIsSeen ==
  ASSUME Sound(stream), NEW n \in 1 .. MaxLength, readAtMost(n)
  PROVE  Seen
<1> DEFINE first == FromBuffer(stream, n)
           rest == n - Len(first)
           s == Discard(Flushed(Consumed(stream, n)))
           direct == S!BytesAt(s.file, s.pos, rest)
           filled == Fill(s)
<1>1. /\ rest > 0
      /\ \/ /\ rest >= s.size
            /\ result' = first \o direct
            /\ stream' = [s EXCEPT !.pos = s.pos + Len(direct)]
         \/ /\ rest < s.size
            /\ result' = first \o FromBuffer(filled, rest)
            /\ stream' = Consumed(filled, rest)
  BY DEF readAtMost
<1>2. Len(first) \in Nat
  <2>1. n \in Nat
    OBVIOUS
  <2> HIDE DEF first
  <2>2. first = FromBuffer(stream, n)
    BY DEF first
  <2> QED BY <2>1, <2>2, ConsumedAdvances
<1>3. Len(first) < n /\ rest \in Nat /\ Len(first) + rest = n
  <2> HIDE DEF first
  <2> QED BY <1>1, <1>2
<1>4. first = FromBuffer(stream, n) /\ s = Discard(Flushed(Consumed(stream, n)))
  OBVIOUS
<1>5. direct = S!BytesAt(s.file, s.pos, rest) /\ filled = Fill(s)
  OBVIOUS
<1> HIDE DEF first, rest, s, direct, filled
<1>6. /\ Sound(s) /\ Empty(s) /\ Content(s) = Content(stream) /\ Tell(s) = Tell(stream) + Len(first)
      /\ first = S!BytesAt(Content(stream), Tell(stream), Len(first))
  BY <1>3, <1>4, Drained
<1>7. /\ s \in States /\ s.file = Content(s) /\ s.pos = Tell(s) /\ s.file \in Seq(Byte) /\ s.pos \in Nat
      /\ s.pos <= MaxLength /\ Len(s.file) <= MaxLength /\ Len(s.file) \in Nat
      /\ Content(stream) \in Seq(Byte) /\ Tell(stream) \in Nat
  <2>1. /\ s \in States /\ s.file \in Seq(Byte) /\ s.pos \in Nat /\ s.pos <= MaxLength /\ Len(s.file) <= MaxLength
        /\ Len(s.file) \in Nat /\ Content(stream) \in Seq(Byte) /\ Tell(stream) \in Nat
    <3>1. /\ s.file \in Seq(Byte) /\ s.pos \in Nat /\ Len(s.file) \in Nat /\ Len(s.pending) \in Nat
          /\ Content(stream) \in Seq(Byte) /\ Tell(stream) \in 0 .. MaxLength
      BY <1>6, SoundFacts
    <3>2. s \in States /\ s.pos + Len(s.pending) <= MaxLength /\ Len(s.file) <= MaxLength
      BY <1>6 DEF Sound
    <3> QED BY <3>1, <3>2, BufferedStreamAssumption
  <2> QED BY <1>6, <2>1, EmptyIsSound
\* Both parts are one read.
<1>8. ASSUME NEW second, second = S!BytesAt(Content(s), Tell(s), rest)
      PROVE  first \o second = S!BytesAt(Content(stream), Tell(stream), n) /\ Len(first \o second) = Len(first) + Len(second)
  <2> DEFINE b == Content(stream)
             pos == Tell(stream)
             m == Len(first)
  <2>1. b \in Seq(Byte) /\ pos \in Nat /\ m \in Nat /\ first = S!BytesAt(b, pos, m)
    BY <1>2, <1>6, <1>7
  <2>2. second = S!BytesAt(b, pos + m, rest)
    BY <1>6, <1>8
  <2>3. Len(S!BytesAt(b, pos, m)) = m
    BY <2>1
  <2>4. first \in Seq(Byte) /\ second \in Seq(Byte)
    BY <1>3, <1>6, <1>7, <1>8, <2>1, BytesAtLength
  <2> HIDE DEF b, pos, m
  <2>5. S!BytesAt(b, pos, m) \o S!BytesAt(b, pos + m, rest) = S!BytesAt(b, pos, m + rest)
    BY <1>3, <2>1, <2>3, BytesAtTwice
  <2>6. m + rest = n
    BY <1>3 DEF m
  <2> QED BY <2>1, <2>2, <2>4, <2>5, <2>6, ConcatProperties DEF b, pos, m
<1>9. CASE /\ rest >= s.size
           /\ result' = first \o direct
           /\ stream' = [s EXCEPT !.pos = s.pos + Len(direct)]
  <2> DEFINE to == s.pos + Len(direct)
  <2>1. direct \in Seq(Byte) /\ Len(direct) \in Nat /\ (direct # <<>> => s.pos + Len(direct) <= Len(s.file)) /\ (direct = <<>> <=> Len(direct) = 0)
    BY <1>3, <1>5, <1>7, BytesAtLength, EmptySeq
  <2>2. to \in Nat /\ to <= MaxLength
    BY <1>7, <2>1, BufferedStreamAssumption
  <2>3. stream' = [s EXCEPT !.pos = to]
    BY <1>9
  <2> HIDE DEF to
  <2>4. stream' \in States /\ Empty(stream') /\ stream'.file = s.file /\ stream'.pos = to
    BY <1>6, <1>7, <2>2, <2>3 DEF States, Empty
  <2>5. Sound(stream') /\ Content(stream') = s.file /\ Tell(stream') = to
    BY <1>7, <2>2, <2>4, EmptyIsSound
  <2>6. /\ result' = S!BytesAt(Content(stream), Tell(stream), n)
        /\ Len(result') = Len(first) + Len(direct)
    BY <1>5, <1>7, <1>8, <1>9
  <2>7. Tell(stream') = Tell(stream) + Len(result')
    <3>1. to = (Tell(stream) + Len(first)) + Len(direct)
      BY <1>6, <1>7 DEF to
    <3> QED BY <1>2, <1>7, <2>1, <2>5, <2>6, <3>1
  <2> QED BY <1>6, <1>7, <2>5, <2>6, <2>7, SeesRead DEF Seen
<1>10. CASE /\ rest < s.size
            /\ result' = first \o FromBuffer(filled, rest)
            /\ stream' = Consumed(filled, rest)
  <2> DEFINE second == FromBuffer(filled, rest)
  <2>1. /\ Keeps(s, filled) /\ filled.ahead = S!BytesAt(Content(s), Tell(s), s.size) /\ filled.read_pos = 0
    BY <1>5, <1>6, FillKeeps, EmptySeq DEF Empty
  <2>2. second = FromBuffer(filled, rest)
    OBVIOUS
  <2> HIDE DEF second
  <2>3. /\ Sound(stream') /\ Content(stream') = Content(s) /\ Tell(stream') = Tell(s) + Len(second)
        /\ second \in Seq(Byte) /\ Len(second) \in 0 .. rest /\ second = S!BytesAt(Content(s), Tell(s), Len(second))
        /\ Len(second) < rest => stream'.read_pos = Len(stream'.ahead)
        /\ stream'.ahead = filled.ahead /\ stream'.pos = filled.pos
    BY <1>3, <1>10, <2>1, <2>2, ConsumedAdvances DEF Keeps
  \* Fewer bytes than asked for are all there are.
  <2>4. second = S!BytesAt(Content(s), Tell(s), rest)
    <3>1. CASE Len(second) = rest
      BY <2>3, <3>1
    <3>2. CASE Len(second) < rest
      <4> DEFINE a == filled.ahead
      <4>1. /\ IsRead(a, s.file, s.pos, s.size) /\ IsRead(second, s.file, s.pos, Len(second))
            /\ IsRead(S!BytesAt(s.file, s.pos, rest), s.file, s.pos, rest)
            /\ s.size \in Nat /\ Len(second) \in Nat
        <5>1. s.size \in Nat /\ Len(second) \in Nat
          BY <1>3, <1>6, <2>3, SoundFacts
        <5> QED BY <1>3, <1>7, <2>1, <2>3, <5>1, BytesAtProperties
      <4>2. second = SubSeq(a, 1, Len(a)) /\ a \in Seq(Byte) /\ Len(a) \in Nat
        <5>1. Sound(filled) /\ filled.read_pos = 0
          BY <2>1 DEF Keeps
        <5>2. a \in Seq(Byte) /\ Len(a) \in Nat
          BY <5>1, SoundFacts
        <5>3. second = SubSeq(a, 0 + 1, Least(0 + rest, Len(a)))
          BY <2>2, <5>1 DEF FromBuffer
        <5>4. Least(rest, Len(a)) \in 0 .. Len(a) /\ (Least(rest, Len(a)) = rest \/ Least(rest, Len(a)) = Len(a))
          BY <1>3, <5>2 DEF Least
        <5> DEFINE k == Least(rest, Len(a))
        <5>5. Len(SubSeq(a, 1, k)) = k /\ second = SubSeq(a, 1, k)
          <6>0. 0 + 1 = 1 /\ 0 + rest = rest
            BY <1>3
          <6>1. second = SubSeq(a, 1, k)
            BY <5>3, <6>0
          <6> HIDE DEF k
          <6>2. k \in 0 .. Len(a)
            BY <5>4 DEF k
          <6> HIDE DEF a
          <6>3. Len(SubSeq(a, 1, k)) = IF 1 <= k THEN k - 1 + 1 ELSE 0
            BY <5>2, <6>2, Slice
          <6> QED BY <5>2, <6>1, <6>2, <6>3
        <5>6. k = Len(a)
          BY <3>2, <5>4, <5>5
        <5> QED BY <5>2, <5>5, <5>6
      <4> HIDE DEF a
      <4>3. second = a
        BY <4>2, SubSeqFull
      <4>4. IsRead(second, s.file, s.pos, rest)
        <5>1. Len(second) = IF s.pos + s.size <= Len(s.file) THEN s.size ELSE IF s.pos <= Len(s.file) THEN Len(s.file) - s.pos ELSE 0
          BY <4>1, <4>3 DEF IsRead
        <5>2. Len(second) = IF s.pos + rest <= Len(s.file) THEN rest ELSE IF s.pos <= Len(s.file) THEN Len(s.file) - s.pos ELSE 0
          BY <1>3, <1>7, <1>10, <3>2, <4>1, <5>1
        <5> QED BY <4>1, <5>2 DEF IsRead
      <4>5. second = S!BytesAt(s.file, s.pos, rest)
        BY <4>1, <4>4, ReadIsOne
      <4> QED BY <1>7, <4>5
    <3> QED BY <1>3, <2>3, <3>1, <3>2
  <2>5. /\ result' = S!BytesAt(Content(stream), Tell(stream), n)
        /\ Len(result') = Len(first) + Len(second)
    BY <1>8, <1>10, <2>2, <2>4
  <2>6. Tell(stream') = Tell(stream) + Len(result')
    <3>1. Tell(stream') = (Tell(stream) + Len(first)) + Len(second)
      BY <1>6, <2>3
    <3> QED BY <1>2, <1>3, <1>7, <2>3, <2>5, <3>1
  <2> QED BY <1>6, <2>3, <2>5, <2>6, SeesRead DEF Seen
<1> QED BY <1>1, <1>9, <1>10


LEMMA ReadAtMostFailsIsSeen ==
  ASSUME Sound(stream), NEW n \in 1 .. MaxLength, readAtMostFails(n)
  PROVE  Seen
<1> DEFINE first == FromBuffer(stream, n)
<1>1. /\ Len(first) < n /\ stream' = Discard(Flushed(Consumed(stream, n))) /\ result' = result
      /\ first = FromBuffer(stream, n)
  BY DEF readAtMostFails
<1> HIDE DEF first
<1>2. /\ Sound(stream') /\ Content(stream') = Content(stream) /\ Tell(stream') = Tell(stream) + Len(first)
      /\ Len(first) \in Nat
  BY <1>1, Drained
<1>3. Tell(stream) \in Nat
  BY SoundFacts
<1>4. Tell(stream') \in Tell(stream) .. Tell(stream) + n
  BY <1>1, <1>2, <1>3
<1> QED BY <1>1, <1>2, <1>4, SeesReadFail DEF Seen

LEMMA TryReadByteIsSeen ==
  ASSUME Sound(stream), tryReadByte
  PROVE  Seen
<1> DEFINE s == IF hasPendingRead(stream) THEN stream ELSE Fill(Flushed(stream))
           r == FromBuffer(s, 1)
<1>1. result' = r /\ stream' = Consumed(s, 1) /\ r = FromBuffer(s, 1)
  BY DEF tryReadByte
<1> HIDE DEF r
<1>2. Content(stream) \in Seq(Byte) /\ Tell(stream) \in Nat /\ 1 \in 1 .. MaxLength
  BY SoundFacts, BufferedStreamAssumption
<1>3. /\ Sound(s) /\ Content(s) = Content(stream) /\ Tell(s) = Tell(stream)
      /\ \/ s.read_pos < Len(s.ahead)
         \/ s.read_pos = 0 /\ s.ahead = S!BytesAt(Content(stream), Tell(stream), s.size) /\ s.size \in Nat \ {0}
  <2>1. CASE hasPendingRead(stream)
    BY <2>1 DEF hasPendingRead
  <2>2. CASE ~hasPendingRead(stream)
    <3> DEFINE f == Flushed(stream)
    <3>1. Keeps(stream, f) /\ f.pending = <<>> /\ (stream.pending = <<>> => f = stream)
      BY FlushedKeeps
    <3>2. f.read_pos = Len(f.ahead)
      <4>1. CASE stream.pending = <<>>
        <5>1. stream.read_pos = Len(stream.ahead)
          <6>1. stream.read_pos \in Nat /\ Len(stream.ahead) \in Nat /\ stream.read_pos <= Len(stream.ahead)
            BY SoundFacts DEF Sound
          <6> QED BY <2>2, <6>1 DEF hasPendingRead
        <5> QED BY <3>1, <4>1, <5>1
      <4>2. CASE stream.pending # <<>>
        <5>1. f = flushWriteBuffer(stream) /\ stream.ahead = <<>>
          BY <4>2 DEF Flushed, hasPendingWrite, Sound
        <5> QED BY <5>1, FlushKeeps, EmptySeq DEF Empty
      <4> QED BY <4>1, <4>2
    <3>3. s = Fill(f)
      BY <2>2
    <3> HIDE DEF f, s
    <3>4. Keeps(f, s) /\ s.ahead = S!BytesAt(Content(f), Tell(f), f.size) /\ s.read_pos = 0
      BY <3>1, <3>2, <3>3, FillKeeps DEF Keeps
    <3>5. f.size \in Nat \ {0}
      BY <3>1, SoundFacts DEF Keeps
    <3> QED BY <3>1, <3>4, <3>5 DEF Keeps
  <2> QED BY <2>1, <2>2
<1> HIDE DEF s
<1>4. /\ Sound(stream') /\ Content(stream') = Content(s) /\ Tell(stream') = Tell(s) + Len(r)
      /\ r \in Seq(Byte) /\ Len(r) \in 0 .. 1 /\ r = S!BytesAt(Content(s), Tell(s), Len(r))
      /\ Len(r) < 1 => stream'.read_pos = Len(stream'.ahead)
      /\ stream'.ahead = s.ahead
  <2> DEFINE one == 1
             t == stream'
  <2>1. one \in Nat /\ r = FromBuffer(s, one) /\ t = Consumed(s, one) /\ Sound(s)
    BY <1>1, <1>3
  <2> HIDE DEF one, t
  <2>2. /\ Sound(t) /\ Content(t) = Content(s) /\ Tell(t) = Tell(s) + Len(r)
        /\ r \in Seq(Byte) /\ Len(r) \in 0 .. one /\ r = S!BytesAt(Content(s), Tell(s), Len(r))
        /\ Len(r) < one => t.read_pos = Len(t.ahead)
        /\ t.ahead = s.ahead
    BY <2>1, ConsumedAdvances
  <2> QED BY <2>2 DEF one, t
\* No byte comes only where there is none.
<1>5. r = S!BytesAt(Content(stream), Tell(stream), 1)
  <2>1. CASE Len(r) = 1
    BY <1>3, <1>4, <2>1
  <2>2. CASE Len(r) = 0
    <3>0. /\ s.ahead \in Seq(Byte) /\ Len(s.ahead) \in Nat /\ s.read_pos \in Nat /\ s.read_pos <= Len(s.ahead)
      BY <1>3, SoundFacts DEF Sound
    <3>1. Len(r) = Least(s.read_pos + 1, Len(s.ahead)) - s.read_pos
      <4> DEFINE i == s.read_pos
                 m == i + 1
                 k == Least(i + 1, Len(s.ahead))
                 a == s.ahead
      <4>1. k \in Nat /\ k <= Len(a) /\ m \in Nat \ {0} /\ i \in Nat /\ m = i + 1 /\ k >= i /\ r = SubSeq(a, m, k)
        BY <1>1, <3>0 DEF Least, FromBuffer
      <4> HIDE DEF k, m, a, i
      <4>2. Len(SubSeq(a, m, k)) = IF m <= k THEN k - m + 1 ELSE 0
        BY <3>0, <4>1, Slice DEF a
      <4>3. Len(r) = k - i
        BY <4>1, <4>2
      <4> QED BY <4>3 DEF k, m, a, i
    <3>2. s.read_pos = Len(s.ahead)
      BY <2>2, <3>0, <3>1 DEF Least
    <3>3. s.read_pos = 0 /\ s.ahead = S!BytesAt(Content(stream), Tell(stream), s.size) /\ s.size \in Nat \ {0}
      BY <1>3, <3>0, <3>2
    <3> DEFINE b == Content(stream)
               pos == Tell(stream)
               q == S!BytesAt(b, pos, 1)
    <3>4. IsRead(s.ahead, b, pos, s.size) /\ IsRead(q, b, pos, 1)
      <4>1. s.size \in Nat /\ 1 \in Nat
        BY <3>3
      <4> QED BY <1>2, <3>3, <4>1, BytesAtProperties
    <3>5. Len(b) \in Nat
      BY <1>2, LenProperties
    <3> HIDE DEF b, pos, q
    <3>6. pos \in Nat /\ s.size \in Nat \ {0} /\ Len(s.ahead) = 0
      BY <1>2, <3>2, <3>3 DEF pos
    <3>7. pos >= Len(b)
      <4>1. 0 = IF pos + s.size <= Len(b) THEN s.size ELSE IF pos <= Len(b) THEN Len(b) - pos ELSE 0
        BY <3>4, <3>6 DEF IsRead
      <4> QED BY <3>5, <3>6, <4>1
    <3>9. Len(q) = 0 /\ q \in Seq(Byte)
      BY <3>4, <3>5, <3>6, <3>7 DEF IsRead
    <3>8. q = <<>> /\ r = <<>>
      BY <1>4, <2>2, <3>9, EmptySeq
    <3> QED BY <3>8 DEF q, b, pos
  <2> QED BY <1>4, <2>1, <2>2
<1> QED BY <1>1, <1>2, <1>3, <1>4, <1>5, SeesRead DEF Seen

LEMMA InputsAreBytes ==
  ASSUME NEW input \in Inputs
  PROVE  input \in Seq(Byte) /\ Len(input) \in Nat /\ SubSeq(input, 1, Len(input)) = input
BY BufferedStreamAssumption, LenProperties, SubSeqFull

\* An input is its first k bytes, and its other ones.
LEMMA Parts ==
  ASSUME NEW x \in Seq(Byte), NEW k \in 0 .. Len(x), NEW m, m = k + 1
  PROVE  /\ SubSeq(x, 1, k) \in Seq(Byte) /\ Len(SubSeq(x, 1, k)) = k
         /\ SubSeq(x, m, Len(x)) \in Seq(Byte) /\ Len(SubSeq(x, m, Len(x))) = Len(x) - k
         /\ SubSeq(x, 1, k) \o SubSeq(x, m, Len(x)) = x
<1> DEFINE n == Len(x)
<1>1. n \in Nat /\ k \in Nat /\ k <= n /\ n <= Len(x) /\ n \in Int
  BY LenProperties
<1> HIDE DEF n
<1>2. m \in Nat \ {0} /\ 1 \in Nat \ {0} /\ k \in Int /\ k <= Len(x)
  BY <1>1 DEF n
<1>3. /\ SubSeq(x, 1, k) \in Seq(Byte) /\ Len(SubSeq(x, 1, k)) = IF 1 <= k THEN k - 1 + 1 ELSE 0
      /\ SubSeq(x, m, n) \in Seq(Byte) /\ Len(SubSeq(x, m, n)) = IF m <= n THEN n - m + 1 ELSE 0
  BY <1>1, <1>2, Slice
<1>4. Len(SubSeq(x, 1, k)) = k /\ Len(SubSeq(x, m, n)) = n - k
  BY <1>1, <1>3
<1>5. SubSeq(x, 1, k) \o SubSeq(x, k + 1, n) = SubSeq(x, 1, n)
  <2>1. 1 \in 1 .. Len(x) + 1 /\ k \in 1 - 1 .. Len(x) /\ n \in k .. Len(x)
    BY <1>1 DEF n
  <2> QED BY <2>1, ConcatAdjacentSubSeq
<1> QED BY <1>3, <1>4, <1>5, SubSeqFull DEF n

LEMMA WriteIsSeen ==
  ASSUME Sound(stream), NEW input \in Inputs, write(input)
  PROVE  Seen
<1> DEFINE s == Start(stream)
           t == writeToBuffer(s, input)
           wrote == Len(t.pending) - Len(s.pending)
           rest == SubSeq(input, wrote + 1, Len(input))
           f == flushWriteBuffer(t)
           k == Least(s.size - Len(s.pending), Len(input))
<1>1. /\ Tell(stream) + Len(input) <= MaxLength /\ ~Large(s, input) /\ result' = result
      /\ stream' = IF Len(t.pending) = t.size THEN writeToBuffer(f, rest) ELSE t
  BY DEF write, ReadyFor
<1>2. Keeps(stream, s) /\ s.ahead = <<>>
  BY StartKeeps
<1>3. /\ t = writeToBuffer(s, input) /\ wrote = Len(t.pending) - Len(s.pending) /\ f = flushWriteBuffer(t)
      /\ rest = SubSeq(input, wrote + 1, Len(input)) /\ k = Least(s.size - Len(s.pending), Len(input))
  OBVIOUS
<1> HIDE DEF s, t, wrote, rest, f, k
<1>4. input \in Seq(Byte) /\ Len(input) \in Nat /\ SubSeq(input, 1, Len(input)) = input
  BY InputsAreBytes
<1>5. Len(s.pending) \in Nat /\ s.size \in Nat \ {0} /\ Tell(stream) \in Nat /\ Content(stream) \in Seq(Byte)
  BY <1>2, SoundFacts DEF Keeps
<1>6. /\ k \in 0 .. Len(input) /\ (k = Len(input) \/ Len(t.pending) = t.size)
      /\ Sound(t) /\ t.ahead = <<>> /\ t.size = s.size /\ Len(t.pending) = Len(s.pending) + k
      /\ Content(t) = S!Written(Content(stream), Tell(stream), SubSeq(input, 1, k)) /\ Tell(t) = Tell(stream) + k
  BY <1>1, <1>2, <1>3, <1>4, WriteToBufferAdvances DEF Keeps
<1>7. CASE Len(t.pending) # t.size
  <2>1. stream' = t /\ k = Len(input)
    BY <1>1, <1>6, <1>7
  <2>2. Len(input) \in 0 .. Len(input)
    BY <1>4
  <2> QED BY <1>1, <1>6, <2>1, <2>2, SeesWrite DEF Seen
\* What did not fit is written to the empty buffer.
<1>8. CASE Len(t.pending) = t.size
  <2>1. stream' = writeToBuffer(f, rest)
    BY <1>1, <1>8
  <2>2. Keeps(t, f) /\ Empty(f)
    BY <1>3, <1>6, FlushKeeps
  <2>3. wrote = k
    BY <1>3, <1>5, <1>6
  <2> DEFINE x == SubSeq(input, 1, k)
             m == wrote + 1
             b == Content(stream)
             pos == Tell(stream)
             n == Len(input)
             p == Len(s.pending)
  <2>4. /\ x \in Seq(Byte) /\ Len(x) = k /\ x \o rest = input
        /\ rest \in Seq(Byte) /\ Len(rest) = n - k
    <3>1. m = k + 1 /\ k \in 0 .. Len(input)
      BY SMTT(30), <1>6, <2>3
    <3> HIDE DEF m
    <3> QED BY <1>3, <1>4, <3>1, Parts DEF m
  <2>20. /\ n \in Nat /\ k \in 0 .. n /\ pos \in Nat /\ p \in Nat /\ p + k = s.size /\ s.size \in Nat /\ ~(p + n > 2 * s.size)
         /\ pos + n <= MaxLength /\ MaxLength \in Nat /\ b \in Seq(Byte)
    BY <1>1, <1>4, <1>5, <1>6, <1>8, BufferedStreamAssumption DEF Large
  <2> HIDE DEF x, b, pos, n, p
  <2>21. k \in Nat /\ n - k \in Nat /\ n - k <= s.size /\ (pos + k) + (n - k) = pos + n
    BY <2>20
  <2> DEFINE j == Least(f.size - Len(f.pending), Len(rest))
  <2>5. j = Len(rest) /\ Len(f.pending) = 0 /\ Tell(f) + Len(rest) <= MaxLength /\ f.ahead = <<>> /\ Sound(f)
    <3>1. f.size = s.size /\ Tell(f) = Tell(stream) + k /\ Sound(f) /\ f.pending = <<>> /\ f.ahead = <<>> /\ Len(f.pending) = 0
      BY <1>6, <2>2, EmptySeq DEF Keeps, Empty
    <3>3. Len(rest) <= s.size /\ Len(rest) \in Nat
      BY <2>4, <2>21
    <3>4. j = Len(rest)
      <4>1. f.size = s.size /\ Len(f.pending) = 0 /\ s.size - 0 = s.size
        BY <2>20, <3>1
      <4>2. ASSUME NEW c \in Nat, NEW d \in Nat, d <= c PROVE Least(c, d) = d
        BY <4>2 DEF Least
      <4> QED BY <2>20, <3>3, <4>1, <4>2
    <3>5. Tell(f) + Len(rest) <= MaxLength
      <4>1. Tell(f) + Len(rest) = (pos + k) + (n - k)
        BY <2>4, <3>1 DEF pos
      <4> QED BY <2>20, <2>21, <4>1
    <3> QED BY <3>1, <3>4, <3>5
  <2>6. j = Least(f.size - Len(f.pending), Len(rest))
    OBVIOUS
  <2> HIDE DEF j
  <2>7. /\ Sound(stream') /\ Content(stream') = S!Written(Content(f), Tell(f), SubSeq(rest, 1, j))
        /\ Tell(stream') = Tell(f) + j
    BY <2>1, <2>4, <2>5, <2>6, WriteToBufferAdvances
  <2>8. Content(f) = Content(t) /\ Tell(f) = Tell(stream) + k
    BY <1>6, <2>2 DEF Keeps
  <2>9. SubSeq(rest, 1, j) = rest
    BY <2>4, <2>5, SubSeqFull
  <2>11. Content(stream') = S!Written(Content(stream), Tell(stream), input)
    <3>1. S!Written(S!Written(b, pos, x), pos + Len(x), rest) = S!Written(b, pos, x \o rest)
      <4>1. b \in Seq(Byte) /\ pos \in Nat /\ x \in Seq(Byte) /\ rest \in Seq(Byte)
        BY <2>4, <2>20
      <4> QED BY <4>1, WrittenTwice
    <3>2. Content(f) = S!Written(b, pos, x) /\ Tell(f) = pos + Len(x)
      BY <1>6, <2>4, <2>8 DEF x, b, pos
    <3> QED BY <2>4, <2>7, <2>9, <3>1, <3>2 DEF b, pos
  <2>12. Tell(stream') = Tell(stream) + Len(input)
    <3>1. Tell(stream') = (pos + k) + (n - k)
      BY <2>4, <2>5, <2>7, <2>8 DEF pos
    <3> QED BY <2>21, <3>1 DEF pos, n
  <2>13. Len(input) \in 0 .. Len(input)
    BY <1>4
  <2> QED BY <1>1, <1>4, <2>7, <2>11, <2>12, <2>13, SeesWrite DEF Seen
<1> QED BY <1>7, <1>8

LEMMA WriteFailsIsSeen ==
  ASSUME Sound(stream), NEW input \in Inputs, writeFails(input)
  PROVE  Seen
<1> DEFINE s == Start(stream)
           t == writeToBuffer(s, input)
           k == Least(s.size - Len(s.pending), Len(input))
<1>1. Tell(stream) + Len(input) <= MaxLength /\ result' = result /\ stream' = t
  BY DEF writeFails, ReadyFor
<1>2. Keeps(stream, s) /\ s.ahead = <<>>
  BY StartKeeps
<1>3. t = writeToBuffer(s, input) /\ k = Least(s.size - Len(s.pending), Len(input))
  OBVIOUS
<1> HIDE DEF s, t, k
<1>4. /\ k \in 0 .. Len(input) /\ Sound(t)
      /\ Content(t) = S!Written(Content(stream), Tell(stream), SubSeq(input, 1, k)) /\ Tell(t) = Tell(stream) + k
  BY <1>1, <1>2, <1>3, InputsAreBytes, WriteToBufferAdvances DEF Keeps
<1> QED BY <1>1, <1>4, SeesWrite DEF Seen


\* The whole input, written to the stream below.
LEMMA WriteDirectlyIsSeen ==
  ASSUME Sound(stream), NEW input \in Inputs, writeDirectly(input)
  PROVE  Seen
<1> DEFINE s == Start(stream)
           f == flushWriteBuffer(s)
           t == stream'
<1>1. /\ Tell(stream) + Len(input) <= MaxLength /\ result' = result
      /\ stream' = s \/ stream' = Below(f, input)
  BY DEF writeDirectly, ReadyFor
<1>2. Keeps(stream, s) /\ s.ahead = <<>> /\ s = Start(stream) /\ f = flushWriteBuffer(s)
  BY StartKeeps
<1> HIDE DEF s, f
<1>3. input \in Seq(Byte) /\ Len(input) \in Nat /\ SubSeq(input, 1, Len(input)) = input /\ Len(input) \in 0 .. Len(input)
  BY InputsAreBytes
<1>4. CASE stream' = s
  BY <1>1, <1>2, <1>4, KeepsIsSeen
<1>5. CASE stream' = Below(f, input)
  <2>1. Sound(f) /\ Empty(f) /\ Content(f) = Content(stream) /\ Tell(f) = Tell(stream)
    BY <1>2, FlushKeeps DEF Keeps
  <2>2. Tell(f) + Len(input) <= MaxLength /\ t = Below(f, input)
    BY <1>1, <1>5, <2>1
  <2> HIDE DEF t
  <2>3. Sound(t) /\ Content(t) = S!Written(Content(f), Tell(f), input) /\ Tell(t) = Tell(f) + Len(input)
    BY <1>3, <2>1, <2>2, BelowAdvances
  <2>4. Sound(stream') /\ Tell(stream') = Tell(stream) + Len(input)
        /\ Content(stream') = S!Written(Content(stream), Tell(stream), input)
    BY <2>1, <2>3 DEF t
  <2> QED BY <1>1, <1>3, <2>4, SeesWrite DEF Seen
<1> QED BY <1>1, <1>4, <1>5

LEMMA WriteDirectlyFailsIsSeen ==
  ASSUME Sound(stream), NEW input \in Inputs, writeDirectlyFails(input)
  PROVE  Seen
<1> DEFINE s == Start(stream)
<1>1. result' = result /\ stream' = flushWriteBuffer(s)
  BY DEF writeDirectlyFails
<1>2. Keeps(stream, s) /\ s.ahead = <<>>
  BY StartKeeps
<1> HIDE DEF s
<1>3. Keeps(stream, stream')
  BY <1>1, <1>2, FlushKeeps DEF Keeps
<1> QED BY <1>1, <1>3, KeepsIsSeen

LEMMA WriteByteIsSeen ==
  ASSUME Sound(stream), NEW input \in Inputs, Len(input) = 1, writeByte(input[1])
  PROVE  Seen
<1> DEFINE byte == input[1]
           s == IF Len(stream.pending) = stream.size THEN flushWriteBuffer(stream) ELSE Start(stream)
           t == stream'
<1>1. ReadyFor(<<byte>>) /\ result' = result /\ t = [s EXCEPT !.pending = Append(@, byte)]
  BY DEF writeByte
<1>2. /\ input \in Seq(Byte) /\ byte \in Byte /\ input = <<byte>> /\ SubSeq(input, 1, Len(input)) = input
      /\ Len(input) \in 0 .. Len(input)
  <2>1. input \in Seq(Byte) /\ SubSeq(input, 1, Len(input)) = input
    BY InputsAreBytes
  <2>2. byte \in Byte
    BY <2>1, ElementOfSeq
  <2>3. <<byte>> \in Seq(Byte) /\ Len(<<byte>>) = 1 /\ <<byte>>[1] = byte
    BY <2>2
  <2>4. input = <<byte>>
    <3> HIDE DEF byte
    <3>1. \A i \in 1 .. Len(input) : input[i] = <<byte>>[i]
      BY <2>3 DEF byte
    <3> QED BY <2>1, <2>3, <3>1, SeqEqual
  <2> QED BY <2>1, <2>2, <2>4
<1>3. /\ Sound(s) /\ Content(s) = Content(stream) /\ Tell(s) = Tell(stream) /\ s.ahead = <<>>
      /\ s.pending \in Seq(Byte) /\ Len(s.pending) + 1 <= s.size
  <2>0. /\ stream.size \in Nat \ {0} /\ Len(stream.pending) \in Nat /\ Len(stream.pending) <= stream.size
        /\ (stream.pending = <<>> <=> Len(stream.pending) = 0)
    BY SoundFacts DEF Sound
  <2>1. CASE Len(stream.pending) = stream.size
    <3>1. stream.ahead = <<>> /\ s = flushWriteBuffer(stream)
      BY <2>0, <2>1 DEF Sound
    <3> HIDE DEF s
    <3>2. Keeps(stream, s) /\ Empty(s)
      BY <3>1, FlushKeeps
    <3> QED BY <2>0, <3>2, SoundFacts, EmptySeq DEF Keeps, Empty
  <2>2. CASE Len(stream.pending) # stream.size
    <3>1. s = Start(stream)
      BY <2>2
    <3> HIDE DEF s
    <3>2. Keeps(stream, s) /\ s.ahead = <<>> /\ (stream.pending = <<>> => Empty(s)) /\ (stream.pending # <<>> => s = stream)
      BY <3>1, StartKeeps DEF Start, hasPendingWrite
    <3>3. Len(s.pending) = Len(stream.pending)
      BY <3>2, EmptySeq DEF Empty
    <3> QED BY <2>0, <2>2, <3>2, <3>3, SoundFacts DEF Keeps
  <2> QED BY <2>1, <2>2
<1> HIDE DEF s
<1>4. t = [s EXCEPT !.pending = @ \o input]
  <2>1. Append(s.pending, byte) = s.pending \o input
    BY <1>2, <1>3, AppendIsConcat
  <2> QED BY <1>1, <2>1
<1>5. Len(s.pending) + Len(input) <= s.size /\ Tell(s) + Len(input) <= MaxLength
  BY <1>1, <1>2, <1>3 DEF ReadyFor
<1> HIDE DEF t
<1>6. Sound(t) /\ Content(t) = S!Written(Content(s), Tell(s), input) /\ Tell(t) = Tell(s) + Len(input)
  BY <1>2, <1>3, <1>4, <1>5, PendingAdvances
<1>7. /\ Sound(stream') /\ Tell(stream') = Tell(stream) + Len(input)
      /\ Content(stream') = S!Written(Content(stream), Tell(stream), input)
  BY <1>3, <1>6 DEF t
<1> QED BY <1>1, <1>2, <1>7, SeesWrite DEF Seen

LEMMA SeekIsSeen ==
  ASSUME Sound(stream), NEW offset \in -MaxLength .. MaxLength, NEW origin \in {"Begin", "Current", "End"},
         seek(offset, origin)
  PROVE  Seen
<1> DEFINE s == Flushed(stream)
           to == Target(s, offset, origin)
<1>1. /\ to <= MaxLength
      /\ IF to < 0 THEN stream' = s /\ result' = result ELSE stream' = Sought(s, to) /\ result' = <<to>>
  BY DEF seek
<1>2. Keeps(stream, s) /\ s.pending = <<>> /\ to = Target(s, offset, origin)
  BY FlushedKeeps
<1> HIDE DEF s, to
<1>3. to \in Int
  <2>1. /\ s.pos \in Nat /\ Len(s.ahead) \in Nat /\ s.read_pos \in Nat /\ Len(s.file) \in Nat /\ offset \in Int
    BY <1>2, SoundFacts, BufferedStreamAssumption DEF Keeps
  <2> QED BY <1>2, <2>1 DEF Target
<1>4. CASE to < 0
  BY <1>1, <1>2, <1>4, KeepsIsSeen
<1>5. CASE ~(to < 0)
  <2>1. to \in 0 .. MaxLength
    BY <1>1, <1>3, <1>5, BufferedStreamAssumption
  <2>2. Sound(stream') /\ Content(stream') = Content(s) /\ Tell(stream') = to
    BY <1>1, <1>2, <1>5, <2>1, SoughtGoes DEF Keeps
  <2> QED BY <1>1, <1>2, <1>5, <2>1, <2>2, SeesSeek DEF Seen, Keeps
<1> QED BY <1>4, <1>5

LEMMA SetPositionIsSeen ==
  ASSUME Sound(stream), NEW to \in 0 .. MaxLength, setPosition(to)
  PROVE  Seen
<1> DEFINE d == Discard(Flushed(stream))
           t == stream'
<1>1. t = [d EXCEPT !.pos = to] /\ result' = <<to>>
  BY DEF setPosition
<1>2. Sound(d) /\ Empty(d) /\ Content(d) = Content(stream)
  BY FlushedKeeps, Discards DEF Keeps
<1> HIDE DEF d
<1>3. to \in Nat /\ to <= MaxLength
  BY BufferedStreamAssumption
<1>4. d \in States /\ Len(d.file) <= MaxLength /\ d.file = Content(stream)
  BY <1>2, SoundFacts DEF Sound, Empty
<1> HIDE DEF t
<1>5. t \in States /\ Empty(t) /\ t.pos = to /\ t.file = d.file
  BY <1>1, <1>2, <1>3, <1>4 DEF States, Empty
<1>6. Sound(t) /\ Content(t) = t.file /\ Tell(t) = t.pos
  BY <1>3, <1>4, <1>5, EmptyIsSound
<1> QED BY <1>1, <1>4, <1>5, <1>6, SeesSeek DEF Seen, t

LEMMA GetPositionIsSeen ==
  ASSUME Sound(stream), getPosition
  PROVE  Seen
<1>1. stream' = stream /\ result' = <<Tell(stream)>>
  BY DEF getPosition
<1>2. Contract!Tell
  BY <1>1 DEF Contract!Tell
<1> QED BY <1>1, <1>2 DEF Seen, Contract!Next

LEMMA GetLengthIsSeen ==
  ASSUME Sound(stream), getLength
  PROVE  Seen
<1>1. stream' = Flushed(stream) /\ result' = <<Len(stream'.file)>>
  BY DEF getLength
<1>2. Keeps(stream, stream') /\ stream'.pending = <<>>
  BY <1>1, FlushedKeeps
<1>3. stream'.file = Content(stream)
  BY <1>2, SoundFacts DEF Keeps
<1>4. Contract!GetLength
  BY <1>1, <1>2, <1>3 DEF Contract!GetLength, Keeps, Content
<1> QED BY <1>2, <1>4 DEF Seen, Contract!Next, Keeps

LEMMA ResizedLength ==
  ASSUME NEW b \in Seq(Byte), NEW n \in Nat
  PROVE  S!Resized(b, n) \in Seq(Byte) /\ Len(S!Resized(b, n)) = n
<1> DEFINE r == [i \in 1 .. n |-> IF i <= Len(b) THEN b[i] ELSE 0]
<1>1. S!Resized(b, n) = r
  BY DEF S!Resized
<1>2. ASSUME NEW i \in 1 .. n PROVE (IF i <= Len(b) THEN b[i] ELSE 0) \in Byte
  <2>1. CASE i <= Len(b)
    <3>1. i \in 1 .. Len(b)
      BY <2>1, LenProperties
    <3>2. b[i] \in Byte
      BY <3>1, ElementOfSeq
    <3> QED BY <2>1, <3>2
  <2>2. CASE ~(i <= Len(b))
    BY <2>2 DEF Byte
  <2> QED BY <2>1, <2>2
<1>3. r \in [1 .. n -> Byte]
  BY <1>2
<1> HIDE DEF r
<1>4. r \in Seq(Byte) /\ DOMAIN r = 1 .. n
  BY <1>3
<1>5. Len(r) = n
  BY <1>4, LenProperties
<1> QED BY <1>1, <1>4, <1>5

LEMMA SetLengthIsSeen ==
  ASSUME Careful, Sound(stream), NEW n \in 0 .. MaxLength, setLength(n)
  PROVE  Seen
<1> DEFINE f == flushBuffers(stream)
           t == stream'
           r == S!Resized(f.file, n)
<1>1. t = [f EXCEPT !.file = r] /\ result' = result /\ ~Spent(stream)
  BY DEF setLength
<1>2. Keeps(stream, f) /\ f.pending = <<>> /\ Empty(f)
  BY <1>1, FlushBuffersKeeps
<1>3. n \in Nat /\ n <= MaxLength
  BY BufferedStreamAssumption
<1> HIDE DEF f, t
<1>4. f \in States /\ f.file \in Seq(Byte) /\ f.file = Content(stream) /\ f.pos \in Nat /\ f.pos <= MaxLength
  <2>1. /\ Sound(f) /\ f.file \in Seq(Byte) /\ f.pos \in Nat /\ Content(f) = f.file /\ Content(f) = Content(stream)
        /\ Len(f.pending) = 0
    BY <1>2, SoundFacts, EmptySeq DEF Keeps
  <2>2. f \in States /\ f.pos + Len(f.pending) <= MaxLength
    BY <2>1 DEF Sound
  <2> QED BY <2>1, <2>2
<1>5. r \in Seq(Byte) /\ Len(r) = n /\ r = S!Resized(Content(stream), n)
  BY <1>3, <1>4, ResizedLength
<1> HIDE DEF r
<1>6. t \in States /\ Empty(t) /\ t.file = r /\ t.pos = f.pos
  BY <1>1, <1>2, <1>4, <1>5 DEF States, Empty
<1>7. Sound(t) /\ Content(t) = r /\ Tell(t) = f.pos
  BY <1>3, <1>4, <1>5, <1>6, EmptyIsSound
<1>8. Tell(t) \in 0 .. MaxLength
  BY <1>4, <1>7, BufferedStreamAssumption
<1> QED BY <1>1, <1>5, <1>7, <1>8, SeesSetLength DEF Seen, t

LEMMA SetBufferSizeIsSeen ==
  ASSUME Careful, Sound(stream), NEW size \in BufferSizes, setBufferSize(size)
  PROVE  Seen
<1> DEFINE f == flushBuffers(stream)
           t == stream'
<1>1. t = [f EXCEPT !.size = size] /\ result' = result /\ ~Spent(stream)
  BY DEF setBufferSize
<1>2. Keeps(stream, f) /\ f.pending = <<>> /\ Empty(f)
  BY <1>1, FlushBuffersKeeps
<1> HIDE DEF f, t
<1>3. f \in States /\ f.file = Content(stream) /\ f.pos \in Nat /\ f.pos <= MaxLength /\ Len(f.file) <= MaxLength
      /\ Sound(f) /\ Tell(f) = Tell(stream)
  BY SMTT(30), <1>2, SoundFacts, EmptySeq DEF Keeps, Sound
<1>4. t \in States /\ Empty(t) /\ t.file = f.file /\ t.pos = f.pos
  BY <1>1, <1>2, <1>3 DEF States, Empty
<1>5. Sound(t) /\ Content(t) = Content(stream) /\ Tell(t) = f.pos /\ Tell(f) = f.pos
  BY <1>2, <1>3, <1>4, EmptyIsSound
<1>6. UNCHANGED Contract!vars
  BY <1>1, <1>3, <1>5 DEF Contract!vars, Content, t
<1> QED BY <1>5, <1>6 DEF Seen, t

LEMMA FlushIsSeen ==
  ASSUME Sound(stream), flush
  PROVE  Seen
BY FlushBuffersKeeps, KeepsIsSeen DEF flush

LEMMA CloseIsSeen ==
  ASSUME Sound(stream), close
  PROVE  Seen
<1>1. result' = result
  BY DEF close
<1>2. CASE hasPendingWrite(stream)
  <2>1. stream' = flushWriteBuffer(stream) /\ stream.ahead = <<>>
    BY <1>2 DEF close, hasPendingWrite, Sound
  <2> QED BY <1>1, <2>1, FlushKeeps, KeepsIsSeen
<1>3. CASE ~hasPendingWrite(stream)
  <2>1. stream' = Discard(stream) /\ stream.pending = <<>>
    BY <1>3 DEF close, hasPendingWrite
  <2>2. Sound(stream') /\ Content(stream') = Content(stream)
    BY <2>1, Discards
  <2>3. Tell(stream') \in 0 .. MaxLength
    BY <2>2, SoundFacts
  <2> QED BY <1>1, <2>2, <2>3, SeesReopen DEF Seen
<1> QED BY <1>2, <1>3

\* The stream below may have taken some of the bytes that stay pending.
LEMMA ThrowsIsSound ==
  ASSUME Sound(stream), Throws
  PROVE  Sound(stream') /\ (Whole => UNCHANGED Contract!vars)
<1> DEFINE p == stream.pending
           t == stream'
<1>1. stream.ahead = <<>> /\ p \in Seq(Byte) /\ Len(p) \in Nat /\ result' = result /\ stream \in States
  BY SoundFacts DEF Throws, hasPendingWrite, Sound
<1>2. PICK k \in 0 .. Len(p) : Tell(stream) + k <= MaxLength /\ t = Below(stream, SubSeq(p, 1, k)) /\ (Whole => k = 0)
  <2>1. 0 \in 0 .. Len(p) /\ 0 .. Len(p) - 1 \subseteq 0 .. Len(p)
    BY <1>1
  <2> QED BY <2>1 DEF Throws
<1> DEFINE x == SubSeq(p, 1, k)
<1>3. x \in Seq(Byte) /\ Len(x) = k
  <2> DEFINE m == k + 1
  <2>1. m = k + 1
    OBVIOUS
  <2> HIDE DEF m, p
  <2> QED BY <1>1, <2>1, Parts
<1>4. stream.pos \in Nat /\ Len(stream.ahead) = 0 /\ stream.read_pos = 0 /\ Tell(stream) = stream.pos + Len(p)
  BY <1>1, SoundFacts, EmptySeq DEF Tell
<1>5. stream.pos + Len(x) <= MaxLength /\ t = Below(stream, x) /\ k \in Nat
      /\ (stream.pos + k) + Len(p) <= MaxLength
  <2> DEFINE a == stream.pos
             n == Len(p)
  <2>1. a \in Nat /\ n \in Nat /\ k \in Nat /\ a + n + k <= MaxLength /\ MaxLength \in Nat
    BY <1>1, <1>2, <1>4, BufferedStreamAssumption
  <2>2. a + k <= MaxLength /\ (a + k) + n <= MaxLength
    <3> HIDE DEF a, n
    <3> QED BY <2>1
  <2> QED BY <1>2, <1>3, <2>1, <2>2
<1> HIDE DEF x, t
<1>6. /\ t \in States /\ Len(t.file) <= MaxLength
      /\ t.file = S!Written(stream.file, stream.pos, x) /\ t.pos = stream.pos + Len(x)
      /\ t.pending = p /\ t.ahead = <<>> /\ t.read_pos = 0 /\ t.size = stream.size
  BY <1>1, <1>3, <1>5, BelowWrites
<1>7. Sound(t)
  <2> DEFINE e == [t EXCEPT !.pending = <<>>]
  <2>1. e \in States /\ Empty(e) /\ e.pos = t.pos /\ e.file = t.file /\ e.ahead = t.ahead
    BY <1>6, EmptySeq DEF States, Empty
  <2>2. t.pos <= MaxLength /\ t.pos + Len(p) <= MaxLength
    BY <1>3, <1>5, <1>6
  <2> HIDE DEF e
  <2>3. Sound(e)
    BY <1>6, <2>1, <2>2, EmptyIsSound
  <2>4. Len(t.ahead) <= t.pos /\ t.ahead = S!BytesAt(t.file, t.pos - Len(t.ahead), Len(t.ahead))
    BY <2>1, <2>3 DEF Sound
  <2>5. 0 <= Len(t.ahead) /\ Len(t.ahead) <= t.size /\ Len(t.pending) <= t.size
    BY <1>6, EmptySeq, SoundFacts DEF Sound
  <2> QED BY <1>6, <2>2, <2>4, <2>5 DEF Sound
<1>8. ASSUME Whole PROVE UNCHANGED Contract!vars
  <2>1. k = 0 /\ x = <<>>
    BY <1>2, <1>3, <1>8, EmptySeq
  <2>2. t.file = stream.file /\ t.pos = stream.pos
    BY <1>3, <1>4, <1>6, <2>1, WrittenNothing
  <2>3. Content(t) = Content(stream) /\ Tell(t) = Tell(stream)
    BY <1>1, <1>4, <1>6, <2>2 DEF Content, Tell
  <2> QED BY <1>1, <2>3 DEF Contract!vars, Content, t
<1> QED BY <1>7, <1>8 DEF t

------------------------------------------------------------------------------
(* The invariant of a BufferedStream, and its contract. *)

BInv == Sound(stream) /\ open \in BOOLEAN /\ panicked \in {"no", "hasPendingWrite"}

LEMMA BufferedInit ==
  Init => BInv /\ Contract!Init
<1> SUFFICES ASSUME Init PROVE BInv /\ Contract!Init
  OBVIOUS
<1> USE BufferedStreamAssumption
<1>1. PICK size \in BufferSizes :
        stream = [file |-> <<>>, pos |-> 0, pending |-> <<>>, ahead |-> <<>>, read_pos |-> 0, size |-> size]
  BY DEF Init
<1>2. stream \in States /\ Empty(stream) /\ stream.pos = 0 /\ stream.file = <<>>
  BY <1>1, EmptySeq DEF States, Empty
<1>3. Sound(stream) /\ Content(stream) = <<>> /\ Tell(stream) = 0
  <2>1. Len(stream.file) = 0
    BY <1>2, EmptySeq
  <2> QED BY <1>2, <2>1, EmptyIsSound
<1>4. result = <<>> /\ open = TRUE /\ panicked = "no"
  BY DEF Init
<1> QED BY <1>3, <1>4 DEF BInv, Contract!Init, Content

\* Where a caller drops a buffer it has read to its end before it changes the
\* length, or the buffer's size.
LEMMA BufferedNext ==
  ASSUME Careful, BInv, [Next]_vars
  PROVE  BInv' /\ (Whole => Contract!Next \/ UNCHANGED Contract!vars)
<1>1. Sound(stream)
  BY DEF BInv
<1>2. CASE UNCHANGED vars
  BY <1>1, <1>2 DEF vars, BInv, Contract!vars
<1>3. ASSUME Next PROVE Seen \/ Throws
  <2>1. CASE \E n \in 1 .. MaxLength : readFromBuffer(n) \/ readAtMost(n) \/ readAtMostFails(n)
    BY <1>1, <2>1, ReadFromBufferIsSeen, ReadAtMostIsSeen, ReadAtMostFailsIsSeen
  <2>2. CASE tryReadByte
    BY <1>1, <2>2, TryReadByteIsSeen
  <2>3. CASE \E input \in Inputs :
               \/ write(input) \/ writeFails(input)
               \/ writeDirectly(input) \/ writeDirectlyFails(input)
               \/ Len(input) = 1 /\ writeByte(input[1])
    BY <1>1, <2>3, WriteIsSeen, WriteFailsIsSeen, WriteDirectlyIsSeen, WriteDirectlyFailsIsSeen, WriteByteIsSeen
  <2>4. CASE \E offset \in -MaxLength .. MaxLength, origin \in {"Begin", "Current", "End"} : seek(offset, origin)
    BY <1>1, <2>4, SeekIsSeen
  <2>5. CASE \E n \in 0 .. MaxLength : setPosition(n) \/ setLength(n)
    BY <1>1, <2>5, SetPositionIsSeen, SetLengthIsSeen
  <2>6. CASE \E size \in BufferSizes : setBufferSize(size)
    BY <1>1, <2>6, SetBufferSizeIsSeen
  <2>7. CASE getPosition \/ getLength \/ flush \/ close
    BY <1>1, <2>7, GetPositionIsSeen, GetLengthIsSeen, FlushIsSeen, CloseIsSeen
  <2>8. CASE openInternal
    BY <1>1, <2>8 DEF openInternal, Seen, Contract!vars
  <2> QED BY <1>3, <2>1, <2>2, <2>3, <2>4, <2>5, <2>6, <2>7, <2>8 DEF Next
<1>4. CASE Next
  <2>1. Sound(stream') /\ (Whole => Contract!Next \/ UNCHANGED Contract!vars)
    BY <1>1, <1>3, <1>4, ThrowsIsSound DEF Seen
  <2>2. open' \in BOOLEAN /\ panicked' \in {"no", "hasPendingWrite"}
    BY <1>4 DEF BInv, Next, readFromBuffer, readAtMost, readAtMostFails, tryReadByte, write, writeFails, writeDirectly,
       writeDirectlyFails, writeByte, seek, setPosition, setLength, setBufferSize, getPosition, getLength, flush, close,
       openInternal, Throws
  <2> QED BY <2>1, <2>2 DEF BInv
<1> QED BY <1>2, <1>4

\* Whatever is read, written, sought and flushed in any order, through a buffer of
\* any size, and whichever call of the stream below throws: the bytes read ahead
\* are those just before the position of the stream below, and lie under no byte
\* to write.  Of setLength and setBufferSize this needs callers who drop a buffer
\* they have read to its end (BufferedStream::flushBuffers keeps it).
THEOREM AheadStaysCurrent ==
  ASSUME Careful
  PROVE  Spec => []AheadIsCurrent
<1>1. Init => BInv
  BY BufferedInit
<1>2. BInv /\ [Next]_vars => BInv'
  BY BufferedNext
<1>3. BInv => AheadIsCurrent
  <2> SUFFICES ASSUME BInv PROVE AheadIsCurrent
    OBVIOUS
  <2>1. /\ stream.pos \in Nat /\ stream.read_pos \in Nat /\ stream.size \in BufferSizes /\ Len(stream.pending) \in Nat
        /\ Len(stream.ahead) \in Nat
    BY SoundFacts DEF BInv
  <2>2. stream.pos \in 0 .. MaxLength /\ stream.read_pos \in 0 .. Len(stream.ahead)
    BY <2>1, BufferedStreamAssumption DEF BInv, Sound
  <2> QED BY <2>1, <2>2 DEF BInv, Sound, AheadIsCurrent, TypeOK
<1> QED BY <1>1, <1>2, <1>3, PTL DEF Spec

\* A BufferedStream over a stream that throws before it has written anything is a
\* stream: its callers cannot tell that there is a buffer.
THEOREM BufferedIsAStream ==
  ASSUME Careful, Whole
  PROVE  Spec => ImplementsStream
<1>1. Init => BInv /\ Contract!Init
  BY BufferedInit
<1>2. BInv /\ [Next]_vars => BInv' /\ [Contract!Next]_(Contract!vars)
  BY BufferedNext
<1>3. BInv /\ [Next]_vars => BInv' /\ [Contract!Next]_<<S!Written(stream.file, stream.pos, stream.pending), Tell(stream), result>>
  BY <1>2 DEF Contract!vars
<1>4. Spec => Contract!Init /\ [][Contract!Next]_<<S!Written(stream.file, stream.pos, stream.pending), Tell(stream), result>>
  BY <1>1, <1>3, PTL DEF Spec
<1> QED BY <1>4 DEF ImplementsStream, Contract!Spec, Contract!vars


------------------------------------------------------------------------------
(* The memory stream. *)

\* A stream of l bytes in the memory m, of which c may be its own.
Fits(m, l, c) ==
  /\ m \in Seq(Byte) /\ l \in 0 .. Len(m) /\ l <= MaxLength
  /\ c \in Int /\ c <= MaxCapacity
  /\ mode = "expandable" => Len(m) = IF c > 0 THEN c ELSE 0
  /\ mode # "expandable" => c <= 0

MInv ==
  /\ mode \in {"closed", "read", "write", "expandable"}
  /\ Fits(memory, length, capacity)
  /\ mode = "closed" => memory = <<>>
  /\ position \in 0 .. MaxLength

Shown == SubSeq(memory, 1, length)

\* c are the first bytes of m, as far as the memory stream reaches.
Starts(m, c, l) == c \in Seq(Byte) /\ Len(c) = l /\ \A i \in 1 .. l : c[i] = m[i]

LEMMA ShownStarts ==
  ASSUME NEW m \in Seq(Byte), NEW l \in 0 .. Len(m)
  PROVE  Starts(m, SubSeq(m, 1, l), l)
<1>1. l \in Int /\ l <= Len(m) /\ 1 \in Nat \ {0} /\ l \in Nat
  BY LenProperties
<1>2. /\ SubSeq(m, 1, l) \in Seq(Byte)
      /\ Len(SubSeq(m, 1, l)) = IF 1 <= l THEN l - 1 + 1 ELSE 0
      /\ \A i \in 1 .. l - 1 + 1 : SubSeq(m, 1, l)[i] = m[1 + i - 1]
  BY <1>1, Slice
<1>3. \A i \in 1 .. l : i \in 1 .. l - 1 + 1 /\ 1 + i - 1 = i
  BY <1>1
<1>4. \A i \in 1 .. l : SubSeq(m, 1, l)[i] = m[i]
  BY <1>2, <1>3
<1>5. Len(SubSeq(m, 1, l)) = l
  BY <1>1, <1>2
<1> QED BY <1>2, <1>4, <1>5 DEF Starts

LEMMA StartIsShown ==
  ASSUME NEW m \in Seq(Byte), NEW l \in 0 .. Len(m), NEW c, Starts(m, c, l)
  PROVE  SubSeq(m, 1, l) = c
<1>1. Starts(m, SubSeq(m, 1, l), l)
  BY ShownStarts
<1> DEFINE d == SubSeq(m, 1, l)
<1> HIDE DEF d
<1>2. d \in Seq(Byte) /\ c \in Seq(Byte) /\ Len(d) = Len(c) /\ \A i \in 1 .. Len(d) : d[i] = c[i]
  BY <1>1 DEF Starts, d
<1>3. d = c
  BY <1>2, SeqEqual
<1> QED BY <1>3 DEF d

\* The memory moves to a block of n bytes.
LEMMA Reallocates ==
  ASSUME MInv, NEW n \in Nat, NEW e, e = Memory!Reallocated(n)
  PROVE  /\ e \in Seq(Byte) /\ Len(e) = n
         /\ \A i \in 1 .. n : e[i] = IF i <= Len(memory) THEN memory[i] ELSE Garbage
<1>1. e = [i \in 1 .. n |-> IF i <= Len(memory) THEN memory[i] ELSE Garbage]
  BY DEF Memory!Reallocated
<1>2. memory \in Seq(Byte) /\ Len(memory) \in Nat
  BY LenProperties DEF MInv, Fits
<1>3. ASSUME NEW i \in 1 .. n PROVE (IF i <= Len(memory) THEN memory[i] ELSE Garbage) \in Byte
  <2>1. CASE i <= Len(memory)
    <3>1. i \in 1 .. Len(memory)
      BY <1>2, <2>1
    <3> QED BY <1>2, <2>1, <3>1, ElementOfSeq
  <2>2. CASE ~(i <= Len(memory))
    BY <2>2, MemoryAssumption
  <2> QED BY <2>1, <2>2
<1>4. e \in [1 .. n -> Byte]
  BY <1>1, <1>3
<1> QED BY <1>1, <1>4, BytesAreASeq

LEMMA FillsIn ==
  ASSUME NEW b \in Seq(Byte), NEW at \in Nat, NEW input \in Seq(Byte), NEW f, f = Memory!Filled(b, at, input)
  PROVE  /\ f \in Seq(Byte) /\ Len(f) = Len(b)
         /\ \A i \in 1 .. Len(b) : f[i] = IF at < i /\ i <= at + Len(input) THEN input[i - at] ELSE b[i]
<1> DEFINE n == Len(b)
<1>1. n \in Nat /\ DOMAIN b = 1 .. n /\ Len(input) \in Nat
  BY LenProperties
<1> HIDE DEF n
<1>2. f = [i \in 1 .. n |-> IF at < i /\ i <= at + Len(input) THEN input[i - at] ELSE b[i]]
  BY <1>1 DEF Memory!Filled
<1>3. ASSUME NEW i \in 1 .. n PROVE (IF at < i /\ i <= at + Len(input) THEN input[i - at] ELSE b[i]) \in Byte
  <2>1. CASE at < i /\ i <= at + Len(input)
    <3>1. i - at \in 1 .. Len(input)
      BY <1>1, <2>1
    <3> QED BY <2>1, <3>1, ElementOfSeq
  <2>2. CASE ~(at < i /\ i <= at + Len(input))
    BY <2>2, ElementOfSeq DEF n
  <2> QED BY <2>1, <2>2
<1>4. f \in [1 .. n -> Byte]
  BY <1>2, <1>3
<1>5. f \in Seq(Byte) /\ Len(f) = n
  BY <1>1, <1>4, BytesAreASeq
<1> QED BY <1>2, <1>5 DEF n

\* The bytes of the stream stay where they are.
KeepsBytes(e) == length <= Len(e) /\ \A i \in 1 .. length : e[i] = memory[i]

LEMMA EnsuredFits ==
  ASSUME MInv, NEW n \in Nat, Memory!CanEnsure(n), NEW e, e = Memory!Ensured(n), NEW c, c = Memory!Capacity(n)
  PROVE  Fits(e, length, c) /\ KeepsBytes(e) /\ n <= Len(e)
<1> USE MemoryAssumption, BufferedStreamAssumption
<1>1. /\ memory \in Seq(Byte) /\ Len(memory) \in Nat /\ length \in 0 .. Len(memory) /\ length <= MaxLength
      /\ capacity \in Int /\ capacity <= MaxCapacity
      /\ mode = "expandable" => Len(memory) = IF capacity > 0 THEN capacity ELSE 0
      /\ mode # "expandable" => capacity <= 0
  BY LenProperties DEF MInv, Fits
<1>2. CASE n <= capacity
  <2>1. e = memory /\ c = capacity
    BY <1>2 DEF Memory!Ensured, Memory!Capacity
  <2>2. n <= Len(e)
    BY <1>1, <1>2, <2>1
  <2> QED BY <1>1, <2>1, <2>2 DEF Fits, KeepsBytes
<1>3. CASE ~(n <= capacity)
  <2> DEFINE k == Memory!NewCapacity(n)
  <2>1. e = Memory!Reallocated(k) /\ c = k /\ mode = "expandable" /\ n <= MaxCapacity
    BY <1>3 DEF Memory!Ensured, Memory!Capacity, Memory!CanEnsure
  <2>2. k \in Nat /\ n <= k /\ k <= MaxCapacity /\ k > 0
    BY <1>1, <1>3, <2>1 DEF Memory!NewCapacity
  <2>3. Len(memory) <= k
    BY <1>1, <1>3, <2>1, <2>2
  <2> HIDE DEF k
  <2>4. /\ e \in Seq(Byte) /\ Len(e) = k
        /\ \A i \in 1 .. k : e[i] = IF i <= Len(memory) THEN memory[i] ELSE Garbage
    BY <2>1, <2>2, Reallocates
  <2>5. ASSUME NEW i \in 1 .. length PROVE e[i] = memory[i]
    <3>1. i \in 1 .. k /\ i <= Len(memory)
      BY <1>1, <2>2, <2>3
    <3> QED BY <2>4, <3>1
  <2>6. length \in 0 .. Len(e)
    BY <1>1, <2>2, <2>3, <2>4
  <2>7. KeepsBytes(e)
    BY <2>5, <2>6 DEF KeepsBytes
  <2> QED BY <1>1, <2>1, <2>2, <2>4, <2>6, <2>7 DEF Fits
<1> QED BY <1>2, <1>3

LEMMA Unmoved ==
  ASSUME MInv
  PROVE  KeepsBytes(memory) /\ Starts(memory, Shown, length)
<1>1. memory \in Seq(Byte) /\ length \in 0 .. Len(memory)
  BY DEF MInv, Fits
<1>2. length <= Len(memory)
  BY <1>1, LenProperties
<1>3. KeepsBytes(memory)
  BY <1>2 DEF KeepsBytes
<1>4. Starts(memory, Shown, length)
  BY <1>1, ShownStarts DEF Shown
<1> QED BY <1>3, <1>4

LEMMA ShownKept ==
  ASSUME MInv, NEW e \in Seq(Byte), KeepsBytes(e)
  PROVE  SubSeq(e, 1, length) = Shown
<1>1. Starts(memory, Shown, length) /\ length \in Nat
  BY Unmoved, LenProperties DEF MInv, Fits
<1>2. length \in 0 .. Len(e) /\ Starts(e, Shown, length)
  <2>1. Len(e) \in Nat
    BY LenProperties
  <2> QED BY <1>1, <2>1 DEF Starts, KeepsBytes
<1> QED BY <1>2, StartIsShown

\* Bytes written into, or at the end of, the stream.
LEMMA FilledIsWritten ==
  ASSUME MInv, NEW e \in Seq(Byte), KeepsBytes(e), NEW at \in 0 .. length, NEW input \in Seq(Byte), input # <<>>,
         NEW l, l = (IF at + Len(input) > length THEN at + Len(input) ELSE length), l <= Len(e),
         NEW f, f = Memory!Filled(e, at, input)
  PROVE  f \in Seq(Byte) /\ Len(f) = Len(e) /\ l \in 0 .. Len(f) /\ SubSeq(f, 1, l) = S!Written(Shown, at, input)
<1> DEFINE w == S!Written(Shown, at, input)
           n == Len(input)
           x == Shown
<1>1. /\ length \in Nat /\ at \in Nat /\ at <= length /\ n \in Nat /\ Len(e) \in Nat
      /\ Starts(memory, x, length)
  BY Unmoved, LenProperties DEF MInv, Fits
<1>2. f \in Seq(Byte) /\ Len(f) = Len(e)
      /\ \A i \in 1 .. Len(e) : f[i] = IF at < i /\ i <= at + n THEN input[i - at] ELSE e[i]
  BY <1>1, FillsIn
<1>3. l \in Nat /\ l \in 0 .. Len(f) /\ l >= length /\ (l > length => l = at + n) /\ l = IF at + n > length THEN at + n ELSE length
  BY <1>1, <1>2
<1>4. w = S!Written(x, at, input)
  OBVIOUS
<1> HIDE DEF w, x
<1>5. /\ w \in Seq(Byte)
      /\ Len(w) = IF input # <<>> /\ at + Len(input) > Len(x) THEN at + Len(input) ELSE Len(x)
      /\ \A i \in 1 .. Len(w) :
           w[i] = IF at < i /\ i <= at + Len(input) THEN input[i - at]
                  ELSE IF i <= Len(x) THEN x[i] ELSE 0
  BY <1>1, <1>4, WrittenProperties DEF Starts
<1>6. Len(w) = l
  BY <1>1, <1>3, <1>5 DEF Starts
<1>7. ASSUME NEW i \in 1 .. l PROVE w[i] = f[i]
  <2>1. i \in 1 .. Len(e) /\ i \in 1 .. Len(w) /\ i \in Nat
    BY <1>1, <1>2, <1>3, <1>6
  <2>2. CASE at < i /\ i <= at + n
    BY <1>2, <1>5, <2>1, <2>2
  <2>3. CASE ~(at < i /\ i <= at + n)
    <3>1. i \in 1 .. length
      BY <1>1, <1>3, <2>1, <2>3
    <3>2. f[i] = e[i] /\ e[i] = memory[i] /\ x[i] = memory[i]
      BY <1>1, <1>2, <2>1, <2>3, <3>1 DEF KeepsBytes, Starts
    <3>3. i <= Len(x)
      BY <1>1, <3>1 DEF Starts
    <3> QED BY <1>5, <2>1, <2>3, <3>2, <3>3
  <2> QED BY <2>2, <2>3
<1>8. Starts(f, w, l)
  BY <1>5, <1>6, <1>7 DEF Starts
<1> QED BY <1>2, <1>3, <1>8, StartIsShown DEF w, x


\* What the contract, or an operation beyond it, allows.
Sees == [Memory!Contract!Next]_(Memory!Contract!vars) \/ Memory!Further

MemorySeen == MInv' /\ (mode # "closed" /\ mode' # "closed" => Sees)

LEMMA SeesStay ==
  ASSUME Shown' = Shown, position' = position, returned' = returned
  PROVE  Sees
BY DEF Sees, Shown, Memory!Contract!vars

LEMMA SeesBytes ==
  ASSUME NEW n \in 1 .. MaxLength, Shown' = Shown,
         returned' = S!BytesAt(Shown, position, n), position' = position + Len(returned')
  PROVE  Sees
<1>1. Memory!Contract!Read(n)
  BY DEF Memory!Contract!Read, Memory!Contract!BytesAt, S!BytesAt, Shown
<1> QED BY <1>1 DEF Memory!Contract!Next, Sees

LEMMA SeesBytesThere ==
  ASSUME NEW offset \in 0 .. MaxLength, NEW n \in 1 .. MaxLength, Shown' = Shown,
         returned' = S!BytesAt(Shown, offset, n), position' = position
  PROVE  Sees
<1>1. returned' = Memory!Contract!BytesAt(Shown, offset, n)
  BY DEF Memory!Contract!BytesAt, S!BytesAt
<1> QED BY <1>1 DEF Memory!Further, Memory!Positions, Shown, Sees

LEMMA SeesWritten ==
  ASSUME NEW input \in Contents, NEW k \in 0 .. Len(input), NEW prefix, prefix = SubSeq(input, 1, k),
         Shown' = S!Written(Shown, position, prefix), position' = position + Len(prefix), returned' = returned
  PROVE  Sees
<1>1. Memory!Contract!Write(prefix)
  BY DEF Memory!Contract!Write, Memory!Contract!Written, S!Written, Shown
<1> QED BY <1>1 DEF Memory!Contract!Next, Sees

LEMMA SeesWrittenThere ==
  ASSUME NEW input \in Contents, NEW offset \in 0 .. MaxLength,
         Shown' = S!Written(Shown, offset, input), position' = position, returned' = returned
  PROVE  Sees
<1>1. Shown' = Memory!Contract!Written(Shown, offset, input)
  BY DEF Memory!Contract!Written, S!Written
<1> QED BY <1>1 DEF Memory!Further, Memory!Positions, Shown, Sees

LEMMA SeesSought ==
  ASSUME NEW to \in 0 .. MaxLength, Shown' = Shown, position' = to, returned' = <<to>>
  PROVE  Sees
<1>1. Memory!Contract!Seek(to)
  BY DEF Memory!Contract!Seek, Shown
<1> QED BY <1>1 DEF Memory!Contract!Next, Sees

LEMMA SeesResized ==
  ASSUME NEW n \in 0 .. MaxLength, Shown' = S!Resized(Shown, n), position' \in 0 .. MaxLength, returned' = returned
  PROVE  Sees
<1>1. Memory!Contract!SetLength(n)
  BY DEF Memory!Contract!SetLength, Memory!Contract!Resized, S!Resized, Shown
<1> QED BY <1>1 DEF Memory!Contract!Next, Sees

LEMMA MemoryFacts ==
  ASSUME MInv
  PROVE  /\ memory \in Seq(Byte) /\ Len(memory) \in Nat /\ length \in Nat /\ length <= Len(memory) /\ length <= MaxLength
         /\ capacity \in Int /\ capacity <= MaxCapacity /\ position \in Nat /\ position <= MaxLength
         /\ mode = "expandable" => Len(memory) = IF capacity > 0 THEN capacity ELSE 0
         /\ mode # "expandable" => capacity <= 0
         /\ Shown \in Seq(Byte) /\ Len(Shown) = length
BY Unmoved, LenProperties, BufferedStreamAssumption DEF MInv, Fits, Starts

LEMMA OpensMemory ==
  ASSUME MInv, mode = "closed",
         \/ Memory!openNewBytes
         \/ \E b \in Contents : \E room \in 0 .. MaxCapacity - Len(b) : Memory!adoptAndOpen(b, room)
         \/ \E b \in Contents, writable \in BOOLEAN : Memory!open(b, writable)
  PROVE  MemorySeen
<1> USE MemoryAssumption, BufferedStreamAssumption
<1>1. memory = <<>> /\ length = 0 /\ capacity <= 0 /\ capacity \in Int /\ Len(memory) = 0 /\ position \in 0 .. MaxLength
  BY MemoryFacts, EmptySeq DEF MInv
<1>2. CASE Memory!openNewBytes
  BY <1>1, <1>2 DEF Memory!openNewBytes, MInv, Fits, MemorySeen
<1>3. ASSUME NEW b \in Contents, NEW room \in 0 .. MaxCapacity - Len(b), Memory!adoptAndOpen(b, room)
      PROVE  MemorySeen
  <2> DEFINE more == [i \in 1 .. room |-> Garbage]
  <2>1. b \in Seq(Byte) /\ Len(b) \in Nat /\ Len(b) >= 1 /\ Len(b) <= MaxLength /\ room \in Nat /\ Len(b) + room <= MaxCapacity
    BY LenProperties
  <2>2. more \in [1 .. room -> Byte]
    OBVIOUS
  <2>3. more \in Seq(Byte) /\ Len(more) = room
    BY <2>1, <2>2, BytesAreASeq
  <2>4. mode' = "expandable" /\ memory' = b \o more /\ length' = Len(b) /\ capacity' = Len(b) + room /\ position' = position
    BY <1>3 DEF Memory!adoptAndOpen
  <2> HIDE DEF more
  <2>5. memory' \in Seq(Byte) /\ Len(memory') = Len(b) + room
    BY <2>1, <2>3, <2>4, ConcatProperties
  <2>6. length' \in 0 .. Len(memory') /\ capacity' > 0 /\ capacity' \in Int /\ capacity' <= MaxCapacity
    BY <2>1, <2>4, <2>5
  <2> QED BY <1>1, <2>1, <2>4, <2>5, <2>6 DEF MInv, Fits, MemorySeen
<1>4. ASSUME NEW b \in Contents, NEW writable \in BOOLEAN, Memory!open(b, writable)
      PROVE  MemorySeen
  <2>1. b \in Seq(Byte) /\ Len(b) \in Nat /\ Len(b) <= MaxLength
    BY LenProperties
  <2>2. /\ mode' \in {"read", "write"} /\ memory' = b /\ length' = Len(b)
        /\ capacity' = capacity /\ position' = position
    BY <1>4 DEF Memory!open
  <2> QED BY <1>1, <2>1, <2>2 DEF MInv, Fits, MemorySeen
<1> QED BY <1>2, <1>3, <1>4

LEMMA ReleasesMemory ==
  ASSUME MInv, Memory!closeAndrelease \/ Memory!close
  PROVE  MemorySeen
<1> USE MemoryAssumption, BufferedStreamAssumption
<1>1. memory' = <<>> /\ length' = 0 /\ capacity' = 0 /\ position' \in 0 .. MaxLength
  BY DEF Memory!closeAndrelease, Memory!close, MInv
<1>2. <<>> \in Seq(Byte) /\ Len(<<>>) = 0
  BY EmptySeq
<1>3. mode' \in {"closed", "expandable"}
  BY DEF Memory!closeAndrelease, Memory!close
<1>4. MInv'
  BY <1>1, <1>2, <1>3 DEF MInv, Fits
<1>5. CASE Memory!closeAndrelease
  BY <1>4, <1>5 DEF Memory!closeAndrelease, Memory!Further, Sees, MemorySeen
<1>6. CASE Memory!close
  BY <1>4, <1>6 DEF Memory!close, MemorySeen
<1> QED BY <1>5, <1>6

\* The bytes of a stream that neither grows nor is written to.
LEMMA ReadsMemory ==
  ASSUME MInv, UNCHANGED <<mode, memory, length, capacity>>, position' \in 0 .. MaxLength, Shown' = Shown => Sees
  PROVE  MemorySeen
BY DEF MemorySeen, MInv, Fits, Shown

LEMMA BytesAreShown ==
  ASSUME MInv, NEW offset \in Nat, NEW n \in Nat, NEW r, r = Memory!Bytes(offset, n)
  PROVE  r = S!BytesAt(Shown, offset, n) /\ IsRead(r, Shown, offset, n)
<1> DEFINE m == offset + 1
           k == IF offset + n < length THEN offset + n ELSE length
           x == Shown
<1>1. /\ x \in Seq(Byte) /\ Len(x) = length /\ length \in Nat /\ length <= Len(memory) /\ memory \in Seq(Byte)
      /\ \A i \in 1 .. length : x[i] = memory[i]
  BY MemoryFacts, Unmoved DEF Starts
<1>2. m \in Nat \ {0} /\ k \in Int /\ k <= Len(memory)
  BY <1>1, LenProperties
<1>3. r = SubSeq(memory, m, k)
  BY DEF Memory!Bytes
<1> HIDE DEF m, k, x
<1>4. /\ r \in Seq(Byte)
      /\ Len(r) = IF m <= k THEN k - m + 1 ELSE 0
      /\ \A i \in 1 .. k - m + 1 : r[i] = memory[m + i - 1]
  BY <1>1, <1>2, <1>3, Slice
<1>5. Len(r) = IF offset + n <= Len(x) THEN n ELSE IF offset <= Len(x) THEN Len(x) - offset ELSE 0
  BY <1>1, <1>4 DEF m, k
<1>6. ASSUME NEW i \in 1 .. Len(r) PROVE r[i] = x[offset + i]
  <2>1. i \in 1 .. k - m + 1 /\ m + i - 1 = offset + i /\ offset + i \in 1 .. length
    BY <1>1, <1>4 DEF m, k
  <2>2. r[i] = memory[m + i - 1] /\ x[offset + i] = memory[offset + i]
    BY <1>1, <1>4, <2>1
  <2> QED BY <2>1, <2>2
<1>7. IsRead(r, x, offset, n)
  BY <1>4, <1>5, <1>6 DEF IsRead
<1>8. IsRead(S!BytesAt(x, offset, n), x, offset, n)
  BY <1>1, BytesAtProperties
<1>9. r = S!BytesAt(x, offset, n)
  BY <1>7, <1>8, ReadIsOne
<1> QED BY <1>7, <1>9 DEF x

LEMMA ReadAtMostMemory ==
  ASSUME MInv, NEW n \in 1 .. MaxLength, Memory!readAtMost(n)
  PROVE  MemorySeen
<1>1. /\ returned' = Memory!Bytes(position, n) /\ position' = position + Len(returned')
      /\ UNCHANGED <<mode, memory, length, capacity>>
  BY DEF Memory!readAtMost
<1>2. position \in Nat /\ position <= MaxLength /\ n \in Nat /\ Len(Shown) = length /\ length \in Nat /\ length <= MaxLength
      /\ MaxLength \in Nat
  BY MemoryFacts, BufferedStreamAssumption
<1>3. returned' = S!BytesAt(Shown, position, n) /\ IsRead(returned', Shown, position, n)
  BY <1>1, <1>2, BytesAreShown
<1>4. Len(returned') = IF position + n <= length THEN n ELSE IF position <= length THEN length - position ELSE 0
  BY <1>2, <1>3 DEF IsRead
<1> DEFINE g == Len(returned')
<1> HIDE DEF g
<1>5. g \in Nat /\ position + g \in 0 .. MaxLength
  BY <1>2, <1>4 DEF g
<1>6. position' \in 0 .. MaxLength
  BY <1>1, <1>5 DEF g
<1>7. Shown' = Shown => Sees
  BY <1>1, <1>3, SeesBytes
<1> QED BY <1>1, <1>6, <1>7, ReadsMemory

LEMMA PositionalReadMemory ==
  ASSUME MInv, NEW offset \in 0 .. MaxLength, NEW n \in 1 .. MaxLength, Memory!positionalRead(offset, n)
  PROVE  MemorySeen
<1>1. returned' = Memory!Bytes(offset, n) /\ UNCHANGED <<mode, memory, length, capacity, position>>
  BY DEF Memory!positionalRead
<1>2. offset \in Nat /\ n \in Nat /\ position' \in 0 .. MaxLength
  BY <1>1, BufferedStreamAssumption DEF MInv
<1>3. returned' = S!BytesAt(Shown, offset, n)
  BY <1>1, <1>2, BytesAreShown
<1>4. Shown' = Shown => Sees
  BY <1>1, <1>3, SeesBytesThere
<1> QED BY <1>1, <1>2, <1>4, ReadsMemory

LEMMA SeekMemory ==
  ASSUME MInv, NEW to \in 0 .. MaxLength, Memory!seek(to) \/ Memory!setPosition(to)
  PROVE  MemorySeen
<1>1. position' = to /\ returned' = <<to>> /\ UNCHANGED <<mode, memory, length, capacity>>
  BY DEF Memory!seek, Memory!setPosition
<1>2. Shown' = Shown => Sees
  BY <1>1, SeesSought
<1> QED BY <1>1, <1>2, ReadsMemory

LEMMA GetLengthMemory ==
  ASSUME MInv, Memory!getLength
  PROVE  MemorySeen
<1>1. returned' = <<length>> /\ UNCHANGED <<mode, memory, length, capacity, position>> /\ Len(Shown) = length
  BY MemoryFacts DEF Memory!getLength
<1>2. position' \in 0 .. MaxLength
  BY <1>1 DEF MInv
<1>3. ASSUME Shown' = Shown PROVE Sees
  <2>1. Memory!Contract!GetLength
    BY <1>1, <1>3 DEF Memory!Contract!GetLength, Shown
  <2> QED BY <2>1 DEF Memory!Contract!Next, Sees
<1> QED BY <1>1, <1>2, <1>3, ReadsMemory

\* Growing and writing.
LEMMA EnsureCapacityMemory ==
  ASSUME MInv, NEW n \in 1 .. MaxLength, Memory!ensureCapacity(n)
  PROVE  MemorySeen
<1> DEFINE e == memory'
           c == capacity'
<1>1. /\ mode # "closed" /\ Memory!CanEnsure(n) /\ e = Memory!Ensured(n) /\ c = Memory!Capacity(n)
      /\ UNCHANGED <<mode, length, position, returned>> /\ n \in Nat
  BY DEF Memory!ensureCapacity
<1> HIDE DEF e, c
<1>2. Fits(e, length, c) /\ KeepsBytes(e)
  BY <1>1, EnsuredFits
<1>3. SubSeq(e, 1, length) = Shown
  BY <1>2, ShownKept DEF Fits
<1>4. Shown' = Shown
  BY <1>1, <1>3 DEF e, Shown
<1>5. MInv'
  BY <1>1, <1>2 DEF MInv, Fits, e, c
<1> QED BY <1>1, <1>4, <1>5, SeesStay DEF MemorySeen

LEMMA StoredIsWritten ==
  ASSUME MInv, NEW at \in Nat, NEW input \in Contents, Memory!Stored(at, input), UNCHANGED mode,
         position' \in 0 .. MaxLength \/ position' = at + Len(input)
  PROVE  MInv' /\ Shown' = S!Written(Shown, at, input)
<1> USE MemoryAssumption, BufferedStreamAssumption
<1> DEFINE after == at + Len(input)
           grows == after > length
           e == IF grows THEN Memory!Ensured(after) ELSE memory
           c == IF grows THEN Memory!Capacity(after) ELSE capacity
           l == IF at + Len(input) > length THEN at + Len(input) ELSE length
           f == memory'
<1>1. input \in Seq(Byte) /\ Len(input) \in Nat /\ input # <<>> /\ after \in Nat /\ length \in Nat
  BY LenProperties, EmptySeq, MemoryFacts
<1>2. /\ at <= length /\ after <= MaxCapacity /\ (grows => Memory!CanEnsure(after)) /\ mode \in {"write", "expandable"}
      /\ length' = l /\ f = Memory!Filled(e, at, input) /\ capacity' = c
  BY DEF Memory!Stored
<1>3. Fits(e, length, c) /\ KeepsBytes(e) /\ l <= Len(e)
  <2>1. CASE grows
    <3>1. e = Memory!Ensured(after) /\ c = Memory!Capacity(after) /\ l = after /\ Memory!CanEnsure(after)
      BY <1>2, <2>1
    <3> HIDE DEF e, c, l, after, grows
    <3> QED BY <1>1, <3>1, EnsuredFits
  <2>2. CASE ~grows
    <3>1. e = memory /\ c = capacity /\ l = length
      BY <2>2
    <3> HIDE DEF e, c, l, after, grows
    <3> QED BY <1>1, <3>1, Unmoved, MemoryFacts DEF MInv
  <2> QED BY <2>1, <2>2
<1>4. at \in 0 .. length /\ e \in Seq(Byte) /\ l = (IF at + Len(input) > length THEN at + Len(input) ELSE length)
  BY <1>1, <1>2, <1>3 DEF Fits
<1>5. l \in Nat /\ l <= MaxLength /\ (position' = at + Len(input) => position' \in 0 .. MaxLength)
  BY <1>1, <1>2, MemoryFacts
<1>6. input \in Seq(Byte) /\ input # <<>> /\ KeepsBytes(e) /\ l <= Len(e) /\ f = Memory!Filled(e, at, input)
  BY <1>1, <1>2, <1>3
<1> HIDE DEF e, c, l, f, grows, after
<1>7. f \in Seq(Byte) /\ Len(f) = Len(e) /\ l \in 0 .. Len(f) /\ SubSeq(f, 1, l) = S!Written(Shown, at, input)
  BY <1>4, <1>6, FilledIsWritten
<1>8. Fits(f, l, c)
  BY <1>3, <1>5, <1>7 DEF Fits
<1>9. MInv'
  BY <1>2, <1>5, <1>8 DEF MInv, Fits, f
<1>10. SubSeq(f, 1, l) = S!Written(Shown, at, input)
  BY <1>7
<1> QED BY <1>2, <1>9, <1>10 DEF Shown, f

LEMMA WriteMemory ==
  ASSUME MInv, NEW input \in Contents, Memory!write(input)
  PROVE  MemorySeen
<1>1. Memory!Stored(position, input) /\ position' = position + Len(input) /\ UNCHANGED <<mode, returned>>
  BY DEF Memory!write
<1>2. MInv' /\ Shown' = S!Written(Shown, position, input)
  BY <1>1, MemoryFacts, StoredIsWritten
<1>3. input \in Seq(Byte) /\ Len(input) \in 0 .. Len(input) /\ input = SubSeq(input, 1, Len(input))
  <2>1. input \in Seq(Byte)
    BY MemoryAssumption
  <2> QED BY <2>1, LenProperties, SubSeqFull
<1>4. Sees
  BY <1>1, <1>2, <1>3, SeesWritten
<1> QED BY <1>2, <1>4 DEF MemorySeen

LEMMA PositionalWriteMemory ==
  ASSUME MInv, NEW input \in Contents, NEW offset \in 0 .. MaxLength, Memory!positionalWrite(offset, input)
  PROVE  MemorySeen
<1>1. Memory!Stored(offset, input) /\ UNCHANGED <<mode, position, returned>>
  BY DEF Memory!positionalWrite
<1>2. offset \in Nat /\ position' \in 0 .. MaxLength
  BY <1>1, BufferedStreamAssumption DEF MInv
<1>3. MInv' /\ Shown' = S!Written(Shown, offset, input)
  BY <1>1, <1>2, StoredIsWritten
<1>4. Sees
  BY <1>1, <1>3, SeesWrittenThere
<1> QED BY <1>3, <1>4 DEF MemorySeen

\* At the end of the stream there is no gap to clear.
LEMMA FilledWithNothing ==
  ASSUME NEW b \in Seq(Byte), NEW at \in Nat
  PROVE  Memory!Filled(b, at, <<>>) = b
<1> DEFINE z == <<>>
           f == Memory!Filled(b, at, z)
<1>1. z \in Seq(Byte)
  BY EmptySeq
<1>2. f = Memory!Filled(b, at, z)
  OBVIOUS
<1> HIDE DEF f, z
<1>3. f \in Seq(Byte) /\ Len(f) = Len(b)
      /\ \A i \in 1 .. Len(b) : f[i] = IF at < i /\ i <= at + Len(z) THEN z[i - at] ELSE b[i]
  BY <1>1, <1>2, FillsIn
<1>4. Len(z) = 0 /\ Len(b) \in Nat
  BY EmptySeq, LenProperties DEF z
<1>5. \A i \in 1 .. Len(b) : f[i] = b[i]
  BY <1>3, <1>4
<1>6. f = b
  BY <1>3, <1>5, SeqEqual
<1> QED BY <1>6 DEF f, z

LEMMA WriteByteMemory ==
  ASSUME MInv, NEW input \in Contents, Memory!writeByte(input[1])
  PROVE  MemorySeen
<1> USE MemoryAssumption, BufferedStreamAssumption
<1> DEFINE byte == input[1]
           x == <<byte>>
           n == position + 1
           e == IF position < length THEN memory ELSE Memory!Ensured(n)
           c == IF position < length THEN capacity ELSE Memory!Capacity(n)
           l == IF position + Len(x) > length THEN position + Len(x) ELSE length
           f == memory'
<1>1. input \in Seq(Byte) /\ Len(input) \in Nat /\ 1 \in 0 .. Len(input) /\ 1 \in 1 .. Len(input)
  BY LenProperties
<1>2. byte \in Byte
  BY <1>1, ElementOfSeq
<1>3. x = SubSeq(input, 1, 1)
  <2>1. Len(SubSeq(input, 1, 1)) = 1 /\ SubSeq(input, 1, 1)[1] = byte /\ SubSeq(input, 1, 1) \in Seq(Byte)
    BY <1>1, Slice
  <2>2. x \in Seq(Byte) /\ Len(x) = 1 /\ x[1] = byte
    BY <1>2
  <2> HIDE DEF x
  <2> QED BY <2>1, <2>2, SeqEqual
<1>4. x \in Seq(Byte) /\ Len(x) = 1 /\ x # <<>>
  BY <1>2
<1>5. position \in Nat /\ length \in Nat /\ n \in Nat /\ position <= length /\ length <= MaxLength /\ capacity \in Int
      /\ capacity <= MaxCapacity
  BY MemoryFacts DEF Memory!writeByte
<1>6. mode \in {"write", "expandable"} /\ position' = n /\ UNCHANGED <<mode, returned>>
  BY DEF Memory!writeByte
<1>7. /\ Fits(e, length, c) /\ KeepsBytes(e) /\ l <= Len(e) /\ l <= MaxLength
      /\ f = Memory!Filled(e, position, x) /\ length' = l /\ capacity' = c
  <2>1. CASE position < length
    <3>1. e = memory /\ c = capacity /\ l = length /\ f = Memory!Filled(memory, position, x) /\ UNCHANGED <<length, capacity>>
      BY <1>4, <1>5, <2>1 DEF Memory!writeByte
    <3> HIDE DEF e, c, l, x, f
    <3> QED BY <3>1, <1>5, Unmoved, MemoryFacts DEF MInv
  <2>2. CASE ~(position < length)
    <3> DEFINE gap == [i \in 1 .. position - length |-> 0]
    <3>1. /\ Memory!CanEnsure(n) /\ f = Memory!Filled(Memory!Filled(Memory!Ensured(n), 0, gap), position, x)
          /\ capacity' = Memory!Capacity(n) /\ length' = n
      BY <2>2 DEF Memory!writeByte
    <3>2. e = Memory!Ensured(n) /\ c = Memory!Capacity(n) /\ l = n /\ position = length
      BY <1>4, <1>5, <2>2
    <3>3. gap = <<>>
      <4>1. 1 .. position - length = {}
        BY <1>5, <3>2
      <4>2. gap = [i \in {} |-> 0]
        BY <4>1
      <4>3. gap \in Seq(Byte) /\ Len(gap) = 0
        <5>1. gap \in [1 .. 0 -> Byte]
          BY <1>5, <3>2 DEF Byte
        <5> HIDE DEF gap
        <5> QED BY <5>1, BytesAreASeq
      <4> HIDE DEF gap
      <4> QED BY <4>3, EmptySeq
    <3> HIDE DEF e, c, l, n, x, f, gap
    <3>4. Fits(e, length, c) /\ KeepsBytes(e) /\ n <= Len(e)
      BY <1>5, <3>1, <3>2, EnsuredFits
    <3>5. f = Memory!Filled(Memory!Filled(e, 0, <<>>), position, x)
      BY <3>1, <3>2, <3>3
    <3>6. Memory!Filled(e, 0, <<>>) = e
      BY <3>4, FilledWithNothing DEF Fits
    <3>7. l <= MaxLength
      <4>1. Memory!CanEnsure(n) /\ n <= MaxCapacity
        BY <3>1, <1>5 DEF Memory!CanEnsure
      <4> QED BY <1>5, <3>2, <4>1
    <3> QED BY <3>1, <3>2, <3>4, <3>5, <3>6, <3>7
  <2> QED BY <2>1, <2>2
<1>8. position \in 0 .. length /\ e \in Seq(Byte) /\ l = (IF position + Len(x) > length THEN position + Len(x) ELSE length)
      /\ n \in 0 .. MaxLength
  BY <1>4, <1>5, <1>7 DEF Fits
<1>9. /\ x \in Seq(Byte) /\ x # <<>> /\ KeepsBytes(e) /\ l <= Len(e) /\ f = Memory!Filled(e, position, x)
  BY <1>4, <1>7
<1> HIDE DEF e, c, l, f, x, n
<1>10. f \in Seq(Byte) /\ Len(f) = Len(e) /\ l \in 0 .. Len(f) /\ SubSeq(f, 1, l) = S!Written(Shown, position, x)
  BY <1>8, <1>9, FilledIsWritten
<1>11. Fits(f, l, c)
  BY <1>7, <1>10 DEF Fits
<1>12. MInv'
  BY <1>6, <1>7, <1>8, <1>11 DEF MInv, Fits, f
<1>13. SubSeq(f, 1, l) = S!Written(Shown, position, x) /\ length' = l
  BY <1>7, <1>10
<1>14. Shown' = S!Written(Shown, position, x)
  BY <1>13 DEF Shown, f
<1>15. position' = position + Len(x)
  BY <1>4, <1>6 DEF n
<1>16. Sees
  BY <1>1, <1>3, <1>6, <1>14, <1>15, SeesWritten
<1> QED BY <1>12, <1>16 DEF MemorySeen


\* Lengthened or shortened, from a memory that begins with what is kept.
LEMMA ResizedIsShown ==
  ASSUME MInv, NEW f \in Seq(Byte), NEW n \in 0 .. Len(f),
         \A i \in 1 .. n : f[i] = IF i <= length THEN memory[i] ELSE 0
  PROVE  SubSeq(f, 1, n) = S!Resized(Shown, n)
<1> DEFINE r == S!Resized(Shown, n)
           x == Shown
<1>1. x \in Seq(Byte) /\ Len(x) = length /\ length \in Nat /\ \A i \in 1 .. length : x[i] = memory[i]
  BY MemoryFacts, Unmoved DEF Starts
<1>2. n \in Nat
  BY LenProperties
<1>3. r \in Seq(Byte) /\ Len(r) = n
  BY <1>1, <1>2, ResizedLength
<1>4. r = [i \in 1 .. n |-> IF i <= Len(x) THEN x[i] ELSE 0]
  BY DEF S!Resized
<1> HIDE DEF r, x
<1>5. ASSUME NEW i \in 1 .. n PROVE r[i] = f[i]
  <2>1. r[i] = IF i <= length THEN x[i] ELSE 0
    BY <1>1, <1>4
  <2>2. i <= length => i \in 1 .. length
    BY <1>1, <1>2
  <2> QED BY <1>1, <2>1, <2>2
<1>6. Starts(f, r, n)
  BY <1>3, <1>5 DEF Starts
<1>7. SubSeq(f, 1, n) = r
  BY <1>6, StartIsShown
<1> QED BY <1>7 DEF r

LEMMA SetLengthMemory ==
  ASSUME MInv, NEW n \in 0 .. MaxLength, Memory!setLength(n)
  PROVE  MemorySeen
<1> USE MemoryAssumption, BufferedStreamAssumption
<1> DEFINE f == memory'
           c == capacity'
<1>1. /\ memory \in Seq(Byte) /\ Len(memory) \in Nat /\ length \in Nat /\ length <= Len(memory) /\ length <= MaxLength
      /\ capacity \in Int /\ capacity <= MaxCapacity
      /\ mode = "expandable" => Len(memory) = IF capacity > 0 THEN capacity ELSE 0
      /\ mode # "expandable" => capacity <= 0
  BY MemoryFacts
<1>2. mode # "closed" /\ UNCHANGED <<mode, position, returned>> /\ length' = n /\ n \in Nat
  BY DEF Memory!setLength
<1>3. /\ f \in Seq(Byte) /\ n \in 0 .. Len(f) /\ Fits(f, n, c)
      /\ \A i \in 1 .. n : f[i] = IF i <= length THEN memory[i] ELSE 0
  <2>1. CASE n > length
    <3> DEFINE e == Memory!Ensured(n)
               zeros == [i \in 1 .. n - length |-> 0]
               k == Memory!Capacity(n)
    <3>1. Memory!CanEnsure(n) /\ f = Memory!Filled(e, length, zeros) /\ c = k
      BY <1>1, <1>2, <2>1 DEF Memory!setLength, Memory!Lengthened
    <3>2. n - length \in Nat /\ zeros \in [1 .. n - length -> Byte] /\ \A i \in 1 .. n - length : zeros[i] = 0
      BY <1>1, <1>2, <2>1 DEF Byte
    <3> HIDE DEF f, c, zeros
    <3>3. zeros \in Seq(Byte) /\ Len(zeros) = n - length
      BY <3>2, BytesAreASeq
    <3>4. e = Memory!Ensured(n) /\ k = Memory!Capacity(n)
      OBVIOUS
    <3> HIDE DEF e, k
    <3>5. Fits(e, length, k) /\ KeepsBytes(e) /\ n <= Len(e)
      BY <1>2, <3>1, <3>4, EnsuredFits
    <3>6. e \in Seq(Byte) /\ Len(e) \in Nat /\ k \in Int
      BY <3>5, LenProperties DEF Fits
    <3>7. /\ f \in Seq(Byte) /\ Len(f) = Len(e)
          /\ \A i \in 1 .. Len(e) : f[i] = IF length < i /\ i <= length + Len(zeros) THEN zeros[i - length] ELSE e[i]
      BY <1>1, <3>1, <3>3, <3>6, FillsIn
    <3>8. ASSUME NEW i \in 1 .. n PROVE f[i] = IF i <= length THEN memory[i] ELSE 0
      <4>1. i \in 1 .. Len(e)
        BY <1>2, <3>5, <3>6
      <4>2. CASE i <= length
        <5>1. f[i] = e[i]
          BY <1>1, <3>7, <4>1, <4>2
        <5>2. i \in 1 .. length
          BY <1>1, <1>2, <4>2
        <5> QED BY <3>5, <4>2, <5>1, <5>2 DEF KeepsBytes
      <4>3. CASE ~(i <= length)
        <5>1. i - length \in 1 .. n - length /\ i <= length + Len(zeros) /\ length < i
          BY <1>1, <1>2, <3>3, <4>3
        <5>2. f[i] = zeros[i - length]
          BY <3>7, <4>1, <5>1
        <5> QED BY <3>2, <4>3, <5>1, <5>2
      <4> QED BY <4>2, <4>3
    <3>9. n \in 0 .. Len(f) /\ n <= MaxLength
      BY <1>2, <3>5, <3>6, <3>7
    <3>10. Fits(f, n, c)
      BY <3>1, <3>5, <3>7, <3>9 DEF Fits
    <3> QED BY <3>7, <3>8, <3>9, <3>10
  <2>2. CASE ~(n > length)
    <3>1. c = Memory!Contracted(n) /\ f = (IF c = capacity THEN memory ELSE Memory!Reallocated(c)) /\ n <= length
      BY <1>1, <1>2, <2>2 DEF Memory!setLength
    <3>2. CASE c = capacity
      <4>1. f = memory /\ n \in 0 .. Len(f) /\ n <= MaxLength
        BY <1>1, <1>2, <3>1, <3>2
      <4>2. Fits(f, n, c)
        BY <1>1, <3>2, <4>1 DEF Fits
      <4>3. \A i \in 1 .. n : i <= length
        BY <1>1, <1>2, <3>1
      <4> QED BY <1>1, <4>1, <4>2, <4>3
    <3>3. CASE c # capacity
      <4>1. c = (IF n < MinCapacity THEN MinCapacity ELSE n) /\ c <= capacity \div 2
        BY <3>1, <3>3 DEF Memory!Contracted
      <4>2. c \in Nat /\ n <= c /\ c > 0
        <5> HIDE DEF c
        <5> QED BY <1>2, <4>1
      <4>3. c <= MaxCapacity /\ mode = "expandable"
        <5> HIDE DEF c
        <5> QED BY <1>1, <4>1, <4>2
      <4>4. f = Memory!Reallocated(c)
        BY <3>1, <3>3
      <4> HIDE DEF f, c
      <4>5. f \in Seq(Byte) /\ Len(f) = c /\ \A i \in 1 .. c : f[i] = IF i <= Len(memory) THEN memory[i] ELSE Garbage
        BY <4>2, <4>4, Reallocates
      <4>6. ASSUME NEW i \in 1 .. n PROVE f[i] = IF i <= length THEN memory[i] ELSE 0
        <5>1. i \in 1 .. c /\ i <= length /\ i <= Len(memory)
          BY <1>1, <1>2, <3>1, <4>2
        <5> QED BY <4>5, <5>1
      <4>7. n \in 0 .. Len(f)
        BY <1>2, <4>2, <4>5
      <4>8. Fits(f, n, c)
        BY <4>2, <4>3, <4>5, <4>7 DEF Fits
      <4> QED BY <4>5, <4>6, <4>7, <4>8
    <3> QED BY <3>2, <3>3
  <2> QED BY <2>1, <2>2
<1> HIDE DEF f, c
<1>4. SubSeq(f, 1, n) = S!Resized(Shown, n)
  BY <1>3, ResizedIsShown
<1>5. Shown' = S!Resized(Shown, n)
  BY <1>2, <1>4 DEF Shown, f
<1>6. MInv'
  BY <1>2, <1>3 DEF MInv, Fits, f, c
<1>7. position' \in 0 .. MaxLength
  BY <1>2 DEF MInv
<1>8. Sees
  BY <1>2, <1>5, <1>7, SeesResized
<1> QED BY <1>6, <1>8 DEF MemorySeen

LEMMA MemoryInit ==
  Memory!Init => MInv
<1> SUFFICES ASSUME Memory!Init PROVE MInv
  OBVIOUS
<1>1. mode = "closed" /\ memory = <<>> /\ length = 0 /\ capacity = -1 /\ position = 0
  BY DEF Memory!Init
<1>2. <<>> \in Seq(Byte) /\ Len(<<>>) = 0
  BY EmptySeq
<1> QED BY <1>1, <1>2, MemoryAssumption, BufferedStreamAssumption DEF MInv, Fits

LEMMA MemoryNext ==
  ASSUME MInv, Memory!Next
  PROVE  MemorySeen
<1>1. CASE \/ Memory!openNewBytes
           \/ \E b \in Contents : \E room \in 0 .. MaxCapacity - Len(b) : Memory!adoptAndOpen(b, room)
           \/ \E b \in Contents, writable \in BOOLEAN : Memory!open(b, writable)
  <2>1. mode = "closed"
    BY <1>1 DEF Memory!openNewBytes, Memory!adoptAndOpen, Memory!open
  <2> QED BY <1>1, <2>1, OpensMemory
<1>2. CASE Memory!closeAndrelease \/ Memory!close
  BY <1>2, ReleasesMemory
<1>3. CASE \E n \in 1 .. MaxLength : Memory!ensureCapacity(n) \/ Memory!readAtMost(n)
  BY <1>3, EnsureCapacityMemory, ReadAtMostMemory
<1>4. CASE \E input \in Contents : Memory!write(input) \/ (\E offset \in 0 .. MaxLength : Memory!positionalWrite(offset, input))
  BY <1>4, WriteMemory, PositionalWriteMemory
<1>5. CASE \E input \in Contents : Memory!writeByte(input[1])
  BY <1>5, WriteByteMemory
<1>6. CASE \E offset \in 0 .. MaxLength, n \in 1 .. MaxLength : Memory!positionalRead(offset, n)
  BY <1>6, PositionalReadMemory
<1>7. CASE \E n \in 0 .. MaxLength : Memory!seek(n) \/ Memory!setPosition(n) \/ Memory!setLength(n)
  BY <1>7, SeekMemory, SetLengthMemory
<1>8. CASE Memory!getLength
  BY <1>8, GetLengthMemory
<1> QED BY <1>1, <1>2, <1>3, <1>4, <1>5, <1>6, <1>7, <1>8 DEF Memory!Next, Memory!Positions

LEMMA MemoryStays ==
  MInv => Memory!StaysInMemory
BY MemoryFacts DEF Memory!StaysInMemory

\* A memory stream, whatever it is asked for, stays in its memory, and is a
\* stream as long as it is open: what growing, contracting and lengthening leave
\* is what the caller has written, never a byte that nobody has (MemoryStream).
\* For any sizes and inputs, and callers who do not write behind the end.
THEOREM MemoryIsAStream ==
  MCSpec => StreamsAreStreams
<1>1. MCInit => (part = "memory" => MInv)
  BY MemoryInit DEF MCInit
<1>2. ASSUME part = "memory" => MInv, [MCNext]_<<part, vars, memoryVars, fileVars, diskVars>>
      PROVE  /\ (part = "memory" => MInv)'
             /\ [part = "memory" => Memory!ImplementsStream]_memoryVars
  <2>1. part' = part
    BY <1>2 DEF MCNext
  <2>2. CASE part = "memory" /\ Memory!Next
    <3>1. MemorySeen
      BY <1>2, <2>2, MemoryNext
    <3>2. Memory!ImplementsStream
      BY <3>1 DEF MemorySeen, Sees, Memory!ImplementsStream
    <3> QED BY <3>1, <3>2 DEF MemorySeen
  <2>3. CASE ~(part = "memory" /\ Memory!Next)
    <3>1. UNCHANGED memoryVars
      BY <1>2, <2>3 DEF MCNext
    <3>2. MInv => MInv'
      BY <3>1 DEF memoryVars, MInv, Fits
    <3> QED BY <1>2, <2>1, <3>1, <3>2
  <2> QED BY <2>2, <2>3
<1>3. (part = "memory" => MInv) => (part = "memory" => Memory!StaysInMemory)
  BY MemoryStays
<1> QED BY <1>1, <1>2, <1>3, PTL DEF MCSpec, StreamsAreStreams


------------------------------------------------------------------------------
(* The file stream. *)

Transfers == Seq(Nat \X Byte)

Loops == {"none", "read", "write", "positionalRead", "positionalWrite"}

FileTyped ==
  /\ file \in Seq(Byte) /\ Len(file) <= FileLength /\ fd.pos <= FileLength
  /\ fd \in [kind : {"none", "file", "pipe"}, pos : Nat, append : BOOLEAN, keep : BOOLEAN]
  /\ call \in [op : Loops, input : Seq(Byte), size : Nat, offset : Nat]
  /\ asked \in [op : Loops, input : Seq(Byte), size : Nat, start : Nat, append : BOOLEAN, moved : Transfers,
                state : {"running", "returned", "threw"}]
  /\ object \in [access : Accesses \cup {"ReadWrite"}, lifetime : {"AutoClose", "DontClose"}, seekable : {-1, 0, 1}]

\* What the stream knows of the descriptor.
Knowing ==
  /\ astray = FALSE
  /\ fd.kind = "none" => object.lifetime = "AutoClose" /\ object.seekable = -1
  /\ fd.kind # "none" => (fd.keep = TRUE <=> object.lifetime = "DontClose")
  /\ object.seekable = 1 => fd.kind = "file"

\* One place after the other, but where others append in between.
Consecutive(m, append) ==
  \A i \in 1 .. Len(m) - 1 : m[i + 1][1] > m[i][1] /\ (m[i + 1][1] = m[i][1] + 1 \/ append)

Follows(next, m, append) ==
  m # <<>> => next > m[Len(m)][1] /\ (next = m[Len(m)][1] + 1 \/ append)

\* Where the next turn of the loop reads or writes.
Place ==
  IF call.op = "read" THEN fd.pos
  ELSE IF call.op = "write" THEN IF fd.append THEN Len(file) ELSE fd.pos
  ELSE call.offset

\* m are bytes of f, up to the place at.
Copied(m, f, at) ==
  /\ Len(m) <= at
  /\ m # <<>> => at <= Len(f)
  /\ \A i \in 1 .. Len(m) : m[i][2] = f[at - Len(m) + i]

ReadRuns ==
  /\ call.input = <<>> /\ asked.input = <<>> /\ call.size > 0 /\ asked.size <= FileLength
  /\ call.size + Len(asked.moved) = asked.size
  /\ Copied(asked.moved, file, Place)
  /\ IF call.op = "read" THEN fd.pos - Len(asked.moved) = asked.start ELSE call.offset - Len(asked.moved) <= FileLength

WriteRuns ==
  /\ call.size = 0 /\ asked.size = 0 /\ call.input # <<>> /\ asked.input \in Slips
  /\ File!Bytes(asked.moved) \o call.input = asked.input
  /\ IF call.op = "write" THEN Len(file) + Len(call.input) <= FileLength /\ fd.pos + Len(call.input) <= FileLength
     ELSE call.offset + Len(call.input) <= FileLength

Runs ==
  /\ asked.op = call.op /\ asked.state = "running" /\ asked.append = fd.append /\ fd.kind = "file"
  /\ Consecutive(asked.moved, asked.append) /\ Follows(Place, asked.moved, asked.append)
  /\ call.op \in {"read", "positionalRead"} => ReadRuns
  /\ call.op \in {"write", "positionalWrite"} => WriteRuns

FInv ==
  /\ FileTyped /\ Knowing
  /\ call.op = "none" => File!TransfersOnce
  /\ call.op # "none" => Runs

LEMMA BytesOfMoves ==
  ASSUME NEW m \in Transfers, NEW b, b = File!Bytes(m)
  PROVE  /\ b \in Seq(Byte) /\ Len(b) = Len(m)
         /\ \A i \in 1 .. Len(m) : b[i] = m[i][2]
<1> DEFINE n == Len(m)
<1>1. n \in Nat /\ DOMAIN m = 1 .. n /\ \A i \in 1 .. n : m[i] \in Nat \X Byte
  BY LenProperties, ElementOfSeq DEF Transfers
<1> HIDE DEF n
<1>2. b = [i \in 1 .. n |-> m[i][2]]
  BY <1>1 DEF File!Bytes
<1>3. b \in [1 .. n -> Byte]
  BY <1>1, <1>2
<1>4. b \in Seq(Byte) /\ Len(b) = n
  BY <1>1, <1>3, BytesAreASeq
<1> QED BY <1>2, <1>4 DEF n

\* What a turn adds to what was moved.
Extended(t, m, at, b, append) ==
  /\ t \in Transfers /\ Len(t) = Len(m) + Len(b)
  /\ \A i \in 1 .. Len(m) : t[i] = m[i]
  /\ \A i \in 1 .. Len(b) : t[Len(m) + i] = <<at + i - 1, b[i]>>
  /\ File!Bytes(t) = File!Bytes(m) \o b
  /\ Consecutive(t, append)
  /\ t # <<>> /\ t[Len(t)][1] = at + Len(b) - 1

LEMMA TurnExtends ==
  ASSUME NEW m \in Transfers, NEW at \in Nat, NEW b \in Seq(Byte), b # <<>>, NEW append \in BOOLEAN,
         Consecutive(m, append), Follows(at, m, append), NEW t, t = m \o File!Places(at, b)
  PROVE  Extended(t, m, at, b, append)
<1> DEFINE p == File!Places(at, b)
           n == Len(m)
           k == Len(b)
<1>1. n \in Nat /\ k \in Nat \ {0} /\ DOMAIN b = 1 .. k /\ \A i \in 1 .. k : b[i] \in Byte
  BY LenProperties, EmptySeq, ElementOfSeq DEF Transfers
<1>2. \A i \in 1 .. n : m[i] \in Nat \X Byte
  BY ElementOfSeq DEF Transfers
<1>3. p = [i \in 1 .. k |-> <<at + i - 1, b[i]>>]
  BY <1>1 DEF File!Places
<1> HIDE DEF n, k
<1>4. p \in [1 .. k -> Nat \X Byte]
  <2>1. \A i \in 1 .. k : at + i - 1 \in Nat
    BY <1>1
  <2> QED BY <1>1, <1>3, <2>1
<1>5. p \in Transfers /\ Len(p) = k
  BY <1>1, <1>4, SeqDef, LenProperties DEF Transfers
<1>6. t = m \o p
  OBVIOUS
<1> HIDE DEF p
<1>7. t \in Transfers /\ Len(t) = n + k /\ \A i \in 1 .. n + k : t[i] = IF i <= n THEN m[i] ELSE p[i - n]
  <2>1. p \in Transfers
    BY <1>5
  <2>2. t \in Transfers /\ Len(t) = Len(m) + Len(p)
    BY <1>6, <2>1, ConcatProperties DEF Transfers
  <2>3. \A i \in 1 .. Len(m) + Len(p) : t[i] = IF i <= Len(m) THEN m[i] ELSE p[i - Len(m)]
    BY <1>6, <2>1, ConcatProperties DEF Transfers
  <2> QED BY <1>5, <2>2, <2>3 DEF n
<1>8. ASSUME NEW i \in 1 .. n PROVE t[i] = m[i]
  <2>1. i \in 1 .. n + k /\ i <= n
    BY <1>1
  <2> QED BY <1>7, <2>1
<1>9. ASSUME NEW i \in 1 .. k PROVE t[n + i] = <<at + i - 1, b[i]>>
  <2> DEFINE j == n + i
  <2>1. j \in 1 .. n + k /\ ~(j <= n) /\ j - n = i
    BY <1>1
  <2> HIDE DEF j
  <2>2. t[j] = p[i]
    BY <1>7, <2>1
  <2> QED BY <1>3, <2>2 DEF j
<1>10. Consecutive(t, append)
  <2> SUFFICES ASSUME NEW i \in 1 .. Len(t) - 1
               PROVE  t[i + 1][1] > t[i][1] /\ (t[i + 1][1] = t[i][1] + 1 \/ append)
    BY DEF Consecutive
  <2> DEFINE j == i + 1
  <2>1. j = i + 1 /\ i \in 1 .. n + k - 1 /\ i \in Nat /\ j \in Nat
    BY <1>1, <1>7
  <2> HIDE DEF j
  <2>2. CASE i < n
    <3>1. i \in 1 .. n - 1 /\ j \in 1 .. n /\ i \in 1 .. n
      BY <1>1, <2>1, <2>2
    <3>2. m[i + 1][1] > m[i][1] /\ (m[i + 1][1] = m[i][1] + 1 \/ append)
      BY <3>1 DEF Consecutive, n
    <3>3. t[j] = m[j] /\ t[i] = m[i] /\ i + 1 = j
      BY <1>8, <2>1, <3>1
    <3> QED BY <3>2, <3>3
  <2>3. CASE i = n
    <3>1. n \in 1 .. n /\ 1 \in 1 .. k /\ m # <<>>
      <4>1. n \in 1 .. n /\ 1 \in 1 .. k /\ n # 0
        BY <1>1, <2>1, <2>3
      <4> QED BY <4>1, EmptySeq DEF n
    <3>2. at > m[n][1] /\ (at = m[n][1] + 1 \/ append)
      BY <3>1 DEF Follows, n
    <3>3. t[n] = m[n] /\ t[n + 1] = <<at + 1 - 1, b[1]>>
      BY <1>8, <1>9, <3>1
    <3>4. t[n + 1][1] = at /\ t[n][1] = m[n][1]
      BY <3>3
    <3> QED BY <2>3, <3>2, <3>4
  <2>4. CASE i > n
    <3> DEFINE u == i - n
               v == u + 1
    <3>1. u \in 1 .. k /\ v \in 1 .. k /\ n + u = i /\ n + v = i + 1 /\ v = u + 1 /\ u \in Nat
      BY <1>1, <2>1, <2>4
    <3> HIDE DEF u, v
    <3>2. t[n + u] = <<at + u - 1, b[u]>> /\ t[n + v] = <<at + v - 1, b[v]>>
      BY <1>9, <3>1
    <3>3. t[i][1] = at + u - 1 /\ t[i + 1][1] = at + v - 1
      <4>1. t[i] = <<at + u - 1, b[u]>> /\ t[i + 1] = <<at + v - 1, b[v]>>
        BY <3>1, <3>2
      <4> QED BY <4>1
    <3>4. at + v - 1 = (at + u - 1) + 1 /\ at + v - 1 > at + u - 1
      BY <3>1
    <3> QED BY <3>3, <3>4
  <2> QED BY <1>1, <2>1, <2>2, <2>3, <2>4
<1>11. t # <<>> /\ t[Len(t)][1] = at + k - 1
  <2>1. k \in 1 .. k /\ Len(t) # 0
    BY <1>1, <1>7
  <2>2. t[n + k] = <<at + k - 1, b[k]>>
    BY <1>9, <2>1
  <2>3. t # <<>>
    BY <2>1, <1>7, EmptySeq DEF Transfers
  <2> QED BY <1>7, <2>2, <2>3
<1>12. File!Bytes(t) = File!Bytes(m) \o b
  <2> DEFINE bt == File!Bytes(t)
             bm == File!Bytes(m)
             c == bm \o b
  <2>1. bt \in Seq(Byte) /\ Len(bt) = n + k /\ \A i \in 1 .. n + k : bt[i] = t[i][2]
    <3>1. bt = File!Bytes(t)
      OBVIOUS
    <3> HIDE DEF bt
    <3>2. t \in Transfers
      BY <1>7
    <3>3. bt \in Seq(Byte) /\ Len(bt) = Len(t)
      BY <3>1, <3>2, BytesOfMoves
    <3>4. \A i \in 1 .. Len(t) : bt[i] = t[i][2]
      BY <3>1, <3>2, BytesOfMoves
    <3> QED BY <1>7, <3>3, <3>4
  <2>2. bm \in Seq(Byte) /\ Len(bm) = n /\ \A i \in 1 .. n : bm[i] = m[i][2]
    <3>1. bm = File!Bytes(m)
      OBVIOUS
    <3> HIDE DEF bm
    <3> QED BY <3>1, BytesOfMoves DEF n
  <2> HIDE DEF bt, bm
  <2>3. c \in Seq(Byte) /\ Len(c) = n + k /\ \A i \in 1 .. n + k : c[i] = IF i <= n THEN bm[i] ELSE b[i - n]
    BY <2>2, ConcatProperties DEF k
  <2> HIDE DEF c
  <2>4. ASSUME NEW i \in 1 .. n + k PROVE bt[i] = c[i]
    <3>1. CASE i <= n
      <4>1. i \in 1 .. n
        BY <1>1, <3>1
      <4> QED BY <1>8, <2>1, <2>2, <2>3, <3>1, <4>1, ZenonT(30)
    <3>2. CASE ~(i <= n)
      <4> DEFINE j == i - n
      <4>1. j \in 1 .. k /\ n + j = i
        BY <1>1, <3>2
      <4>2. t[n + j] = <<at + j - 1, b[j]>>
        <5> HIDE DEF j
        <5> QED BY <1>9, <4>1
      <4>3. t[i][2] = b[j]
        <5> HIDE DEF j
        <5>1. t[i] = <<at + j - 1, b[j]>>
          BY <4>1, <4>2
        <5> QED BY <5>1
      <4> QED BY <2>1, <2>3, <3>2, <4>3
    <3> QED BY <3>1, <3>2
  <2>5. bt = c
    BY <2>1, <2>3, <2>4, SeqEqual
  <2> QED BY <2>5 DEF bt, bm, c
<1> QED BY <1>7, <1>8, <1>9, <1>10, <1>11, <1>12 DEF Extended, n, k


\* What the contract, or an operation beyond it, allows.
FileSees == [File!Contract!Next]_(File!Contract!vars) \/ File!Further

FileSeen == FInv' /\ (fd.kind # "none" /\ fd'.kind # "none" => FileSees)

\* Where the contract sees the stream.
FilePosition == IF call.op = "read" THEN asked.start ELSE fd.pos

LEMMA FileStays ==
  ASSUME UNCHANGED <<file, received>>, FilePosition' = FilePosition
  PROVE  FileSees
BY DEF FileSees, FilePosition, File!Contract!vars

LEMMA FileSeesRead ==
  ASSUME NEW n \in 1 .. FileLength, file' = file, received' = S!BytesAt(file, FilePosition, n),
         FilePosition' = FilePosition + Len(received')
  PROVE  FileSees
<1>1. File!Contract!Read(n)
  BY DEF File!Contract!Read, File!Contract!BytesAt, S!BytesAt, FilePosition
<1> QED BY <1>1 DEF File!Contract!Next, FileSees

LEMMA FileSeesReadFail ==
  ASSUME NEW n \in 1 .. FileLength, UNCHANGED <<file, received>>,
         FilePosition' \in FilePosition .. FilePosition + n
  PROVE  FileSees
<1>1. File!Contract!ReadFails(n)
  BY DEF File!Contract!ReadFails, FilePosition
<1> QED BY <1>1 DEF File!Contract!Next, FileSees

LEMMA FileSeesWrite ==
  ASSUME NEW b \in File!Slices, b \in Seq(Byte), file' = S!Written(file, FilePosition, b),
         FilePosition' = FilePosition + Len(b), received' = received
  PROVE  FileSees
<1>1. Len(b) \in 0 .. Len(b) /\ SubSeq(b, 1, Len(b)) = b
  BY LenProperties, SubSeqFull
<1>2. File!Contract!Write(SubSeq(b, 1, Len(b)))
  BY <1>1 DEF File!Contract!Write, File!Contract!Written, S!Written, FilePosition
<1> QED BY <1>1, <1>2 DEF File!Contract!Next, FileSees

LEMMA FileSeesSeek ==
  ASSUME NEW to \in 0 .. FileLength, file' = file, received' = <<to>>, FilePosition' = to
  PROVE  FileSees
<1>1. File!Contract!Seek(to)
  BY DEF File!Contract!Seek, FilePosition
<1> QED BY <1>1 DEF File!Contract!Next, FileSees

LEMMA FileSeesGetLength ==
  ASSUME file' = file, received' = <<Len(file)>>, FilePosition' = FilePosition
  PROVE  FileSees
<1>1. File!Contract!GetLength
  BY DEF File!Contract!GetLength, FilePosition
<1> QED BY <1>1 DEF File!Contract!Next, FileSees

LEMMA FileSeesSetLength ==
  ASSUME NEW n \in 0 .. FileLength, file' = S!Resized(file, n), received' = received, FilePosition' \in 0 .. FileLength
  PROVE  FileSees
<1>1. File!Contract!SetLength(n)
  BY DEF File!Contract!SetLength, File!Contract!Resized, S!Resized, FilePosition
<1> QED BY <1>1 DEF File!Contract!Next, FileSees

\* Between two loops.
LEMMA NothingMoved ==
  ASSUME NEW a, a = File!NothingAsked
  PROVE  /\ a \in [op : Loops, input : Seq(Byte), size : Nat, start : Nat, append : BOOLEAN, moved : Transfers,
                   state : {"running", "returned", "threw"}]
         /\ asked' = a => File!TransfersOnce'
<1> DEFINE m == <<>>
           b == File!Bytes(m)
<1>1. m \in Transfers /\ Len(m) = 0 /\ <<>> \in Seq(Byte)
  BY EmptySeq DEF Transfers
<1>2. a = [op |-> "none", input |-> <<>>, size |-> 0, start |-> 0, append |-> FALSE, moved |-> m, state |-> "returned"]
  BY DEF File!NothingAsked
<1>3. b = File!Bytes(m)
  OBVIOUS
<1> HIDE DEF m, b
<1>4. Len(b) = 0
  <2>1. m \in Transfers
    BY <1>1
  <2>2. Len(b) = Len(m)
    BY <1>3, <2>1, BytesOfMoves
  <2> QED BY <1>1, <2>2
<1>5. ASSUME asked' = a PROVE File!TransfersOnce'
  <2>1. /\ asked'.moved = m /\ asked'.input = <<>> /\ asked'.size = 0 /\ asked'.op = "none"
    BY <1>2, <1>5
  <2>2. 1 .. Len(m) - 1 = {}
    BY <1>1
  <2>3. \A i \in 1 .. Len(asked'.moved) - 1 :
          asked'.moved[i + 1][1] > asked'.moved[i][1] /\ (asked'.moved[i + 1][1] = asked'.moved[i][1] + 1 \/ asked'.append)
    BY <2>1, <2>2
  <2>4. Len(File!Bytes(asked'.moved)) <= asked'.size
    BY <1>3, <1>4, <2>1
  <2> QED BY <2>1, <2>3, <2>4 DEF File!TransfersOnce
<1>6. a \in [op : Loops, input : Seq(Byte), size : Nat, start : Nat, append : BOOLEAN, moved : Transfers,
             state : {"running", "returned", "threw"}]
  BY <1>1, <1>2 DEF Loops
<1> QED BY <1>5, <1>6

\* What happens between two loops.
LEMMA BetweenKeeps ==
  ASSUME FInv, File!Between, Knowing',
         file' \in Seq(Byte), Len(file') <= FileLength, fd'.pos <= FileLength,
         fd' \in [kind : {"none", "file", "pipe"}, pos : Nat, append : BOOLEAN, keep : BOOLEAN],
         object' \in [access : Accesses \cup {"ReadWrite"}, lifetime : {"AutoClose", "DontClose"}, seekable : {-1, 0, 1}]
  PROVE  FInv' /\ FilePosition = fd.pos /\ FilePosition' = fd'.pos
<1>1. call.op = "none" /\ call' = call /\ asked' = File!NothingAsked
  BY DEF File!Between, File!Idle
<1>2. File!TransfersOnce'
  BY <1>1, NothingMoved
<1>3. FileTyped'
  BY <1>1, NothingMoved DEF FInv, FileTyped
<1> QED BY <1>1, <1>2, <1>3 DEF FInv, FilePosition

LEMMA NoFdTyped ==
  /\ File!NoFd = [kind |-> "none", pos |-> 0, append |-> FALSE, keep |-> FALSE]
  /\ File!New = [access |-> "ReadWrite", lifetime |-> "AutoClose", seekable |-> -1]
BY DEF File!NoFd, File!New

LEMMA OpensFile ==
  ASSUME FInv, \/ \E m \in File!Modes, access \in Accesses : File!tryOpenInternal(m, access)
               \/ \E lifetime \in {"AutoClose", "DontClose"} : File!openNative("pipe", "ReadWrite", lifetime)
  PROVE  FileSeen
<1> USE FileAssumption, NoFdTyped
<1>1. CASE \E m \in File!Modes, access \in Accesses : File!tryOpenInternal(m, access)
  <2>1. PICK m \in File!Modes, access \in Accesses : File!tryOpenInternal(m, access)
    BY <1>1
  <2>2. /\ fd.kind = "none" /\ file' = (IF m \in {"Create", "OpenTruncated"} THEN <<>> ELSE file)
        /\ fd' = [kind |-> "file", pos |-> 0, append |-> (m = "Append"), keep |-> FALSE]
        /\ object' = [object EXCEPT !.access = access] /\ File!Between /\ astray' = astray
    BY <2>1 DEF File!tryOpenInternal, File!isOpen
  <2>3. file' \in Seq(Byte) /\ Len(file') <= FileLength
    BY <2>2, EmptySeq DEF FInv, FileTyped
  <2>4. fd' \in [kind : {"none", "file", "pipe"}, pos : Nat, append : BOOLEAN, keep : BOOLEAN] /\ fd'.pos <= FileLength
        /\ fd'.kind = "file" /\ fd'.keep = FALSE
    BY <2>2
  <2>5. object' \in [access : Accesses \cup {"ReadWrite"}, lifetime : {"AutoClose", "DontClose"}, seekable : {-1, 0, 1}]
        /\ object'.lifetime = object.lifetime /\ object'.seekable = object.seekable
    BY <2>2 DEF FInv, FileTyped
  <2>6. Knowing'
    BY <2>2, <2>4, <2>5 DEF FInv, Knowing
  <2>7. FInv'
    BY <2>2, <2>3, <2>4, <2>5, <2>6, BetweenKeeps
  <2> QED BY <2>2, <2>7 DEF FileSeen
<1>2. CASE \E lifetime \in {"AutoClose", "DontClose"} : File!openNative("pipe", "ReadWrite", lifetime)
  <2>1. PICK lifetime \in {"AutoClose", "DontClose"} : File!openNative("pipe", "ReadWrite", lifetime)
    BY <1>2
  <2>2. /\ fd.kind = "none" /\ file' = file /\ File!Between /\ astray' = astray
        /\ fd' = [kind |-> "pipe", pos |-> 0, append |-> FALSE, keep |-> (lifetime = "DontClose")]
        /\ object' = [object EXCEPT !.access = "ReadWrite", !.lifetime = lifetime]
    BY <2>1 DEF File!openNative, File!isOpen
  <2>3. fd' \in [kind : {"none", "file", "pipe"}, pos : Nat, append : BOOLEAN, keep : BOOLEAN] /\ fd'.pos <= FileLength
        /\ fd'.kind = "pipe" /\ (fd'.keep = TRUE <=> lifetime = "DontClose")
    <3>1. CASE lifetime = "DontClose"
      <4>1. (lifetime = "DontClose") = TRUE
        BY <3>1
      <4>2. fd' = [kind |-> "pipe", pos |-> 0, append |-> FALSE, keep |-> TRUE]
        BY <2>2, <4>1
      <4> QED BY <3>1, <4>2
    <3>2. CASE lifetime # "DontClose"
      <4>1. (lifetime = "DontClose") = FALSE
        BY <3>2
      <4>2. fd' = [kind |-> "pipe", pos |-> 0, append |-> FALSE, keep |-> FALSE]
        BY <2>2, <4>1
      <4> QED BY <3>2, <4>2
    <3> QED BY <3>1, <3>2
  <2>4. object' \in [access : Accesses \cup {"ReadWrite"}, lifetime : {"AutoClose", "DontClose"}, seekable : {-1, 0, 1}]
        /\ object'.lifetime = lifetime /\ object'.seekable = object.seekable
    BY <2>2 DEF FInv, FileTyped
  <2>5. Knowing'
    BY <2>2, <2>3, <2>4 DEF FInv, Knowing
  <2>6. FInv'
    BY <2>2, <2>3, <2>4, <2>5, BetweenKeeps DEF FInv, FileTyped
  <2> QED BY <2>2, <2>6 DEF FileSeen
<1> QED BY <1>1, <1>2

LEMMA LeavesFile ==
  ASSUME FInv, File!close \/ File!releaseNativeFile \/ File!destroy
  PROVE  FileSeen
<1> USE FileAssumption, NoFdTyped
<1>1. File!Between /\ fd' = File!NoFd /\ file' = file
  BY DEF File!close, File!releaseNativeFile, File!destroy, File!Leave
<1>2. object' \in [access : Accesses \cup {"ReadWrite"}, lifetime : {"AutoClose", "DontClose"}, seekable : {-1, 0, 1}]
      /\ object'.lifetime = "AutoClose" /\ object'.seekable = -1
  <2>1. CASE File!close
    BY <2>1 DEF File!close, FInv, FileTyped
  <2>2. CASE File!releaseNativeFile \/ File!destroy
    <3>1. object' = File!New
      BY <2>2 DEF File!releaseNativeFile, File!destroy
    <3> QED BY <3>1
  <2> QED BY <2>1, <2>2
<1>3. astray' = FALSE
  <2>1. CASE File!destroy
    <3>1. fd.kind # "none" => (fd.keep = TRUE <=> object.lifetime = "DontClose")
      BY DEF FInv, Knowing
    <3>2. fd.keep \in BOOLEAN
      BY DEF FInv, FileTyped
    <3>3. astray = FALSE
      BY DEF FInv, Knowing
    <3>4. ~(File!isOpen /\ fd.keep # (object.lifetime = "DontClose"))
      BY <3>1, <3>2 DEF File!isOpen
    <3>5. astray' = (astray \/ (File!isOpen /\ fd.keep # (object.lifetime = "DontClose")))
      BY <2>1 DEF File!destroy
    <3> QED BY <3>3, <3>4, <3>5
  <2>2. CASE File!close \/ File!releaseNativeFile
    BY <2>2 DEF File!close, File!releaseNativeFile, FInv, Knowing
  <2> QED BY <2>1, <2>2
<1>4. fd' \in [kind : {"none", "file", "pipe"}, pos : Nat, append : BOOLEAN, keep : BOOLEAN] /\ fd'.pos <= FileLength
      /\ fd'.kind = "none"
  BY <1>1
<1>5. Knowing'
  BY <1>2, <1>3, <1>4 DEF Knowing
<1>6. FInv'
  BY <1>1, <1>2, <1>4, <1>5, BetweenKeeps DEF FInv, FileTyped
<1> QED BY <1>4, <1>6 DEF FileSeen

\* The stream finds out whether it can seek.
LEMMA Finding ==
  ASSUME FInv, fd.kind # "none", UNCHANGED <<fd, astray>>,
         File!Knows(object) \/ (object.seekable < 0 /\ object' = [object EXCEPT !.seekable = 0]) \/ object' = object
  PROVE  /\ Knowing'
         /\ object' \in [access : Accesses \cup {"ReadWrite"}, lifetime : {"AutoClose", "DontClose"}, seekable : {-1, 0, 1}]
BY DEF FInv, FileTyped, Knowing, File!Knows

LEMMA CanSeekFile ==
  ASSUME FInv, File!canSeek
  PROVE  FileSeen
<1>1. File!Between /\ UNCHANGED <<file, fd, received, astray>> /\ fd.kind # "none"
  BY DEF File!canSeek, File!isOpen
<1>2. Knowing'
      /\ object' \in [access : Accesses \cup {"ReadWrite"}, lifetime : {"AutoClose", "DontClose"}, seekable : {-1, 0, 1}]
  BY <1>1, Finding DEF File!canSeek
<1>3. FInv' /\ FilePosition' = FilePosition
  BY <1>1, <1>2, BetweenKeeps DEF FInv, FileTyped
<1> QED BY <1>1, <1>3, FileStays DEF FileSeen

LEMMA SeekFile ==
  ASSUME FInv, NEW to \in 0 .. FileLength, File!seek(to)
  PROVE  FileSeen
<1> USE FileAssumption
<1>1. /\ File!Between /\ UNCHANGED <<file, astray>> /\ fd.kind = "file" /\ File!Knows(object)
      /\ fd' = [fd EXCEPT !.pos = to] /\ received' = <<to>>
  BY DEF File!seek, File!Seekable
<1>2. /\ fd' \in [kind : {"none", "file", "pipe"}, pos : Nat, append : BOOLEAN, keep : BOOLEAN] /\ fd'.pos = to
      /\ fd'.kind = fd.kind /\ fd'.keep = fd.keep
  BY <1>1 DEF FInv, FileTyped
<1>3. Knowing'
      /\ object' \in [access : Accesses \cup {"ReadWrite"}, lifetime : {"AutoClose", "DontClose"}, seekable : {-1, 0, 1}]
  BY <1>1, <1>2 DEF FInv, FileTyped, Knowing, File!Knows
<1>4. FInv' /\ FilePosition' = to
  BY <1>1, <1>2, <1>3, BetweenKeeps DEF FInv, FileTyped
<1>5. FileSees
  BY <1>1, <1>4, FileSeesSeek
<1> QED BY <1>4, <1>5 DEF FileSeen

LEMMA LengthsOfFile ==
  ASSUME FInv, File!getLength \/ \E n \in 0 .. FileLength : File!setLength(n)
  PROVE  FileSeen
<1> USE FileAssumption
<1>1. File!Between /\ UNCHANGED <<fd, object, astray>> /\ fd.kind = "file"
  BY DEF File!getLength, File!setLength
<1>2. Knowing'
  BY <1>1 DEF FInv, Knowing
<1>3. CASE File!getLength
  <2>1. file' = file /\ received' = <<Len(file)>>
    BY <1>3 DEF File!getLength
  <2>2. FInv' /\ FilePosition' = FilePosition
    BY <1>1, <1>2, <2>1, BetweenKeeps DEF FInv, FileTyped
  <2> QED BY <2>1, <2>2, FileSeesGetLength DEF FileSeen
<1>4. ASSUME NEW n \in 0 .. FileLength, File!setLength(n) PROVE FileSeen
  <2>1. file' = S!Resized(file, n) /\ received' = received
    BY <1>4 DEF File!setLength, File!S!Resized, S!Resized
  <2>2. file' \in Seq(Byte) /\ Len(file') = n /\ n <= FileLength
    BY <2>1, ResizedLength DEF FInv, FileTyped
  <2>3. FInv' /\ FilePosition' = fd.pos
    BY <1>1, <1>2, <2>2, BetweenKeeps DEF FInv, FileTyped
  <2>4. FilePosition' \in 0 .. FileLength
    BY <2>3 DEF FInv, FileTyped
  <2> QED BY <2>1, <2>3, <2>4, FileSeesSetLength DEF FileSeen
<1> QED BY <1>3, <1>4


LEMMA EmptyMoves ==
  /\ <<>> \in Transfers /\ Len(<<>>) = 0 /\ <<>> \in Seq(Byte)
  /\ File!Bytes(<<>>) = <<>>
<1> DEFINE m == <<>>
           b == File!Bytes(m)
<1>1. m \in Transfers
  BY EmptySeq DEF Transfers
<1>2. b = File!Bytes(m)
  OBVIOUS
<1> HIDE DEF m, b
<1>3. b \in Seq(Byte) /\ Len(b) = Len(m)
  BY <1>1, <1>2, BytesOfMoves
<1>4. Len(m) = 0
  BY EmptySeq DEF m
<1>5. b = <<>>
  BY <1>3, <1>4, EmptySeq
<1>6. <<>> \in Seq(Byte)
  BY EmptySeq
<1> QED BY <1>1, <1>4, <1>5, <1>6 DEF m, b

\* What holds while a loop runs.
LEMMA RunsFacts ==
  ASSUME FInv, call.op # "none"
  PROVE  /\ Runs /\ FileTyped /\ Knowing
         /\ file \in Seq(Byte) /\ Len(file) \in Nat /\ Len(file) <= FileLength
         /\ fd.pos \in Nat /\ fd.pos <= FileLength /\ fd.append \in BOOLEAN /\ fd.kind = "file"
         /\ asked.moved \in Transfers /\ Len(asked.moved) \in Nat /\ asked.append \in BOOLEAN
         /\ asked.input \in Seq(Byte) /\ asked.size \in Nat /\ asked.start \in Nat
         /\ call.input \in Seq(Byte) /\ Len(call.input) \in Nat /\ call.size \in Nat /\ call.offset \in Nat
         /\ call.op \in Loops /\ Place \in Nat
         /\ Consecutive(asked.moved, asked.append) /\ Follows(Place, asked.moved, asked.append)
<1>1. Runs /\ FileTyped /\ Knowing
  BY DEF FInv
<1>2. /\ file \in Seq(Byte) /\ Len(file) <= FileLength
      /\ fd.pos \in Nat /\ fd.pos <= FileLength /\ fd.append \in BOOLEAN
      /\ asked.moved \in Transfers /\ asked.append \in BOOLEAN
      /\ asked.input \in Seq(Byte) /\ asked.size \in Nat /\ asked.start \in Nat
      /\ call.input \in Seq(Byte) /\ call.size \in Nat /\ call.offset \in Nat /\ call.op \in Loops
  BY <1>1 DEF FileTyped
<1>3. Len(file) \in Nat /\ Len(asked.moved) \in Nat /\ Len(call.input) \in Nat
  BY <1>2, LenProperties DEF Transfers
<1>4. Place \in Nat
  BY <1>2, <1>3 DEF Place
<1> QED BY <1>1, <1>2, <1>3, <1>4 DEF Runs

\* A loop begins.
LEMMA Begins ==
  ASSUME FInv, NEW op \in Loops \ {"none"}, NEW input \in Seq(Byte), NEW size \in Nat, NEW offset \in Nat,
         File!Begin(op, input, size, offset), fd.kind = "file", Knowing',
         object' \in [access : Accesses \cup {"ReadWrite"}, lifetime : {"AutoClose", "DontClose"}, seekable : {-1, 0, 1}],
         op \in {"read", "positionalRead"} => input = <<>> /\ size > 0 /\ size <= FileLength /\ offset <= FileLength,
         op \in {"write", "positionalWrite"} => input \in Slips /\ size = 0,
         op = "write" => Len(file) + Len(input) <= FileLength /\ fd.pos + Len(input) <= FileLength,
         op = "positionalWrite" => offset + Len(input) <= FileLength
  PROVE  FileSeen
<1> USE FileAssumption
<1>1. /\ call.op = "none" /\ call' = [op |-> op, input |-> input, size |-> size, offset |-> offset]
      /\ asked' = [op |-> op, input |-> input, size |-> size, start |-> fd.pos,
                   append |-> fd.append, moved |-> <<>>, state |-> "running"]
      /\ UNCHANGED <<file, fd, received, astray>>
  BY DEF File!Begin, File!Idle
<1>2. FileTyped
  BY DEF FInv
<1>3. /\ call'.op = op /\ call'.input = input /\ call'.size = size /\ call'.offset = offset
      /\ asked'.op = op /\ asked'.input = input /\ asked'.size = size /\ asked'.start = fd.pos
      /\ asked'.append = fd.append /\ asked'.moved = <<>> /\ asked'.state = "running"
  BY <1>1
<1>4. FileTyped'
  BY <1>1, <1>2, EmptyMoves DEF FileTyped, Loops
<1>5. Consecutive(asked'.moved, asked'.append)
  <2>1. 1 .. Len(asked'.moved) - 1 = {}
    BY <1>3, EmptyMoves
  <2> QED BY <2>1 DEF Consecutive
<1>6. Follows(Place', asked'.moved, asked'.append)
  BY <1>3 DEF Follows
<1>7. ASSUME op \in {"read", "positionalRead"} PROVE ReadRuns'
  <2>1. Place' = IF op = "read" THEN fd.pos ELSE offset
    BY <1>1, <1>3, <1>7 DEF Place
  <2>2. fd.pos \in Nat
    BY <1>2 DEF FileTyped
  <2>3. Place' \in Nat
    BY <2>1, <2>2
  <2>4. 1 .. Len(asked'.moved) = {} /\ Len(asked'.moved) = 0
    BY <1>3, EmptyMoves
  <2>5. Copied(asked'.moved, file', Place')
    BY <1>3, <2>3, <2>4 DEF Copied
  <2> QED BY <1>1, <1>3, <1>7, <2>2, <2>4, <2>5 DEF ReadRuns
<1>8. ASSUME op \in {"write", "positionalWrite"} PROVE WriteRuns'
  <2>1. input # <<>> /\ File!Bytes(asked'.moved) \o input = input
    BY <1>3, <1>8, EmptyMoves, ConcatEmptySeq
  <2> QED BY <1>1, <1>3, <1>8, <2>1 DEF WriteRuns
<1>9. Runs'
  BY <1>1, <1>3, <1>5, <1>6, <1>7, <1>8 DEF Runs
<1>10. FInv'
  BY <1>3, <1>4, <1>9 DEF FInv
<1>11. FilePosition' = FilePosition
  BY <1>1, <1>3 DEF FilePosition
<1> QED BY <1>1, <1>10, <1>11, FileStays DEF FileSeen

LEMMA BeginsFile ==
  ASSUME FInv,
         \/ \E n \in 0 .. FileLength : n > 0 /\ File!readAtMost(n)
         \/ \E offset \in 0 .. FileLength, n \in 1 .. FileLength : File!positionalRead(offset, n)
         \/ \E input \in Slips : fd.pos + Len(input) <= FileLength /\ Len(file) + Len(input) <= FileLength /\ File!write(input)
         \/ \E input \in Slips, offset \in 0 .. FileLength :
              offset + Len(input) <= FileLength /\ File!positionalWrite(offset, input)
  PROVE  FileSeen
<1> USE FileAssumption DEF Loops
<1>1. /\ FileTyped /\ Knowing /\ <<>> \in Seq(Byte)
      /\ object \in [access : Accesses \cup {"ReadWrite"}, lifetime : {"AutoClose", "DontClose"}, seekable : {-1, 0, 1}]
  BY EmptySeq DEF FInv, FileTyped
<1>2. ASSUME UNCHANGED <<object, fd, astray>> PROVE Knowing'
  BY <1>1, <1>2 DEF Knowing
<1>3. ASSUME NEW n \in 0 .. FileLength, n > 0, File!readAtMost(n) PROVE FileSeen
  <2>1. fd.kind = "file" /\ File!Begin("read", <<>>, n, 0) /\ object' = object
    BY <1>3 DEF File!readAtMost
  <2>2. UNCHANGED <<object, fd, astray>>
    BY <2>1 DEF File!Begin
  <2>3. "read" \in Loops \ {"none"} /\ n \in Nat /\ 0 \in Nat /\ n <= FileLength /\ 0 <= FileLength
    OBVIOUS
  <2> QED BY <1>1, <1>2, <1>3, <2>1, <2>2, <2>3, Begins
<1>4. ASSUME NEW offset \in 0 .. FileLength, NEW n \in 1 .. FileLength, File!positionalRead(offset, n) PROVE FileSeen
  <2>1. fd.kind = "file" /\ File!Begin("positionalRead", <<>>, n, offset) /\ File!Knows(object)
    BY <1>4 DEF File!positionalRead, File!Seekable
  <2>2. UNCHANGED <<fd, astray>>
    BY <2>1 DEF File!Begin
  <2>3. "positionalRead" \in Loops \ {"none"} /\ n \in Nat /\ offset \in Nat /\ n > 0 /\ n <= FileLength /\ offset <= FileLength
    OBVIOUS
  <2>4. Knowing'
        /\ object' \in [access : Accesses \cup {"ReadWrite"}, lifetime : {"AutoClose", "DontClose"}, seekable : {-1, 0, 1}]
    BY <2>1, <2>2, Finding
  <2> QED BY <1>1, <2>1, <2>3, <2>4, Begins
<1>5. ASSUME NEW input \in Slips, fd.pos + Len(input) <= FileLength, Len(file) + Len(input) <= FileLength, File!write(input)
      PROVE FileSeen
  <2>1. fd.kind = "file" /\ File!Begin("write", input, 0, 0) /\ object' = object
    BY <1>5 DEF File!write
  <2>2. UNCHANGED <<object, fd, astray>>
    BY <2>1 DEF File!Begin
  <2>3. "write" \in Loops \ {"none"} /\ 0 \in Nat /\ input \in Seq(Byte)
    OBVIOUS
  <2> QED BY <1>1, <1>2, <1>5, <2>1, <2>2, <2>3, Begins
<1>6. ASSUME NEW input \in Slips, NEW offset \in 0 .. FileLength, offset + Len(input) <= FileLength,
             File!positionalWrite(offset, input)
      PROVE FileSeen
  <2>1. fd.kind = "file" /\ File!Begin("positionalWrite", input, 0, offset) /\ File!Knows(object)
    BY <1>6 DEF File!positionalWrite, File!Seekable
  <2>2. UNCHANGED <<fd, astray>>
    BY <2>1 DEF File!Begin
  <2>3. "positionalWrite" \in Loops \ {"none"} /\ 0 \in Nat /\ offset \in Nat /\ input \in Seq(Byte)
    OBVIOUS
  <2>4. Knowing'
        /\ object' \in [access : Accesses \cup {"ReadWrite"}, lifetime : {"AutoClose", "DontClose"}, seekable : {-1, 0, 1}]
    BY <2>1, <2>2, Finding
  <2> QED BY <1>1, <1>6, <2>1, <2>3, <2>4, Begins
<1> QED BY <1>3, <1>4, <1>5, <1>6

\* A loop ends, with t moved.
LEMMA EndIsSound ==
  ASSUME FInv, call.op # "none", NEW t \in Transfers, Consecutive(t, asked.append), NEW state \in {"returned", "threw"},
         File!End(state, t),
         call.op \in {"write", "positionalWrite"} =>
           /\ asked.input # <<>> /\ File!Bytes(t) = SubSeq(asked.input, 1, Len(File!Bytes(t)))
           /\ state = "returned" => File!Bytes(t) = asked.input,
         call.op \in {"read", "positionalRead"} =>
           /\ asked.input = <<>> /\ Len(t) <= asked.size
           /\ state = "returned" /\ call.op = "positionalRead" => Len(t) = asked.size,
         Knowing', file' \in Seq(Byte), Len(file') <= FileLength, fd'.pos <= FileLength,
         fd' \in [kind : {"none", "file", "pipe"}, pos : Nat, append : BOOLEAN, keep : BOOLEAN],
         object' = object
  PROVE  FInv' /\ FilePosition' = fd'.pos
<1> DEFINE b == File!Bytes(t)
<1>1. call' = File!NoCall /\ asked' = [asked EXCEPT !.state = state, !.moved = t]
  BY DEF File!End
<1>2. FileTyped /\ asked.op = call.op /\ call.op \in Loops
  BY RunsFacts DEF Runs
<1>3. call' = [op |-> "none", input |-> <<>>, size |-> 0, offset |-> 0] /\ call'.op = "none"
  BY <1>1 DEF File!NoCall
<1>4. /\ asked'.moved = t /\ asked'.state = state /\ asked'.input = asked.input /\ asked'.size = asked.size
      /\ asked'.append = asked.append /\ asked'.op = call.op
      /\ asked' \in [op : Loops, input : Seq(Byte), size : Nat, start : Nat, append : BOOLEAN, moved : Transfers,
                     state : {"running", "returned", "threw"}]
  BY <1>1, <1>2 DEF FileTyped
<1>5. FileTyped'
  BY <1>2, <1>3, <1>4, EmptyMoves DEF FileTyped, Loops
<1>6. Len(b) = Len(t)
  <2>1. b = File!Bytes(t)
    OBVIOUS
  <2> HIDE DEF b
  <2> QED BY <2>1, BytesOfMoves
<1>7. File!TransfersOnce'
  <2>1. \A i \in 1 .. Len(asked'.moved) - 1 :
          asked'.moved[i + 1][1] > asked'.moved[i][1] /\ (asked'.moved[i + 1][1] = asked'.moved[i][1] + 1 \/ asked'.append)
    BY <1>4 DEF Consecutive
  <2>2. IF asked'.input # <<>> THEN File!Bytes(asked'.moved) = SubSeq(asked'.input, 1, Len(File!Bytes(asked'.moved)))
        ELSE Len(File!Bytes(asked'.moved)) <= asked'.size
    BY <1>2, <1>4, <1>6 DEF Loops
  <2>3. asked'.state = "returned" /\ asked'.input # <<>> => File!Bytes(asked'.moved) = asked'.input
    BY <1>2, <1>4 DEF Loops
  <2>4. asked'.state = "returned" /\ asked'.op = "positionalRead" => Len(File!Bytes(asked'.moved)) = asked'.size
    BY <1>2, <1>4, <1>6
  <2> QED BY <2>1, <2>2, <2>3, <2>4 DEF File!TransfersOnce
<1> QED BY <1>3, <1>5, <1>7 DEF FInv, FilePosition


LEMMA PrefixOfConcat ==
  ASSUME NEW b \in Seq(Byte), NEW c \in Seq(Byte)
  PROVE  SubSeq(b \o c, 1, Len(b)) = b
<1> DEFINE d == b \o c
           n == Len(b)
<1>1. n \in Nat /\ Len(c) \in Nat
  BY LenProperties
<1>2. d \in Seq(Byte) /\ Len(d) = Len(b) + Len(c)
  BY ConcatProperties
<1>3. \A i \in 1 .. Len(b) + Len(c) : d[i] = IF i <= Len(b) THEN b[i] ELSE c[i - Len(b)]
  BY ConcatProperties
<1> HIDE DEF d
<1>4. n \in 0 .. Len(d) /\ \A i \in 1 .. n : i \in 1 .. Len(b) + Len(c) /\ i <= Len(b)
  BY <1>1, <1>2
<1>5. \A i \in 1 .. n : b[i] = d[i]
  BY <1>3, <1>4
<1>6. Starts(d, b, n)
  BY <1>5 DEF Starts
<1>7. SubSeq(d, 1, n) = b
  BY <1>2, <1>4, <1>6, StartIsShown
<1> QED BY <1>7 DEF d


\* An exception, or the end of the file, ends a loop that has moved a part.
LEMMA ThrowsFile ==
  ASSUME FInv, call.op # "none", File!End("threw", asked.moved), UNCHANGED <<file, fd, object, astray>>
  PROVE  FileSeen
<1> USE FileAssumption
<1> DEFINE m == asked.moved
           n == Len(m)
           b == File!Bytes(m)
<1>1. Runs /\ FileTyped /\ m \in Transfers /\ n \in Nat /\ Consecutive(m, asked.append) /\ call.op \in Loops
      /\ asked.size \in Nat /\ asked.start \in Nat /\ fd.pos \in Nat
  BY RunsFacts
<1>2. Knowing'
  BY DEF FInv, Knowing
<1>3. ASSUME call.op \in {"write", "positionalWrite"}
      PROVE  asked.input # <<>> /\ b = SubSeq(asked.input, 1, Len(b))
  <2>1. asked.input # <<>> /\ b \o call.input = asked.input /\ call.input \in Seq(Byte) /\ asked.input \in Seq(Byte)
    BY <1>1, <1>3, RunsFacts DEF Runs, WriteRuns
  <2>2. b \in Seq(Byte)
    <3>1. b = File!Bytes(m)
      OBVIOUS
    <3> HIDE DEF b, m
    <3> QED BY <1>1, <3>1, BytesOfMoves
  <2> HIDE DEF b
  <2>3. b = SubSeq(asked.input, 1, Len(b))
    <3> DEFINE c == call.input
               i == asked.input
    <3>1. b \in Seq(Byte) /\ c \in Seq(Byte) /\ i = b \o c
      BY <2>1, <2>2
    <3> HIDE DEF c, i
    <3>2. SubSeq(b \o c, 1, Len(b)) = b
      BY <3>1, PrefixOfConcat
    <3> QED BY <3>1, <3>2 DEF i
  <2> QED BY <2>1, <2>3
<1>4. ASSUME call.op \in {"read", "positionalRead"}
      PROVE  asked.input = <<>> /\ n <= asked.size /\ asked.size > 0 /\ asked.size <= FileLength
             /\ (call.op = "read" => fd.pos - n = asked.start)
  BY <1>1, <1>4, RunsFacts DEF Runs, ReadRuns
<1>5. FInv' /\ FilePosition' = fd.pos
  <2>1. "threw" \in {"returned", "threw"} /\ "threw" # "returned"
    OBVIOUS
  <2>2. /\ file' \in Seq(Byte) /\ Len(file') <= FileLength /\ fd'.pos <= FileLength
        /\ fd' \in [kind : {"none", "file", "pipe"}, pos : Nat, append : BOOLEAN, keep : BOOLEAN]
    BY <1>1 DEF FileTyped
  <2>3. FInv' /\ FilePosition' = fd'.pos
    BY <1>1, <1>2, <1>3, <1>4, <2>1, <2>2, EndIsSound
  <2> QED BY <2>3
<1>6. received' = received
  BY DEF File!End
<1>7. FileSees
  <2>1. CASE call.op = "read"
    <3>1. FilePosition = asked.start /\ fd.pos - n = asked.start /\ n <= asked.size /\ asked.size \in 1 .. FileLength
      BY <1>1, <1>4, <2>1 DEF FilePosition
    <3>2. fd.pos \in FilePosition .. FilePosition + asked.size
      <4> DEFINE s == asked.start
                 p == fd.pos
                 z == asked.size
      <4>1. p \in Nat /\ s \in Nat /\ z \in Nat /\ n \in Nat /\ p - n = s /\ n <= z
        BY <1>1, <3>1
      <4>2. p \in s .. s + z
        <5> HIDE DEF p, s, z, n
        <5> QED BY <4>1
      <4> QED BY <3>1, <4>2
    <3> QED BY <1>5, <1>6, <3>1, <3>2, FileSeesReadFail
  <2>2. CASE call.op # "read"
    BY <1>5, <1>6, <2>2, FileStays DEF FilePosition
  <2> QED BY <2>1, <2>2
<1> QED BY <1>5, <1>7 DEF FileSeen

\* What was copied is what a read of the whole call gives.
LEMMA CopiedIsRead ==
  ASSUME NEW t \in Transfers, NEW f \in Seq(Byte), NEW at \in Nat, Copied(t, f, at), NEW size \in Nat, size > 0,
         Len(t) = size \/ (Len(t) < size /\ at >= Len(f))
  PROVE  /\ at - Len(t) \in Nat
         /\ File!Bytes(t) = S!BytesAt(f, at - Len(t), size)
<1> DEFINE n == Len(t)
           start == at - n
           r == File!Bytes(t)
<1>1. n \in Nat /\ Len(f) \in Nat /\ (t # <<>> <=> n > 0)
  BY LenProperties, EmptySeq DEF Transfers
<1>2. r = File!Bytes(t)
  OBVIOUS
<1> HIDE DEF r
<1>3. r \in Seq(Byte) /\ Len(r) = n /\ \A i \in 1 .. n : r[i] = t[i][2]
  BY <1>2, BytesOfMoves
<1>4. n <= at /\ (t # <<>> => at <= Len(f)) /\ \A i \in 1 .. n : t[i][2] = f[start + i]
  BY DEF Copied
<1>5. start \in Nat
  BY <1>1, <1>4
<1>6. Len(r) = IF start + size <= Len(f) THEN size ELSE IF start <= Len(f) THEN Len(f) - start ELSE 0
  <2>1. n = size \/ (n < size /\ at >= Len(f))
    OBVIOUS
  <2>2. start + n = at /\ (n > 0 => at <= Len(f)) /\ n <= at
    BY <1>1, <1>4
  <2> HIDE DEF start, n
  <2> QED BY <1>1, <1>3, <1>5, <2>1, <2>2
<1>7. IsRead(r, f, start, size)
  BY <1>3, <1>4, <1>6 DEF IsRead
<1>8. IsRead(S!BytesAt(f, start, size), f, start, size)
  BY <1>5, BytesAtProperties
<1>9. r = S!BytesAt(f, start, size)
  BY <1>7, <1>8, ReadIsOne
<1> QED BY <1>2, <1>5, <1>9

\* The end of the file ends a read.
LEMMA ReadEnds ==
  ASSUME FInv, call.op = "read", fd.pos >= Len(file), File!End("returned", asked.moved),
         UNCHANGED <<file, fd, object, astray>>
  PROVE  FileSeen
<1> USE FileAssumption
<1> DEFINE m == asked.moved
           n == Len(m)
<1>1. Runs /\ FileTyped /\ m \in Transfers /\ n \in Nat /\ Consecutive(m, asked.append)
      /\ asked.size \in Nat /\ asked.start \in Nat /\ fd.pos \in Nat /\ call.size \in Nat /\ file \in Seq(Byte)
  BY RunsFacts
<1>2. Knowing'
  BY DEF FInv, Knowing
<1>3. /\ asked.input = <<>> /\ call.size > 0 /\ asked.size <= FileLength /\ call.size + n = asked.size
      /\ Copied(m, file, fd.pos) /\ fd.pos - n = asked.start
  BY <1>1 DEF Runs, ReadRuns, Place
<1>4. n < asked.size /\ asked.size \in 1 .. FileLength
  BY <1>1, <1>3
<1>5. FInv' /\ FilePosition' = fd.pos
  <2>1. /\ file' \in Seq(Byte) /\ Len(file') <= FileLength /\ fd'.pos <= FileLength
        /\ fd' \in [kind : {"none", "file", "pipe"}, pos : Nat, append : BOOLEAN, keep : BOOLEAN]
    BY <1>1 DEF FileTyped
  <2>2. /\ call.op \notin {"write", "positionalWrite"} /\ call.op # "none" /\ call.op # "positionalRead"
        /\ "returned" \in {"returned", "threw"} /\ n <= asked.size
    BY <1>1, <1>4
  <2>3. FInv' /\ FilePosition' = fd'.pos
    BY <1>1, <1>2, <1>3, <2>1, <2>2, EndIsSound
  <2> QED BY <2>3
<1>6. received' = File!Bytes(m)
  BY <1>3 DEF File!End
<1>7. File!Bytes(m) = S!BytesAt(file, fd.pos - Len(m), asked.size)
  <2>1. Len(m) < asked.size /\ asked.size > 0 /\ Copied(m, file, fd.pos)
    BY <1>3, <1>4
  <2> HIDE DEF m
  <2> QED BY <1>1, <2>1, CopiedIsRead
<1>8. Len(received') = n
  BY <1>1, <1>6, BytesOfMoves
<1>9. FilePosition = asked.start /\ FilePosition' = FilePosition + Len(received')
  <2> DEFINE s == asked.start
             p == fd.pos
  <2>1. FilePosition = s /\ p - n = s /\ p \in Nat /\ s \in Nat
    BY <1>1, <1>3 DEF FilePosition
  <2>2. p = s + n
    <3> HIDE DEF p, s, n
    <3> QED BY <1>1, <2>1
  <2> QED BY <1>5, <1>8, <2>1, <2>2
<1>10. received' = S!BytesAt(file, FilePosition, asked.size)
  BY <1>3, <1>6, <1>7, <1>9
<1>11. FileSees
  BY <1>4, <1>9, <1>10, FileSeesRead
<1> QED BY <1>5, <1>11 DEF FileSeen


\* A turn that reads k bytes.
LEMMA ReadTurn ==
  ASSUME FInv, call.op \in {"read", "positionalRead"}, NEW k \in 1 .. call.size, File!Reads(Place, k),
         fd' = (IF call.op = "read" THEN [fd EXCEPT !.pos = fd.pos + k] ELSE fd), UNCHANGED <<object, astray>>
  PROVE  FileSeen
<1> USE FileAssumption
<1> DEFINE m == asked.moved
           n == Len(m)
           at == Place
           b == SubSeq(file, at + 1, at + k)
           t == m \o File!Places(at, b)
           z == call.size
           size == asked.size
           after == at + k
<1>1. /\ Runs /\ FileTyped /\ Knowing /\ m \in Transfers /\ n \in Nat /\ Consecutive(m, asked.append) /\ call.op \in Loops
      /\ Follows(at, m, asked.append) /\ asked.append \in BOOLEAN
      /\ size \in Nat /\ asked.start \in Nat /\ fd.pos \in Nat /\ z \in Nat /\ file \in Seq(Byte)
      /\ Len(file) \in Nat /\ Len(file) <= FileLength /\ at \in Nat /\ call.offset \in Nat /\ call.op # "none"
  BY RunsFacts
<1>2. /\ asked.input = <<>> /\ call.input = <<>> /\ z > 0 /\ size <= FileLength /\ z + n = size
      /\ Copied(m, file, at) /\ (call.op = "read" => at = fd.pos /\ fd.pos - n = asked.start)
      /\ (call.op # "read" => at = call.offset /\ call.offset - n <= FileLength)
  BY <1>1 DEF Runs, ReadRuns, Place
<1>3. /\ after <= Len(file) /\ file' = file
      /\ File!Turn(at, b, [call EXCEPT !.size = z - k,
                                       !.offset = IF call.op = "read" THEN call.offset ELSE call.offset + k])
  BY DEF File!Reads
<1>4. k \in Nat /\ k > 0 /\ k <= z /\ after \in Nat
  BY <1>1
<1>5. b \in Seq(Byte) /\ Len(b) = k /\ b # <<>> /\ \A i \in 1 .. k : b[i] = file[at + i]
  <2> DEFINE u == at + 1
             v == at + k
  <2>1. u \in Nat \ {0} /\ v \in Int /\ v <= Len(file) /\ u <= v /\ v - u + 1 = k /\ \A i \in 1 .. k : u + i - 1 = at + i
    <3> DEFINE l == Len(file)
    <3>1. at \in Nat /\ k \in Nat /\ k > 0 /\ l \in Nat /\ v <= l /\ u = at + 1 /\ v = at + k
      BY <1>1, <1>3, <1>4
    <3>2. u \in Nat \ {0} /\ v \in Int /\ v <= l /\ u <= v /\ v - u + 1 = k /\ \A i \in 1 .. k : u + i - 1 = at + i
      <4> HIDE DEF at, u, v, l
      <4> QED BY <3>1
    <3> QED BY <3>2
  <2>2. b = SubSeq(file, u, v)
    OBVIOUS
  <2> HIDE DEF u, v, b
  <2>3. b \in Seq(Byte) /\ Len(b) = (IF u <= v THEN v - u + 1 ELSE 0) /\ \A i \in 1 .. v - u + 1 : b[i] = file[u + i - 1]
    BY <1>1, <2>1, <2>2, Slice
  <2>4. \A i \in 1 .. k : b[i] = file[at + i]
    BY <2>1, <2>3
  <2>5. Len(b) = k /\ b # <<>>
    BY <1>4, <2>1, <2>3, EmptySeq
  <2> QED BY <2>3, <2>4, <2>5
<1>6. t = m \o File!Places(at, b)
  OBVIOUS
<1> HIDE DEF t, b, at
<1>7. Extended(t, m, at, b, asked.append)
  <2>1. b \in Seq(Byte) /\ b # <<>>
    BY <1>5
  <2> QED BY <1>1, <1>6, <2>1, TurnExtends
<1>8. /\ t \in Transfers /\ Len(t) = n + k /\ Consecutive(t, asked.append) /\ t # <<>> /\ t[Len(t)][1] = at + k - 1
      /\ \A i \in 1 .. n : t[i] = m[i]
      /\ \A i \in 1 .. k : t[n + i] = <<at + i - 1, b[i]>>
  BY <1>5, <1>7 DEF Extended
<1>9. Copied(t, file, after)
  <2>1. n <= at /\ \A i \in 1 .. n : m[i][2] = file[at - n + i]
    BY <1>2 DEF Copied
  <2>2. Len(t) <= after
    BY <1>1, <1>4, <1>8, <2>1
  <2>3. ASSUME NEW i \in 1 .. Len(t) PROVE t[i][2] = file[after - Len(t) + i]
    <3>1. after - Len(t) + i = at - n + i /\ i \in 1 .. n + k
      BY <1>1, <1>4, <1>8
    <3>2. CASE i <= n
      <4>1. i \in 1 .. n
        BY <1>1, <3>1, <3>2
      <4> QED BY <1>8, <2>1, <3>1, <4>1
    <3>3. CASE ~(i <= n)
      <4> DEFINE j == i - n
      <4>1. j \in 1 .. k /\ n + j = i /\ at - n + i = at + j
        <5>1. n \in Nat /\ at \in Nat /\ k \in Nat /\ i \in 1 .. n + k /\ ~(i <= n) /\ j = i - n
          BY <1>1, <1>4, <3>1, <3>3
        <5> HIDE DEF n, j
        <5> QED BY <5>1
      <4> HIDE DEF j
      <4>2. t[i] = <<at + j - 1, b[j]>>
        BY <1>8, <4>1
      <4>3. t[i][2] = b[j]
        BY <4>2
      <4> QED BY <1>5, <3>1, <4>1, <4>3
    <3> QED BY <3>2, <3>3
  <2> QED BY <1>3, <2>2, <2>3 DEF Copied
<1>10. /\ fd' \in [kind : {"none", "file", "pipe"}, pos : Nat, append : BOOLEAN, keep : BOOLEAN]
       /\ fd'.pos <= FileLength /\ fd'.kind = fd.kind /\ fd'.keep = fd.keep /\ fd'.append = fd.append
       /\ (call.op = "read" => fd'.pos = after) /\ (call.op # "read" => fd' = fd)
  <2>1. CASE call.op = "read"
    <3>1. fd' = [fd EXCEPT !.pos = after] /\ after \in Nat /\ after <= FileLength
      BY <1>1, <1>2, <1>3, <1>4, <2>1
    <3> QED BY <1>1, <2>1, <3>1 DEF FileTyped
  <2>2. CASE call.op # "read"
    BY <1>1, <2>2 DEF FileTyped
  <2> QED BY <2>1, <2>2
<1>11. Knowing'
  BY <1>1, <1>10 DEF Knowing
<1>12. CASE k = z
  <2>1. File!End("returned", t)
    <3> DEFINE rest == [call EXCEPT !.size = z - k,
                                    !.offset = IF call.op = "read" THEN call.offset ELSE call.offset + k]
    <3>1. rest.size = z - k /\ rest.input = call.input
      BY <1>1 DEF FileTyped
    <3>2. rest.size = 0 /\ rest.input = <<>>
      <4>1. z - k = 0
        BY <1>1, <1>12
      <4> QED BY <1>2, <3>1, <4>1
    <3>3. File!Turn(at, b, rest)
      BY <1>3
    <3> HIDE DEF rest
    <3> QED BY <1>6, <3>2, <3>3 DEF File!Turn
  <2>2. Len(t) = size /\ size > 0 /\ size \in 1 .. FileLength
    <3> DEFINE l == Len(t)
    <3>1. /\ l = n + k /\ z + n = size /\ z \in Nat /\ n \in Nat /\ k = z /\ k > 0 /\ size \in Nat /\ size <= FileLength
      BY <1>1, <1>2, <1>4, <1>8, <1>12
    <3>2. l = size /\ size > 0 /\ size \in 1 .. FileLength
      <4> HIDE DEF l, z, n, size
      <4> QED BY <3>1
    <3> QED BY <3>2
  <2>3. FInv' /\ FilePosition' = fd'.pos
    <3>1. call.op \notin {"write", "positionalWrite"} /\ "returned" \in {"returned", "threw"} /\ Len(t) <= size
      BY <1>1, <2>2
    <3>2. file' \in Seq(Byte) /\ Len(file') <= FileLength
      BY <1>1, <1>3
    <3>3. t \in Transfers /\ Consecutive(t, asked.append)
      BY <1>8
    <3> QED BY <1>1, <1>2, <1>10, <1>11, <2>1, <2>2, <3>1, <3>2, <3>3, EndIsSound
  <2>4. received' = File!Bytes(t)
    BY <1>2, <2>1 DEF File!End
  <2>5. after - Len(t) = at - n
    BY <1>1, <1>4, <1>8
  <2>6. File!Bytes(t) = S!BytesAt(file, at - n, size)
    <3>1. File!Bytes(t) = S!BytesAt(file, after - Len(t), size)
      <4>1. t \in Transfers /\ size \in Nat /\ size > 0 /\ Len(t) = size /\ after \in Nat
        BY <1>1, <1>4, <1>8, <2>2
      <4> HIDE DEF after, size
      <4> QED BY <1>1, <1>9, <4>1, CopiedIsRead
    <3> QED BY <2>5, <3>1
  <2>7. Len(received') = size
    <3>1. t \in Transfers
      BY <1>8
    <3>2. Len(File!Bytes(t)) = Len(t)
      BY <3>1, BytesOfMoves
    <3> QED BY <2>2, <2>4, <3>2
  <2>8. CASE call.op = "read"
    <3>1. FilePosition = asked.start /\ at - n = asked.start
      BY <1>2, <2>8 DEF FilePosition
    <3>2. fd'.pos = asked.start + size
      <4> DEFINE s == asked.start
      <4>1. fd'.pos = at + k /\ at - n = s /\ s \in Nat /\ n + k = size
        BY <1>1, <1>8, <1>10, <2>2, <2>8, <3>1
      <4> HIDE DEF s, n, size
      <4> QED BY <1>1, <1>4, <4>1 DEF s, n, size
    <3>3. received' = S!BytesAt(file, FilePosition, size) /\ FilePosition' = FilePosition + Len(received')
      BY <2>3, <2>4, <2>6, <2>7, <3>1, <3>2
    <3>4. FileSees
      BY <1>3, <2>2, <3>3, FileSeesRead
    <3> QED BY <2>3, <3>4 DEF FileSeen
  <2>9. CASE call.op # "read"
    <3>1. at - n \in 0 .. FileLength
      <4>1. n <= at /\ at - n <= FileLength
        BY <1>2, <2>9 DEF Copied
      <4> QED BY <1>1, <4>1
    <3>2. received' = File!S!BytesAt(file, at - n, size) /\ Len(received') = size
      BY <2>4, <2>6, <2>7 DEF File!S!BytesAt, S!BytesAt
    <3>3. File!Further
      BY <1>3, <1>10, <2>2, <2>9, <3>1, <3>2 DEF File!Further
    <3> QED BY <2>3, <3>3 DEF FileSees, FileSeen
  <2> QED BY <2>8, <2>9
<1>13. CASE k # z
  <2> DEFINE o == IF call.op = "read" THEN call.offset ELSE call.offset + k
  <2>1. z - k > 0 /\ z - k \in Nat /\ o \in Nat
    BY SMTT(30), <1>1, <1>4, <1>13
  <2>2. call' = [call EXCEPT !.size = z - k, !.offset = o] /\ asked' = [asked EXCEPT !.moved = t] /\ received' = received
    <3> DEFINE rest == [call EXCEPT !.size = z - k, !.offset = o]
    <3>1. rest.size = z - k
      BY <1>1 DEF FileTyped
    <3>2. ~(rest.size = 0 /\ rest.input = <<>>)
      BY <2>1, <3>1
    <3>3. File!Turn(at, b, rest)
      BY <1>3
    <3> HIDE DEF rest
    <3>4. call' = rest /\ asked' = [asked EXCEPT !.moved = t] /\ received' = received
      BY <1>6, <3>2, <3>3 DEF File!Turn
    <3> QED BY <3>4 DEF rest
  <2>3. /\ call'.size = z - k /\ call'.offset = o /\ call'.op = call.op /\ call'.input = <<>>
        /\ call' \in [op : Loops, input : Seq(Byte), size : Nat, offset : Nat]
    <3> HIDE DEF o, z
    <3> QED BY <1>1, <1>2, <2>1, <2>2 DEF FileTyped
  <2>4. /\ asked'.moved = t /\ asked'.op = asked.op /\ asked'.input = <<>> /\ asked'.size = size /\ asked'.start = asked.start
        /\ asked'.append = asked.append /\ asked'.state = asked.state
        /\ asked' \in [op : Loops, input : Seq(Byte), size : Nat, start : Nat, append : BOOLEAN, moved : Transfers,
                       state : {"running", "returned", "threw"}]
    BY <1>1, <1>2, <1>8, <2>2 DEF FileTyped
  <2>5. FileTyped'
    BY <1>1, <1>3, <1>10, <2>3, <2>4 DEF FileTyped
  <2>6. Place' = after
    <3>1. CASE call.op = "read"
      BY <1>10, <2>3, <3>1 DEF Place
    <3>2. CASE call.op # "read"
      <4>1. call'.op = "positionalRead" /\ call'.offset = call.offset + k /\ at = call.offset
        BY <1>2, <2>3, <3>2
      <4> QED BY <4>1 DEF Place
    <3> QED BY <3>1, <3>2
  <2>7. Follows(Place', asked'.moved, asked'.append)
    <3>1. after > t[Len(t)][1] /\ after = t[Len(t)][1] + 1
      BY <1>1, <1>4, <1>8
    <3> QED BY <2>4, <2>6, <3>1 DEF Follows
  <2>8. ReadRuns'
    <3>1. call'.size + Len(t) = size
      <4> DEFINE c == call'.size
                 l == Len(t)
      <4>1. /\ c = z - k /\ l = n + k /\ z + n = size /\ z \in Nat /\ n \in Nat /\ k \in Nat /\ size \in Nat
        BY <1>1, <1>2, <1>4, <1>8, <2>3
      <4>2. c + l = size
        <5> HIDE DEF c, l, z, n, size
        <5> QED BY <4>1
      <4> QED BY <4>2
    <3>2. Copied(asked'.moved, file', Place')
      BY <1>3, <1>9, <2>4, <2>6
    <3>3. CASE call.op = "read"
      <4>1. fd'.pos - Len(t) = asked.start
        BY <1>1, <1>2, <1>4, <1>8, <1>10, <3>3
      <4> QED BY <1>2, <2>1, <2>3, <2>4, <3>1, <3>2, <3>3, <4>1 DEF ReadRuns
    <3>4. CASE call.op # "read"
      <4>1. call'.offset - Len(t) <= FileLength
        <5>1. call'.offset = call.offset + k /\ call.offset - n <= FileLength
          BY <1>2, <2>3, <3>4
        <5> QED BY <1>1, <1>4, <1>8, <5>1
      <4> QED BY <1>2, <2>1, <2>3, <2>4, <3>1, <3>2, <3>4, <4>1 DEF ReadRuns
    <3> QED BY <3>3, <3>4
  <2>9. Runs'
    BY <1>1, <1>8, <1>10, <2>3, <2>4, <2>7, <2>8 DEF Runs
  <2>10. FInv'
    BY <1>1, <1>11, <2>3, <2>5, <2>9 DEF FInv
  <2>11. FilePosition' = FilePosition
    BY <1>10, <2>3, <2>4 DEF FilePosition
  <2> QED BY <1>3, <2>2, <2>10, <2>11, FileStays DEF FileSeen
<1> QED BY <1>12, <1>13


\* Writing at the end appends.
LEMMA WrittenAtEnd ==
  ASSUME NEW f \in Seq(Byte), NEW b \in Seq(Byte)
  PROVE  S!Written(f, Len(f), b) = f \o b
<1> DEFINE w == S!Written(f, Len(f), b)
           c == f \o b
           at == Len(f)
<1>1. at \in Nat /\ Len(b) \in Nat /\ (b # <<>> <=> Len(b) > 0)
  BY LenProperties, EmptySeq
<1>2. w = S!Written(f, at, b)
  OBVIOUS
<1> HIDE DEF w
<1>3. /\ w \in Seq(Byte)
      /\ Len(w) = IF b # <<>> /\ at + Len(b) > Len(f) THEN at + Len(b) ELSE Len(f)
      /\ \A i \in 1 .. Len(w) :
           w[i] = IF at < i /\ i <= at + Len(b) THEN b[i - at]
                  ELSE IF i <= Len(f) THEN f[i] ELSE 0
  BY <1>1, <1>2, WrittenProperties
<1>4. Len(w) = at + Len(b)
  BY <1>1, <1>3
<1>5. c \in Seq(Byte) /\ Len(c) = Len(f) + Len(b)
      /\ \A i \in 1 .. Len(f) + Len(b) : c[i] = IF i <= Len(f) THEN f[i] ELSE b[i - Len(f)]
  BY ConcatProperties
<1> HIDE DEF c
<1>6. ASSUME NEW i \in 1 .. Len(w) PROVE w[i] = c[i]
  <2>1. i \in 1 .. Len(f) + Len(b)
    BY <1>4
  <2>2. CASE i <= Len(f)
    BY <1>1, <1>3, <1>5, <2>1, <2>2
  <2>3. CASE ~(i <= Len(f))
    <3>1. at < i /\ i <= at + Len(b)
      BY <1>1, <2>1, <2>3
    <3> QED BY <1>3, <1>5, <2>1, <2>3, <3>1
  <2> QED BY <2>2, <2>3
<1>7. w = c
  BY <1>3, <1>4, <1>5, <1>6, SeqEqual
<1> QED BY <1>7 DEF w, c

\* What a turn writes is a part of the input.
LEMMA PartIsSlice ==
  ASSUME NEW b \in Seq(Byte), NEW r \in Seq(Byte), b \o r \in Slips, NEW k \in 1 .. Len(r)
  PROVE  SubSeq(r, 1, k) \in File!Slices
<1> DEFINE d == b \o r
           c == SubSeq(r, 1, k)
           u == Len(b) + 1
           v == Len(b) + k
           e == SubSeq(d, u, v)
<1>1. Len(b) \in Nat /\ Len(r) \in Nat /\ k \in Nat
  BY LenProperties
<1>2. d \in Seq(Byte) /\ Len(d) = Len(b) + Len(r)
  BY ConcatProperties
<1>3. \A i \in 1 .. Len(b) + Len(r) : d[i] = IF i <= Len(b) THEN b[i] ELSE r[i - Len(b)]
  BY ConcatProperties
<1>4. DOMAIN d = 1 .. Len(d)
  BY <1>2, LenProperties
<1>5. /\ u \in 1 .. Len(d) /\ v \in 1 .. Len(d) /\ u \in Nat \ {0} /\ v \in Int /\ v <= Len(d) /\ u <= v
      /\ v - u + 1 = k
  BY <1>1, <1>2
<1>6. c \in Seq(Byte) /\ Len(c) = k /\ \A i \in 1 .. k : c[i] = r[i]
  <2> DEFINE n == 1
  <2>1. n \in Nat \ {0} /\ k \in Int /\ k <= Len(r) /\ n <= k /\ k - n + 1 = k /\ \A i \in 1 .. k : n + i - 1 = i
    BY <1>1
  <2>2. c = SubSeq(r, n, k)
    OBVIOUS
  <2> HIDE DEF n, c
  <2>3. c \in Seq(Byte) /\ Len(c) = (IF n <= k THEN k - n + 1 ELSE 0) /\ \A i \in 1 .. k - n + 1 : c[i] = r[n + i - 1]
    BY <2>1, <2>2, Slice
  <2> QED BY <2>1, <2>3
<1>7. e = SubSeq(d, u, v)
  OBVIOUS
<1> HIDE DEF u, v, c, d, e
<1>8. e \in Seq(Byte) /\ Len(e) = k /\ \A i \in 1 .. k : e[i] = d[u + i - 1]
  <2>1. e \in Seq(Byte) /\ Len(e) = (IF u <= v THEN v - u + 1 ELSE 0) /\ \A i \in 1 .. v - u + 1 : e[i] = d[u + i - 1]
    BY <1>2, <1>5, <1>7, Slice
  <2> QED BY <1>5, <2>1
<1>9. ASSUME NEW i \in 1 .. k PROVE e[i] = c[i]
  <2> DEFINE j == u + i - 1
  <2>1. j \in 1 .. Len(b) + Len(r) /\ ~(j <= Len(b)) /\ j - Len(b) = i
    BY <1>1 DEF u
  <2>2. d[j] = r[i]
    <3> HIDE DEF j
    <3> QED BY <1>3, <2>1
  <2> QED BY <1>6, <1>8, <2>2
<1>10. e = c
  BY <1>6, <1>8, <1>9, SeqEqual
<1>11. d \in Slips
  BY DEF d
<1>12. u \in DOMAIN d /\ v \in DOMAIN d /\ c = SubSeq(d, u, v)
  BY <1>4, <1>5, <1>7, <1>10
<1>13. c \in {SubSeq(d, u, j) : j \in DOMAIN d}
  BY <1>12, Zenon
<1>14. c \in UNION {{SubSeq(d, i, j) : j \in DOMAIN d} : i \in DOMAIN d}
  <2> DEFINE R(i) == {SubSeq(d, i, j) : j \in DOMAIN d}
             D == DOMAIN d
  <2>1. u \in D /\ c \in R(u)
    BY <1>12, <1>13
  <2>2. c \in UNION {R(i) : i \in D}
    <3> HIDE DEF R, D
    <3> QED BY <2>1
  <2> QED BY <2>2
<1>15. c \in File!Slices
  <2> DEFINE F(x) == UNION {{SubSeq(x, i, j) : j \in DOMAIN x} : i \in DOMAIN x}
  <2>1. c \in F(d)
    BY <1>14
  <2>2. c \in UNION {F(x) : x \in Slips}
    <3> HIDE DEF F
    <3> QED BY <1>11, <2>1
  <2> QED BY <2>2 DEF File!Slices
<1> QED BY <1>15 DEF c

\* A turn that writes k bytes.
LEMMA WriteTurn ==
  ASSUME FInv, call.op \in {"write", "positionalWrite"}, NEW k \in 1 .. Len(call.input), File!Writes(Place, k),
         fd' = (IF call.op = "write" THEN [fd EXCEPT !.pos = Place + k] ELSE fd), UNCHANGED <<object, astray>>
  PROVE  FileSeen
<1> USE FileAssumption
<1> DEFINE m == asked.moved
           n == Len(m)
           at == Place
           i == call.input
           b == SubSeq(i, 1, k)
           more == SubSeq(i, k + 1, Len(i))
           t == m \o File!Places(at, b)
           f == file'
           after == at + k
           z == Len(i)
           bm == File!Bytes(m)
           bt == File!Bytes(t)
<1>1. /\ Runs /\ FileTyped /\ Knowing /\ m \in Transfers /\ n \in Nat /\ Consecutive(m, asked.append) /\ call.op \in Loops
      /\ Follows(at, m, asked.append) /\ asked.append \in BOOLEAN
      /\ fd.pos \in Nat /\ file \in Seq(Byte) /\ fd.append \in BOOLEAN /\ fd.pos <= FileLength
      /\ Len(file) \in Nat /\ Len(file) <= FileLength /\ at \in Nat /\ call.offset \in Nat /\ call.op # "none"
      /\ i \in Seq(Byte) /\ z \in Nat /\ asked.input \in Seq(Byte)
  BY RunsFacts
<1>2. /\ call.size = 0 /\ asked.size = 0 /\ i # <<>> /\ asked.input \in Slips /\ bm \o i = asked.input
      /\ (call.op = "write" => Len(file) + z <= FileLength /\ fd.pos + z <= FileLength
                               /\ at = IF fd.append THEN Len(file) ELSE fd.pos)
      /\ (call.op # "write" => call.offset + z <= FileLength /\ at = call.offset)
  BY <1>1 DEF Runs, WriteRuns, Place
<1>3. /\ f = File!S!Written(file, at, b)
      /\ File!Turn(at, b, [call EXCEPT !.input = more, !.offset = IF call.op = "write" THEN call.offset ELSE call.offset + k])
  BY DEF File!Writes, File!Advanced
<1>4. k \in Nat /\ k > 0 /\ k <= z /\ after \in Nat
  BY <1>1
<1>5. b \in Seq(Byte) /\ Len(b) = k /\ b # <<>> /\ more \in Seq(Byte) /\ Len(more) = z - k /\ b \o more = i
  <2> DEFINE u == k + 1
  <2>1. u = k + 1 /\ k \in 0 .. Len(i)
    BY <1>1, <1>4
  <2>2. b = SubSeq(i, 1, k) /\ more = SubSeq(i, u, Len(i))
    OBVIOUS
  <2> HIDE DEF u, b, more
  <2>3. b \in Seq(Byte) /\ Len(b) = k /\ more \in Seq(Byte) /\ Len(more) = Len(i) - k /\ b \o more = i
    BY <1>1, <2>1, <2>2, Parts
  <2>4. b # <<>>
    BY <1>4, <2>3, EmptySeq
  <2> QED BY <2>3, <2>4
<1>6. t = m \o File!Places(at, b) /\ bm = File!Bytes(m) /\ bt = File!Bytes(t)
  OBVIOUS
<1>7. b \in File!Slices
  <2>1. bm \in Seq(Byte)
    <3> HIDE DEF bm
    <3> QED BY <1>1, <1>6, BytesOfMoves
  <2>2. bm \o i \in Slips
    BY <1>2
  <2> HIDE DEF bm
  <2> QED BY <1>1, <2>1, <2>2, PartIsSlice
<1> HIDE DEF t, b, at, more, bm, bt, f
<1>8. Extended(t, m, at, b, asked.append)
  <2>1. b \in Seq(Byte) /\ b # <<>>
    BY <1>5
  <2> QED BY <1>1, <1>6, <2>1, TurnExtends
<1>9. /\ t \in Transfers /\ Len(t) = n + k /\ Consecutive(t, asked.append) /\ t # <<>> /\ t[Len(t)][1] = at + k - 1
      /\ bt = bm \o b
  BY <1>5, <1>6, <1>8 DEF Extended
<1>10. bt \o more = asked.input /\ bt \in Seq(Byte)
  <2>1. bm \in Seq(Byte)
    BY <1>1, <1>6, BytesOfMoves
  <2>2. b \in Seq(Byte) /\ more \in Seq(Byte)
    BY <1>5
  <2>3. (bm \o b) \o more = bm \o (b \o more)
    BY <2>1, <2>2, ConcatAssociative
  <2>4. bm \o b \in Seq(Byte)
    BY <2>1, <2>2, ConcatProperties
  <2> QED BY <1>2, <1>5, <1>9, <2>3, <2>4
<1>11. f \in Seq(Byte) /\ Len(f) = IF after > Len(file) THEN after ELSE Len(file)
  <2>1. f = S!Written(file, at, b)
    BY <1>3 DEF File!S!Written, S!Written
  <2>2. f \in Seq(Byte) /\ Len(f) = IF b # <<>> /\ at + Len(b) > Len(file) THEN at + Len(b) ELSE Len(file)
    <3>1. b \in Seq(Byte)
      BY <1>5
    <3> QED BY <1>1, <2>1, <3>1, WrittenProperties
  <2> QED BY <1>5, <2>2
<1>12. Len(f) <= FileLength /\ after <= FileLength
       /\ (call.op = "write" => Len(f) + (z - k) <= FileLength /\ after + (z - k) <= FileLength)
  <2> DEFINE l == Len(file)
             lf == Len(f)
             p == fd.pos
             o == call.offset
  <2>1. /\ l \in Nat /\ l <= FileLength /\ p \in Nat /\ o \in Nat /\ z \in Nat /\ k \in Nat /\ k <= z /\ at \in Nat
        /\ after = at + k /\ (lf = IF after > l THEN after ELSE l)
        /\ (call.op = "write" => l + z <= FileLength /\ p + z <= FileLength /\ (at = l \/ at = p))
        /\ (call.op # "write" => o + z <= FileLength /\ at = o)
    BY <1>1, <1>2, <1>4, <1>11
  <2>2. lf <= FileLength /\ after <= FileLength
        /\ (call.op = "write" => lf + (z - k) <= FileLength /\ after + (z - k) <= FileLength)
    <3> HIDE DEF l, lf, p, o, z, after
    <3> QED BY <2>1
  <2> QED BY <2>2
<1>13. /\ fd' \in [kind : {"none", "file", "pipe"}, pos : Nat, append : BOOLEAN, keep : BOOLEAN]
       /\ fd'.pos <= FileLength /\ fd'.kind = fd.kind /\ fd'.keep = fd.keep /\ fd'.append = fd.append
       /\ (call.op = "write" => fd'.pos = after) /\ (call.op # "write" => fd' = fd)
  <2>1. CASE call.op = "write"
    <3>1. fd' = [fd EXCEPT !.pos = after] /\ after \in Nat /\ after <= FileLength
      BY <1>4, <1>12, <2>1 DEF at
    <3> HIDE DEF after
    <3> QED BY <1>1, <2>1, <3>1 DEF FileTyped
  <2>2. CASE call.op # "write"
    BY <1>1, <2>2 DEF FileTyped
  <2> QED BY <2>1, <2>2
<1>14. Knowing'
  BY <1>1, <1>13 DEF Knowing
<1>15. f = S!Written(file, at, b)
  BY <1>3 DEF File!S!Written, S!Written
\* What the contract says of it.
<1>16. ASSUME received' = received, FilePosition' = fd'.pos
       PROVE  FileSees
  <2>1. FilePosition = fd.pos
    BY DEF FilePosition
  <2>2. CASE call.op = "write" /\ fd.append
    <3>1. at = Len(file)
      BY <1>2, <2>2
    <3>2. f = file \o b
      <4>1. b \in Seq(Byte)
        BY <1>5
      <4>2. S!Written(file, Len(file), b) = file \o b
        BY <1>1, <4>1, WrittenAtEnd
      <4> QED BY <1>15, <3>1, <4>2
    <3>3. fd'.pos = Len(f)
      <4>1. after > Len(file)
        BY <1>1, <1>4, <3>1
      <4> QED BY <1>11, <1>13, <2>2, <4>1
    <3>4. File!Further
      BY <1>7, <1>16, <2>2, <3>2, <3>3 DEF File!Further, f
    <3> QED BY <3>4 DEF FileSees
  <2>3. CASE call.op = "write" /\ ~fd.append
    <3>1. at = fd.pos
      BY <1>2, <2>3
    <3>2. file' = S!Written(file, FilePosition, b) /\ FilePosition' = FilePosition + Len(b)
      BY <1>5, <1>13, <1>15, <1>16, <2>1, <2>3, <3>1 DEF f
    <3>3. b \in Seq(Byte)
      BY <1>5
    <3> QED BY <1>7, <1>16, <3>2, <3>3, FileSeesWrite
  <2>4. CASE call.op # "write"
    <3>1. fd' = fd /\ at \in 0 .. FileLength
      BY <1>1, <1>2, <1>13, <2>4
    <3>2. file' = File!S!Written(file, at, b)
      BY <1>3 DEF f
    <3>3. File!Further
      BY <1>7, <1>16, <3>1, <3>2 DEF File!Further
    <3> QED BY <3>3 DEF FileSees
  <2> QED BY <2>2, <2>3, <2>4
<1>17. CASE k = z
  <2>1. more = <<>>
    BY <1>4, <1>5, <1>17, EmptySeq
  <2>2. File!End("returned", t)
    <3> DEFINE rest == [call EXCEPT !.input = more, !.offset = IF call.op = "write" THEN call.offset ELSE call.offset + k]
    <3>1. rest.size = 0 /\ rest.input = <<>>
      BY <1>1, <1>2, <2>1 DEF FileTyped
    <3>2. File!Turn(at, b, rest)
      BY <1>3
    <3> HIDE DEF rest
    <3> QED BY <1>6, <3>1, <3>2 DEF File!Turn
  <2>3. bt = asked.input /\ asked.input # <<>>
    <3>1. bt = asked.input
      BY <1>10, <2>1, ConcatEmptySeq
    <3> QED BY <1>2, <3>1
  <2>4. File!Bytes(t) = SubSeq(asked.input, 1, Len(File!Bytes(t))) /\ File!Bytes(t) = asked.input
    <3>1. SubSeq(asked.input, 1, Len(asked.input)) = asked.input
      BY <1>1, SubSeqFull
    <3> QED BY <1>6, <2>3, <3>1
  <2>5. FInv' /\ FilePosition' = fd'.pos
    <3>1. call.op \notin {"read", "positionalRead"} /\ "returned" \in {"returned", "threw"}
      OBVIOUS
    <3>2. file' \in Seq(Byte) /\ Len(file') <= FileLength
      BY <1>11, <1>12 DEF f
    <3>3. t \in Transfers /\ Consecutive(t, asked.append)
      BY <1>9
    <3> QED BY <1>1, <1>13, <1>14, <2>2, <2>3, <2>4, <3>1, <3>2, <3>3, EndIsSound
  <2>6. received' = received
    BY <1>2, <2>2 DEF File!End
  <2> QED BY <1>16, <2>5, <2>6 DEF FileSeen
<1>18. CASE k # z
  <2> DEFINE o == IF call.op = "write" THEN call.offset ELSE call.offset + k
             zm == Len(more)
  <2>1. zm = z - k /\ zm > 0 /\ o \in Nat
    <3>1. z \in Nat /\ k \in Nat /\ k <= z /\ k # z /\ zm = z - k
      BY <1>1, <1>4, <1>5, <1>18
    <3>2. zm = z - k /\ zm > 0
      <4> HIDE DEF zm, z
      <4> QED BY <3>1
    <3>3. o \in Nat
      BY <1>1, <1>4
    <3> QED BY <3>2, <3>3
  <2>2. more # <<>>
    BY <2>1, EmptySeq
  <2>3. call' = [call EXCEPT !.input = more, !.offset = o] /\ asked' = [asked EXCEPT !.moved = t] /\ received' = received
    <3> DEFINE rest == [call EXCEPT !.input = more, !.offset = o]
    <3>1. rest.input = more
      BY <1>1 DEF FileTyped
    <3>2. ~(rest.size = 0 /\ rest.input = <<>>)
      BY <2>2, <3>1
    <3>3. File!Turn(at, b, rest)
      BY <1>3
    <3> HIDE DEF rest
    <3>4. call' = rest /\ asked' = [asked EXCEPT !.moved = t] /\ received' = received
      BY <1>6, <3>2, <3>3 DEF File!Turn
    <3> QED BY <3>4 DEF rest
  <2>4. /\ call'.input = more /\ call'.offset = o /\ call'.op = call.op /\ call'.size = 0
        /\ call' \in [op : Loops, input : Seq(Byte), size : Nat, offset : Nat]
    <3>1. more \in Seq(Byte)
      BY <1>5
    <3> HIDE DEF o
    <3> QED BY <1>1, <1>2, <2>1, <2>3, <3>1 DEF FileTyped
  <2>5. /\ asked'.moved = t /\ asked'.op = asked.op /\ asked'.input = asked.input /\ asked'.size = 0
        /\ asked'.append = asked.append /\ asked'.state = asked.state
        /\ asked' \in [op : Loops, input : Seq(Byte), size : Nat, start : Nat, append : BOOLEAN, moved : Transfers,
                       state : {"running", "returned", "threw"}]
    BY <1>1, <1>2, <1>9, <2>3 DEF FileTyped
  <2>6. FileTyped'
    BY <1>1, <1>11, <1>12, <1>13, <2>4, <2>5 DEF FileTyped, f
  <2>7. Place' = after
    <3>1. CASE call.op = "write" /\ fd.append
      <4>1. Place' = Len(f)
        BY <1>13, <2>4, <3>1 DEF Place, f
      <4>2. after > Len(file)
        BY <1>1, <1>2, <1>4, <3>1
      <4> QED BY <1>11, <4>1, <4>2
    <3>2. CASE call.op = "write" /\ ~fd.append
      BY <1>13, <2>4, <3>2 DEF Place
    <3>3. CASE call.op # "write"
      <4>1. call'.op = "positionalWrite" /\ call'.offset = call.offset + k /\ at = call.offset
        BY <1>2, <2>4, <3>3
      <4> QED BY <4>1 DEF Place
    <3> QED BY <3>1, <3>2, <3>3
  <2>8. Follows(Place', asked'.moved, asked'.append)
    <3>1. after > t[Len(t)][1] /\ after = t[Len(t)][1] + 1
      BY <1>1, <1>4, <1>9
    <3> QED BY <2>5, <2>7, <3>1 DEF Follows
  <2>9. WriteRuns'
    <3>1. File!Bytes(asked'.moved) \o call'.input = asked'.input
      BY <1>6, <1>10, <2>4, <2>5
    <3>2. CASE call.op = "write"
      <4>1. Len(f) + zm <= FileLength /\ after + zm <= FileLength
        BY <1>12, <2>1, <3>2
      <4>2. Len(file') + Len(call'.input) <= FileLength /\ fd'.pos + Len(call'.input) <= FileLength
        BY <1>13, <2>4, <3>2, <4>1 DEF f
      <4> QED BY <1>2, <2>2, <2>4, <2>5, <3>1, <3>2, <4>2 DEF WriteRuns
    <3>3. CASE call.op # "write"
      <4>1. call'.offset + Len(call'.input) <= FileLength
        <5> DEFINE co == call.offset
        <5>1. co + z <= FileLength /\ o = co + k /\ zm = z - k /\ co \in Nat /\ z \in Nat /\ k \in Nat
          BY <1>1, <1>2, <1>4, <2>1, <3>3
        <5>2. o + zm <= FileLength
          <6> HIDE DEF co, o, zm, z
          <6> QED BY <5>1
        <5> QED BY <2>4, <5>2
      <4> QED BY <1>2, <2>2, <2>4, <2>5, <3>1, <3>3, <4>1 DEF WriteRuns
    <3> QED BY <3>2, <3>3
  <2>10. Runs'
    BY <1>1, <1>9, <1>13, <2>4, <2>5, <2>8, <2>9 DEF Runs
  <2>11. FInv'
    BY <1>1, <1>14, <2>4, <2>6, <2>10 DEF FInv
  <2>12. FilePosition' = fd'.pos
    BY <2>4 DEF FilePosition
  <2> QED BY <1>16, <2>3, <2>11, <2>12 DEF FileSeen
<1> QED BY <1>17, <1>18


\* Others append, and the loop, if one runs, goes on.
LEMMA OthersFile ==
  ASSUME FInv, File!Others
  PROVE  FileSeen
<1> USE FileAssumption
<1> DEFINE f == file'
<1>1. /\ Len(file) + Len(call.input) < FileLength /\ f = Append(file, Other)
      /\ UNCHANGED <<fd, object, call, asked, received, astray>>
  BY DEF File!Others
<1>2. FileTyped /\ Knowing /\ file \in Seq(Byte) /\ Len(file) \in Nat /\ call.input \in Seq(Byte) /\ Len(call.input) \in Nat
  BY LenProperties DEF FInv, FileTyped
<1>3. f \in Seq(Byte) /\ Len(f) = Len(file) + 1 /\ \A i \in 1 .. Len(file) : f[i] = file[i]
  <2> HIDE DEF f
  <2>1. f \in Seq(Byte) /\ Len(f) = Len(file) + 1
    BY <1>1, <1>2, AppendProperties
  <2>2. \A i \in 1 .. Len(file) : f[i] = file[i]
    BY <1>1, <1>2, AppendProperties
  <2> QED BY <2>1, <2>2
<1> HIDE DEF f
<1>4. Len(f) + Len(call.input) <= FileLength /\ Len(f) <= FileLength
  <2> DEFINE l == Len(file)
             n == Len(f)
             w == Len(call.input)
  <2>1. l \in Nat /\ w \in Nat /\ FileLength \in Nat /\ n = l + 1 /\ l + w < FileLength
    BY <1>1, <1>2, <1>3
  <2> HIDE DEF l, n, w
  <2>2. n + w <= FileLength /\ n <= FileLength
    BY <2>1
  <2> QED BY <2>2 DEF n, w
<1>5. FileTyped'
  BY <1>1, <1>2, <1>3, <1>4 DEF FileTyped, f
<1>6. Knowing'
  BY <1>1, <1>2 DEF Knowing
<1>7. ASSUME call.op = "none" PROVE File!TransfersOnce'
  <2>1. File!TransfersOnce
    BY <1>7 DEF FInv
  <2> QED BY <1>1, <2>1 DEF File!TransfersOnce
<1>8. ASSUME call.op # "none" PROVE Runs'
  <2>1. /\ Runs /\ fd.append \in BOOLEAN /\ asked.moved \in Transfers /\ Len(asked.moved) \in Nat /\ Place \in Nat
        /\ Follows(Place, asked.moved, asked.append) /\ asked.append = fd.append /\ fd.pos \in Nat
    BY <1>8, RunsFacts DEF Runs
  <2>2. Place' = IF call.op = "write" /\ fd.append THEN Len(f) ELSE Place
    BY <1>1 DEF Place, f
  <2>3. Follows(Place', asked'.moved, asked'.append)
    <3>1. CASE call.op = "write" /\ fd.append
      <4>1. Place' = Place + 1 /\ asked'.append = asked.append /\ asked'.moved = asked.moved /\ asked.append = TRUE
        BY <1>1, <1>3, <2>1, <2>2, <3>1 DEF Place
      <4>2. asked.moved # <<>> => Place > asked.moved[Len(asked.moved)][1]
        BY <2>1 DEF Follows
      <4>3. ASSUME asked.moved # <<>> PROVE Place + 1 > asked.moved[Len(asked.moved)][1]
        <5> DEFINE m == asked.moved
                   x == m[Len(m)]
        <5>1. Len(m) \in 1 .. Len(m)
          BY <2>1, <4>3, EmptySeq DEF Transfers
        <5>2. x \in Nat \X Byte
          BY <2>1, <5>1, ElementOfSeq DEF Transfers
        <5>3. x[1] \in Nat /\ Place > x[1]
          <6>1. x[1] \in Nat
            <7> HIDE DEF x
            <7> QED BY <5>2
          <6> QED BY <4>2, <4>3, <6>1
        <5>4. Place + 1 > x[1]
          <6> HIDE DEF x
          <6> QED BY <2>1, <5>3
        <5> QED BY <5>4
      <4> QED BY <4>1, <4>3 DEF Follows
    <3>2. CASE ~(call.op = "write" /\ fd.append)
      BY <1>1, <2>1, <2>2, <3>2
    <3> QED BY <3>1, <3>2
  <2>4. ASSUME call.op \in {"read", "positionalRead"} PROVE ReadRuns'
    <3>1. ReadRuns /\ Place' = Place
      BY <2>1, <2>2, <2>4 DEF Runs
    <3>2. Copied(asked'.moved, file', Place')
      <4> DEFINE m == asked.moved
                 n == Len(m)
      <4>1. n <= Place /\ (m # <<>> => Place <= Len(file)) /\ \A i \in 1 .. n : m[i][2] = file[Place - n + i]
        BY <3>1 DEF ReadRuns, Copied
      <4>2. ASSUME NEW i \in 1 .. n PROVE m[i][2] = f[Place - n + i]
        <5>1. m # <<>>
          <6>1. n # 0
            BY <2>1
          <6> QED BY <6>1, EmptySeq
        <5>2. Place - n + i \in 1 .. Len(file)
          <6> DEFINE p == Place
                     l == Len(file)
          <6>1. p \in Nat /\ n \in Nat /\ l \in Nat /\ n <= p /\ p <= l
            BY <1>2, <2>1, <4>1, <5>1
          <6>2. p - n + i \in 1 .. l
            <7> HIDE DEF p, l, n
            <7> QED BY <6>1
          <6> QED BY <6>2
        <5> QED BY <1>3, <4>1, <5>2
      <4>3. m # <<>> => Place <= Len(f)
        BY <1>2, <1>3, <2>1, <4>1
      <4>4. Copied(m, f, Place)
        BY <4>1, <4>2, <4>3 DEF Copied
      <4> QED BY <1>1, <3>1, <4>4 DEF f
    <3> QED BY <1>1, <3>1, <3>2 DEF ReadRuns
  <2>5. ASSUME call.op \in {"write", "positionalWrite"} PROVE WriteRuns'
    <3>1. WriteRuns
      BY <2>1, <2>5 DEF Runs
    <3> QED BY <1>1, <1>4, <3>1 DEF WriteRuns, f
  <2> QED BY <1>1, <2>1, <2>3, <2>4, <2>5 DEF Runs
<1>9. FInv'
  BY <1>1, <1>5, <1>6, <1>7, <1>8 DEF FInv
<1>10. File!Further
  BY <1>1 DEF File!Further, f
<1> QED BY <1>9, <1>10 DEF FileSeen, FileSees

LEMMA LoopsFile ==
  ASSUME FInv, File!Loop
  PROVE  FileSeen
<1>1. UNCHANGED <<object, astray>>
  BY DEF File!Loop
<1>2. CASE File!Read
  <2>1. call.op = "read" /\ call.op # "none" /\ Place = fd.pos
    BY <1>2 DEF File!Read, Place
  <2>2. ASSUME NEW k \in 1 .. call.size, File!Reads(fd.pos, k), fd' = [fd EXCEPT !.pos = fd.pos + k] PROVE FileSeen
    BY <1>1, <2>1, <2>2, ReadTurn
  <2>3. ASSUME fd.pos >= Len(file), File!End("returned", asked.moved), UNCHANGED <<file, fd>> PROVE FileSeen
    BY <1>1, <2>1, <2>3, ReadEnds
  <2> QED BY <1>2, <2>2, <2>3 DEF File!Read
<1>3. CASE File!PositionalRead
  <2>1. call.op = "positionalRead" /\ call.op # "none" /\ call.op # "read" /\ Place = call.offset /\ fd' = fd
    BY <1>3 DEF File!PositionalRead, Place
  <2>2. ASSUME NEW k \in 1 .. call.size, File!Reads(call.offset, k) PROVE FileSeen
    BY <1>1, <2>1, <2>2, ReadTurn
  <2>3. ASSUME File!End("threw", asked.moved), file' = file PROVE FileSeen
    BY <1>1, <2>1, <2>3, ThrowsFile
  <2> QED BY <1>3, <2>2, <2>3 DEF File!PositionalRead
<1>4. CASE File!Write
  <2>1. call.op = "write" /\ Place = IF fd.append THEN Len(file) ELSE fd.pos
    BY <1>4 DEF File!Write, Place
  <2>2. ASSUME NEW k \in 1 .. Len(call.input), File!Writes(Place, k), fd' = [fd EXCEPT !.pos = Place + k] PROVE FileSeen
    BY <1>1, <2>1, <2>2, WriteTurn
  <2> QED BY <1>4, <2>1, <2>2 DEF File!Write
<1>5. CASE File!PositionalWrite
  <2>1. call.op = "positionalWrite" /\ call.op # "write" /\ Place = call.offset /\ fd' = fd
    BY <1>5 DEF File!PositionalWrite, Place
  <2>2. ASSUME NEW k \in 1 .. Len(call.input), File!Writes(call.offset, k) PROVE FileSeen
    BY <1>1, <2>1, <2>2, WriteTurn
  <2> QED BY <1>5, <2>2 DEF File!PositionalWrite
<1>6. CASE File!Interrupted
  <2>1. UNCHANGED <<file, fd, call, asked, received, object, astray>>
    BY <1>1, <1>6 DEF File!Interrupted
  <2>2. FInv'
    BY <2>1 DEF FInv, FileTyped, Knowing, Runs, ReadRuns, WriteRuns, Place, File!TransfersOnce
  <2>3. FilePosition' = FilePosition
    BY <2>1 DEF FilePosition
  <2> QED BY <2>1, <2>2, <2>3, FileStays DEF FileSeen
<1>7. CASE File!Fails
  BY <1>1, <1>7, ThrowsFile DEF File!Fails, File!Idle
<1> QED BY <1>2, <1>3, <1>4, <1>5, <1>6, <1>7 DEF File!Loop

LEMMA FileInit ==
  File!Init => FInv
<1> SUFFICES ASSUME File!Init PROVE FInv
  OBVIOUS
<1> USE FileAssumption
<1>1. /\ file = <<>> /\ fd = [kind |-> "none", pos |-> 0, append |-> FALSE, keep |-> FALSE]
      /\ object = [access |-> "ReadWrite", lifetime |-> "AutoClose", seekable |-> -1]
      /\ call = [op |-> "none", input |-> <<>>, size |-> 0, offset |-> 0]
      /\ asked = File!NothingAsked /\ astray = FALSE
  BY NoFdTyped DEF File!Init, File!NoCall
<1>2. asked \in [op : Loops, input : Seq(Byte), size : Nat, start : Nat, append : BOOLEAN, moved : Transfers,
                 state : {"running", "returned", "threw"}]
  BY <1>1, NothingMoved
<1>3. FileTyped
  BY <1>1, <1>2, EmptyMoves DEF FileTyped, Loops
<1>4. Knowing
  BY <1>1 DEF Knowing
<1>5. File!TransfersOnce
  <2>1. asked.moved = <<>> /\ asked.input = <<>> /\ asked.size = 0 /\ asked.op = "none"
    BY <1>1 DEF File!NothingAsked
  <2>2. \A i \in 1 .. Len(asked.moved) - 1 :
          asked.moved[i + 1][1] > asked.moved[i][1] /\ (asked.moved[i + 1][1] = asked.moved[i][1] + 1 \/ asked.append)
    <3>1. 1 .. Len(asked.moved) - 1 = {}
      BY <2>1, EmptyMoves
    <3> QED BY <3>1
  <2>3. Len(File!Bytes(asked.moved)) <= asked.size
    BY <2>1, EmptyMoves
  <2> QED BY <2>1, <2>2, <2>3 DEF File!TransfersOnce
<1> QED BY <1>1, <1>3, <1>4, <1>5 DEF FInv

LEMMA FileNext ==
  ASSUME FInv, File!Next
  PROVE  FileSeen
<1>1. CASE \/ \E m \in File!Modes, access \in Accesses : File!tryOpenInternal(m, access)
           \/ \E lifetime \in {"AutoClose", "DontClose"} : File!openNative("pipe", "ReadWrite", lifetime)
  BY <1>1, OpensFile
<1>2. CASE File!close \/ File!releaseNativeFile \/ File!destroy
  BY <1>2, LeavesFile
<1>3. CASE File!canSeek \/ File!getLength
  BY <1>3, CanSeekFile, LengthsOfFile
<1>4. CASE \E n \in 0 .. FileLength : (n > 0 /\ File!readAtMost(n)) \/ File!seek(n) \/ File!setLength(n)
  BY <1>4, BeginsFile, SeekFile, LengthsOfFile
<1>5. CASE \/ \E offset \in 0 .. FileLength, n \in 1 .. FileLength : File!positionalRead(offset, n)
           \/ \E input \in Slips : fd.pos + Len(input) <= FileLength /\ Len(file) + Len(input) <= FileLength
                                   /\ File!write(input)
           \/ \E input \in Slips, offset \in 0 .. FileLength :
                offset + Len(input) <= FileLength /\ File!positionalWrite(offset, input)
  BY <1>5, BeginsFile
<1>6. CASE File!Loop \/ File!Others
  BY <1>6, LoopsFile, OthersFile
<1> QED BY <1>1, <1>2, <1>3, <1>4, <1>5, <1>6 DEF File!Next

LEMMA FileSafe ==
  FInv => File!TransfersOnce /\ File!KnowsItsFile
<1> SUFFICES ASSUME FInv PROVE File!TransfersOnce /\ File!KnowsItsFile
  OBVIOUS
<1>1. File!KnowsItsFile
  BY DEF FInv, Knowing, File!KnowsItsFile, File!isOpen
<1>2. CASE call.op = "none"
  BY <1>1, <1>2 DEF FInv
<1>3. CASE call.op # "none"
  <2> DEFINE m == asked.moved
             b == File!Bytes(m)
  <2>1. /\ Runs /\ m \in Transfers /\ Len(m) \in Nat /\ call.input \in Seq(Byte) /\ asked.size \in Nat /\ call.size \in Nat
        /\ asked.op = call.op /\ asked.state = "running" /\ call.op \in Loops /\ Consecutive(m, asked.append)
    BY <1>3, RunsFacts DEF Runs
  <2>2. b \in Seq(Byte) /\ Len(b) = Len(m)
    <3>1. b = File!Bytes(m)
      OBVIOUS
    <3> HIDE DEF b
    <3> QED BY <2>1, <3>1, BytesOfMoves
  <2>3. \A i \in 1 .. Len(m) - 1 : m[i + 1][1] > m[i][1] /\ (m[i + 1][1] = m[i][1] + 1 \/ asked.append)
    BY <2>1 DEF Consecutive
  <2>4. IF asked.input # <<>> THEN b = SubSeq(asked.input, 1, Len(b)) ELSE Len(b) <= asked.size
    <3>1. CASE call.op \in {"write", "positionalWrite"}
      <4>1. asked.input # <<>> /\ b \o call.input = asked.input
        BY <2>1, <3>1, FileAssumption DEF Runs, WriteRuns
      <4> HIDE DEF b
      <4>2. SubSeq(b \o call.input, 1, Len(b)) = b
        BY <2>1, <2>2, PrefixOfConcat
      <4> QED BY <4>1, <4>2
    <3>2. CASE call.op \in {"read", "positionalRead"}
      <4>1. asked.input = <<>> /\ call.size + Len(m) = asked.size
        BY <2>1, <3>2 DEF Runs, ReadRuns
      <4> QED BY <2>1, <2>2, <4>1
    <3> QED BY <1>3, <2>1, <3>1, <3>2 DEF Loops
  <2> QED BY <1>1, <2>1, <2>3, <2>4 DEF File!TransfersOnce
<1> QED BY <1>2, <1>3

\* However the system cuts a read or a write up, whatever is interrupted or fails,
\* and whoever appends in between: each byte is moved once and in order, a file
\* stream that is open is a stream, and closes what it has to close (FileStream).
\* For any inputs and lengths, if a stream is not used again after its descriptor
\* was released.
THEOREM FileIsAStream ==
  MCSpec => FilesAreStreams
<1>1. MCInit => (part = "file" => FInv)
  BY FileInit DEF MCInit
<1>2. ASSUME part = "file" => FInv, [MCNext]_<<part, vars, memoryVars, fileVars, diskVars>>
      PROVE  /\ (part = "file" => FInv)'
             /\ [part = "file" => File!ImplementsStream]_fileVars
  <2>1. part' = part
    BY <1>2 DEF MCNext
  <2>2. CASE part = "file" /\ File!Next
    <3>1. FileSeen
      BY <1>2, <2>2, FileNext
    <3>2. File!ImplementsStream
      BY <3>1 DEF FileSeen, FileSees, File!ImplementsStream, File!isOpen
    <3> QED BY <3>1, <3>2 DEF FileSeen
  <2>3. CASE ~(part = "file" /\ File!Next)
    <3>1. UNCHANGED fileVars
      BY <1>2, <2>3 DEF MCNext
    <3>2. FInv => FInv'
      BY <3>1 DEF fileVars, FInv, FileTyped, Knowing, Runs, ReadRuns, WriteRuns, Place, File!TransfersOnce
    <3> QED BY <1>2, <2>1, <3>1, <3>2
  <2> QED BY <2>2, <2>3
<1>3. (part = "file" => FInv) => (part = "file" => File!TransfersOnce /\ File!KnowsItsFile)
  BY FileSafe
<1> QED BY <1>1, <1>2, <1>3, PTL DEF MCSpec, FilesAreStreams
==============================================================================
