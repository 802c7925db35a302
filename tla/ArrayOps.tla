------------------------------ MODULE ArrayOps ------------------------------
(***************************************************************************)
(* src/Stp/Base/Containers/ArrayOps.h: what the loops over objects do to a *)
(* block of memory, for a class whose objects have to be constructed and   *)
(* destroyed.  A block is a sequence of places, each raw or an object; an  *)
(* object constructed over another one, or used where there is none, is    *)
(* Bad, and so is all of a block that was overrun.                         *)
(***************************************************************************)
EXTENDS Integers, Sequences

Raw == "raw"
Bad == "bad"

allocateMemory(n) == [i \in 1 .. n |-> Raw]

Inside(i, at, n) == at < i /\ i <= at + n

\* uninitializedCopy, uninitializedFill, uninitializedInit, and relocation from
\* another block.
Constructed(block, at, objects) ==
  IF at + Len(objects) > Len(block) THEN <<Bad>>
  ELSE [i \in DOMAIN block |->
         IF ~Inside(i, at, Len(objects)) THEN block[i]
         ELSE IF block[i] = Raw /\ objects[i - at] # Raw THEN objects[i - at] ELSE Bad]

destroyObjects(block, at, n) ==
  [i \in DOMAIN block |-> IF ~Inside(i, at, n) THEN block[i] ELSE IF block[i] = Raw THEN Bad ELSE Raw]

copyObjects(block, at, objects) ==
  IF at + Len(objects) > Len(block) THEN <<Bad>>
  ELSE [i \in DOMAIN block |->
         IF ~Inside(i, at, Len(objects)) THEN block[i] ELSE IF block[i] = Raw THEN Bad ELSE objects[i - at]]

\* uninitializedRelocate within a block: each object is moved and destroyed, from
\* the side on which the places may overlap.
Relocated(block, to, from, n) ==
  Constructed(destroyObjects(block, from, n), to, SubSeq(block, from + 1, from + n))

\* What of a block is not destroyed when it is freed.
Undestroyed(block) == \E i \in DOMAIN block : block[i] # Raw

\* The objects of an array are in the first places of its block, and nowhere else.
WellBuilt(block, size) ==
  /\ size <= Len(block)
  /\ \A i \in DOMAIN block : block[i] # Bad /\ (i <= size <=> block[i] # Raw)
==============================================================================
