-------------------------------- MODULE List --------------------------------
(***************************************************************************)
(* src/Stp/Base/Containers/List.h: arrays that grow, of objects of a class *)
(* whose copies may throw and whose moves do not.  What throws without     *)
(* changing anything is not enabled.                                       *)
(***************************************************************************)
EXTENDS ArrayOps

CONSTANTS
  Arrays, Inputs,
  MaxCapacity,  \* MaxCapacity_
  Careful       \* callers do not assign more objects than there are where there is room for them

VARIABLE lists  \* data_ and capacity_ (the block), size_, and whether freed memory had objects in it

Empty == [block |-> <<>>, size |-> 0, lost |-> FALSE]

Items(a) == SubSeq(a.block, 1, a.size)

Become(l, a) == lists' = [lists EXCEPT ![l] = a]

Init == lists = [l \in Arrays |-> Empty]

\* destroyAndFree
Freed(a) == [Empty EXCEPT !.lost = a.lost \/ Undestroyed(destroyObjects(a.block, 0, a.size))]

Resized(a, n) == [Freed(a) EXCEPT !.block = Constructed(allocateMemory(n), 0, Items(a)), !.size = a.size]

\* Mutation: twice the capacity is taken to be enough.
recommendCapacityTwice(a, request) == IF Len(a.block) >= MaxCapacity \div 2 THEN MaxCapacity ELSE 2 * Len(a.block)

recommendCapacity(a, request) ==
  IF Len(a.block) >= MaxCapacity \div 2 THEN MaxCapacity
  ELSE IF request > 2 * Len(a.block) THEN request ELSE 2 * Len(a.block)

checkGrow(a, n) == MaxCapacity - a.size >= n

Grown(a, n) == IF a.size + n > Len(a.block) THEN Resized(a, recommendCapacity(a, a.size + n)) ELSE a

ensureCapacity(l, request) ==
  /\ request > Len(lists[l].block) /\ request <= MaxCapacity
  /\ Become(l, Resized(lists[l], request))

\* The public function; those below call Grown when they need it.
willGrow(l, n) == checkGrow(lists[l], n) /\ Become(l, Grown(lists[l], n))

shrinkCapacity(l, request) ==
  /\ lists[l].size <= request /\ request < Len(lists[l].block)
  /\ Become(l, IF request = 0 THEN Freed(lists[l]) ELSE Resized(lists[l], request))

\* add, append, addRepeat, appendInitialized; the uninitialised variants, whose
\* callers construct the objects.
addMany(l, objects) ==
  /\ checkGrow(lists[l], Len(objects))
  /\ LET grown == Grown(lists[l], Len(objects))
     IN \/ Become(l, [grown EXCEPT !.block = Constructed(@, grown.size, objects), !.size = @ + Len(objects)])
        \/ Become(l, grown)  \* a copy throws

\* Room for n objects is made in the block, or in a new one.
insertHere(l, at, objects) ==
  LET a == lists[l]
      n == Len(objects)
      opened == Relocated(a.block, at + n, at, a.size - at)
  IN /\ Len(a.block) - a.size >= n
     /\ \/ Become(l, [a EXCEPT !.block = Constructed(opened, at, objects), !.size = @ + n])
        \/ Become(l, [a EXCEPT !.block = Relocated(opened, at, at + n, a.size - at)])  \* a copy throws

insertAnew(l, at, objects) ==
  LET a == lists[l]
      n == Len(objects)
      new == Constructed(allocateMemory(recommendCapacity(a, a.size + n)), at, objects)
  IN /\ Len(a.block) - a.size < n /\ checkGrow(a, n)
     /\ Become(l, [Freed(a) EXCEPT
          !.block = Constructed(Constructed(new, 0, SubSeq(Items(a), 1, at)), at + n, SubSeq(Items(a), at + 1, a.size)),
          !.size = a.size + n])

\* Also insert, which differs when a move throws: a new block is not freed then.
insertMany(l, at, objects) == insertHere(l, at, objects) \/ insertAnew(l, at, objects)

\* Also removeLast, which does not relocate.
removeRange(l, at, n) ==
  Become(l, [lists[l] EXCEPT !.block = Relocated(destroyObjects(@, at, n), at, at + n, lists[l].size - n - at), !.size = @ - n])

Truncated(a, at) == [a EXCEPT !.block = destroyObjects(@, at, a.size - at), !.size = at]

truncate(l, at) == Become(l, Truncated(lists[l], at))

\* The objects that are there are assigned to, and the others constructed.
Overwritten(a, objects) ==
  LET kept == IF Len(objects) < a.size THEN Len(objects) ELSE a.size
  IN [a EXCEPT !.block = Constructed(copyObjects(@, 0, SubSeq(objects, 1, kept)), kept, SubSeq(objects, kept + 1, Len(objects))),
               !.size = IF Len(objects) < a.size THEN a.size ELSE Len(objects)]

\* Of any objects but its own.  A copy that throws is the k-th.
assignExternal(l, objects) ==
  LET a == lists[l]
      n == Len(objects)
      ready == IF Len(a.block) < n THEN Resized(a, n) ELSE Truncated(a, n)
  IN /\ n <= MaxCapacity
     /\ Careful => n <= a.size \/ n > Len(a.block)
     /\ \/ Become(l, Overwritten(ready, objects))
        \/ \E k \in 0 .. n - 1 : k <= ready.size /\ Become(l, Overwritten(ready, SubSeq(objects, 1, k)))

assignInternal(l, start, n) ==
  LET a == Truncated(lists[l], start + n)
  IN Become(l, [a EXCEPT !.block = Relocated(destroyObjects(@, 0, start), 0, start, n), !.size = n])

\* Also releaseMemory and adoptMemory, which do it in two steps, and the move
\* constructor.  (Moving a list to itself leaves it with freed memory.)
moveAssign(l, o) ==
  /\ l # o
  /\ lists' = [lists EXCEPT ![l] = [lists[o] EXCEPT !.lost = @ \/ Freed(lists[l]).lost], ![o] = Empty]

swap(l, o) == lists' = [lists EXCEPT ![l] = lists[o], ![o] = lists[l]]

Next ==
  \/ \E l \in Arrays, n \in 1 .. MaxCapacity : ensureCapacity(l, n) \/ willGrow(l, n) \/ shrinkCapacity(l, n - 1)
  \/ \E l \in Arrays, objects \in Inputs : addMany(l, objects)
  \/ \E l \in Arrays, objects \in Inputs : \E at \in 0 .. lists[l].size : insertMany(l, at, objects)
  \/ \E l \in Arrays : \E at \in 0 .. lists[l].size : \E n \in 0 .. lists[l].size - at : removeRange(l, at, n)
  \/ \E l \in Arrays : \E at \in 0 .. lists[l].size : truncate(l, at)
  \/ \E l \in Arrays, objects \in Inputs : assignExternal(l, objects)
  \/ \E l \in Arrays : \E at \in 0 .. lists[l].size : \E n \in 0 .. lists[l].size - at : assignInternal(l, at, n)
  \/ \E l, o \in Arrays : moveAssign(l, o) \/ swap(l, o) \/ (l # o /\ assignExternal(l, Items(lists[o])))

Spec == Init /\ [][Next]_lists

(* Properties *)

\* Whatever throws, every object of a list is in its block, is constructed once
\* and destroyed once.
ObjectsAreKept == \A l \in Arrays : WellBuilt(lists[l].block, lists[l].size) /\ ~lists[l].lost

Contract == INSTANCE ArraySpec WITH items <- [l \in Arrays |-> Items(lists[l])]

\* A step of the contract: a list is a sequence, whatever its memory does.
ImplementsArray == [Contract!Next]_[l \in Arrays |-> Items(lists[l])]
==============================================================================
