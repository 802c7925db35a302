----------------------------- MODULE InlineList -----------------------------
(***************************************************************************)
(* src/Stp/Base/Containers/InlineList.h: like List, but the first N places *)
(* are in the list itself.  Its object class is that of the module List.   *)
(***************************************************************************)
EXTENDS ArrayOps

CONSTANTS
  Arrays, Inputs,
  N,            \* the places in the list
  MaxCapacity,
  Careful       \* callers insert one at a time where there is room, and move into lists that are
                \* empty or on the heap

VARIABLE lists  \* isInline(), what data_ points to, size_, and whether memory was left with objects in it

InlineBlock == allocateMemory(N)

Empty == [inline |-> TRUE, block |-> InlineBlock, size |-> 0, lost |-> FALSE]

Items(a) == SubSeq(a.block, 1, a.size)

Become(l, a) == lists' = [lists EXCEPT ![l] = a]

Init == lists = [l \in Arrays |-> Empty]

\* The block that data_ pointed to is freed, or the places in the list are given up.
Left(a) == a.lost \/ Undestroyed(destroyObjects(a.block, 0, a.size))

recommendCapacity(a, request) ==
  IF Len(a.block) >= MaxCapacity \div 2 THEN MaxCapacity
  ELSE IF request > 2 * Len(a.block) THEN request ELSE 2 * Len(a.block)

checkGrow(a, n) == MaxCapacity - a.size >= n

Rehoused(a, inline, block) == [a EXCEPT !.inline = inline, !.block = Constructed(block, 0, Items(a)), !.lost = Left(a)]

resizeStorage(a, n) == Rehoused(a, FALSE, allocateMemory(n))

Grown(a, n) == IF a.size + n > Len(a.block) THEN resizeStorage(a, recommendCapacity(a, a.size + n)) ELSE a

ensureCapacity(l, request) ==
  /\ request > Len(lists[l].block) /\ request <= MaxCapacity
  /\ Become(l, resizeStorage(lists[l], request))

willGrow(l, n) == checkGrow(lists[l], n) /\ Become(l, Grown(lists[l], n))

\* Back into the list when it fits there.
shrinkCapacity(l, request) ==
  /\ lists[l].size <= request /\ request < Len(lists[l].block)
  /\ request <= N => ~lists[l].inline
  /\ Become(l, IF request > N THEN resizeStorage(lists[l], request) ELSE Rehoused(lists[l], TRUE, InlineBlock))

addMany(l, objects) ==
  /\ checkGrow(lists[l], Len(objects))
  /\ LET grown == Grown(lists[l], Len(objects))
     IN \/ Become(l, [grown EXCEPT !.block = Constructed(@, grown.size, objects), !.size = @ + Len(objects)])
        \/ Become(l, grown)  \* a copy throws

\* The size does not grow with the objects: setSizeNoGrow is missing.
insertManyHere(l, at, objects) ==
  LET a == lists[l]
      n == Len(objects)
      opened == Relocated(a.block, at + n, at, a.size - at)
  IN /\ Len(a.block) - a.size >= n
     /\ \/ ~Careful /\ Become(l, [a EXCEPT !.block = Constructed(opened, at, objects)])
        \/ Become(l, [a EXCEPT !.block = Relocated(opened, at, at + n, a.size - at)])  \* a copy throws

insertAnew(l, at, objects) ==
  LET a == lists[l]
      n == Len(objects)
      new == Constructed(allocateMemory(recommendCapacity(a, a.size + n)), at, objects)
  IN /\ Len(a.block) - a.size < n /\ checkGrow(a, n)
     /\ Become(l, [resizeStorage(a, 0) EXCEPT
          !.block = Constructed(Constructed(new, 0, SubSeq(Items(a), 1, at)), at + n, SubSeq(Items(a), at + 1, a.size)),
          !.size = a.size + n, !.lost = Left(a)])

insertMany(l, at, objects) == insertManyHere(l, at, objects) \/ insertAnew(l, at, objects)

\* Not at the end.  Moves do not throw.
insert(l, at, object) ==
  LET a == lists[l]
  IN /\ at < a.size
     /\ \/ /\ a.size # Len(a.block)
           /\ Become(l, [a EXCEPT !.block = Constructed(Relocated(@, at + 1, at, a.size - at), at, <<object>>), !.size = @ + 1])
        \/ insertAnew(l, at, <<object>>)

\* Also removeLast, which does not relocate.
removeRange(l, at, n) ==
  Become(l, [lists[l] EXCEPT !.block = Relocated(destroyObjects(@, at, n), at, at + n, lists[l].size - n - at), !.size = @ - n])

Truncated(a, at) == [a EXCEPT !.block = destroyObjects(@, at, a.size - at), !.size = at]

truncate(l, at) == Become(l, Truncated(lists[l], at))

Overwritten(a, objects) ==
  LET kept == IF Len(objects) < a.size THEN Len(objects) ELSE a.size
  IN [a EXCEPT !.block = Constructed(copyObjects(@, 0, SubSeq(objects, 1, kept)), kept, SubSeq(objects, kept + 1, Len(objects))),
               !.size = IF Len(objects) < a.size THEN a.size ELSE Len(objects)]

\* Of any objects but its own.  A copy that throws is the k-th.
assignExternal(l, objects) ==
  LET a == lists[l]
      n == Len(objects)
      ready == IF n <= a.size THEN Truncated(a, n) ELSE IF n > Len(a.block) THEN resizeStorage(a, n) ELSE a
  IN /\ n <= MaxCapacity
     /\ \/ Become(l, Overwritten(ready, objects))
        \/ \E k \in 0 .. n - 1 : k <= ready.size /\ Become(l, Overwritten(ready, SubSeq(objects, 1, k)))

assignInternal(l, start, n) ==
  LET a == Truncated(lists[l], start + n)
  IN Become(l, [a EXCEPT !.block = Relocated(destroyObjects(@, 0, start), 0, start, n), !.size = n])

\* A list that was moved from where its objects were on the heap has neither.
Moved(o) == [Empty EXCEPT !.inline = FALSE, !.block = <<>>, !.lost = lists[o].lost]

\* l is destroyed, and constructed of o.
moveConstruct(l, o) ==
  LET fresh == [Empty EXCEPT !.lost = Left(lists[l])]
  IN /\ l # o
     /\ IF lists[o].inline
        THEN lists' = [lists EXCEPT ![l] = [fresh EXCEPT !.block = Constructed(@, 0, Items(lists[o])), !.size = lists[o].size],
                                    ![o] = Truncated(@, 0)]
        ELSE lists' = [lists EXCEPT ![l] = [lists[o] EXCEPT !.lost = fresh.lost], ![o] = Moved(o)]

\* The objects in the list itself are not destroyed.
moveAssign(l, o) ==
  LET mine == lists[l]
      place == IF mine.inline THEN mine.block ELSE InlineBlock
  IN /\ l # o
     /\ Careful => ~mine.inline \/ mine.size = 0
     /\ IF lists[o].inline
        THEN lists' = [lists EXCEPT
               ![l] = [Empty EXCEPT !.block = Constructed(place, 0, Items(lists[o])), !.size = lists[o].size,
                                    !.lost = IF mine.inline THEN mine.lost ELSE Left(mine)],
               ![o] = Truncated(@, 0)]
        ELSE lists' = [lists EXCEPT
               ![l] = [lists[o] EXCEPT !.lost = IF mine.inline THEN mine.lost \/ Undestroyed(mine.block) ELSE Left(mine)],
               ![o] = [Empty EXCEPT !.lost = @ \/ lists[o].lost]]

\* Two lists with their objects inside swap those that both have.
SwappedInside(a, b) ==
  LET n == IF a.size < b.size THEN a.size ELSE b.size
  IN [a EXCEPT !.block = IF a.size < b.size
                           THEN Constructed(copyObjects(@, 0, SubSeq(b.block, 1, n)), n, SubSeq(b.block, n + 1, b.size))
                           ELSE destroyObjects(copyObjects(@, 0, SubSeq(b.block, 1, n)), n, a.size - n),
               !.size = b.size]

swapWith(l, o) ==
  LET Swapped(a, b) == IF a.inline /\ b.inline THEN SwappedInside(a, b)
                       ELSE IF b.inline THEN [Rehoused(b, TRUE, InlineBlock) EXCEPT !.lost = a.lost]
                       ELSE [b EXCEPT !.lost = a.lost \/ (a.inline /\ Left(a))]
  IN lists' = [lists EXCEPT ![l] = Swapped(lists[l], lists[o]), ![o] = Swapped(lists[o], lists[l])]

Next ==
  \/ \E l \in Arrays, n \in 1 .. MaxCapacity : ensureCapacity(l, n) \/ willGrow(l, n) \/ shrinkCapacity(l, n - 1)
  \/ \E l \in Arrays, objects \in Inputs : addMany(l, objects)
  \/ \E l \in Arrays, objects \in Inputs : \E at \in 0 .. lists[l].size : insertMany(l, at, objects) \/ insert(l, at, objects[1])
  \/ \E l \in Arrays : \E at \in 0 .. lists[l].size : \E n \in 0 .. lists[l].size - at : removeRange(l, at, n)
  \/ \E l \in Arrays : \E at \in 0 .. lists[l].size : truncate(l, at)
  \/ \E l \in Arrays, objects \in Inputs : assignExternal(l, objects)
  \/ \E l \in Arrays : \E at \in 0 .. lists[l].size : \E n \in 0 .. lists[l].size - at : assignInternal(l, at, n)
  \/ \E l, o \in Arrays : moveConstruct(l, o) \/ moveAssign(l, o) \/ swapWith(l, o) \/ (l # o /\ assignExternal(l, Items(lists[o])))

Spec == Init /\ [][Next]_lists

(* Properties *)

\* Whatever throws, and wherever the objects are, every one of them is in the
\* block of its list, is constructed once and destroyed once.
ObjectsAreKept == \A l \in Arrays : WellBuilt(lists[l].block, lists[l].size) /\ ~lists[l].lost

\* What is in the list itself are its N places.
KnowsItsPlace == \A l \in Arrays : lists[l].inline => Len(lists[l].block) = N

Contract == INSTANCE ArraySpec WITH items <- [l \in Arrays |-> Items(lists[l])]

\* A step of the contract: a list is a sequence, whatever its memory does.
ImplementsArray == [Contract!Next]_[l \in Arrays |-> Items(lists[l])]
==============================================================================
