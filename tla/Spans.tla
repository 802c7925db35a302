-------------------------------- MODULE Spans --------------------------------
(***************************************************************************)
(* src/Stp/Base/Containers/Sorting.h, SortingBasic.h and BinarySearch.h:   *)
(* sorting and searching of spans, which are functions from 0 here, and    *)
(* FlatMap.h and FlatSet.h, maps and sets over a sorted span.              *)
(***************************************************************************)
EXTENDS Integers, FiniteSets

CONSTANTS
  Numbers, MaxSize,
  PartitionSizeTreshold,  \* 16
  Values                  \* of a FlatMap, whose keys are Numbers

VARIABLES
  span,  \* what is sorted
  flat   \* list_ of a FlatMap: keys and values

vars == <<span, flat>>

Size(d) == IF DOMAIN d = {} THEN 0 ELSE CHOOSE n \in 1 .. MaxSize + 1 : DOMAIN d = 0 .. n - 1

Init ==
  /\ span \in UNION {[0 .. n - 1 -> Numbers] : n \in 0 .. MaxSize}
  /\ flat = [i \in {} |-> <<>>]

------------------------------------------------------------------------------
(* Sorting. *)

Swapped(d, a, b) == [d EXCEPT ![a] = d[b], ![b] = d[a]]

swapIfGreater(d, a, b) == IF d[a] > d[b] THEN Swapped(d, a, b) ELSE d

reverseSpan(d) == [i \in DOMAIN d |-> d[Size(d) - 1 - i]]

\* The item at i takes its place among those from lo on, behind its equals.
Insert(d, lo, i) ==
  LET place == CHOOSE k \in lo .. i : (\A j \in k .. i - 1 : d[i] < d[j]) /\ (k = lo \/ d[k - 1] <= d[i])
  IN [j \in DOMAIN d |-> IF j = place THEN d[i] ELSE IF j \in place + 1 .. i THEN d[j - 1] ELSE d[j]]

\* insertionSortSpan of the items from lo to hi.
insertionSort(d, lo, hi) ==
  LET sorted[i \in lo .. hi] == IF i = lo THEN d ELSE Insert(sorted[i - 1], lo, i)
  IN IF lo > hi THEN d ELSE sorted[hi]

\* d + lo is a heap whose items have numbers from 1 to n.  A turn of the loop of
\* downHeap: tmp, which is at s.i, changes places with its greater child.
Sink(s, lo, n) ==
  LET At(k) == s.d[lo + k - 1]
      child == IF 2 * s.i < n /\ At(2 * s.i) < At(2 * s.i + 1) THEN 2 * s.i + 1 ELSE 2 * s.i
  IN IF s.i > n \div 2 \/ At(s.i) >= At(child) THEN s
     ELSE [d |-> Swapped(s.d, lo + s.i - 1, lo + child - 1), i |-> child]

\* It ends after n turns at the latest, and so do the following ones.
downHeap(d, lo, i, n) ==
  LET turn[k \in 0 .. n] == IF k = 0 THEN [d |-> d, i |-> i] ELSE Sink(turn[k - 1], lo, n)
  IN turn[n].d

Heaped(d, lo, m, n) ==
  LET turn[k \in 0 .. m] == IF k = 0 THEN d ELSE downHeap(turn[k - 1], lo, m + 1 - k, n)
  IN turn[m]

Drained(d, lo, m) ==
  LET turn[k \in 0 .. m] ==
        IF k = 0 THEN d ELSE downHeap(Swapped(turn[k - 1], lo, lo + m + 1 - k), lo, 1, m + 1 - k)
  IN turn[m]

\* Mutation: the last inner item of the heap stays where it is at first.
heapSortSpanShort(d, lo, n) == Drained(Heaped(d, lo, (n - 1) \div 2, n), lo, n - 1)

heapSortSpan(d, lo, n) == Drained(Heaped(d, lo, n \div 2, n), lo, n - 1)

getMiddleIndex(lo, hi) == lo + (hi - lo) \div 2

\* Where the two inner loops of pickPivotAndPartition end; the pivot is at hi - 1.
Upwards(d, left, hi) ==
  IF left >= hi - 1 THEN left
  ELSE CHOOSE k \in left + 1 .. hi - 1 :
         (k = hi - 1 \/ d[hi - 1] < d[k]) /\ \A j \in left + 1 .. k - 1 : ~(d[hi - 1] < d[j])
Downwards(d, right, lo, pivot) ==
  IF right <= lo THEN right
  ELSE CHOOSE k \in lo .. right - 1 : (k = lo \/ d[k] < pivot) /\ \A j \in k + 1 .. right - 1 : ~(d[j] < pivot)

\* A turn of the outer one.
Partition(s, lo, hi) ==
  LET l == Upwards(s.d, s.left, hi)
      r == Downwards(s.d, s.right, lo, s.d[hi - 1])
  IN IF s.left >= s.right THEN s
     ELSE [d |-> IF l >= r THEN s.d ELSE Swapped(s.d, l, r), left |-> l, right |-> r]

pickPivotAndPartition(d, lo, hi) ==
  LET mid == getMiddleIndex(lo, hi)
      e == swapIfGreater(swapIfGreater(swapIfGreater(d, lo, mid), lo, hi), mid, hi)
      turn[k \in 0 .. hi - lo] ==
        IF k = 0 THEN [d |-> Swapped(e, mid, hi - 1), left |-> lo, right |-> hi - 1]
        ELSE Partition(turn[k - 1], lo, hi)
      last == turn[hi - lo]
  IN [d |-> Swapped(last.d, last.left, hi - 1), at |-> last.left]

\* A call for the items from c.lo to c.hi; sort is introSort with one level less.
IntroSorted(c, depth, sort) ==
  LET size == c.hi - c.lo + 1
      split == pickPivotAndPartition(c.d, c.lo, c.hi)
      right == sort[[d |-> split.d, lo |-> split.at + 1, hi |-> c.hi]]
  IN CASE size <= 1 -> c.d
       [] size = 2 -> swapIfGreater(c.d, c.lo, c.hi)
       [] size = 3 -> swapIfGreater(swapIfGreater(swapIfGreater(c.d, c.lo, c.hi - 1), c.lo, c.hi), c.hi - 1, c.hi)
       [] size > 3 /\ size <= PartitionSizeTreshold -> insertionSort(c.d, c.lo, c.hi)
       [] size > 3 /\ size > PartitionSizeTreshold /\ depth = 0 -> heapSortSpan(c.d, c.lo, size)
       [] OTHER -> sort[[d |-> right, lo |-> c.lo, hi |-> split.at - 1]]

introSort(d, lo, hi, depth) ==
  LET sort[k \in 0 .. depth] ==
        [c \in [d : [DOMAIN d -> Numbers], lo : Int, hi : Int] |-> IntroSorted(c, k, sort[k - 1])]
  IN sort[depth][[d |-> d, lo |-> lo, hi |-> hi]]

\* How often n can be halved until nothing is left but one.
log2Floor(n) ==
  LET half[k \in 0 .. n] == IF k = 0 THEN n ELSE half[k - 1] \div 2
  IN Cardinality({k \in 1 .. n : half[k] > 0})

sortSpan(d) == IF Size(d) <= 1 THEN d ELSE introSort(d, 0, Size(d) - 1, 2 * log2Floor(Size(d)))

------------------------------------------------------------------------------
(* Searching: the place of the item, or the complement of where it would be. *)

\* A turn of the loop, which ends when nothing is left or the middle is the item.
Search(s, d, item) ==
  LET i == getMiddleIndex(s.lo, s.hi)
  IN IF s.lo > s.hi \/ d[i] = item THEN s ELSE IF d[i] < item THEN [s EXCEPT !.lo = i + 1] ELSE [s EXCEPT !.hi = i - 1]

binarySearchInSpan(d, item) ==
  LET turn[k \in 0 .. Size(d)] == IF k = 0 THEN [lo |-> 0, hi |-> Size(d) - 1] ELSE Search(turn[k - 1], d, item)
      last == turn[Size(d)]
  IN IF last.lo > last.hi THEN -last.lo - 1 ELSE getMiddleIndex(last.lo, last.hi)

------------------------------------------------------------------------------
(* FlatMap; a FlatSet is one whose values nobody looks at. *)

indexOf(key) == binarySearchInSpan([i \in DOMAIN flat |-> flat[i][1]], key)

insertAt(at, pair) ==
  flat' = [i \in 0 .. Size(flat) |-> IF i < at THEN flat[i] ELSE IF i = at THEN pair ELSE flat[i - 1]]

removeAt(at) == flat' = [i \in 0 .. Size(flat) - 2 |-> IF i < at THEN flat[i] ELSE flat[i + 1]]

set(key, value) ==
  LET pos == indexOf(key)
  IN IF pos >= 0 THEN flat' = [flat EXCEPT ![pos][2] = value] ELSE insertAt(-pos - 1, <<key, value>>)

tryAdd(key, value) ==
  LET pos == indexOf(key)
  IN IF pos >= 0 THEN UNCHANGED flat ELSE insertAt(-pos - 1, <<key, value>>)

tryRemove(key) ==
  LET pos == indexOf(key)
  IN IF pos < 0 THEN UNCHANGED flat ELSE removeAt(pos)

clear == flat' = [i \in {} |-> <<>>]

SortNext == span' \in {sortSpan(span), reverseSpan(span)} /\ UNCHANGED flat

FlatNext ==
  /\ \/ \E key \in Numbers, value \in Values : set(key, value) \/ tryAdd(key, value)
     \/ \E key \in Numbers : tryRemove(key)
     \/ clear
  /\ UNCHANGED span

Next == SortNext \/ FlatNext

Spec == Init /\ [][Next]_vars

------------------------------------------------------------------------------
(* Correctness. *)

SortedBelow(d, n) == \A i \in 1 .. n : d[i - 1] <= d[i]
SameItems(d, e) == \A x \in Numbers : Cardinality({i \in DOMAIN d : d[i] = x}) = Cardinality({i \in DOMAIN e : e[i] = x})

\* Whatever way sorting takes, down to the heap when the partitions are bad, it
\* orders the items, of any number and with any ties, and keeps each.  Searching
\* finds an item or where it belongs.
SortsAndSearches ==
  LET n == Size(span)
      sorted == sortSpan(span)
  IN /\ \A d \in {introSort(span, 0, n - 1, depth) : depth \in 0 .. n} \cup {insertionSort(span, 0, n - 1), sorted} :
          SortedBelow(d, n - 1) /\ SameItems(span, d)
     /\ \A x \in Numbers :
          LET pos == binarySearchInSpan(sorted, x)
          IN IF pos >= 0 THEN sorted[pos] = x
             ELSE /\ \A i \in 0 .. -pos - 2 : sorted[i] < x
                  /\ \A i \in -pos - 1 .. n - 1 : sorted[i] > x

\* The keys of a FlatMap are in order, which also says that they differ.
KeysAreInOrder == \A i, j \in DOMAIN flat : i < j => flat[i][1] < flat[j][1]

Contract == INSTANCE MapSpec WITH
  Maps <- {"flat"}, Keys <- Numbers, Stale <- "stale",
  dict <- [m \in {"flat"} |->
             [key \in {flat[i][1] : i \in DOMAIN flat} |-> flat[CHOOSE i \in DOMAIN flat : flat[i][1] = key][2]]],
  walk <- [map |-> "none", seen |-> {}, owed |-> {}]

ImplementsMap == [Contract!Next]_(Contract!vars)
==============================================================================
