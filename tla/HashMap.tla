------------------------------- MODULE HashMap -------------------------------
(***************************************************************************)
(* src/Stp/Base/Containers/HashMap.h, HashMap.cpp: hash maps with chains.  *)
(*                                                                         *)
(* A chain is the sequence of the keys of its nodes; the values are in     *)
(* `value', whose domain has `size_' members.  The chains of a map end at  *)
(* its sentinel, which stands here for the map it points back to: swapping *)
(* moves sentinels without correcting that.  The enumeration `cursor' is   *)
(* one iterator, at a node; callers give it up when the buckets change, or *)
(* when they remove the node.                                              *)
(***************************************************************************)
EXTENDS Integers, Sequences, SequencesExt, FiniteSets, FiniteSetsExt

CONSTANTS Maps, Keys, Values,
  Stale,       \* what set makes of a value that is there already
  Hash,        \* the hash of each key
  Options,     \* of the maps: whether they shrink by themselves, and how many buckets they have
  MaxBuckets,  \* bound on the buckets of all maps together
  Careful      \* callers do not enumerate a map that was swapped

VARIABLES
  maps, cursor,
  options  \* what setAutoShrink and setUseBinaryBucketSizes made of the new maps

vars == <<maps, cursor, options>>

None == "none"
Nowhere == [map |-> None, at |-> None, seen |-> {}, owed |-> {}]
Ended == [Nowhere EXCEPT !.map = "ended"]

NewMap(m) == [buckets |-> <<>>, value |-> [k \in {} |-> Stale], table |-> m]

Size(t) == Cardinality(DOMAIN t.value)
Count(t) == Len(t.buckets)
NodesOf(t) == FlattenSeq(t.buckets)

IsPrime(n) == n > 1 /\ \A d \in 2 .. n - 1 : n % d # 0
IsPowerOfTwo(n) == \E e \in 0 .. n : n = 2 ^ e

optimalBucketCount(min, binary) ==
  IF min = 0 THEN 0
  ELSE CHOOSE n \in min .. 2 * min + 1 :
         LET Fits(x) == IF binary THEN IsPowerOfTwo(x) ELSE IsPrime(x)
         IN Fits(n) /\ \A x \in min .. n - 1 : ~Fits(x)

\* The mask by a power of two, as the remainder by any other number, is this.
constrainPartialHash(t, k) == (Hash[k] % Count(t)) + 1

\* findEntry gives a node of this key, not the sentinel.
findEntry(t, k) == /\ Count(t) # 0
                   /\ Contains(t.buckets[constrainPartialHash(t, k)], k)

\* Every node goes to the front of its new bucket, in the order of the old ones.
rehash(t, n) ==
  IF n = Count(t) THEN t
  ELSE [t EXCEPT !.buckets =
         [b \in 1 .. n |-> Reverse(SelectSeq(NodesOf(t), LAMBDA k : (Hash[k] % n) + 1 = b))]]

willGrow(t, n) == IF Size(t) + n > Count(t) THEN rehash(t, optimalBucketCount(Size(t) + n, options.binary)) ELSE t

shrink(t) == rehash(t, optimalBucketCount(Size(t), options.binary))

maybeAutoShrink(t) == IF options.auto /\ Size(t) <= Count(t) \div 8 THEN shrink(t) ELSE t

\* createNode at the end of the chain that findEntry followed.
createNode(t, k, v) ==
  [t EXCEPT !.buckets[constrainPartialHash(t, k)] = Append(@, k),
            !.value = [x \in DOMAIN @ \cup {k} |-> IF x = k THEN v ELSE @[x]]]

destroyNode(t, k) ==
  [t EXCEPT !.buckets[constrainPartialHash(t, k)] = SelectSeq(@, LAMBDA x : x # k),
            !.value = [x \in DOMAIN @ \ {k} |-> @[x]]]

destroyAllNodes(t) == [t EXCEPT !.buckets = [b \in DOMAIN @ |-> <<>>], !.value = [k \in {} |-> Stale]]

\* tryAdd grows before it looks for the key, set only when the key is new.
Added(t, k, v) == LET grown == willGrow(t, 1) IN IF findEntry(grown, k) THEN grown ELSE createNode(grown, k, v)

\* The first node of the buckets from `from' on.
FirstOf(t, from) == LET rest == FlattenSeq(SubSeq(t.buckets, from, Count(t))) IN IF rest = <<>> THEN None ELSE rest[1]

\* Mutation: the search goes on one bucket too far.
findFirstNodeSkipping(t, from) == FirstOf(t, from + 1)

findFirstNode(t, from) == FirstOf(t, from)

\* At the end of a chain the buckets are those of the map the sentinel points back to.
findNextNode(t, k) ==
  LET chain == t.buckets[CHOOSE b \in DOMAIN t.buckets : Contains(t.buckets[b], k)]
      that == maps[t.table]
  IN IF Last(chain) # k THEN chain[CHOOSE i \in DOMAIN chain : i > 1 /\ chain[i - 1] = k]
     ELSE findFirstNode(that, constrainPartialHash(that, k) + 1)

\* What becomes of an enumeration of m when the map changes to t.
Follow(m, t) == cursor' = IF cursor.map = m /\ (Count(t) # Count(maps[m]) \/ Size(t) = 0) THEN Nowhere ELSE cursor

Becomes(m, t) == /\ maps' = [maps EXCEPT ![m] = t]
                 /\ FoldSet(LAMBDA x, n : n + Count(maps'[x]), 0, Maps) <= MaxBuckets
                 /\ UNCHANGED options

Init == maps = [m \in Maps |-> NewMap(m)] /\ cursor = Nowhere /\ options \in Options

tryAdd(m, k, v) ==
  LET t == Added(maps[m], k, v)
  IN Becomes(m, t) /\ Follow(m, t)

\* A value that is there already is destroyed and made again of itself.
set(m, k, v) ==
  LET t == IF findEntry(maps[m], k) THEN [maps[m] EXCEPT !.value[k] = Stale]
           ELSE createNode(willGrow(maps[m], 1), k, v)
  IN Becomes(m, t) /\ Follow(m, t)

\* map[key] = value, of a key that is there.
update(m, k, v) ==
  /\ findEntry(maps[m], k)
  /\ Becomes(m, [maps[m] EXCEPT !.value[k] = v])
  /\ UNCHANGED cursor

tryRemove(m, k) ==
  LET found == findEntry(maps[m], k)
      t == IF found THEN maybeAutoShrink(destroyNode(maps[m], k)) ELSE maps[m]
  IN /\ Becomes(m, t)
     /\ cursor' = IF cursor.map # m \/ ~found THEN cursor
                  ELSE IF cursor.at = k \/ Count(t) # Count(maps[m]) THEN Nowhere
                  ELSE [cursor EXCEPT !.seen = @ \ {k}, !.owed = @ \ {k}]

\* clear returns at once when the map is empty, and then does not shrink it.
Cleared(t) == IF Size(t) = 0 THEN t ELSE maybeAutoShrink(destroyAllNodes(t))

clear(m) ==
  /\ Becomes(m, Cleared(maps[m]))
  /\ cursor' = IF cursor.map = m THEN Nowhere ELSE cursor

\* The public functions of these names; rehash asserts that there are buckets enough.
Reorganise(m) ==
  \E t \in {shrink(maps[m])} \cup {willGrow(maps[m], n) : n \in 0 .. MaxBuckets}
        \cup {rehash(maps[m], n) : n \in {x \in Size(maps[m]) .. MaxBuckets : options.binary => IsPowerOfTwo(x)}} :
    /\ Becomes(m, t)
    /\ cursor' = IF cursor.map = m /\ Count(t) # Count(maps[m]) THEN Nowhere ELSE cursor

\* Also the move constructor and the move assignment.
swapWith(m, o) == maps' = [maps EXCEPT ![m] = maps[o], ![o] = maps[m]] /\ cursor' = Nowhere /\ UNCHANGED options

\* clear, then assign; assigning a map to itself just clears it.
Copy(m, o) ==
  /\ m # o
  /\ Careful => maps[o].table = o
  /\ LET t == FoldLeft(LAMBDA s, k : Added(s, k, maps[o].value[k]), willGrow(Cleared(maps[m]), Size(maps[o])), NodesOf(maps[o]))
     IN Becomes(m, t)
  /\ cursor' = IF cursor.map = m THEN Nowhere ELSE cursor

\* enumerate, enumerateKeys, enumerateValues
Enumerate(m) ==
  /\ Careful => maps[m].table = m
  /\ cursor' = [map |-> m, at |-> findFirstNode(maps[m], 1), seen |-> {}, owed |-> DOMAIN maps[m].value]
  /\ UNCHANGED <<maps, options>>

\* The body of the loop with the node, and the step to the next one.
Visit ==
  /\ cursor.map \in Maps
  /\ cursor.at # None
  /\ cursor' = [cursor EXCEPT !.at = findNextNode(maps[cursor.map], cursor.at), !.seen = @ \cup {cursor.at}]
  /\ UNCHANGED <<maps, options>>

End == cursor.map \in Maps /\ cursor.at = None /\ cursor' = Ended /\ UNCHANGED <<maps, options>>

Next ==
  \/ \E m \in Maps, k \in Keys : tryRemove(m, k)
  \/ \E m \in Maps, k \in Keys, v \in Values : tryAdd(m, k, v) \/ set(m, k, v) \/ update(m, k, v)
  \/ \E m \in Maps : clear(m) \/ Reorganise(m) \/ Enumerate(m)
  \/ \E m, o \in Maps : swapWith(m, o) \/ Copy(m, o)
  \/ Visit
  \/ End

Spec == Init /\ [][Next]_vars

(* Properties *)

\* What is in a map is found there and nothing else, each key has one node, and
\* there are no more nodes than buckets: rehash, swapWith and the removals never
\* strand a node in a bucket where findEntry does not look for it.
NodesAreFound ==
  \A m \in Maps :
    /\ Size(maps[m]) <= Count(maps[m])
    /\ IsInjective(NodesOf(maps[m]))
    /\ \A k \in Keys : findEntry(maps[m], k) <=> k \in DOMAIN maps[m].value

Contract == INSTANCE MapSpec WITH
  dict <- [m \in Maps |-> maps[m].value],
  walk <- [map |-> cursor.map, seen |-> cursor.seen, owed |-> cursor.owed]

\* A step of the contract: maps behave as finite functions, whatever their buckets
\* do, and enumerations visit what stays once.
ImplementsMap == [Contract!Next]_(Contract!vars)
==============================================================================
