---------------------------- MODULE MCStructures ----------------------------
(* The sequential structures, in one run that follows one of them at a time. *)
EXTENDS Integers, Sequences, FiniteSets

CONSTANTS
  NULL, Root, Nodes, Careful,                  \* SinglyLinkedList, LinkedList
  Numbers, MaxSize, PartitionSizeTreshold,     \* Spans
  Block, Low, MaxPiece, MaxLength              \* Hashers

\* Nodes are different from the root and from null, and there are finitely many.
ASSUME NodesAssumption == IsFiniteSet(Nodes) /\ NULL \notin Nodes \cup {Root} /\ Root \notin Nodes

ASSUME SpansAssumption == Numbers \subseteq Int /\ MaxSize \in Nat /\ PartitionSizeTreshold \in Nat

\* A block has room for the mark and the count, and the words of the count hold
\* the bits of whole blocks.
ASSUME DigestsAssumption ==
  /\ Block \in Nat /\ Block > 2
  /\ Low \in Nat \ {0} /\ Low % (8 * Block) = 0
  /\ MaxPiece \in Nat /\ MaxLength \in Nat

VARIABLES
  part,
  maps, cursor, options,                                                \* HashMap
  next, head, tail, cleared,                                            \* SinglyLinkedList
  forward, back,                                                        \* LinkedList
  lists, inlines,                                                       \* List, InlineList
  bit_count, words, other_words,                                        \* BitArray
  span, flat,                                                           \* Spans
  hashed, hashing, md5, sha,                                            \* Hashers
  text, more, ended, pos, line, skipped, safe, stack, pc, error, style  \* JsonParser

mapVars == <<maps, cursor, options>>
listVars == <<next, head, tail, cleared, forward, back>>
arrayVars == <<lists, inlines>>
bitVars == <<bit_count, words, other_words>>
spanVars == <<span, flat>>
digestVars == <<hashed, hashing, md5, sha>>
textVars == <<text, more, ended, pos, line, skipped, safe, stack, pc, error, style>>
vars == <<part, mapVars, listVars, arrayVars, bitVars, spanVars, digestVars, textVars>>

Hash == INSTANCE HashMap WITH
  Maps <- {"a", "b"}, Keys <- {"p", "q", "r"}, Values <- {"v"}, Stale <- "stale", MaxBuckets <- 4,
  Hash <- [p |-> 1, q |-> 3, r |-> 4],
  Options <- {[auto |-> FALSE, binary |-> FALSE], [auto |-> TRUE, binary |-> TRUE]}

Single == INSTANCE SinglyLinkedList
Double == INSTANCE LinkedList WITH next <- forward, prev <- back

Growing == INSTANCE List WITH
  Arrays <- {"a", "b"}, Inputs <- {<<"x">>, <<"x", "y">>}, MaxCapacity <- 4
Inline == INSTANCE InlineList WITH
  Arrays <- {"a", "b"}, Inputs <- {<<"x">>, <<"x", "y">>}, N <- 2, MaxCapacity <- 4, lists <- inlines

Bits == INSTANCE BitArray WITH W <- 2, Sizes <- {1, 4, 5}, n <- bit_count, other <- other_words

Sorted == INSTANCE Spans WITH Values <- {"v", "w"}

Digests == INSTANCE Hashers WITH length <- hashed, phase <- hashing

Symbols == {"[", "]", "{", "}", ",", ":", "k", "l", "1", "9", "x", "nl", "c", "/"}
Grammar == INSTANCE JsonGrammar WITH MaxLength <- 9, DepthLimit <- 3
Language == Grammar!Language
Beginnings == Grammar!Beginnings
Json == INSTANCE JsonParser WITH
  Begins <- {<<>>, <<"[", "[">>, <<"{", "k", ":", "1", ",">>}, MaxMore <- 4, DepthLimit <- 3,
  options <- style

Init ==
  /\ part \in {"map", "list", "ring", "array", "inline", "bits", "sort", "flat", "digests", "text"}
  /\ Hash!Init /\ (part # "map" => ~options.auto)
  /\ Single!Init /\ Double!Init
  /\ Growing!Init /\ Inline!Init
  /\ Bits!Init /\ (part # "bits" => bit_count = 1)
  /\ Sorted!Init /\ (part # "sort" => DOMAIN span = {})
  /\ Digests!Init
  /\ Json!Init /\ (part # "text" => text = <<>> /\ ~style.AllowTrailingCommas /\ ~style.UniqueKeys)

Next ==
  \/ part = "map" /\ Hash!Next /\ UNCHANGED <<part, listVars, arrayVars, bitVars, spanVars, digestVars, textVars>>
  \/ part = "list" /\ Single!Next /\ UNCHANGED <<part, forward, back, mapVars, arrayVars, bitVars, spanVars, digestVars, textVars>>
  \/ /\ part = "ring" /\ Double!Next
     /\ UNCHANGED <<part, next, head, tail, cleared, mapVars, arrayVars, bitVars, spanVars, digestVars, textVars>>
  \/ part = "array" /\ Growing!Next /\ UNCHANGED <<part, inlines, mapVars, listVars, bitVars, spanVars, digestVars, textVars>>
  \/ part = "inline" /\ Inline!Next /\ UNCHANGED <<part, lists, mapVars, listVars, bitVars, spanVars, digestVars, textVars>>
  \/ part = "bits" /\ Bits!Next /\ UNCHANGED <<part, mapVars, listVars, arrayVars, spanVars, digestVars, textVars>>
  \/ /\ \/ part = "sort" /\ Sorted!SortNext
        \/ part = "flat" /\ Sorted!FlatNext
     /\ UNCHANGED <<part, mapVars, listVars, arrayVars, bitVars, digestVars, textVars>>
  \/ part = "digests" /\ Digests!Next /\ UNCHANGED <<part, mapVars, listVars, arrayVars, bitVars, spanVars, textVars>>
  \/ part = "text" /\ Json!Next /\ UNCHANGED <<part, mapVars, listVars, arrayVars, bitVars, spanVars, digestVars>>

Spec == Init /\ [][Next]_vars

\* Hash maps are finite functions, whose nodes are found where they are, and so
\* are maps over sorted arrays.
MapsAreMaps ==
  /\ Hash!Contract!Init
  /\ [](part = "map" => Hash!NodesAreFound)
  /\ [][part = "map" => Hash!ImplementsMap]_mapVars
  /\ [](part = "flat" => Sorted!KeysAreInOrder)
  /\ [][part = "flat" => Sorted!ImplementsMap]_flat

\* Both lists are sequences, and their other pointers agree with that.
ListsAreLists ==
  /\ Single!Contract!Init /\ Double!Contract!Init
  /\ [](part = "list" => Single!TailIsLast) /\ [](part = "ring" => Double!WaysAgree)
  /\ [][part = "list" => Single!ImplementsList]_<<next, head>>
  /\ [][part = "ring" => Double!ImplementsList]_forward

\* Arrays that grow are sequences, and construct and destroy each object once,
\* wherever they keep it and whatever throws; arrays of bits are sets of numbers.
ArraysAreSequences ==
  /\ Growing!Contract!Init /\ Inline!Contract!Init
  /\ [](part = "array" => Growing!ObjectsAreKept)
  /\ [](part = "inline" => Inline!ObjectsAreKept /\ Inline!KnowsItsPlace)
  /\ [][part = "array" => Growing!ImplementsArray]_lists
  /\ [][part = "inline" => Inline!ImplementsArray]_inlines
  /\ [](part = "bits" => Bits!BitsAreSets)

\* Sorting orders what it was given, and searching finds it.
SortsAndSearches == part = "sort" => Sorted!SortsAndSearches

\* Digests are of the whole message, in whatever pieces it comes.
DigestsTakeAll == part = "digests" => Digests!DigestsTakeAll

\* The JSON parser accepts the grammar, and says in which line it does not.
ParsesJson == part = "text" => Json!AcceptsGrammar /\ Json!ErrorIsLocated
==============================================================================
