------------------------------ MODULE BitArray ------------------------------
(***************************************************************************)
(* src/Stp/Base/Containers/BitArray.h: n bits in words of W, a word being  *)
(* the set of its bits.  A shift by all bits of a word, which C++ leaves   *)
(* undefined and the code avoids by a case of its own, gives no bits here. *)
(***************************************************************************)
EXTENDS Integers, FiniteSets, FiniteSetsExt, Functions

CONSTANTS
  W,      \* BitsPerWord
  Sizes

VARIABLES n, words, other  \* N, words_ of an array and of a second one

vars == <<n, words, other>>

WordCount == (n + W - 1) \div W
Words == 0 .. WordCount - 1
WordType == 0 .. W - 1

unsetAll == [i \in Words |-> {}]

Init == n \in Sizes /\ words = unsetAll /\ other = unsetAll

UnusedBitsMask == IF n % W = 0 THEN {} ELSE n % W .. W - 1
clearUnusedBits(ws) == [ws EXCEPT ![WordCount - 1] = @ \ UnusedBitsMask]

------------------------------------------------------------------------------
(* What the functions make of the words ... *)

Assigned(ws, index, value) ==
  [ws EXCEPT ![index \div W] = IF value THEN @ \cup {index % W} ELSE @ \ {index % W}]

testBit(ws, index) == index % W \in ws[index \div W]
setAll == clearUnusedBits([i \in Words |-> WordType])

flipAll(ws) == clearUnusedBits([i \in Words |-> WordType \ ws[i]])

And(ws, os) == [i \in Words |-> ws[i] \cap os[i]]
Or(ws, os) == [i \in Words |-> ws[i] \cup os[i]]
Xor(ws, os) == [i \in Words |-> (ws[i] \ os[i]) \cup (os[i] \ ws[i])]

Left(word, amount) == {b + amount : b \in word} \cap WordType
Right(word, amount) == {b - amount : b \in word} \cap WordType

ShiftRight(ws, amount) ==
  LET word_amount == amount \div W
      bit_amount == amount % W
      limit == WordCount - word_amount - 1
  IN [i \in Words |->
        CASE i < limit -> Right(ws[i + word_amount], bit_amount) \cup Left(ws[i + word_amount + 1], W - bit_amount)
          [] i = limit -> Right(ws[WordCount - 1], bit_amount)
          [] OTHER -> {}]

ShiftLeft(ws, amount) ==
  LET word_amount == amount \div W
      bit_amount == amount % W
  IN clearUnusedBits([i \in Words |->
        CASE i > word_amount -> Left(ws[i - word_amount], bit_amount) \cup Right(ws[i - word_amount - 1], W - bit_amount)
          [] i = word_amount -> Left(ws[0], bit_amount)
          [] OTHER -> {}])

------------------------------------------------------------------------------
(* ... and what they find in them. *)

countSetBits(ws) == FoldFunction(LAMBDA word, count : count + Cardinality(word), 0, ws)
anyTrue(ws) == \E i \in Words : ws[i] # {}
allTrue(ws) == (\A i \in 0 .. WordCount - 2 : ws[i] = WordType) /\ ws[WordCount - 1] = WordType \ UnusedBitsMask
Intersects(ws, os) == \E i \in Words : ws[i] \cap os[i] # {}

\* The first bit of the first word that has one; the last of the last.
FirstIn(ws, is) == LET found == {i \in is : ws[i] # {}} IN IF found = {} THEN -1 ELSE W * Min(found) + Min(ws[Min(found)])
LastIn(ws, is) == LET found == {i \in is : ws[i] # {}} IN IF found = {} THEN -1 ELSE W * Max(found) + Max(ws[Max(found)])

findFirstSet(ws) == FirstIn(ws, Words)
findLastSet(ws) == LastIn(ws, Words)

findNextSet(ws, prev) ==
  LET word == (prev + 1) \div W
      copy == ws[word] \ (0 .. ((prev + 1) % W) - 1)
  IN IF prev + 1 >= n THEN -1
     ELSE IF copy # {} THEN word * W + Min(copy) ELSE FirstIn(ws, word + 1 .. WordCount - 1)

findPrevSet(ws, next) ==
  LET word == (next - 1) \div W
      copy == ws[word] \cap (0 .. (next - 1) % W)
  IN IF next = 0 THEN -1
     ELSE IF copy # {} THEN word * W + Max(copy) ELSE LastIn(ws, 0 .. word - 1)

------------------------------------------------------------------------------
Becomes(ws) == words' = ws /\ UNCHANGED <<n, other>>

Next ==
  \/ \E index \in 0 .. n - 1 : \E value \in BOOLEAN : Becomes(Assigned(words, index, value))
  \/ \E index \in 0 .. n - 1 : Becomes(Assigned(words, index, ~testBit(words, index)))
  \/ Becomes(setAll) \/ Becomes(unsetAll) \/ Becomes(flipAll(words))
  \/ Becomes(And(words, other)) \/ Becomes(Or(words, other)) \/ Becomes(Xor(words, other))
  \/ \E amount \in 0 .. n : Becomes(ShiftLeft(words, amount)) \/ Becomes(ShiftRight(words, amount))
  \/ words' = other /\ other' = words /\ UNCHANGED n

Spec == Init /\ [][Next]_vars

------------------------------------------------------------------------------
(* Correctness. *)

Bits(ws) == UNION {{W * i + b : b \in ws[i]} : i \in Words}
LeastOf(bits) == IF bits = {} THEN -1 ELSE Min(bits)
GreatestOf(bits) == IF bits = {} THEN -1 ELSE Max(bits)

\* After any operations an array is a set of numbers below n, with nothing behind
\* them that a later shift, comparison or count would see, and every function
\* answers as the set would.
BitsAreSets ==
  LET all == 0 .. n - 1
      a == Bits(words)
      b == Bits(other)
  IN /\ a \subseteq all /\ Bits(setAll) = all
     /\ Bits(flipAll(words)) = all \ a
     /\ Bits(And(words, other)) = a \cap b /\ Bits(Or(words, other)) = a \cup b
     /\ Bits(Xor(words, other)) = (a \cup b) \ (a \cap b)
     /\ \A k \in 0 .. n : /\ Bits(ShiftLeft(words, k)) = {i + k : i \in a} \cap all
                          /\ Bits(ShiftRight(words, k)) = {i - k : i \in a} \cap all
                          /\ findPrevSet(words, k) = GreatestOf({i \in a : i < k})
     /\ \A k \in all : findNextSet(words, k) = LeastOf({i \in a : i > k}) /\ (testBit(words, k) <=> k \in a)
     /\ findFirstSet(words) = LeastOf(a) /\ findLastSet(words) = GreatestOf(a)
     /\ countSetBits(words) = Cardinality(a)
     /\ (anyTrue(words) <=> a # {}) /\ (allTrue(words) <=> a = all) /\ (Intersects(words, other) <=> a \cap b # {})
     /\ (words = other <=> a = b)
==============================================================================
