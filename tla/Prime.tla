-------------------------------- MODULE Prime --------------------------------
(***************************************************************************)
(* src/Stp/Base/Math/Prime.cpp for numbers below the square of 211, where  *)
(* the potential primes of isPrimeHelper are not reached, with             *)
(* lowerBoundOfSpan (src/Stp/Base/Containers/BinarySearch.h).  What is     *)
(* undefined in C++, a division by zero or reading behind a table, is the  *)
(* result -1.                                                              *)
(***************************************************************************)
EXTENDS Integers, FiniteSets, FiniteSetsExt, SequencesExt

CONSTANT MaxNumber  \* bound on the argument

VARIABLES x, result  \* the last call of nextPrimeNumber

Undefined == -1
IsPrime(n) == n > 1 /\ \A d \in 2 .. n - 1 : n % d # 0

Sorted(S) == [i \in 1 .. Cardinality(S) |-> CHOOSE n \in S : Cardinality({m \in S : m <= n}) = i]

\* The tables; their indices begin with 1.
SmallPrimes == Sorted({0} \cup {n \in 2 .. 211 : IsPrime(n)})
PrimeIndices == Sorted({n \in 1 .. 209 : \A d \in {2, 3, 5, 7} : n % d # 0})

\* The size of the table over the size of an element.
M == Len(PrimeIndices) \div 4

------------------------------------------------------------------------------
RECURSIVE Lower(_, _, _, _)
Lower(d, item, lo, hi) ==
  LET i == lo + (hi - lo) \div 2
  IN IF lo >= hi THEN lo
     ELSE IF d[i] = item THEN i
     ELSE IF d[i] < item THEN Lower(d, item, i + 1, hi) ELSE Lower(d, item, lo, i - 1)

\* Of a table without duplicates.
lowerBoundOfSpan(d, item) == Lower(d, item, 1, Len(d))

\* 1 or 0; start is SmallPrimeStartIndex.
isPrimeHelper(n, start) ==
  LET ends == {i \in start .. Len(SmallPrimes) : LET p == SmallPrimes[i] IN p = 0 \/ n \div p < p \/ n % p = 0}
      p == SmallPrimes[Min(ends)]
  IN IF n <= 211 THEN IF Contains(SmallPrimes, n) THEN 1 ELSE 0
     ELSE IF p = 0 THEN Undefined
     ELSE IF n \div p < p THEN 1 ELSE 0

RECURSIVE From(_, _)
From(k0, in) ==
  IF in > Len(PrimeIndices) THEN Undefined
  ELSE IF isPrimeHelper(210 * k0 + PrimeIndices[in], 6) = 1 THEN 210 * k0 + PrimeIndices[in]
  ELSE IF in = M THEN From(k0 + 1, 1) ELSE From(k0, in + 1)

nextPrimeHelper(n) ==
  LET yi == lowerBoundOfSpan(SmallPrimes, n)
  IN IF n < 211 THEN IF SmallPrimes[yi] = n THEN SmallPrimes[yi + 1] ELSE SmallPrimes[yi]
     ELSE From(n \div 210, lowerBoundOfSpan(PrimeIndices, n % 210))

Init == x = 0 /\ result = nextPrimeHelper(0)

nextPrimeNumber == x < MaxNumber /\ x' = x + 1 /\ result' = nextPrimeHelper(x')

Next == nextPrimeNumber
Spec == Init /\ [][Next]_<<x, result>>

\* nextPrimeNumber gives the first prime number greater than its argument.
FirstGreater == result > x /\ IsPrime(result) /\ \A n \in x + 1 .. result - 1 : ~IsPrime(n)
==============================================================================
