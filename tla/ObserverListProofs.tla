------------------------- MODULE ObserverListProofs -------------------------
(***************************************************************************)
(* Proofs about ObserverList.                                              *)
(*                                                                         *)
(* The first part is about the operators: what Without, and Closed with    *)
(* it, makes of a sequence.  Its recursion is unfolded by induction over   *)
(* the natural numbers, in the form that every non-empty set of them has a *)
(* least element, and from there on by induction over sequences.  The      *)
(* second part is the inductive invariant, the third the refinement.       *)
(***************************************************************************)
EXTENDS ObserverList, SequenceTheorems, WellFoundedInduction, TLAPS

------------------------------------------------------------------------------
(* Sequences without some of their elements. *)

\* Natural numbers have a least one in every set of them ...
LEMMA Least ==
  ASSUME NEW S \in SUBSET Nat, S # {}
  PROVE  \E n \in S : \A m \in S : n <= m
<1> DEFINE R == OpToRel(<, Nat)
<1>1. IsWellFoundedOn(R, Nat) BY NatLessThanWellFounded
<1>2. PICK n \in S : \A m \in S : ~ (<<m, n>> \in R)
  <2> HIDE DEF R
  <2> QED BY <1>1, WFMin
<1>3. \A m \in S : ~(m < n)
  BY <1>2 DEF OpToRel
<1> QED BY <1>3

\* ... which is induction.
LEMMA Induct ==
  ASSUME NEW S \in SUBSET Nat, 0 \in S, \A n \in Nat : n \in S => n+1 \in S
  PROVE  Nat \subseteq S
<1> SUFFICES ASSUME Nat \ S # {} PROVE FALSE OBVIOUS
<1>1. PICK n \in Nat \ S : \A m \in Nat \ S : n <= m BY Least
<1>2. n # 0 /\ n - 1 \in Nat BY <1>1
<1>3. n - 1 \in S BY <1>1, <1>2
<1> QED BY <1>1, <1>2, <1>3

\* f is the value for every beginning of q.
Keeps(f, q, O, n) ==
  f = [i \in 0 .. n |-> IF i = 0 THEN <<>> ELSE IF q[i] \in O THEN f[i - 1] ELSE Append(f[i - 1], q[i])]

\* It exists, whatever q is.
LEMMA KeepsExists ==
  ASSUME NEW q, NEW O, NEW m \in Nat
  PROVE  \E f : Keeps(f, q, O, m)
<1> DEFINE S == {n \in Nat : \E f : Keeps(f, q, O, n)}
<1>1. 0 \in S
  <2>1. Keeps([i \in 0 .. 0 |-> <<>>], q, O, 0) BY DEF Keeps
  <2> QED BY <2>1
<1>2. ASSUME NEW n \in Nat, n \in S PROVE n + 1 \in S
  <2>1. PICK f : Keeps(f, q, O, n) BY <1>2
  <2> DEFINE g == [i \in 0 .. n + 1 |-> IF i <= n THEN f[i] ELSE IF q[i] \in O THEN f[n] ELSE Append(f[n], q[i])]
  <2>2. \A i \in 0 .. n : f[i] = IF i = 0 THEN <<>> ELSE IF q[i] \in O THEN f[i - 1] ELSE Append(f[i - 1], q[i])
    BY <2>1 DEF Keeps
  <2>3. \A i \in 0 .. n : g[i] = f[i]
    OBVIOUS
  <2>4. \A i \in 0 .. n + 1 : g[i] = IF i = 0 THEN <<>> ELSE IF q[i] \in O THEN g[i - 1] ELSE Append(g[i - 1], q[i])
    <3> SUFFICES ASSUME NEW i \in 0 .. n + 1 
                 PROVE g[i] = IF i = 0 THEN <<>> ELSE IF q[i] \in O THEN g[i - 1] ELSE Append(g[i - 1], q[i])
      OBVIOUS
    <3>1. CASE i = 0  BY <2>2, <2>3, <3>1
    <3>2. CASE i \in 1 .. n BY <2>2, <2>3, <3>2
    <3>3. CASE i = n + 1 
      <4>1. g[i] = IF q[i] \in O THEN f[n] ELSE Append(f[n], q[i]) BY <3>3
      <4>2. g[i-1] = f[n] BY <3>3
      <4> HIDE DEF g 
      <4> QED BY <3>3, <4>1, <4>2
    <3> QED BY <3>1, <3>2, <3>3
  <2>5. g = [i \in 0 .. n + 1 |-> g[i]]
    OBVIOUS
  <2> HIDE DEF g
  <2>6. Keeps(g, q, O, n + 1)
    BY <2>4, <2>5 DEF Keeps
  <2> QED BY <2>6
<1> HIDE DEF S
<1>3. Nat \subseteq S
  <2>1. S \in SUBSET Nat BY DEF S
  <2> QED BY <1>1, <1>2, <2>1, Induct
<1> QED BY <1>3 DEF S

\* Hence the recursion that defines Without is well-defined.
LEMMA WithoutIs ==
  ASSUME NEW q, NEW O, Len(q) \in Nat
  PROVE \E f : Keeps(f, q, O, Len(q)) /\ Without(q, O) = f[Len(q)]
<1> DEFINE F == CHOOSE f : Keeps(f, q, O, Len(q))
<1>1. Keeps(F, q, O, Len(q)) BY KeepsExists
<1>2. Without(q, O) = F[Len(q)] BY DEF Without, Keeps
<1> QED BY <1>1, <1>2

\* The two equations by which everything else is proved.
LEMMA WithoutAppend ==
  ASSUME NEW T, NEW q \in Seq(T), NEW x \in T, NEW O
  PROVE  Without(Append(q, x), O) = IF x \in O THEN Without(q, O) ELSE Append(Without(q, O), x)
<1> DEFINE r == Append(q, x)
           n == Len(q)
<1>1. n \in Nat /\ Len(r) = n + 1 /\ r[n + 1] = x /\ \A i \in 1 .. n : r[i] = q[i]
  OBVIOUS
<1> HIDE DEF r
<1>2. PICK f : Keeps(f, q, O, n) /\ Without(q, O) = f[n]
  BY <1>1, WithoutIs
<1>3. PICK g : Keeps(g, r, O, n + 1) /\ Without(r, O) = g[n + 1]
  BY <1>1, WithoutIs
<1>4. \A i \in 0 .. n : f[i] = IF i = 0 THEN <<>> ELSE IF q[i] \in O THEN f[i - 1] ELSE Append(f[i - 1], q[i])
  BY <1>2 DEF Keeps
<1>5. \A i \in 0 .. n + 1 : g[i] = IF i = 0 THEN <<>> ELSE IF r[i] \in O THEN g[i - 1] ELSE Append(g[i - 1], r[i])
  BY <1>3 DEF Keeps
<1> DEFINE S == {i \in Nat : i <= n => f[i] = g[i]}
<1>6. Nat \subseteq S
  <2>1. 0 \in S
    BY <1>1, <1>4, <1>5
  <2>2. ASSUME NEW i \in Nat, i \in S PROVE i + 1 \in S
    <3>1. CASE i + 1 <= n
      <4>1. f[i + 1] = IF q[i + 1] \in O THEN f[i] ELSE Append(f[i], q[i + 1])
        BY <1>1, <1>4, <3>1
      <4>2. g[i + 1] = IF r[i + 1] \in O THEN g[i] ELSE Append(g[i], r[i + 1])
        BY <1>1, <1>5, <3>1
      <4>3. f[i] = g[i] /\ r[i + 1] = q[i + 1]
        BY <1>1, <2>2, <3>1
      <4> QED BY <4>1, <4>2, <4>3
    <3>2. CASE ~(i + 1 <= n)
      BY <3>2
    <3> QED BY <3>1, <3>2
  <2> HIDE DEF S
  <2>3. S \in SUBSET Nat
    BY DEF S
  <2> QED BY <2>1, <2>2, <2>3, Induct
<1>7. f[n] = g[n]
  BY <1>1, <1>6
<1>8. g[n + 1] = IF x \in O THEN g[n] ELSE Append(g[n], x)
  BY <1>1, <1>5
<1>9. Without(r, O) = IF x \in O THEN Without(q, O) ELSE Append(Without(q, O), x)
  BY <1>2, <1>3, <1>7, <1>8
<1> QED BY <1>9 DEF r

LEMMA WithoutEmpty ==
  ASSUME NEW O
  PROVE  Without(<<>>, O) = <<>>
<1>1. PICK f : Keeps(f, <<>>, O, 0) /\ Without(<<>>, O) = f[0]
  BY WithoutIs
<1> QED BY <1>1 DEF Keeps

\* Induction over sequences that grow at their end.
LEMMA SeqInduct ==
  ASSUME NEW T, NEW S \in SUBSET Seq(T), <<>> \in S,
         \A q \in S, x \in T : Append(q, x) \in S
  PROVE  \A q \in Seq(T) : q \in S
<1> DEFINE N == {n \in Nat : \A q \in Seq(T) : Len(q) = n => q \in S}
<1>1. 0 \in N
  <2>1. \A q \in Seq(T) : Len(q) = 0 => q = <<>>
    OBVIOUS
  <2> QED BY <2>1
<1>2. ASSUME NEW n \in Nat, n \in N PROVE n + 1 \in N
  <2>1. SUFFICES ASSUME NEW q \in Seq(T), Len(q) = n + 1 PROVE q \in S
    OBVIOUS
  <2>2. PICK p \in Seq(T), x \in T : q = Append(p, x)
    <3>1. q # <<>>
      BY <2>1
    <3> QED BY <3>1, SequenceEmptyOrAppend
  <2>3. Len(p) = n
    BY <2>1, <2>2
  <2>4. p \in S
    BY <1>2, <2>3
  <2> QED BY <2>2, <2>4
<1>3. N \in SUBSET Nat
  OBVIOUS
<1> HIDE DEF N
<1>4. Nat \subseteq N
  BY <1>1, <1>2, <1>3, Induct
<1> QED BY <1>4 DEF N

LEMMA ConcatAppend ==
  ASSUME NEW T, NEW q \in Seq(T), NEW r \in Seq(T), NEW x \in T
  PROVE  q \o Append(r, x) = Append(q \o r, x)
<1>1. <<x>> \in Seq(T) /\ q \o r \in Seq(T)
  BY ConcatProperties
<1>2. Append(r, x) = r \o <<x>> /\ Append(q \o r, x) = (q \o r) \o <<x>>
  BY <1>1, AppendIsConcat
<1> QED BY <1>1, <1>2, ConcatAssociative

\* What remains of q, and in what order, depends on O alone.
LEMMA WithoutType ==
  ASSUME NEW T, NEW q \in Seq(T), NEW O
  PROVE  Without(q, O) \in Seq(T \ O) /\ Len(Without(q, O)) <= Len(q)
<1> DEFINE S == {p \in Seq(T) : Without(p, O) \in Seq(T \ O) /\ Len(Without(p, O)) <= Len(p)}
<1>1. <<>> \in S
  <2>1. <<>> \in Seq(T) /\ <<>> \in Seq(T \ O) /\ Len(<<>>) = 0
    BY EmptySeq
  <2>2. Without(<<>>, O) = <<>>
    BY WithoutEmpty
  <2>3. Without(<<>>, O) \in Seq(T \ O) /\ Len(Without(<<>>, O)) <= Len(<<>>)
    <3>1. Without(<<>>, O) \in Seq(T \ O) /\ Len(Without(<<>>, O)) = 0
      BY <2>1, <2>2, Zenon
    <3> QED BY <2>1, <3>1
  <2> QED BY <2>1, <2>3
<1>2. ASSUME NEW p \in S, NEW x \in T PROVE Append(p, x) \in S
  <2>1. Without(Append(p, x), O) = IF x \in O THEN Without(p, O) ELSE Append(Without(p, O), x)
    BY WithoutAppend
  <2> DEFINE w == Without(p, O)
  <2>2. w \in Seq(T \ O) /\ Len(w) <= Len(p) /\ p \in Seq(T)
    OBVIOUS
  <2> HIDE DEF w
  <2>3. Append(p, x) \in Seq(T) /\ Len(Append(p, x)) = Len(p) + 1
    BY <2>2
  <2>4. CASE x \in O
    <3>1. Without(Append(p, x), O) = w
      BY <2>1, <2>4 DEF w
    <3>2. Len(w) <= Len(p) + 1
      BY <2>2
    <3> QED BY <2>2, <2>3, <3>1, <3>2
  <2>5. CASE x \notin O
    <3>1. Without(Append(p, x), O) = Append(w, x)
      BY <2>1, <2>5 DEF w
    <3>2. Append(w, x) \in Seq(T \ O) /\ Len(Append(w, x)) = Len(w) + 1
      BY <2>2, <2>5, AppendProperties
    <3>3. Len(w) + 1 <= Len(p) + 1
      BY <2>2
    <3> QED BY <2>3, <3>1, <3>2, <3>3
  <2> QED BY <2>4, <2>5
<1>3. S \in SUBSET Seq(T)
  OBVIOUS
<1> HIDE DEF S
<1>4. q \in S
  BY <1>1, <1>2, <1>3, SeqInduct
<1> QED BY <1>4 DEF S

LEMMA RangeAppend ==
  ASSUME NEW T, NEW q \in Seq(T), NEW x \in T
  PROVE  Range(Append(q, x)) = Range(q) \cup {x}
<1>1. Range(<<x>>) = {x}
  BY DEF Range
<1>2. <<x>> \in Seq(T)
  OBVIOUS
<1>3. Append(q, x) = q \o <<x>>
  BY AppendIsConcat
<1>4. Range(q \o <<x>>) = Range(q) \cup Range(<<x>>)
  BY <1>2, RangeConcatenation, ZenonT(30)
<1> QED BY <1>1, <1>3, <1>4

LEMMA WithoutRange ==
  ASSUME NEW T, NEW q \in Seq(T), NEW O
  PROVE  Range(Without(q, O)) = Range(q) \ O
<1> DEFINE S == {p \in Seq(T) : Range(Without(p, O)) = Range(p) \ O}
<1>1. <<>> \in S
  <2>1. Range(<<>>) = {}
    BY DEF Range
  <2> QED BY <2>1, WithoutEmpty
<1>2. ASSUME NEW p \in S, NEW x \in T PROVE Append(p, x) \in S
  <2>1. Without(Append(p, x), O) = IF x \in O THEN Without(p, O) ELSE Append(Without(p, O), x)
    BY WithoutAppend
  <2>2. Range(Append(p, x)) = Range(p) \cup {x}
    BY RangeAppend
  <2>3. CASE x \in O
    BY <2>1, <2>2, <2>3
  <2>4. CASE x \notin O
    <3>1. Without(p, O) \in Seq(T \ O)
      BY WithoutType
    <3>2. Range(Append(Without(p, O), x)) = Range(Without(p, O)) \cup {x}
      BY <2>4, <3>1, RangeAppend
    <3>3. Append(p, x) \in Seq(T)
      BY AppendProperties
    <3> QED BY <2>1, <2>2, <2>4, <3>2, <3>3
  <2> QED BY <2>3, <2>4
<1>3. S \in SUBSET Seq(T)
  OBVIOUS
<1> HIDE DEF S
<1>4. q \in S
  BY <1>1, <1>2, <1>3, SeqInduct
<1> QED BY <1>4 DEF S

\* Nothing is lost where nothing is removed.
LEMMA WithoutNone ==
  ASSUME NEW T, NEW O, NEW q \in Seq(T \ O)
  PROVE  Without(q, O) = q
<1> DEFINE S == {p \in Seq(T \ O) : Without(p, O) = p}
<1>1. <<>> \in S
  BY WithoutEmpty
<1>2. ASSUME NEW p \in S, NEW x \in T \ O PROVE Append(p, x) \in S
  <2>1. Without(Append(p, x), O) = Append(Without(p, O), x)
    BY WithoutAppend
  <2> QED BY <2>1, AppendProperties
<1>3. S \in SUBSET Seq(T \ O)
  OBVIOUS
<1> HIDE DEF S
<1>4. q \in S
  BY <1>1, <1>2, <1>3, SeqInduct
<1> QED BY <1>4 DEF S

LEMMA WithoutSubtype ==
  ASSUME NEW T, NEW q \in Seq(T), NEW O
  PROVE  Without(q, O) \in Seq(T)
<1>1. T \ O \subseteq T
  OBVIOUS
<1>2. Without(q, O) \in Seq(T \ O)
  BY WithoutType
<1> QED BY <1>1, <1>2, SeqMonotonic

\* Removing is piecewise.
LEMMA WithoutConcat ==
  ASSUME NEW T, NEW q \in Seq(T), NEW r \in Seq(T), NEW O
  PROVE  Without(q \o r, O) = Without(q, O) \o Without(r, O)
<1> DEFINE S == {p \in Seq(T) : Without(q \o p, O) = Without(q, O) \o Without(p, O)}
<1>0. Without(q, O) \in Seq(T)
  BY WithoutSubtype
<1>1. <<>> \in S
  BY <1>0, WithoutEmpty, ConcatEmptySeq
<1>2. ASSUME NEW p \in S, NEW x \in T PROVE Append(p, x) \in S
  <2>1. Without(Append(p, x), O) = IF x \in O THEN Without(p, O) ELSE Append(Without(p, O), x)
    BY WithoutAppend
  <2>2. q \o p \in Seq(T) /\ Without(p, O) \in Seq(T)
    BY WithoutSubtype, ConcatProperties
  <2>3. Without(Append(q \o p, x), O) = IF x \in O THEN Without(q \o p, O) ELSE Append(Without(q \o p, O), x)
    BY <2>2, WithoutAppend, ZenonT(40)
  <2>4. q \o Append(p, x) = Append(q \o p, x)
    BY ConcatAppend
  <2>5. Without(q, O) \o Append(Without(p, O), x) = Append(Without(q, O) \o Without(p, O), x)
    BY <1>0, <2>2, ConcatAppend
  <2>6. Append(p, x) \in Seq(T) /\ Without(q \o p, O) = Without(q, O) \o Without(p, O)
    BY AppendProperties
  <2> QED BY <2>1, <2>3, <2>4, <2>5, <2>6
<1>3. S \in SUBSET Seq(T)
  OBVIOUS
<1> HIDE DEF S
<1>4. r \in S
  BY <1>1, <1>2, <1>3, SeqInduct
<1> QED BY <1>4 DEF S

------------------------------------------------------------------------------
(* The list with holes. *)

Slots == Observers \cup {Null}

\* No two entries of q are the same observer.
Distinct(q) == \A i, j \in 1 .. Len(q) : q[i] = q[j] /\ q[i] # Null => i = j

LEMMA HoleType ==
  ASSUME NEW q \in Seq(Slots), NEW O
  PROVE  /\ Hole(q, O) \in Seq(Slots)
         /\ Len(Hole(q, O)) = Len(q)
         /\ \A i \in 1 .. Len(q) : Hole(q, O)[i] = IF q[i] \in O THEN Null ELSE q[i]
<1> DEFINE h == [i \in 1 .. Len(q) |-> IF q[i] \in O THEN Null ELSE q[i]]
<1>1. Len(q) \in Nat /\ DOMAIN q = 1 .. Len(q)
  BY LenProperties
<1>2. Hole(q, O) = h
  BY <1>1 DEF Hole
<1>3. \A i \in 1 .. Len(q) : h[i] \in Slots
  BY <1>1, ElementOfSeq DEF Slots
<1>4. h \in [1 .. Len(q) -> Slots]
  BY <1>3
<1> HIDE DEF h
<1>5. h \in Seq(Slots) /\ Len(h) = Len(q)
  BY <1>1, <1>4
<1>6. \A i \in 1 .. Len(q) : h[i] = IF q[i] \in O THEN Null ELSE q[i]
  BY DEF h
<1> QED BY <1>2, <1>5, <1>6

LEMMA HoleRange ==
  ASSUME NEW q \in Seq(Slots), NEW O, Null \notin O
  PROVE  Range(Hole(q, O)) \ {Null} = (Range(q) \ {Null}) \ O
<1>1. DOMAIN q = 1 .. Len(q) /\ DOMAIN Hole(q, O) = 1 .. Len(q)
  BY HoleType, LenProperties
<1>2. \A i \in 1 .. Len(q) : Hole(q, O)[i] = IF q[i] \in O THEN Null ELSE q[i]
  BY HoleType
<1> QED BY <1>1, <1>2 DEF Range

LEMMA HoleAppend ==
  ASSUME NEW q \in Seq(Slots), NEW x \in Slots, NEW O
  PROVE  Hole(Append(q, x), O) = Append(Hole(q, O), IF x \in O THEN Null ELSE x)
<1> DEFINE y == IF x \in O THEN Null ELSE x
           h == Hole(q, O)
           r == Append(q, x)
           g == Hole(r, O)
<1>1. y \in Slots /\ Null \in Slots
  BY DEF Slots
<1>2. r \in Seq(Slots) /\ Len(r) = Len(q) + 1 /\ r[Len(q) + 1] = x /\ \A i \in 1 .. Len(q) : r[i] = q[i]
  BY AppendProperties
<1>3. h \in Seq(Slots) /\ Len(h) = Len(q) /\ \A i \in 1 .. Len(q) : h[i] = IF q[i] \in O THEN Null ELSE q[i]
  BY HoleType
<1>4. g \in Seq(Slots) /\ Len(g) = Len(r) /\ \A i \in 1 .. Len(r) : g[i] = IF r[i] \in O THEN Null ELSE r[i]
  <2> HIDE DEF r
  <2> QED BY <1>2, HoleType
<1>5. y = IF x \in O THEN Null ELSE x
  OBVIOUS
<1> HIDE DEF y, h, r, g
<1>6. /\ Append(h, y) \in Seq(Slots) /\ Len(Append(h, y)) = Len(h) + 1
      /\ Append(h, y)[Len(h) + 1] = y /\ \A i \in 1 .. Len(h) : Append(h, y)[i] = h[i]
  BY <1>1, <1>3, AppendProperties
<1>7. Len(q) \in Nat
  BY LenProperties
<1>8. \A i \in 1 .. Len(g) : g[i] = Append(h, y)[i]
  <2> SUFFICES ASSUME NEW i \in 1 .. Len(q) + 1 PROVE g[i] = Append(h, y)[i]
    BY <1>2, <1>4
  <2>1. CASE i \in 1 .. Len(q)
    BY <1>2, <1>3, <1>4, <1>6, <1>7, <2>1
  <2>2. CASE i = Len(q) + 1
    <3>1. g[i] = IF x \in O THEN Null ELSE x
      BY <1>2, <1>4, <1>7, <2>2
    <3> QED BY <1>3, <1>5, <1>6, <2>2, <3>1
  <2>3. i \in 1 .. Len(q) \/ i = Len(q) + 1
    BY <1>7
  <2> QED BY <2>1, <2>2, <2>3, Zenon
<1>9. Len(g) = Len(Append(h, y))
  BY <1>2, <1>3, <1>4, <1>6
<1>10. g = Append(h, y)
  BY <1>4, <1>6, <1>8, <1>9, SeqEqual
<1> QED BY <1>10 DEF y, h, r, g

LEMMA ClosedType ==
  ASSUME NEW q \in Seq(Slots)
  PROVE  /\ Closed(q) \in Seq(Observers)
         /\ Len(Closed(q)) <= Len(q)
         /\ Range(Closed(q)) = Range(q) \ {Null}
<1>1. Slots \ {Null} = Observers
  BY ObserverAssumption DEF Slots
<1> QED BY <1>1, WithoutType, WithoutRange DEF Closed

LEMMA ClosedAppend ==
  ASSUME NEW q \in Seq(Slots), NEW x \in Slots
  PROVE  Closed(Append(q, x)) = IF x = Null THEN Closed(q) ELSE Append(Closed(q), x)
BY WithoutAppend DEF Closed

\* Closing after a removal is removing after closing.
LEMMA ClosedHole ==
  ASSUME NEW q \in Seq(Slots), NEW O, Null \notin O
  PROVE  Closed(Hole(q, O)) = Without(Closed(q), O)
<1> DEFINE S == {p \in Seq(Slots) : Closed(Hole(p, O)) = Without(Closed(p), O)}
<1>1. <<>> \in S
  <2>1. <<>> \in Seq(Slots) /\ Closed(<<>>) = <<>> /\ Without(<<>>, O) = <<>>
    BY WithoutEmpty, EmptySeq DEF Closed
  <2>2. Hole(<<>>, O) = <<>>
    BY DEF Hole
  <2> QED BY <2>1, <2>2
<1>2. ASSUME NEW p \in S, NEW x \in Slots PROVE Append(p, x) \in S
  <2>1. p \in Seq(Slots) /\ Closed(Hole(p, O)) = Without(Closed(p), O) /\ Append(p, x) \in Seq(Slots)
    BY AppendProperties
  <2>2. Hole(p, O) \in Seq(Slots) /\ Null \in Slots /\ Closed(p) \in Seq(Slots)
    <3>1. Observers \subseteq Slots /\ Null \in Slots
      BY DEF Slots
    <3> QED BY <2>1, <3>1, HoleType, ClosedType, SeqMonotonic
  <2>3. Hole(Append(p, x), O) = Append(Hole(p, O), IF x \in O THEN Null ELSE x)
    BY <2>1, HoleAppend
  <2>4. Closed(Append(p, x)) = IF x = Null THEN Closed(p) ELSE Append(Closed(p), x)
    BY <2>1, ClosedAppend
  <2>5. CASE x \in O
    <3>1. Closed(Hole(Append(p, x), O)) = Closed(Hole(p, O))
      BY <2>2, <2>3, <2>5, ClosedAppend
    <3>2. Without(Append(Closed(p), x), O) = Without(Closed(p), O)
      BY <2>2, <2>5, WithoutAppend
    <3> QED BY <2>1, <2>4, <2>5, <3>1, <3>2
  <2>6. CASE x = Null
    <3>1. Closed(Hole(Append(p, x), O)) = Closed(Hole(p, O))
      BY <2>2, <2>3, <2>6, ClosedAppend
    <3> QED BY <2>1, <2>4, <2>6, <3>1
  <2>7. CASE x \notin O /\ x # Null
    <3>1. Closed(Hole(Append(p, x), O)) = Append(Closed(Hole(p, O)), x)
      BY <2>2, <2>3, <2>7, ClosedAppend
    <3>2. Without(Append(Closed(p), x), O) = Append(Without(Closed(p), O), x)
      BY <2>2, <2>7, WithoutAppend
    <3> QED BY <2>1, <2>4, <2>7, <3>1, <3>2
  <2> QED BY <2>5, <2>6, <2>7
<1>3. S \in SUBSET Seq(Slots)
  OBVIOUS
<1> HIDE DEF S
<1>4. q \in S
  BY <1>1, <1>2, <1>3, SeqInduct
<1> QED BY <1>4 DEF S

\* A dense list is closed.
LEMMA ClosedDense ==
  ASSUME NEW q \in Seq(Observers)
  PROVE  Closed(q) = q
<1>1. Observers = Observers \ {Null}
  BY ObserverAssumption
<1> QED BY <1>1, WithoutNone DEF Closed

LEMMA EmptyRange ==
  ASSUME NEW T, NEW q \in Seq(T), Range(q) = {}
  PROVE  q = <<>>
<1>1. CASE q # <<>>
  <2>1. Len(q) \in Nat \ {0} /\ DOMAIN q = 1 .. Len(q)
    BY <1>1, EmptySeq, LenProperties
  <2>2. q[1] \in Range(q)
    BY <2>1 DEF Range
  <2> QED BY <2>2
<1> QED BY <1>1

LEMMA ClosedNothing ==
  ASSUME NEW q \in Seq(Slots), \A i \in 1 .. Len(q) : q[i] = Null
  PROVE  Closed(q) = <<>>
<1>1. Range(q) \ {Null} = {}
  BY RangeEquality
<1> QED BY <1>1, ClosedType, EmptyRange

LEMMA WithoutEveryone ==
  ASSUME NEW q \in Seq(Observers)
  PROVE  Without(q, Observers) = <<>>
<1>1. Range(Without(q, Observers)) = Range(q) \ Observers /\ Range(q) \subseteq Observers
  BY WithoutRange, RangeOfSeq
<1>2. Without(q, Observers) \in Seq(Observers)
  BY WithoutSubtype
<1>3. Range(Without(q, Observers)) = {}
  BY <1>1
<1> QED BY <1>2, <1>3, EmptyRange

LEMMA ClosedConcat ==
  ASSUME NEW q \in Seq(Slots), NEW r \in Seq(Slots)
  PROVE  Closed(q \o r) = Closed(q) \o Closed(r)
<1> DEFINE O == {Null}
<1>1. Without(q \o r, O) = Without(q, O) \o Without(r, O)
  <2> HIDE DEF O
  <2> QED BY WithoutConcat
<1> QED BY <1>1 DEF Closed

\* Closing begins with the first live entry.
LEMMA ClosedHead ==
  ASSUME NEW q \in Seq(Slots), NEW a \in Nat \ {0}, NEW b \in 1 .. Len(q), NEW i \in a .. b,
         q[i] # Null, \A j \in a .. i - 1 : q[j] = Null
  PROVE  Closed(SubSeq(q, a, b)) = <<q[i]>> \o Closed(SubSeq(q, i + 1, b))
<1> DEFINE before == SubSeq(q, a, i - 1)
           from == SubSeq(q, i, b)
           after == SubSeq(q, i + 1, b)
<1>1. Len(q) \in Nat /\ i \in 1 .. Len(q) /\ b \in i .. Len(q) /\ \A j \in 1 .. Len(q) : q[j] \in Slots
  BY LenProperties, ElementOfSeq
<1>2. before \in Seq(Slots) /\ from \in Seq(Slots) /\ after \in Seq(Slots)
  <2>1. /\ \A j \in a .. i - 1 : q[j] \in Slots
        /\ \A j \in i .. b : q[j] \in Slots
        /\ \A j \in i + 1 .. b : q[j] \in Slots
    BY <1>1
  <2>2. a \in Int /\ i - 1 \in Int /\ i \in Int /\ b \in Int /\ i + 1 \in Int
    OBVIOUS
  <2> QED BY <2>1, <2>2, SubSeqProperties
<1>3. SubSeq(q, a, b) = before \o from
  <2>1. a \in 1 .. Len(q) + 1 /\ i - 1 \in a - 1 .. Len(q) /\ b \in i - 1 .. Len(q) /\ (i - 1) + 1 = i
    BY <1>1
  <2>2. SubSeq(q, a, i - 1) \o SubSeq(q, (i - 1) + 1, b) = SubSeq(q, a, b)
    BY <2>1, ConcatAdjacentSubSeq
  <2> QED BY <2>1, <2>2
<1>4. from = <<q[i]>> \o after
  BY <1>1, SubSeqRecursiveFirst
<1>5. Closed(before) = <<>>
  <2>1. \A j \in 1 .. Len(before) : before[j] = Null
    <3>1. \A j \in a .. i - 1 : q[j] \in Slots
      BY <1>1
    <3>2. /\ Len(before) = IF a <= i - 1 THEN (i - 1) - a + 1 ELSE 0
          /\ \A j \in 1 .. (i - 1) - a + 1 : before[j] = q[a + j - 1]
      BY <3>1, SubSeqProperties
    <3> HIDE DEF before
    <3>3. \A j \in 1 .. Len(before) : j \in 1 .. (i - 1) - a + 1 /\ a + j - 1 \in a .. i - 1
      BY <3>2
    <3> QED BY <3>2, <3>3
  <2> HIDE DEF before
  <2> QED BY <1>2, <2>1, ClosedNothing
<1> HIDE DEF before, from, after
<1>6. q[i] \in Slots /\ <<q[i]>> \in Seq(Slots) /\ <<>> \in Seq(Slots)
  BY <1>1
<1>7. Closed(<<q[i]>>) = <<q[i]>>
  <2>1. Append(<<>>, q[i]) = <<q[i]>> /\ Closed(<<>>) = <<>>
    BY WithoutEmpty DEF Closed
  <2>2. Closed(Append(<<>>, q[i])) = Append(Closed(<<>>), q[i])
    BY <1>6, ClosedAppend
  <2> QED BY <2>1, <2>2
<1>8. Closed(from) = <<q[i]>> \o Closed(after)
  <2>1. Closed(<<q[i]>> \o after) = Closed(<<q[i]>>) \o Closed(after)
    BY <1>2, <1>6, ClosedConcat
  <2> QED BY <1>4, <1>7, <2>1, Zenon
<1>9. Closed(SubSeq(q, a, b)) = Closed(before) \o Closed(from)
  <2>1. Closed(before \o from) = Closed(before) \o Closed(from)
    BY <1>2, ClosedConcat
  <2> QED BY <1>3, <2>1, Zenon
<1>10. Closed(from) \in Seq(Observers)
  BY <1>2, ClosedType
<1>11. <<>> \o Closed(from) = Closed(from)
  BY <1>10, ConcatEmptySeq
<1> QED BY <1>5, <1>8, <1>9, <1>11 DEF after

\* Nobody gets into the list twice by leaving it.
LEMMA ClosedDistinct ==
  ASSUME NEW q \in Seq(Slots), Distinct(q)
  PROVE  Distinct(Closed(q))
<1> DEFINE S == {p \in Seq(Slots) : Distinct(p) => Distinct(Closed(p))}
<1>1. <<>> \in S
  <2>1. <<>> \in Seq(Slots) /\ Closed(<<>>) = <<>>
    BY WithoutEmpty, EmptySeq DEF Closed
  <2> QED BY <2>1
<1>2. ASSUME NEW p \in S, NEW x \in Slots PROVE Append(p, x) \in S
  <2> DEFINE r == Append(p, x)
             c == Closed(p)
  <2>1. /\ p \in Seq(Slots) /\ Len(p) \in Nat /\ r \in Seq(Slots)
        /\ Len(r) = Len(p) + 1 /\ r[Len(p) + 1] = x /\ \A i \in 1 .. Len(p) : r[i] = p[i]
    BY AppendProperties
  <2>2. Closed(r) = IF x = Null THEN c ELSE Append(c, x)
    BY <2>1, ClosedAppend
  <2>3. c \in Seq(Observers) /\ Range(c) = Range(p) \ {Null}
    BY <2>1, ClosedType
  <2>4. Distinct(p) => Distinct(c)
    OBVIOUS
  <2> HIDE DEF r, c
  <2>5. ASSUME Distinct(r) PROVE Distinct(Closed(r))
    <3>1. Distinct(p)
      <4> SUFFICES ASSUME NEW i \in 1 .. Len(p), NEW j \in 1 .. Len(p), p[i] = p[j], p[i] # Null PROVE i = j
        BY DEF Distinct
      <4>1. i \in 1 .. Len(r) /\ j \in 1 .. Len(r) /\ r[i] = r[j] /\ r[i] # Null
        BY <2>1
      <4> QED BY <2>5, <4>1 DEF Distinct
    <3>2. CASE x = Null
      BY <2>2, <2>4, <3>1, <3>2
    <3>3. CASE x # Null
      <4>1. x \notin Range(p)
        <5> SUFFICES ASSUME NEW i \in 1 .. Len(p), p[i] = x PROVE FALSE
          BY <2>1, RangeEquality
        <5>1. i \in 1 .. Len(r) /\ Len(p) + 1 \in 1 .. Len(r) /\ r[i] = r[Len(p) + 1] /\ r[i] # Null
          BY <2>1, <3>3
        <5>2. i = Len(p) + 1
          BY <2>5, <5>1 DEF Distinct
        <5> QED BY <2>1, <5>2
      <4>2. x \in Observers
        BY <3>3 DEF Slots
      <4>3. /\ Len(c) \in Nat /\ Len(Append(c, x)) = Len(c) + 1 /\ Append(c, x)[Len(c) + 1] = x
            /\ \A i \in 1 .. Len(c) : Append(c, x)[i] = c[i]
        BY <2>3, <4>2, AppendProperties
      <4>4. \A i \in 1 .. Len(c) : c[i] # x
        BY <2>3, <4>1, RangeEquality
      <4>5. Distinct(c)
        BY <2>4, <3>1
      <4>6. Distinct(Append(c, x))
        <5> SUFFICES ASSUME NEW i \in 1 .. Len(c) + 1, NEW j \in 1 .. Len(c) + 1,
                            Append(c, x)[i] = Append(c, x)[j], Append(c, x)[i] # Null
                     PROVE  i = j
          BY <4>3 DEF Distinct
        <5>1. CASE i \in 1 .. Len(c) /\ j \in 1 .. Len(c)
          <6>1. c[i] = c[j] /\ c[i] # Null
            BY <4>3, <5>1
          <6> QED BY <4>5, <5>1, <6>1 DEF Distinct
        <5>2. CASE i \in 1 .. Len(c) /\ j = Len(c) + 1
          BY <4>3, <4>4, <5>2
        <5>3. CASE j \in 1 .. Len(c) /\ i = Len(c) + 1
          BY <4>3, <4>4, <5>3
        <5> QED BY <4>3, <5>1, <5>2, <5>3
      <4> QED BY <2>2, <3>3, <4>6
    <3> QED BY <3>2, <3>3
  <2> QED BY <2>1, <2>5 DEF r
<1>3. S \in SUBSET Seq(Slots)
  OBVIOUS
<1> HIDE DEF S
<1>4. q \in S
  BY <1>1, <1>2, <1>3, SeqInduct
<1> QED BY <1>4 DEF S

------------------------------------------------------------------------------
(* The inductive invariant. *)

Iterators == [list : BOOLEAN, index : Nat \ {0}, max_index : Nat]
Histories == [told : Seq(Observers), stayers : SUBSET Observers, exhausted : BOOLEAN]

Shape ==
  /\ alive \in BOOLEAN /\ needs_compact \in BOOLEAN /\ panicked \in BOOLEAN
  /\ observers \in Seq(Slots) /\ Len(observers) <= MaxSlots
  /\ iterators \in Seq(Iterators) /\ Len(iterators) <= MaxDepth
  /\ history \in Seq(Histories) /\ Len(history) = Len(iterators)

\* The next five relate one iterator, and what it has done, to the list q, which
\* is alive or not.

\* It is linked while the list lives, and stays within what the list had.
Fits(a, q, it) ==
  /\ it.list = a
  /\ it.index <= it.max_index + 1 /\ it.max_index <= MaxSlots
  /\ a => it.max_index <= Len(q)

\* Whoever has been told is behind the index, or has joined again at the end.
ToldAreBehind(a, q, it, h) ==
  a => \A p \in 1 .. Len(q) : \A i \in 1 .. Len(h.told) :
         q[p] = h.told[i] => p < it.index \/ it.max_index < p

\* A stayer has kept its place; unless it has been told it is still ahead.
StayersAreThere(a, q, it, h) ==
  \A o \in h.stayers :
    /\ a
    /\ \E p \in 1 .. Len(q) :
         /\ p <= it.max_index /\ q[p] = o
         /\ p < it.index => o \in Range(h.told)

\* Nobody is ahead of an iteration that has ended.
EndedIsEmpty(a, q, it, h) ==
  a /\ h.exhausted =>
    \A p \in 1 .. Len(q) : it.index <= p /\ p <= it.max_index => q[p] = Null

Loop(a, q, it, h) ==
  /\ Fits(a, q, it)
  /\ ToldAreBehind(a, q, it, h)
  /\ StayersAreThere(a, q, it, h)
  /\ EndedIsEmpty(a, q, it, h)
  /\ \A i, j \in 1 .. Len(h.told) : h.told[i] = h.told[j] => i = j

Loops == \A k \in 1 .. Len(iterators) : Loop(alive, observers, iterators[k], history[k])

Holes ==
  /\ alive /\ Null \in Range(observers) => needs_compact
  /\ alive /\ Quiet => Null \notin Range(observers) /\ ~needs_compact

IInv == Shape /\ Distinct(observers) /\ Holes /\ Loops

\* What the list does to an iteration: somebody joins ...
LEMMA LoopJoined ==
  ASSUME NEW a \in BOOLEAN, NEW q \in Seq(Slots), NEW x \in Observers,
         NEW it \in Iterators, NEW h \in Histories, Loop(a, q, it, h), a
  PROVE  Loop(a, Append(q, x), it, h)
<1> DEFINE r == Append(q, x)
<1>1. Len(q) \in Nat /\ Len(r) = Len(q) + 1 /\ r[Len(q) + 1] = x /\ \A i \in 1 .. Len(q) : r[i] = q[i]
  BY AppendProperties DEF Slots
<1>2. it.index \in Nat /\ it.max_index \in Nat /\ it.max_index <= Len(q)
  BY DEF Iterators, Loop, Fits
<1> HIDE DEF r
<1>3. Fits(a, r, it)
  BY <1>1, <1>2 DEF Fits, Loop
<1>4. ToldAreBehind(a, r, it, h)
  <2> SUFFICES ASSUME NEW p \in 1 .. Len(r), NEW i \in 1 .. Len(h.told), r[p] = h.told[i]
               PROVE  p < it.index \/ it.max_index < p
    BY DEF ToldAreBehind
  <2>1. CASE p \in 1 .. Len(q)
    BY <1>1, <2>1 DEF Loop, ToldAreBehind
  <2>2. CASE p = Len(q) + 1
    BY <1>1, <1>2, <2>2
  <2> QED BY <1>1, <2>1, <2>2
<1>5. StayersAreThere(a, r, it, h)
  <2> SUFFICES ASSUME NEW o \in h.stayers
               PROVE  \E p \in 1 .. Len(r) : p <= it.max_index /\ r[p] = o /\ (p < it.index => o \in Range(h.told))
    BY DEF StayersAreThere
  <2>1. PICK p \in 1 .. Len(q) : p <= it.max_index /\ q[p] = o /\ (p < it.index => o \in Range(h.told))
    BY DEF Loop, StayersAreThere
  <2>2. p \in 1 .. Len(r) /\ r[p] = o
    BY <1>1, <2>1
  <2> QED BY <2>1, <2>2
<1>6. EndedIsEmpty(a, r, it, h)
  BY <1>1, <1>2 DEF EndedIsEmpty, Loop
<1> QED BY <1>3, <1>4, <1>5, <1>6 DEF Loop, r

\* ... some leave ...
LEMMA LoopLeft ==
  ASSUME NEW a \in BOOLEAN, NEW q \in Seq(Slots), NEW O, Null \notin O,
         NEW it \in Iterators, NEW h \in Histories, NEW g \in Histories, Loop(a, q, it, h),
         g.told = h.told, g.stayers = h.stayers \ O, g.exhausted = h.exhausted
  PROVE  Loop(a, Hole(q, O), it, g)
<1> DEFINE r == Hole(q, O)
<1>1. Len(q) \in Nat /\ Len(r) = Len(q) /\ \A i \in 1 .. Len(q) : r[i] = IF q[i] \in O THEN Null ELSE q[i]
  BY HoleType
<1>2. \A i \in 1 .. Len(h.told) : h.told[i] # Null
  <2>1. h.told \in Seq(Observers)
    BY DEF Histories
  <2> QED BY <2>1, ElementOfSeq, ObserverAssumption
<1> HIDE DEF r
<1>3. Fits(a, r, it)
  BY <1>1 DEF Fits, Loop
<1>4. ToldAreBehind(a, r, it, g)
  <2> SUFFICES ASSUME a, NEW p \in 1 .. Len(q), NEW i \in 1 .. Len(h.told), r[p] = h.told[i]
               PROVE  p < it.index \/ it.max_index < p
    BY <1>1 DEF ToldAreBehind
  <2>1. q[p] = h.told[i]
    BY <1>1, <1>2
  <2> QED BY <2>1 DEF Loop, ToldAreBehind
<1>5. StayersAreThere(a, r, it, g)
  <2> SUFFICES ASSUME NEW o \in h.stayers, o \notin O
               PROVE  a /\ \E p \in 1 .. Len(r) : p <= it.max_index /\ r[p] = o /\ (p < it.index => o \in Range(h.told))
    BY DEF StayersAreThere
  <2>1. a /\ \E p \in 1 .. Len(q) : p <= it.max_index /\ q[p] = o /\ (p < it.index => o \in Range(h.told))
    BY DEF Loop, StayersAreThere
  <2>2. PICK p \in 1 .. Len(q) : p <= it.max_index /\ q[p] = o /\ (p < it.index => o \in Range(h.told))
    BY <2>1
  <2>3. p \in 1 .. Len(r) /\ r[p] = o
    BY <1>1, <2>2
  <2> QED BY <2>1, <2>2, <2>3
<1>6. EndedIsEmpty(a, r, it, g)
  BY <1>1 DEF EndedIsEmpty, Loop
<1>7. \A i, j \in 1 .. Len(g.told) : g.told[i] = g.told[j] => i = j
  BY DEF Loop
<1> QED BY <1>3, <1>4, <1>5, <1>6, <1>7 DEF Loop, r

\* ... or the list is destroyed.
LEMMA LoopCutOff ==
  ASSUME NEW a \in BOOLEAN, NEW q, NEW r, NEW it \in Iterators, NEW jt \in Iterators,
         NEW h \in Histories, NEW g \in Histories, Loop(a, q, it, h),
         jt.list = FALSE, jt.index = it.index, jt.max_index = it.max_index,
         g.told = h.told, g.stayers = {}
  PROVE  Loop(FALSE, r, jt, g)
BY DEF Loop, Fits, ToldAreBehind, StayersAreThere, EndedIsEmpty

\* An iteration begins with everybody ahead of it.
LEMMA LoopBegins ==
  ASSUME NEW q \in Seq(Slots), Len(q) <= MaxSlots,
         NEW it, it = [list |-> TRUE, index |-> 1, max_index |-> Len(q)],
         NEW h, h = [told |-> <<>>, stayers |-> Range(q) \ {Null}, exhausted |-> FALSE]
  PROVE  Loop(TRUE, q, it, h)
<1>0. it.list = TRUE /\ it.index = 1 /\ it.max_index = Len(q) /\ h.told = <<>>
      /\ h.stayers = Range(q) \ {Null} /\ h.exhausted = FALSE
  OBVIOUS
<1>1. Len(q) \in Nat /\ Len(h.told) = 0
  BY <1>0
<1>2. Fits(TRUE, q, it)
  BY <1>0, <1>1 DEF Fits
<1>3. StayersAreThere(TRUE, q, it, h)
  <2> SUFFICES ASSUME NEW o \in Range(q)
               PROVE  \E p \in 1 .. Len(q) : p <= it.max_index /\ q[p] = o /\ ~(p < it.index)
    BY <1>0 DEF StayersAreThere
  <2>1. PICK p \in 1 .. Len(q) : q[p] = o
    BY RangeEquality
  <2>2. p <= it.max_index /\ ~(p < it.index)
    BY <1>0, <1>1, <2>1
  <2> QED BY <2>1, <2>2
<1>4. ToldAreBehind(TRUE, q, it, h) /\ \A i, j \in 1 .. Len(h.told) : h.told[i] = h.told[j] => i = j
  BY <1>1 DEF ToldAreBehind
<1>5. EndedIsEmpty(TRUE, q, it, h)
  BY <1>0 DEF EndedIsEmpty
<1> QED BY <1>2, <1>3, <1>4, <1>5 DEF Loop

\* It notifies the first one ahead, who has not been notified ...
LEMMA LoopTells ==
  ASSUME NEW q \in Seq(Slots), Distinct(q), NEW i \in 1 .. Len(q), q[i] # Null,
         NEW it \in Iterators, NEW jt \in Iterators,
         NEW h \in Histories, NEW g \in Histories, Loop(TRUE, q, it, h),
         it.index <= i, i <= it.max_index, \A p \in 1 .. Len(q) : it.index <= p /\ p < i => q[p] = Null,
         jt.list = it.list, jt.index = i + 1, jt.max_index = it.max_index,
         g.told = Append(h.told, q[i]), g.stayers = h.stayers, g.exhausted = h.exhausted
  PROVE  Loop(TRUE, q, jt, g)
<1> DEFINE n == Len(h.told)
<1>0. it.index \in Nat /\ it.max_index \in Nat
  BY DEF Iterators
<1>1. q[i] \in Observers /\ h.told \in Seq(Observers)
  <2>1. q[i] \in Slots
    BY ElementOfSeq
  <2> QED BY <2>1 DEF Slots, Histories
<1>2. n \in Nat /\ Len(g.told) = n + 1 /\ g.told[n + 1] = q[i] /\ \A j \in 1 .. n : g.told[j] = h.told[j]
  BY <1>1, AppendProperties
<1>3. Range(g.told) = Range(h.told) \cup {q[i]}
  BY <1>1, RangeAppend
<1> HIDE DEF n
<1>4. \A j \in 1 .. n : h.told[j] # q[i]
  <2>1. \A j \in 1 .. n : q[i] = h.told[j] => i < it.index \/ it.max_index < i
    BY DEF Loop, ToldAreBehind, n
  <2> QED BY <1>0, <2>1
<1>5. Fits(TRUE, q, jt)
  BY <1>0 DEF Loop, Fits
<1>6. ToldAreBehind(TRUE, q, jt, g)
  <2> SUFFICES ASSUME NEW p \in 1 .. Len(q), NEW j \in 1 .. n + 1, q[p] = g.told[j]
               PROVE  p < i + 1 \/ it.max_index < p
    BY <1>2 DEF ToldAreBehind
  <2>1. CASE j \in 1 .. n
    <3>1. q[p] = h.told[j]
      BY <1>2, <2>1
    <3>2. p < it.index \/ it.max_index < p
      BY <2>1, <3>1 DEF Loop, ToldAreBehind, n
    <3> QED BY <1>0, <3>2
  <2>2. CASE j = n + 1
    <3>1. p = i
      BY <1>2, <2>2 DEF Distinct
    <3> QED BY <3>1
  <2> QED BY <1>2, <2>1, <2>2
<1>7. StayersAreThere(TRUE, q, jt, g)
  <2> SUFFICES ASSUME NEW o \in h.stayers
               PROVE  \E p \in 1 .. Len(q) : p <= it.max_index /\ q[p] = o /\ (p < i + 1 => o \in Range(g.told))
    BY DEF StayersAreThere
  <2>1. PICK p \in 1 .. Len(q) : p <= it.max_index /\ q[p] = o /\ (p < it.index => o \in Range(h.told))
    BY DEF Loop, StayersAreThere
  <2>2. o # Null
    BY ObserverAssumption DEF Histories
  <2>3. ASSUME p < i + 1 PROVE o \in Range(g.told)
    <3>1. CASE p < it.index
      BY <1>3, <2>1, <3>1
    <3>2. CASE it.index <= p /\ p < i
      BY <2>1, <2>2, <3>2
    <3>3. CASE p = i
      BY <1>3, <2>1, <3>3
    <3> QED BY <1>0, <2>3, <3>1, <3>2, <3>3
  <2> QED BY <2>1, <2>3
<1>8. EndedIsEmpty(TRUE, q, jt, g)
  BY <1>0 DEF Loop, EndedIsEmpty
<1>9. \A j, l \in 1 .. n + 1 : g.told[j] = g.told[l] => j = l
  <2> SUFFICES ASSUME NEW j \in 1 .. n + 1, NEW l \in 1 .. n + 1, g.told[j] = g.told[l] PROVE j = l
    OBVIOUS
  <2>1. CASE j \in 1 .. n /\ l \in 1 .. n
    <3>1. h.told[j] = h.told[l]
      BY <1>2, <2>1
    <3> QED BY <2>1, <3>1 DEF Loop, n
  <2>2. CASE j \in 1 .. n /\ l = n + 1
    BY <1>2, <1>4, <2>2
  <2>3. CASE l \in 1 .. n /\ j = n + 1
    BY <1>2, <1>4, <2>3
  <2> QED BY <1>2, <2>1, <2>2, <2>3
<1> QED BY <1>2, <1>5, <1>6, <1>7, <1>8, <1>9 DEF Loop

\* ... until nobody is ahead.
LEMMA LoopEnds ==
  ASSUME NEW a \in BOOLEAN, NEW q \in Seq(Slots), NEW it \in Iterators, NEW jt \in Iterators,
         NEW h \in Histories, NEW g \in Histories, Loop(a, q, it, h),
         a => \A p \in 1 .. Len(q) : it.index <= p /\ p <= it.max_index => q[p] = Null,
         jt.list = it.list, jt.index \in {it.index, it.max_index + 1}, jt.max_index = it.max_index,
         g.told = h.told, g.stayers = h.stayers, g.exhausted = TRUE
  PROVE  Loop(a, q, jt, g)
<1>0. it.index \in Nat /\ it.max_index \in Nat
  BY DEF Iterators
<1>1. it.index <= it.max_index + 1
  BY DEF Loop, Fits
<1>2. Fits(a, q, jt)
  BY <1>0, <1>1 DEF Loop, Fits
<1>3. ToldAreBehind(a, q, jt, g)
  <2> SUFFICES ASSUME a, NEW p \in 1 .. Len(q), NEW i \in 1 .. Len(h.told), q[p] = h.told[i]
               PROVE  p < jt.index \/ it.max_index < p
    BY DEF ToldAreBehind
  <2>1. p < it.index \/ it.max_index < p
    BY DEF Loop, ToldAreBehind
  <2> QED BY <1>0, <1>1, <2>1
<1>4. StayersAreThere(a, q, jt, g)
  <2> SUFFICES ASSUME NEW o \in h.stayers
               PROVE  a /\ \E p \in 1 .. Len(q) : p <= it.max_index /\ q[p] = o /\ (p < jt.index => o \in Range(h.told))
    BY DEF StayersAreThere
  <2>1. a /\ \E p \in 1 .. Len(q) : p <= it.max_index /\ q[p] = o /\ (p < it.index => o \in Range(h.told))
    BY DEF Loop, StayersAreThere
  <2>2. PICK p \in 1 .. Len(q) : p <= it.max_index /\ q[p] = o /\ (p < it.index => o \in Range(h.told))
    BY <2>1
  <2>3. o # Null
    BY ObserverAssumption DEF Histories
  <2>4. p < it.index
    BY <1>0, <2>1, <2>2, <2>3
  <2> QED BY <2>1, <2>2, <2>4
<1>5. EndedIsEmpty(a, q, jt, g)
  BY <1>0, <1>1 DEF EndedIsEmpty
<1>6. \A i, j \in 1 .. Len(g.told) : g.told[i] = g.told[j] => i = j
  BY DEF Loop
<1> QED BY <1>2, <1>3, <1>4, <1>5, <1>6 DEF Loop

\* What Shape says of the elements.
LEMMA Elements ==
  ASSUME Shape
  PROVE  /\ Len(iterators) \in Nat /\ Len(observers) \in Nat
         /\ DOMAIN observers = 1 .. Len(observers)
         /\ DOMAIN iterators = 1 .. Len(iterators) /\ DOMAIN history = 1 .. Len(iterators)
         /\ \A k \in 1 .. Len(iterators) : iterators[k] \in Iterators /\ history[k] \in Histories
<1>1. iterators \in Seq(Iterators) /\ history \in Seq(Histories) /\ Len(history) = Len(iterators) /\ observers \in Seq(Slots)
  BY DEF Shape
<1> QED BY <1>1, LenProperties, ElementOfSeq

\* The record that Left makes of what an iteration has done.
LEMMA LeftType ==
  ASSUME Shape, NEW O, Left(O)
  PROVE  /\ history' \in Seq(Histories) /\ Len(history') = Len(history)
         /\ \A k \in 1 .. Len(iterators) :
              /\ history'[k] \in Histories
              /\ history'[k].told = history[k].told /\ history'[k].stayers = history[k].stayers \ O
              /\ history'[k].exhausted = history[k].exhausted
<1> DEFINE n == Len(iterators)
           f == [k \in 1 .. n |-> [history[k] EXCEPT !.stayers = @ \ O]]
<1>1. n \in Nat /\ DOMAIN history = 1 .. n /\ Len(history) = n /\ \A k \in 1 .. n : history[k] \in Histories
  BY Elements DEF Shape
<1>2. history' = f
  BY <1>1 DEF Left
<1>3. \A k \in 1 .. n : /\ f[k] \in Histories /\ f[k].told = history[k].told
                        /\ f[k].stayers = history[k].stayers \ O /\ f[k].exhausted = history[k].exhausted
  BY <1>1 DEF Histories
<1>4. f \in [1 .. n -> Histories]
  BY <1>3
<1> HIDE DEF f
<1>5. f \in Seq(Histories) /\ Len(f) = n
  <2> HIDE DEF n
  <2> QED BY <1>1, <1>4
<1> QED BY <1>1, <1>2, <1>3, <1>5

\* While it iterates the list changes, and every iteration with it.
LEMMA HoleStep ==
  ASSUME IInv, NEW O, Null \notin O, Left(O), observers' = Hole(observers, O),
         UNCHANGED <<alive, iterators, panicked>>, needs_compact' = TRUE, ~Quiet
  PROVE  IInv'
<1>1. Shape
  BY DEF IInv
<1>2. /\ history' \in Seq(Histories) /\ Len(history') = Len(history)
      /\ \A k \in 1 .. Len(iterators) :
           /\ history'[k] \in Histories
           /\ history'[k].told = history[k].told /\ history'[k].stayers = history[k].stayers \ O
           /\ history'[k].exhausted = history[k].exhausted
  BY <1>1, LeftType
<1>3. /\ observers \in Seq(Slots) /\ observers' \in Seq(Slots) /\ Len(observers') = Len(observers)
      /\ \A i \in 1 .. Len(observers) : observers'[i] = IF observers[i] \in O THEN Null ELSE observers[i]
  BY <1>1, HoleType DEF Shape
<1>4. Shape'
  BY <1>1, <1>2, <1>3 DEF Shape
<1>5. Distinct(observers')
  BY <1>3 DEF IInv, Distinct
<1>6. Holes'
  BY DEF Holes, Quiet
<1>7. Loops'
  <2> SUFFICES ASSUME NEW k \in 1 .. Len(iterators)
               PROVE  Loop(alive, Hole(observers, O), iterators[k], history'[k])
    BY DEF Loops
  <2>1. iterators[k] \in Iterators /\ history[k] \in Histories /\ alive \in BOOLEAN
    BY <1>1, Elements DEF Shape
  <2>2. Loop(alive, observers, iterators[k], history[k])
    BY DEF IInv, Loops
  <2> QED BY <1>2, <1>3, <2>1, <2>2, LoopLeft
<1> QED BY <1>4, <1>5, <1>6, <1>7 DEF IInv

\* Without iterations it is replaced by a dense one.
LEMMA QuietStep ==
  ASSUME IInv, NEW O, Left(O), observers' \in Seq(Observers), Len(observers') <= MaxSlots, Distinct(observers'),
         UNCHANGED <<alive, iterators, panicked, needs_compact>>, Quiet
  PROVE  IInv'
<1>1. Shape
  BY DEF IInv
<1>2. history' \in Seq(Histories) /\ Len(history') = Len(history)
  BY <1>1, LeftType
<1>3. Observers \subseteq Slots
  BY DEF Slots
<1>4. observers' \in Seq(Slots)
  BY <1>3, SeqMonotonic
<1>5. Shape'
  BY <1>1, <1>2, <1>4 DEF Shape
<1>6. Holes'
  <2>1. Null \notin Range(observers')
    BY RangeOfSeq, ObserverAssumption
  <2> QED BY <2>1 DEF IInv, Holes, Quiet
<1>7. Loops'
  <2>1. Len(iterators) = 0
    BY EmptySeq DEF Quiet
  <2> QED BY <2>1 DEF Loops
<1> QED BY <1>5, <1>6, <1>7 DEF IInv

LEMMA AddObserverStep ==
  ASSUME IInv, NEW o \in Observers, AddObserver(o)
  PROVE  IInv'
<1>1. /\ alive /\ o \notin Registered /\ Len(observers) < MaxSlots /\ observers' = Append(observers, o)
      /\ UNCHANGED <<alive, iterators, needs_compact, panicked, history>>
  BY DEF AddObserver, Running
<1>2. Shape /\ observers \in Seq(Slots) /\ o \in Slots /\ o # Null
  BY ObserverAssumption DEF IInv, Shape, Slots
<1>3. /\ observers' \in Seq(Slots) /\ Len(observers) \in Nat /\ Len(observers') = Len(observers) + 1
      /\ observers'[Len(observers) + 1] = o /\ \A i \in 1 .. Len(observers) : observers'[i] = observers[i]
  BY <1>1, <1>2, AppendProperties
<1>4. Shape'
  <2>1. Len(observers') <= MaxSlots
    BY <1>1, <1>3, ObserverAssumption
  <2> QED BY <1>1, <1>2, <1>3, <2>1 DEF Shape
<1>5. Range(observers') = Range(observers) \cup {o}
  BY <1>1, <1>2, RangeAppend
<1>6. Distinct(observers')
  <2>1. \A i \in 1 .. Len(observers) : observers[i] # o
    BY <1>1, <1>2, RangeEquality DEF Registered
  <2> SUFFICES ASSUME NEW i \in 1 .. Len(observers) + 1, NEW j \in 1 .. Len(observers) + 1,
                      observers'[i] = observers'[j], observers'[i] # Null
               PROVE  i = j
    BY <1>3 DEF Distinct
  <2>2. CASE i \in 1 .. Len(observers) /\ j \in 1 .. Len(observers)
    <3>1. observers[i] = observers[j] /\ observers[i] # Null
      BY <1>3, <2>2
    <3> QED BY <2>2, <3>1 DEF IInv, Distinct
  <2>3. CASE i \in 1 .. Len(observers) /\ j = Len(observers) + 1
    BY <1>3, <2>1, <2>3
  <2>4. CASE j \in 1 .. Len(observers) /\ i = Len(observers) + 1
    BY <1>3, <2>1, <2>4
  <2> QED BY <1>3, <2>2, <2>3, <2>4
<1>7. Holes'
  BY <1>1, <1>2, <1>5 DEF IInv, Holes, Quiet
<1>8. Loops'
  <2> SUFFICES ASSUME NEW k \in 1 .. Len(iterators)
               PROVE  Loop(alive, Append(observers, o), iterators[k], history[k])
    BY <1>1 DEF Loops
  <2>1. iterators[k] \in Iterators /\ history[k] \in Histories /\ alive \in BOOLEAN
    BY <1>2, Elements DEF Shape
  <2>2. Loop(alive, observers, iterators[k], history[k])
    BY DEF IInv, Loops
  <2> QED BY <1>1, <1>2, <2>1, <2>2, LoopJoined
<1> QED BY <1>4, <1>6, <1>7, <1>8 DEF IInv

LEMMA HoleDistinct ==
  ASSUME NEW q \in Seq(Slots), NEW O, Distinct(q)
  PROVE  Distinct(Hole(q, O))
BY HoleType DEF Distinct

LEMMA RemoveObserverStep ==
  ASSUME IInv, NEW o \in Observers, RemoveObserver(o)
  PROVE  IInv'
<1> DEFINE h == Hole(observers, {o})
<1>1. Shape /\ observers \in Seq(Slots) /\ Null \notin {o} /\ Distinct(observers) /\ Len(observers) <= MaxSlots
  BY ObserverAssumption DEF IInv, Shape
<1>2. Left({o}) /\ UNCHANGED <<alive, iterators, panicked>>
  BY DEF RemoveObserver
<1>3. h \in Seq(Slots) /\ Len(h) = Len(observers) /\ Distinct(h)
  BY <1>1, HoleType, HoleDistinct
<1>4. CASE Quiet
  <2>1. observers' = Closed(h) /\ UNCHANGED needs_compact
    BY <1>4 DEF RemoveObserver
  <2> HIDE DEF h
  <2>2. Closed(h) \in Seq(Observers) /\ Len(Closed(h)) <= Len(h) /\ Distinct(Closed(h))
    BY <1>3, ClosedType, ClosedDistinct
  <2>3. Len(Closed(h)) <= MaxSlots
    <3>1. Len(Closed(h)) \in Nat /\ Len(h) \in Nat
      BY <1>3, <2>2, LenProperties
    <3> QED BY <1>1, <1>3, <2>2, <3>1, ObserverAssumption
  <2> QED BY <1>2, <1>4, <2>1, <2>2, <2>3, QuietStep
<1>5. CASE ~Quiet
  <2>1. observers' = h /\ needs_compact' = TRUE
    BY <1>5 DEF RemoveObserver
  <2> QED BY <1>1, <1>2, <1>5, <2>1, HoleStep
<1> QED BY <1>4, <1>5

LEMMA ClearStep ==
  ASSUME IInv, Clear
  PROVE  IInv'
<1>1. Null \notin Observers /\ Left(Observers) /\ UNCHANGED <<alive, iterators, panicked>>
  BY ObserverAssumption DEF Clear
<1>2. CASE Quiet
  <2>1. observers' = <<>> /\ UNCHANGED needs_compact
    BY <1>2 DEF Clear
  <2>2. <<>> \in Seq(Observers) /\ Len(<<>>) = 0 /\ 0 <= MaxSlots
    BY EmptySeq, ObserverAssumption
  <2>3. Distinct(<<>>)
    BY <2>2 DEF Distinct
  <2> QED BY <1>1, <1>2, <2>1, <2>2, <2>3, QuietStep
<1>3. CASE ~Quiet
  <2>1. observers' = Hole(observers, Observers) /\ needs_compact' = TRUE
    BY <1>3 DEF Clear
  <2> QED BY <1>1, <1>3, <2>1, HoleStep
<1> QED BY <1>2, <1>3

LEMMA RemoveUnknownStep ==
  ASSUME IInv, NEW o \in Observers, RemoveUnknown(o)
  PROVE  IInv'
<1>1. panicked' = TRUE /\ UNCHANGED <<alive, observers, iterators, needs_compact, history>>
  BY DEF RemoveUnknown
<1>2. Shape'
  BY <1>1 DEF IInv, Shape
<1>3. Holes'
  BY <1>1 DEF IInv, Holes, Quiet
<1>4. Loops'
  BY <1>1 DEF IInv, Loops
<1> QED BY <1>1, <1>2, <1>3, <1>4 DEF IInv

LEMMA DestroyStep ==
  ASSUME IInv, Destroy
  PROVE  IInv'
<1> DEFINE n == Len(iterators)
           f == [k \in 1 .. n |-> [iterators[k] EXCEPT !.list = FALSE]]
<1>1. /\ alive' = FALSE /\ observers' = <<>> /\ Left(Observers) /\ UNCHANGED <<needs_compact, panicked>>
      /\ iterators' = [k \in DOMAIN iterators |-> [iterators[k] EXCEPT !.list = FALSE]]
  BY DEF Destroy
<1>2. Shape
  BY DEF IInv
<1>3. /\ n \in Nat /\ DOMAIN iterators = 1 .. n /\ alive \in BOOLEAN
      /\ \A k \in 1 .. n : iterators[k] \in Iterators /\ history[k] \in Histories
  BY <1>2, Elements DEF Shape
<1>4. iterators' = f
  BY <1>1, <1>3
<1>5. \A k \in 1 .. n : /\ f[k] \in Iterators /\ f[k].list = FALSE
                        /\ f[k].index = iterators[k].index /\ f[k].max_index = iterators[k].max_index
  BY <1>3 DEF Iterators
<1>6. f \in Seq(Iterators) /\ Len(f) = n
  <2>1. f \in [1 .. n -> Iterators]
    BY <1>5
  <2> HIDE DEF f, n
  <2> QED BY <1>3, <2>1
<1> HIDE DEF f
<1>7. /\ history' \in Seq(Histories) /\ Len(history') = Len(history)
      /\ \A k \in 1 .. n :
           /\ history'[k] \in Histories
           /\ history'[k].told = history[k].told /\ history'[k].stayers = history[k].stayers \ Observers
           /\ history'[k].exhausted = history[k].exhausted
  BY <1>1, <1>2, LeftType
<1>8. Shape'
  <2>1. <<>> \in Seq(Slots) /\ Len(<<>>) = 0 /\ 0 <= MaxSlots
    BY EmptySeq, ObserverAssumption
  <2> QED BY <1>1, <1>2, <1>4, <1>6, <1>7, <2>1 DEF Shape
<1>9. Distinct(observers')
  BY <1>1 DEF Distinct
<1>10. Holes'
  BY <1>1 DEF Holes
<1>11. Loops'
  <2> SUFFICES ASSUME NEW k \in 1 .. n
               PROVE  Loop(FALSE, observers', f[k], history'[k])
    BY <1>1, <1>4, <1>6 DEF Loops
  <2>1. Loop(alive, observers, iterators[k], history[k])
    BY DEF IInv, Loops
  <2>2. history'[k].stayers = {}
    BY <1>3, <1>7 DEF Histories
  <2> QED BY <1>3, <1>5, <1>7, <2>1, <2>2, LoopCutOff
<1> QED BY <1>8, <1>9, <1>10, <1>11 DEF IInv

LEMMA BeginStep ==
  ASSUME IInv, Begin
  PROVE  IInv'
<1> DEFINE n == Len(iterators)
           it == [list |-> TRUE, index |-> 1, max_index |-> Len(observers)]
           h == [told |-> <<>>, stayers |-> Range(observers) \ {Null}, exhausted |-> FALSE]
<1>1. /\ alive /\ n < MaxDepth /\ iterators' = Append(iterators, it) /\ history' = Append(history, h)
      /\ UNCHANGED <<alive, observers, needs_compact, panicked>>
  BY DEF Begin, Running, Inner, Registered
<1>2. Shape /\ observers \in Seq(Slots) /\ Len(observers) <= MaxSlots /\ n \in Nat /\ Len(observers) \in Nat
      /\ iterators \in Seq(Iterators) /\ history \in Seq(Histories) /\ Len(history) = n
  BY Elements DEF IInv, Shape
<1>3. it \in Iterators
  BY <1>2 DEF Iterators
<1>4. h \in Histories
  <2>1. Range(observers) \ {Null} \subseteq Observers
    BY <1>2, RangeOfSeq DEF Slots
  <2> QED BY <2>1, EmptySeq DEF Histories
<1>5. Loop(TRUE, observers, it, h)
  BY <1>2, LoopBegins
<1> HIDE DEF it, h
<1>6. /\ iterators' \in Seq(Iterators) /\ Len(iterators') = n + 1 /\ iterators'[n + 1] = it
      /\ \A k \in 1 .. n : iterators'[k] = iterators[k]
  BY <1>1, <1>2, <1>3, AppendProperties
<1>7. /\ history' \in Seq(Histories) /\ Len(history') = n + 1 /\ history'[n + 1] = h
      /\ \A k \in 1 .. n : history'[k] = history[k]
  BY <1>1, <1>2, <1>4, AppendProperties
<1>8. Shape'
  <2>1. n + 1 <= MaxDepth
    BY <1>1, <1>2, ObserverAssumption
  <2> QED BY <1>1, <1>2, <1>6, <1>7, <2>1 DEF Shape
<1>9. Holes'
  <2>1. iterators' # <<>>
    BY <1>2, <1>6, EmptySeq
  <2> QED BY <1>1, <2>1 DEF IInv, Holes, Quiet
<1>10. Loops'
  <2> SUFFICES ASSUME NEW k \in 1 .. n + 1
               PROVE  Loop(alive, observers, iterators'[k], history'[k])
    BY <1>1, <1>6 DEF Loops
  <2>1. CASE k \in 1 .. n
    BY <1>6, <1>7, <2>1 DEF IInv, Loops
  <2>2. CASE k = n + 1
    BY <1>1, <1>2, <1>5, <1>6, <1>7, <2>2 DEF Shape
  <2> QED BY <1>2, <2>1, <2>2
<1> QED BY <1>1, <1>8, <1>9, <1>10 DEF IInv

\* The innermost iterator moves, the others stay where they are.
LEMMA InnerStep ==
  ASSUME IInv, NEW n, n = Len(iterators), iterators # <<>>,
         NEW jt \in Iterators, NEW g \in Histories, Loop(alive, observers, jt, g),
         iterators' = [iterators EXCEPT ![n] = jt], history' = [history EXCEPT ![n] = g],
         UNCHANGED <<alive, observers, needs_compact, panicked>>
  PROVE  IInv'
<1>1. Shape /\ iterators \in Seq(Iterators) /\ history \in Seq(Histories) /\ Len(history) = n
  BY DEF IInv, Shape
<1>2. n \in 1 .. n /\ n \in Nat
  BY <1>1, EmptySeq
<1>3. /\ iterators' \in Seq(Iterators) /\ Len(iterators') = n
      /\ \A k \in 1 .. n : iterators'[k] = IF k = n THEN jt ELSE iterators[k]
  BY <1>1, <1>2, ExceptSeq
<1>4. /\ history' \in Seq(Histories) /\ Len(history') = n
      /\ \A k \in 1 .. n : history'[k] = IF k = n THEN g ELSE history[k]
  BY <1>1, <1>2, ExceptSeq
<1>5. Shape'
  BY <1>1, <1>3, <1>4 DEF Shape
<1>6. Holes'
  <2>1. iterators' # <<>>
    BY <1>2, <1>3, EmptySeq
  <2> QED BY <2>1 DEF IInv, Holes, Quiet
<1>7. Loops'
  <2> SUFFICES ASSUME NEW k \in 1 .. n
               PROVE  Loop(alive, observers, iterators'[k], history'[k])
    BY <1>3 DEF Loops
  <2>1. CASE k = n
    BY <1>3, <1>4, <2>1
  <2>2. CASE k # n
    BY <1>3, <1>4, <2>2 DEF IInv, Loops
  <2> QED BY <2>1, <2>2
<1> QED BY <1>5, <1>6, <1>7 DEF IInv

\* The first position ahead of an iterator.
LEMMA FirstAhead ==
  ASSUME Shape, NEW it \in Iterators, Reach(it) # {}, NEW i,
         i = CHOOSE j \in Reach(it) : \A k \in Reach(it) : j <= k
  PROVE  /\ i \in 1 .. Len(observers) /\ observers[i] # Null /\ it.index <= i /\ i <= it.max_index
         /\ \A p \in 1 .. Len(observers) : it.index <= p /\ p < i => observers[p] = Null
<1>1. DOMAIN observers = 1 .. Len(observers) /\ Len(observers) \in Nat
  BY Elements
<1>2. Reach(it) = {p \in 1 .. Len(observers) : it.index <= p /\ p <= it.max_index /\ observers[p] # Null}
  BY <1>1 DEF Reach
<1>3. \E j \in Reach(it) : \A k \in Reach(it) : j <= k
  <2>1. Reach(it) \in SUBSET Nat
    BY <1>2
  <2> QED BY <2>1, Least
<1>4. i \in Reach(it) /\ \A k \in Reach(it) : i <= k
  BY <1>3
<1>5. it.index \in Nat /\ it.max_index \in Nat
  BY DEF Iterators
<1>6. ASSUME NEW p \in 1 .. Len(observers), it.index <= p, p < i PROVE observers[p] = Null
  <2>1. i \in 1 .. Len(observers) /\ i <= it.max_index
    BY <1>2, <1>4
  <2>2. p <= it.max_index /\ ~(i <= p)
    BY <1>1, <1>5, <1>6, <2>1
  <2> QED BY <1>2, <1>4, <1>6, <2>2
<1> QED BY <1>2, <1>4, <1>6

LEMMA TryGetNextStep ==
  ASSUME IInv, TryGetNext
  PROVE  IInv'
<1> DEFINE n == Len(iterators)
           it == iterators[n]
           h == history[n]
           i == CHOOSE j \in Reach(it) : \A k \in Reach(it) : j <= k
           jt == [it EXCEPT !.index = i + 1]
           g == [h EXCEPT !.told = Append(@, observers[i])]
<1>1. /\ iterators # <<>> /\ it.list /\ Reach(it) # {}
      /\ iterators' = [iterators EXCEPT ![n].index = i + 1]
      /\ history' = [history EXCEPT ![n].told = Append(@, observers[i])]
      /\ UNCHANGED <<alive, observers, needs_compact, panicked>>
  BY DEF TryGetNext, Inner
<1>2. /\ Shape /\ observers \in Seq(Slots) /\ alive \in BOOLEAN /\ Distinct(observers)
      /\ iterators \in Seq(Iterators) /\ history \in Seq(Histories) /\ Len(history) = n
  BY DEF IInv, Shape
<1>3. n \in 1 .. n /\ it \in Iterators /\ h \in Histories
  <2>1. n \in 1 .. n
    BY <1>1, <1>2, EmptySeq
  <2> QED BY <1>2, <2>1, Elements
<1>4. Loop(alive, observers, it, h)
  BY <1>3 DEF IInv, Loops
<1>5. alive = TRUE
  BY <1>1, <1>2, <1>4 DEF Loop, Fits
<1>6. /\ i \in 1 .. Len(observers) /\ observers[i] # Null /\ it.index <= i /\ i <= it.max_index
      /\ \A p \in 1 .. Len(observers) : it.index <= p /\ p < i => observers[p] = Null
  <2> HIDE DEF it
  <2> QED BY <1>1, <1>2, <1>3, FirstAhead
<1>7. iterators' = [iterators EXCEPT ![n] = jt] /\ history' = [history EXCEPT ![n] = g]
  BY <1>1
<1> HIDE DEF i
<1>8. jt \in Iterators /\ jt.list = it.list /\ jt.index = i + 1 /\ jt.max_index = it.max_index
  BY <1>3, <1>6 DEF Iterators
<1>9. g \in Histories /\ g.told = Append(h.told, observers[i]) /\ g.stayers = h.stayers /\ g.exhausted = h.exhausted
  <2>1. observers[i] \in Observers
    BY <1>2, <1>6, ElementOfSeq DEF Slots
  <2> HIDE DEF h
  <2>2. h.told \in Seq(Observers)
    BY <1>3 DEF Histories
  <2>3. Append(h.told, observers[i]) \in Seq(Observers)
    BY <2>1, <2>2, AppendProperties
  <2> QED BY <1>3, <2>3 DEF Histories
<1> HIDE DEF it, jt, h, g
<1>10. Loop(TRUE, observers, jt, g)
  BY <1>2, <1>3, <1>4, <1>5, <1>6, <1>8, <1>9, LoopTells
<1> HIDE DEF n
<1> QED BY <1>1, <1>5, <1>7, <1>8, <1>9, <1>10, InnerStep DEF n

LEMMA TryGetNextEndsStep ==
  ASSUME IInv, TryGetNextEnds
  PROVE  IInv'
<1> DEFINE n == Len(iterators)
           it == iterators[n]
           h == history[n]
           limit == IF it.max_index < Len(observers) THEN it.max_index ELSE Len(observers)
           jt == IF it.list /\ it.index <= limit THEN [it EXCEPT !.index = limit + 1] ELSE it
           g == [h EXCEPT !.exhausted = TRUE]
<1>1. /\ iterators # <<>> /\ (it.list => Reach(it) = {})
      /\ iterators' = IF it.list /\ it.index <= limit
                      THEN [iterators EXCEPT ![n].index = limit + 1] ELSE iterators
      /\ history' = [history EXCEPT ![n].exhausted = TRUE]
      /\ UNCHANGED <<alive, observers, needs_compact, panicked>>
  BY DEF TryGetNextEnds, Inner
<1>2. /\ Shape /\ observers \in Seq(Slots) /\ alive \in BOOLEAN /\ Len(observers) \in Nat
      /\ iterators \in Seq(Iterators) /\ history \in Seq(Histories) /\ Len(history) = n
  BY Elements DEF IInv, Shape
<1>3. n \in 1 .. n /\ it \in Iterators /\ h \in Histories
  <2>1. n \in 1 .. n
    BY <1>1, <1>2, EmptySeq
  <2> QED BY <1>2, <2>1, Elements
<1>4. Loop(alive, observers, it, h)
  BY <1>3 DEF IInv, Loops
<1>5. alive = it.list /\ it.index \in Nat \ {0} /\ it.max_index \in Nat /\ (alive => limit = it.max_index)
  BY <1>2, <1>3, <1>4 DEF Loop, Fits, Iterators
<1>6. iterators' = [iterators EXCEPT ![n] = jt]
  <2>1. CASE it.list /\ it.index <= limit
    BY <1>1, <2>1
  <2>2. CASE ~(it.list /\ it.index <= limit)
    <3>1. iterators = [iterators EXCEPT ![n] = iterators[n]]
      BY <1>2, <1>3
    <3> QED BY <1>1, <2>2, <3>1
  <2> QED BY <2>1, <2>2
<1>7. history' = [history EXCEPT ![n] = g]
  BY <1>1
<1>8. /\ jt \in Iterators /\ jt.list = it.list
      /\ jt.index \in {it.index, it.max_index + 1} /\ jt.max_index = it.max_index
  <2>1. CASE it.list /\ it.index <= limit
    <3>1. jt = [it EXCEPT !.index = it.max_index + 1]
      BY <1>5, <2>1
    <3> HIDE DEF jt, it, limit
    <3>2. jt \in Iterators /\ jt.list = it.list /\ jt.index = it.max_index + 1 /\ jt.max_index = it.max_index
      BY <1>3, <3>1 DEF Iterators
    <3> QED BY <3>2
  <2>2. CASE ~(it.list /\ it.index <= limit)
    BY <1>3, <2>2
  <2> QED BY <2>1, <2>2
<1>9. g \in Histories /\ g.told = h.told /\ g.stayers = h.stayers /\ g.exhausted = TRUE
  BY <1>3 DEF Histories
<1>10. alive => \A p \in 1 .. Len(observers) : it.index <= p /\ p <= it.max_index => observers[p] = Null
  <2>1. DOMAIN observers = 1 .. Len(observers)
    BY <1>2, LenProperties
  <2> HIDE DEF it
  <2> QED BY <1>1, <1>5, <2>1 DEF Reach, it
<1> HIDE DEF it, jt, h, g, limit
<1>11. Loop(alive, observers, jt, g)
  BY <1>2, <1>3, <1>4, <1>8, <1>9, <1>10, LoopEnds
<1> HIDE DEF n
<1> QED BY <1>1, <1>6, <1>7, <1>8, <1>9, <1>11, InnerStep DEF n

LEMMA FrontOf ==
  ASSUME NEW T, NEW q \in Seq(T), q # <<>>
  PROVE  /\ Front(q) \in Seq(T) /\ Len(Front(q)) = Len(q) - 1
         /\ \A k \in 1 .. Len(q) - 1 : Front(q)[k] = q[k]
<1> DEFINE m == Len(q) - 1
           f == SubSeq(q, 1, m)
<1>1. m \in Nat /\ \A k \in 1 .. m : q[k] \in T
  BY EmptySeq, ElementOfSeq
<1>2. Front(q) = f
  BY DEF Front
<1> HIDE DEF m
<1>3. 1 \in Int /\ m \in Int
  BY <1>1
<1>4. f \in Seq(T) /\ Len(f) = (IF 1 <= m THEN m - 1 + 1 ELSE 0) /\ \A k \in 1 .. m - 1 + 1 : f[k] = q[1 + k - 1]
  BY <1>1, <1>3, SubSeqProperties
<1> HIDE DEF f
<1>5. Len(f) = m /\ \A k \in 1 .. m : f[k] = q[k]
  BY <1>1, <1>4
<1> QED BY <1>2, <1>4, <1>5 DEF m

LEMMA EndStep ==
  ASSUME IInv, End
  PROVE  IInv'
<1> DEFINE n == Len(iterators)
           closes == iterators[n].list /\ n = 1 /\ needs_compact
<1>1. /\ iterators # <<>> /\ iterators' = Front(iterators) /\ history' = Front(history)
      /\ UNCHANGED <<alive, panicked>>
  BY DEF End
<1>2. /\ closes => observers' = Closed(observers) /\ needs_compact' = FALSE
      /\ ~closes => UNCHANGED <<observers, needs_compact>>
  BY DEF End, Inner
<1>3. /\ Shape /\ observers \in Seq(Slots) /\ alive \in BOOLEAN /\ needs_compact \in BOOLEAN
      /\ iterators \in Seq(Iterators) /\ history \in Seq(Histories) /\ Len(history) = n /\ n <= MaxDepth
  BY DEF IInv, Shape
<1>4. n \in Nat \ {0} /\ n \in 1 .. n /\ history # <<>>
  <2>1. n \in Nat \ {0}
    BY <1>1, <1>3, EmptySeq
  <2>2. Len(<<>>) = 0
    BY EmptySeq
  <2> QED BY <1>3, <2>1, <2>2
<1>5. iterators[n].list = alive
  BY <1>4 DEF IInv, Loops, Loop, Fits
<1> HIDE DEF closes
<1>6. /\ iterators' \in Seq(Iterators) /\ Len(iterators') = n - 1
      /\ \A k \in 1 .. n - 1 : iterators'[k] = iterators[k]
  BY <1>1, <1>3, FrontOf
<1>7. /\ history' \in Seq(Histories) /\ Len(history') = n - 1
      /\ \A k \in 1 .. n - 1 : history'[k] = history[k]
  BY <1>1, <1>3, <1>4, FrontOf
<1> HIDE DEF n
<1>8. Quiet' => n = 1
  <2>1. Quiet' => Len(iterators') = 0
    BY EmptySeq DEF Quiet
  <2> QED BY <1>4, <1>6, <2>1
<1>9. n - 1 <= MaxDepth
  BY <1>3, <1>4, ObserverAssumption
<1>10. CASE closes
  <2>1. observers' = Closed(observers) /\ needs_compact' = FALSE /\ n = 1
    BY <1>2, <1>10 DEF closes
  <2>2. /\ observers' \in Seq(Observers) /\ Len(observers') <= Len(observers)
        /\ Range(observers') = Range(observers) \ {Null}
    BY <1>3, <2>1, ClosedType
  <2>3. observers' \in Seq(Slots)
    <3>1. Observers \subseteq Slots
      BY DEF Slots
    <3> QED BY <2>2, <3>1, SeqMonotonic
  <2>4. Len(observers') <= MaxSlots
    <3>1. Len(observers') \in Nat /\ Len(observers) \in Nat /\ Len(observers) <= MaxSlots
      BY <1>3, <2>2, LenProperties DEF Shape
    <3> QED BY <2>2, <3>1, ObserverAssumption
  <2>5. Shape'
    BY <1>1, <1>3, <1>6, <1>7, <1>9, <2>1, <2>3, <2>4 DEF Shape
  <2>6. Distinct(observers')
    BY <1>3, <2>1, ClosedDistinct DEF IInv
  <2>7. Holes'
    BY <2>1, <2>2 DEF Holes
  <2>8. Loops'
    <3>1. Len(iterators') = 0
      BY <1>6, <2>1
    <3> QED BY <3>1 DEF Loops
  <2> QED BY <2>5, <2>6, <2>7, <2>8 DEF IInv
<1>11. CASE ~closes
  <2>1. UNCHANGED <<observers, needs_compact>>
    BY <1>2, <1>11
  <2>2. Shape'
    BY <1>1, <1>3, <1>6, <1>7, <1>9, <2>1 DEF Shape
  <2>3. Distinct(observers')
    BY <2>1 DEF IInv
  <2>4. Holes'
    <3>1. alive /\ Null \in Range(observers) => needs_compact
      BY DEF IInv, Holes
    <3>2. alive /\ Quiet' => ~needs_compact
      BY <1>5, <1>8, <1>11 DEF closes
    <3> QED BY <1>1, <2>1, <3>1, <3>2 DEF Holes
  <2>5. Loops'
    <3> SUFFICES ASSUME NEW k \in 1 .. n - 1
                 PROVE  Loop(alive, observers, iterators'[k], history'[k])
      BY <1>1, <1>6, <2>1 DEF Loops
    <3>1. k \in 1 .. Len(iterators)
      BY <1>4 DEF n
    <3> QED BY <1>6, <1>7, <3>1 DEF IInv, Loops
  <2> QED BY <2>2, <2>3, <2>4, <2>5 DEF IInv
<1> QED BY <1>10, <1>11

LEMMA InitHolds ==
  ASSUME Init
  PROVE  IInv
<1>1. /\ <<>> \in Seq(Slots) /\ <<>> \in Seq(Iterators) /\ <<>> \in Seq(Histories)
      /\ Len(<<>>) = 0 /\ 0 <= MaxSlots /\ 0 <= MaxDepth
  BY EmptySeq, ObserverAssumption
<1>2. Shape
  BY <1>1 DEF Init, Shape
<1>3. Distinct(observers) /\ Loops
  BY <1>1 DEF Init, Distinct, Loops
<1>4. Holes
  BY DEF Init, Holes, Range
<1> QED BY <1>2, <1>3, <1>4 DEF IInv

LEMMA NextHolds ==
  ASSUME IInv, [Next]_vars
  PROVE  IInv'
<1>1. ASSUME NEW o \in Observers, AddObserver(o) PROVE IInv'
  BY <1>1, AddObserverStep
<1>2. ASSUME NEW o \in Observers, RemoveObserver(o) PROVE IInv'
  BY <1>2, RemoveObserverStep
<1>3. ASSUME NEW o \in Observers, RemoveUnknown(o) PROVE IInv'
  BY <1>3, RemoveUnknownStep
<1>4. CASE Clear
  BY <1>4, ClearStep
<1>5. CASE Destroy
  BY <1>5, DestroyStep
<1>6. CASE Begin
  BY <1>6, BeginStep
<1>7. CASE TryGetNext
  BY <1>7, TryGetNextStep
<1>8. CASE TryGetNextEnds
  BY <1>8, TryGetNextEndsStep
<1>9. CASE End
  BY <1>9, EndStep
<1>10. CASE UNCHANGED vars
  <2>1. Shape'
    BY <1>10 DEF IInv, Shape, vars
  <2>2. Holes'
    BY <1>10 DEF IInv, Holes, Quiet, vars
  <2>3. Distinct(observers') /\ Loops'
    BY <1>10 DEF IInv, Loops, vars
  <2> QED BY <2>1, <2>2, <2>3 DEF IInv
<1> QED BY <1>1, <1>2, <1>3, <1>4, <1>5, <1>6, <1>7, <1>8, <1>9, <1>10 DEF Next

\* Every iterator fits its list, has told everybody behind it who was there all
\* the time, and nobody in its reach ahead (addObserver to Iterator::~Iterator).
THEOREM Invariant == Spec => []IInv
<1>1. Init => IInv
  BY InitHolds
<1>2. IInv /\ [Next]_vars => IInv'
  BY NextHolds
<1> QED BY <1>1, <1>2, PTL DEF Spec

------------------------------------------------------------------------------
(* The safety invariants. *)

\* When the last iterator is gone the list has no hole, and no flag that says so
\* (compact, called by Iterator::~Iterator).
THEOREM ListGetsDense == Spec => []HolesAreTemporary
<1>1. IInv => HolesAreTemporary
  <2> SUFFICES ASSUME IInv PROVE HolesAreTemporary
    OBVIOUS
  <2>1. Shape
    BY DEF IInv
  <2>2. TypeOK
    <3>1. Range(observers) \subseteq Observers \cup {Null}
      BY <2>1, RangeOfSeq DEF Shape, Slots
    <3>2. ASSUME NEW k \in DOMAIN iterators
          PROVE  iterators[k] \in [list : BOOLEAN, index : 1 .. (iterators[k].max_index + 1), max_index : 0 .. MaxSlots]
      <4> DEFINE it == iterators[k]
      <4>1. k \in 1 .. Len(iterators) /\ it \in Iterators
        BY <2>1, <3>2, Elements
      <4>2. it.index <= it.max_index + 1 /\ it.max_index <= MaxSlots
        BY <4>1 DEF IInv, Loops, Loop, Fits
      <4> HIDE DEF it
      <4>3. it \in [list : BOOLEAN, index : 1 .. (it.max_index + 1), max_index : 0 .. MaxSlots]
        BY <4>1, <4>2, ObserverAssumption DEF Iterators
      <4> QED BY <4>3 DEF it
    <3> QED BY <2>1, <3>1, <3>2 DEF TypeOK, Shape
  <2> QED BY <2>2 DEF HolesAreTemporary, Holes, IInv
<1> QED BY <1>1, Invariant, PTL

\* Changing the list from inside a loop neither repeats nor skips anybody who
\* stays (Iterator::tryGetNext, removeObserver).
THEOREM LoopsReachEveryone == Spec => []StayersAreToldOnce
<1>1. IInv => StayersAreToldOnce
  <2> SUFFICES ASSUME IInv, NEW k \in 1 .. Len(iterators)
               PROVE  /\ IsInjective(history[k].told)
                      /\ history[k].exhausted => history[k].stayers \subseteq Range(history[k].told)
    BY Elements DEF StayersAreToldOnce, IInv
  <2> DEFINE it == iterators[k]
             h == history[k]
  <2>1. it \in Iterators /\ h \in Histories /\ alive \in BOOLEAN
    BY Elements DEF IInv, Shape
  <2>2. Loop(alive, observers, it, h)
    BY DEF IInv, Loops
  <2> HIDE DEF it, h
  <2>3. IsInjective(h.told)
    <3>1. DOMAIN h.told = 1 .. Len(h.told)
      BY <2>1, LenProperties DEF Histories
    <3> QED BY <2>2, <3>1 DEF IsInjective, Loop
  <2>4. ASSUME h.exhausted, NEW o \in h.stayers PROVE o \in Range(h.told)
    <3>1. alive
      BY <2>2, <2>4 DEF Loop, StayersAreThere
    <3>2. PICK p \in 1 .. Len(observers) :
            p <= it.max_index /\ observers[p] = o /\ (p < it.index => o \in Range(h.told))
      BY <2>2, <2>4 DEF Loop, StayersAreThere
    <3>3. o # Null
      BY <2>1, <2>4, ObserverAssumption DEF Histories
    <3>4. ~(it.index <= p)
      BY <2>2, <2>4, <3>1, <3>2, <3>3 DEF Loop, EndedIsEmpty
    <3>5. it.index \in Nat
      BY <2>1 DEF Iterators
    <3> QED BY <3>2, <3>4, <3>5
  <2> QED BY <2>3, <2>4 DEF h
<1> QED BY <1>1, Invariant, PTL

------------------------------------------------------------------------------
(* The refinement. *)

\* What the iteration of it over q has still to notify.
Owed(q, it) ==
  IF it.list
  THEN Closed(SubSeq(q, it.index, IF it.max_index < Len(q) THEN it.max_index ELSE Len(q)))
  ELSE <<>>

DebtsOf(q, its) == [k \in DOMAIN its |-> Owed(q, its[k])]

Listed == Closed(observers)
Debts == DebtsOf(observers, iterators)

\* The actions of the contract in terms of the two.
LEMMA ContractWithout ==
  ASSUME NEW q, NEW O
  PROVE  Contract!Without(q, O) = Without(q, O)
BY DEF Contract!Without, Without

LEMMA ContractAdd ==
  ASSUME NEW o \in Observers, o \notin Range(Listed), Listed' = Append(Listed, o), Debts' = Debts
  PROVE  Contract!Next
<1>1. Contract!Add(o)
  BY DEF Contract!Add, Contract!Elements, Range, Listed, Debts, DebtsOf, Owed
<1> QED BY <1>1 DEF Contract!Next

LEMMA ContractLeave ==
  ASSUME NEW O, O = Observers \/ \E o \in Observers : O = {o},
         Listed' = Without(Listed, O), Debts' = [k \in DOMAIN Debts |-> Without(Debts[k], O)]
  PROVE  Contract!Next
<1>1. Contract!Leave(O)
  BY ContractWithout DEF Contract!Leave, Listed, Debts, DebtsOf, Owed
<1> QED BY <1>1 DEF Contract!Next

LEMMA ContractBegin ==
  ASSUME Listed' = Listed, Debts' = Append(Debts, Listed)
  PROVE  Contract!Next
<1>1. Contract!Begin
  BY Zenon DEF Contract!Begin, Listed, Debts, DebtsOf, Owed
<1> QED BY <1>1 DEF Contract!Next

LEMMA ContractNotify ==
  ASSUME NEW o \in Observers, Debts # <<>>, Debts[Len(Debts)] # <<>>, o = Head(Debts[Len(Debts)]),
         Listed' = Listed, Debts' = [Debts EXCEPT ![Len(Debts)] = Tail(@)]
  PROVE  Contract!Next
<1>1. Contract!Notify(o)
  BY Zenon DEF Contract!Notify, Contract!Last, Listed, Debts, DebtsOf, Owed
<1> QED BY <1>1 DEF Contract!Next

LEMMA ContractEnd ==
  ASSUME Debts # <<>>, Listed' = Listed, Debts' = SubSeq(Debts, 1, Len(Debts) - 1)
  PROVE  Contract!Next
<1>1. Contract!End
  BY DEF Contract!End, Contract!Last, Listed, Debts, DebtsOf, Owed
<1> QED BY <1>1 DEF Contract!Next

LEMMA OwedType ==
  ASSUME NEW q \in Seq(Slots), NEW it \in Iterators
  PROVE  Owed(q, it) \in Seq(Observers)
<1> DEFINE limit == IF it.max_index < Len(q) THEN it.max_index ELSE Len(q)
           w == SubSeq(q, it.index, limit)
<1>1. Len(q) \in Nat /\ \A i \in 1 .. Len(q) : q[i] \in Slots
  BY ElementOfSeq, LenProperties
<1>2. it.index \in Int /\ limit \in Int /\ \A i \in it.index .. limit : q[i] \in Slots
  BY <1>1 DEF Iterators
<1> HIDE DEF limit
<1>3. w \in Seq(Slots)
  BY <1>2, SubSeqProperties
<1> HIDE DEF w
<1>4. Closed(w) \in Seq(Observers) /\ <<>> \in Seq(Observers)
  BY <1>3, ClosedType, EmptySeq
<1> QED BY <1>4 DEF Owed, w, limit

\* Within the list its reach is what it had at first.
LEMMA OwedWindow ==
  ASSUME NEW q \in Seq(Slots), NEW it \in Iterators, it.list, it.max_index <= Len(q)
  PROVE  Owed(q, it) = Closed(SubSeq(q, it.index, it.max_index))
<1>1. Len(q) \in Nat /\ it.max_index \in Nat
  BY LenProperties DEF Iterators
<1>2. (IF it.max_index < Len(q) THEN it.max_index ELSE Len(q)) = it.max_index
  BY <1>1
<1> QED BY <1>2 DEF Owed

LEMMA OwedJoined ==
  ASSUME NEW a \in BOOLEAN, NEW q \in Seq(Slots), NEW x \in Slots, NEW it \in Iterators, Fits(a, q, it)
  PROVE  Owed(Append(q, x), it) = Owed(q, it)
<1>1. CASE ~it.list
  BY <1>1 DEF Owed
<1>2. CASE it.list
  <2> DEFINE r == Append(q, x)
             b == it.index
             m == it.max_index
  <2>1. /\ Len(q) \in Nat /\ r \in Seq(Slots) /\ Len(r) = Len(q) + 1 /\ \A i \in 1 .. Len(q) : r[i] = q[i] /\ q[i] \in Slots
    BY AppendProperties, ElementOfSeq, LenProperties
  <2>2. b \in Nat \ {0} /\ m \in Nat /\ m <= Len(q)
    BY <1>2 DEF Fits, Iterators
  <2> HIDE DEF r, b, m
  <2>3. b \in Int /\ m \in Int /\ \A i \in b .. m : r[i] \in Slots /\ q[i] \in Slots /\ r[i] = q[i]
    BY <2>1, <2>2
  <2> DEFINE u == SubSeq(q, b, m)
             v == SubSeq(r, b, m)
  <2>4. /\ u \in Seq(Slots) /\ Len(u) = (IF b <= m THEN m - b + 1 ELSE 0)
        /\ \A i \in 1 .. m - b + 1 : u[i] = q[b + i - 1]
    BY <2>3, SubSeqProperties
  <2>5. /\ v \in Seq(Slots) /\ Len(v) = (IF b <= m THEN m - b + 1 ELSE 0)
        /\ \A i \in 1 .. m - b + 1 : v[i] = r[b + i - 1]
    BY <2>3, SubSeqProperties
  <2> HIDE DEF u, v
  <2>6. \A i \in 1 .. Len(u) : u[i] = v[i]
    <3> SUFFICES ASSUME NEW i \in 1 .. Len(u) PROVE u[i] = v[i]
      OBVIOUS
    <3>1. i \in 1 .. m - b + 1 /\ b + i - 1 \in b .. m
      BY <2>2, <2>4
    <3>2. u[i] = q[b + i - 1] /\ v[i] = r[b + i - 1]
      BY <2>4, <2>5, <3>1
    <3> QED BY <2>3, <3>1, <3>2
  <2>7. u = v
    BY <2>4, <2>5, <2>6, SeqEqual
  <2>8. Owed(q, it) = Closed(u) /\ Owed(r, it) = Closed(v)
    <3>1. m <= Len(r)
      BY <2>1, <2>2
    <3> QED BY <1>2, <2>1, <2>2, <3>1, OwedWindow DEF u, v, b, m
  <2> QED BY <2>7, <2>8 DEF r
<1> QED BY <1>1, <1>2

LEMMA OwedLeft ==
  ASSUME NEW a \in BOOLEAN, NEW q \in Seq(Slots), NEW O, Null \notin O, NEW it \in Iterators, Fits(a, q, it)
  PROVE  Owed(Hole(q, O), it) = Without(Owed(q, it), O)
<1>1. CASE ~it.list
  BY <1>1, WithoutEmpty DEF Owed
<1>2. CASE it.list
  <2> DEFINE r == Hole(q, O)
             b == it.index
             m == it.max_index
  <2>1. /\ Len(q) \in Nat /\ r \in Seq(Slots) /\ Len(r) = Len(q)
        /\ \A i \in 1 .. Len(q) : r[i] = IF q[i] \in O THEN Null ELSE q[i]
        /\ \A i \in 1 .. Len(q) : r[i] \in Slots /\ q[i] \in Slots
    BY HoleType, ElementOfSeq, LenProperties
  <2>2. b \in Nat \ {0} /\ m \in Nat /\ m <= Len(q)
    BY <1>2 DEF Fits, Iterators
  <2> HIDE DEF r, b, m
  <2>3. b \in Int /\ m \in Int /\ \A i \in b .. m : r[i] \in Slots /\ q[i] \in Slots /\ r[i] = IF q[i] \in O THEN Null ELSE q[i]
    BY <2>1, <2>2
  <2> DEFINE u == SubSeq(q, b, m)
             v == SubSeq(r, b, m)
             h == Hole(u, O)
  <2>4. /\ u \in Seq(Slots) /\ Len(u) = (IF b <= m THEN m - b + 1 ELSE 0)
        /\ \A i \in 1 .. m - b + 1 : u[i] = q[b + i - 1]
    BY <2>3, SubSeqProperties
  <2>5. /\ v \in Seq(Slots) /\ Len(v) = (IF b <= m THEN m - b + 1 ELSE 0)
        /\ \A i \in 1 .. m - b + 1 : v[i] = r[b + i - 1]
    BY <2>3, SubSeqProperties
  <2> HIDE DEF u, v
  <2>6. h \in Seq(Slots) /\ Len(h) = Len(u) /\ \A i \in 1 .. Len(u) : h[i] = IF u[i] \in O THEN Null ELSE u[i]
    BY <2>4, HoleType
  <2> HIDE DEF h
  <2>7. \A i \in 1 .. Len(h) : h[i] = v[i]
    <3> SUFFICES ASSUME NEW i \in 1 .. Len(u) PROVE h[i] = v[i]
      BY <2>6
    <3>1. i \in 1 .. m - b + 1 /\ b + i - 1 \in b .. m
      BY <2>2, <2>4
    <3>2. u[i] = q[b + i - 1] /\ v[i] = r[b + i - 1]
      BY <2>4, <2>5, <3>1
    <3>3. h[i] = IF u[i] \in O THEN Null ELSE u[i]
      BY <2>6
    <3> QED BY <2>3, <3>1, <3>2, <3>3
  <2>8. h = v
    BY <2>4, <2>5, <2>6, <2>7, SeqEqual
  <2>9. Owed(q, it) = Closed(u) /\ Owed(r, it) = Closed(v)
    BY <1>2, <2>1, <2>2, OwedWindow DEF u, v, b, m
  <2>10. Closed(h) = Without(Closed(u), O)
    BY <2>4, ClosedHole DEF h
  <2> QED BY <2>8, <2>9, <2>10 DEF r
<1> QED BY <1>1, <1>2

\* Debts, position by position.
LEMMA DebtsAre ==
  ASSUME NEW q \in Seq(Slots), NEW its \in Seq(Iterators)
  PROVE  /\ DebtsOf(q, its) \in Seq(Seq(Observers)) /\ Len(DebtsOf(q, its)) = Len(its)
         /\ DOMAIN DebtsOf(q, its) = 1 .. Len(its)
         /\ \A k \in 1 .. Len(its) : DebtsOf(q, its)[k] = Owed(q, its[k])
<1> DEFINE n == Len(its)
           d == [k \in 1 .. n |-> Owed(q, its[k])]
<1>1. n \in Nat /\ DOMAIN its = 1 .. n /\ \A k \in 1 .. n : its[k] \in Iterators
  BY LenProperties, ElementOfSeq
<1>2. DebtsOf(q, its) = d
  BY <1>1 DEF DebtsOf
<1>3. d \in [1 .. n -> Seq(Observers)]
  BY <1>1, OwedType
<1>4. \A k \in 1 .. n : d[k] = Owed(q, its[k])
  OBVIOUS
<1> HIDE DEF d
<1>5. d \in Seq(Seq(Observers)) /\ Len(d) = n /\ DOMAIN d = 1 .. n
  <2> HIDE DEF n
  <2> QED BY <1>1, <1>3
<1> QED BY <1>2, <1>4, <1>5

\* The types and relations that every step of the simulation needs.
LEMMA Facts ==
  ASSUME IInv
  PROVE  /\ Shape /\ observers \in Seq(Slots) /\ iterators \in Seq(Iterators) /\ alive \in BOOLEAN
         /\ Len(iterators) \in Nat /\ DOMAIN iterators = 1 .. Len(iterators)
         /\ Len(Debts) = Len(iterators) /\ DOMAIN Debts = 1 .. Len(iterators) /\ Debts \in Seq(Seq(Observers))
         /\ \A k \in 1 .. Len(iterators) :
              /\ iterators[k] \in Iterators /\ Fits(alive, observers, iterators[k])
              /\ Debts[k] = Owed(observers, iterators[k])
         /\ Listed \in Seq(Observers) /\ Range(Listed) = Registered
<1>1. Shape /\ observers \in Seq(Slots) /\ iterators \in Seq(Iterators) /\ alive \in BOOLEAN
  BY DEF IInv, Shape
<1>2. \A k \in 1 .. Len(iterators) : Fits(alive, observers, iterators[k])
  BY DEF IInv, Loops, Loop
<1> QED BY <1>1, <1>2, Elements, DebtsAre, ClosedType DEF Debts, Listed, Registered

LEMMA AddObserverSimulates ==
  ASSUME IInv, IInv', NEW o \in Observers, AddObserver(o)
  PROVE  Contract!Next
<1>1. alive /\ o \notin Registered /\ observers' = Append(observers, o) /\ iterators' = iterators
  BY DEF AddObserver, Running
<1>2. o \in Slots /\ o # Null
  BY ObserverAssumption DEF Slots
<1>3. Listed' = Append(Listed, o)
  BY <1>1, <1>2, Facts, ClosedAppend DEF Listed
<1>4. Debts' = Debts
  <2>1. \A k \in DOMAIN iterators : Owed(observers', iterators[k]) = Owed(observers, iterators[k])
    BY <1>1, <1>2, Facts, OwedJoined
  <2> QED BY <1>1, <2>1 DEF Debts, DebtsOf
<1> QED BY <1>1, <1>3, <1>4, Facts, ContractAdd

\* Whoever leaves leaves the list and the debts.
LEMMA LeaveSimulates ==
  ASSUME IInv, NEW O, Null \notin O, O = Observers \/ \E o \in Observers : O = {o},
         iterators' = iterators,
         \/ observers' = Hole(observers, O)
         \/ Quiet /\ observers' \in Seq(Observers) /\ observers' = Without(Closed(observers), O)
  PROVE  Contract!Next
<1> DEFINE W == [k \in DOMAIN Debts |-> Without(Debts[k], O)]
<1>1. CASE observers' = Hole(observers, O)
  <2>1. Listed' = Without(Listed, O)
    BY <1>1, Facts, ClosedHole DEF Listed
  <2>2. \A k \in 1 .. Len(iterators) : Owed(observers', iterators[k]) = Without(Debts[k], O)
    BY <1>1, Facts, OwedLeft
  <2>3. Debts' = [k \in 1 .. Len(iterators) |-> Owed(observers', iterators[k])]
    BY Facts DEF Debts, DebtsOf
  <2>4. Debts' = W
    BY <2>2, <2>3, Facts
  <2> HIDE DEF W
  <2> QED BY <2>1, <2>4, ContractLeave DEF W
<1>2. CASE Quiet /\ observers' \in Seq(Observers) /\ observers' = Without(Closed(observers), O)
  <2>1. Listed' = Without(Listed, O)
    BY <1>2, ClosedDense DEF Listed
  <2>2. Len(iterators) = 0
    BY <1>2, EmptySeq DEF Quiet
  <2>3. Debts' = [k \in 1 .. 0 |-> Owed(observers', iterators[k])]
    BY <2>2, Facts DEF Debts, DebtsOf
  <2>4. W = [k \in 1 .. 0 |-> Without(Debts[k], O)]
    BY <2>2, Facts
  <2>5. Debts' = W
    BY <2>3, <2>4
  <2> HIDE DEF W
  <2> QED BY <2>1, <2>5, ContractLeave DEF W
<1> QED BY <1>1, <1>2

LEMMA RemoveObserverSimulates ==
  ASSUME IInv, NEW o \in Observers, RemoveObserver(o)
  PROVE  Contract!Next
<1>1. Null \notin {o} /\ iterators' = iterators
  BY ObserverAssumption DEF RemoveObserver
<1>2. CASE Quiet
  <2>1. observers' = Closed(Hole(observers, {o}))
    BY <1>2 DEF RemoveObserver
  <2>2. observers' = Without(Closed(observers), {o})
    BY <1>1, <2>1, Facts, ClosedHole
  <2>3. observers' \in Seq(Observers)
    BY <2>1, Facts, HoleType, ClosedType
  <2> QED BY <1>1, <1>2, <2>2, <2>3, LeaveSimulates
<1>3. CASE ~Quiet
  <2>1. observers' = Hole(observers, {o})
    BY <1>3 DEF RemoveObserver
  <2> QED BY <1>1, <2>1, LeaveSimulates
<1> QED BY <1>2, <1>3

LEMMA ClearSimulates ==
  ASSUME IInv, Clear
  PROVE  Contract!Next
<1>1. Null \notin Observers /\ iterators' = iterators
  BY ObserverAssumption DEF Clear
<1>2. CASE Quiet
  <2>1. observers' = <<>> /\ <<>> \in Seq(Observers)
    BY <1>2, EmptySeq DEF Clear
  <2>2. observers' = Without(Closed(observers), Observers)
    BY <2>1, Facts, WithoutEveryone DEF Listed
  <2> QED BY <1>1, <1>2, <2>1, <2>2, LeaveSimulates
<1>3. CASE ~Quiet
  <2>1. observers' = Hole(observers, Observers)
    BY <1>3 DEF Clear
  <2> QED BY <1>1, <2>1, LeaveSimulates
<1> QED BY <1>2, <1>3

LEMMA DestroySimulates ==
  ASSUME IInv, Destroy
  PROVE  Contract!Next
<1> DEFINE n == Len(iterators)
           W == [k \in DOMAIN Debts |-> Without(Debts[k], Observers)]
<1>1. observers' = <<>> /\ iterators' = [k \in DOMAIN iterators |-> [iterators[k] EXCEPT !.list = FALSE]]
  BY DEF Destroy
<1>2. Listed' = Without(Listed, Observers)
  <2>1. Listed' = <<>>
    BY <1>1, WithoutEmpty DEF Listed, Closed
  <2> QED BY <2>1, Facts, WithoutEveryone
<1>3. \A k \in 1 .. n : Owed(observers', iterators'[k]) = <<>>
  <2> SUFFICES ASSUME NEW k \in 1 .. n PROVE ~iterators'[k].list
    BY DEF Owed
  <2>1. iterators'[k] = [iterators[k] EXCEPT !.list = FALSE] /\ iterators[k] \in Iterators
    BY <1>1, Facts
  <2> QED BY <2>1 DEF Iterators
<1>4. DOMAIN iterators' = 1 .. n
  BY <1>1, Facts
<1>5. Debts' = [k \in 1 .. n |-> Owed(observers', iterators'[k])]
  BY <1>4 DEF Debts, DebtsOf
<1>6. \A k \in 1 .. n : Without(Debts[k], Observers) = <<>>
  <2> SUFFICES ASSUME NEW k \in 1 .. n PROVE Debts[k] \in Seq(Observers)
    BY WithoutEveryone
  <2> QED BY Facts, ElementOfSeq
<1>7. W = [k \in 1 .. n |-> Without(Debts[k], Observers)]
  BY Facts
<1>8. Debts' = W
  BY <1>3, <1>5, <1>6, <1>7
<1> HIDE DEF W
<1> QED BY <1>2, <1>8, ContractLeave DEF W

LEMMA BeginSimulates ==
  ASSUME IInv, IInv', Begin
  PROVE  Contract!Next
<1> DEFINE n == Len(iterators)
           it == [list |-> TRUE, index |-> 1, max_index |-> Len(observers)]
           D == Append(Debts, Listed)
<1>1. iterators' = Append(iterators, it) /\ observers' = observers
  BY DEF Begin
<1>2. /\ n \in Nat /\ iterators \in Seq(Iterators) /\ Debts \in Seq(Seq(Observers)) /\ Len(Debts) = n /\ Listed \in Seq(Observers)
      /\ \A k \in 1 .. n : Debts[k] = Owed(observers, iterators[k])
  BY Facts
<1>3. it \in Iterators
  <2>1. Len(observers) \in Nat
    BY Facts, LenProperties
  <2> QED BY <2>1 DEF Iterators
<1>4. Owed(observers, it) = Listed
  <2>1. it.list /\ it.index = 1 /\ it.max_index = Len(observers) /\ Len(observers) \in Nat
    BY Facts, LenProperties
  <2>2. Owed(observers, it) = Closed(SubSeq(observers, 1, Len(observers)))
    <3> HIDE DEF it
    <3>1. it.max_index <= Len(observers)
      BY <2>1
    <3>2. Owed(observers, it) = Closed(SubSeq(observers, it.index, it.max_index))
      BY <1>3, <2>1, <3>1, Facts, OwedWindow
    <3> QED BY <2>1, <3>2
  <2>3. SubSeq(observers, 1, Len(observers)) = observers
    BY Facts, SubSeqFull
  <2> QED BY <2>2, <2>3 DEF Listed
<1> HIDE DEF it
<1>5. Len(iterators') = n + 1 /\ iterators'[n + 1] = it /\ \A k \in 1 .. n : iterators'[k] = iterators[k]
  BY <1>1, <1>2, <1>3, AppendProperties
<1>6. /\ Debts' \in Seq(Seq(Observers)) /\ Len(Debts') = n + 1
      /\ \A k \in 1 .. n + 1 : Debts'[k] = Owed(observers', iterators'[k])
  <2>1. observers' \in Seq(Slots) /\ iterators' \in Seq(Iterators)
    BY DEF IInv, Shape
  <2> QED BY <1>5, <2>1, DebtsAre DEF Debts
<1>7. /\ D \in Seq(Seq(Observers)) /\ Len(D) = n + 1 /\ D[n + 1] = Listed
      /\ \A k \in 1 .. n : D[k] = Debts[k]
  BY <1>2, AppendProperties
<1> HIDE DEF D, n
<1>8. \A k \in 1 .. n + 1 : Debts'[k] = D[k]
  <2> SUFFICES ASSUME NEW k \in 1 .. n + 1 PROVE Debts'[k] = D[k]
    OBVIOUS
  <2>1. CASE k \in 1 .. n
    BY <1>1, <1>2, <1>5, <1>6, <1>7, <2>1
  <2>2. CASE k = n + 1
    BY <1>1, <1>4, <1>5, <1>6, <1>7, <2>2
  <2> QED BY <1>2, <2>1, <2>2
<1>9. Debts' = D
  BY <1>6, <1>7, <1>8, SeqEqual
<1>10. Listed' = Listed
  BY <1>1 DEF Listed
<1> QED BY <1>9, <1>10, ContractBegin DEF D

\* Only the innermost debt changes when the innermost iterator moves.
LEMMA InnerDebt ==
  ASSUME IInv, NEW n, n = Len(iterators), iterators # <<>>, NEW jt \in Iterators,
         iterators' = [iterators EXCEPT ![n] = jt], observers' = observers
  PROVE  n \in 1 .. Len(Debts) /\ n = Len(Debts) /\ Debts' = [Debts EXCEPT ![n] = Owed(observers, jt)]
<1>1. iterators \in Seq(Iterators) /\ n \in Nat /\ Debts \in Seq(Seq(Observers)) /\ Len(Debts) = n
  BY Facts
<1>2. n \in 1 .. n
  BY <1>1, EmptySeq
<1>3. DOMAIN iterators' = 1 .. n /\ \A k \in 1 .. n : iterators'[k] = IF k = n THEN jt ELSE iterators[k]
  BY <1>1, <1>2, ExceptSeq, Facts
<1>4. Debts' = [k \in 1 .. n |-> Owed(observers, iterators'[k])]
  BY <1>3 DEF Debts, DebtsOf
<1>5. Debts = [k \in 1 .. n |-> Owed(observers, iterators[k])]
  BY Facts DEF Debts, DebtsOf
<1>6. [Debts EXCEPT ![n] = Owed(observers, jt)] = [k \in 1 .. n |-> IF k = n THEN Owed(observers, jt) ELSE Owed(observers, iterators[k])]
  BY <1>2, <1>5
<1>7. \A k \in 1 .. n : Owed(observers, iterators'[k]) = IF k = n THEN Owed(observers, jt) ELSE Owed(observers, iterators[k])
  BY <1>3
<1> QED BY <1>1, <1>2, <1>4, <1>6, <1>7

LEMMA HeadTailOf ==
  ASSUME NEW T, NEW x \in T, NEW s \in Seq(T)
  PROVE  <<x>> \o s # <<>> /\ Head(<<x>> \o s) = x /\ Tail(<<x>> \o s) = s
<1> DEFINE r == <<x>> \o s
<1>1. <<x>> \in Seq(T) /\ Len(<<x>>) = 1 /\ <<x>>[1] = x
  OBVIOUS
<1>2. r \in Seq(T) /\ Len(r) = 1 + Len(s) /\ r[1] = x /\ \A i \in 1 .. Len(s) : r[i + 1] = s[i]
  <2>0. Len(s) \in Nat
    BY LenProperties
  <2>1. r \in Seq(T) /\ Len(r) = 1 + Len(s) /\ \A i \in 1 .. 1 + Len(s) : r[i] = IF i <= 1 THEN <<x>>[i] ELSE s[i - 1]
    BY <1>1, ConcatProperties
  <2> HIDE DEF r
  <2> QED BY <1>1, <2>0, <2>1
<1> HIDE DEF r
<1>3. Len(s) \in Nat /\ r # <<>>
  BY <1>2, LenProperties, EmptySeq
<1>4. Tail(r) \in Seq(T) /\ Len(Tail(r)) = Len(s) /\ \A i \in 1 .. Len(Tail(r)) : Tail(r)[i] = r[i + 1]
  BY <1>2, <1>3, HeadTailProperties
<1>5. Tail(r) = s
  BY <1>2, <1>4, SeqEqual
<1>6. Head(r) = x
  BY <1>2
<1> QED BY <1>3, <1>5, <1>6 DEF r

LEMMA TryGetNextSimulates ==
  ASSUME IInv, TryGetNext
  PROVE  Contract!Next
<1> DEFINE n == Len(iterators)
           it == iterators[n]
           i == CHOOSE j \in Reach(it) : \A k \in Reach(it) : j <= k
           jt == [it EXCEPT !.index = i + 1]
           rest == Closed(SubSeq(observers, i + 1, it.max_index))
<1>1. /\ iterators # <<>> /\ it.list /\ Reach(it) # {}
      /\ iterators' = [iterators EXCEPT ![n].index = i + 1] /\ observers' = observers
  BY DEF TryGetNext, Inner
<1>2. n \in 1 .. n
  BY <1>1, Facts, EmptySeq
<1>3. Shape /\ observers \in Seq(Slots) /\ Len(observers) \in Nat /\ it \in Iterators /\ Fits(alive, observers, it) /\ Debts[n] = Owed(observers, it)
  BY <1>2, Facts, LenProperties
<1>4. /\ i \in 1 .. Len(observers) /\ observers[i] # Null /\ it.index <= i /\ i <= it.max_index
      /\ \A p \in 1 .. Len(observers) : it.index <= p /\ p < i => observers[p] = Null
  <2> HIDE DEF it
  <2> QED BY <1>1, <1>3, FirstAhead
<1>5. iterators' = [iterators EXCEPT ![n] = jt]
  BY <1>1
<1> HIDE DEF i
<1>6. jt \in Iterators /\ jt.list /\ jt.index = i + 1 /\ jt.max_index = it.max_index
  BY <1>1, <1>3, <1>4 DEF Iterators
<1> HIDE DEF it, jt
<1>7. it.index \in Nat \ {0} /\ it.max_index \in 1 .. Len(observers) /\ it.max_index <= Len(observers) /\ i \in it.index .. it.max_index
  BY <1>1, <1>3, <1>4 DEF Iterators, Fits
<1>8. Owed(observers, jt) = rest
  BY <1>3, <1>6, <1>7, OwedWindow
<1>9. Debts[n] = <<observers[i]>> \o rest
  <2>1. \A p \in it.index .. i - 1 : observers[p] = Null
    BY <1>4, <1>7
  <2>2. Debts[n] = Closed(SubSeq(observers, it.index, it.max_index))
    BY <1>1, <1>3, <1>7, OwedWindow
  <2> QED BY <1>3, <1>4, <1>7, <2>1, <2>2, ClosedHead
<1>10. observers[i] \in Observers
  <2>1. observers[i] \in Slots
    BY <1>3, <1>4, ElementOfSeq
  <2> QED BY <1>4, <2>1 DEF Slots
<1>11. rest \in Seq(Observers)
  BY <1>3, <1>6, <1>8, OwedType
<1> HIDE DEF rest
<1>12. Debts[n] # <<>> /\ Head(Debts[n]) = observers[i] /\ Tail(Debts[n]) = rest
  BY <1>9, <1>10, <1>11, HeadTailOf
<1>13. n = Len(Debts) /\ n \in 1 .. Len(Debts) /\ Debts' = [Debts EXCEPT ![n] = rest]
  BY <1>1, <1>5, <1>6, <1>8, InnerDebt
<1>14. Debts # <<>>
  BY <1>13
<1>15. Listed' = Listed
  BY <1>1 DEF Listed
<1>16. Debts' = [Debts EXCEPT ![Len(Debts)] = Tail(@)]
  BY <1>12, <1>13
<1> QED BY <1>10, <1>12, <1>13, <1>14, <1>15, <1>16, ContractNotify

LEMMA TryGetNextEndsStutters ==
  ASSUME IInv, TryGetNextEnds
  PROVE  Listed' = Listed /\ Debts' = Debts
<1> DEFINE n == Len(iterators)
           it == iterators[n]
           limit == IF it.max_index < Len(observers) THEN it.max_index ELSE Len(observers)
           jt == [it EXCEPT !.index = limit + 1]
<1>1. /\ iterators # <<>> /\ (it.list => Reach(it) = {}) /\ observers' = observers
      /\ iterators' = IF it.list /\ it.index <= limit
                      THEN [iterators EXCEPT ![n].index = limit + 1] ELSE iterators
  BY DEF TryGetNextEnds, Inner
<1>2. n \in 1 .. n
  BY <1>1, Facts, EmptySeq
<1>3. /\ observers \in Seq(Slots) /\ it \in Iterators /\ Fits(alive, observers, it) /\ Debts[n] = Owed(observers, it)
      /\ DOMAIN observers = 1 .. Len(observers) /\ Len(observers) \in Nat
  BY <1>2, Facts, LenProperties
<1>4. CASE it.list /\ it.index <= limit
  <2>1. it.index \in Nat \ {0} /\ it.max_index \in Nat /\ limit = it.max_index /\ it.max_index <= Len(observers)
    BY <1>3, <1>4 DEF Fits, Iterators
  <2>2. iterators' = [iterators EXCEPT ![n] = jt]
    BY <1>1, <1>4
  <2>3. \A p \in it.index .. it.max_index : observers[p] = Null
    <3> HIDE DEF it, limit
    <3>1. it.list /\ Reach(it) = {}
      BY <1>1, <1>4
    <3> QED BY <1>3, <2>1, <3>1 DEF Reach
  <2>4. jt = [it EXCEPT !.index = it.max_index + 1]
    BY <2>1
  <2> HIDE DEF limit, jt
  <2>5. jt \in Iterators /\ jt.list /\ jt.index = it.max_index + 1 /\ jt.max_index = it.max_index
    <3> HIDE DEF it
    <3> QED BY <1>3, <1>4, <2>1, <2>4 DEF Iterators
  <2> HIDE DEF it
  <2>6. Owed(observers, jt) = <<>>
    <3>1. Owed(observers, jt) = Closed(SubSeq(observers, it.max_index + 1, it.max_index))
      BY <1>3, <2>1, <2>5, OwedWindow
    <3>2. SubSeq(observers, it.max_index + 1, it.max_index) = <<>>
      BY <2>1, SubSeqEmpty
    <3> QED BY <3>1, <3>2, WithoutEmpty DEF Closed
  <2>7. Debts[n] = <<>>
    <3> DEFINE w == SubSeq(observers, it.index, it.max_index)
    <3>1. Debts[n] = Closed(w)
      BY <1>3, <1>4, <2>1, OwedWindow
    <3>2. \A p \in it.index .. it.max_index : observers[p] \in Slots
      BY <2>3 DEF Slots
    <3>3. it.index \in Int /\ it.max_index \in Int
      BY <2>1
    <3>4. /\ w \in Seq(Slots) /\ Len(w) = (IF it.index <= it.max_index THEN it.max_index - it.index + 1 ELSE 0)
          /\ \A p \in 1 .. it.max_index - it.index + 1 : w[p] = observers[it.index + p - 1]
      BY <3>2, <3>3, SubSeqProperties
    <3> HIDE DEF w
    <3>5. \A p \in 1 .. Len(w) : p \in 1 .. it.max_index - it.index + 1 /\ it.index + p - 1 \in it.index .. it.max_index
      BY <2>1, <3>4
    <3>6. \A p \in 1 .. Len(w) : w[p] = Null
      BY <2>3, <3>4, <3>5
    <3> QED BY <3>1, <3>4, <3>6, ClosedNothing
  <2>8. n \in 1 .. Len(Debts) /\ Debts' = [Debts EXCEPT ![n] = <<>>]
    BY <1>1, <2>2, <2>5, <2>6, InnerDebt, ZenonT(40)
  <2>9. [Debts EXCEPT ![n] = Debts[n]] = Debts
    BY Facts
  <2> QED BY <1>1, <2>7, <2>8, <2>9 DEF Listed
<1>5. CASE ~(it.list /\ it.index <= limit)
  BY <1>1, <1>5 DEF Listed, Debts
<1> QED BY <1>4, <1>5

LEMMA EndSimulates ==
  ASSUME IInv, IInv', End
  PROVE  Contract!Next
<1> DEFINE n == Len(iterators)
           D == Front(Debts)
<1>1. /\ iterators # <<>> /\ iterators' = Front(iterators)
      /\ \/ observers' = Closed(observers) /\ n = 1
         \/ observers' = observers
  BY DEF End, Inner
<1>2. n \in Nat \ {0} /\ iterators \in Seq(Iterators) /\ Debts \in Seq(Seq(Observers)) /\ Len(Debts) = n
  BY <1>1, Facts, EmptySeq
<1>3. Debts # <<>>
  <2>1. Len(<<>>) = 0
    BY EmptySeq
  <2> QED BY <1>2, <2>1
<1>4. Listed' = Listed
  <2>1. Closed(Closed(observers)) = Closed(observers)
    BY Facts, ClosedDense DEF Listed
  <2> QED BY <1>1, <2>1 DEF Listed
<1>5. Len(iterators') = n - 1 /\ \A k \in 1 .. n - 1 : iterators'[k] = iterators[k]
  BY <1>1, <1>2, FrontOf
<1>6. /\ Debts' \in Seq(Seq(Observers)) /\ Len(Debts') = n - 1
      /\ \A k \in 1 .. n - 1 : Debts'[k] = Owed(observers', iterators'[k])
  <2>1. observers' \in Seq(Slots) /\ iterators' \in Seq(Iterators)
    BY DEF IInv, Shape
  <2> QED BY <1>5, <2>1, DebtsAre DEF Debts
<1>7. D \in Seq(Seq(Observers)) /\ Len(D) = n - 1 /\ \A k \in 1 .. n - 1 : D[k] = Debts[k]
  BY <1>2, <1>3, FrontOf
<1>8. \A k \in 1 .. n : Debts[k] = Owed(observers, iterators[k])
  BY Facts
<1> HIDE DEF D, n
<1>9. \A k \in 1 .. n - 1 : Debts'[k] = D[k]
  <2> SUFFICES ASSUME NEW k \in 1 .. n - 1 PROVE Debts'[k] = D[k]
    OBVIOUS
  <2>1. k \in 1 .. n /\ n # 1
    BY <1>2
  <2>2. observers' = observers
    BY <1>1, <2>1
  <2> QED BY <1>5, <1>6, <1>7, <1>8, <2>1, <2>2
<1>10. Debts' = D
  BY <1>6, <1>7, <1>9, SeqEqual
<1>11. Debts' = SubSeq(Debts, 1, Len(Debts) - 1)
  BY <1>10 DEF D, Front
<1> QED BY <1>3, <1>4, <1>11, ContractEnd

\* The list with holes and indices does what the list without holes promises:
\* a removal is a removal from the list and from all debts, a notification is of
\* the first one owed (all functions of ObserverList and its Iterator).
THEOREM KeepsContract == Spec => ImplementsContract
<1>1. Init => Contract!Init
  <2> SUFFICES ASSUME Init PROVE Contract!Init
    OBVIOUS
  <2>1. Closed(observers) = <<>>
    BY WithoutEmpty DEF Init, Closed
  <2>2. DOMAIN iterators = {}
    BY DEF Init
  <2> QED BY <2>1, <2>2 DEF Contract!Init
<1>2. IInv /\ IInv' /\ [Next]_vars => Contract!Next \/ (Listed' = Listed /\ Debts' = Debts)
  <2> SUFFICES ASSUME IInv, IInv', [Next]_vars
               PROVE  Contract!Next \/ (Listed' = Listed /\ Debts' = Debts)
    OBVIOUS
  <2>1. ASSUME NEW o \in Observers, AddObserver(o) PROVE Contract!Next
    BY <2>1, AddObserverSimulates
  <2>2. ASSUME NEW o \in Observers, RemoveObserver(o) PROVE Contract!Next
    BY <2>2, RemoveObserverSimulates
  <2>3. ASSUME NEW o \in Observers, RemoveUnknown(o) PROVE Listed' = Listed /\ Debts' = Debts
    BY <2>3 DEF RemoveUnknown, Listed, Debts
  <2>4. CASE Clear
    BY <2>4, ClearSimulates
  <2>5. CASE Destroy
    BY <2>5, DestroySimulates
  <2>6. CASE Begin
    BY <2>6, BeginSimulates
  <2>7. CASE TryGetNext
    BY <2>7, TryGetNextSimulates
  <2>8. CASE TryGetNextEnds
    BY <2>8, TryGetNextEndsStutters
  <2>9. CASE End
    BY <2>9, EndSimulates
  <2>10. CASE UNCHANGED vars
    BY <2>10 DEF vars, Listed, Debts
  <2> QED BY <2>1, <2>2, <2>3, <2>4, <2>5, <2>6, <2>7, <2>8, <2>9, <2>10 DEF Next
<1>3. IInv /\ IInv' /\ [Next]_vars => [Contract!Next]_<<Listed, Debts>>
  BY <1>2
<1>4. [Contract!Next]_<<Listed, Debts>>
        => [Contract!Next]_<<Closed(observers),
                             [k \in DOMAIN iterators |->
                                IF iterators[k].list
                                THEN Closed(SubSeq(observers, iterators[k].index,
                                                   IF iterators[k].max_index < Len(observers)
                                                   THEN iterators[k].max_index ELSE Len(observers)))
                                ELSE <<>>]>>
  BY DEF Listed, Debts, DebtsOf, Owed
<1> QED BY <1>1, <1>3, <1>4, Invariant, PTL DEF Spec, ImplementsContract, Contract!Spec
==============================================================================
