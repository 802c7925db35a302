----------------------------- MODULE JsonGrammar -----------------------------
(***************************************************************************)
(* The texts that Json.rst (src/Stp/Json) has the parser accept, up to a   *)
(* length: RFC 4627 with the options and the limit of nesting.             *)
(***************************************************************************)
EXTENDS Integers, Sequences, FiniteSets

CONSTANTS Symbols, MaxLength, DepthLimit

Lengths == 0 .. MaxLength
Options == [AllowTrailingCommas : BOOLEAN, UniqueKeys : BOOLEAN]

\* The lists of members whose text, with the commas between them, has each length.
Lists(member) ==
  LET list[n \in Lengths] ==
        {<<m>> : m \in member[n]} \cup
        UNION {{<<m>> \o rest : m \in member[k], rest \in list[n - k - 1]} : k \in 1 .. n - 2}
  IN list

Listed(list) ==
  LET listed[i \in 0 .. Len(list)] ==
        IF i = 0 THEN <<>> ELSE IF i = 1 THEN list[1] ELSE listed[i - 1] \o <<",">> \o list[i]
  IN listed[Len(list)]

Bodies(kinds, n, o) ==
  {<<>> : x \in IF n = 0 THEN {1} ELSE {}}
  \cup {Listed(l) : l \in kinds[n]}
  \cup {Append(Listed(l), ",") : l \in IF o.AllowTrailingCommas /\ n > 0 THEN kinds[n - 1] ELSE {}}

Distinct(list) == \A i, j \in DOMAIN list : list[i][1] = list[j][1] => i = j

\* The values nested at most d deep, by their length.
Values(o) ==
  LET Value[d \in 0 .. DepthLimit - 1] ==
        LET inner == Value[d - 1]
            members == [n \in Lengths |-> {<<k, ":">> \o v : k \in {"k", "l"} \cap Symbols, v \in IF n > 2 THEN inner[n - 2] ELSE {}}]
            arrays == Lists(inner)
            pairs == [n \in Lengths |-> {l \in Lists(members)[n] : o.UniqueKeys => Distinct(l)}]
        IN [n \in Lengths |->
             {<<s>> : s \in IF n = 1 THEN Symbols \cap {"k", "l", "t", "1"} ELSE {}}
             \cup IF d = 0 \/ n < 2 THEN {}
                  ELSE {<<"[">> \o b \o <<"]">> : b \in Bodies(arrays, n - 2, o)}
                       \cup {<<"{">> \o b \o <<"}">> : b \in Bodies(pairs, n - 2, o)}]
  IN UNION {Value[DepthLimit - 1][n] : n \in Lengths}

Language == UNION {{<<o, w>> : w \in Values(o)} : o \in Options}

Beginnings == UNION {{<<l[1], SubSeq(l[2], 1, n)>> : n \in 0 .. Len(l[2])} : l \in Language}
==============================================================================
