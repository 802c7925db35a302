----------------------------- MODULE JsonParser -----------------------------
(***************************************************************************)
(* src/Stp/Json/JsonParser.cpp: the recursive descent as a stack of the    *)
(* objects and arrays that are being consumed.                             *)
(*                                                                         *)
(* A symbol of the text is a bracket, a comma or a colon; a whole string   *)
(* "k" or "l"; the literal "t"; the number "1", or "9", which is too large *)
(* for any type; the end of a line "nl"; a comment "c"; a slash "/" that   *)
(* begins no comment; or anything else, "x".  The text becomes known when  *)
(* the parser reads it.                                                    *)
(***************************************************************************)
EXTENDS Integers, Sequences, FiniteSets

CONSTANTS
  Symbols,
  Begins, MaxMore,  \* how the text begins, and the symbols it may have behind that
  DepthLimit,       \* GetDepthLimit()
  Language, Beginnings,  \* of JsonGrammar, for texts as long as these
  Careful           \* no line ends behind a number

VARIABLES
  text, more, ended,  \* what is known of the text, how much of it was read on
                      \* the way, and whether it is all there is
  pos, line,          \* pos_, line_number_
  skipped,            \* EatWhitespaceAndComments has returned at a slash
  safe,               \* safe_point of ConsumeNumber
  stack,              \* of ConsumeObject ("}") and ConsumeArray ("]"): its end, key, and the keys of object
  pc,                 \* what the innermost function does next
  error, options

vars == <<text, more, ended, pos, line, skipped, safe, stack, pc, error, options>>

Strings == {"k", "l"}
Numerals == {"1", "9"}
Blanks == {"nl", "c", "/"}

Init ==
  /\ text \in Begins /\ more = 0 /\ ended = FALSE
  /\ pos = 1 /\ line = 1 /\ skipped = FALSE /\ safe = 0
  /\ stack = <<>> /\ pc = "value" /\ error = "Ok"
  /\ options \in [AllowTrailingCommas : BOOLEAN, UniqueKeys : BOOLEAN]

AfterNumber == LET seen == SelectSeq(text, LAMBDA c : c # "c") IN seen # <<>> /\ seen[Len(seen)] \in Numerals

\* The symbol at pos is read for the first time.
Read(c) ==
  /\ ~ended /\ pos > Len(text) /\ pc \notin {"failed", "accepted"}
  /\ \/ c = "end" /\ ended' = TRUE /\ UNCHANGED <<text, more>>
     \/ /\ c # "end" /\ more < MaxMore
        /\ Careful => ~(c = "nl" /\ AfterNumber)
        /\ text' = Append(text, c)
        /\ more' = more + 1
        /\ UNCHANGED ended
  /\ UNCHANGED <<pos, line, skipped, safe, stack, pc, error, options>>

At == IF pos <= Len(text) THEN text[pos] ELSE "end"
Known == pos <= Len(text) \/ ended

\* Every step after GetNextToken: nothing more of the text is read.
Step == pc \notin {"failed", "accepted", "done"} /\ Known /\ UNCHANGED <<text, more, ended, options>>

\* EatComment has moved behind the slash when it finds no comment, and the
\* symbol there, whatever it is, is taken for a token.
EatWhitespaceAndComments ==
  /\ Step /\ ~skipped /\ At \in Blanks
  /\ pos' = pos + 1
  /\ line' = IF At = "nl" THEN line + 1 ELSE line
  /\ skipped' = (At = "/")
  /\ UNCHANGED <<safe, stack, pc, error>>

\* The token of a step with this pc.
NextToken(p) == /\ pc = p /\ Step
                /\ skipped \/ At \notin Blanks
                /\ skipped' = FALSE
                /\ safe' = pos + 1

Token == At

ReportError(code) == pc' = "failed" /\ error' = code /\ UNCHANGED <<pos, line, stack>>

\* To p, behind the token.
Consume(p) == pos' = pos + 1 /\ pc' = p /\ UNCHANGED <<line, error>>

\* Mutation: the value to come is counted too.
IsTooDeepEarly == Len(stack) + 2 >= DepthLimit

\* stack_depth_ counts the object or array that begins.
IsTooDeep == Len(stack) + 1 >= DepthLimit

ConsumeBegin(end) ==
  /\ pos' = pos + 1 /\ UNCHANGED line
  /\ IF IsTooDeep THEN pc' = "failed" /\ error' = "TooMuchNesting" /\ UNCHANGED stack
     ELSE /\ pc' = "element" /\ UNCHANGED error
          /\ stack' = Append(stack, [end |-> end, key |-> "none", keys |-> {}])

\* ConsumeNumber goes on to look for the token behind the number.
ParseToken ==
  \/ Token = "{" /\ ConsumeBegin("}")
  \/ Token = "[" /\ ConsumeBegin("]")
  \/ Token \in Strings \cup {"t"} /\ Consume("done") /\ UNCHANGED stack
  \/ Token \in Numerals /\ Consume("number") /\ UNCHANGED stack
  \/ Token \notin Strings \cup Numerals \cup {"{", "[", "t"} /\ ReportError("UnexpectedToken")

ParseNextToken == NextToken("value") /\ ParseToken

\* Back to the end of the number, but not back to its line.
ConsumeNumber ==
  /\ pc = "number"
  /\ Step /\ (skipped \/ At \notin Blanks)
  /\ skipped' = FALSE
  /\ IF Token \notin {"}", "]", ",", "end"} THEN ReportError("SyntaxError")
     ELSE /\ pc' = IF text[safe - 1] = "9" THEN "failed" ELSE "done"
          /\ pos' = safe
          /\ UNCHANGED <<line, stack, error>>
  /\ UNCHANGED safe

Within == stack[Len(stack)]
Put(frame) == stack' = [stack EXCEPT ![Len(stack)] = frame]

ConsumeEnd == Consume("done") /\ stack' = SubSeq(stack, 1, Len(stack) - 1)

\* The first token, or the one after a comma, of an object or an array.
Element(after) ==
  /\ NextToken(after)
  /\ \/ /\ Token = Within.end
        /\ IF after = "comma" /\ ~options.AllowTrailingCommas THEN ReportError("TrailingComma") ELSE ConsumeEnd
     \/ Token # "]" /\ Within.end = "]" /\ ParseToken
     \/ /\ Token # "}" /\ Within.end = "}"
        /\ IF Token \in Strings THEN Consume("colon") /\ Put([Within EXCEPT !.key = Token])
           ELSE ReportError("UnquotedObjectKey")

Colon ==
  /\ NextToken("colon")
  /\ IF Token = ":" THEN Consume("value") /\ UNCHANGED stack ELSE ReportError("SyntaxError")

\* A value is complete: it goes into the object (tryAdd or set) or the array.
Add ==
  /\ pc = "done" /\ stack # <<>>
  /\ IF Within.end = "}" /\ options.UniqueKeys /\ Within.key \in Within.keys
     THEN ReportError("KeyAlreadyAssigned")
     ELSE /\ pc' = "after"
          /\ IF Within.end = "}" THEN Put([Within EXCEPT !.keys = @ \cup {Within.key}]) ELSE UNCHANGED stack
          /\ UNCHANGED <<pos, line, error>>
  /\ UNCHANGED <<text, more, ended, skipped, safe, options>>

Separator ==
  /\ NextToken("after")
  /\ \/ Token = "," /\ Consume("comma") /\ UNCHANGED stack
     \/ Token = Within.end /\ ConsumeEnd
     \/ Token \notin {",", Within.end} /\ ReportError("SyntaxError")

EnterRoot == pc = "done" /\ stack = <<>> /\ pc' = "root" /\ UNCHANGED <<text, more, ended, pos, line, skipped, safe, stack, error, options>>

Parsed ==
  /\ NextToken("root")
  /\ IF Token = "end" THEN pc' = "accepted" /\ UNCHANGED <<pos, line, stack, error>>
     ELSE ReportError("UnexpectedDataAfterRoot")

Next ==
  \/ \E c \in Symbols \cup {"end"} : Read(c)
  \/ EatWhitespaceAndComments
  \/ ParseNextToken
  \/ ConsumeNumber
  \/ \E after \in {"element", "comma"} : Element(after)
  \/ Colon
  \/ Add
  \/ Separator
  \/ EnterRoot
  \/ Parsed

Spec == Init /\ [][Next]_vars

(* Properties *)

\* The text without what EatWhitespaceAndComments passes over, a slash in front
\* of a token included.
Tokens ==
  LET Kept(i) == text[i] \notin Blanks \/ (i > 1 /\ text[i - 1] = "/")
      seen[i \in 0 .. Len(text)] ==
        IF i = 0 THEN <<>> ELSE IF Kept(i) THEN Append(seen[i - 1], text[i]) ELSE seen[i - 1]
  IN seen[Len(text)]

\* The parser accepts the texts of the grammar under the options and the limit,
\* and no others: when it fails, no text that goes on like this is one of them.
AcceptsGrammar ==
  /\ pc = "accepted" => <<options, Tokens>> \in Language
  /\ pc = "failed" => <<options, Tokens>> \notin IF ended THEN Language ELSE Beginnings

\* An error comes with a code, unless it is that of a number too large for any
\* type, and with the line that pos_ is in.
ErrorIsLocated ==
  pc = "failed" => /\ error = "Ok" => text[pos - 1] = "9"
                   /\ line = 1 + Len(SelectSeq(SubSeq(text, 1, pos - 1), LAMBDA c : c = "nl"))
==============================================================================
