------------------------------- MODULE Files --------------------------------
(***************************************************************************)
(* src/Stp/Base/FileSystem/File.cpp and FilePosix.cpp: processes that read *)
(* and write one path with File::readAll, writeAll and writeAtomically.    *)
(* Every call of the system may fail, and a process may crash between any  *)
(* two of them.  Power failures are left out: nothing is synchronised.     *)
(***************************************************************************)
EXTENDS Naturals, Sequences

CONSTANTS
  Writers, Readers,
  Atomic,     \* the writers that call writeAtomically; the others call writeAll
  Value,      \* what is in the file at first, and what each writer writes, once
  Old, NONE

VARIABLES
  path,     \* the file that has the name
  temps,    \* the files that have temporary names; each writer makes one at most
  bytes,    \* the contents of the files
  proc,     \* of each process: where it is, the file of its FileStream, the offset
            \* there, what it has read of how many bytes, and how its call ended
  spoilt,   \* history: the files that a writeAll was let at
  excused   \* history: the temporary files left by a crash or by a second failure

vars == <<path, temps, bytes, proc, spoilt, excused>>

Files == Writers \cup {Old}
Idle == [at |-> "begin", on |-> NONE, pos |-> 0, end |-> 0, got |-> <<>>, outcome |-> "none"]

Init ==
  /\ path = Old /\ temps = {}
  /\ bytes = [f \in Files |-> IF f = Old THEN Value[Old] ELSE <<>>]
  /\ proc = [p \in Writers \cup Readers |-> Idle]
  /\ spoilt = {} /\ excused = {}

At(p, place) == proc[p].at = place
Goes(p, place) == proc' = [proc EXCEPT ![p].at = place]

\* The call ends, and its FileStream with it.
Ends(p, outcome) == proc' = [proc EXCEPT ![p].at = "done", ![p].on = NONE, ![p].outcome = outcome]

Opens(p, f) == proc' = [proc EXCEPT ![p].at = IF p \in Readers THEN "length" ELSE "write", ![p].on = f]

Stays == UNCHANGED <<path, temps, bytes, spoilt, excused>>

------------------------------------------------------------------------------
(* writeAtomically, and the writing that it shares with writeAll. *)

createTemporaryIn(p) ==
  /\ At(p, "begin") /\ p \in Atomic
  /\ \/ temps' = temps \cup {p} /\ Goes(p, "open") /\ UNCHANGED <<path, bytes, spoilt, excused>>
     \/ Ends(p, "threw") /\ Stays

\* Mutation: the path is opened, not the temporary file.
TargetAtPath(p) == IF path = NONE THEN p ELSE path

Target(p) == p

\* Opening is not within the try: the temporary file stays if it fails.
openTemporary(p) ==
  /\ At(p, "open")
  /\ UNCHANGED <<path, temps, bytes, spoilt>>
  /\ \/ Opens(p, Target(p)) /\ UNCHANGED excused
     \/ Ends(p, "threw") /\ excused' = excused \cup {p}

\* FileMode::Create; open may fail before it has changed anything.
openForWriteAll(p) ==
  /\ At(p, "begin") /\ p \in Writers \ Atomic
  /\ UNCHANGED <<temps, excused>>
  /\ LET f == IF path = NONE THEN p ELSE path
     IN \/ /\ path' = f /\ bytes' = [bytes EXCEPT ![f] = <<>>] /\ spoilt' = spoilt \cup {f}
           /\ Opens(p, f)
        \/ Ends(p, "threw") /\ UNCHANGED <<path, bytes, spoilt>>

\* Where the exception of a call within the try goes; writeAll has none.
Threw(p, place) == IF p \in Atomic THEN Goes(p, place) ELSE Ends(p, "threw")

\* One turn of the loop of FileStream::write.
S == INSTANCE StreamSpec WITH content <- bytes, position <- path, result <- proc, Inputs <- {}, MaxLength <- 0

write(p) ==
  /\ At(p, "write")
  /\ LET f == proc[p].on
         pos == proc[p].pos
     IN \/ \E k \in 1 .. Len(Value[p]) - pos :
             /\ bytes' = [bytes EXCEPT ![f] = S!Written(@, pos, SubSeq(Value[p], pos + 1, pos + k))]
             /\ proc' = [proc EXCEPT ![p].pos = pos + k, ![p].at = IF pos + k = Len(Value[p]) THEN "close" ELSE @]
        \/ Threw(p, "catch") /\ UNCHANGED bytes
  /\ UNCHANGED <<path, temps, spoilt, excused>>

\* The stream is closed even if that throws: the handler then only removes.
close(p) ==
  /\ At(p, "close") /\ Stays
  /\ \/ p \in Atomic /\ proc' = [proc EXCEPT ![p].at = "replace", ![p].on = NONE]
     \/ p \in Atomic /\ proc' = [proc EXCEPT ![p].at = "remove", ![p].on = NONE]
     \/ p \notin Atomic /\ \E outcome \in {"returned", "threw"} : Ends(p, outcome)

replace(p) ==
  /\ At(p, "replace")
  /\ UNCHANGED <<bytes, spoilt, excused>>
  /\ \/ path' = p /\ temps' = temps \ {p} /\ Ends(p, "returned")
     \/ Goes(p, "remove") /\ UNCHANGED <<path, temps>>

\* The handler; an exception of close leaves it.
catch(p) ==
  /\ At(p, "catch")
  /\ UNCHANGED <<path, temps, bytes, spoilt>>
  /\ \/ proc' = [proc EXCEPT ![p].at = "remove", ![p].on = NONE] /\ UNCHANGED excused
     \/ Ends(p, "threw") /\ excused' = excused \cup {p}

tryRemove(p) ==
  /\ At(p, "remove")
  /\ Ends(p, "threw")
  /\ UNCHANGED <<path, bytes, spoilt>>
  /\ \/ temps' = temps \ {p} /\ UNCHANGED excused
     \/ UNCHANGED temps /\ excused' = excused \cup {p}

------------------------------------------------------------------------------
(* readAll. *)

openForReadAll(p) ==
  /\ p \in Readers /\ proc[p].at \in {"begin", "done"} /\ Stays
  /\ \/ path # NONE /\ proc' = [proc EXCEPT ![p] = [Idle EXCEPT !.at = "length", !.on = path]]
     \/ proc' = [proc EXCEPT ![p] = [Idle EXCEPT !.at = "done", !.outcome = "threw"]]

getLength(p) ==
  /\ At(p, "length") /\ Stays
  /\ \/ proc' = [proc EXCEPT ![p].at = "read", ![p].end = Len(bytes[proc[p].on])]
     \/ Ends(p, "threw")

\* One turn of the loop of FileStream::readAtMost; Stream::read throws when it
\* comes to the end of the file.
read(p) ==
  /\ At(p, "read") /\ Stays
  /\ LET content == bytes[proc[p].on]
         pos == proc[p].pos
     IN \/ pos = proc[p].end /\ Goes(p, "closeRead")
        \/ \E k \in 1 .. proc[p].end - pos :
             /\ pos + k <= Len(content)
             /\ proc' = [proc EXCEPT ![p].pos = pos + k, ![p].got = @ \o SubSeq(content, pos + 1, pos + k)]
        \/ pos < proc[p].end /\ Ends(p, "threw")

\* The file that was read is still known, for what is checked.
closeRead(p) ==
  /\ At(p, "closeRead") /\ Stays
  /\ \E outcome \in {"returned", "threw"} : proc' = [proc EXCEPT ![p].at = "done", ![p].outcome = outcome]

------------------------------------------------------------------------------
\* File::remove of the path.
remove ==
  /\ path # NONE /\ path' = NONE
  /\ UNCHANGED <<temps, bytes, proc, spoilt, excused>>

Crash(p) ==
  /\ proc[p].at \notin {"begin", "done"}
  /\ Ends(p, "crashed")
  /\ excused' = excused \cup (temps \cap {p})
  /\ UNCHANGED <<path, temps, bytes, spoilt>>

Next ==
  \/ \E p \in Writers :
       \/ createTemporaryIn(p) \/ openTemporary(p) \/ openForWriteAll(p)
       \/ write(p) \/ close(p) \/ replace(p) \/ catch(p) \/ tryRemove(p)
  \/ \E p \in Readers : openForReadAll(p) \/ getLength(p) \/ read(p) \/ closeRead(p)
  \/ \E p \in Writers \cup Readers : Crash(p)
  \/ remove

Spec == Init /\ [][Next]_vars

------------------------------------------------------------------------------
(* Correctness. *)

\* Whoever crashes, fails or is overtaken: but for writeAll, the path has a whole
\* value, of a writer whose call has returned.
PathIsWhole ==
  path \notin spoilt \cup {NONE} =>
    bytes[path] = Value[path] /\ (path \in Atomic => proc[path].outcome = "returned")

\* A read that returns has got a whole value, which the path had when it was
\* opened, however the path is replaced or removed meanwhile.
ReadsAreWhole ==
  \A p \in Readers : proc[p].outcome = "returned" /\ proc[p].on \notin spoilt => proc[p].got = Value[proc[p].on]

\* A temporary file is somebody's who will replace or remove it, unless a crash
\* or a second failure has left it.
LeftoversAreExcused ==
  temps \subseteq excused \cup {p \in Atomic : proc[p].at \in {"open", "write", "close", "replace", "catch", "remove"}}
==============================================================================
