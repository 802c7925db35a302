---------------------------- MODULE AtExitProofs ----------------------------
(***************************************************************************)
(* Proofs about AtExit.                                                    *)
(*                                                                         *)
(* The callbacks of a manager that were registered in time are in three    *)
(* places: its stack until processing begins, then the tasks of the        *)
(* outermost run, then those that have started.  IInv says that the tasks  *)
(* are always what is left of the registrations when the started ones are  *)
(* taken away from the end.                                                *)
(***************************************************************************)
EXTENDS AtExit, SequenceTheorems, TLAPS

Managers == [stack : Seq(Callbacks), processing : BOOLEAN]
Runs == [tasks : Seq(Callbacks), dtor : BOOLEAN]
Histories == [registered : Seq(Callbacks), started : Seq(Callbacks), late : SUBSET Callbacks]

AllLate(q, h) == \A i \in 1 .. Len(q) : q[i] \in h.late

Complete(h) == Len(h.started) = Len(h.registered)

\* A manager and its history, whoever is processing.
ManagerInv(m, h) ==
  /\ ~m.processing => m.stack = h.registered /\ h.started = <<>> /\ h.late = {}
  /\ m.processing => AllLate(m.stack, h)
  /\ \A i \in 1 .. Len(h.registered) : h.registered[i] \notin h.late
  /\ Len(h.started) <= Len(h.registered)
  /\ \A i \in 1 .. Len(h.started) : h.started[i] = h.registered[Len(h.registered) + 1 - i]
  /\ Asserts => h.late = {}

\* The tasks are what has not started yet.
Timely(q, h) ==
  /\ Len(q) + Len(h.started) = Len(h.registered)
  /\ \A i \in 1 .. Len(q) : q[i] = h.registered[i]

Typed ==
  /\ managers \in Seq(Managers)
  /\ runs \in Seq(Runs)
  /\ panicked \in {"no", "no manager", "too late"}
  /\ history \in Seq(Histories)
  /\ Len(history) = Len(managers)
  /\ runs # <<>> => managers # <<>> /\ managers[Len(managers)].processing

EachManager == \A d \in 1 .. Len(managers) : ManagerInv(managers[d], history[d])

\* Hidden managers, and the top one when no run is active, have nothing to do.
NobodyWaits ==
  \A d \in 1 .. Len(managers) :
    managers[d].processing /\ (d < Len(managers) \/ runs = <<>>) => Complete(history[d])

Outermost ==
  runs # <<>> => LET h == history[Len(managers)]
                 IN Timely(runs[1].tasks, h) \/ (Complete(h) /\ AllLate(runs[1].tasks, h))

Nested ==
  \A k \in 2 .. Len(runs) : AllLate(runs[k].tasks, history[Len(managers)]) /\ ~runs[k].dtor

IInv == Typed /\ EachManager /\ NobodyWaits /\ Outermost /\ Nested

------------------------------------------------------------------------------

\* The sequence without its last element.
LEMMA FrontFacts ==
  ASSUME NEW S, NEW q \in Seq(S), q # <<>>
  PROVE  /\ Front(q) \in Seq(S)
         /\ Len(Front(q)) = Len(q) - 1
         /\ \A i \in 1 .. Len(q) - 1 : Front(q)[i] = q[i]
         /\ Len(q) \in Nat \ {0}
<1>1. Len(q) \in Nat \ {0}
  OBVIOUS
<1>2. \A i \in 1 .. Len(q) - 1 : q[i] \in S
  BY <1>1
<1> DEFINE n == Len(q) - 1
<1>3. n \in Nat
  BY <1>1
<1> HIDE DEF n
<1>4. /\ SubSeq(q, 1, n) \in Seq(S)
      /\ Len(SubSeq(q, 1, n)) = IF 1 <= n THEN n - 1 + 1 ELSE 0
      /\ \A i \in 1 .. n - 1 + 1 : SubSeq(q, 1, n)[i] = q[1 + i - 1]
  BY <1>2, <1>3, SubSeqProperties, 1 \in Int DEF n
<1>5. Len(SubSeq(q, 1, n)) = n /\ \A i \in 1 .. n : SubSeq(q, 1, n)[i] = q[i]
  BY <1>3, <1>4
<1> QED
  BY <1>1, <1>4, <1>5 DEF n, Front

\* Appending keeps the elements.
LEMMA AppendFacts ==
  ASSUME NEW S, NEW q \in Seq(S), NEW e \in S
  PROVE  /\ Append(q, e) \in Seq(S)
         /\ Len(Append(q, e)) = Len(q) + 1
         /\ \A i \in 1 .. Len(q) : Append(q, e)[i] = q[i]
         /\ Append(q, e)[Len(q) + 1] = e
         /\ Len(q) \in Nat
  OBVIOUS

\* Init establishes the invariant.
LEMMA InitIInv == Init => IInv
  BY DEF Init, IInv, Typed, EachManager, NobodyWaits, Outermost, Nested

LEMMA CreateIInv ==
  ASSUME IInv, NEW shadow \in BOOLEAN, Create(shadow)
  PROVE  IInv'
<1> DEFINE m == [stack |-> <<>>, processing |-> FALSE]
           h == [registered |-> <<>>, started |-> <<>>, late |-> {}]
<1>1. m \in Managers /\ h \in Histories
  BY DEF Managers, Histories
<1>2. /\ managers' = Append(managers, m) /\ history' = Append(history, h)
      /\ runs = <<>> /\ runs' = <<>> /\ panicked' = panicked
  BY DEF Create
<1> HIDE DEF m, h
<1>3. managers \in Seq(Managers) /\ history \in Seq(Histories) /\ Len(history) = Len(managers)
  BY DEF IInv, Typed
<1>4. /\ managers' \in Seq(Managers) /\ Len(managers') = Len(managers) + 1
      /\ \A i \in 1 .. Len(managers) : managers'[i] = managers[i]
      /\ managers'[Len(managers) + 1] = m
      /\ Len(managers) \in Nat
  BY <1>1, <1>2, <1>3, AppendFacts
<1>5. /\ history' \in Seq(Histories) /\ Len(history') = Len(managers) + 1
      /\ \A i \in 1 .. Len(managers) : history'[i] = history[i]
      /\ history'[Len(managers) + 1] = h
  BY <1>1, <1>2, <1>3, AppendFacts
<1>6. Typed'
  BY <1>2, <1>4, <1>5 DEF IInv, Typed
<1>7. ManagerInv(m, h) /\ ~m.processing
  BY DEF ManagerInv, m, h
<1>8. EachManager'
  <2> SUFFICES ASSUME NEW d \in 1 .. Len(managers) + 1
               PROVE  ManagerInv(managers'[d], history'[d])
    BY <1>4 DEF EachManager, ManagerInv, AllLate
  <2>1. CASE d \in 1 .. Len(managers)
    BY <2>1, <1>4, <1>5 DEF IInv, EachManager
  <2>2. CASE d = Len(managers) + 1
    BY <2>2, <1>4, <1>5, <1>7
  <2> QED
    BY <2>1, <2>2, <1>4
<1>9. NobodyWaits'
  <2> SUFFICES ASSUME NEW d \in 1 .. Len(managers) + 1, managers'[d].processing
               PROVE  Complete(history'[d])
    BY <1>4 DEF NobodyWaits, Complete
  <2>1. d \in 1 .. Len(managers)
    BY <1>4, <1>7
  <2> QED
    BY <2>1, <1>2, <1>4, <1>5 DEF IInv, NobodyWaits
<1>10. Outermost' /\ Nested'
  BY <1>2 DEF Outermost, Nested
<1> QED
  BY <1>6, <1>8, <1>9, <1>10 DEF IInv


\* Register, in time or too late.
LEMMA RegisterIInv ==
  ASSUME IInv, NEW c \in Callbacks, Register(c)
  PROVE  IInv'
<1> DEFINE D == Len(managers)
           m == managers[D]
           h == history[D]
           mm == [m EXCEPT !.stack = Append(@, c)]
           hh == IF m.processing THEN [h EXCEPT !.late = @ \cup {c}]
                                 ELSE [h EXCEPT !.registered = Append(@, c)]
<1>1. /\ managers \in Seq(Managers) /\ history \in Seq(Histories) /\ Len(history) = D
      /\ D \in Nat /\ D # 0
  <2>1. managers # <<>> /\ managers \in Seq(Managers) /\ history \in Seq(Histories) /\ Len(history) = D
    BY DEF Register, IInv, Typed
  <2> QED
    BY <2>1
<1>2. m \in Managers /\ h \in Histories /\ ManagerInv(m, h)
  BY <1>1 DEF IInv, EachManager
<1>3. runs' = runs /\ panicked' = panicked
  BY DEF Register
<1>4. managers' = [managers EXCEPT ![D] = mm]
  BY DEF Register, Depth
<1>5. history' = [history EXCEPT ![D] = hh]
  BY DEF Register, Depth
<1>6. /\ m.processing => ~Asserts
      /\ c \notin h.late
      /\ \A i \in 1 .. Len(h.registered) : h.registered[i] # c
  <2>1. (m.processing => ~Asserts) /\ c \notin h.late /\ ~Known(c)
    BY DEF Register, Depth
  <2> QED
    BY <2>1, <1>2 DEF Known, Histories, Depth
<1>7. /\ mm \in Managers /\ mm.processing = m.processing
      /\ Len(mm.stack) = Len(m.stack) + 1 /\ mm.stack[Len(m.stack) + 1] = c
      /\ \A i \in 1 .. Len(m.stack) : mm.stack[i] = m.stack[i]
  <2>1. m.stack \in Seq(Callbacks)
    BY <1>2 DEF Managers
  <2>2. mm.stack = Append(m.stack, c) /\ mm.processing = m.processing
    BY <1>2 DEF Managers
  <2>3. Append(m.stack, c) \in Seq(Callbacks)
    BY <2>1, AppendFacts
  <2>4. mm \in Managers
    BY <1>2, <2>3 DEF Managers
  <2> HIDE DEF mm, m
  <2> QED
    BY <2>1, <2>2, <2>4, AppendFacts
<1>8. CASE ~m.processing
  <2>1. hh = [h EXCEPT !.registered = Append(@, c)]
    BY <1>8
  <2>2. /\ hh \in Histories /\ hh.started = h.started /\ hh.late = h.late
        /\ hh.registered = Append(h.registered, c)
    <3>1. Append(h.registered, c) \in Seq(Callbacks)
      BY <1>2, AppendFacts DEF Histories
    <3> QED
      BY <2>1, <1>2, <3>1 DEF Histories
  <2>3. m.stack = h.registered /\ h.started = <<>> /\ h.late = {}
    BY <1>2, <1>8 DEF ManagerInv
  <2>4. mm.stack = Append(m.stack, c)
    BY <1>2 DEF Managers
  <2>5. Len(hh.registered) \in Nat /\ Len(hh.started) = 0
    BY <2>2, <2>3 DEF Histories
  <2>6. ManagerInv(mm, hh)
    BY <2>2, <2>3, <2>4, <2>5, <1>7, <1>8 DEF ManagerInv
  <2>7. runs = <<>>
    BY <1>8 DEF IInv, Typed
  <2> HIDE DEF mm, hh
  <2>8. /\ managers' \in Seq(Managers) /\ Len(managers') = D
        /\ managers'[D] = mm /\ \A d \in 1 .. D - 1 : managers'[d] = managers[d]
    BY <1>1, <1>4, <1>7
  <2>9. /\ history' \in Seq(Histories) /\ Len(history') = D
        /\ history'[D] = hh /\ \A d \in 1 .. D - 1 : history'[d] = history[d]
    BY <1>1, <1>5, <2>2
  <2>10. Typed'
    BY <2>7, <2>8, <2>9, <1>3 DEF IInv, Typed
  <2>11. EachManager'
    <3> SUFFICES ASSUME NEW d \in 1 .. D PROVE ManagerInv(managers'[d], history'[d])
      BY <2>8 DEF EachManager, ManagerInv, AllLate
    <3>1. CASE d = D
      BY <3>1, <2>6, <2>8, <2>9
    <3>2. CASE d \in 1 .. D - 1
      BY <3>2, <1>1, <2>8, <2>9 DEF IInv, EachManager
    <3> QED
      BY <3>1, <3>2, <1>1
  <2>12. NobodyWaits'
    <3> SUFFICES ASSUME NEW d \in 1 .. D, managers'[d].processing PROVE Complete(history'[d])
      BY <2>8 DEF NobodyWaits, Complete
    <3>1. d \in 1 .. D - 1
      BY <1>1, <1>7, <1>8, <2>8
    <3> QED
      BY <3>1, <1>1, <2>8, <2>9, <2>7 DEF IInv, NobodyWaits
  <2>13. Outermost' /\ Nested'
    BY <2>7, <1>3 DEF Outermost, Nested
  <2> QED
    BY <2>10, <2>11, <2>12, <2>13 DEF IInv
<1>9. CASE m.processing
  <2>1. hh = [h EXCEPT !.late = @ \cup {c}]
    BY <1>9
  <2>2. /\ hh \in Histories /\ hh.started = h.started /\ hh.registered = h.registered
        /\ hh.late = h.late \cup {c}
    BY <2>1, <1>2 DEF Histories
  <2>3. ~Asserts
    BY <1>6, <1>9
  <2>4. AllLate(mm.stack, hh)
    BY <1>2, <1>7, <1>9, <2>2 DEF AllLate, ManagerInv, Managers
  <2>5. ManagerInv(mm, hh)
    BY <1>2, <1>6, <1>7, <1>9, <2>2, <2>3, <2>4 DEF ManagerInv
  <2> HIDE DEF mm, hh
  <2>6. /\ managers' \in Seq(Managers) /\ Len(managers') = D
        /\ managers'[D] = mm /\ \A d \in 1 .. D - 1 : managers'[d] = managers[d]
    BY <1>1, <1>4, <1>7
  <2>7. /\ history' \in Seq(Histories) /\ Len(history') = D
        /\ history'[D] = hh /\ \A d \in 1 .. D - 1 : history'[d] = history[d]
    BY <1>1, <1>5, <2>2
  <2>8. managers' # <<>> /\ managers'[D].processing
    BY <1>1, <1>7, <1>9, <2>6
  <2>9. Typed'
    BY <2>6, <2>7, <2>8, <1>3 DEF IInv, Typed
  <2>10. EachManager'
    <3> SUFFICES ASSUME NEW d \in 1 .. D PROVE ManagerInv(managers'[d], history'[d])
      BY <2>6 DEF EachManager, ManagerInv, AllLate
    <3>1. CASE d = D
      BY <3>1, <2>5, <2>6, <2>7
    <3>2. CASE d \in 1 .. D - 1
      BY <3>2, <1>1, <2>6, <2>7 DEF IInv, EachManager
    <3> QED
      BY <3>1, <3>2, <1>1
  <2>11. \A q : AllLate(q, h) => AllLate(q, hh)
    BY <2>2 DEF AllLate
  <2>12. Complete(h) <=> Complete(hh)
    BY <2>2 DEF Complete
  <2>13. \A q : Timely(q, h) => Timely(q, hh)
    BY <2>2 DEF Timely
  <2>14. NobodyWaits'
    <3> SUFFICES ASSUME NEW d \in 1 .. D, managers'[d].processing, d < D \/ runs = <<>>
                 PROVE  Complete(history'[d])
      BY <2>6, <1>3 DEF NobodyWaits, Complete
    <3>1. CASE d = D
      BY <3>1, <1>1, <1>9, <2>7, <2>12 DEF IInv, NobodyWaits
    <3>2. CASE d \in 1 .. D - 1
      BY <3>2, <1>1, <2>6, <2>7 DEF IInv, NobodyWaits
    <3> QED
      BY <3>1, <3>2, <1>1
  <2>15. Outermost'
    BY <2>6, <2>7, <2>11, <2>12, <2>13, <1>3 DEF IInv, Outermost
  <2>16. Nested'
    BY <2>6, <2>7, <2>11, <1>3 DEF IInv, Nested
  <2> QED
    BY <2>9, <2>10, <2>14, <2>15, <2>16 DEF IInv
<1> QED
  BY <1>8, <1>9

\* A failed ASSERT changes nothing else.
LEMMA RegisterFailsIInv ==
  ASSUME IInv, NEW c \in Callbacks, RegisterFails(c)
  PROVE  IInv'
<1>1. managers' = managers /\ runs' = runs /\ history' = history
      /\ panicked' \in {"no manager", "too late"}
  BY DEF RegisterFails
<1>2. Typed'
  BY <1>1 DEF IInv, Typed
<1>3. EachManager'
  BY <1>1 DEF IInv, EachManager, ManagerInv, AllLate
<1>4. NobodyWaits'
  BY <1>1 DEF IInv, NobodyWaits, Complete
<1>5. Outermost'
  BY <1>1 DEF IInv, Outermost, Timely, Complete, AllLate
<1>6. Nested'
  BY <1>1 DEF IInv, Nested, AllLate
<1> QED
  BY <1>2, <1>3, <1>4, <1>5, <1>6 DEF IInv


\* The locked part of processCallbacksNow.
LEMMA ProcessIInv ==
  ASSUME IInv, NEW dtor \in BOOLEAN, Process(dtor)
  PROVE  IInv'
<1> DEFINE D == Len(managers)
           m == managers[D]
           h == history[D]
           mm == [stack |-> <<>>, processing |-> TRUE]
           r == [tasks |-> m.stack, dtor |-> dtor]
<1>1. /\ managers \in Seq(Managers) /\ history \in Seq(Histories) /\ Len(history) = D
      /\ D \in Nat /\ D # 0 /\ runs \in Seq(Runs) /\ Len(runs) \in Nat
  <2>1. /\ managers # <<>> /\ managers \in Seq(Managers) /\ history \in Seq(Histories)
        /\ Len(history) = D /\ runs \in Seq(Runs)
    BY DEF Process, IInv, Typed
  <2> QED
    BY <2>1
<1>2. m \in Managers /\ h \in Histories /\ ManagerInv(m, h)
  BY <1>1 DEF IInv, EachManager
<1>3. history' = history /\ panicked' = panicked
  BY DEF Process
<1>4. managers' = [managers EXCEPT ![D] = mm] /\ runs' = Append(runs, r)
  BY DEF Process, Depth
<1>5. mm \in Managers /\ r \in Runs /\ (dtor => runs = <<>>)
  BY <1>2 DEF Managers, Runs, Process
<1>6. r.tasks = m.stack /\ r.dtor = dtor /\ mm.stack = <<>> /\ mm.processing
  OBVIOUS
<1>7. ManagerInv(mm, h)
  BY <1>2 DEF ManagerInv, AllLate, Histories
<1>8. m.processing => AllLate(m.stack, h)
  BY <1>2 DEF ManagerInv
<1>9. ~m.processing => runs = <<>> /\ Timely(m.stack, h)
  <2>1. ~m.processing => runs = <<>>
    BY <1>1 DEF IInv, Typed
  <2>2. Len(h.registered) \in Nat /\ Len(<<>>) = 0
    BY <1>2 DEF Histories
  <2>3. ASSUME ~m.processing PROVE Timely(m.stack, h)
    <3>1. m.stack = h.registered /\ h.started = <<>>
      BY <2>3, <1>2 DEF ManagerInv
    <3> HIDE DEF m, h
    <3> QED
      BY <2>2, <3>1 DEF Timely
  <2> QED
    BY <2>1, <2>3
<1>10. m.processing /\ runs = <<>> => Complete(h)
  BY <1>1 DEF IInv, NobodyWaits
<1> HIDE DEF mm, r
<1>11. /\ managers' \in Seq(Managers) /\ Len(managers') = D
       /\ managers'[D] = mm /\ \A d \in 1 .. D - 1 : managers'[d] = managers[d]
  BY <1>1, <1>4, <1>5
<1>12. /\ runs' \in Seq(Runs) /\ Len(runs') = Len(runs) + 1
       /\ \A i \in 1 .. Len(runs) : runs'[i] = runs[i]
       /\ runs'[Len(runs) + 1] = r
  BY <1>1, <1>4, <1>5, AppendFacts
<1>13. Typed'
  <2>1. managers' # <<>>
    BY <1>1, <1>11
  <2> QED
    BY <2>1, <1>3, <1>6, <1>11, <1>12 DEF IInv, Typed
<1>14. EachManager'
  <2> SUFFICES ASSUME NEW d \in 1 .. D PROVE ManagerInv(managers'[d], history[d])
    BY <1>3, <1>11 DEF EachManager, ManagerInv, AllLate
  <2>1. CASE d = D
    BY <2>1, <1>7, <1>11
  <2>2. CASE d \in 1 .. D - 1
    BY <2>2, <1>1, <1>11 DEF IInv, EachManager
  <2> QED
    BY <2>1, <2>2, <1>1
<1>15. NobodyWaits'
  <2> SUFFICES ASSUME NEW d \in 1 .. D - 1, managers'[d].processing PROVE Complete(history[d])
    BY <1>1, <1>3, <1>11, <1>12 DEF NobodyWaits, Complete
  <2> QED
    BY <1>1, <1>11 DEF IInv, NobodyWaits
<1>16. Outermost'
  <2> SUFFICES Timely(runs'[1].tasks, h) \/ (Complete(h) /\ AllLate(runs'[1].tasks, h))
    BY <1>3, <1>11 DEF Outermost, Timely, Complete, AllLate
  <2>1. CASE runs = <<>>
    BY <2>1, <1>6, <1>8, <1>9, <1>10, <1>12
  <2>2. CASE runs # <<>>
    BY <2>2, <1>1, <1>12 DEF IInv, Outermost
  <2> QED
    BY <2>1, <2>2
<1>17. Nested'
  <2> SUFFICES ASSUME NEW k \in 2 .. Len(runs) + 1
               PROVE  AllLate(runs'[k].tasks, h) /\ ~runs'[k].dtor
    BY <1>3, <1>11, <1>12 DEF Nested, AllLate
  <2>1. CASE k \in 2 .. Len(runs)
    BY <2>1, <1>1, <1>12 DEF IInv, Nested
  <2>2. CASE k = Len(runs) + 1
    <3>1. runs # <<>>
      BY <2>2, <1>1
    <3> QED
      BY <2>2, <3>1, <1>5, <1>6, <1>8, <1>9, <1>12
  <2> QED
    BY <2>1, <2>2, <1>1
<1> QED
  BY <1>13, <1>14, <1>15, <1>16, <1>17 DEF IInv

\* The loop takes the last task.
LEMMA RunTaskIInv ==
  ASSUME IInv, NEW c \in Callbacks, RunTask(c)
  PROVE  IInv'
<1> DEFINE D == Len(managers)
           h == history[D]
           N == Len(runs)
           r == runs[N]
           n == Len(r.tasks)
           rr == [r EXCEPT !.tasks = Front(@)]
           hh == IF Known(c) THEN [h EXCEPT !.started = Append(@, c)] ELSE h
<1>1. /\ managers \in Seq(Managers) /\ history \in Seq(Histories) /\ Len(history) = D
      /\ D \in Nat /\ D # 0 /\ runs \in Seq(Runs) /\ N \in Nat /\ N # 0
      /\ managers[D].processing
  <2>1. /\ managers # <<>> /\ managers \in Seq(Managers) /\ history \in Seq(Histories)
        /\ Len(history) = D /\ runs \in Seq(Runs) /\ runs # <<>> /\ managers[D].processing
    BY DEF RunTask, IInv, Typed
  <2> QED
    BY <2>1
<1>2. r \in Runs /\ h \in Histories /\ ManagerInv(managers[D], h)
  BY <1>1 DEF IInv, EachManager
<1>3. managers' = managers /\ panicked' = panicked
  BY DEF RunTask
<1>4. runs' = [runs EXCEPT ![N] = rr] /\ r.tasks # <<>> /\ c = r.tasks[n]
  BY DEF RunTask, Inner
<1>5. history' = [history EXCEPT ![D] = hh]
  <2>1. CASE Known(c)
    BY <2>1 DEF RunTask, Depth
  <2>2. CASE ~Known(c)
    <3>1. history' = history /\ hh = history[D]
      BY <2>2 DEF RunTask
    <3> HIDE DEF hh
    <3> QED
      BY <3>1, <1>1
  <2> QED
    BY <2>1, <2>2
<1>6. /\ rr.tasks \in Seq(Callbacks) /\ rr.dtor = r.dtor /\ rr \in Runs
      /\ Len(rr.tasks) = n - 1 /\ n \in Nat \ {0}
      /\ \A i \in 1 .. n - 1 : rr.tasks[i] = r.tasks[i]
  <2>1. r.tasks \in Seq(Callbacks)
    BY <1>2 DEF Runs
  <2>2. rr.tasks = Front(r.tasks) /\ rr.dtor = r.dtor
    BY <1>2 DEF Runs
  <2>3. Front(r.tasks) \in Seq(Callbacks)
    BY <2>1, <1>4, FrontFacts
  <2>4. rr \in Runs
    BY <1>2, <2>3 DEF Runs
  <2> HIDE DEF rr, r
  <2> QED
    BY <2>1, <2>2, <2>3, <2>4, <1>4, FrontFacts
<1>7. Known(c) <=> \E i \in 1 .. Len(h.registered) : h.registered[i] = c
  BY <1>2 DEF Known, Histories, Depth
<1>8. hh \in Histories /\ hh.registered = h.registered /\ hh.late = h.late
  <2>1. Append(h.started, c) \in Seq(Callbacks)
    BY <1>2, AppendFacts DEF Histories
  <2> QED
    BY <1>2, <2>1 DEF Histories
<1>9. ~Known(c) => hh = h
  OBVIOUS
<1>10. Known(c) => /\ Len(hh.started) = Len(h.started) + 1
                   /\ hh.started[Len(h.started) + 1] = c
                   /\ \A i \in 1 .. Len(h.started) : hh.started[i] = h.started[i]
  <2>1. h.started \in Seq(Callbacks)
    BY <1>2 DEF Histories
  <2>2. Known(c) => hh.started = Append(h.started, c)
    BY <1>2 DEF Histories
  <2> HIDE DEF hh, h
  <2> QED
    BY <2>1, <2>2, AppendFacts
<1> DEFINE started == Len(h.started)
           registered == Len(h.registered)
<1>a. started \in Nat /\ registered \in Nat
  BY <1>2 DEF Histories
<1>b. r = runs[N] /\ h = history[D] /\ n = Len(r.tasks) /\ started = Len(h.started)
      /\ registered = Len(h.registered)
  OBVIOUS
<1>c. runs # <<>>
  BY <1>1
<1>d. N \in Nat /\ N >= 1 /\ D \in Nat /\ D >= 1
  BY <1>1
<1>e. n \in Nat /\ n >= 1
  BY <1>6
<1>f. n = Len(r.tasks) /\ c = r.tasks[n]
  BY <1>4
<1>g. started = Len(h.started) /\ registered = Len(h.registered)
  OBVIOUS
<1>18. N # 1 => AllLate(r.tasks, h) /\ ~r.dtor
  <2> HIDE DEF hh, rr, N
  <2>1. N # 1 => N \in 2 .. N
    BY <1>d
  <2> USE DEF N
  <2> QED
    BY <2>1 DEF IInv, Nested
<1>19. N = 1 => Timely(r.tasks, h) \/ (Complete(h) /\ AllLate(r.tasks, h))
  BY <1>1, <1>c DEF IInv, Outermost
<1> HIDE DEF hh, rr, r, h, n, started, registered
<1>11. AllLate(r.tasks, h) => ~Known(c)
  <2>1. AllLate(r.tasks, h) => c \in h.late
    BY <1>e, <1>f DEF AllLate
  <2> QED
    BY <2>1, <1>2, <1>7 DEF ManagerInv
<1>12. Timely(r.tasks, h) => Known(c) /\ c = h.registered[n] /\ n + started = registered
  <2>0. Timely(r.tasks, h) => n + started = registered
    BY <1>f, <1>g DEF Timely
  <2>1. Timely(r.tasks, h) => n \in 1 .. registered /\ n + started = registered
    BY <2>0, <1>a, <1>e
  <2>2. Timely(r.tasks, h) => c = h.registered[n]
    BY <1>e, <1>f DEF Timely
  <2> QED
    BY <2>1, <2>2, <1>7, <1>g
<1>13. /\ runs' \in Seq(Runs) /\ Len(runs') = N /\ runs'[N] = rr
       /\ \A k \in 1 .. N - 1 : runs'[k] = runs[k]
  BY <1>1, <1>4, <1>6
<1>14. /\ history' \in Seq(Histories) /\ Len(history') = D /\ history'[D] = hh
       /\ \A d \in 1 .. D - 1 : history'[d] = history[d]
  BY <1>1, <1>5, <1>8
<1>15. Typed'
  <2>1. managers # <<>>
    BY <1>d
  <2> QED
    BY <2>1, <1>1, <1>3, <1>13, <1>14 DEF IInv, Typed
<1>16. \A q : AllLate(q, h) => AllLate(q, hh)
  BY <1>8 DEF AllLate
<1>17. AllLate(r.tasks, h) => AllLate(rr.tasks, hh)
  BY <1>6, <1>8, <1>b DEF AllLate
<1>20. Timely(r.tasks, h) => Timely(rr.tasks, hh)
  <2> SUFFICES ASSUME Timely(r.tasks, h) PROVE Timely(rr.tasks, hh)
    OBVIOUS
  <2>1. n + started = registered
    BY <1>12
  <2>2. Len(rr.tasks) + Len(hh.started) = Len(hh.registered)
    <3>1. Len(hh.started) = started + 1 /\ Len(hh.registered) = registered
      BY <1>8, <1>10, <1>12, <1>g
    <3>2. Len(rr.tasks) = n - 1
      BY <1>6
    <3> QED
      BY <2>1, <3>1, <3>2, <1>a, <1>e
  <2>3. \A i \in 1 .. n - 1 : rr.tasks[i] = h.registered[i]
    BY <1>b, <1>6 DEF Timely
  <2> QED
    BY <2>2, <2>3, <1>6, <1>8 DEF Timely
<1>21. ManagerInv(managers[D], hh)
  <2>1. CASE ~Known(c)
    BY <2>1, <1>2, <1>9
  <2>2. CASE Known(c)
    <3>1. Timely(r.tasks, h)
      BY <2>2, <1>11, <1>18, <1>19
    <3>2. n + started = registered /\ c = h.registered[n]
      BY <3>1, <1>12
    <3>3. Len(hh.started) <= Len(hh.registered)
      <4>1. Len(hh.started) = started + 1 /\ Len(hh.registered) = registered
        BY <2>2, <1>8, <1>10, <1>g
      <4> QED
        BY <3>2, <4>1, <1>a, <1>e
    <3>4. \A i \in 1 .. Len(hh.started) : hh.started[i] = hh.registered[Len(hh.registered) + 1 - i]
      <4> SUFFICES ASSUME NEW i \in 1 .. Len(h.started) + 1
                   PROVE  hh.started[i] = h.registered[Len(h.registered) + 1 - i]
        BY <2>2, <1>8, <1>10
      <4>1. CASE i = Len(h.started) + 1
        <5>0. i = started + 1
          BY <4>1, <1>g
        <5>1. registered + 1 - i = n
          BY <3>2, <5>0, <1>a, <1>e
        <5> QED
          BY <2>2, <3>2, <4>1, <5>1, <1>g, <1>10
      <4>2. CASE i \in 1 .. Len(h.started)
        BY <2>2, <4>2, <1>2, <1>10 DEF ManagerInv
      <4> QED
        BY <4>1, <4>2, <1>a, <1>g
    <3>5. AllLate(managers[D].stack, hh)
      BY <1>1, <1>2, <1>16 DEF ManagerInv
    <3> QED
      BY <3>3, <3>4, <3>5, <1>1, <1>2, <1>8 DEF ManagerInv
  <2> QED
    BY <2>1, <2>2
<1>22. EachManager'
  <2> SUFFICES ASSUME NEW d \in 1 .. D PROVE ManagerInv(managers[d], history'[d])
    BY <1>3 DEF EachManager, ManagerInv, AllLate
  <2>1. CASE d = D
    BY <2>1, <1>14, <1>21
  <2>2. CASE d \in 1 .. D - 1
    BY <2>2, <1>1, <1>14 DEF IInv, EachManager
  <2> QED
    BY <2>1, <2>2, <1>1
<1>23. NobodyWaits'
  <2> SUFFICES ASSUME NEW d \in 1 .. D - 1, managers[d].processing PROVE Complete(history'[d])
    BY <1>1, <1>3, <1>13 DEF NobodyWaits, Complete
  <2> QED
    BY <1>1, <1>14 DEF IInv, NobodyWaits
<1>24. Outermost'
  <2> SUFFICES Timely(runs'[1].tasks, hh) \/ (Complete(hh) /\ AllLate(runs'[1].tasks, hh))
    BY <1>3, <1>14 DEF Outermost, Timely, Complete, AllLate
  <2>1. CASE N = 1
    <3>1. CASE Timely(r.tasks, h)
      BY <2>1, <3>1, <1>13, <1>20
    <3>2. CASE Complete(h) /\ AllLate(r.tasks, h)
      BY <2>1, <3>2, <1>9, <1>11, <1>13, <1>17
    <3> QED
      BY <2>1, <3>1, <3>2, <1>19
  <2>2. CASE N # 1
    <3>1. hh = h /\ runs'[1] = runs[1]
      BY <2>2, <1>1, <1>9, <1>11, <1>13, <1>18
    <3> QED
      BY <3>1, <1>b, <1>c DEF IInv, Outermost
  <2> QED
    BY <2>1, <2>2
<1>25. Nested'
  <2> SUFFICES ASSUME NEW k \in 2 .. N
               PROVE  AllLate(runs'[k].tasks, hh) /\ ~runs'[k].dtor
    BY <1>3, <1>13, <1>14 DEF Nested, AllLate
  <2>1. CASE k \in 2 .. N - 1
    <3>1. AllLate(runs[k].tasks, h) /\ ~runs[k].dtor
      BY <2>1, <1>b, <1>d DEF IInv, Nested
    <3>2. runs'[k] = runs[k]
      BY <2>1, <1>d, <1>13
    <3> QED
      BY <3>1, <3>2, <1>16
  <2>2. CASE k = N
    <3>1. N # 1
      BY <2>2, <1>d
    <3> QED
      BY <2>2, <3>1, <1>6, <1>13, <1>17, <1>18
  <2> QED
    BY <2>1, <2>2, <1>1
<1> QED
  BY <1>15, <1>22, <1>23, <1>24, <1>25 DEF IInv


\* What the end of the innermost run finds: if it is the only one, all
\* callbacks that were registered in time have started.
LEMMA LastRunIsComplete ==
  ASSUME IInv, runs # <<>>, runs[Len(runs)].tasks = <<>>, Len(runs) = 1
  PROVE  Complete(history[Len(managers)])
<1> DEFINE h == history[Len(managers)]
<1>1. /\ history \in Seq(Histories) /\ Len(history) = Len(managers)
      /\ managers \in Seq(Managers) /\ managers # <<>>
  BY DEF IInv, Typed
<1>2. h \in Histories
  BY <1>1
<1>3. Timely(runs[1].tasks, h) \/ Complete(h)
  BY DEF IInv, Outermost
<1>4. runs[1].tasks = <<>>
  OBVIOUS
<1>5. Len(h.started) \in Nat /\ Len(h.registered) \in Nat /\ Len(<<>>) = 0
  BY <1>2 DEF Histories
<1> HIDE DEF h
<1>6. Timely(<<>>, h) => Complete(h)
  BY <1>5 DEF Timely, Complete
<1> QED
  BY <1>3, <1>4, <1>6 DEF h

\* The end of a run, and of its manager when ~AtExitManager called it.
LEMMA FinishIInv ==
  ASSUME IInv, Finish
  PROVE  IInv'
<1> DEFINE D == Len(managers)
           N == Len(runs)
<1>1. /\ managers \in Seq(Managers) /\ history \in Seq(Histories) /\ Len(history) = D
      /\ runs \in Seq(Runs) /\ runs # <<>> /\ managers # <<>> /\ managers[D].processing
      /\ panicked' = panicked /\ runs' = Front(runs) /\ runs[N].tasks = <<>>
  BY DEF Finish, Inner, IInv, Typed
<1>2. D \in Nat /\ D >= 1 /\ N \in Nat /\ N >= 1
  <2>1. D \in Nat /\ D >= 1
    BY <1>1
  <2>2. N \in Nat /\ N >= 1
    BY <1>1
  <2> QED
    BY <2>1, <2>2
<1>3. runs' \in Seq(Runs) /\ Len(runs') = N - 1 /\ \A k \in 1 .. N - 1 : runs'[k] = runs[k]
  BY <1>1, FrontFacts
<1>4. N = 1 => Complete(history[D])
  BY <1>1, LastRunIsComplete
<1>5. CASE ~runs[N].dtor
  <2>1. managers' = managers /\ history' = history
    BY <1>5 DEF Finish, Inner
  <2>2. Typed'
    BY <1>1, <1>3, <2>1 DEF IInv, Typed
  <2>3. EachManager'
    BY <2>1 DEF IInv, EachManager, ManagerInv, AllLate
  <2>4. NobodyWaits'
    <3> SUFFICES ASSUME NEW d \in 1 .. D, managers[d].processing, d < D \/ runs' = <<>>
                 PROVE  Complete(history[d])
      BY <2>1 DEF NobodyWaits, Complete
    <3>1. CASE d < D
      BY <3>1 DEF IInv, NobodyWaits
    <3>2. CASE d = D
      <4>1. runs' = <<>>
        BY <3>2, <1>2
      <4>2. Len(runs') = 0
        BY <4>1
      <4>3. N = 1
        BY <4>2, <1>2, <1>3
      <4> QED
        BY <3>2, <4>3, <1>4
    <3> QED
      BY <3>1, <3>2, <1>2
  <2>5. Outermost'
    <3> SUFFICES ASSUME runs' # <<>>
                 PROVE  \/ Timely(runs'[1].tasks, history[D])
                        \/ Complete(history[D]) /\ AllLate(runs'[1].tasks, history[D])
      BY <2>1 DEF Outermost, Timely, Complete, AllLate
    <3>1. Len(runs') >= 1
      BY <1>3
    <3>2. 1 \in 1 .. N - 1
      BY <3>1, <1>2, <1>3
    <3>3. runs'[1] = runs[1]
      BY <3>2, <1>3
    <3> QED
      BY <3>3, <1>1 DEF IInv, Outermost
  <2>6. Nested'
    <3> SUFFICES ASSUME NEW k \in 2 .. N - 1
                 PROVE  AllLate(runs'[k].tasks, history[D]) /\ ~runs'[k].dtor
      BY <2>1, <1>3 DEF Nested, AllLate
    <3>1. k \in 1 .. N - 1 /\ k \in 2 .. N
      BY <1>2
    <3> QED
      BY <3>1, <1>3 DEF IInv, Nested
  <2> QED
    BY <2>2, <2>3, <2>4, <2>5, <2>6 DEF IInv
<1>6. CASE runs[N].dtor
  <2>1. managers' = Front(managers) /\ history' = Front(history)
    BY <1>6 DEF Finish, Inner
  <2>2. N = 1
    <3>1. N # 1 => N \in 2 .. N
      BY <1>2
    <3>2. N # 1 => ~runs[N].dtor
      BY <3>1 DEF IInv, Nested
    <3> QED
      BY <3>2, <1>6
  <2>3. runs' = <<>>
    BY <2>2, <1>3
  <2>4. /\ managers' \in Seq(Managers) /\ Len(managers') = D - 1
        /\ \A d \in 1 .. D - 1 : managers'[d] = managers[d]
    BY <2>1, <1>1, FrontFacts
  <2>5. history # <<>>
    BY <1>1, <1>2
  <2>6. /\ history' \in Seq(Histories) /\ Len(history') = D - 1
        /\ \A d \in 1 .. D - 1 : history'[d] = history[d]
    BY <2>1, <2>5, <1>1, FrontFacts
  <2>7. Typed'
    BY <1>1, <1>3, <2>3, <2>4, <2>6 DEF IInv, Typed
  <2>8. EachManager'
    <3> SUFFICES ASSUME NEW d \in 1 .. D - 1 PROVE ManagerInv(managers'[d], history'[d])
      BY <2>4 DEF EachManager, ManagerInv, AllLate
    <3>1. d \in 1 .. D
      BY <1>2
    <3> QED
      BY <3>1, <2>4, <2>6 DEF IInv, EachManager
  <2>9. NobodyWaits'
    <3> SUFFICES ASSUME NEW d \in 1 .. D - 1, managers'[d].processing
                 PROVE  Complete(history'[d])
      BY <2>4 DEF NobodyWaits, Complete
    <3>1. d \in 1 .. D /\ d < D
      BY <1>2
    <3> QED
      BY <3>1, <2>4, <2>6 DEF IInv, NobodyWaits
  <2>10. Outermost'
    BY <2>3 DEF Outermost
  <2>11. Nested'
    BY <1>3, <2>2 DEF Nested
  <2> QED
    BY <2>7, <2>8, <2>9, <2>10, <2>11 DEF IInv
<1> QED
  BY <1>5, <1>6

LEMMA StepIInv == IInv /\ [Next]_vars => IInv'
<1> SUFFICES ASSUME IInv, [Next]_vars PROVE IInv'
  OBVIOUS
<1>1. CASE UNCHANGED vars
  <2>1. managers' = managers /\ runs' = runs /\ history' = history /\ panicked' = panicked
    BY <1>1 DEF vars
  <2>2. Typed'
    BY <2>1 DEF IInv, Typed
  <2>3. EachManager' /\ NobodyWaits'
    BY <2>1 DEF IInv, EachManager, NobodyWaits, ManagerInv, AllLate, Complete
  <2>4. Outermost' /\ Nested'
    BY <2>1 DEF IInv, Outermost, Nested, Timely, AllLate, Complete
  <2> QED
    BY <2>2, <2>3, <2>4 DEF IInv
<1>2. ASSUME NEW shadow \in BOOLEAN, Create(shadow) PROVE IInv'
  BY <1>2, CreateIInv
<1>3. ASSUME NEW c \in Callbacks, Register(c) PROVE IInv'
  BY <1>3, RegisterIInv
<1>4. ASSUME NEW c \in Callbacks, RegisterFails(c) PROVE IInv'
  BY <1>4, RegisterFailsIInv
<1>5. ASSUME NEW c \in Callbacks, RunTask(c) PROVE IInv'
  BY <1>5, RunTaskIInv
<1>6. ASSUME NEW dtor \in BOOLEAN, Process(dtor) PROVE IInv'
  BY <1>6, ProcessIInv
<1>7. CASE Finish
  BY <1>7, FinishIInv
<1> QED
  BY <1>1, <1>2, <1>3, <1>4, <1>5, <1>6, <1>7 DEF Next

LEMMA Invariance == Spec => []IInv
  BY InitIInv, StepIInv, PTL DEF Spec

------------------------------------------------------------------------------

\* The types, for any number of managers, callbacks and nested runs.
THEOREM TypeCorrect == Spec => []TypeOK
<1>1. IInv => TypeOK
  BY DEF IInv, Typed, TypeOK, Managers, Runs, Histories, Depth
<1> QED
  BY <1>1, Invariance, PTL

\* The ASSERT at the end of processCallbacksNow never fails.
THEOREM StackIsEmpty == Spec => []StackStaysEmpty
<1>1. IInv => StackStaysEmpty
  <2> SUFFICES ASSUME IInv, Asserts, NEW d \in 1 .. Len(managers), managers[d].processing
               PROVE  managers[d].stack = <<>>
    BY DEF StackStaysEmpty, Depth
  <2>1. managers[d] \in Managers
    <3>1. managers \in Seq(Managers)
      BY DEF IInv, Typed
    <3> HIDE DEF Managers
    <3> QED
      BY <3>1
  <2>2. AllLate(managers[d].stack, history[d]) /\ history[d].late = {}
    BY DEF IInv, EachManager, ManagerInv
  <2>3. managers[d].stack \in Seq(Callbacks)
    BY <2>1 DEF Managers
  <2>4. \A i \in 1 .. Len(managers[d].stack) : FALSE
    BY <2>2 DEF AllLate
  <2> HIDE DEF Managers
  <2> QED
    BY <2>3, <2>4
<1> QED
  BY <1>1, Invariance, PTL

\* Callbacks start in the reverse order of registration.
THEOREM LastInFirstOut == Spec => []RunsInReverse
<1>1. IInv => RunsInReverse
  BY DEF IInv, EachManager, ManagerInv, RunsInReverse, Depth
<1> QED
  BY <1>1, Invariance, PTL

\* No manager goes before the callbacks registered with it in time have run.
THEOREM NothingIsLost == Spec => NothingTimelyIsLost
<1> DEFINE Kept == Len(managers') < Len(managers) =>
                     Len(history[Depth].started) = Len(history[Depth].registered)
<1>1. IInv /\ [Next]_vars => [Kept]_vars
  <2> SUFFICES ASSUME IInv, Next, Len(managers') < Len(managers)
               PROVE  Complete(history[Len(managers)])
    BY DEF Complete, Depth
  <2>0. managers \in Seq(Managers)
    BY DEF IInv, Typed
  <2>1. managers \in Seq(Managers) /\ Len(managers) \in Nat
    BY <2>0
  <2>2. CASE Finish
    <3>1. runs # <<>> /\ runs[Len(runs)].tasks = <<>> /\ runs \in Seq(Runs)
      BY <2>2 DEF Finish, Inner, IInv, Typed
    <3>2. runs[Len(runs)].dtor
      BY <2>1, <2>2 DEF Finish, Inner
    <3>3. Len(runs) \in Nat /\ Len(runs) >= 1
      BY <3>1
    <3>4. ASSUME Len(runs) # 1 PROVE Len(runs) \in 2 .. Len(runs)
      <4> DEFINE n == Len(runs)
      <4>1. n \in Nat /\ n >= 1 /\ n # 1
        BY <3>3, <3>4
      <4> HIDE DEF n
      <4>2. n \in 2 .. n
        BY <4>1
      <4> QED
        BY <4>2 DEF n
    <3>5. Len(runs) = 1
      BY <3>2, <3>4 DEF IInv, Nested
    <3> QED
      BY <3>1, <3>5, LastRunIsComplete
  <2>3. CASE ~Finish
    <3>1. ASSUME NEW shadow \in BOOLEAN, Create(shadow) PROVE FALSE
      <4>1. \E m \in Managers : managers' = Append(managers, m)
        BY <3>1 DEF Create, Managers
      <4> QED
        BY <4>1, <2>1, AppendFacts
    <3>2. ASSUME NEW c \in Callbacks, Register(c) \/ RegisterFails(c) \/ RunTask(c) PROVE FALSE
      <4>1. CASE Register(c)
        <5>1. \E m : managers' = [managers EXCEPT ![Len(managers)] = m]
          BY <4>1 DEF Register, Depth
        <5> QED
          BY <5>1, <2>0
      <4>2. CASE RegisterFails(c) \/ RunTask(c)
        <5>1. managers' = managers
          BY <4>2 DEF RegisterFails, RunTask
        <5> QED
          BY <5>1, <2>1
      <4> QED
        BY <3>2, <4>1, <4>2
    <3>3. ASSUME NEW dtor \in BOOLEAN, Process(dtor) PROVE FALSE
      BY <3>3, <2>1 DEF Process
    <3> QED
      BY <2>3, <3>1, <3>2, <3>3 DEF Next
  <2> QED
    BY <2>2, <2>3
<1> QED
  BY <1>1, Invariance, PTL DEF Spec, NothingTimelyIsLost
==============================================================================
