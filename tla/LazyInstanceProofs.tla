------------------------- MODULE LazyInstanceProofs -------------------------
(***************************************************************************)
(* Proofs about LazyInstance, on top of those about AtExit: every step of  *)
(* it is a step of AtExit or none, so the invariant of AtExitProofs holds  *)
(* here, too (Lib).                                                        *)
(*                                                                         *)
(* The invariant has three parts.  Phases and Stacks say who may do what   *)
(* when: a destructor runs alone, at the bottom of main's stack.  Buffers, *)
(* Alone and Contents tie private_instance_ and the object to the calls    *)
(* that work on them.  Registry follows an instance from its construction  *)
(* through the stack of the manager to its destruction.                    *)
(***************************************************************************)
EXTENDS LazyInstance, SequenceTheorems, FiniteSetTheorems, TLAPS

Lib == INSTANCE AtExitProofs WITH
  Callbacks <- Instances, MaxManagers <- 1, MaxRuns <- 1

------------------------------------------------------------------------------
(* The invariant. *)

PCs == {"load", "cas", "spin", "construct", "publish", "register", "get", "destroy", "clear"}
Frames == [inst : Instances, pc : PCs, todo : SUBSET Instances]

Typed ==
  /\ instance \in [Instances -> {"0", "Creating", "Created"}]
  /\ object \in [Instances -> {"none", "alive", "dead"}]
  /\ calls \in [Threads -> Seq(Frames)]
  /\ built \in [Instances -> Nat]
  /\ asked \in [Threads -> 0 .. MaxCalls]

Depths(t) == 1 .. Len(calls[t])

\* One manager at most, one run of it, at the end; and nobody but main then.
Phases ==
  /\ Len(managers) <= 1 /\ Len(runs) <= 1
  /\ runs # <<>> => runs[1].dtor /\ \A t \in Threads \ {Main} : calls[t] = <<>>
  /\ runs # <<>> => \A t \in Threads : asked[t] = MaxCalls
  /\ (managers # <<>> /\ runs = <<>>) => ~managers[1].processing
  /\ managers = <<>> => \A t \in Threads : calls[t] = <<>>

\* Only constructors and destructors call, and a destructor is called by OnExit.
Stacks ==
  \A t \in Threads : \A n \in Depths(t) :
    /\ n < Len(calls[t]) => calls[t][n].pc \in {"construct", "destroy"}
    /\ calls[t][n].pc \in {"destroy", "clear"} => t = Main /\ n = 1 /\ runs # <<>>

\* What a call knows of its instance.
Knows(f) ==
  /\ f.pc = "spin" => instance[f.inst] # "0"
  /\ f.pc = "construct" => instance[f.inst] = "Creating" /\ object[f.inst] # "alive"
  /\ f.pc = "publish" => instance[f.inst] = "Creating" /\ object[f.inst] = "alive"
  /\ f.pc \in {"register", "get", "destroy"} => instance[f.inst] = "Created" /\ object[f.inst] = "alive"
  /\ f.pc = "clear" => instance[f.inst] = "Created" /\ object[f.inst] # "alive"

Buffers == \A t \in Threads : \A n \in Depths(t) : Knows(calls[t][n])

Builds(f) == f.pc \in {"construct", "publish"}

Alone ==
  \A t, u \in Threads : \A n \in Depths(t), m \in Depths(u) :
    Builds(calls[t][n]) /\ Builds(calls[u][m]) /\ calls[t][n].inst = calls[u][m].inst => t = u /\ n = m

Contents ==
  \A i \in Instances :
    /\ instance[i] = "0" => object[i] # "alive"
    /\ instance[i] = "Created" /\ object[i] # "alive" =>
         Len(calls[Main]) = 1 /\ calls[Main][1].inst = i /\ calls[Main][1].pc = "clear"

Ready(i) == instance[i] = "Created" /\ object[i] = "alive"

\* The manager's stack, what has been registered with it in time, and what its
\* run has left to do.
Stack == managers[1].stack
Listed == history[1].registered
Tasks == runs[1].tasks

\* What is registered is ready, and nothing twice; what is destroyed comes next
\* to the tasks that are left.
Waiting ==
  /\ managers # <<>> =>
       /\ \A k \in 1 .. Len(Stack) : Ready(Stack[k])
       /\ \A k, l \in 1 .. Len(Listed) : Listed[k] = Listed[l] => k = l
  /\ runs # <<>> =>
       /\ Len(Tasks) <= Len(Listed)
       /\ \A k \in 1 .. Len(Tasks) : Ready(Tasks[k]) /\ Tasks[k] = Listed[k]
       /\ \A n \in Depths(Main) : calls[Main][n].pc \in {"destroy", "clear"} =>
            Len(Tasks) < Len(Listed) /\ calls[Main][n].inst = Listed[Len(Tasks) + 1]

\* Whatever is alive and does not leak is on its way to the manager, or to its end.
Working(i) ==
  \E t \in Threads : \E n \in Depths(t) :
    calls[t][n].inst = i /\ calls[t][n].pc \in {"publish", "register", "destroy"}
Enlisted(i) ==
  \/ managers # <<>> /\ \E k \in 1 .. Len(Stack) : Stack[k] = i
  \/ runs # <<>> /\ \E k \in 1 .. Len(Tasks) : Tasks[k] = i

Cared == \A i \in Instances \ Leaky : object[i] = "alive" => Working(i) \/ Enlisted(i)

Registered(i) == \E k \in 1 .. Len(Listed) : Listed[k] = i
Registering(i) ==
  \E t \in Threads : \E n \in Depths(t) : calls[t][n].inst = i /\ calls[t][n].pc = "register"

\* Before the exit: what a constructor has got has been created, and so has what
\* a registered instance was constructed with.
Got(t, n, i) ==
  instance[i] = "Created" \/ (n < Len(calls[t]) /\ calls[t][n + 1].inst = i)

\* What a call has of the instances its constructor uses.
Has(t, n) ==
  /\ calls[t][n].pc = "construct" =>
       \A i \in CtorUses[calls[t][n].inst] \ calls[t][n].todo : Got(t, n, i)
  /\ calls[t][n].pc \in {"publish", "register"} =>
       \A i \in CtorUses[calls[t][n].inst] : instance[i] = "Created"

Uses ==
  /\ (managers # <<>> /\ runs = <<>>) =>
       /\ \A i \in Instances \ Leaky : instance[i] = "Created" => Registered(i) \/ Registering(i)
       /\ \A t \in Threads : \A n \in Depths(t) : Has(t, n)
       /\ \A k \in 1 .. Len(Listed) : \A i \in CtorUses[Listed[k]] : instance[i] = "Created"
  /\ runs # <<>> =>
       \A k \in 1 .. Len(Listed) : \A i \in CtorUses[Listed[k]] \ Leaky : Registered(i)

\* Nothing exists before somebody asks.
Untouched ==
  (\A t \in Threads : asked[t] = 0) =>
    /\ \A t \in Threads : calls[t] = <<>>
    /\ \A i \in Instances : instance[i] = "0" /\ object[i] = "none"

IInv ==
  /\ Typed /\ Lib!IInv
  /\ Phases /\ Stacks /\ Buffers /\ Alone /\ Contents
  /\ Waiting /\ (Asserts => Cared) /\ Uses /\ Untouched

------------------------------------------------------------------------------
(* The manager. *)

LEMMA OneElement ==
  ASSUME NEW S, NEW q \in Seq(S), Len(q) = 1
  PROVE  q[1] \in S /\ q # <<>> /\ 1 \in 1 .. Len(q) /\ DOMAIN q = 1 .. 1
<1>1. 1 \in 1 .. Len(q)
  OBVIOUS
<1>2. q[1] \in S
  BY <1>1, ElementOfSeq
<1>3. q # <<>>
  <2>1. Len(<<>>) = 0
    BY EmptySeq
  <2> QED
    BY <2>1
<1>4. DOMAIN q = 1 .. 1
  BY LenProperties
<1> QED
  BY <1>1, <1>2, <1>3, <1>4

LEMMA NotEmpty ==
  ASSUME NEW S, NEW q \in Seq(S), q # <<>>
  PROVE  /\ Len(q) \in Nat /\ Len(q) # 0
         /\ Len(q) <= 1 => Len(q) = 1
<1> DEFINE n == Len(q)
<1>1. n \in Nat \ {0}
  BY EmptySeq
<1> HIDE DEF n
<1>2. n <= 1 => n = 1
  BY <1>1
<1> QED
  BY <1>1, <1>2 DEF n

LEMMA LibConstants == 1 \in Nat /\ Asserts \in BOOLEAN
  BY LazyAssumption

\* What the invariant of AtExitProofs says of the one manager.
LEMMA LibFacts ==
  ASSUME Lib!IInv, Len(managers) <= 1, Len(runs) <= 1
  PROVE  /\ panicked \in {"no", "no manager", "too late"}
         /\ managers # <<>> =>
              /\ Len(managers) = 1 /\ Len(history) = 1
              /\ managers[1] \in Lib!Managers /\ history[1] \in Lib!Histories
              /\ Stack \in Seq(Instances) /\ Listed \in Seq(Instances)
              /\ ~managers[1].processing => Stack = Listed
              /\ managers[1].processing =>
                   \A k \in 1 .. Len(Stack), l \in 1 .. Len(Listed) : Stack[k] # Listed[l]
         /\ runs # <<>> =>
              /\ managers # <<>> /\ managers[1].processing
              /\ Len(runs) = 1 /\ runs[1] \in Lib!Runs /\ Tasks \in Seq(Instances)
         /\ managers \in Seq(Lib!Managers) /\ runs \in Seq(Lib!Runs) /\ history \in Seq(Lib!Histories)
<1>1. /\ managers \in Seq(Lib!Managers) /\ runs \in Seq(Lib!Runs) /\ history \in Seq(Lib!Histories)
      /\ Len(history) = Len(managers)
      /\ runs # <<>> => managers # <<>> /\ managers[Len(managers)].processing
      /\ panicked \in {"no", "no manager", "too late"}
  BY DEF Lib!IInv, Lib!Typed
<1>2. managers # <<>> => Len(managers) = 1
  BY <1>1, NotEmpty
<1>3. runs # <<>> => Len(runs) = 1
  BY <1>1, NotEmpty
<1>4. managers # <<>> => managers[1] \in Lib!Managers /\ history[1] \in Lib!Histories
  <2> SUFFICES ASSUME managers # <<>>
               PROVE  managers[1] \in Lib!Managers /\ history[1] \in Lib!Histories
    OBVIOUS
  <2>1. Len(managers) = 1 /\ Len(history) = 1
    BY <1>1, <1>2
  <2> QED
    BY <1>1, <2>1, OneElement
<1>10. runs # <<>> => runs[1] \in Lib!Runs
  BY <1>1, <1>3, OneElement
<1>5. managers # <<>> => Stack \in Seq(Instances) /\ Listed \in Seq(Instances)
  BY <1>4 DEF Stack, Listed, Lib!Managers, Lib!Histories
<1>6. managers # <<>> => Lib!ManagerInv(managers[1], history[1])
  BY <1>2 DEF Lib!IInv, Lib!EachManager
<1>7. managers # <<>> => (~managers[1].processing => Stack = Listed)
  BY <1>6 DEF Lib!ManagerInv, Stack, Listed
<1>8. ASSUME managers # <<>>, managers[1].processing,
             NEW k \in 1 .. Len(Stack), NEW l \in 1 .. Len(Listed)
      PROVE  Stack[k] # Listed[l]
  BY <1>6, <1>8 DEF Lib!ManagerInv, Lib!AllLate, Stack, Listed
<1>9. runs # <<>> => Tasks \in Seq(Instances)
  BY <1>10 DEF Tasks, Lib!Runs
<1> QED
  BY <1>1, <1>2, <1>3, <1>4, <1>5, <1>7, <1>8, <1>9, <1>10

\* The innermost call of a thread that has one.
LEMMA TopFacts ==
  ASSUME Typed, NEW t \in Threads, ~Idle(t)
  PROVE  /\ calls[t] \in Seq(Frames) /\ Len(calls[t]) \in Nat /\ Len(calls[t]) # 0
         /\ Len(calls[t]) \in Depths(t)
         /\ Call(t) \in Frames /\ Call(t) = calls[t][Len(calls[t])]
         /\ Call(t).inst \in Instances /\ Call(t).pc \in PCs /\ Call(t).todo \subseteq Instances
<1>1. calls[t] \in Seq(Frames) /\ calls[t] # <<>>
  BY DEF Typed, Idle
<1>2. Len(calls[t]) \in Nat /\ Len(calls[t]) # 0
  BY <1>1, EmptySeq, LenProperties
<1>3. Call(t) = calls[t][Len(calls[t])] /\ Call(t) \in Frames
  BY <1>1, <1>2, ElementOfSeq DEF Call
<1> QED
  BY <1>1, <1>2, <1>3 DEF Frames, Depths

\* Every step is one of AtExit, or does not touch the manager.
LEMMA StepOfLib ==
  ASSUME Typed, Next
  PROVE  AtExit!Next \/ UNCHANGED atExitVars
<1>1. CASE CreateManager
  BY <1>1 DEF CreateManager, AtExit!Next
<1>2. CASE Exit \/ ExitDone
  BY <1>2 DEF Exit, ExitDone, AtExit!Next
<1>3. ASSUME NEW t \in Threads, NEW i \in Instances, Ask(t, i) \/ Use(t, i)
      PROVE  UNCHANGED atExitVars
  BY <1>3 DEF Ask, Use
<1>4. ASSUME NEW t \in Threads,
             \/ Load(t) \/ NeedsLazyInstance(t) \/ Spin(t) \/ Construct(t) \/ Throw(t)
             \/ Publish(t) \/ GetInstance(t) \/ Delete(t) \/ Clear(t)
      PROVE  UNCHANGED atExitVars
  BY <1>4 DEF Load, NeedsLazyInstance, Spin, Construct, Throw, Publish, GetInstance, Delete, Clear
<1>5. ASSUME NEW t \in Threads, RegisterAtExit(t)
      PROVE  AtExit!Next
  <2>1. At(t, "register") /\ (AtExit!Register(Call(t).inst) \/ AtExit!RegisterFails(Call(t).inst))
    BY <1>5 DEF RegisterAtExit
  <2>2. Call(t).inst \in Instances
    BY <2>1, TopFacts DEF At
  <2> QED
    BY <2>1, <2>2 DEF AtExit!Next
<1>6. ASSUME NEW i \in Instances, OnExit(i)
      PROVE  AtExit!Next
  BY <1>6 DEF OnExit, AtExit!Next
<1> QED
  BY <1>1, <1>2, <1>3, <1>4, <1>5, <1>6 DEF Next, Step

LEMMA LibStep ==
  ASSUME Typed, Lib!IInv, Next
  PROVE  Lib!IInv'
<1>1. 1 \in Nat /\ Asserts \in BOOLEAN
  BY LazyAssumption
<1>2. CASE UNCHANGED atExitVars
  BY <1>1, <1>2, Lib!StepIInv DEF atExitVars, Lib!vars
<1>3. CASE AtExit!Next
  <2>1. Lib!Next
    BY <1>3 DEF AtExit!Next, AtExit!Create, AtExit!Register, AtExit!RegisterFails, AtExit!RunTask,
      AtExit!Process, AtExit!Finish, AtExit!Depth, AtExit!Known, AtExit!Inner, AtExit!Front,
      AtExit!Running, Lib!Next, Lib!Create, Lib!Register, Lib!RegisterFails, Lib!RunTask,
      Lib!Process, Lib!Finish, Lib!Depth, Lib!Known, Lib!Inner, Lib!Front, Lib!Running
  <2>2. Lib!IInv /\ [Lib!Next]_(Lib!vars)
    BY <2>1
  <2>3. Lib!IInv /\ [Lib!Next]_(Lib!vars) => Lib!IInv'
    BY <1>1, Lib!StepIInv, Zenon
  <2> QED
    BY <2>2, <2>3, Zenon
<1> QED
  BY <1>2, <1>3, StepOfLib

\* The steps of the manager, in terms of what it has.
LEMMA CreateFacts ==
  ASSUME Len(managers) <= 1, managers \in Seq(Lib!Managers), history \in Seq(Lib!Histories),
         Len(history) = Len(managers), AtExit!Create(FALSE)
  PROVE  /\ managers = <<>> /\ runs = <<>> /\ runs' = <<>>
         /\ managers' # <<>> /\ Len(managers') = 1 /\ ~managers'[1].processing
         /\ Stack' = <<>> /\ Listed' = <<>>
<1> DEFINE m == [stack |-> <<>>, processing |-> FALSE]
           h == [registered |-> <<>>, started |-> <<>>, late |-> {}]
<1>1. /\ managers = <<>> /\ runs = <<>> /\ runs' = <<>>
      /\ managers' = Append(managers, m) /\ history' = Append(history, h)
  BY DEF AtExit!Create
<1>2. m.stack = <<>> /\ ~m.processing /\ h.registered = <<>>
  OBVIOUS
<1> HIDE DEF m, h
<1>3. history = <<>>
  BY <1>1
<1>4. managers' = <<m>> /\ history' = <<h>>
  BY <1>1, <1>3
<1> QED
  BY <1>1, <1>2, <1>4 DEF Stack, Listed

LEMMA RegisterFacts ==
  ASSUME NEW c \in Instances, AtExit!Register(c),
         Len(managers) = 1, Len(history) = 1, managers \in Seq(Lib!Managers), history \in Seq(Lib!Histories),
         Stack \in Seq(Instances), Listed \in Seq(Instances)
  PROVE  /\ runs' = runs /\ managers' # <<>> /\ Len(managers') = 1
         /\ managers'[1].processing = managers[1].processing
         /\ Len(Stack') = Len(Stack) + 1 /\ Stack'[Len(Stack) + 1] = c
         /\ \A k \in 1 .. Len(Stack) : Stack'[k] = Stack[k]
         /\ managers[1].processing => Listed' = Listed
         /\ ~managers[1].processing =>
              /\ Len(Listed') = Len(Listed) + 1 /\ Listed'[Len(Listed) + 1] = c
              /\ \A k \in 1 .. Len(Listed) : Listed'[k] = Listed[k] /\ Listed[k] # c
<1>1. /\ managers' = [managers EXCEPT ![1].stack = Append(@, c)]
      /\ history' = IF managers[1].processing
                    THEN [history EXCEPT ![1].late = @ \cup {c}]
                    ELSE [history EXCEPT ![1].registered = Append(@, c)]
      /\ runs' = runs
      /\ \A k \in DOMAIN Listed : Listed[k] # c
  BY DEF AtExit!Register, AtExit!Depth, AtExit!Known, Listed
<1>2. managers[1] \in Lib!Managers /\ history[1] \in Lib!Histories /\ 1 \in 1 .. Len(managers)
  BY OneElement
<1>3. /\ managers' # <<>> /\ Len(managers') = 1
      /\ managers'[1].processing = managers[1].processing
      /\ Stack' = Append(Stack, c)
  BY <1>1, <1>2 DEF Lib!Managers, Stack
<1>4. managers[1].processing => Listed' = Listed
  BY <1>1, <1>2 DEF Lib!Histories, Listed
<1>5. ~managers[1].processing => Listed' = Append(Listed, c)
  BY <1>1, <1>2 DEF Lib!Histories, Listed
<1>6. DOMAIN Listed = 1 .. Len(Listed)
  BY LenProperties
<1>7. /\ Len(Append(Stack, c)) = Len(Stack) + 1 /\ Append(Stack, c)[Len(Stack) + 1] = c
      /\ \A k \in 1 .. Len(Stack) : Append(Stack, c)[k] = Stack[k]
  BY Lib!AppendFacts, LibConstants
<1>8. /\ Len(Append(Listed, c)) = Len(Listed) + 1 /\ Append(Listed, c)[Len(Listed) + 1] = c
      /\ \A k \in 1 .. Len(Listed) : Append(Listed, c)[k] = Listed[k]
  BY Lib!AppendFacts, LibConstants
<1> QED
  BY <1>1, <1>3, <1>4, <1>5, <1>6, <1>7, <1>8

LEMMA ProcessFacts ==
  ASSUME AtExit!Process(TRUE), runs \in Seq(Lib!Runs),
         Len(managers) = 1, managers \in Seq(Lib!Managers)
  PROVE  /\ runs = <<>> /\ runs' # <<>> /\ Len(runs') = 1 /\ runs'[1].dtor
         /\ managers' # <<>> /\ Len(managers') = 1 /\ managers # <<>>
         /\ Tasks' = Stack /\ Stack' = <<>> /\ Listed' = Listed
<1>1. /\ managers' = [managers EXCEPT ![1] = [stack |-> <<>>, processing |-> TRUE]]
      /\ runs = <<>> /\ runs' = <<[tasks |-> Stack, dtor |-> TRUE]>>
      /\ history' = history /\ managers # <<>>
  <2>1. /\ managers' = [managers EXCEPT ![1] = [stack |-> <<>>, processing |-> TRUE]]
        /\ runs = <<>> /\ runs' = Append(runs, [tasks |-> Stack, dtor |-> TRUE])
        /\ history' = history /\ managers # <<>>
    BY DEF AtExit!Process, AtExit!Depth, Stack
  <2> QED
    BY <2>1
<1>2. Stack' = <<>> /\ managers' # <<>> /\ Len(managers') = 1
  BY <1>1 DEF Stack
<1>3. Tasks' = Stack /\ runs' # <<>> /\ Len(runs') = 1 /\ runs'[1].dtor
  BY <1>1 DEF Tasks
<1> QED
  BY <1>1, <1>2, <1>3 DEF Listed

LEMMA RunTaskFacts ==
  ASSUME NEW c \in Instances, AtExit!RunTask(c), Len(managers) = 1, Len(history) = 1,
         history \in Seq(Lib!Histories),
         Len(runs) = 1, runs \in Seq(Lib!Runs), Tasks \in Seq(Instances)
  PROVE  /\ managers' = managers /\ Stack' = Stack /\ Listed' = Listed
         /\ runs # <<>> /\ runs' # <<>> /\ Len(runs') = 1 /\ runs'[1].dtor = runs[1].dtor
         /\ Len(Tasks) \in Nat /\ Len(Tasks) # 0 /\ c = Tasks[Len(Tasks)]
         /\ Len(Tasks') = Len(Tasks) - 1
         /\ \A k \in 1 .. Len(Tasks) - 1 : Tasks'[k] = Tasks[k]
<1>1. /\ runs' = [runs EXCEPT ![1].tasks = AtExit!Front(@)]
      /\ history' = IF AtExit!Known(c) THEN [history EXCEPT ![1].started = Append(@, c)] ELSE history
      /\ managers' = managers /\ runs # <<>>
      /\ Tasks # <<>> /\ c = Tasks[Len(Tasks)]
  BY DEF AtExit!RunTask, AtExit!Depth, AtExit!Inner, Tasks
<1>2. runs[1] \in Lib!Runs /\ history[1] \in Lib!Histories
  BY OneElement
<1>3. Tasks' = Lib!Front(Tasks) /\ runs' # <<>> /\ Len(runs') = 1 /\ runs'[1].dtor = runs[1].dtor
  BY <1>1, <1>2 DEF Lib!Runs, Tasks, Lib!Front, AtExit!Front
<1>4. Listed' = Listed
  BY <1>1, <1>2 DEF Lib!Histories, Listed
<1>5. Stack' = Stack
  BY <1>1 DEF Stack
<1>6. /\ Len(Lib!Front(Tasks)) = Len(Tasks) - 1
      /\ \A i \in 1 .. Len(Tasks) - 1 : Lib!Front(Tasks)[i] = Tasks[i]
      /\ Len(Tasks) \in Nat \ {0}
  BY <1>1, Lib!FrontFacts, LibConstants
<1> QED
  BY <1>1, <1>3, <1>4, <1>5, <1>6

LEMMA FinishFacts ==
  ASSUME AtExit!Finish, Len(managers) = 1, Len(history) = 1, Len(runs) = 1, runs[1].dtor,
         managers \in Seq(Lib!Managers), runs \in Seq(Lib!Runs)
  PROVE  /\ managers' = <<>> /\ runs' = <<>>
         /\ Tasks = <<>> /\ (Asserts => Stack = <<>>)
<1>1. /\ runs' = SubSeq(runs, 1, 0) /\ managers' = SubSeq(managers, 1, 0)
      /\ Tasks = <<>> /\ (Asserts => Stack = <<>>)
  BY DEF AtExit!Finish, AtExit!Depth, AtExit!Inner, AtExit!Front, Tasks, Stack
<1> QED
  BY <1>1

------------------------------------------------------------------------------
(* The calls. *)

\* The innermost call of t goes on at pc; it calls Pointer(i); it returns.
Moved(t, pc, todo) ==
  /\ calls' \in [Threads -> Seq(Frames)]
  /\ \A u \in Threads \ {t} : calls'[u] = calls[u]
  /\ Len(calls'[t]) = Len(calls[t])
  /\ \A n \in 1 .. Len(calls[t]) - 1 : calls'[t][n] = calls[t][n]
  /\ calls'[t][Len(calls[t])] = [inst |-> Call(t).inst, pc |-> pc, todo |-> todo]

Pushed(t, i) ==
  /\ calls' \in [Threads -> Seq(Frames)]
  /\ \A u \in Threads \ {t} : calls'[u] = calls[u]
  /\ Len(calls'[t]) = Len(calls[t]) + 1
  /\ \A n \in 1 .. Len(calls[t]) - 1 : calls'[t][n] = calls[t][n]
  /\ calls'[t][Len(calls[t])] = [inst |-> Call(t).inst, pc |-> Call(t).pc, todo |-> Call(t).todo \ {i}]
  /\ calls'[t][Len(calls[t]) + 1] = Pointer(i)

Popped(t) ==
  /\ calls' \in [Threads -> Seq(Frames)]
  /\ \A u \in Threads \ {t} : calls'[u] = calls[u]
  /\ Len(calls'[t]) = Len(calls[t]) - 1
  /\ \A n \in 1 .. Len(calls[t]) - 1 : calls'[t][n] = calls[t][n]

LEMMA FrameFacts ==
  ASSUME NEW f \in Frames, NEW uses
  PROVE  [f EXCEPT !.todo = uses] = [inst |-> f.inst, pc |-> f.pc, todo |-> uses]
<1>1. f = [inst |-> f.inst, pc |-> f.pc, todo |-> f.todo]
  BY DEF Frames
<1> QED
  BY <1>1

LEMMA ReplaceTop ==
  ASSUME Typed, NEW t \in Threads, ~Idle(t), NEW f \in Frames,
         calls' = [calls EXCEPT ![t][Len(calls[t])] = f]
  PROVE  /\ calls' \in [Threads -> Seq(Frames)]
         /\ \A u \in Threads \ {t} : calls'[u] = calls[u]
         /\ Len(calls'[t]) = Len(calls[t])
         /\ \A n \in 1 .. Len(calls[t]) - 1 : calls'[t][n] = calls[t][n]
         /\ calls'[t][Len(calls[t])] = f
<1> DEFINE q == calls[t]
           L == Len(q)
           r == [q EXCEPT ![L] = f]
<1>1. q \in Seq(Frames) /\ L \in 1 .. Len(q) /\ L \in Nat
  BY TopFacts DEF Depths
<1>2. calls \in [Threads -> Seq(Frames)]
  BY DEF Typed
<1>3. calls' = [calls EXCEPT ![t] = r]
  OBVIOUS
<1> HIDE DEF r
<1>4. calls'[t] = r /\ \A u \in Threads \ {t} : calls'[u] = calls[u]
  BY <1>2, <1>3
<1> HIDE DEF q, L
<1>5. /\ r \in Seq(Frames) /\ Len(r) = Len(q)
      /\ \A j \in 1 .. Len(q) : r[j] = IF j = L THEN f ELSE q[j]
  BY <1>1, ExceptSeq DEF r
<1>6. calls' \in [Threads -> Seq(Frames)]
  BY <1>2, <1>3, <1>5
<1>7. \A n \in 1 .. L - 1 : r[n] = q[n]
  BY <1>1, <1>5 DEF L
<1>8. r[L] = f
  BY <1>1, <1>5
<1> QED
  BY <1>4, <1>5, <1>6, <1>7, <1>8 DEF q, L

LEMMA GotoFacts ==
  ASSUME Typed, NEW t \in Threads, ~Idle(t), NEW pc \in PCs, Goto(t, pc)
  PROVE  Moved(t, pc, Call(t).todo)
<1> DEFINE f == [inst |-> Call(t).inst, pc |-> pc, todo |-> Call(t).todo]
<1>1. Call(t) \in Frames /\ Call(t) = calls[t][Len(calls[t])] /\ f \in Frames
  BY TopFacts DEF Frames
<1>2. [calls[t][Len(calls[t])] EXCEPT !.pc = pc] = f
  BY <1>1 DEF Frames
<1>3. calls' = [calls EXCEPT ![t][Len(calls[t])] = f]
  BY <1>2 DEF Goto
<1> HIDE DEF f
<1>4. /\ calls' \in [Threads -> Seq(Frames)]
      /\ \A u \in Threads \ {t} : calls'[u] = calls[u]
      /\ Len(calls'[t]) = Len(calls[t])
      /\ \A n \in 1 .. Len(calls[t]) - 1 : calls'[t][n] = calls[t][n]
      /\ calls'[t][Len(calls[t])] = f
  BY <1>1, <1>3, ReplaceTop
<1> QED
  BY <1>4 DEF Moved, f

LEMMA GotoUsingFacts ==
  ASSUME Typed, NEW t \in Threads, ~Idle(t), NEW pc \in PCs, NEW uses \in SUBSET Instances,
         GotoUsing(t, pc, uses)
  PROVE  Moved(t, pc, uses)
<1> DEFINE f == [inst |-> Call(t).inst, pc |-> pc, todo |-> uses]
<1>1. Call(t) \in Frames /\ Call(t) = calls[t][Len(calls[t])] /\ f \in Frames
  BY TopFacts DEF Frames
<1>3. calls' = [calls EXCEPT ![t][Len(calls[t])] = f]
  BY DEF GotoUsing
<1> HIDE DEF f
<1>4. /\ calls' \in [Threads -> Seq(Frames)]
      /\ \A u \in Threads \ {t} : calls'[u] = calls[u]
      /\ Len(calls'[t]) = Len(calls[t])
      /\ \A n \in 1 .. Len(calls[t]) - 1 : calls'[t][n] = calls[t][n]
      /\ calls'[t][Len(calls[t])] = f
  BY <1>1, <1>3, ReplaceTop
<1> QED
  BY <1>4 DEF Moved, f

LEMMA ReturnFacts ==
  ASSUME Typed, NEW t \in Threads, ~Idle(t), Return(t)
  PROVE  Popped(t)
<1> DEFINE q == calls[t]
           r == Lib!Front(q)
<1>1. q \in Seq(Frames) /\ q # <<>>
  BY DEF Typed, Idle
<1>2. calls \in [Threads -> Seq(Frames)]
  BY DEF Typed
<1>3. calls' = [calls EXCEPT ![t] = r]
  BY DEF Return, Lib!Front
<1> HIDE DEF r
<1>4. calls'[t] = r /\ \A u \in Threads \ {t} : calls'[u] = calls[u]
  BY <1>2, <1>3
<1> HIDE DEF q
<1>5. /\ r \in Seq(Frames) /\ Len(r) = Len(q) - 1
      /\ \A n \in 1 .. Len(q) - 1 : r[n] = q[n]
  BY <1>1, LibConstants, Lib!FrontFacts DEF r
<1>6. calls' \in [Threads -> Seq(Frames)]
  BY <1>2, <1>3, <1>5
<1> QED
  BY <1>4, <1>5, <1>6 DEF q, Popped

LEMMA UseFacts ==
  ASSUME Typed, NEW t \in Threads, ~Idle(t), NEW i \in Instances, Use(t, i)
  PROVE  Pushed(t, i)
<1> DEFINE q == calls[t]
           L == Len(q)
           f == [inst |-> Call(t).inst, pc |-> Call(t).pc, todo |-> Call(t).todo \ {i}]
           r == [q EXCEPT ![L] = f]
           p == Pointer(i)
<1>1. q \in Seq(Frames) /\ L \in 1 .. Len(q) /\ L \in Nat /\ Call(t) \in Frames /\ q[L] = Call(t)
  BY TopFacts DEF Depths
<1>2. f \in Frames /\ p \in Frames
  BY <1>1 DEF Frames, Pointer, PCs
<1>3. [Call(t) EXCEPT !.todo = Call(t).todo \ {i}] = f
  BY <1>1, FrameFacts
<1>4. calls' = [calls EXCEPT ![t] = Append([q EXCEPT ![L] = [Call(t) EXCEPT !.todo = Call(t).todo \ {i}]], p)]
  BY DEF Use
<1>5. calls' = [calls EXCEPT ![t] = Append(r, p)]
  BY <1>3, <1>4
<1>6. calls \in [Threads -> Seq(Frames)]
  BY DEF Typed
<1> HIDE DEF r, p, f
<1>7. calls'[t] = Append(r, p) /\ \A u \in Threads \ {t} : calls'[u] = calls[u]
  BY <1>5, <1>6
<1> HIDE DEF q, L
<1>8. /\ r \in Seq(Frames) /\ Len(r) = Len(q)
      /\ \A j \in 1 .. Len(q) : r[j] = IF j = L THEN f ELSE q[j]
  BY <1>1, <1>2, ExceptSeq DEF r
<1>9. /\ Append(r, p) \in Seq(Frames) /\ Len(Append(r, p)) = Len(r) + 1
      /\ \A j \in 1 .. Len(r) : Append(r, p)[j] = r[j]
      /\ Append(r, p)[Len(r) + 1] = p
  BY <1>2, <1>8, LibConstants, Lib!AppendFacts
<1>10. calls' \in [Threads -> Seq(Frames)]
  BY <1>5, <1>6, <1>9
<1>11. Len(q) = L
  BY DEF L
<1>12. Len(calls'[t]) = L + 1 /\ calls'[t][L] = f /\ calls'[t][L + 1] = p
  BY <1>1, <1>7, <1>8, <1>9, <1>11
<1>13. ASSUME NEW n \in 1 .. L - 1
       PROVE  calls'[t][n] = q[n]
  BY <1>1, <1>7, <1>8, <1>9, <1>11
<1> QED
  BY <1>7, <1>10, <1>12, <1>13 DEF q, L, Pushed, p, f

\* A thread that has a call.
LEMMA Active ==
  ASSUME IInv, NEW t \in Threads, ~Idle(t)
  PROVE  /\ managers # <<>>
         /\ runs # <<>> => t = Main /\ \A u \in Threads \ {Main} : calls[u] = <<>>
<1>1. calls[t] # <<>>
  BY DEF Idle
<1> QED
  BY <1>1 DEF IInv, Phases

\* A step of a call leaves these alone.
LEMMA KeepsPhases ==
  ASSUME IInv, NEW t \in Threads, ~Idle(t), \A u \in Threads \ {t} : calls'[u] = calls[u],
         UNCHANGED <<asked, atExitVars>>
  PROVE  /\ Phases' /\ Untouched'
         /\ managers' = managers /\ runs' = runs /\ history' = history /\ panicked' = panicked
         /\ Stack' = Stack /\ Listed' = Listed /\ Tasks' = Tasks
<1>1. managers' = managers /\ runs' = runs /\ history' = history /\ panicked' = panicked /\ asked' = asked
  BY DEF atExitVars
<1>2. Stack' = Stack /\ Listed' = Listed /\ Tasks' = Tasks
  BY <1>1 DEF Stack, Listed, Tasks
<1>3. Phases'
  BY <1>1, Active DEF IInv, Phases
<1>4. Untouched'
  BY <1>1 DEF IInv, Untouched, Idle
<1> QED
  BY <1>1, <1>2, <1>3, <1>4

\* Only a destructor that has just run leaves an instance that is not ready.
LEMMA NobodyClears ==
  ASSUME IInv, NEW t \in Threads, ~Idle(t), Call(t).pc # "clear"
  PROVE  \A i \in Instances : instance[i] = "Created" => object[i] = "alive"
<1> SUFFICES ASSUME Len(calls[Main]) = 1, calls[Main][1].pc = "clear"
             PROVE  FALSE
  BY DEF IInv, Contents
<1>1. Main \in Threads /\ 1 \in Depths(Main)
  BY LazyAssumption DEF Depths
<1>2. runs # <<>>
  BY <1>1 DEF IInv, Stacks
<1>3. t = Main
  BY <1>2, Active
<1> QED
  BY <1>3 DEF Call

\* When each part of the invariant survives a step that leaves the manager alone.
LEMMA AloneKept ==
  ASSUME Alone,
         \A u \in Threads : \A n \in Depths(u)' : Builds(calls[u][n])' =>
           n \in Depths(u) /\ Builds(calls[u][n]) /\ calls'[u][n].inst = calls[u][n].inst
  PROVE  Alone'
<1> SUFFICES ASSUME NEW u \in Threads, NEW v \in Threads, NEW n \in Depths(u)', NEW m \in Depths(v)',
                    Builds(calls[u][n])', Builds(calls[v][m])', calls'[u][n].inst = calls'[v][m].inst
             PROVE  u = v /\ n = m
  BY DEF Alone
<1>1. n \in Depths(u) /\ Builds(calls[u][n]) /\ calls'[u][n].inst = calls[u][n].inst
  OBVIOUS
<1>2. m \in Depths(v) /\ Builds(calls[v][m]) /\ calls'[v][m].inst = calls[v][m].inst
  OBVIOUS
<1>3. calls[u][n].inst = calls[v][m].inst
  BY <1>1, <1>2
<1> QED
  BY <1>1, <1>2, <1>3 DEF Alone

LEMMA WaitingKept ==
  ASSUME Waiting,
         managers' = managers, runs' = runs, Stack' = Stack, Listed' = Listed, Tasks' = Tasks,
         managers # <<>> => \A k \in 1 .. Len(Stack) : Ready(Stack[k])',
         runs # <<>> => \A k \in 1 .. Len(Tasks) : Ready(Tasks[k])',
         \A n \in Depths(Main)' : calls'[Main][n].pc \in {"destroy", "clear"} =>
           n \in Depths(Main) /\ calls[Main][n].pc \in {"destroy", "clear"}
           /\ calls'[Main][n].inst = calls[Main][n].inst
  PROVE  Waiting'
<1>1. ASSUME managers # <<>>
      PROVE  /\ \A k \in 1 .. Len(Stack') : Ready(Stack[k])'
             /\ \A k, l \in 1 .. Len(Listed') : Listed'[k] = Listed'[l] => k = l
  BY <1>1 DEF Waiting
<1>2. ASSUME runs # <<>>
      PROVE  /\ Len(Tasks') <= Len(Listed')
             /\ \A k \in 1 .. Len(Tasks') : Ready(Tasks[k])' /\ Tasks'[k] = Listed'[k]
  BY <1>2 DEF Waiting
<1>3. ASSUME runs # <<>>, NEW n \in Depths(Main)', calls'[Main][n].pc \in {"destroy", "clear"}
      PROVE  Len(Tasks') < Len(Listed') /\ calls'[Main][n].inst = Listed'[Len(Tasks') + 1]
  <2>1. /\ n \in Depths(Main) /\ calls[Main][n].pc \in {"destroy", "clear"}
        /\ calls'[Main][n].inst = calls[Main][n].inst
    BY <1>3
  <2>2. Len(Tasks) < Len(Listed) /\ calls[Main][n].inst = Listed[Len(Tasks) + 1]
    BY <2>1, <1>3 DEF Waiting
  <2> QED
    BY <2>1, <2>2
<1> QED
  BY <1>1, <1>2, <1>3 DEF Waiting

LEMMA CaredKept ==
  ASSUME Asserts => Cared,
         managers' = managers, runs' = runs, Stack' = Stack, Tasks' = Tasks,
         \A i \in Instances \ Leaky : object'[i] = "alive" =>
           Working(i)' \/ (object[i] = "alive" /\ (Working(i) => Working(i)'))
  PROVE  (Asserts => Cared)'
  BY DEF Cared, Enlisted

LEMMA UsesKept ==
  ASSUME Uses, managers' = managers, runs' = runs, Listed' = Listed,
         (managers # <<>> /\ runs = <<>>) =>
           /\ \A i \in Instances : instance[i] = "Created" => instance'[i] = "Created"
           /\ \A i \in Instances \ Leaky : instance'[i] = "Created" =>
                Registering(i)' \/ (instance[i] = "Created" /\ (Registering(i) => Registering(i)'))
           /\ \A u \in Threads : \A n \in Depths(u)' : Has(u, n)',
         managers # <<>> => Listed \in Seq(Instances)
  PROVE  Uses'
<1>1. ASSUME managers # <<>>, runs = <<>>
      PROVE  /\ \A i \in Instances \ Leaky : instance'[i] = "Created" => Registered(i)' \/ Registering(i)'
             /\ \A u \in Threads : \A n \in Depths(u)' : Has(u, n)'
             /\ \A k \in 1 .. Len(Listed') : \A i \in CtorUses[Listed'[k]] : instance'[i] = "Created"
  <2>1. \A i \in Instances : Registered(i)' <=> Registered(i)
    BY DEF Registered
  <2>2. ASSUME NEW k \in 1 .. Len(Listed), NEW i \in CtorUses[Listed[k]]
        PROVE  instance'[i] = "Created"
    <3>1. Listed[k] \in Instances
      BY <1>1, ElementOfSeq
    <3>2. i \in Instances
      BY <3>1, LazyAssumption
    <3>3. instance[i] = "Created"
      BY <1>1 DEF Uses
    <3> QED
      BY <1>1, <3>2, <3>3
  <2> QED
    BY <1>1, <2>1, <2>2 DEF Uses
<1>2. ASSUME runs # <<>>
      PROVE  \A k \in 1 .. Len(Listed') : \A i \in CtorUses[Listed'[k]] \ Leaky : Registered(i)'
  BY <1>2 DEF Uses, Registered
<1> QED
  BY <1>1, <1>2 DEF Uses

\* The frames after a move.
LEMMA MovedFrames ==
  ASSUME Typed, NEW t \in Threads, ~Idle(t), NEW pc, NEW todo, Moved(t, pc, todo)
  PROVE  LET L == Len(calls[t])
         IN /\ L \in Nat /\ L # 0
            /\ calls' \in [Threads -> Seq(Frames)]
            /\ \A u \in Threads \ {t} : calls'[u] = calls[u]
            /\ \A u \in Threads : Depths(u)' = Depths(u) /\ Len(calls'[u]) = Len(calls[u])
            /\ \A u \in Threads : \A n \in Depths(u) : u # t \/ n # L => calls'[u][n] = calls[u][n]
            /\ calls'[t][L].inst = Call(t).inst /\ calls'[t][L].pc = pc /\ calls'[t][L].todo = todo
            /\ calls[t][L] = Call(t) /\ L \in Depths(t)
<1> DEFINE L == Len(calls[t])
<1>1. L \in Nat /\ L # 0 /\ calls[t][L] = Call(t) /\ L \in Depths(t)
  BY TopFacts
<1>2. /\ calls' \in [Threads -> Seq(Frames)]
      /\ \A u \in Threads \ {t} : calls'[u] = calls[u]
      /\ Len(calls'[t]) = L
      /\ \A n \in 1 .. L - 1 : calls'[t][n] = calls[t][n]
      /\ calls'[t][L].inst = Call(t).inst /\ calls'[t][L].pc = pc /\ calls'[t][L].todo = todo
  BY DEF Moved
<1>3. \A u \in Threads : Depths(u)' = Depths(u) /\ Len(calls'[u]) = Len(calls[u])
  BY <1>2 DEF Depths
<1>4. ASSUME NEW u \in Threads, NEW n \in Depths(u), u # t \/ n # L
      PROVE  calls'[u][n] = calls[u][n]
  <2>1. CASE u # t
    BY <2>1, <1>2
  <2>2. CASE u = t
    <3>1. n \in 1 .. L - 1
      BY <2>2, <1>1, <1>4 DEF Depths
    <3> QED
      BY <2>2, <3>1, <1>2
  <2> QED
    BY <2>1, <2>2
<1> QED
  BY <1>1, <1>2, <1>3, <1>4

\* The steps of a call that touch nothing else.
LEMMA MoveIInv ==
  ASSUME IInv, NEW t \in Threads, ~Idle(t), NEW pc \in {"cas", "spin", "get"},
         Moved(t, pc, Call(t).todo), Call(t).pc \in {"load", "cas", "spin"},
         pc = "spin" => instance[Call(t).inst] # "0",
         pc = "get" => instance[Call(t).inst] = "Created",
         UNCHANGED <<instance, object, built, asked, atExitVars>>
  PROVE  IInv'
<1> DEFINE L == Len(calls[t])
<1>1. /\ L \in Nat /\ L # 0
      /\ calls' \in [Threads -> Seq(Frames)]
      /\ \A u \in Threads \ {t} : calls'[u] = calls[u]
      /\ \A u \in Threads : Depths(u)' = Depths(u) /\ Len(calls'[u]) = Len(calls[u])
      /\ \A u \in Threads : \A n \in Depths(u) : u # t \/ n # L => calls'[u][n] = calls[u][n]
      /\ calls'[t][L].inst = Call(t).inst /\ calls'[t][L].pc = pc /\ calls'[t][L].todo = Call(t).todo
      /\ calls[t][L] = Call(t) /\ L \in Depths(t)
  BY MovedFrames DEF IInv
<1>2. instance' = instance /\ object' = object /\ built' = built /\ asked' = asked
  OBVIOUS
<1>3. /\ Phases' /\ Untouched'
      /\ managers' = managers /\ runs' = runs /\ history' = history /\ panicked' = panicked
      /\ Stack' = Stack /\ Listed' = Listed /\ Tasks' = Tasks
  BY <1>1, KeepsPhases
<1>4. Lib!IInv'
  BY <1>3 DEF IInv, Lib!IInv, Lib!Typed, Lib!EachManager, Lib!NobodyWaits, Lib!Outermost, Lib!Nested
<1>5. Call(t).inst \in Instances
  BY TopFacts DEF IInv
<1> HIDE DEF L
<1>6. Typed'
  BY <1>1, <1>2 DEF IInv, Typed
<1>7. Stacks'
  BY <1>1, <1>3 DEF IInv, Stacks
<1>8. Buffers'
  <2> SUFFICES ASSUME NEW u \in Threads, NEW n \in Depths(u)
               PROVE  Knows(calls[u][n])'
    BY <1>1 DEF Buffers
  <2>1. CASE u # t \/ n # L
    <3>1. Knows(calls[u][n]) /\ calls'[u][n] = calls[u][n]
      BY <2>1, <1>1 DEF IInv, Buffers
    <3> QED
      BY <3>1, <1>2 DEF Knows
  <2>2. CASE u = t /\ n = L
    <3>1. pc = "get" => object[Call(t).inst] = "alive"
      BY <1>5, NobodyClears
    <3> QED
      BY <2>2, <3>1, <1>1, <1>2 DEF Knows
  <2> QED
    BY <2>1, <2>2
<1>9. \A u \in Threads : \A n \in Depths(u) : calls'[u][n].inst = calls[u][n].inst
  BY <1>1
<1>10. Alone'
  <2>1. \A u \in Threads : \A n \in Depths(u)' : Builds(calls[u][n])' =>
          n \in Depths(u) /\ Builds(calls[u][n]) /\ calls'[u][n].inst = calls[u][n].inst
    BY <1>1 DEF Builds
  <2> QED
    BY <2>1, AloneKept DEF IInv
<1>11. Contents'
  <2>1. \A i \in Instances : instance[i] = "Created" => object[i] = "alive"
    BY NobodyClears
  <2> QED
    BY <2>1, <1>2 DEF IInv, Contents
<1>12. Waiting'
  <2>1. \A n \in Depths(Main)' : calls'[Main][n].pc \in {"destroy", "clear"} =>
          n \in Depths(Main) /\ calls[Main][n].pc \in {"destroy", "clear"}
          /\ calls'[Main][n].inst = calls[Main][n].inst
    BY <1>1, LazyAssumption
  <2>2. /\ managers # <<>> => \A k \in 1 .. Len(Stack) : Ready(Stack[k])'
        /\ runs # <<>> => \A k \in 1 .. Len(Tasks) : Ready(Tasks[k])'
    BY <1>2, <1>3 DEF IInv, Waiting, Ready
  <2> QED
    BY <2>1, <2>2, <1>3, WaitingKept DEF IInv
<1>13. \A i \in Instances : (Working(i) => Working(i)') /\ (Registering(i) => Registering(i)')
  BY <1>1 DEF Working, Registering
<1>14. (Asserts => Cared)'
  BY <1>2, <1>3, <1>13, CaredKept DEF IInv
<1>16. managers # <<>> => Listed \in Seq(Instances)
  BY LibFacts DEF IInv, Phases
<1>15. Uses'
  <2>1. ASSUME managers # <<>>, runs = <<>>, NEW u \in Threads, NEW n \in Depths(u)
        PROVE  Has(u, n)'
    <3>1. CASE u = t /\ n = L
      BY <3>1, <1>1 DEF Has
    <3>2. CASE u # t \/ n # L
      <4>1. calls'[u][n] = calls[u][n] /\ Has(u, n)
        BY <3>2, <1>1, <2>1 DEF IInv, Uses
      <4>2. n < Len(calls[u]) => n + 1 \in Depths(u)
        BY <1>6, <2>1 DEF Depths
      <4>3. \A i \in CtorUses[calls[u][n].inst] : Got(u, n, i) => Got(u, n, i)'
        BY <4>2, <1>1, <1>2, <1>9 DEF Got
      <4> QED
        BY <4>1, <4>3, <1>2 DEF Has
    <3> QED
      BY <3>1, <3>2
  <2> QED
    BY <2>1, <1>1, <1>2, <1>3, <1>13, <1>16, UsesKept DEF IInv
<1> QED
  BY <1>3, <1>4, <1>6, <1>7, <1>8, <1>10, <1>11, <1>12, <1>14, <1>15 DEF IInv

LEMMA FramesTyped ==
  ASSUME Typed
  PROVE  \A u \in Threads : \A n \in Depths(u) :
           /\ calls[u][n] \in Frames /\ calls[u][n].inst \in Instances
           /\ calls[u][n].pc \in PCs /\ calls[u][n].todo \subseteq Instances
<1> SUFFICES ASSUME NEW u \in Threads, NEW n \in Depths(u)
             PROVE  calls[u][n] \in Frames
  BY DEF Frames
<1>1. calls[u] \in Seq(Frames)
  BY DEF Typed
<1> QED
  BY <1>1, ElementOfSeq DEF Depths

LEMMA StacksKept ==
  ASSUME Stacks, runs' = runs, NEW t \in Threads,
         \A u \in Threads : Len(calls'[u]) = Len(calls[u]),
         \A u \in Threads : \A n \in Depths(u) :
           u # t \/ n # Len(calls[t]) => calls'[u][n] = calls[u][n],
         calls'[t][Len(calls[t])].pc \in {"destroy", "clear"} =>
           calls[t][Len(calls[t])].pc \in {"destroy", "clear"}
  PROVE  Stacks'
<1> SUFFICES ASSUME NEW u \in Threads, NEW n \in Depths(u)'
             PROVE  /\ n < Len(calls'[u]) => calls'[u][n].pc \in {"construct", "destroy"}
                    /\ calls'[u][n].pc \in {"destroy", "clear"} => u = Main /\ n = 1 /\ runs' # <<>>
  BY DEF Stacks
<1>1. n \in Depths(u)
  BY DEF Depths
<1>2. /\ n < Len(calls[u]) => calls[u][n].pc \in {"construct", "destroy"}
      /\ calls[u][n].pc \in {"destroy", "clear"} => u = Main /\ n = 1 /\ runs # <<>>
  BY <1>1 DEF Stacks
<1>3. CASE u # t \/ n # Len(calls[t])
  BY <1>1, <1>2, <1>3
<1>4. CASE u = t /\ n = Len(calls[t])
  <2>1. ~(n < Len(calls'[u]))
    BY <1>4, <1>1 DEF Depths
  <2> QED
    BY <1>2, <1>4, <2>1
<1> QED
  BY <1>3, <1>4

LEMMA KnowsKept ==
  ASSUME NEW u, NEW n, Knows(calls[u][n]), calls'[u][n] = calls[u][n],
         instance'[calls[u][n].inst] = instance[calls[u][n].inst],
         object'[calls[u][n].inst] = object[calls[u][n].inst]
  PROVE  Knows(calls[u][n])'
  BY DEF Knows

LEMMA HasKept ==
  ASSUME NEW u \in Threads, NEW n \in Depths(u), Has(u, n), calls'[u][n] = calls[u][n],
         calls[u][n].inst \in Instances,
         \A i \in Instances : instance[i] = "Created" => instance'[i] = "Created",
         n < Len(calls[u]) => n < Len(calls'[u]) /\ calls'[u][n + 1].inst = calls[u][n + 1].inst
  PROVE  Has(u, n)'
<1>1. CtorUses[calls[u][n].inst] \subseteq Instances
  BY LazyAssumption
<1>2. \A i \in Instances : Got(u, n, i) => Got(u, n, i)'
  BY DEF Got
<1> QED
  BY <1>1, <1>2 DEF Has

LEMMA LoadIInv ==
  ASSUME IInv, NEW t \in Threads, Load(t)
  PROVE  IInv'
<1>1. ~Idle(t) /\ Call(t).pc = "load"
  BY DEF Load, At
<1> DEFINE pc == IF instance[Call(t).inst] = "Created" THEN "get" ELSE "cas"
<1>2. pc \in {"cas", "spin", "get"} /\ pc \in PCs
  BY DEF PCs
<1>3. UNCHANGED <<instance, object, built, asked, atExitVars>> /\ Goto(t, pc)
  BY DEF Load
<1>4. Moved(t, pc, Call(t).todo)
  BY <1>1, <1>2, <1>3, GotoFacts DEF IInv
<1>5. (pc = "spin" => instance[Call(t).inst] # "0") /\ (pc = "get" => instance[Call(t).inst] = "Created")
  OBVIOUS
<1> HIDE DEF pc
<1> QED
  BY <1>1, <1>2, <1>3, <1>4, <1>5, MoveIInv

LEMMA SpinIInv ==
  ASSUME IInv, NEW t \in Threads, Spin(t)
  PROVE  IInv'
<1>1. ~Idle(t) /\ Call(t).pc = "spin" /\ instance[Call(t).inst] # "Creating"
  BY DEF Spin, At
<1>2. UNCHANGED <<instance, object, built, asked, atExitVars>> /\ Goto(t, "get")
  BY DEF Spin
<1>3. Moved(t, "get", Call(t).todo)
  BY <1>1, <1>2, GotoFacts DEF IInv, PCs
<1>4. instance[Call(t).inst] = "Created"
  <2>1. Knows(Call(t)) /\ Call(t).inst \in Instances
    BY <1>1, TopFacts DEF IInv, Buffers
  <2>2. instance[Call(t).inst] \in {"0", "Creating", "Created"}
    BY <2>1 DEF IInv, Typed
  <2> QED
    BY <1>1, <2>1, <2>2 DEF Knows
<1> QED
  BY <1>1, <1>2, <1>3, <1>4, MoveIInv

LEMMA WaitsIInv ==
  ASSUME IInv, NEW t \in Threads, NeedsLazyInstance(t), instance[Call(t).inst] # "0"
  PROVE  IInv'
<1>1. ~Idle(t) /\ Call(t).pc = "cas"
  BY DEF NeedsLazyInstance, At
<1>2. UNCHANGED <<instance, object, built, asked, atExitVars>> /\ Goto(t, "spin")
  BY DEF NeedsLazyInstance
<1>3. Moved(t, "spin", Call(t).todo)
  BY <1>1, <1>2, GotoFacts DEF IInv, PCs
<1> QED
  BY <1>1, <1>2, <1>3, MoveIInv

\* The first one to need an instance constructs it.
LEMMA NeedsIInv ==
  ASSUME IInv, Lib!IInv', NEW t \in Threads, NeedsLazyInstance(t), instance[Call(t).inst] = "0"
  PROVE  IInv'
<1> DEFINE L == Len(calls[t])
           j == Call(t).inst
<1>0. ~Idle(t) /\ Call(t).pc = "cas"
  BY DEF NeedsLazyInstance, At
<1>5. j \in Instances /\ CtorUses[j] \in SUBSET Instances
  BY <1>0, TopFacts, LazyAssumption DEF IInv
<1>2. /\ instance' = [instance EXCEPT ![j] = "Creating"] /\ instance \in [Instances -> {"0", "Creating", "Created"}]
      /\ object' = object /\ built' = built /\ asked' = asked /\ UNCHANGED atExitVars
      /\ GotoUsing(t, "construct", CtorUses[j])
  BY DEF NeedsLazyInstance, IInv, Typed
<1>1. /\ L \in Nat /\ L # 0
      /\ calls' \in [Threads -> Seq(Frames)]
      /\ \A u \in Threads \ {t} : calls'[u] = calls[u]
      /\ \A u \in Threads : Depths(u)' = Depths(u) /\ Len(calls'[u]) = Len(calls[u])
      /\ \A u \in Threads : \A n \in Depths(u) : u # t \/ n # L => calls'[u][n] = calls[u][n]
      /\ calls'[t][L].inst = j /\ calls'[t][L].pc = "construct" /\ calls'[t][L].todo = CtorUses[j]
      /\ calls[t][L] = Call(t) /\ L \in Depths(t)
  <2>1. Moved(t, "construct", CtorUses[j])
    BY <1>0, <1>2, <1>5, GotoUsingFacts DEF IInv, PCs
  <2> QED
    BY <2>1, <1>0, MovedFrames DEF IInv
<1>3. /\ Phases' /\ Untouched'
      /\ managers' = managers /\ runs' = runs /\ history' = history /\ panicked' = panicked
      /\ Stack' = Stack /\ Listed' = Listed /\ Tasks' = Tasks
  BY <1>0, <1>1, <1>2, KeepsPhases
<1>4. instance'[j] = "Creating" /\ \A i \in Instances \ {j} : instance'[i] = instance[i]
  BY <1>2, <1>5
<1>16. \A u \in Threads : \A n \in Depths(u) : calls[u][n].inst \in Instances
  BY FramesTyped DEF IInv
<1> HIDE DEF L, j
<1>6. Typed'
  BY <1>1, <1>2, <1>5 DEF IInv, Typed
<1>7. Stacks'
  BY <1>0, <1>1, <1>3, StacksKept DEF IInv, L
<1>8. Buffers'
  <2> SUFFICES ASSUME NEW u \in Threads, NEW n \in Depths(u)
               PROVE  Knows(calls[u][n])'
    BY <1>1 DEF Buffers
  <2>1. CASE u # t \/ n # L
    <3>1. Knows(calls[u][n]) /\ calls'[u][n] = calls[u][n] /\ calls[u][n].inst \in Instances
      BY <2>1, <1>1, <1>16 DEF IInv, Buffers
    <3>2. CASE calls[u][n].inst = j
      BY <3>1, <3>2, <1>4 DEF Knows, j
    <3>3. CASE calls[u][n].inst # j
      BY <3>1, <3>3, <1>2, <1>4, KnowsKept
    <3> QED
      BY <3>2, <3>3
  <2>2. CASE u = t /\ n = L
    <3>1. object[j] # "alive"
      BY <1>5 DEF IInv, Contents, j
    <3> QED
      BY <2>2, <3>1, <1>1, <1>2, <1>4 DEF Knows
  <2> QED
    BY <2>1, <2>2
<1>9. \A u \in Threads : \A n \in Depths(u) : calls'[u][n].inst = calls[u][n].inst
  BY <1>1 DEF j
<1>10. Alone'
  <2>1. ASSUME NEW u \in Threads, NEW n \in Depths(u), u # t \/ n # L, Builds(calls[u][n])'
        PROVE  Builds(calls[u][n]) /\ calls[u][n].inst # j
    <3>1. calls'[u][n] = calls[u][n] /\ Knows(calls[u][n])
      BY <1>1, <2>1 DEF IInv, Buffers
    <3> QED
      BY <3>1, <2>1 DEF Builds, Knows, j
  <2> SUFFICES ASSUME NEW u \in Threads, NEW v \in Threads, NEW n \in Depths(u)', NEW m \in Depths(v)',
                      Builds(calls[u][n])', Builds(calls[v][m])', calls'[u][n].inst = calls'[v][m].inst
               PROVE  u = v /\ n = m
    BY DEF Alone
  <2>5. n \in Depths(u) /\ m \in Depths(v)
    BY <1>1
  <2>6. calls[u][n].inst = calls[v][m].inst
    BY <2>5, <1>9
  <2>2. CASE (u # t \/ n # L) /\ (v # t \/ m # L)
    <3>1. Builds(calls[u][n]) /\ Builds(calls[v][m])
      BY <2>1, <2>2, <2>5
    <3> QED
      BY <3>1, <2>5, <2>6 DEF IInv, Alone
  <2>3. CASE u = t /\ n = L
    <3>1. calls[u][n].inst = j
      BY <2>3, <1>1, <1>9
    <3> QED
      BY <3>1, <2>1, <2>3, <2>5, <2>6
  <2>4. CASE v = t /\ m = L
    <3>1. calls[v][m].inst = j
      BY <2>4, <1>1, <1>9
    <3> QED
      BY <3>1, <2>1, <2>4, <2>5, <2>6
  <2> QED
    BY <2>2, <2>3, <2>4
<1>11. Contents'
  <2>1. \A i \in Instances : instance[i] = "Created" => object[i] = "alive"
    BY <1>0, NobodyClears
  <2> QED
    BY <2>1, <1>2, <1>4 DEF IInv, Contents
<1>12. Waiting'
  <2>1. \A n \in Depths(Main)' : calls'[Main][n].pc \in {"destroy", "clear"} =>
          n \in Depths(Main) /\ calls[Main][n].pc \in {"destroy", "clear"}
          /\ calls'[Main][n].inst = calls[Main][n].inst
    BY <1>1, <1>9, LazyAssumption
  <2>2. \A i : Ready(i) => Ready(i)'
    BY <1>2 DEF Ready, j
  <2>3. /\ managers # <<>> => \A k \in 1 .. Len(Stack) : Ready(Stack[k])'
        /\ runs # <<>> => \A k \in 1 .. Len(Tasks) : Ready(Tasks[k])'
    BY <2>2, <1>3 DEF IInv, Waiting, Ready
  <2> QED
    BY <2>1, <2>3, <1>3, WaitingKept DEF IInv
<1>13. \A i \in Instances : (Working(i) => Working(i)') /\ (Registering(i) => Registering(i)')
  BY <1>0, <1>1 DEF Working, Registering
<1>14. (Asserts => Cared)'
  BY <1>2, <1>3, <1>13, CaredKept DEF IInv
<1>15. Uses'
  <2>1. ASSUME managers # <<>>, runs = <<>>, NEW u \in Threads, NEW n \in Depths(u)
        PROVE  Has(u, n)'
    <3>1. CASE u = t /\ n = L
      BY <3>1, <1>1 DEF Has
    <3>2. CASE u # t \/ n # L
      <4>1. calls'[u][n] = calls[u][n] /\ Has(u, n)
        BY <3>2, <1>1, <2>1 DEF IInv, Uses
      <4>2. n < Len(calls[u]) => n + 1 \in Depths(u)
        BY <1>6, <2>1 DEF Depths
      <4> QED
        BY <4>1, <4>2, <1>1, <1>2, <1>4, <1>9, <1>16, HasKept DEF j
    <3> QED
      BY <3>1, <3>2
  <2>2. managers # <<>> => Listed \in Seq(Instances)
    BY LibFacts DEF IInv, Phases
  <2>3. \A i \in Instances : instance[i] = "Created" <=> instance'[i] = "Created"
    BY <1>2, <1>4 DEF j
  <2> QED
    BY <2>1, <2>2, <2>3, <1>1, <1>3, <1>13, UsesKept DEF IInv
<1> QED
  BY <1>3, <1>6, <1>7, <1>8, <1>10, <1>11, <1>12, <1>14, <1>15 DEF IInv

\* The constructor returns: the instance is alive, and nobody else works on it.
LEMMA ConstructIInv ==
  ASSUME IInv, Lib!IInv', NEW t \in Threads, Construct(t)
  PROVE  IInv'
<1> DEFINE L == Len(calls[t])
           j == Call(t).inst
<1>0. ~Idle(t) /\ Call(t).pc = "construct" /\ Call(t).todo = {}
  BY DEF Construct, At
<1>5. j \in Instances /\ Knows(Call(t))
  BY <1>0, TopFacts DEF IInv, Buffers
<1>2. /\ object' = [object EXCEPT ![j] = "alive"] /\ built' = [built EXCEPT ![j] = @ + 1]
      /\ instance' = instance /\ asked' = asked /\ UNCHANGED atExitVars
      /\ Goto(t, "publish")
  BY DEF Construct, IInv, Typed
<1>1. /\ L \in Nat /\ L # 0
      /\ calls' \in [Threads -> Seq(Frames)]
      /\ \A u \in Threads \ {t} : calls'[u] = calls[u]
      /\ \A u \in Threads : Depths(u)' = Depths(u) /\ Len(calls'[u]) = Len(calls[u])
      /\ \A u \in Threads : \A n \in Depths(u) : u # t \/ n # L => calls'[u][n] = calls[u][n]
      /\ calls'[t][L].inst = j /\ calls'[t][L].pc = "publish" /\ calls'[t][L].todo = {}
      /\ calls[t][L] = Call(t) /\ L \in Depths(t)
  <2>1. Moved(t, "publish", Call(t).todo)
    BY <1>0, <1>2, <1>5, GotoFacts DEF IInv, PCs
  <2> QED
    BY <2>1, <1>0, MovedFrames DEF IInv
<1>3. /\ Phases' /\ Untouched'
      /\ managers' = managers /\ runs' = runs /\ history' = history /\ panicked' = panicked
      /\ Stack' = Stack /\ Listed' = Listed /\ Tasks' = Tasks
  BY <1>0, <1>1, <1>2, KeepsPhases
<1>16. \A u \in Threads : \A n \in Depths(u) : calls[u][n].inst \in Instances
  BY FramesTyped DEF IInv
<1>9. \A u \in Threads : \A n \in Depths(u) : calls'[u][n].inst = calls[u][n].inst
  BY <1>1 DEF j
<1>4. /\ object'[j] = "alive" /\ \A i \in Instances \ {j} : object'[i] = object[i]
      /\ instance[j] = "Creating"
  BY <1>0, <1>2, <1>5 DEF Knows, IInv, Typed
<1> HIDE DEF L, j
<1>6. Typed'
  BY <1>1, <1>2, <1>5 DEF IInv, Typed
<1>7. Stacks'
  BY <1>0, <1>1, <1>3, StacksKept DEF IInv, L
<1>8. Buffers'
  <2> SUFFICES ASSUME NEW u \in Threads, NEW n \in Depths(u)
               PROVE  Knows(calls[u][n])'
    BY <1>1 DEF Buffers
  <2>1. CASE u # t \/ n # L
    <3>1. Knows(calls[u][n]) /\ calls'[u][n] = calls[u][n] /\ calls[u][n].inst \in Instances
      BY <2>1, <1>1, <1>16 DEF IInv, Buffers
    <3>2. CASE calls[u][n].inst = j
      <4>1. ~Builds(calls[u][n])
        <5>1. Builds(calls[t][L]) /\ calls[t][L].inst = j
          BY <1>0, <1>1 DEF Builds, j
        <5> QED
          BY <5>1, <3>2, <2>1, <1>1 DEF IInv, Alone
      <4> QED
        BY <4>1, <3>1, <3>2, <1>2, <1>4 DEF Knows, Builds, j
    <3>3. CASE calls[u][n].inst # j
      BY <3>1, <3>3, <1>2, <1>4, KnowsKept
    <3> QED
      BY <3>2, <3>3
  <2>2. CASE u = t /\ n = L
    BY <2>2, <1>0, <1>1, <1>2, <1>4, <1>5 DEF Knows, j
  <2> QED
    BY <2>1, <2>2
<1>10. Alone'
  <2>1. \A u \in Threads : \A n \in Depths(u)' : Builds(calls[u][n])' =>
          n \in Depths(u) /\ Builds(calls[u][n]) /\ calls'[u][n].inst = calls[u][n].inst
    BY <1>0, <1>1, <1>9 DEF Builds
  <2> QED
    BY <2>1, AloneKept DEF IInv
<1>11. Contents'
  <2>1. \A i \in Instances : instance[i] = "Created" => object[i] = "alive"
    BY <1>0, NobodyClears
  <2> QED
    BY <2>1, <1>2, <1>4 DEF IInv, Contents
<1>12. Waiting'
  <2>1. \A n \in Depths(Main)' : calls'[Main][n].pc \in {"destroy", "clear"} =>
          n \in Depths(Main) /\ calls[Main][n].pc \in {"destroy", "clear"}
          /\ calls'[Main][n].inst = calls[Main][n].inst
    BY <1>0, <1>1, <1>9, LazyAssumption
  <2>2. \A i : Ready(i) => Ready(i)'
    BY <1>2, <1>4 DEF Ready, j
  <2>3. /\ managers # <<>> => \A k \in 1 .. Len(Stack) : Ready(Stack[k])'
        /\ runs # <<>> => \A k \in 1 .. Len(Tasks) : Ready(Tasks[k])'
    BY <2>2, <1>3 DEF IInv, Waiting, Ready
  <2> QED
    BY <2>1, <2>3, <1>3, WaitingKept DEF IInv
<1>13. \A i \in Instances : Registering(i) => Registering(i)'
  BY <1>0, <1>1 DEF Registering
<1>18. \A i \in Instances : Working(i) => Working(i)'
  BY <1>0, <1>1 DEF Working
<1>14. (Asserts => Cared)'
  <2>1. ASSUME NEW i \in Instances, i = j
        PROVE  Working(i)'
    BY <2>1, <1>1 DEF Working
  <2>2. \A i \in Instances \ Leaky : object'[i] = "alive" =>
          Working(i)' \/ (object[i] = "alive" /\ (Working(i) => Working(i)'))
    BY <2>1, <1>4, <1>18
  <2> QED
    BY <2>2, <1>3, CaredKept DEF IInv
<1>15. Uses'
  <2>1. ASSUME managers # <<>>, runs = <<>>, NEW u \in Threads, NEW n \in Depths(u)
        PROVE  Has(u, n)'
    <3>1. CASE u = t /\ n = L
      <4>1. Has(t, L)
        BY <1>1, <2>1 DEF IInv, Uses
      <4> QED
        BY <4>1, <3>1, <1>0, <1>1, <1>2, <1>3, <1>4 DEF Has, Got, L, j
    <3>2. CASE u # t \/ n # L
      <4>1. calls'[u][n] = calls[u][n] /\ Has(u, n)
        BY <3>2, <1>1, <2>1 DEF IInv, Uses
      <4>2. n < Len(calls[u]) => n + 1 \in Depths(u)
        BY <1>6, <2>1 DEF Depths
      <4> QED
        BY <4>1, <4>2, <1>1, <1>2, <1>4, <1>9, <1>16, HasKept DEF j
    <3> QED
      BY <3>1, <3>2
  <2>2. managers # <<>> => Listed \in Seq(Instances)
    BY LibFacts DEF IInv, Phases
  <2>3. \A i \in Instances : instance[i] = "Created" => instance'[i] = "Created"
    BY <1>2, <1>4 DEF j
  <2>4. \A i \in Instances \ Leaky : instance'[i] = "Created" =>
          Registering(i)' \/ (instance[i] = "Created" /\ (Registering(i) => Registering(i)'))
    BY <1>2, <1>13
  <2> QED
    BY <2>1, <2>2, <2>3, <2>4, <1>1, <1>3, UsesKept DEF IInv
<1> QED
  BY <1>3, <1>6, <1>7, <1>8, <1>10, <1>11, <1>12, <1>14, <1>15 DEF IInv

\* Everybody sees the finished instance.
LEMMA PublishIInv ==
  ASSUME IInv, Lib!IInv', NEW t \in Threads, Publish(t)
  PROVE  IInv'
<1> DEFINE L == Len(calls[t])
           j == Call(t).inst
           pc == IF Call(t).inst \in Leaky THEN "get" ELSE "register"
<1>0. ~Idle(t) /\ Call(t).pc = "publish"
  BY DEF Publish, At
<1>5. j \in Instances /\ Knows(Call(t))
  BY <1>0, TopFacts DEF IInv, Buffers
<1>17. pc \in {"get", "register"} /\ pc \in PCs /\ (pc = "get" <=> j \in Leaky)
  BY DEF PCs
<1>2. /\ instance' = [instance EXCEPT ![j] = "Created"]
      /\ object' = object /\ built' = built /\ asked' = asked /\ UNCHANGED atExitVars
      /\ Goto(t, pc)
  BY DEF Publish, IInv, Typed
<1>1. /\ L \in Nat /\ L # 0
      /\ calls' \in [Threads -> Seq(Frames)]
      /\ \A u \in Threads \ {t} : calls'[u] = calls[u]
      /\ \A u \in Threads : Depths(u)' = Depths(u) /\ Len(calls'[u]) = Len(calls[u])
      /\ \A u \in Threads : \A n \in Depths(u) : u # t \/ n # L => calls'[u][n] = calls[u][n]
      /\ calls'[t][L].inst = j /\ calls'[t][L].pc = pc /\ calls'[t][L].todo = Call(t).todo
      /\ calls[t][L] = Call(t) /\ L \in Depths(t)
  <2>1. Moved(t, pc, Call(t).todo)
    BY <1>0, <1>2, <1>17, GotoFacts DEF IInv
  <2> QED
    BY <2>1, <1>0, MovedFrames DEF IInv
<1>3. /\ Phases' /\ Untouched'
      /\ managers' = managers /\ runs' = runs /\ history' = history /\ panicked' = panicked
      /\ Stack' = Stack /\ Listed' = Listed /\ Tasks' = Tasks
  BY <1>0, <1>1, <1>2, KeepsPhases
<1>16. \A u \in Threads : \A n \in Depths(u) : calls[u][n].inst \in Instances
  BY FramesTyped DEF IInv
<1>9. \A u \in Threads : \A n \in Depths(u) : calls'[u][n].inst = calls[u][n].inst
  BY <1>1 DEF j
<1>4. /\ instance'[j] = "Created" /\ \A i \in Instances \ {j} : instance'[i] = instance[i]
      /\ instance[j] = "Creating" /\ object[j] = "alive"
  BY <1>0, <1>2, <1>5 DEF Knows, IInv, Typed
<1> HIDE DEF L, j, pc
<1>6. Typed'
  BY <1>1, <1>2, <1>5 DEF IInv, Typed
<1>7. Stacks'
  BY <1>0, <1>1, <1>3, <1>17, StacksKept DEF IInv, L
<1>8. Buffers'
  <2> SUFFICES ASSUME NEW u \in Threads, NEW n \in Depths(u)
               PROVE  Knows(calls[u][n])'
    BY <1>1 DEF Buffers
  <2>1. CASE u # t \/ n # L
    <3>1. Knows(calls[u][n]) /\ calls'[u][n] = calls[u][n] /\ calls[u][n].inst \in Instances
      BY <2>1, <1>1, <1>16 DEF IInv, Buffers
    <3>2. CASE calls[u][n].inst = j
      <4>1. ~Builds(calls[u][n])
        <5>1. Builds(calls[t][L]) /\ calls[t][L].inst = j
          BY <1>0, <1>1 DEF Builds, j
        <5> QED
          BY <5>1, <3>2, <2>1, <1>1 DEF IInv, Alone
      <4> QED
        BY <4>1, <3>1, <3>2, <1>2, <1>4 DEF Knows, Builds, j
    <3>3. CASE calls[u][n].inst # j
      BY <3>1, <3>3, <1>2, <1>4, KnowsKept
    <3> QED
      BY <3>2, <3>3
  <2>2. CASE u = t /\ n = L
    BY <2>2, <1>17, <1>0, <1>1, <1>2, <1>4, <1>5 DEF Knows, j
  <2> QED
    BY <2>1, <2>2
<1>10. Alone'
  <2>1. \A u \in Threads : \A n \in Depths(u)' : Builds(calls[u][n])' =>
          n \in Depths(u) /\ Builds(calls[u][n]) /\ calls'[u][n].inst = calls[u][n].inst
    BY <1>0, <1>1, <1>9, <1>17 DEF Builds
  <2> QED
    BY <2>1, AloneKept DEF IInv
<1>11. Contents'
  <2>1. \A i \in Instances : instance[i] = "Created" => object[i] = "alive"
    BY <1>0, NobodyClears
  <2> QED
    BY <2>1, <1>2, <1>4 DEF IInv, Contents
<1>12. Waiting'
  <2>1. \A n \in Depths(Main)' : calls'[Main][n].pc \in {"destroy", "clear"} =>
          n \in Depths(Main) /\ calls[Main][n].pc \in {"destroy", "clear"}
          /\ calls'[Main][n].inst = calls[Main][n].inst
    BY <1>0, <1>1, <1>9, <1>17, LazyAssumption
  <2>2. \A i : Ready(i) => Ready(i)'
    BY <1>2, <1>4 DEF Ready, j
  <2>3. /\ managers # <<>> => \A k \in 1 .. Len(Stack) : Ready(Stack[k])'
        /\ runs # <<>> => \A k \in 1 .. Len(Tasks) : Ready(Tasks[k])'
    BY <2>2, <1>3 DEF IInv, Waiting, Ready
  <2> QED
    BY <2>1, <2>3, <1>3, WaitingKept DEF IInv
<1>13. \A i \in Instances : Registering(i) => Registering(i)'
  BY <1>0, <1>1 DEF Registering
<1>18. \A i \in Instances \ Leaky : Working(i) => Working(i)'
  BY <1>0, <1>1, <1>9, <1>17 DEF Working
<1>14. (Asserts => Cared)'
  BY <1>2, <1>3, <1>18, CaredKept DEF IInv
<1>15. Uses'
  <2>1. ASSUME managers # <<>>, runs = <<>>, NEW u \in Threads, NEW n \in Depths(u)
        PROVE  Has(u, n)'
    <3>1. CASE u = t /\ n = L
      <4>1. Has(t, L)
        BY <1>1, <2>1 DEF IInv, Uses
      <4> QED
        BY <4>1, <3>1, <1>0, <1>1, <1>2, <1>3, <1>4, <1>17 DEF Has, Got, L, j
    <3>2. CASE u # t \/ n # L
      <4>1. calls'[u][n] = calls[u][n] /\ Has(u, n)
        BY <3>2, <1>1, <2>1 DEF IInv, Uses
      <4>2. n < Len(calls[u]) => n + 1 \in Depths(u)
        BY <1>6, <2>1 DEF Depths
      <4> QED
        BY <4>1, <4>2, <1>1, <1>2, <1>4, <1>9, <1>16, HasKept DEF j
    <3> QED
      BY <3>1, <3>2
  <2>2. managers # <<>> => Listed \in Seq(Instances)
    BY LibFacts DEF IInv, Phases
  <2>3. \A i \in Instances : instance[i] = "Created" => instance'[i] = "Created"
    BY <1>2, <1>4 DEF j
  <2>4. \A i \in Instances \ Leaky : instance'[i] = "Created" =>
          Registering(i)' \/ (instance[i] = "Created" /\ (Registering(i) => Registering(i)'))
    <3>1. ASSUME NEW i \in Instances \ Leaky, i = j
          PROVE  Registering(i)'
      BY <3>1, <1>1, <1>17 DEF Registering
    <3> QED
      BY <3>1, <1>4, <1>13
  <2> QED
    BY <2>1, <2>2, <2>3, <2>4, <1>1, <1>3, UsesKept DEF IInv
<1> QED
  BY <1>3, <1>6, <1>7, <1>8, <1>10, <1>11, <1>12, <1>14, <1>15 DEF IInv

\* What is being destroyed neither waits nor is a task any more.
LEMMA DestroyedApart ==
  ASSUME IInv, NEW t \in Threads, ~Idle(t), Call(t).pc \in {"destroy", "clear"}
  PROVE  /\ t = Main /\ Len(calls[t]) = 1 /\ runs # <<>> /\ managers # <<>>
         /\ \A u \in Threads : \A n \in Depths(u) : u = t /\ n = 1
         /\ \A k \in 1 .. Len(Stack) : Stack[k] # Call(t).inst
         /\ \A k \in 1 .. Len(Tasks) : Tasks[k] # Call(t).inst
<1>1. Len(calls[t]) \in Depths(t) /\ Call(t) = calls[t][Len(calls[t])]
  BY TopFacts DEF IInv
<1>2. t = Main /\ Len(calls[t]) = 1 /\ runs # <<>>
  BY <1>1 DEF IInv, Stacks
<1>3. managers # <<>> /\ \A u \in Threads \ {t} : calls[u] = <<>>
  BY <1>2, Active
<1>4. /\ Stack \in Seq(Instances) /\ Listed \in Seq(Instances) /\ Tasks \in Seq(Instances)
      /\ \A k \in 1 .. Len(Stack), l \in 1 .. Len(Listed) : Stack[k] # Listed[l]
  BY <1>2, <1>3, LibFacts DEF IInv, Phases
<1>5. /\ Len(Tasks) < Len(Listed) /\ Call(t).inst = Listed[Len(Tasks) + 1]
      /\ \A k \in 1 .. Len(Tasks) : Tasks[k] = Listed[k]
      /\ \A k, l \in 1 .. Len(Listed) : Listed[k] = Listed[l] => k = l
  BY <1>1, <1>2, <1>3 DEF IInv, Waiting
<1> DEFINE T == Len(Tasks)
           N == Len(Listed)
<1>6. T \in Nat /\ N \in Nat
  BY <1>4, LenProperties
<1>7. T < N /\ Call(t).inst = Listed[T + 1]
  BY <1>5
<1>8. \A k \in 1 .. Len(Stack), l \in 1 .. N : Stack[k] # Listed[l]
  BY <1>4
<1>9. /\ \A k \in 1 .. T : Tasks[k] = Listed[k]
      /\ \A k, l \in 1 .. N : Listed[k] = Listed[l] => k = l
  BY <1>5
<1> HIDE DEF T, N
<1>10. T + 1 \in 1 .. N
  BY <1>6, <1>7
<1>11. \A k \in 1 .. Len(Stack) : Stack[k] # Call(t).inst
  BY <1>7, <1>8, <1>10
<1>12. ASSUME NEW k \in 1 .. T
       PROVE  Tasks[k] # Call(t).inst
  <2>1. k \in 1 .. N /\ k # T + 1
    BY <1>6, <1>7
  <2> QED
    BY <2>1, <1>7, <1>9, <1>10
<1>13. ASSUME NEW u \in Threads, NEW n \in Depths(u)
       PROVE  u = t /\ n = 1
  <2>1. Len(<<>>) = 0
    BY EmptySeq
  <2>2. CASE u # t
    <3>1. Len(calls[u]) = 0
      BY <2>1, <2>2, <1>3
    <3> QED
      BY <3>1 DEF Depths
  <2>3. CASE u = t
    BY <2>3, <1>2 DEF Depths
  <2> QED
    BY <2>2, <2>3
<1> QED
  BY <1>2, <1>3, <1>11, <1>12, <1>13 DEF T

\* The destructor returns: nobody else knows the instance.
LEMMA DeleteIInv ==
  ASSUME IInv, Lib!IInv', NEW t \in Threads, Delete(t)
  PROVE  IInv'
<1> DEFINE L == Len(calls[t])
           j == Call(t).inst
<1>0. ~Idle(t) /\ Call(t).pc = "destroy" /\ Call(t).todo = {}
  BY DEF Delete, At
<1>5. j \in Instances /\ Knows(Call(t))
  BY <1>0, TopFacts DEF IInv, Buffers
<1>2. /\ object' = [object EXCEPT ![j] = "dead"]
      /\ instance' = instance /\ built' = built /\ asked' = asked /\ UNCHANGED atExitVars
      /\ Goto(t, "clear")
  BY DEF Delete, IInv, Typed
<1>1. /\ L \in Nat /\ L # 0
      /\ calls' \in [Threads -> Seq(Frames)]
      /\ \A u \in Threads \ {t} : calls'[u] = calls[u]
      /\ \A u \in Threads : Depths(u)' = Depths(u) /\ Len(calls'[u]) = Len(calls[u])
      /\ \A u \in Threads : \A n \in Depths(u) : u # t \/ n # L => calls'[u][n] = calls[u][n]
      /\ calls'[t][L].inst = j /\ calls'[t][L].pc = "clear" /\ calls'[t][L].todo = {}
      /\ calls[t][L] = Call(t) /\ L \in Depths(t)
  <2>1. Moved(t, "clear", Call(t).todo)
    BY <1>0, <1>2, <1>5, GotoFacts DEF IInv, PCs
  <2> QED
    BY <2>1, <1>0, MovedFrames DEF IInv
<1>3. /\ Phases' /\ Untouched'
      /\ managers' = managers /\ runs' = runs /\ history' = history /\ panicked' = panicked
      /\ Stack' = Stack /\ Listed' = Listed /\ Tasks' = Tasks
  BY <1>0, <1>1, <1>2, KeepsPhases
<1>16. \A u \in Threads : \A n \in Depths(u) : calls[u][n].inst \in Instances
  BY FramesTyped DEF IInv
<1>9. \A u \in Threads : \A n \in Depths(u) : calls'[u][n].inst = calls[u][n].inst
  BY <1>1 DEF j
<1>4. /\ object'[j] = "dead" /\ \A i \in Instances \ {j} : object'[i] = object[i]
      /\ instance[j] = "Created"
  BY <1>0, <1>2, <1>5 DEF Knows, IInv, Typed
<1>17. /\ t = Main /\ L = 1 /\ runs # <<>> /\ managers # <<>>
       /\ \A u \in Threads : \A n \in Depths(u) : u = t /\ n = 1
       /\ \A k \in 1 .. Len(Stack) : Stack[k] # j
       /\ \A k \in 1 .. Len(Tasks) : Tasks[k] # j
  BY <1>0, DestroyedApart
<1>18. \A u \in Threads : \A n \in Depths(u) : u = t /\ n = L
  BY <1>17
<1> HIDE DEF L, j
<1>6. Typed'
  BY <1>1, <1>2, <1>5 DEF IInv, Typed
<1>7. Stacks'
  BY <1>0, <1>1, <1>3, StacksKept DEF IInv, L
<1>19. \A u \in Threads : \A n \in Depths(u)' : u = t /\ n = L
  BY <1>1, <1>18
<1>8. Buffers'
  <2> SUFFICES ASSUME NEW u \in Threads, NEW n \in Depths(u)'
               PROVE  Knows(calls[u][n])'
    BY DEF Buffers
  <2>1. calls'[u][n].inst = j /\ calls'[u][n].pc = "clear"
    BY <1>1, <1>19
  <2> QED
    BY <2>1, <1>2, <1>4 DEF Knows
<1>10. Alone'
  <2>1. \A u \in Threads : \A n \in Depths(u)' : Builds(calls[u][n])' =>
          n \in Depths(u) /\ Builds(calls[u][n]) /\ calls'[u][n].inst = calls[u][n].inst
    <3> SUFFICES ASSUME NEW u \in Threads, NEW n \in Depths(u)'
                 PROVE  ~Builds(calls[u][n])'
      OBVIOUS
    <3>1. calls'[u][n].pc = "clear"
      BY <1>1, <1>19
    <3> QED
      BY <3>1 DEF Builds
  <2> QED
    BY <2>1, AloneKept DEF IInv
<1>11. Contents'
  <2>1. \A i \in Instances : instance[i] = "Created" => object[i] = "alive"
    BY <1>0, NobodyClears
  <2>2. Len(calls'[Main]) = 1 /\ calls'[Main][1].inst = j /\ calls'[Main][1].pc = "clear"
    <3>1. Len(calls'[t]) = L
      BY <1>1 DEF L
    <3> QED
      BY <3>1, <1>1, <1>17
  <2>3. \A i \in Instances : instance[i] = "0" => object[i] # "alive"
    BY DEF IInv, Contents
  <2> SUFFICES ASSUME NEW i \in Instances
               PROVE  /\ instance'[i] = "0" => object'[i] # "alive"
                      /\ instance'[i] = "Created" /\ object'[i] # "alive" => i = j
    BY <2>2 DEF Contents
  <2> QED
    BY <2>1, <2>3, <1>2, <1>4
<1>12. Waiting'
  <2>1. \A n \in Depths(Main)' : calls'[Main][n].pc \in {"destroy", "clear"} =>
          n \in Depths(Main) /\ calls[Main][n].pc \in {"destroy", "clear"}
          /\ calls'[Main][n].inst = calls[Main][n].inst
    BY <1>0, <1>1, <1>9, <1>18, LazyAssumption
  <2>2. \A k \in 1 .. Len(Stack) : Ready(Stack[k])'
    <3> SUFFICES ASSUME NEW k \in 1 .. Len(Stack)
                 PROVE  Ready(Stack[k])'
      OBVIOUS
    <3>1. Stack \in Seq(Instances)
      BY <1>17, LibFacts DEF IInv, Phases
    <3>2. Stack[k] \in Instances /\ Stack[k] # j /\ Ready(Stack[k])
      BY <3>1, <1>17, ElementOfSeq DEF IInv, Waiting
    <3> QED
      BY <3>2, <1>2, <1>3, <1>4 DEF Ready
  <2>3. \A k \in 1 .. Len(Tasks) : Ready(Tasks[k])'
    <3> SUFFICES ASSUME NEW k \in 1 .. Len(Tasks)
                 PROVE  Ready(Tasks[k])'
      OBVIOUS
    <3>1. Tasks \in Seq(Instances)
      BY <1>17, LibFacts DEF IInv, Phases
    <3>2. Tasks[k] \in Instances /\ Tasks[k] # j /\ Ready(Tasks[k])
      BY <3>1, <1>17, ElementOfSeq DEF IInv, Waiting
    <3> QED
      BY <3>2, <1>2, <1>3, <1>4 DEF Ready
  <2> QED
    BY <2>1, <2>2, <2>3, <1>3, WaitingKept DEF IInv
<1>14. (Asserts => Cared)'
  <2>1. ASSUME NEW i \in Instances \ Leaky, object'[i] = "alive"
        PROVE  Working(i)' \/ (object[i] = "alive" /\ (Working(i) => Working(i)'))
    <3>1. i # j /\ object[i] = "alive"
      BY <2>1, <1>4
    <3>2. ~Working(i)
      BY <3>1, <1>1, <1>18 DEF Working, j
    <3> QED
      BY <3>1, <3>2
  <2> QED
    BY <2>1, <1>3, CaredKept DEF IInv
<1>15. Uses'
  <2>1. managers # <<>> => Listed \in Seq(Instances)
    BY LibFacts DEF IInv, Phases
  <2> QED
    BY <2>1, <1>3, <1>17, UsesKept DEF IInv
<1> QED
  BY <1>3, <1>6, <1>7, <1>8, <1>10, <1>11, <1>12, <1>14, <1>15 DEF IInv

\* The frames after a return.
LEMMA PoppedFrames ==
  ASSUME Typed, NEW t \in Threads, ~Idle(t), Return(t)
  PROVE  LET L == Len(calls[t])
         IN /\ L \in Nat /\ L # 0
            /\ calls' \in [Threads -> Seq(Frames)]
            /\ \A u \in Threads \ {t} : calls'[u] = calls[u]
            /\ Len(calls'[t]) = L - 1
            /\ \A u \in Threads : \A n \in Depths(u)' :
                 n \in Depths(u) /\ calls'[u][n] = calls[u][n] /\ (u # t \/ n < L)
            /\ \A u \in Threads : \A n \in Depths(u) :
                 u # t \/ n # L => n \in Depths(u)' /\ calls'[u][n] = calls[u][n]
            /\ calls[t][L] = Call(t) /\ L \in Depths(t)
<1> DEFINE L == Len(calls[t])
<1>1. L \in Nat /\ L # 0 /\ calls[t][L] = Call(t) /\ L \in Depths(t)
  BY TopFacts
<1>2. /\ calls' \in [Threads -> Seq(Frames)]
      /\ \A u \in Threads \ {t} : calls'[u] = calls[u]
      /\ Len(calls'[t]) = L - 1
      /\ \A n \in 1 .. L - 1 : calls'[t][n] = calls[t][n]
  BY ReturnFacts DEF Popped
<1>3. ASSUME NEW u \in Threads, NEW n \in Depths(u)'
      PROVE  n \in Depths(u) /\ calls'[u][n] = calls[u][n] /\ (u # t \/ n < L)
  <2>1. CASE u # t
    BY <2>1, <1>2 DEF Depths
  <2>2. CASE u = t
    <3>1. n \in 1 .. L - 1
      BY <2>2, <1>2 DEF Depths
    <3>2. n \in 1 .. L /\ n < L
      BY <3>1, <1>1
    <3> QED
      BY <2>2, <3>1, <3>2, <1>2 DEF Depths
  <2> QED
    BY <2>1, <2>2
<1>4. ASSUME NEW u \in Threads, NEW n \in Depths(u), u # t \/ n # L
      PROVE  n \in Depths(u)' /\ calls'[u][n] = calls[u][n]
  <2>1. CASE u # t
    BY <2>1, <1>2 DEF Depths
  <2>2. CASE u = t
    <3>1. n \in 1 .. L - 1
      BY <2>2, <1>1, <1>4 DEF Depths
    <3> QED
      BY <2>2, <3>1, <1>2 DEF Depths
  <2> QED
    BY <2>1, <2>2
<1> QED
  BY <1>1, <1>2, <1>3, <1>4

\* OnExit returns, and leaves no trace of the instance.
LEMMA ClearIInv ==
  ASSUME IInv, Lib!IInv', NEW t \in Threads, Clear(t)
  PROVE  IInv'
<1> DEFINE L == Len(calls[t])
           j == Call(t).inst
<1>0. ~Idle(t) /\ Call(t).pc = "clear"
  BY DEF Clear, At
<1>5. j \in Instances /\ Knows(Call(t))
  BY <1>0, TopFacts DEF IInv, Buffers
<1>2. /\ instance' = [instance EXCEPT ![j] = "0"]
      /\ object' = object /\ built' = built /\ asked' = asked /\ UNCHANGED atExitVars
      /\ Return(t)
  BY DEF Clear, IInv, Typed
<1>1. /\ L \in Nat /\ L # 0
      /\ calls' \in [Threads -> Seq(Frames)]
      /\ \A u \in Threads \ {t} : calls'[u] = calls[u]
      /\ Len(calls'[t]) = L - 1
      /\ \A u \in Threads : \A n \in Depths(u)' :
           n \in Depths(u) /\ calls'[u][n] = calls[u][n] /\ (u # t \/ n < L)
      /\ \A u \in Threads : \A n \in Depths(u) : u # t \/ n # L => n \in Depths(u)' /\ calls'[u][n] = calls[u][n]
      /\ calls[t][L] = Call(t) /\ L \in Depths(t)
  BY <1>0, <1>2, PoppedFrames DEF IInv
<1>3. /\ Phases' /\ Untouched'
      /\ managers' = managers /\ runs' = runs /\ history' = history /\ panicked' = panicked
      /\ Stack' = Stack /\ Listed' = Listed /\ Tasks' = Tasks
  BY <1>0, <1>1, <1>2, KeepsPhases
<1>4. /\ instance'[j] = "0" /\ \A i \in Instances \ {j} : instance'[i] = instance[i]
      /\ instance[j] = "Created" /\ object[j] # "alive"
  BY <1>0, <1>2, <1>5 DEF Knows, IInv, Typed
<1>17. /\ t = Main /\ L = 1 /\ runs # <<>> /\ managers # <<>>
       /\ \A u \in Threads : \A n \in Depths(u) : u = t /\ n = 1
       /\ \A k \in 1 .. Len(Stack) : Stack[k] # j
       /\ \A k \in 1 .. Len(Tasks) : Tasks[k] # j
  BY <1>0, DestroyedApart
<1>18. \A u \in Threads : \A n \in Depths(u) : u = t /\ n = L
  BY <1>17
<1> HIDE DEF L, j
<1>6. Typed'
  BY <1>1, <1>2, <1>5 DEF IInv, Typed
<1>19. \A u \in Threads : \A n \in Depths(u)' : FALSE
  <2> SUFFICES ASSUME NEW u \in Threads, NEW n \in Depths(u)'
               PROVE  FALSE
    OBVIOUS
  <2>1. n \in Depths(u) /\ (u # t \/ n < L)
    BY <1>1
  <2>2. u = t /\ n = L
    BY <2>1, <1>18
  <2> QED
    BY <2>1, <2>2, <1>17
<1>7. Stacks' /\ Buffers' /\ Alone'
  BY <1>19 DEF Stacks, Buffers, Alone
<1>11. Contents'
  BY <1>0, <1>1, <1>2, <1>4, <1>17 DEF IInv, Contents, j
<1>12. Waiting'
  <2>1. \A n \in Depths(Main)' : calls'[Main][n].pc \in {"destroy", "clear"} =>
          n \in Depths(Main) /\ calls[Main][n].pc \in {"destroy", "clear"}
          /\ calls'[Main][n].inst = calls[Main][n].inst
    BY <1>19, LazyAssumption
  <2>2. \A k \in 1 .. Len(Stack) : Ready(Stack[k])'
    <3> SUFFICES ASSUME NEW k \in 1 .. Len(Stack)
                 PROVE  Ready(Stack[k])'
      OBVIOUS
    <3>1. Stack \in Seq(Instances)
      BY <1>17, LibFacts DEF IInv, Phases
    <3>2. Stack[k] \in Instances /\ Stack[k] # j /\ Ready(Stack[k])
      BY <3>1, <1>17, ElementOfSeq DEF IInv, Waiting
    <3> QED
      BY <3>2, <1>2, <1>3, <1>4 DEF Ready
  <2>3. \A k \in 1 .. Len(Tasks) : Ready(Tasks[k])'
    <3> SUFFICES ASSUME NEW k \in 1 .. Len(Tasks)
                 PROVE  Ready(Tasks[k])'
      OBVIOUS
    <3>1. Tasks \in Seq(Instances)
      BY <1>17, LibFacts DEF IInv, Phases
    <3>2. Tasks[k] \in Instances /\ Tasks[k] # j /\ Ready(Tasks[k])
      BY <3>1, <1>17, ElementOfSeq DEF IInv, Waiting
    <3> QED
      BY <3>2, <1>2, <1>3, <1>4 DEF Ready
  <2> QED
    BY <2>1, <2>2, <2>3, <1>3, WaitingKept DEF IInv
<1>14. (Asserts => Cared)'
  <2>1. ASSUME NEW i \in Instances
        PROVE  ~Working(i)
    BY <1>0, <1>1, <1>18 DEF Working
  <2> QED
    BY <2>1, <1>2, <1>3, CaredKept DEF IInv
<1>15. Uses'
  <2>1. managers # <<>> => Listed \in Seq(Instances)
    BY LibFacts DEF IInv, Phases
  <2> QED
    BY <2>1, <1>3, <1>17, UsesKept DEF IInv
<1> QED
  BY <1>3, <1>6, <1>7, <1>11, <1>12, <1>14, <1>15 DEF IInv

\* Pointer() returns; its caller has got what it asked for.
LEMMA GetInstanceIInv ==
  ASSUME IInv, Lib!IInv', NEW t \in Threads, GetInstance(t)
  PROVE  IInv'
<1> DEFINE L == Len(calls[t])
           j == Call(t).inst
<1>0. ~Idle(t) /\ Call(t).pc = "get"
  BY DEF GetInstance, At
<1>5. j \in Instances /\ Knows(Call(t))
  BY <1>0, TopFacts DEF IInv, Buffers
<1>2. /\ instance' = instance /\ object' = object /\ built' = built /\ asked' = asked
      /\ UNCHANGED atExitVars /\ Return(t)
  BY DEF GetInstance, IInv, Typed
<1>1. /\ L \in Nat /\ L # 0
      /\ calls' \in [Threads -> Seq(Frames)]
      /\ \A u \in Threads \ {t} : calls'[u] = calls[u]
      /\ Len(calls'[t]) = L - 1
      /\ \A u \in Threads : \A n \in Depths(u)' :
           n \in Depths(u) /\ calls'[u][n] = calls[u][n] /\ (u # t \/ n < L)
      /\ \A u \in Threads : \A n \in Depths(u) : u # t \/ n # L => n \in Depths(u)' /\ calls'[u][n] = calls[u][n]
      /\ calls[t][L] = Call(t) /\ L \in Depths(t)
  BY <1>0, <1>2, PoppedFrames DEF IInv
<1>3. /\ Phases' /\ Untouched'
      /\ managers' = managers /\ runs' = runs /\ history' = history /\ panicked' = panicked
      /\ Stack' = Stack /\ Listed' = Listed /\ Tasks' = Tasks
  BY <1>0, <1>1, <1>2, KeepsPhases
<1>16. \A u \in Threads : \A n \in Depths(u) : calls[u][n].inst \in Instances
  BY FramesTyped DEF IInv
<1>4. instance[j] = "Created"
  BY <1>0, <1>5 DEF Knows
<1> HIDE DEF L, j
<1>6. Typed'
  BY <1>1, <1>2, <1>5 DEF IInv, Typed
<1>7. Stacks'
  <2> SUFFICES ASSUME NEW u \in Threads, NEW n \in Depths(u)'
               PROVE  /\ n < Len(calls'[u]) => calls'[u][n].pc \in {"construct", "destroy"}
                      /\ calls'[u][n].pc \in {"destroy", "clear"} => u = Main /\ n = 1 /\ runs' # <<>>
    BY DEF Stacks
  <2>1. n \in Depths(u) /\ calls'[u][n] = calls[u][n]
    BY <1>1
  <2>2. n < Len(calls'[u]) => n < Len(calls[u])
    <3>1. CASE u = t
      BY <3>1, <2>1, <1>1 DEF Depths, L
    <3>2. CASE u # t
      BY <3>2, <1>1
    <3> QED
      BY <3>1, <3>2
  <2> QED
    BY <2>1, <2>2, <1>3 DEF IInv, Stacks
<1>8. Buffers'
  <2> SUFFICES ASSUME NEW u \in Threads, NEW n \in Depths(u)'
               PROVE  Knows(calls[u][n])'
    BY DEF Buffers
  <2>1. n \in Depths(u) /\ calls'[u][n] = calls[u][n] /\ Knows(calls[u][n])
    BY <1>1 DEF IInv, Buffers
  <2> QED
    BY <2>1, <1>2, KnowsKept
<1>10. Alone'
  <2>1. \A u \in Threads : \A n \in Depths(u)' : Builds(calls[u][n])' =>
          n \in Depths(u) /\ Builds(calls[u][n]) /\ calls'[u][n].inst = calls[u][n].inst
    BY <1>1 DEF Builds
  <2> QED
    BY <2>1, AloneKept DEF IInv
<1>11. Contents'
  <2>1. \A i \in Instances : instance[i] = "Created" => object[i] = "alive"
    BY <1>0, NobodyClears
  <2> QED
    BY <2>1, <1>2 DEF IInv, Contents
<1>12. Waiting'
  <2>1. \A n \in Depths(Main)' : calls'[Main][n].pc \in {"destroy", "clear"} =>
          n \in Depths(Main) /\ calls[Main][n].pc \in {"destroy", "clear"}
          /\ calls'[Main][n].inst = calls[Main][n].inst
    BY <1>1, LazyAssumption
  <2>2. /\ managers # <<>> => \A k \in 1 .. Len(Stack) : Ready(Stack[k])'
        /\ runs # <<>> => \A k \in 1 .. Len(Tasks) : Ready(Tasks[k])'
    BY <1>2, <1>3 DEF IInv, Waiting, Ready
  <2> QED
    BY <2>1, <2>2, <1>3, WaitingKept DEF IInv
<1>13. ASSUME NEW i \in Instances, Registering(i)
       PROVE  Registering(i)'
  <2>1. PICK u \in Threads : \E n \in Depths(u) : calls[u][n].inst = i /\ calls[u][n].pc = "register"
    BY <1>13 DEF Registering
  <2>2. PICK n \in Depths(u) : calls[u][n].inst = i /\ calls[u][n].pc = "register"
    BY <2>1
  <2>3. u # t \/ n # L
    BY <2>2, <1>0, <1>1
  <2>4. n \in Depths(u)' /\ calls'[u][n] = calls[u][n]
    BY <2>3, <1>1
  <2> QED
    BY <2>2, <2>4 DEF Registering
<1>18. \A i \in Instances : Working(i) => Working(i)'
  BY <1>0, <1>1 DEF Working
<1>14. (Asserts => Cared)'
  BY <1>2, <1>3, <1>18, CaredKept DEF IInv
<1>15. Uses'
  <2>1. ASSUME managers # <<>>, runs = <<>>, NEW u \in Threads, NEW n \in Depths(u)'
        PROVE  Has(u, n)'
    <3>1. n \in Depths(u) /\ calls'[u][n] = calls[u][n] /\ (u # t \/ n < L)
      BY <1>1
    <3>2. Has(u, n) /\ calls[u][n].inst \in Instances
      BY <3>1, <1>16, <2>1 DEF IInv, Uses
    <3>3. CASE u = t /\ n = L - 1
      <4>1. \A i \in Instances : Got(t, n, i) => instance[i] = "Created"
        <5>1. n + 1 = L
          BY <3>3, <1>1
        <5> QED
          BY <5>1, <3>3, <1>1, <1>4 DEF Got, j
      <4>2. CtorUses[calls[u][n].inst] \subseteq Instances
        BY <3>2, LazyAssumption
      <4>3. \A i \in CtorUses[calls[u][n].inst] : Got(u, n, i) => Got(u, n, i)'
        BY <3>3, <4>1, <4>2, <1>2 DEF Got
      <4> QED
        BY <3>1, <3>2, <4>3, <1>2 DEF Has
    <3>4. CASE u # t \/ n # L - 1
      <4>1. n < Len(calls[u]) => n < Len(calls'[u]) /\ calls'[u][n + 1].inst = calls[u][n + 1].inst
        <5>1. CASE u # t
          BY <5>1, <1>1
        <5>2. CASE u = t /\ n # L - 1
          <6>1. n + 1 \in Depths(u) /\ n + 1 # L /\ n < L - 1
            BY <5>2, <3>1, <1>1 DEF Depths, L
          <6> QED
            BY <6>1, <5>2, <1>1
        <5> QED
          BY <5>1, <5>2, <3>4
      <4> QED
        BY <4>1, <3>1, <3>2, <1>2, HasKept
    <3> QED
      BY <3>3, <3>4
  <2>2. managers # <<>> => Listed \in Seq(Instances)
    BY LibFacts DEF IInv, Phases
  <2> QED
    BY <2>1, <2>2, <1>2, <1>3, <1>13, UsesKept DEF IInv
<1> QED
  BY <1>3, <1>6, <1>7, <1>8, <1>10, <1>11, <1>12, <1>14, <1>15 DEF IInv

\* A constructor or a destructor asks for another instance.
LEMMA UseIInv ==
  ASSUME IInv, Lib!IInv', NEW t \in Threads, NEW x \in Instances, Use(t, x)
  PROVE  IInv'
<1> DEFINE L == Len(calls[t])
           j == Call(t).inst
<1>0. ~Idle(t) /\ Call(t).pc \in {"construct", "destroy"} /\ x \in Call(t).todo
  BY DEF Use, At
<1>2. UNCHANGED <<instance, object, built, asked, atExitVars>>
  BY DEF Use
<1>17. Pushed(t, x)
  BY <1>0, UseFacts DEF IInv
<1>1. /\ L \in Nat /\ L # 0
      /\ calls' \in [Threads -> Seq(Frames)]
      /\ \A u \in Threads \ {t} : calls'[u] = calls[u]
      /\ Len(calls'[t]) = L + 1
      /\ \A n \in 1 .. L - 1 : calls'[t][n] = calls[t][n]
      /\ calls'[t][L].inst = j /\ calls'[t][L].pc = Call(t).pc /\ calls'[t][L].todo = Call(t).todo \ {x}
      /\ calls'[t][L + 1].inst = x /\ calls'[t][L + 1].pc = "load"
      /\ calls[t][L] = Call(t) /\ L \in Depths(t)
  BY <1>0, <1>17, TopFacts DEF Pushed, IInv, Pointer
<1>3. /\ Phases' /\ Untouched'
      /\ managers' = managers /\ runs' = runs /\ history' = history /\ panicked' = panicked
      /\ Stack' = Stack /\ Listed' = Listed /\ Tasks' = Tasks
  BY <1>0, <1>1, <1>2, KeepsPhases
<1>16. \A u \in Threads : \A n \in Depths(u) : calls[u][n].inst \in Instances
  BY FramesTyped DEF IInv
<1> HIDE DEF L, j
<1>4. ASSUME NEW u \in Threads, NEW n \in Depths(u)
      PROVE  /\ n \in Depths(u)' /\ calls'[u][n].inst = calls[u][n].inst /\ calls'[u][n].pc = calls[u][n].pc
             /\ u # t \/ n # L => calls'[u][n] = calls[u][n]
  <2>1. CASE u # t
    BY <2>1, <1>1 DEF Depths
  <2>2. CASE u = t /\ n = L
    BY <2>2, <1>1 DEF Depths, L, j
  <2>3. CASE u = t /\ n # L
    <3>1. n \in 1 .. L - 1
      BY <2>3, <1>1 DEF Depths, L
    <3> QED
      BY <2>3, <3>1, <1>1 DEF Depths
  <2> QED
    BY <2>1, <2>2, <2>3
<1>5. ASSUME NEW u \in Threads, NEW n \in Depths(u)'
      PROVE  n \in Depths(u) \/ (u = t /\ n = L + 1 /\ calls'[u][n].pc = "load")
  BY <1>1 DEF Depths, L
<1>6. Typed'
  BY <1>1, <1>2 DEF IInv, Typed
<1>7. Stacks'
  <2> SUFFICES ASSUME NEW u \in Threads, NEW n \in Depths(u)'
               PROVE  /\ n < Len(calls'[u]) => calls'[u][n].pc \in {"construct", "destroy"}
                      /\ calls'[u][n].pc \in {"destroy", "clear"} => u = Main /\ n = 1 /\ runs' # <<>>
    BY DEF Stacks
  <2>1. CASE u = t /\ n = L + 1
    BY <2>1, <1>1, <1>5
  <2>2. CASE n \in Depths(u)
    <3>1. n < Len(calls'[u]) => calls[u][n].pc \in {"construct", "destroy"}
      <4>1. CASE u # t
        BY <4>1, <2>2, <1>1 DEF IInv, Stacks
      <4>2. CASE u = t /\ n = L
        BY <4>2, <1>0, <1>1
      <4>3. CASE u = t /\ n # L
        <5>1. n < L
          BY <4>3, <2>2, <1>1 DEF Depths, L
        <5> QED
          BY <5>1, <4>3, <2>2 DEF IInv, Stacks, L
      <4> QED
        BY <4>1, <4>2, <4>3
    <3>2. calls[u][n].pc \in {"destroy", "clear"} => u = Main /\ n = 1 /\ runs # <<>>
      BY <2>2 DEF IInv, Stacks
    <3> QED
      BY <3>1, <3>2, <2>2, <1>3, <1>4
  <2> QED
    BY <2>1, <2>2, <1>5
<1>8. Buffers'
  <2> SUFFICES ASSUME NEW u \in Threads, NEW n \in Depths(u)'
               PROVE  Knows(calls[u][n])'
    BY DEF Buffers
  <2>1. CASE n \in Depths(u)
    <3>1. Knows(calls[u][n])
      BY <2>1 DEF IInv, Buffers
    <3> QED
      BY <2>1, <3>1, <1>2, <1>4 DEF Knows
  <2>2. CASE calls'[u][n].pc = "load"
    BY <2>2 DEF Knows
  <2> QED
    BY <2>1, <2>2, <1>5
<1>10. Alone'
  <2>1. \A u \in Threads : \A n \in Depths(u)' : Builds(calls[u][n])' =>
          n \in Depths(u) /\ Builds(calls[u][n]) /\ calls'[u][n].inst = calls[u][n].inst
    BY <1>4, <1>5 DEF Builds
  <2> QED
    BY <2>1, AloneKept DEF IInv
<1>11. Contents'
  <2>1. \A i \in Instances : instance[i] = "Created" => object[i] = "alive"
    BY <1>0, NobodyClears
  <2> QED
    BY <2>1, <1>2 DEF IInv, Contents
<1>12. Waiting'
  <2>1. \A n \in Depths(Main)' : calls'[Main][n].pc \in {"destroy", "clear"} =>
          n \in Depths(Main) /\ calls[Main][n].pc \in {"destroy", "clear"}
          /\ calls'[Main][n].inst = calls[Main][n].inst
    BY <1>4, <1>5, LazyAssumption
  <2>2. /\ managers # <<>> => \A k \in 1 .. Len(Stack) : Ready(Stack[k])'
        /\ runs # <<>> => \A k \in 1 .. Len(Tasks) : Ready(Tasks[k])'
    BY <1>2, <1>3 DEF IInv, Waiting, Ready
  <2> QED
    BY <2>1, <2>2, <1>3, WaitingKept DEF IInv
<1>13. \A i \in Instances : Registering(i) => Registering(i)'
  BY <1>4 DEF Registering
<1>18. \A i \in Instances : Working(i) => Working(i)'
  BY <1>4 DEF Working
<1>14. (Asserts => Cared)'
  BY <1>2, <1>3, <1>18, CaredKept DEF IInv
<1>15. Uses'
  <2>1. ASSUME managers # <<>>, runs = <<>>, NEW u \in Threads, NEW n \in Depths(u)'
        PROVE  Has(u, n)'
    <3>1. CASE calls'[u][n].pc = "load"
      BY <3>1 DEF Has
    <3>2. CASE n \in Depths(u)
      <4>1. Has(u, n) /\ calls[u][n].inst \in Instances
        BY <3>2, <2>1, <1>16 DEF IInv, Uses
      <4>2. CASE u = t /\ n = L
        <5>1. \A i : Got(t, L, i) => instance[i] = "Created"
          BY <1>1 DEF Got, L
        <5>3. \A i \in CtorUses[calls[t][L].inst] \ calls'[t][L].todo :
                i = x \/ i \in CtorUses[calls[t][L].inst] \ calls[t][L].todo
          BY <1>1
        <5>4. ASSUME calls[t][L].pc = "construct", NEW i \in CtorUses[calls[t][L].inst] \ calls'[t][L].todo
              PROVE  i = x \/ instance'[i] = "Created"
          BY <4>1, <4>2, <5>1, <5>3, <5>4, <1>2 DEF Has
        <5>5. calls[t][L].pc \notin {"publish", "register"}
          BY <1>0, <1>1
        <5>8. ASSUME calls'[t][n].pc = "construct", NEW i \in CtorUses[calls'[t][n].inst] \ calls'[t][n].todo
              PROVE  Got(t, n, i)'
          <6>1. calls[t][L].pc = "construct" /\ i \in CtorUses[calls[t][L].inst] \ calls'[t][L].todo
            BY <4>2, <3>2, <5>8, <1>4
          <6>2. i = x \/ instance'[i] = "Created"
            BY <6>1, <5>4
          <6>3. CASE i = x
            BY <6>3, <4>2, <1>1 DEF Got, L
          <6>4. CASE instance'[i] = "Created"
            BY <6>4 DEF Got
          <6> QED
            BY <6>2, <6>3, <6>4
        <5>9. calls'[t][n].pc \notin {"publish", "register"}
          BY <4>2, <3>2, <5>5, <1>4
        <5> QED
          BY <4>2, <5>8, <5>9 DEF Has
      <4>3. CASE u # t \/ n # L
        <5>1. n < Len(calls[u]) => n + 1 \in Depths(u) /\ n < Len(calls'[u])
          BY <3>2, <4>3, <1>1, <1>6 DEF Depths, L
        <5> QED
          BY <4>1, <4>3, <5>1, <3>2, <1>2, <1>4, HasKept
      <4> QED
        BY <4>2, <4>3
    <3> QED
      BY <3>1, <3>2, <1>5
  <2>2. managers # <<>> => Listed \in Seq(Instances)
    BY LibFacts DEF IInv, Phases
  <2> QED
    BY <2>1, <2>2, <1>2, <1>3, <1>13, UsesKept DEF IInv
<1> QED
  BY <1>3, <1>6, <1>7, <1>8, <1>10, <1>11, <1>12, <1>14, <1>15 DEF IInv

\* A constructor throws: what its thread was doing is over, and none of it had
\* got further than constructing.
LEMMA ThrowIInv ==
  ASSUME IInv, Lib!IInv', NEW t \in Threads, Throw(t)
  PROVE  IInv'
<1>0. ~Idle(t) /\ Call(t).pc = "construct" /\ runs = <<>>
  BY DEF Throw, At, Exiting
<1>2. /\ UNCHANGED <<instance, object, built, asked, atExitVars>>
      /\ calls' = [calls EXCEPT ![t] = <<>>] /\ calls \in [Threads -> Seq(Frames)]
  BY DEF Throw, IInv, Typed
<1>1. /\ calls' \in [Threads -> Seq(Frames)]
      /\ \A u \in Threads \ {t} : calls'[u] = calls[u]
      /\ calls'[t] = <<>> /\ Len(calls'[t]) = 0
  BY <1>2, EmptySeq
<1>3. /\ Phases' /\ Untouched'
      /\ managers' = managers /\ runs' = runs /\ history' = history /\ panicked' = panicked
      /\ Stack' = Stack /\ Listed' = Listed /\ Tasks' = Tasks
  BY <1>0, <1>1, <1>2, KeepsPhases
<1>16. \A u \in Threads : \A n \in Depths(u) : calls[u][n].inst \in Instances
  BY FramesTyped DEF IInv
<1>4. \A u \in Threads : \A n \in Depths(u)' :
        u # t /\ n \in Depths(u) /\ calls'[u] = calls[u]
  BY <1>1 DEF Depths
<1>5. \A n \in Depths(t) : calls[t][n].pc = "construct"
  <2> SUFFICES ASSUME NEW n \in Depths(t)
               PROVE  calls[t][n].pc = "construct"
    OBVIOUS
  <2>1. Len(calls[t]) \in Nat /\ calls[t][Len(calls[t])] = Call(t)
    BY <1>0, TopFacts DEF IInv
  <2>2. CASE n = Len(calls[t])
    BY <2>1, <2>2, <1>0
  <2>3. CASE n # Len(calls[t])
    <3>1. n < Len(calls[t])
      BY <2>1, <2>3 DEF Depths
    <3> QED
      BY <3>1, <1>0 DEF IInv, Stacks
  <2> QED
    BY <2>2, <2>3
<1>17. ASSUME NEW u \in Threads, NEW n \in Depths(u), calls[u][n].pc # "construct"
       PROVE  n \in Depths(u)' /\ calls'[u][n] = calls[u][n]
  BY <1>17, <1>1, <1>5 DEF Depths
<1>6. Typed'
  BY <1>1, <1>2 DEF IInv, Typed
<1>7. Stacks'
  BY <1>3, <1>4 DEF IInv, Stacks
<1>8. Buffers'
  <2> SUFFICES ASSUME NEW u \in Threads, NEW n \in Depths(u)'
               PROVE  Knows(calls[u][n])'
    BY DEF Buffers
  <2>1. n \in Depths(u) /\ calls'[u][n] = calls[u][n] /\ Knows(calls[u][n])
    BY <1>4 DEF IInv, Buffers
  <2> QED
    BY <2>1, <1>2, KnowsKept
<1>10. Alone'
  <2>1. \A u \in Threads : \A n \in Depths(u)' : Builds(calls[u][n])' =>
          n \in Depths(u) /\ Builds(calls[u][n]) /\ calls'[u][n].inst = calls[u][n].inst
    BY <1>4 DEF Builds
  <2> QED
    BY <2>1, AloneKept DEF IInv
<1>11. Contents'
  <2>1. \A i \in Instances : instance[i] = "Created" => object[i] = "alive"
    BY <1>0, NobodyClears
  <2> QED
    BY <2>1, <1>2 DEF IInv, Contents
<1>12. Waiting'
  <2>1. \A n \in Depths(Main)' : calls'[Main][n].pc \in {"destroy", "clear"} =>
          n \in Depths(Main) /\ calls[Main][n].pc \in {"destroy", "clear"}
          /\ calls'[Main][n].inst = calls[Main][n].inst
    BY <1>4, LazyAssumption
  <2>2. /\ managers # <<>> => \A k \in 1 .. Len(Stack) : Ready(Stack[k])'
        /\ runs # <<>> => \A k \in 1 .. Len(Tasks) : Ready(Tasks[k])'
    BY <1>2, <1>3 DEF IInv, Waiting, Ready
  <2> QED
    BY <2>1, <2>2, <1>3, WaitingKept DEF IInv
<1>13. \A i \in Instances : Registering(i) => Registering(i)'
  BY <1>17 DEF Registering
<1>18. \A i \in Instances : Working(i) => Working(i)'
  BY <1>17 DEF Working
<1>14. (Asserts => Cared)'
  BY <1>2, <1>3, <1>18, CaredKept DEF IInv
<1>15. Uses'
  <2>1. ASSUME managers # <<>>, runs = <<>>, NEW u \in Threads, NEW n \in Depths(u)'
        PROVE  Has(u, n)'
    <3>1. n \in Depths(u) /\ calls'[u] = calls[u]
      BY <1>4
    <3>2. Has(u, n) /\ calls[u][n].inst \in Instances
      BY <3>1, <1>16, <2>1 DEF IInv, Uses
    <3> QED
      BY <3>1, <3>2, <1>2, HasKept
  <2>2. managers # <<>> => Listed \in Seq(Instances)
    BY LibFacts DEF IInv, Phases
  <2> QED
    BY <2>1, <2>2, <1>2, <1>3, <1>13, UsesKept DEF IInv
<1> QED
  BY <1>3, <1>6, <1>7, <1>8, <1>10, <1>11, <1>12, <1>14, <1>15 DEF IInv

\* A thread asks for an instance.
LEMMA AskIInv ==
  ASSUME IInv, Lib!IInv', NEW t \in Threads, NEW x \in Instances, Ask(t, x)
  PROVE  IInv'
<1> DEFINE f == Pointer(x)
<1>0. managers # <<>> /\ runs = <<>> /\ calls[t] = <<>>
  BY DEF Ask, Exiting, Idle
<1>2. /\ instance' = instance /\ object' = object /\ built' = built
      /\ managers' = managers /\ runs' = runs /\ history' = history /\ panicked' = panicked
      /\ calls' = [calls EXCEPT ![t] = <<f>>] /\ calls \in [Threads -> Seq(Frames)]
      /\ asked' = [asked EXCEPT ![t] = @ + 1] /\ asked[t] < MaxCalls
      /\ asked \in [Threads -> 0 .. MaxCalls] /\ MaxCalls \in Nat
  BY LazyAssumption DEF Ask, IInv, Typed, atExitVars
<1>3. Stack' = Stack /\ Listed' = Listed /\ Tasks' = Tasks
  BY <1>2 DEF Stack, Listed, Tasks
<1>4. f \in Frames /\ f.pc = "load" /\ f.inst = x
  BY DEF Frames, PCs, Pointer
<1> HIDE DEF f
<1>1. /\ calls' \in [Threads -> Seq(Frames)]
      /\ \A u \in Threads \ {t} : calls'[u] = calls[u]
      /\ calls'[t] = <<f>> /\ Len(calls'[t]) = 1 /\ calls'[t][1] = f
      /\ Len(calls[t]) = 0
  BY <1>0, <1>2, <1>4
<1>5. /\ asked' \in [Threads -> 0 .. MaxCalls] /\ asked'[t] # 0
  BY <1>2
<1>16. \A u \in Threads : \A n \in Depths(u) : calls[u][n].inst \in Instances
  BY FramesTyped DEF IInv
<1>9. \A u \in Threads : \A n \in Depths(u) : n \in Depths(u)' /\ u # t /\ calls'[u] = calls[u]
  BY <1>1 DEF Depths
<1>17. ASSUME NEW u \in Threads, NEW n \in Depths(u)'
       PROVE  \/ n \in Depths(u) /\ calls'[u] = calls[u]
              \/ n = Len(calls'[u]) /\ calls'[u][n].pc = "load"
  <2>1. CASE u # t
    BY <2>1, <1>1 DEF Depths
  <2>2. CASE u = t
    <3>1. n \in 1 .. 1
      BY <2>2, <1>1 DEF Depths
    <3>2. n = 1
      BY <3>1
    <3> QED
      BY <2>2, <3>2, <1>1, <1>4
  <2> QED
    BY <2>1, <2>2
<1>6. Typed'
  BY <1>1, <1>2, <1>5 DEF IInv, Typed
<1>18. Phases' /\ Untouched'
  BY <1>0, <1>1, <1>2, <1>5 DEF IInv, Phases, Untouched
<1>7. Stacks'
  <2> SUFFICES ASSUME NEW u \in Threads, NEW n \in Depths(u)'
               PROVE  /\ n < Len(calls'[u]) => calls'[u][n].pc \in {"construct", "destroy"}
                      /\ calls'[u][n].pc \in {"destroy", "clear"} => u = Main /\ n = 1 /\ runs' # <<>>
    BY DEF Stacks
  <2>1. CASE n \in Depths(u) /\ calls'[u] = calls[u]
    BY <2>1, <1>2 DEF IInv, Stacks
  <2>2. CASE n = Len(calls'[u]) /\ calls'[u][n].pc = "load"
    <3>1. Len(calls'[u]) \in Nat
      BY <1>1, LenProperties
    <3> QED
      BY <2>2, <3>1
  <2> QED
    BY <2>1, <2>2, <1>17
<1>8. Buffers'
  <2> SUFFICES ASSUME NEW u \in Threads, NEW n \in Depths(u)'
               PROVE  Knows(calls[u][n])'
    BY DEF Buffers
  <2>1. CASE n \in Depths(u) /\ calls'[u] = calls[u]
    <3>1. Knows(calls[u][n])
      BY <2>1 DEF IInv, Buffers
    <3> QED
      BY <2>1, <3>1, <1>2, KnowsKept
  <2>2. CASE calls'[u][n].pc = "load"
    BY <2>2 DEF Knows
  <2> QED
    BY <2>1, <2>2, <1>17
<1>10. Alone'
  <2>1. \A u \in Threads : \A n \in Depths(u)' : Builds(calls[u][n])' =>
          n \in Depths(u) /\ Builds(calls[u][n]) /\ calls'[u][n].inst = calls[u][n].inst
    BY <1>17 DEF Builds
  <2> QED
    BY <2>1, AloneKept DEF IInv
<1>11. Contents'
  <2> SUFFICES ASSUME Len(calls[Main]) = 1, calls[Main][1].pc = "clear"
               PROVE  FALSE
    BY <1>2 DEF IInv, Contents
  <2> QED
    BY <1>0, LazyAssumption DEF IInv, Stacks, Depths
<1>12. Waiting'
  <2>1. \A n \in Depths(Main)' : calls'[Main][n].pc \in {"destroy", "clear"} =>
          n \in Depths(Main) /\ calls[Main][n].pc \in {"destroy", "clear"}
          /\ calls'[Main][n].inst = calls[Main][n].inst
    BY <1>17, LazyAssumption
  <2>2. /\ managers # <<>> => \A k \in 1 .. Len(Stack) : Ready(Stack[k])'
        /\ runs # <<>> => \A k \in 1 .. Len(Tasks) : Ready(Tasks[k])'
    BY <1>2, <1>3 DEF IInv, Waiting, Ready
  <2> QED
    BY <2>1, <2>2, <1>2, <1>3, WaitingKept DEF IInv
<1>13. \A i \in Instances : Registering(i) => Registering(i)'
  BY <1>9 DEF Registering
<1>19. \A i \in Instances : Working(i) => Working(i)'
  BY <1>9 DEF Working
<1>14. (Asserts => Cared)'
  BY <1>2, <1>3, <1>19, CaredKept DEF IInv
<1>15. Uses'
  <2>1. ASSUME managers # <<>>, runs = <<>>, NEW u \in Threads, NEW n \in Depths(u)'
        PROVE  Has(u, n)'
    <3>1. CASE n \in Depths(u) /\ calls'[u] = calls[u]
      <4>1. Has(u, n) /\ calls[u][n].inst \in Instances
        BY <3>1, <1>16, <2>1 DEF IInv, Uses
      <4> QED
        BY <3>1, <4>1, <1>2, HasKept
    <3>2. CASE calls'[u][n].pc = "load"
      BY <3>2 DEF Has
    <3> QED
      BY <3>1, <3>2, <1>17
  <2>2. managers # <<>> => Listed \in Seq(Instances)
    BY LibFacts DEF IInv, Phases
  <2> QED
    BY <2>1, <2>2, <1>2, <1>3, <1>13, UsesKept DEF IInv
<1> QED
  BY <1>6, <1>7, <1>8, <1>10, <1>11, <1>12, <1>14, <1>15, <1>18 DEF IInv

------------------------------------------------------------------------------
(* The life of the process. *)

\* When all threads are idle there are no frames.
LEMMA NoFrames ==
  ASSUME \A t \in Threads : calls[t] = <<>>
  PROVE  \A t \in Threads : Len(calls[t]) = 0 /\ \A n \in Depths(t) : FALSE
<1> SUFFICES ASSUME NEW t \in Threads
             PROVE  Len(calls[t]) = 0 /\ \A n \in Depths(t) : FALSE
  OBVIOUS
<1>1. Len(calls[t]) = 0
  BY EmptySeq
<1> QED
  BY <1>1 DEF Depths

LEMMA CreateManagerIInv ==
  ASSUME IInv, Lib!IInv', CreateManager
  PROVE  IInv'
<1>1. /\ managers = <<>> /\ runs = <<>> /\ runs' = <<>>
      /\ managers' # <<>> /\ Len(managers') = 1 /\ ~managers'[1].processing
      /\ Stack' = <<>> /\ Listed' = <<>>
  BY CreateFacts DEF CreateManager, IInv, Phases, Lib!IInv, Lib!Typed
<1>2. /\ \A t \in Threads : asked[t] = 0
      /\ instance' = instance /\ object' = object /\ calls' = calls /\ built' = built /\ asked' = asked
  BY DEF CreateManager
<1>3. /\ \A t \in Threads : calls[t] = <<>>
      /\ \A i \in Instances : instance[i] = "0" /\ object[i] = "none"
  BY <1>2 DEF IInv, Untouched
<1>4. \A t \in Threads : \A n \in Depths(t)' : FALSE
  BY <1>2, <1>3, NoFrames DEF Depths
<1>5. Len(Stack') = 0 /\ Len(Listed') = 0 /\ Len(runs') = 0
  BY <1>1, EmptySeq
<1>6. Typed'
  BY <1>2 DEF IInv, Typed
<1>7. Phases' /\ Untouched'
  BY <1>1, <1>2, <1>3, <1>5 DEF Phases, Untouched
<1>8. Stacks' /\ Buffers' /\ Alone'
  BY <1>4 DEF Stacks, Buffers, Alone
<1>9. Contents'
  BY <1>2, <1>3 DEF Contents
<1>10. Waiting'
  BY <1>1, <1>5 DEF Waiting
<1>11. (Asserts => Cared)'
  BY <1>2, <1>3 DEF Cared
<1>12. Uses'
  BY <1>1, <1>2, <1>3, <1>4, <1>5 DEF Uses
<1> QED
  BY <1>6, <1>7, <1>8, <1>9, <1>10, <1>11, <1>12 DEF IInv

\* main ends: everything that is registered becomes a task.
LEMMA ExitIInv ==
  ASSUME IInv, Lib!IInv', Exit
  PROVE  IInv'
<1>1. /\ instance' = instance /\ object' = object /\ calls' = calls /\ built' = built /\ asked' = asked
      /\ \A t \in Threads : calls[t] = <<>> /\ asked[t] = MaxCalls
      /\ managers # <<>> /\ AtExit!Process(TRUE)
  BY DEF Exit, Idle, AtExit!Process
<1>2. /\ Len(managers) = 1 /\ Len(history) = 1 /\ Stack \in Seq(Instances) /\ Listed \in Seq(Instances)
      /\ ~managers[1].processing => Stack = Listed
      /\ managers \in Seq(Lib!Managers) /\ runs \in Seq(Lib!Runs)
  BY <1>1, LibFacts DEF IInv, Phases
<1>3. /\ runs = <<>> /\ runs' # <<>> /\ Len(runs') = 1 /\ runs'[1].dtor
      /\ managers' # <<>> /\ Len(managers') = 1
      /\ Tasks' = Stack /\ Stack' = <<>> /\ Listed' = Listed
  BY <1>1, <1>2, ProcessFacts
<1>4. Stack = Listed
  BY <1>1, <1>2, <1>3 DEF IInv, Phases
<1>5. \A t \in Threads : (\A n \in Depths(t)' : FALSE) /\ (\A n \in Depths(t) : FALSE)
  BY <1>1, NoFrames DEF Depths
<1>6. Typed'
  BY <1>1 DEF IInv, Typed
<1>7. Phases' /\ Untouched'
  BY <1>1, <1>3 DEF IInv, Phases, Untouched
<1>8. Stacks' /\ Buffers' /\ Alone'
  BY <1>5 DEF Stacks, Buffers, Alone
<1>9. Contents'
  BY <1>1 DEF IInv, Contents
<1>10. Waiting'
  <2>1. Len(Stack') = 0 /\ Len(Listed) \in Nat
    BY <1>2, <1>3, EmptySeq, LenProperties
  <2>2. \A k, l \in 1 .. Len(Listed) : Listed[k] = Listed[l] => k = l
    BY <1>1 DEF IInv, Waiting
  <2>3. \A k \in 1 .. Len(Listed) : Ready(Listed[k])'
    BY <1>1, <1>3, <1>4 DEF IInv, Waiting, Ready
  <2>4. \A k \in 1 .. Len(Tasks') : Ready(Tasks[k])' /\ Tasks'[k] = Listed'[k]
    BY <2>3, <1>3, <1>4
  <2>5. Len(Tasks') <= Len(Listed')
    BY <2>1, <1>3, <1>4
  <2> QED
    BY <2>1, <2>2, <2>4, <2>5, <1>3, <1>5, LazyAssumption DEF Waiting
<1>11. (Asserts => Cared)'
  <2> SUFFICES ASSUME Cared, NEW i \in Instances \ Leaky, object[i] = "alive"
               PROVE  Enlisted(i)'
    BY <1>1 DEF IInv, Cared
  <2>1. ~Working(i)
    BY <1>5 DEF Working
  <2>2. \E k \in 1 .. Len(Stack) : Stack[k] = i
    BY <2>1, <1>3 DEF Cared, Enlisted
  <2> QED
    BY <2>2, <1>3 DEF Enlisted
<1>12. Uses'
  <2> SUFFICES ASSUME NEW k \in 1 .. Len(Listed), NEW i \in CtorUses[Listed[k]] \ Leaky
               PROVE  Registered(i)
    BY <1>3 DEF Uses, Registered
  <2>1. Listed[k] \in Instances
    BY <1>2, ElementOfSeq
  <2>2. i \in Instances
    BY <2>1, LazyAssumption
  <2>3. instance[i] = "Created"
    BY <1>1, <1>3 DEF IInv, Uses
  <2>4. ~Registering(i)
    BY <1>5 DEF Registering
  <2> QED
    BY <2>2, <2>3, <2>4, <1>1, <1>3 DEF IInv, Uses
<1> QED
  BY <1>6, <1>7, <1>8, <1>9, <1>10, <1>11, <1>12 DEF IInv

\* The run of the manager is over, and with it the manager.
LEMMA ExitDoneIInv ==
  ASSUME IInv, Lib!IInv', ExitDone
  PROVE  IInv'
<1>1. /\ instance' = instance /\ object' = object /\ calls' = calls /\ built' = built /\ asked' = asked
      /\ calls[Main] = <<>> /\ runs # <<>> /\ AtExit!Finish
  BY DEF ExitDone, Idle, AtExit!Finish
<1>2. /\ Len(managers) = 1 /\ Len(history) = 1 /\ Len(runs) = 1 /\ runs[1].dtor
      /\ managers \in Seq(Lib!Managers) /\ runs \in Seq(Lib!Runs)
      /\ \A t \in Threads : calls[t] = <<>>
  BY <1>1, LibFacts DEF IInv, Phases
<1>3. /\ managers' = <<>> /\ runs' = <<>>
      /\ Tasks = <<>> /\ (Asserts => Stack = <<>>)
  BY <1>1, <1>2, FinishFacts
<1>5. \A t \in Threads : (\A n \in Depths(t)' : FALSE) /\ (\A n \in Depths(t) : FALSE)
  BY <1>1, <1>2, NoFrames DEF Depths
<1>6. Typed'
  BY <1>1 DEF IInv, Typed
<1>7. Phases' /\ Untouched'
  <2>1. Len(managers') = 0 /\ Len(runs') = 0
    BY <1>3, EmptySeq
  <2> QED
    BY <2>1, <1>1, <1>2, <1>3 DEF IInv, Phases, Untouched
<1>8. Stacks' /\ Buffers' /\ Alone'
  BY <1>5 DEF Stacks, Buffers, Alone
<1>9. Contents'
  BY <1>1 DEF IInv, Contents
<1>10. Waiting' /\ Uses'
  BY <1>3 DEF Waiting, Uses
<1>11. (Asserts => Cared)'
  <2> SUFFICES ASSUME Asserts, Cared, NEW i \in Instances \ Leaky, object[i] = "alive"
               PROVE  FALSE
    BY <1>1 DEF IInv, Cared
  <2>1. ~Working(i)
    BY <1>5 DEF Working
  <2>2. Len(Stack) = 0 /\ Len(Tasks) = 0
    BY <1>3, EmptySeq
  <2>3. ~Enlisted(i)
    BY <2>2 DEF Enlisted
  <2> QED
    BY <2>1, <2>3 DEF Cared
<1> QED
  BY <1>6, <1>7, <1>8, <1>9, <1>10, <1>11 DEF IInv

\* The next task is destroyed.
LEMMA OnExitIInv ==
  ASSUME IInv, Lib!IInv', NEW c \in Instances, OnExit(c)
  PROVE  IInv'
<1> DEFINE f == [inst |-> c, pc |-> "destroy", todo |-> DtorUses[c]]
           T == Len(Tasks)
<1>1. /\ instance' = instance /\ object' = object /\ built' = built /\ asked' = asked
      /\ calls[Main] = <<>> /\ runs # <<>> /\ AtExit!RunTask(c)
      /\ calls' = [calls EXCEPT ![Main] = <<f>>] /\ calls \in [Threads -> Seq(Frames)]
  BY DEF OnExit, Idle, AtExit!RunTask, IInv, Typed
<1>2. /\ managers # <<>> /\ Len(managers) = 1 /\ Len(history) = 1 /\ Len(runs) = 1 /\ runs[1].dtor
      /\ managers \in Seq(Lib!Managers) /\ runs \in Seq(Lib!Runs) /\ history \in Seq(Lib!Histories)
      /\ Tasks \in Seq(Instances) /\ Listed \in Seq(Instances)
      /\ \A t \in Threads : calls[t] = <<>>
  BY <1>1, LibFacts DEF IInv, Phases
<1>3. /\ managers' = managers /\ Stack' = Stack /\ Listed' = Listed
      /\ runs' # <<>> /\ Len(runs') = 1 /\ runs'[1].dtor = runs[1].dtor
      /\ T \in Nat /\ T # 0 /\ c = Tasks[T] /\ Len(Tasks') = T - 1
      /\ \A k \in 1 .. T - 1 : Tasks'[k] = Tasks[k]
  BY <1>1, <1>2, RunTaskFacts
<1>4. f \in Frames /\ f.pc = "destroy" /\ f.inst = c /\ Main \in Threads
  BY LazyAssumption DEF Frames, PCs
<1> HIDE DEF f, T
<1>5. /\ calls' \in [Threads -> Seq(Frames)]
      /\ \A u \in Threads \ {Main} : calls'[u] = <<>>
      /\ Len(calls'[Main]) = 1 /\ calls'[Main][1] = f
  BY <1>1, <1>2, <1>4
<1>16. ASSUME NEW u \in Threads, NEW n \in Depths(u)'
       PROVE  u = Main /\ n = 1 /\ n = Len(calls'[u]) /\ calls'[u][n] = f
  <2>1. Len(<<>>) = 0
    BY EmptySeq
  <2>2. CASE u # Main
    <3>1. Len(calls'[u]) = 0
      BY <2>1, <2>2, <1>5
    <3> QED
      BY <3>1 DEF Depths
  <2>3. CASE u = Main
    <3>1. n \in 1 .. 1
      BY <2>3, <1>5 DEF Depths
    <3>2. n = 1
      BY <3>1
    <3> QED
      BY <2>3, <3>2, <1>5
  <2> QED
    BY <2>2, <2>3
<1>17. \A t \in Threads : \A n \in Depths(t) : FALSE
  BY <1>2, NoFrames
<1>18. /\ T <= Len(Listed) /\ Ready(c) /\ c = Listed[T] /\ Len(Listed) \in Nat
       /\ \A k \in 1 .. T : Ready(Tasks[k]) /\ Tasks[k] = Listed[k]
  <2>1. /\ Len(Tasks) <= Len(Listed)
        /\ \A k \in 1 .. Len(Tasks) : Ready(Tasks[k]) /\ Tasks[k] = Listed[k]
    BY <1>1 DEF IInv, Waiting
  <2>2. T \in 1 .. T
    BY <1>3
  <2>3. Len(Listed) \in Nat
    BY <1>2, LenProperties
  <2> QED
    BY <2>1, <2>2, <2>3, <1>3 DEF T
<1>6. Typed'
  BY <1>1, <1>5 DEF IInv, Typed
<1>7. Phases'
  BY <1>1, <1>2, <1>3, <1>5 DEF IInv, Phases
<1>8. Stacks'
  <2> SUFFICES ASSUME NEW u \in Threads, NEW n \in Depths(u)'
               PROVE  ~(n < Len(calls'[u])) /\ u = Main /\ n = 1
    BY <1>3 DEF Stacks
  <2> QED
    BY <1>5, <1>16
<1>9. Buffers'
  <2> SUFFICES ASSUME NEW u \in Threads, NEW n \in Depths(u)'
               PROVE  Knows(calls[u][n])'
    BY DEF Buffers
  <2>1. calls'[u][n].pc = "destroy" /\ calls'[u][n].inst = c
    BY <1>4, <1>16
  <2> QED
    BY <2>1, <1>1, <1>18 DEF Knows, Ready
<1>10. Alone'
  BY <1>16 DEF Alone
<1>11. Contents'
  <2>1. Len(calls[Main]) = 0
    BY <1>1, EmptySeq
  <2> QED
    BY <2>1, <1>1 DEF IInv, Contents
<1>12. Waiting'
  <2>1. \A k \in 1 .. Len(Stack) : Ready(Stack[k])'
    BY <1>1, <1>2, <1>3 DEF IInv, Waiting, Ready
  <2>2. \A k, l \in 1 .. Len(Listed) : Listed[k] = Listed[l] => k = l
    BY <1>2 DEF IInv, Waiting
  <2>3. Len(Tasks') <= Len(Listed') /\ Len(Tasks') < Len(Listed') /\ Len(Tasks') + 1 = T
    BY <1>3, <1>18
  <2>4. \A k \in 1 .. Len(Tasks') : Ready(Tasks[k])' /\ Tasks'[k] = Listed'[k]
    <3> SUFFICES ASSUME NEW k \in 1 .. Len(Tasks')
                 PROVE  Ready(Tasks[k])' /\ Tasks'[k] = Listed'[k]
      OBVIOUS
    <3>1. k \in 1 .. T - 1 /\ k \in 1 .. T
      BY <1>3
    <3>2. Ready(Tasks[k]) /\ Tasks[k] = Listed[k] /\ Tasks'[k] = Tasks[k]
      BY <3>1, <1>3, <1>18
    <3> QED
      BY <3>2, <1>1, <1>3 DEF Ready
  <2>5. \A n \in Depths(Main)' : calls'[Main][n].inst = Listed'[Len(Tasks') + 1]
    BY <2>3, <1>3, <1>4, <1>16, <1>18
  <2> QED
    BY <2>1, <2>2, <2>3, <2>4, <2>5, <1>3 DEF Waiting
<1>13. (Asserts => Cared)'
  <2> SUFFICES ASSUME Cared, NEW i \in Instances \ Leaky, object[i] = "alive"
               PROVE  Working(i)' \/ Enlisted(i)'
    BY <1>1 DEF IInv, Cared
  <2>1. ~Working(i)
    BY <1>17 DEF Working
  <2>2. CASE \E k \in 1 .. Len(Stack) : Stack[k] = i
    BY <2>2, <1>2, <1>3 DEF Enlisted
  <2>3. ASSUME NEW k \in 1 .. T, Tasks[k] = i
        PROVE  Working(i)' \/ Enlisted(i)'
    <3>1. CASE k = T
      <4>1. 1 \in Depths(Main)' /\ calls'[Main][1].inst = i /\ calls'[Main][1].pc = "destroy"
        BY <2>3, <3>1, <1>3, <1>4, <1>5 DEF Depths
      <4> QED
        BY <4>1, <1>4 DEF Working
    <3>2. CASE k # T
      <4>1. k \in 1 .. T - 1
        BY <3>2, <1>3
      <4> QED
        BY <4>1, <2>3, <1>3 DEF Enlisted
    <3> QED
      BY <3>1, <3>2
  <2> QED
    BY <2>1, <2>2, <2>3 DEF Cared, Enlisted, T
<1>14. Uses'
  BY <1>1, <1>3 DEF IInv, Uses, Registered
<1>15. Untouched'
  <2>1. c \in Instances /\ instance[c] # "0"
    BY <1>18 DEF Ready
  <2> QED
    BY <2>1, <1>1 DEF IInv, Untouched
<1> QED
  BY <1>6, <1>7, <1>8, <1>9, <1>10, <1>11, <1>12, <1>13, <1>14, <1>15 DEF IInv

\* The finished instance is registered for destruction.
LEMMA RegisterIInv ==
  ASSUME IInv, Lib!IInv', NEW t \in Threads, RegisterAtExit(t),
         AtExit!Register(Call(t).inst), Goto(t, "get")
  PROVE  IInv'
<1> DEFINE L == Len(calls[t])
           j == Call(t).inst
           S == Len(Stack)
           N == Len(Listed)
<1>0. ~Idle(t) /\ Call(t).pc = "register"
  BY DEF RegisterAtExit, At
<1>2. /\ instance' = instance /\ object' = object /\ built' = built /\ asked' = asked
      /\ AtExit!Register(j)
  BY DEF RegisterAtExit
<1>5. j \in Instances /\ Knows(Call(t))
  BY <1>0, TopFacts DEF IInv, Buffers
<1>1. /\ L \in Nat /\ L # 0
      /\ calls' \in [Threads -> Seq(Frames)]
      /\ \A u \in Threads \ {t} : calls'[u] = calls[u]
      /\ \A u \in Threads : Depths(u)' = Depths(u) /\ Len(calls'[u]) = Len(calls[u])
      /\ \A u \in Threads : \A n \in Depths(u) : u # t \/ n # L => calls'[u][n] = calls[u][n]
      /\ calls'[t][L].inst = j /\ calls'[t][L].pc = "get" /\ calls'[t][L].todo = Call(t).todo
      /\ calls[t][L] = Call(t) /\ L \in Depths(t)
  <2>1. Moved(t, "get", Call(t).todo)
    BY <1>0, GotoFacts DEF IInv, PCs
  <2> QED
    BY <2>1, <1>0, MovedFrames DEF IInv
<1>16. \A u \in Threads : \A n \in Depths(u) : calls[u][n].inst \in Instances
  BY FramesTyped DEF IInv
<1>9. \A u \in Threads : \A n \in Depths(u) : calls'[u][n].inst = calls[u][n].inst
  BY <1>1 DEF j
<1>17. managers # <<>> /\ (runs # <<>> => t = Main /\ \A u \in Threads \ {Main} : calls[u] = <<>>)
  BY <1>0, Active
<1>18. /\ Len(managers) = 1 /\ Len(history) = 1
       /\ managers \in Seq(Lib!Managers) /\ history \in Seq(Lib!Histories)
       /\ Stack \in Seq(Instances) /\ Listed \in Seq(Instances)
       /\ runs # <<>> => managers[1].processing
  BY <1>17, LibFacts DEF IInv, Phases
<1> HIDE DEF L, j
<1>3. /\ runs' = runs /\ managers' # <<>> /\ Len(managers') = 1
      /\ managers'[1].processing = managers[1].processing
      /\ Len(Stack') = S + 1 /\ Stack'[S + 1] = j
      /\ \A k \in 1 .. S : Stack'[k] = Stack[k]
      /\ managers[1].processing => Listed' = Listed
      /\ ~managers[1].processing =>
           /\ Len(Listed') = N + 1 /\ Listed'[N + 1] = j
           /\ \A k \in 1 .. N : Listed'[k] = Listed[k] /\ Listed[k] # j
  BY <1>2, <1>5, <1>18, RegisterFacts
<1>19. Tasks' = Tasks /\ S \in Nat /\ N \in Nat
  BY <1>3, <1>18, LenProperties DEF Tasks
<1> HIDE DEF S, N
<1>4. instance[j] = "Created" /\ object[j] = "alive"
  BY <1>0, <1>5 DEF Knows, j
<1>6. Typed'
  BY <1>1, <1>2 DEF IInv, Typed
<1>7. Stacks'
  BY <1>0, <1>1, <1>3, StacksKept DEF IInv, L
<1>8. Phases' /\ Untouched'
  <2>3. Phases
    BY DEF IInv
  <2>4. runs # <<>> => \A u \in Threads \ {Main} : calls'[u] = <<>>
    BY <1>1, <1>17
  <2>5. /\ runs # <<>> => runs[1].dtor /\ \A u \in Threads : asked[u] = MaxCalls
        /\ (managers # <<>> /\ runs = <<>>) => ~managers[1].processing
        /\ Len(runs) <= 1
    BY <2>3 DEF Phases
  <2>6. Len(managers') <= 1 /\ Len(runs') <= 1
    BY <2>5, <1>3
  <2>1. Phases'
    BY <2>4, <2>5, <2>6, <1>2, <1>3, <1>17 DEF Phases
  <2>2. Untouched'
    BY <1>0, <1>2 DEF IInv, Untouched, Idle
  <2> QED
    BY <2>1, <2>2
<1>10. Buffers'
  <2> SUFFICES ASSUME NEW u \in Threads, NEW n \in Depths(u)
               PROVE  Knows(calls[u][n])'
    BY <1>1 DEF Buffers
  <2>1. CASE u # t \/ n # L
    <3>1. Knows(calls[u][n]) /\ calls'[u][n] = calls[u][n]
      BY <2>1, <1>1 DEF IInv, Buffers
    <3> QED
      BY <3>1, <1>2, KnowsKept
  <2>2. CASE u = t /\ n = L
    BY <2>2, <1>1, <1>2, <1>4 DEF Knows
  <2> QED
    BY <2>1, <2>2
<1>11. Alone'
  <2>1. \A u \in Threads : \A n \in Depths(u)' : Builds(calls[u][n])' =>
          n \in Depths(u) /\ Builds(calls[u][n]) /\ calls'[u][n].inst = calls[u][n].inst
    BY <1>0, <1>1, <1>9 DEF Builds
  <2> QED
    BY <2>1, AloneKept DEF IInv
<1>12. Contents'
  <2>1. \A i \in Instances : instance[i] = "Created" => object[i] = "alive"
    BY <1>0, NobodyClears
  <2> QED
    BY <2>1, <1>2 DEF IInv, Contents
<1>13. Waiting'
  <2>1. ASSUME NEW k \in 1 .. Len(Stack')
        PROVE  Ready(Stack[k])'
    <3>1. CASE k \in 1 .. S
      <4>1. Ready(Stack[k]) /\ Stack'[k] = Stack[k]
        BY <3>1, <1>3, <1>17 DEF IInv, Waiting, S
      <4> QED
        BY <4>1, <1>2 DEF Ready
    <3>2. CASE k = S + 1
      BY <3>2, <1>2, <1>3, <1>4 DEF Ready
    <3> QED
      BY <3>1, <3>2, <2>1, <1>3, <1>19
  <2>2. \A k, l \in 1 .. Len(Listed') : Listed'[k] = Listed'[l] => k = l
    <3>1. \A k, l \in 1 .. N : Listed[k] = Listed[l] => k = l
      BY <1>17 DEF IInv, Waiting, N
    <3>2. CASE managers[1].processing
      BY <3>1, <3>2, <1>3 DEF N
    <3>3. CASE ~managers[1].processing
      <4> SUFFICES ASSUME NEW k \in 1 .. N + 1, NEW l \in 1 .. N + 1, Listed'[k] = Listed'[l]
                   PROVE  k = l
        BY <3>3, <1>3
      <4>1. (k \in 1 .. N \/ k = N + 1) /\ (l \in 1 .. N \/ l = N + 1)
        BY <1>19
      <4> QED
        BY <4>1, <3>1, <3>3, <1>3
    <3> QED
      BY <3>2, <3>3
  <2>3. ASSUME runs # <<>>
        PROVE  /\ Listed' = Listed
               /\ Len(Tasks) <= Len(Listed)
               /\ \A k \in 1 .. Len(Tasks) : Ready(Tasks[k])' /\ Tasks[k] = Listed[k]
    <3>1. Listed' = Listed
      BY <2>3, <1>3, <1>18
    <3>2. \A i : Ready(i) => Ready(i)'
      BY <1>2 DEF Ready
    <3> QED
      BY <3>1, <3>2, <2>3, <1>19 DEF IInv, Waiting, Ready
  <2>4. ASSUME runs # <<>>, NEW n \in Depths(Main)', calls'[Main][n].pc \in {"destroy", "clear"}
        PROVE  Len(Tasks) < Len(Listed) /\ calls'[Main][n].inst = Listed[Len(Tasks) + 1]
    <3>1. n \in Depths(Main) /\ calls'[Main][n] = calls[Main][n]
      BY <2>4, <1>1, LazyAssumption
    <3> QED
      BY <3>1, <2>4 DEF IInv, Waiting
  <2> QED
    BY <2>1, <2>2, <2>3, <2>4, <1>3, <1>19 DEF Waiting
<1>14. (Asserts => Cared)'
  <2> SUFFICES ASSUME Cared, NEW i \in Instances \ Leaky, object[i] = "alive"
               PROVE  Working(i)' \/ Enlisted(i)'
    BY <1>2 DEF IInv, Cared
  <2>1. CASE i = j
    <3>1. S + 1 \in 1 .. Len(Stack') /\ Stack'[S + 1] = i
      BY <2>1, <1>3, <1>19
    <3> QED
      BY <3>1, <1>3 DEF Enlisted
  <2>2. CASE i # j
    <3>1. Working(i) => Working(i)'
      BY <2>2, <1>1 DEF Working, j
    <3>2. Enlisted(i) => Enlisted(i)'
      <4>1. 1 .. S \subseteq 1 .. Len(Stack')
        BY <1>3, <1>19
      <4> QED
        BY <4>1, <1>3, <1>19 DEF Enlisted, S
    <3> QED
      BY <3>1, <3>2 DEF Cared
  <2> QED
    BY <2>1, <2>2
<1>15. Uses'
  <2>1. ASSUME runs = <<>>
        PROVE  /\ \A i \in Instances \ Leaky : instance'[i] = "Created" => Registered(i)' \/ Registering(i)'
               /\ \A u \in Threads : \A n \in Depths(u)' : Has(u, n)'
               /\ \A k \in 1 .. Len(Listed') : \A i \in CtorUses[Listed'[k]] : instance'[i] = "Created"
    <3>1. ~managers[1].processing
      BY <2>1, <1>17 DEF IInv, Phases
    <3>2. /\ Len(Listed') = N + 1 /\ Listed'[N + 1] = j
          /\ \A k \in 1 .. N : Listed'[k] = Listed[k]
      BY <3>1, <1>3
    <3>3. ASSUME NEW i \in Instances \ Leaky, instance'[i] = "Created"
          PROVE  Registered(i)' \/ Registering(i)'
      <4>1. CASE i = j
        <5>1. N + 1 \in 1 .. Len(Listed') /\ Listed'[N + 1] = i
          BY <4>1, <3>2, <1>19
        <5> QED
          BY <5>1 DEF Registered
      <4>2. CASE i # j
        <5>1. Registering(i) => Registering(i)'
          BY <4>2, <1>1 DEF Registering, j
        <5>2. Registered(i) => Registered(i)'
          <6>1. 1 .. N \subseteq 1 .. Len(Listed')
            BY <3>2, <1>19
          <6> QED
            BY <6>1, <3>2 DEF Registered, N
        <5>3. Registered(i) \/ Registering(i)
          BY <3>3, <2>1, <1>2, <1>17 DEF IInv, Uses
        <5> QED
          BY <5>1, <5>2, <5>3
      <4> QED
        BY <4>1, <4>2
    <3>4. ASSUME NEW u \in Threads, NEW n \in Depths(u)
          PROVE  Has(u, n)'
      <4>1. CASE u = t /\ n = L
        BY <4>1, <1>1 DEF Has
      <4>2. CASE u # t \/ n # L
        <5>1. calls'[u][n] = calls[u][n] /\ Has(u, n)
          BY <4>2, <1>1, <1>17, <2>1 DEF IInv, Uses
        <5>2. n < Len(calls[u]) => n + 1 \in Depths(u)
          BY <1>6, <2>1 DEF Depths
        <5> QED
          BY <5>1, <5>2, <1>1, <1>2, <1>9, <1>16, HasKept
      <4> QED
        BY <4>1, <4>2
    <3>5. ASSUME NEW k \in 1 .. Len(Listed'), NEW i \in CtorUses[Listed'[k]]
          PROVE  instance'[i] = "Created"
      <4>1. CASE k \in 1 .. N
        <5>1. i \in CtorUses[Listed[k]]
          BY <4>1, <3>2, <3>5
        <5>2. instance[i] = "Created"
          BY <4>1, <5>1, <2>1, <1>17 DEF IInv, Uses, N
        <5> QED
          BY <5>2, <1>2
      <4>2. CASE k = N + 1
        <5>1. i \in CtorUses[calls[t][L].inst] /\ calls[t][L].pc = "register"
          BY <4>2, <3>2, <3>5, <1>0, <1>1 DEF j
        <5>2. Has(t, L)
          BY <2>1, <1>1, <1>17 DEF IInv, Uses
        <5> QED
          BY <5>1, <5>2, <1>2 DEF Has
      <4> QED
        BY <4>1, <4>2, <3>2, <3>5, <1>19
    <3> QED
      BY <3>3, <3>4, <3>5, <1>1
  <2>2. ASSUME runs # <<>>
        PROVE  \A k \in 1 .. Len(Listed') : \A i \in CtorUses[Listed'[k]] \ Leaky : Registered(i)'
    <3>1. Listed' = Listed
      BY <2>2, <1>3, <1>18
    <3> QED
      BY <3>1, <2>2 DEF IInv, Uses, Registered
  <2> QED
    BY <2>1, <2>2, <1>3 DEF Uses
<1> QED
  BY <1>6, <1>7, <1>8, <1>10, <1>11, <1>12, <1>13, <1>14, <1>15 DEF IInv

\* The invariant does not see panicked.
LEMMA SameIInv ==
  ASSUME IInv, Lib!IInv',
         instance' = instance, object' = object, calls' = calls, built' = built, asked' = asked,
         managers' = managers, runs' = runs, history' = history
  PROVE  IInv'
<1>2. Stack' = Stack /\ Listed' = Listed /\ Tasks' = Tasks /\ \A u \in Threads : Depths(u)' = Depths(u)
  BY DEF Stack, Listed, Tasks, Depths
<1>3. Typed' /\ Phases' /\ Stacks'
  BY <1>2 DEF IInv, Typed, Phases, Stacks
<1>4. Buffers' /\ Alone'
  BY <1>2 DEF IInv, Buffers, Knows, Alone, Builds
<1>5. Contents' /\ Untouched'
  BY <1>2 DEF IInv, Contents, Untouched
<1>6. Waiting'
  <2>1. /\ managers # <<>> => \A k \in 1 .. Len(Stack) : Ready(Stack[k])'
        /\ runs # <<>> => \A k \in 1 .. Len(Tasks) : Ready(Tasks[k])'
    BY <1>2 DEF IInv, Waiting, Ready
  <2>2. Depths(Main)' = Depths(Main)
    BY <1>2, LazyAssumption
  <2> QED
    BY <2>1, <2>2, <1>2, WaitingKept DEF IInv
<1>8. (Asserts => Cared)'
  <2>1. \A i \in Instances : Working(i) => Working(i)'
    BY <1>2 DEF Working
  <2> QED
    BY <2>1, <1>2, CaredKept DEF IInv
<1>7. Uses'
  BY <1>2 DEF IInv, Uses, Has, Got, Registered, Registering
<1> QED
  BY <1>3, <1>4, <1>5, <1>6, <1>7, <1>8 DEF IInv

\* The ASSERT of registerCallback fails, and nothing else happens any more.
LEMMA FailsIInv ==
  ASSUME IInv, Lib!IInv', NEW t \in Threads, RegisterAtExit(t), UNCHANGED calls,
         AtExit!RegisterFails(Call(t).inst)
  PROVE  IInv'
  BY SameIInv DEF RegisterAtExit, AtExit!RegisterFails

LEMMA StutterIInv == IInv /\ UNCHANGED vars => IInv'
<1> SUFFICES ASSUME IInv, UNCHANGED vars
             PROVE  IInv'
  OBVIOUS
<1>1. Lib!IInv'
  BY DEF vars, IInv, Lib!IInv, Lib!Typed, Lib!EachManager, Lib!NobodyWaits, Lib!Outermost, Lib!Nested
<1> QED
  BY <1>1, SameIInv DEF vars

------------------------------------------------------------------------------
(* The theorems. *)

LEMMA InitIInv == Init => IInv
<1> SUFFICES ASSUME Init
             PROVE  IInv
  OBVIOUS
<1>1. /\ \A i \in Instances : instance[i] = "0" /\ object[i] = "none"
      /\ managers = <<>> /\ runs = <<>> /\ \A t \in Threads : calls[t] = <<>>
  BY DEF Init, AtExit!Init
<1>2. Typed
  BY LazyAssumption, EmptySeq DEF Init, Typed
<1>3. Lib!IInv
  <2>1. Lib!Init
    BY DEF Init, AtExit!Init, Lib!Init
  <2> QED
    BY <2>1, LibConstants, Lib!InitIInv
<1>4. \A t \in Threads : \A n \in Depths(t) : FALSE
  BY <1>1, NoFrames
<1>5. Len(managers) = 0 /\ Len(runs) = 0
  BY <1>1, EmptySeq
<1>6. Phases /\ Untouched /\ Contents
  BY <1>1, <1>5 DEF Phases, Untouched, Contents
<1>7. Stacks /\ Buffers /\ Alone
  BY <1>4 DEF Stacks, Buffers, Alone
<1>8. Waiting /\ (Asserts => Cared) /\ Uses
  BY <1>1 DEF Waiting, Cared, Uses
<1> QED
  BY <1>2, <1>3, <1>6, <1>7, <1>8 DEF IInv

LEMMA StepIInv == IInv /\ [Next]_vars => IInv'
<1> SUFFICES ASSUME IInv, [Next]_vars
             PROVE  IInv'
  OBVIOUS
<1>1. CASE UNCHANGED vars
  BY <1>1, StutterIInv
<1>2. CASE Next
  <2>1. Lib!IInv'
    BY <1>2, LibStep DEF IInv
  <2>2. CASE CreateManager \/ Exit \/ ExitDone
    BY <2>1, <2>2, CreateManagerIInv, ExitIInv, ExitDoneIInv
  <2>3. ASSUME NEW i \in Instances, OnExit(i)
        PROVE  IInv'
    BY <2>1, <2>3, OnExitIInv
  <2>4. ASSUME NEW t \in Threads, NEW i \in Instances, Ask(t, i) \/ Use(t, i)
        PROVE  IInv'
    BY <2>1, <2>4, AskIInv, UseIInv
  <2>5. ASSUME NEW t \in Threads, NeedsLazyInstance(t)
        PROVE  IInv'
    BY <2>1, <2>5, WaitsIInv, NeedsIInv
  <2>6. ASSUME NEW t \in Threads, RegisterAtExit(t)
        PROVE  IInv'
    <3>1. \/ AtExit!Register(Call(t).inst) /\ Goto(t, "get")
          \/ AtExit!RegisterFails(Call(t).inst) /\ UNCHANGED calls
      BY <2>6 DEF RegisterAtExit
    <3> QED
      BY <3>1, <2>1, <2>6, RegisterIInv, FailsIInv
  <2>7. ASSUME NEW t \in Threads, Load(t) \/ Spin(t) \/ Construct(t) \/ Throw(t)
        PROVE  IInv'
    BY <2>1, <2>7, LoadIInv, SpinIInv, ConstructIInv, ThrowIInv
  <2>8. ASSUME NEW t \in Threads, Publish(t) \/ GetInstance(t) \/ Delete(t) \/ Clear(t)
        PROVE  IInv'
    BY <2>1, <2>8, PublishIInv, GetInstanceIInv, DeleteIInv, ClearIInv
  <2> QED
    BY <1>2, <2>2, <2>3, <2>4, <2>5, <2>6, <2>7, <2>8 DEF Next, Step
<1> QED
  BY <1>1, <1>2

LEMMA Invariance == Spec => []IInv
  BY InitIInv, StepIInv, PTL DEF Spec


\* A stack of calls is no deeper than there are instances: those below the top
\* construct or destroy instances that differ.
LEMMA StacksAreShallow ==
  ASSUME IInv, NEW t \in Threads
  PROVE  Len(calls[t]) <= Cardinality(Instances) + 1
<1> DEFINE L == Len(calls[t])
           C == Cardinality(Instances)
           below == 1 .. L - 1
           f == [n \in below |-> calls[t][n].inst]
<1>1. L \in Nat
  BY LenProperties DEF IInv, Typed
<1>2. C \in Nat /\ IsFiniteSet(Instances)
  BY LazyAssumption, FS_CardinalityType
<1>3. \A n \in below : n \in Depths(t) /\ n < L
  BY <1>1 DEF Depths
<1>4. \A n \in below : calls[t][n].inst \in Instances /\ calls[t][n].pc \in {"construct", "destroy"}
  BY <1>3, FramesTyped DEF IInv, Stacks
<1>5. ASSUME NEW n \in below, NEW m \in below, calls[t][n].inst = calls[t][m].inst
      PROVE  n = m
  <2>1. Knows(calls[t][n]) /\ Knows(calls[t][m]) /\ n \in Depths(t) /\ m \in Depths(t)
    BY <1>3 DEF IInv, Buffers
  <2>2. CASE calls[t][n].pc = "construct" /\ calls[t][m].pc = "construct"
    BY <2>1, <2>2, <1>5 DEF IInv, Alone, Builds
  <2>3. CASE calls[t][n].pc = "destroy" /\ calls[t][m].pc = "destroy"
    BY <2>1, <2>3 DEF IInv, Stacks
  <2>4. CASE calls[t][n].pc # calls[t][m].pc
    BY <2>1, <2>4, <1>4, <1>5 DEF Knows
  <2> QED
    BY <2>2, <2>3, <2>4, <1>4
<1>6. f \in Injection(below, Instances)
  <2>1. f \in [below -> Instances]
    BY <1>4
  <2>2. \A n, m \in below : f[n] = f[m] => n = m
    BY <1>5
  <2> QED
    BY <2>1, <2>2 DEF Injection, IsInjective
<1> HIDE DEF f
<1>7. Cardinality(below) <= C
  BY <1>2, <1>6, FS_Injection
<1>8. Cardinality(below) = IF 1 > L - 1 THEN 0 ELSE L - 1 - 1 + 1
  <2>1. 1 \in Int /\ L - 1 \in Int
    BY <1>1
  <2> QED
    BY <2>1, FS_Interval
<1> HIDE DEF L, C, below
<1>9. L <= C + 1
  BY <1>1, <1>2, <1>7, <1>8
<1> QED
  BY <1>9 DEF L, C

LEMMA IInvTypeOK == IInv => TypeOK
<1> SUFFICES ASSUME IInv
             PROVE  TypeOK
  OBVIOUS
<1>1. AtExit!TypeOK
  BY DEF IInv, Lib!IInv, Lib!Typed, AtExit!TypeOK, AtExit!Depth, Lib!Managers, Lib!Runs, Lib!Histories
<1>2. ASSUME NEW t \in Threads, NEW n \in DOMAIN calls[t]
      PROVE  calls[t][n] \in [inst : Instances, todo : SUBSET Instances,
                              pc : {"load", "cas", "spin", "construct", "publish",
                                    "register", "get", "destroy", "clear"}]
  <2>1. DOMAIN calls[t] = Depths(t)
    BY LenProperties DEF IInv, Typed, Depths
  <2>2. calls[t][n] \in Frames
    BY <2>1, FramesTyped DEF IInv
  <2> QED
    BY <2>2 DEF Frames, PCs
<1>3. \A t \in Threads : Len(calls[t]) <= Cardinality(Instances) + 1
  BY StacksAreShallow
<1> QED
  BY <1>1, <1>2, <1>3 DEF TypeOK, IInv, Typed

LEMMA IInvOneConstructor == IInv => OneConstructor
<1> SUFFICES ASSUME IInv
             PROVE  OneConstructor
  OBVIOUS
<1>1. \A t \in Threads : DOMAIN calls[t] = Depths(t)
  BY LenProperties DEF IInv, Typed, Depths
<1>2. ASSUME NEW i \in Instances, NEW t \in Threads, NEW u \in Threads,
             Doing(t, i, {"construct", "publish"}), Doing(u, i, {"construct", "publish"})
      PROVE  t = u
  <2>1. PICK n \in Depths(t) : calls[t][n].inst = i /\ calls[t][n].pc \in {"construct", "publish"}
    BY <1>1, <1>2 DEF Doing
  <2>2. PICK m \in Depths(u) : calls[u][m].inst = i /\ calls[u][m].pc \in {"construct", "publish"}
    BY <1>1, <1>2 DEF Doing
  <2> QED
    BY <2>1, <2>2 DEF IInv, Alone, Builds
<1>3. ASSUME NEW i \in Instances, NEW t \in Threads, Doing(t, i, {"construct"})
      PROVE  object[i] # "alive"
  <2>1. PICK n \in Depths(t) : calls[t][n].inst = i /\ calls[t][n].pc = "construct"
    BY <1>1, <1>3 DEF Doing
  <2> QED
    BY <2>1 DEF IInv, Buffers, Knows
<1> QED
  BY <1>2, <1>3, IInvTypeOK DEF OneConstructor

\* However many threads race for an instance, and whatever constructors and
\* destructors ask for, one constructs it, and Pointer() returns it when it is
\* complete and before it is destroyed (LazyInstance::Pointer).
THEOREM PointersAreAlive == Spec => []ReturnsAlive
<1>1. IInv => ReturnsAlive
  <2> SUFFICES ASSUME IInv, NEW t \in Threads, At(t, "get")
               PROVE  instance[Call(t).inst] = "Created" /\ object[Call(t).inst] = "alive"
    BY IInvOneConstructor DEF ReturnsAlive
  <2>1. Knows(Call(t)) /\ Call(t).pc = "get"
    BY TopFacts DEF At, IInv, Buffers
  <2> QED
    BY <2>1 DEF Knows
<1> QED
  BY <1>1, Invariance, PTL

\* In a debug build nothing but the leaky instances survives the manager
\* (OnExit, registerCallback and its ASSERT).
THEOREM NothingSurvives ==
  ASSUME Asserts
  PROVE  Spec => []AllDestroyed
<1>1. IInv => AllDestroyed
  <2> SUFFICES ASSUME IInv, managers = <<>>, NEW i \in Instances \ Leaky, object[i] = "alive"
               PROVE  FALSE
    BY DEF AllDestroyed
  <2>1. (\A t \in Threads : calls[t] = <<>>) /\ runs = <<>>
    BY LibFacts DEF IInv, Phases
  <2>2. ~Working(i) /\ ~Enlisted(i)
    BY <2>1, NoFrames DEF Working, Enlisted
  <2> QED
    BY <2>2 DEF IInv, Cared
<1> QED
  BY <1>1, Invariance, PTL

\* A destructor finds what the constructor used, if that was registered first
\* (the order of processCallbacksNow).
THEOREM DependenciesAreThere == Spec => []DependenciesOutlive
<1>1. IInv => DependenciesOutlive
  <2> DEFINE Position(i) == CHOOSE k \in DOMAIN history[1].registered : history[1].registered[k] = i
             T == Len(Tasks)
             N == Len(Listed)
  <2> SUFFICES ASSUME IInv, NEW t \in Threads, NEW n \in DOMAIN calls[t], calls[t][n].pc = "destroy",
                      NEW i \in CtorUses[calls[t][n].inst] \ Leaky,
                      Position(i) < Position(calls[t][n].inst)
               PROVE  object[i] = "alive"
    BY DEF DependenciesOutlive
  <2>1. n \in Depths(t)
    BY LenProperties DEF IInv, Typed, Depths
  <2>2. t = Main /\ n = 1 /\ runs # <<>>
    BY <2>1 DEF IInv, Stacks
  <2>3. managers # <<>> /\ Listed \in Seq(Instances) /\ Tasks \in Seq(Instances)
    BY <2>2, LibFacts DEF IInv, Phases
  <2>4. T \in Nat /\ N \in Nat /\ DOMAIN history[1].registered = 1 .. N
    BY <2>3, LenProperties DEF Listed
  <2>5. /\ T < N /\ calls[t][n].inst = Listed[T + 1]
        /\ \A k \in 1 .. T : Ready(Tasks[k]) /\ Tasks[k] = Listed[k]
        /\ \A k, l \in 1 .. N : Listed[k] = Listed[l] => k = l
    BY <2>1, <2>2, <2>3 DEF IInv, Waiting
  <2>6. \E k \in 1 .. N : Listed[k] = i
    <3>1. T + 1 \in 1 .. N
      BY <2>4, <2>5
    <3> QED
      BY <3>1, <2>2, <2>5 DEF IInv, Uses, Registered
  <2>7. Listed = history[1].registered
    BY DEF Listed
  <2> DEFINE P == Position(i)
             Q == Position(calls[t][n].inst)
  <2>8. P \in 1 .. N /\ Listed[P] = i
    BY <2>4, <2>6, <2>7
  <2>9. Q = T + 1
    <3>1. T + 1 \in 1 .. N
      BY <2>4, <2>5
    <3>2. Q \in 1 .. N /\ Listed[Q] = calls[t][n].inst
      BY <3>1, <2>4, <2>5, <2>7
    <3> HIDE DEF Q
    <3> QED
      BY <3>1, <3>2, <2>5
  <2> HIDE DEF P, Q, T
  <2>10. P < Q
    BY DEF P, Q
  <2>11. P \in 1 .. T
    BY <2>4, <2>8, <2>9, <2>10
  <2> QED
    BY <2>5, <2>8, <2>11 DEF Ready
<1> QED
  BY <1>1, Invariance, PTL
==============================================================================
