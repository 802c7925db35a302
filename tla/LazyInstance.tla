---------------------------- MODULE LazyInstance ----------------------------
(***************************************************************************)
(* LazyInstance (src/Stp/Base/Util/LazyInstance.h and .cpp), together with *)
(* the AtExitManager that destroys the instances: globals created by the   *)
(* first thread that asks for them.                                        *)
(*                                                                         *)
(* Constructors and destructors may ask for other instances, so a thread   *)
(* has a stack of calls.  Every atomic access to private_instance_ is a    *)
(* step.  main owns the manager; the other threads end before main         *)
(* destroys it ("This should be called single threaded").                  *)
(***************************************************************************)
EXTENDS Integers, Sequences, FiniteSets

CONSTANTS
  Threads, Main,
  Instances,
  Leaky,        \* the instances declared LeakAtExit (or trivially destructible)
  CtorUses,     \* the instances a constructor asks for ...
  DtorUses,     \* ... and a destructor
  Throwing,     \* the instances whose constructor may throw
  Asserts,      \* ASSERT_IS_ON
  MaxCalls      \* bound on the outermost calls of Pointer() per thread

ASSUME LazyAssumption ==
  /\ IsFiniteSet(Instances)
  /\ Main \in Threads /\ Leaky \subseteq Instances /\ Throwing \subseteq Instances
  /\ CtorUses \in [Instances -> SUBSET Instances]
  /\ DtorUses \in [Instances -> SUBSET Instances]
  /\ Asserts \in BOOLEAN /\ MaxCalls \in Nat

VARIABLES
  instance,     \* private_instance_: 0, Creating, or the address (Created)
  object,       \* the T in private_buf_: none, alive or dead
  calls,        \* per thread, its calls of Pointer() and OnExit, innermost last
  built,        \* history: how many times each T was constructed
  asked,        \* per thread, the outermost calls so far
  managers, runs, panicked, history   \* of AtExit

atExitVars == <<managers, runs, panicked, history>>
vars == <<instance, object, calls, built, asked, managers, runs, panicked, history>>

AtExit == INSTANCE AtExit WITH
  Callbacks <- Instances, MaxManagers <- 1, MaxRuns <- 1

Init ==
  /\ instance = [i \in Instances |-> "0"]
  /\ object = [i \in Instances |-> "none"]
  /\ calls = [t \in Threads |-> <<>>]
  /\ built = [i \in Instances |-> 0]
  /\ asked = [t \in Threads |-> 0]
  /\ AtExit!Init

Running == panicked = "no"
Idle(t) == calls[t] = <<>>
Call(t) == calls[t][Len(calls[t])]
At(t, pc) == Running /\ ~Idle(t) /\ Call(t).pc = pc
Exiting == runs # <<>>

Pointer(i) == [inst |-> i, pc |-> "load", todo |-> {}]

\* The innermost call of t goes on at pc, or returns.
Goto(t, pc) == calls' = [calls EXCEPT ![t][Len(calls[t])].pc = pc]
GotoUsing(t, pc, uses) ==
  calls' = [calls EXCEPT ![t][Len(calls[t])] = [inst |-> Call(t).inst, pc |-> pc, todo |-> uses]]
Return(t) == calls' = [calls EXCEPT ![t] = SubSeq(@, 1, Len(@) - 1)]

------------------------------------------------------------------------------
(* The life of the process. *)

\* main begins, once.
CreateManager ==
  /\ AtExit!Create(FALSE)
  /\ asked = [t \in Threads |-> 0]
  /\ UNCHANGED <<instance, object, calls, built, asked>>

Ask(t, i) ==
  /\ Running /\ managers # <<>> /\ ~Exiting /\ Idle(t) /\ asked[t] < MaxCalls
  /\ calls' = [calls EXCEPT ![t] = <<Pointer(i)>>]
  /\ asked' = [asked EXCEPT ![t] = @ + 1]
  /\ UNCHANGED <<instance, object, built, atExitVars>>

\* ~AtExitManager in main, when the other threads have ended.
Exit ==
  /\ \A t \in Threads : Idle(t) /\ asked[t] = MaxCalls
  /\ AtExit!Process(TRUE)
  /\ UNCHANGED <<instance, object, calls, built, asked>>

ExitDone ==
  /\ Idle(Main) /\ AtExit!Finish
  /\ UNCHANGED <<instance, object, calls, built, asked>>

------------------------------------------------------------------------------
(* Pointer(). *)

\* Acquire_Load, and the test of LazyInstanceCreatedMask.
Load(t) ==
  /\ At(t, "load")
  /\ Goto(t, IF instance[Call(t).inst] = "Created" THEN "get" ELSE "cas")
  /\ UNCHANGED <<instance, object, built, asked, atExitVars>>

\* NeedsLazyInstance: the first one constructs ...
NeedsLazyInstance(t) ==
  /\ At(t, "cas")
  /\ IF instance[Call(t).inst] = "0"
     THEN /\ instance' = [instance EXCEPT ![Call(t).inst] = "Creating"]
          /\ GotoUsing(t, "construct", CtorUses[Call(t).inst])
     ELSE Goto(t, "spin") /\ UNCHANGED instance
  /\ UNCHANGED <<object, built, asked, atExitVars>>

\* Mutation: the others do not wait.
SpinNot(t) ==
  /\ At(t, "spin")
  /\ Goto(t, "get")
  /\ UNCHANGED <<instance, object, built, asked, atExitVars>>

\* ... and the others wait.
Spin(t) ==
  /\ At(t, "spin") /\ instance[Call(t).inst] # "Creating"
  /\ Goto(t, "get")
  /\ UNCHANGED <<instance, object, built, asked, atExitVars>>

\* The constructor or the destructor asks for another instance.
Use(t, i) ==
  /\ At(t, "construct") \/ At(t, "destroy")
  /\ i \in Call(t).todo
  /\ LET user == [Call(t) EXCEPT !.todo = @ \ {i}]
     IN calls' = [calls EXCEPT ![t] =
                   Append([calls[t] EXCEPT ![Len(calls[t])] = user], Pointer(i))]
  /\ UNCHANGED <<instance, object, built, asked, atExitVars>>

\* Traits::New returns.
Construct(t) ==
  /\ At(t, "construct") /\ Call(t).todo = {}
  /\ object' = [object EXCEPT ![Call(t).inst] = "alive"]
  /\ built' = [built EXCEPT ![Call(t).inst] = @ + 1]
  /\ Goto(t, "publish")
  /\ UNCHANGED <<instance, asked, atExitVars>>

\* The constructor throws, out of those that wait for it too: private_instance_
\* stays Creating, and whoever asks later spins.
Throw(t) ==
  /\ At(t, "construct") /\ Call(t).inst \in Throwing /\ ~Exiting
  /\ calls' = [calls EXCEPT ![t] = <<>>]
  /\ UNCHANGED <<instance, object, built, asked, atExitVars>>

\* Mutation: nothing is published for the instances that are not destroyed.
PublishRegistered(t) ==
  /\ At(t, "publish")
  /\ IF Call(t).inst \in Leaky
     THEN Goto(t, "get") /\ UNCHANGED instance
     ELSE /\ Goto(t, "register")
          /\ instance' = [instance EXCEPT ![Call(t).inst] = "Created"]
  /\ UNCHANGED <<object, built, asked, atExitVars>>

\* Mutation: leaky and other instances are confused.
PublishLeaks(t) ==
  /\ At(t, "publish")
  /\ instance' = [instance EXCEPT ![Call(t).inst] = "Created"]
  /\ Goto(t, "get")
  /\ UNCHANGED <<object, built, asked, atExitVars>>

\* CompleteLazyInstance: Release_Store ...
Publish(t) ==
  /\ At(t, "publish")
  /\ instance' = [instance EXCEPT ![Call(t).inst] = "Created"]
  /\ Goto(t, IF Call(t).inst \in Leaky THEN "get" ELSE "register")
  /\ UNCHANGED <<object, built, asked, atExitVars>>

\* ... and registerCallback, which fails during the exit of a debug build.
RegisterAtExit(t) ==
  /\ At(t, "register")
  /\ \/ AtExit!Register(Call(t).inst) /\ Goto(t, "get")
     \/ AtExit!RegisterFails(Call(t).inst) /\ UNCHANGED calls
  /\ UNCHANGED <<instance, object, built, asked>>

\* GetInstance() is what Pointer() returns.
GetInstance(t) ==
  /\ At(t, "get")
  /\ Return(t)
  /\ UNCHANGED <<instance, object, built, asked, atExitVars>>

------------------------------------------------------------------------------
(* OnExit. *)

\* The manager calls OnExit(i), which runs the destructor ...
OnExit(i) ==
  /\ Idle(Main) /\ AtExit!RunTask(i)
  /\ calls' = [calls EXCEPT ![Main] = <<[inst |-> i, pc |-> "destroy", todo |-> DtorUses[i]]>>]
  /\ UNCHANGED <<instance, object, built, asked>>

Delete(t) ==
  /\ At(t, "destroy") /\ Call(t).todo = {}
  /\ object' = [object EXCEPT ![Call(t).inst] = "dead"]
  /\ Goto(t, "clear")
  /\ UNCHANGED <<instance, built, asked, atExitVars>>

\* ... and clears private_instance_.
Clear(t) ==
  /\ At(t, "clear")
  /\ instance' = [instance EXCEPT ![Call(t).inst] = "0"]
  /\ Return(t)
  /\ UNCHANGED <<object, built, asked, atExitVars>>

Step(t) ==
  \/ Load(t) \/ NeedsLazyInstance(t) \/ Spin(t)
  \/ \E i \in Instances : Use(t, i)
  \/ Construct(t) \/ Throw(t) \/ Publish(t) \/ RegisterAtExit(t) \/ GetInstance(t)
  \/ Delete(t) \/ Clear(t)

Next ==
  \/ CreateManager \/ Exit \/ ExitDone
  \/ \E t \in Threads : Step(t) \/ \E i \in Instances : Ask(t, i)
  \/ \E i \in Instances : OnExit(i)

Spec == Init /\ [][Next]_vars

\* The system schedules every thread.
FairSpec == Spec /\ \A t \in Threads : WF_vars(Step(t))

------------------------------------------------------------------------------
(* Correctness. *)

TypeOK ==
  /\ instance \in [Instances -> {"0", "Creating", "Created"}]
  /\ object \in [Instances -> {"none", "alive", "dead"}]
  /\ \A t \in Threads : Len(calls[t]) <= Cardinality(Instances) + 1
  /\ \A t \in Threads : \A n \in DOMAIN calls[t] :
       calls[t][n] \in [inst : Instances, todo : SUBSET Instances,
                        pc : {"load", "cas", "spin", "construct", "publish",
                              "register", "get", "destroy", "clear"}]
  /\ built \in [Instances -> Nat]
  /\ asked \in [Threads -> 0 .. MaxCalls]
  /\ AtExit!TypeOK

Doing(t, i, pcs) == \E n \in DOMAIN calls[t] : calls[t][n].inst = i /\ calls[t][n].pc \in pcs

\* Two threads never construct into the same buffer, and nobody constructs over
\* an object that is alive; and every variable has its type.
OneConstructor ==
  /\ TypeOK
  /\ \A i \in Instances, t, u \in Threads :
       Doing(t, i, {"construct", "publish"}) /\ Doing(u, i, {"construct", "publish"}) => t = u
  /\ \A i \in Instances :
       (\E t \in Threads : Doing(t, i, {"construct"})) => object[i] # "alive"

\* However threads race, Pointer() returns a completely initialized instance,
\* neither one under construction by another thread nor one destroyed at exit,
\* and one thread has constructed it.
ReturnsAlive ==
  /\ OneConstructor
  /\ \A t \in Threads : At(t, "get") =>
       instance[Call(t).inst] = "Created" /\ object[Call(t).inst] = "alive"

\* When the process is over only the leaky instances are left.
AllDestroyed ==
  managers = <<>> => \A i \in Instances \ Leaky : object[i] # "alive"

\* While a destructor runs, what the constructor used is still there, provided
\* that it was registered first.  (Publish lets a dependent overtake it:
\* ConstructedOnce.)
DependenciesOutlive ==
  \A t \in Threads : \A n \in DOMAIN calls[t] :
    calls[t][n].pc = "destroy" =>
      LET Position(i) == CHOOSE k \in DOMAIN history[1].registered : history[1].registered[k] = i
          me == calls[t][n].inst
      IN \A i \in CtorUses[me] \ Leaky : Position(i) < Position(me) => object[i] = "alive"

\* "The T constructor will only ever be called once, even if two threads are
\* racing to create the object."
ConstructedOnce == \A i \in Instances : built[i] <= 1

\* An instance whose constructor threw.
Abandoned(i) ==
  i \in Throwing /\ instance[i] = "Creating" /\ ~\E t \in Threads : Doing(t, i, {"construct", "publish"})

\* Every call of Pointer() returns, unless an ASSERT fails or a constructor has
\* thrown: what one constructor spins on is finished by others, whatever they in
\* turn ask for.
PointerReturns ==
  \A t \in Threads : ~Idle(t) ~> Idle(t) \/ ~Running \/ \E i \in Instances : Abandoned(i)
==============================================================================
