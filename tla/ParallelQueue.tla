--------------------------- MODULE ParallelQueue ---------------------------
(***************************************************************************)
(* ParallelQueue of transactions/executor/queue.ts: a counter of the tasks *)
(* that hold a place and a list of thunks that start the others.           *)
(* The promise bodies are the environment: a task settles when it likes,   *)
(* successfully or not, since the code hands the place on in finally().    *)
(***************************************************************************)
EXTENDS Naturals, Sequences, FiniteSets, SequencesExt

CONSTANTS Tasks, MaxTasks

ASSUME TasksAssumption == IsFiniteSet(Tasks)

ASSUME MaxTasksAssumption == MaxTasks \in Nat \ {0}

VARIABLES queue,        \* #queue: the tasks whose thunk has not been called
          activeTasks,  \* activeTasks: places handed out
          running,      \* the tasks whose task() was called, finally() not yet
          settled       \* the tasks whose finally() has run

vars == <<queue, activeTasks, running, settled>>

Unseen == Tasks \ (ToSet(queue) \union running \union settled)

Init ==
  /\ queue = <<>>
  /\ activeTasks = 0
  /\ running = {}
  /\ settled = {}

Smaller(a, b) == IF a <= b THEN a ELSE b

\* How many of n tasks that arrive together find activeTasks < maxTasks.
Admitted(n) ==
  IF activeTasks < MaxTasks THEN Smaller(n, MaxTasks - activeTasks) ELSE 0

\* What runTask does to the fields, for each task of s in turn.
TakePlaces(s) ==
  LET k == Admitted(Len(s))
  IN  /\ activeTasks' = activeTasks + k
      /\ queue' = queue \o SubSeq(s, k + 1, Len(s))

\* runTask called for each task of s within one synchronous turn.
RunAll(s) ==
  /\ TakePlaces(s)
  /\ running' = running \union { s[i] : i \in 1..Admitted(Len(s)) }
  /\ UNCHANGED settled

RunTask(t) == RunAll(<<t>>)

\* Mutant of Finally: the place is given back but nobody is called.
FinallyForgetsNext(t) ==
  /\ t \in running
  /\ settled' = settled \union {t}
  /\ activeTasks' = activeTasks - 1
  /\ running' = running \ {t}
  /\ UNCHANGED queue

\* What the finally() callback does to the fields: the next thunk takes over
\* the place, or the place is given back.
HandOn ==
  \/ queue # <<>> /\ queue' = Tail(queue) /\ UNCHANGED activeTasks
  \/ queue = <<>> /\ activeTasks' = activeTasks - 1 /\ UNCHANGED queue

\* The tasks whose thunk the callback calls: the longest waiting one, if any.
Called == IF queue = <<>> THEN {} ELSE {Head(queue)}

Finally(t) ==
  /\ t \in running
  /\ HandOn
  /\ running' = (running \ {t}) \union Called
  /\ settled' = settled \union {t}

Next ==
  \/ \E s \in SetToAllKPermutations(Unseen) \ {<<>>} : RunAll(s)
  \/ \E t \in Tasks : Finally(t)

Spec == Init /\ [][Next]_vars

\* Every task() the executors pass is an async function that awaits network
\* calls which answer or time out.
FairSpec == Spec /\ \A t \in Tasks : WF_vars(Finally(t))

-----------------------------------------------------------------------------
TypeOK ==
  /\ queue \in Seq(Tasks)
  /\ activeTasks \in 0..MaxTasks
  /\ running \subseteq Tasks
  /\ settled \subseteq Tasks

\* activeTasks counts exactly the tasks between task() and finally(): the
\* counter neither leaks a place when a waiting task takes over nor loses one.
ActiveCountsRunning ==
  /\ IsFiniteSet(running)
  /\ activeTasks = Cardinality(running)

\* A task is left waiting only while every place is taken.
NoIdlePlace == queue # <<>> => activeTasks = MaxTasks

\* A task is in one place only: waiting once, running, or settled.
OnePlaceEach ==
  /\ IsInjective(queue)
  /\ ToSet(queue) \intersect running = {}
  /\ (ToSet(queue) \union running) \intersect settled = {}

\* A waiting task is never overtaken: whatever starts while tasks wait is the
\* task at the head, and only one step at a time.
NoOvertaking ==
  [][ queue # <<>> => (running' \ running) \subseteq {Head(queue)} ]_vars

Service == INSTANCE TaskService WITH Width <- MaxTasks, waiting <- queue
ServiceSpec == Service!Spec
=============================================================================
