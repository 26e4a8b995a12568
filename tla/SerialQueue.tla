---------------------------- MODULE SerialQueue ----------------------------
(***************************************************************************)
(* SerialQueue of transactions/executor/queue.ts: one list of thunks whose *)
(* first element is the running task; it stays in the list until its       *)
(* finally() shifts it out and calls the next one.                         *)
(***************************************************************************)
EXTENDS Naturals, Sequences, FiniteSets, SequencesExt

CONSTANT Tasks   \* a finite set

VARIABLES queue,    \* #queue: the running task and those behind it
          started,  \* the tasks whose thunk was called, finally() not yet
          settled   \* the tasks whose finally() has run

serialVars == <<queue, started, settled>>

Unseen == Tasks \ (ToSet(queue) \union settled)

SerialInit ==
  /\ queue = <<>>
  /\ started = {}
  /\ settled = {}

\* The thunk at the head of list q is called.
Call(q) == IF q = <<>> THEN {} ELSE {Head(q)}

\* Mutant of RunAll: the thunk is called even when the list is not empty.
RunAllAtOnce(s) ==
  /\ queue' = queue \o s
  /\ started' = started \union Call(s)
  /\ UNCHANGED settled

\* What runTask does to the list for each task of s in turn.
PushAll(s) == queue' = queue \o s

\* runTask called for each task of s within one synchronous turn: the first
\* one is called at once when it finds itself alone in the list.
RunAll(s) ==
  /\ PushAll(s)
  /\ started' = started \union (IF queue = <<>> THEN Call(s) ELSE {})
  /\ UNCHANGED settled

RunTask(t) == RunAll(<<t>>)

\* shift() in the finally() of a task: the head goes, whoever that is.
Shift == queue' = Tail(queue)

Finally(t) ==
  /\ t \in started
  /\ Shift
  /\ started' = (started \ {t}) \union Call(Tail(queue))
  /\ settled' = settled \union {t}

SerialNext ==
  \/ \E s \in SetToAllKPermutations(Unseen) \ {<<>>} : RunAll(s)
  \/ \E t \in Tasks : Finally(t)

SerialSpec == SerialInit /\ [][SerialNext]_serialVars

-----------------------------------------------------------------------------
SerialTypeOK ==
  /\ queue \in Seq(Tasks)
  /\ started \subseteq ToSet(queue)
  /\ settled \subseteq Tasks

\* Exactly the head of the list runs, so shift() in finally() always removes
\* the task that settled and never one that has not been called.
HeadRuns == started = Call(queue)

OnePlaceEach ==
  /\ IsInjective(queue)
  /\ ToSet(queue) \intersect settled = {}

Service == INSTANCE TaskService
             WITH Width <- 1,
                  running <- started,
                  waiting <- IF queue = <<>> THEN <<>> ELSE Tail(queue)
ServiceSpec == Service!Spec
=============================================================================
