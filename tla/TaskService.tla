---------------------------- MODULE TaskService ----------------------------
(***************************************************************************)
(* What the two queues of transactions/executor/queue.ts promise to their  *)
(* callers, whatever data structure they use: a submitted task starts at   *)
(* once while fewer than Width tasks run, otherwise it waits; a task that  *)
(* settles hands its place to the task that has waited longest.            *)
(***************************************************************************)
EXTENDS Naturals, Sequences, FiniteSets, SequencesExt

CONSTANTS Tasks,    \* the promises callers may ask the queue to run
          Width     \* how many of them may run at the same time

VARIABLES waiting,  \* the tasks that have not started, in order of arrival
          running,  \* the tasks that have started and not settled
          settled   \* the tasks whose promise is resolved or rejected

vars == <<waiting, running, settled>>

Unseen == Tasks \ (ToSet(waiting) \union running \union settled)

Smaller(a, b) == IF a <= b THEN a ELSE b

TypeOK ==
  /\ waiting \in Seq(Tasks)
  /\ running \subseteq Tasks
  /\ settled \subseteq Tasks

Init ==
  /\ waiting = <<>>
  /\ running = {}
  /\ settled = {}

\* The tasks of s arrive one after another in one synchronous turn.
Submit(s) ==
  LET started == Smaller(Len(s), Width - Cardinality(running))
  IN  /\ running' = running \union { s[i] : i \in 1..started }
      /\ waiting' = waiting \o SubSeq(s, started + 1, Len(s))
      /\ UNCHANGED settled

Finish(t) ==
  /\ t \in running
  /\ settled' = settled \union {t}
  /\ \/ /\ waiting = <<>>
        /\ running' = running \ {t}
        /\ UNCHANGED waiting
     \/ /\ waiting # <<>>
        /\ running' = (running \ {t}) \union {Head(waiting)}
        /\ waiting' = Tail(waiting)

Next ==
  \/ \E s \in SetToAllKPermutations(Unseen) : Submit(s)
  \/ \E t \in Tasks : Finish(t)

Spec == Init /\ [][Next]_vars
=============================================================================
