------------------------- MODULE MCTransactionParts -------------------------
(***************************************************************************)
(* The parts of packages/myso/src/transactions, each checked by itself: a  *)
(* behaviour is one of the parallel queue, of the build queue, of the      *)
(* object locks, of the cache lock, of a transaction that is put together  *)
(* and built, or of edits of its commands, and the other parts stay in     *)
(* their initial states.                                                   *)
(* A call uses one id or any two of three, so that calls wait for several  *)
(* ids at once and chains of waiting calls form.                           *)
(***************************************************************************)
EXTENDS ParallelQueue, ObjectLocks, CacheLock, TransactionBuilder, TransactionData

CONSTANT BuildTasks   \* the tasks of the build queue

VARIABLES part,          \* the part this behaviour is about
          buildQueue, building, built   \* the fields of the build queue

buildVars == <<buildQueue, building, built>>

BuildQ == INSTANCE SerialQueue WITH
  Tasks <- BuildTasks, queue <- buildQueue, started <- building, settled <- built

CONSTANTS o1, o2, o3
MCFootprints == {{o1}, {o1, o2}, {o2, o3}, {o1, o3}}

Parts == {"parallel queue", "build queue", "object locks", "cache lock", "builder", "data"}

MCInit ==
  /\ part \in Parts
  /\ Init /\ BuildQ!SerialInit /\ IdsInit /\ LockInit /\ BuilderInit
  /\ IF part = "data" THEN DataInit ELSE program = <<>> /\ created = 0 /\ edits = 0

Others(p) ==
  /\ p # "parallel queue" => UNCHANGED vars
  /\ p # "build queue" => UNCHANGED buildVars
  /\ p # "object locks" => UNCHANGED idVars
  /\ p # "cache lock" => UNCHANGED lockVars
  /\ p # "builder" => UNCHANGED builder
  /\ p # "data" => UNCHANGED data

MCNext ==
  /\ UNCHANGED part
  /\ \/ part = "parallel queue" /\ Next
     \/ part = "build queue" /\ BuildQ!SerialNext
     \/ part = "object locks" /\ IdsNext
     \/ part = "cache lock" /\ LockNext
     \/ part = "builder" /\ BuilderNext
     \/ part = "data" /\ DataNext
  /\ Others(part)

\* The fairness of the parts that must eventually do something: the actions of the
\* parts a behaviour is not about are never enabled, so theirs asks for nothing.
MCSpec ==
  /\ MCInit /\ [][MCNext]_<<part, vars, buildVars, idVars, lockVars, builder, data>>
  /\ \A t \in Txs : WF_idVars(Release(t))
  /\ BuilderFairness

\* Exactly the head of the build queue runs, so shift() in finally() always
\* removes the task that settled and never one that has not been called.
HeadRuns == BuildQ!HeadRuns
=============================================================================
