----------------------------- MODULE CacheLock -----------------------------
(***************************************************************************)
(* #cacheLock and #updateCache of ParallelTransactionExecutor              *)
(* (executor/parallel.ts).  A pending promise is named after the call that *)
(* made it; every settled one is the same Settled.  A call reads the field *)
(* once, awaits what it read, and then assigns the field whether or not    *)
(* somebody else has assigned it in between.                               *)
(***************************************************************************)
EXTENDS Naturals, FiniteSets

CONSTANTS Callers,   \* call sites of #updateCache that may overlap
          Updaters,  \* those that pass a function; the others only wait
          NoLock,    \* null
          Settled    \* a promise that has settled

ASSUME CallersAssumption ==
  /\ Updaters \subseteq Callers
  /\ NoLock # Settled /\ NoLock \notin Callers /\ Settled \notin Callers

VARIABLES cacheLock,  \* #cacheLock
          updating,   \* the calls whose function has not settled
          awaited     \* what each call awaits at its first await, or NoLock

lockVars == <<cacheLock, updating, awaited>>

LockInit ==
  /\ cacheLock = NoLock
  /\ updating = {}
  /\ awaited = [c \in Callers |-> NoLock]

\* The rest of #updateCache after the await: fn is called and its promise, or
\* null when there is no fn, becomes the lock.
Enter(c) ==
  /\ cacheLock' = IF c \in Updaters THEN c ELSE NoLock
  /\ updating' = IF c \in Updaters THEN updating \union {c} ELSE updating

\* A call that finds no lock goes through in the same turn.
CallThrough(c) ==
  /\ cacheLock = NoLock
  /\ Enter(c)
  /\ UNCHANGED awaited

\* A call that finds a lock awaits the promise it read.
CallAwaits(c) ==
  /\ cacheLock # NoLock
  /\ awaited' = [awaited EXCEPT ![c] = cacheLock]
  /\ UNCHANGED <<cacheLock, updating>>

\* The awaited promise has settled: the call goes on without a second look.
Resume(c) ==
  /\ awaited[c] = Settled
  /\ Enter(c)
  /\ awaited' = [awaited EXCEPT ![c] = NoLock]

\* Mutant of Wake: those who await the promise are not resumed.
WakeNobody(u) ==
  /\ updating' = updating \ {u}
  /\ UNCHANGED awaited

\* The promise of update u settles: those who await it will be resumed.
Wake(u) ==
  /\ updating' = updating \ {u}
  /\ awaited' = [c \in Callers |-> IF awaited[c] = u THEN Settled ELSE awaited[c]]

\* fn resolves: the field is cleared, whatever it holds by then.
Succeed(u) ==
  /\ u \in updating
  /\ Wake(u)
  /\ cacheLock' = NoLock

\* Mutant of Fail: the rejection is not handled and the promise stays pending.
FailForEver(u) ==
  /\ u \in updating
  /\ Wake(u)
  /\ UNCHANGED cacheLock

\* fn rejects: the rejection is swallowed and the field keeps what it holds.
Fail(u) ==
  /\ u \in updating
  /\ Wake(u)
  /\ cacheLock' = IF cacheLock = u THEN Settled ELSE cacheLock

\* A call site may be used again once its previous update is over.
Idle(c) == awaited[c] = NoLock /\ c \notin updating

UpdateCache(c) == Idle(c) /\ (CallThrough(c) \/ CallAwaits(c))
Settle(u) == Succeed(u) \/ Fail(u)

LockNext == \E c \in Callers : UpdateCache(c) \/ Resume(c) \/ Settle(c)

LockSpec == LockInit /\ [][LockNext]_lockVars

-----------------------------------------------------------------------------
LockTypeOK ==
  /\ cacheLock \in Updaters \union {NoLock, Settled}
  /\ updating \subseteq Updaters
  /\ awaited \in [Callers -> Updaters \union {NoLock, Settled}]

\* What a call may find or await is pending and will settle, or has settled: no
\* promise is awaited that nobody will ever settle.
NoDeadPromise ==
  /\ cacheLock \in updating \union {NoLock, Settled}
  /\ \A c \in Callers : awaited[c] \in updating \union {NoLock, Settled}

=============================================================================
