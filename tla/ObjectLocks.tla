---------------------------- MODULE ObjectLocks ----------------------------
(***************************************************************************)
(* #objectIdQueues of ParallelTransactionExecutor (executor/parallel.ts):  *)
(* the map whose keys are the object ids some transaction holds and whose  *)
(* values are the callbacks of the transactions waiting for that id.       *)
(* executeTransaction takes all its ids in one synchronous turn; the       *)
(* finally block of #execute passes each id to the next callback.          *)
(***************************************************************************)
EXTENDS Naturals, Sequences, FiniteSets, SequencesExt

CONSTANTS Txs,         \* calls of executeTransaction
          Objects,     \* ids of owned and receiving objects
          Footprints   \* the sets of ids #getUsedObjects may return

ASSUME TxsAssumption == IsFiniteSet(Txs)
ASSUME FootprintsAssumption == Footprints \subseteq SUBSET Objects

VARIABLES
  objectIdQueues,  \* #objectIdQueues: held id -> transactions waiting for it
  usedObjects,     \* usedObjects of each call, {} before it is computed
  conflicts,       \* conflicts of each call: the ids it still waits for
  phase,           \* how far each call has come with its ids
  ticket           \* history: rank of each call's arrival, 0 before it

idVars == <<objectIdQueues, usedObjects, conflicts, phase, ticket>>

Phases == {"new", "waiting", "admitted", "released"}

\* The calls that have arrived and not released their ids.
Live == { t \in Txs : phase[t] \in {"waiting", "admitted"} }

IdsInit ==
  /\ objectIdQueues = [o \in {} |-> <<>>]
  /\ usedObjects = [t \in Txs |-> {}]
  /\ conflicts = [t \in Txs |-> {}]
  /\ phase = [t \in Txs |-> "new"]
  /\ ticket = [t \in Txs |-> 0]

Arrived == { t \in Txs : ticket[t] # 0 }

\* The ids of used that some call holds.
Held(used) == used \intersect DOMAIN objectIdQueues

\* Mutant of TakeIds: the callback goes to the front of the list.
TakeIdsInFront(t, used) ==
  /\ usedObjects' = [usedObjects EXCEPT ![t] = used]
  /\ conflicts' = [conflicts EXCEPT ![t] = Held(used)]
  /\ objectIdQueues' =
       [o \in DOMAIN objectIdQueues \union used |->
          IF o \in Held(used) THEN <<t>> \o objectIdQueues[o]
          ELSE IF o \in used THEN <<>> ELSE objectIdQueues[o]]
  /\ ticket' = [ticket EXCEPT ![t] = Cardinality(Arrived) + 1]

\* executeTransaction, from the return of #getUsedObjects on: ids nobody holds
\* are taken, for the others a callback is queued.
TakeIds(t, used) ==
  /\ usedObjects' = [usedObjects EXCEPT ![t] = used]
  /\ conflicts' = [conflicts EXCEPT ![t] = Held(used)]
  /\ objectIdQueues' =
       [o \in DOMAIN objectIdQueues \union used |->
          IF o \in Held(used) THEN Append(objectIdQueues[o], t)
          ELSE IF o \in used THEN <<>> ELSE objectIdQueues[o]]
  /\ ticket' = [ticket EXCEPT ![t] = Cardinality(Arrived) + 1]

\* A call without conflicts goes on to execute() in the same turn.
Enqueue(t, used) ==
  /\ phase[t] = "new"
  /\ TakeIds(t, used)
  /\ phase' = [phase EXCEPT
                 ![t] = IF Held(used) = {} THEN "admitted" ELSE "waiting"]

\* The ids of t that somebody waits for, and the ids that pass to w.
Contended(t) == { o \in usedObjects[t] : objectIdQueues[o] # <<>> }
PassedTo(t, w) == { o \in Contended(t) : Head(objectIdQueues[o]) = w }

\* Mutant of ReadyAfter: the first conflict that goes away is enough.
ReadyAfterOne(t) == { w \in Txs : conflicts[w] \intersect PassedTo(t, w) # {} }

\* The calls whose last conflict goes away when t releases its ids.
ReadyAfter(t) ==
  { w \in Txs : conflicts[w] # {} /\ conflicts[w] \subseteq PassedTo(t, w) }

\* Mutant of PassIds: an id nobody waits for stays in the map.
PassIdsKeepingKeys(t) ==
  /\ objectIdQueues' =
       [o \in DOMAIN objectIdQueues |->
          IF o \in Contended(t) THEN Tail(objectIdQueues[o])
          ELSE objectIdQueues[o]]
  /\ conflicts' = [w \in Txs |-> conflicts[w] \ PassedTo(t, w)]
  /\ UNCHANGED <<usedObjects, ticket>>

\* Mutant of PassIds: callbacks do not take the id off their conflicts.
PassIdsKeepingConflicts(t) ==
  /\ objectIdQueues' =
       [o \in DOMAIN objectIdQueues \ (usedObjects[t] \ Contended(t)) |->
          IF o \in Contended(t) THEN Tail(objectIdQueues[o])
          ELSE objectIdQueues[o]]
  /\ UNCHANGED <<usedObjects, conflicts, ticket>>

\* The finally block of #execute: every id of t goes to its next callback or
\* leaves the map.
PassIds(t) ==
  /\ objectIdQueues' =
       [o \in DOMAIN objectIdQueues \ (usedObjects[t] \ Contended(t)) |->
          IF o \in Contended(t) THEN Tail(objectIdQueues[o])
          ELSE objectIdQueues[o]]
  /\ conflicts' = [w \in Txs |-> conflicts[w] \ PassedTo(t, w)]
  /\ UNCHANGED <<usedObjects, ticket>>

\* A callback that empties the conflicts of its call goes on to execute().
Release(t) ==
  /\ phase[t] = "admitted"
  /\ PassIds(t)
  /\ phase' = [w \in Txs |-> IF w = t THEN "released"
                             ELSE IF w \in ReadyAfter(t) THEN "admitted"
                             ELSE phase[w]]

IdsNext ==
  \E t \in Txs :
    \/ \E used \in Footprints : Enqueue(t, used)
    \/ Release(t)

IdsSpec == IdsInit /\ [][IdsNext]_idVars

-----------------------------------------------------------------------------
IdsTypeOK ==
  /\ DOMAIN objectIdQueues \subseteq Objects
  /\ \A o \in DOMAIN objectIdQueues : objectIdQueues[o] \in Seq(Txs)
  /\ usedObjects \in [Txs -> SUBSET Objects]
  /\ conflicts \in [Txs -> SUBSET Objects]
  /\ \A t \in Txs : conflicts[t] \subseteq usedObjects[t]
  /\ phase \in [Txs -> Phases]
  /\ ticket \in [Txs -> Nat]

Conflicting(t, u) == usedObjects[t] \intersect usedObjects[u] # {}

\* No two transactions that execute at the same time use the same owned
\* object: they would be built with the same version of it.
Exclusive ==
  \A t, u \in Txs :
    phase[t] = "admitted" /\ phase[u] = "admitted" /\ Conflicting(t, u) => t = u

\* A call waits exactly as long as an earlier call that uses one of its ids
\* has not released them: ids are granted in the order of arrival, a call is
\* not held up by later ones, and no wake-up is lost.
AdmittedInTurn ==
  \A t \in Live :
    phase[t] = "admitted"
      <=> \A u \in Live : ticket[u] < ticket[t] => ~Conflicting(t, u)

\* The map has a key for exactly the ids of live calls: it does not grow with
\* the number of transactions executed.
KeysAreLive ==
  DOMAIN objectIdQueues = UNION { usedObjects[t] : t \in Live }

\* Calls that need several ids each do not block each other for ever: in the end
\* every call that has come has passed its ids on.
EveryCallReleases == <>[](\A t \in Txs : phase[t] \in {"new", "released"})
=============================================================================
