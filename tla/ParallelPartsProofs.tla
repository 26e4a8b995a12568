-------------------------- MODULE ParallelPartsProofs --------------------------
(***************************************************************************)
(* The two locks of ParallelTransactionExecutor and its queue.             *)
(*                                                                         *)
(* Object locks, for any calls, ids and footprints: calls that execute     *)
(* share no id, the map has a key for exactly the ids of live calls, and a *)
(* call waits exactly as long as an earlier one that shares an id is live. *)
(* Exclusion is not inductive: it needs that an id of the map has exactly  *)
(* one holder, that a call waits for the ids it has not been passed, and   *)
(* that the list of an id names those that wait for it, each of them once. *)
(* The order of arrival needs, besides, that the holder of an id came      *)
(* before everyone in its list, and the list is in the order of arrival.   *)
(*                                                                         *)
(* Cache lock, for any callers: nobody awaits a promise that will never    *)
(* settle, although calls overwrite and clear the field at will.           *)
(*                                                                         *)
(* Queue of executions, for any finite set of tasks and any width:         *)
(* activeTasks counts the running tasks, never exceeds maxTasks, and       *)
(* nobody waits beside a free place.  None of the parts is inductive       *)
(* alone: the counter stays below the limit because it is exact, it is     *)
(* exact because a task is in one place only, and no place is idle because *)
(* a freed one is handed on.                                               *)
(***************************************************************************)
EXTENDS ObjectLocks, CacheLock, ParallelQueue, CollectionLemmas

-----------------------------------------------------------------------------
(* Object locks.                                                            *)


\* The ids a call has been granted.
Holds(t) == IF phase[t] \in {"waiting", "admitted"}
            THEN usedObjects[t] \ conflicts[t] ELSE {}

WaitersAreListed ==
  \A o \in DOMAIN objectIdQueues :
    /\ IsInjective(objectIdQueues[o])
    /\ ToSet(objectIdQueues[o]) = { w \in Txs : o \in conflicts[w] }

WaitingForSomething == \A t \in Txs : phase[t] = "waiting" <=> conflicts[t] # {}

UsedAreKeys == \A t \in Live : usedObjects[t] \subseteq DOMAIN objectIdQueues

OneHolder ==
  \A o \in DOMAIN objectIdQueues :
    \E t \in Txs : /\ o \in Holds(t)
                   /\ \A u \in Txs : o \in Holds(u) => u = t

IInv ==
  /\ IdsTypeOK
  /\ WaitersAreListed
  /\ WaitingForSomething
  /\ UsedAreKeys
  /\ OneHolder

\* At first no object is locked and nobody waits.
LEMMA InitHolds == IdsInit => IInv
BY DEF IdsInit, IInv, IdsTypeOK, Phases, Live, WaitersAreListed, WaitingForSomething,
       UsedAreKeys, OneHolder

\* A call arrives: it holds the ids that were free and is listed at the others.
LEMMA ArrivalKeeps ==
  ASSUME IInv, NEW t \in Txs, NEW ids \in Footprints, Enqueue(t, ids)
  PROVE  IInv'
<1> DEFINE Q == objectIdQueues
<1>1. /\ phase[t] = "new"
      /\ conflicts[t] = {}
      /\ ids \subseteq Objects
      /\ usedObjects' = [usedObjects EXCEPT ![t] = ids]
      /\ conflicts' = [conflicts EXCEPT ![t] = Held(ids)]
      /\ phase' = [phase EXCEPT ![t] = IF Held(ids) = {} THEN "admitted" ELSE "waiting"]
      /\ ticket' = [ticket EXCEPT ![t] = Cardinality(Arrived) + 1]
  BY FootprintsAssumption DEF IInv, WaitingForSomething, Enqueue, TakeIds
<1>2. /\ DOMAIN Q' = DOMAIN Q \union ids
      /\ \A o \in DOMAIN Q' :
           Q'[o] = IF o \in Held(ids) THEN Append(Q[o], t)
                   ELSE IF o \in ids THEN <<>> ELSE Q[o]
  BY DEF Enqueue, TakeIds
<1>3. Held(ids) = ids \intersect DOMAIN Q
  BY DEF Held
<1>4. /\ usedObjects \in [Txs -> SUBSET Objects]
      /\ conflicts \in [Txs -> SUBSET Objects]
      /\ phase \in [Txs -> Phases]
      /\ \A w \in Txs : conflicts[w] \subseteq usedObjects[w]
      /\ DOMAIN Q \subseteq Objects
      /\ \A o \in DOMAIN Q : Q[o] \in Seq(Txs)
  BY DEF IInv, IdsTypeOK
<1>5. \A w \in Txs : w # t =>
        /\ usedObjects'[w] = usedObjects[w]
        /\ conflicts'[w] = conflicts[w]
        /\ phase'[w] = phase[w]
        /\ Holds(w)' = Holds(w)
  BY <1>1, <1>4 DEF Holds
<1>6. /\ usedObjects'[t] = ids
      /\ conflicts'[t] = Held(ids)
      /\ phase'[t] = IF Held(ids) = {} THEN "admitted" ELSE "waiting"
      /\ Holds(t)' = ids \ Held(ids)
      /\ Holds(t) = {}
  BY <1>1, <1>4 DEF Holds
<1>7. \A o \in ids \ DOMAIN Q : \A w \in Txs : w # t => o \notin Holds(w) /\ o \notin conflicts[w]
  BY <1>4 DEF IInv, UsedAreKeys, Live, Holds, WaitingForSomething
<1>8. IdsTypeOK'
  <2>1. Cardinality(Arrived) + 1 \in Nat
    <3>1. IsFiniteSet(Arrived)
      BY TxsAssumption, FS_Subset DEF Arrived
    <3> QED
      BY <3>1, FS_CardinalityType
  <2>2. ticket' \in [Txs -> Nat]
    BY <1>1, <2>1 DEF IInv, IdsTypeOK
  <2>3. \A o \in DOMAIN Q' : Q'[o] \in Seq(Txs)
    <3> SUFFICES ASSUME NEW o \in DOMAIN Q' PROVE Q'[o] \in Seq(Txs)
      OBVIOUS
    <3>1. ASSUME o \in Held(ids) PROVE Append(Q[o], t) \in Seq(Txs)
      BY <1>3, <1>4, <3>1, AppendProperties
    <3>2. <<>> \in Seq(Txs)
      BY EmptyQueue
    <3> QED
      BY <1>2, <1>3, <1>4, <3>1, <3>2
  <2>4. /\ usedObjects' \in [Txs -> SUBSET Objects]
        /\ conflicts' \in [Txs -> SUBSET Objects]
        /\ phase' \in [Txs -> Phases]
    BY <1>1, <1>3, <1>4 DEF Phases
  <2>5. \A w \in Txs : conflicts'[w] \subseteq usedObjects'[w]
    BY <1>3, <1>4, <1>5, <1>6
  <2>6. DOMAIN Q' \subseteq Objects
    BY <1>1, <1>2, <1>4
  <2> QED
    BY <2>2, <2>3, <2>4, <2>5, <2>6 DEF IdsTypeOK
<1>9. WaitersAreListed'
  <2> SUFFICES ASSUME NEW o \in DOMAIN Q'
               PROVE  /\ IsInjective(Q'[o])
                      /\ ToSet(Q'[o]) = { w \in Txs : o \in conflicts'[w] }
    BY DEF WaitersAreListed
  <2>1. CASE o \in Held(ids)
    <3>1. /\ Q[o] \in Seq(Txs) /\ IsInjective(Q[o])
          /\ ToSet(Q[o]) = { w \in Txs : o \in conflicts[w] }
      BY <1>3, <1>4, <2>1 DEF IInv, WaitersAreListed
    <3>2. t \notin ToSet(Q[o])
      BY <1>1, <3>1
    <3>3. /\ IsInjective(Append(Q[o], t))
          /\ ToSet(Append(Q[o], t)) = ToSet(Q[o]) \union {t}
      BY <3>1, <3>2, JoinOne
    <3>4. { w \in Txs : o \in conflicts'[w] }
            = { w \in Txs : o \in conflicts[w] } \union {t}
      BY <1>5, <1>6, <2>1
    <3> QED
      BY <1>2, <2>1, <3>1, <3>3, <3>4
  <2>2. CASE o \in ids \ Held(ids)
    <3>1. Q'[o] = <<>> /\ o \notin DOMAIN Q
      BY <1>2, <1>3, <2>2
    <3>2. { w \in Txs : o \in conflicts'[w] } = {}
      BY <1>5, <1>6, <1>7, <2>2, <3>1
    <3> QED
      BY <3>1, <3>2, EmptyQueue
  <2>3. CASE o \notin ids
    <3>1. Q'[o] = Q[o] /\ o \in DOMAIN Q
      BY <1>2, <1>3, <2>3
    <3>2. { w \in Txs : o \in conflicts'[w] } = { w \in Txs : o \in conflicts[w] }
      BY <1>1, <1>3, <1>5, <1>6, <2>3
    <3> QED
      BY <3>1, <3>2 DEF IInv, WaitersAreListed
  <2> QED
    BY <2>1, <2>2, <2>3
<1>10. WaitingForSomething'
  BY <1>5, <1>6 DEF IInv, WaitingForSomething
<1>11. UsedAreKeys'
  BY <1>2, <1>5, <1>6 DEF IInv, UsedAreKeys, Live
<1>12. OneHolder'
  <2> SUFFICES ASSUME NEW o \in DOMAIN Q'
               PROVE  \E h \in Txs : /\ o \in Holds(h)'
                                     /\ \A u \in Txs : o \in Holds(u)' => u = h
    BY DEF OneHolder
  <2>1. CASE o \in DOMAIN Q
    <3>1. PICK h \in Txs : o \in Holds(h) /\ \A u \in Txs : o \in Holds(u) => u = h
      BY <2>1 DEF IInv, OneHolder
    <3>2. h # t /\ o \notin Holds(t)'
      BY <1>3, <1>6, <2>1, <3>1
    <3> QED
      BY <1>5, <3>1, <3>2
  <2>2. CASE o \notin DOMAIN Q
    <3>1. o \in Holds(t)' /\ \A u \in Txs : u # t => o \notin Holds(u)'
      BY <1>2, <1>3, <1>5, <1>6, <1>7, <2>2
    <3> QED
      BY <3>1
  <2> QED
    BY <2>1, <2>2
<1> QED
  BY <1>8, <1>9, <1>10, <1>11, <1>12 DEF IInv

\* A call passes its ids on: the first in the list of an id becomes its holder.
LEMMA ReleaseKeeps ==
  ASSUME IInv, NEW t \in Txs, Release(t)
  PROVE  IInv'
<1> DEFINE Q == objectIdQueues
<1>1. /\ phase[t] = "admitted" /\ conflicts[t] = {}
      /\ usedObjects' = usedObjects
      /\ ticket' = ticket
      /\ conflicts' = [w \in Txs |-> conflicts[w] \ PassedTo(t, w)]
      /\ phase' = [w \in Txs |-> IF w = t THEN "released"
                                 ELSE IF w \in ReadyAfter(t) THEN "admitted"
                                 ELSE phase[w]]
  BY DEF IInv, WaitingForSomething, Release, PassIds
<1>2. /\ DOMAIN Q' = DOMAIN Q \ (usedObjects[t] \ Contended(t))
      /\ \A o \in DOMAIN Q' :
           Q'[o] = IF o \in Contended(t) THEN Tail(Q[o]) ELSE Q[o]
  BY DEF Release, PassIds
<1>3. /\ usedObjects \in [Txs -> SUBSET Objects]
      /\ conflicts \in [Txs -> SUBSET Objects]
      /\ phase \in [Txs -> Phases]
      /\ ticket \in [Txs -> Nat]
      /\ \A w \in Txs : conflicts[w] \subseteq usedObjects[w]
      /\ DOMAIN Q \subseteq Objects
      /\ \A o \in DOMAIN Q : Q[o] \in Seq(Txs)
  BY DEF IInv, IdsTypeOK
<1>4. /\ usedObjects[t] \subseteq DOMAIN Q
      /\ Holds(t) = usedObjects[t]
  BY <1>1 DEF IInv, UsedAreKeys, Live, Holds
<1>5. ASSUME NEW o \in Contended(t)
      PROVE  /\ o \in DOMAIN Q /\ o \in DOMAIN Q' /\ o \in usedObjects[t]
             /\ Q[o] \in Seq(Txs) /\ Q[o] # <<>> /\ IsInjective(Q[o])
             /\ ToSet(Q[o]) = { w \in Txs : o \in conflicts[w] }
             /\ Head(Q[o]) \in ToSet(Q[o])
             /\ Tail(Q[o]) \in Seq(Txs)
             /\ IsInjective(Tail(Q[o]))
             /\ ToSet(Tail(Q[o])) = ToSet(Q[o]) \ {Head(Q[o])}
             /\ \A w \in Txs : o \in PassedTo(t, w) <=> w = Head(Q[o])
  <2>1. /\ o \in DOMAIN Q /\ o \in DOMAIN Q' /\ o \in usedObjects[t]
        /\ Q[o] \in Seq(Txs) /\ Q[o] # <<>> /\ IsInjective(Q[o])
        /\ ToSet(Q[o]) = { w \in Txs : o \in conflicts[w] }
    BY <1>2, <1>3, <1>4 DEF IInv, WaitersAreListed, Contended
  <2>2. \A w \in Txs : o \in PassedTo(t, w) <=> w = Head(Q[o])
    BY DEF PassedTo
  <2> QED
    BY <2>1, <2>2, ServeHead
<1>6. \A w \in Txs : PassedTo(t, w) \subseteq Contended(t)
  BY DEF PassedTo
<1>7. \A w \in Txs : PassedTo(t, w) \subseteq conflicts[w]
  BY <1>5, <1>6
<1>8. \A o \in usedObjects[t], w \in Txs :
        o \in Holds(w) => w = t
  BY <1>4 DEF IInv, OneHolder
<1>9. \A w \in Txs : w # t =>
        /\ Holds(w)' = Holds(w) \union PassedTo(t, w)
        /\ phase'[w] = IF w \in ReadyAfter(t) THEN "admitted" ELSE phase[w]
        /\ phase'[w] \in {"waiting", "admitted"}
              <=> phase[w] \in {"waiting", "admitted"}
  <2> SUFFICES ASSUME NEW w \in Txs, w # t
               PROVE  /\ Holds(w)' = Holds(w) \union PassedTo(t, w)
                      /\ phase'[w] = IF w \in ReadyAfter(t) THEN "admitted" ELSE phase[w]
                      /\ phase'[w] \in {"waiting", "admitted"}
                            <=> phase[w] \in {"waiting", "admitted"}
    OBVIOUS
  <2>1. phase'[w] = IF w \in ReadyAfter(t) THEN "admitted" ELSE phase[w]
    BY <1>1
  <2>2. w \in ReadyAfter(t) => phase[w] = "waiting"
    BY DEF IInv, WaitingForSomething, ReadyAfter
  <2>3. PassedTo(t, w) # {} => phase[w] = "waiting"
    BY <1>7 DEF IInv, WaitingForSomething
  <2>4. /\ conflicts'[w] = conflicts[w] \ PassedTo(t, w)
        /\ usedObjects'[w] = usedObjects[w]
    BY <1>1
  <2> QED
    BY <1>3, <1>7, <2>1, <2>2, <2>3, <2>4 DEF Holds
<1>10. Holds(t)' = {} /\ phase'[t] = "released" /\ conflicts'[t] = {}
  BY <1>1 DEF Holds
<1>11. IdsTypeOK'
  <2>1. \A o \in DOMAIN Q' : Q'[o] \in Seq(Txs)
    BY <1>2, <1>3, <1>5
  <2>2. conflicts' \in [Txs -> SUBSET Objects] /\ phase' \in [Txs -> Phases]
    BY <1>1, <1>3 DEF Phases
  <2>3. \A w \in Txs : conflicts'[w] \subseteq usedObjects'[w]
    BY <1>1, <1>3
  <2> QED
    BY <1>1, <1>2, <1>3, <2>1, <2>2, <2>3 DEF IdsTypeOK
<1>12. WaitersAreListed'
  <2> SUFFICES ASSUME NEW o \in DOMAIN Q'
               PROVE  /\ IsInjective(Q'[o])
                      /\ ToSet(Q'[o]) = { w \in Txs : o \in conflicts'[w] }
    BY DEF WaitersAreListed
  <2>1. CASE o \in Contended(t)
    <3>1. { w \in Txs : o \in conflicts'[w] }
            = { w \in Txs : o \in conflicts[w] } \ {Head(Q[o])}
      BY <1>1, <1>5, <2>1
    <3> QED
      BY <1>2, <1>5, <2>1, <3>1
  <2>2. CASE o \notin Contended(t)
    <3>1. Q'[o] = Q[o] /\ o \in DOMAIN Q
      BY <1>2, <2>2
    <3>2. { w \in Txs : o \in conflicts'[w] } = { w \in Txs : o \in conflicts[w] }
      BY <1>1, <1>6, <2>2
    <3> QED
      BY <3>1, <3>2 DEF IInv, WaitersAreListed
  <2> QED
    BY <2>1, <2>2
<1>13. WaitingForSomething'
  <2> SUFFICES ASSUME NEW w \in Txs, w # t
               PROVE  phase'[w] = "waiting" <=> conflicts'[w] # {}
    BY <1>10 DEF WaitingForSomething
  <2>1. phase[w] = "waiting" <=> conflicts[w] # {}
    BY DEF IInv, WaitingForSomething
  <2>2. conflicts'[w] = conflicts[w] \ PassedTo(t, w)
    BY <1>1
  <2>3. w \in ReadyAfter(t) <=> conflicts[w] # {} /\ conflicts'[w] = {}
    BY <2>2 DEF ReadyAfter
  <2> QED
    BY <1>9, <2>1, <2>2, <2>3
<1>14. UsedAreKeys'
  <2> SUFFICES ASSUME NEW w \in Txs, phase'[w] \in {"waiting", "admitted"},
                      NEW o \in usedObjects[w]
               PROVE  o \in DOMAIN Q'
    BY <1>1 DEF UsedAreKeys, Live
  <2>1. w # t /\ phase[w] \in {"waiting", "admitted"}
    BY <1>9, <1>10
  <2>2. o \in DOMAIN Q
    BY <2>1 DEF IInv, UsedAreKeys, Live
  <2>3. ASSUME o \in usedObjects[t] PROVE o \in Contended(t)
    <3>1. o \in conflicts[w]
      BY <1>8, <2>1, <2>3 DEF Holds
    <3>2. ToSet(Q[o]) # {}
      BY <2>2, <3>1 DEF IInv, WaitersAreListed
    <3>3. Q[o] # <<>>
      BY <3>2, EmptyQueue
    <3> QED
      BY <2>3, <3>3 DEF Contended
  <2> QED
    BY <1>2, <2>2, <2>3
<1>15. OneHolder'
  <2> SUFFICES ASSUME NEW o \in DOMAIN Q'
               PROVE  \E h \in Txs : /\ o \in Holds(h)'
                                     /\ \A u \in Txs : o \in Holds(u)' => u = h
    BY DEF OneHolder
  <2>1. CASE o \in Contended(t)
    <3>1. PICK h \in Txs : h = Head(Q[o])
      BY <1>5, <2>1
    <3>2. h # t /\ o \in Holds(h)'
      BY <1>1, <1>5, <1>9, <2>1, <3>1
    <3>3. \A u \in Txs : o \in Holds(u)' => u = h
      BY <1>5, <1>8, <1>9, <1>10, <2>1, <3>1
    <3> QED
      BY <3>2, <3>3
  <2>2. CASE o \notin Contended(t)
    <3>1. o \in DOMAIN Q /\ o \notin usedObjects[t]
      BY <1>2, <2>2
    <3>2. PICK h \in Txs : o \in Holds(h) /\ \A u \in Txs : o \in Holds(u) => u = h
      BY <3>1 DEF IInv, OneHolder
    <3>3. h # t
      BY <1>4, <3>1, <3>2
    <3> QED
      BY <1>6, <1>9, <1>10, <2>2, <3>2, <3>3
  <2> QED
    BY <2>1, <2>2
<1> QED
  BY <1>11, <1>12, <1>13, <1>14, <1>15 DEF IInv

\* Nothing changes while nothing happens.
LEMMA StutterKeeps == IInv /\ UNCHANGED idVars => IInv'
BY DEF IInv, idVars, IdsTypeOK, Live, Holds, WaitersAreListed, WaitingForSomething,
       UsedAreKeys, OneHolder

\* Every enqueue and every release keeps the queues in order.
LEMMA StepKeeps == IInv /\ [IdsNext]_idVars => IInv'
BY ArrivalKeeps, ReleaseKeeps, StutterKeeps DEF IdsNext

\* No two calls execute at the same time that use the same owned object, for
\* any number of calls, ids and footprints (parallel.ts:147-166, 323-330).
THEOREM CallsExclude == IdsSpec => []Exclusive
<1>1. IInv => Exclusive
  <2> SUFFICES ASSUME IInv, NEW t \in Txs, NEW u \in Txs,
                      phase[t] = "admitted", phase[u] = "admitted",
                      NEW o \in usedObjects[t] \intersect usedObjects[u]
               PROVE  t = u
    BY DEF Exclusive, Conflicting
  <2>1. conflicts[t] = {} /\ conflicts[u] = {}
    BY DEF IInv, WaitingForSomething
  <2>2. o \in Holds(t) /\ o \in Holds(u)
    BY <2>1 DEF Holds
  <2>3. o \in DOMAIN objectIdQueues
    BY DEF IInv, UsedAreKeys, Live
  <2> QED
    BY <2>2, <2>3 DEF IInv, OneHolder
<1> QED
  BY <1>1, InitHolds, StepKeeps, PTL DEF IdsSpec

\* The map holds an id exactly while a call that uses it is live: every id is
\* released, and none before its last user.
THEOREM MapDoesNotLeak == IdsSpec => []KeysAreLive
<1>1. IInv => KeysAreLive
  <2> SUFFICES ASSUME IInv PROVE KeysAreLive
    OBVIOUS
  <2>1. \A t \in Live : usedObjects[t] \subseteq DOMAIN objectIdQueues
    BY DEF IInv, UsedAreKeys
  <2>2. \A o \in DOMAIN objectIdQueues : \E t \in Live : o \in usedObjects[t]
    BY DEF IInv, OneHolder, Holds, Live
  <2> QED
    BY <2>1, <2>2 DEF KeysAreLive
<1> QED
  BY <1>1, InitHolds, StepKeeps, PTL DEF IdsSpec

-----------------------------------------------------------------------------
(* The order of arrival.                                                    *)

\* The tickets of the calls that have arrived are positive, different and no
\* larger than their number.
TicketsAreRanks ==
  /\ \A t \in Txs : ticket[t] = 0 <=> phase[t] = "new"
  /\ \A t \in Txs : ticket[t] <= Cardinality(Arrived)
  /\ \A t, u \in Arrived : ticket[t] = ticket[u] => t = u

ListedInTurn ==
  \A o \in DOMAIN objectIdQueues :
    \A i, j \in 1..Len(objectIdQueues[o]) :
      i < j => ticket[objectIdQueues[o][i]] < ticket[objectIdQueues[o][j]]

HolderCameFirst ==
  \A o \in DOMAIN objectIdQueues : \A t, w \in Txs :
    o \in Holds(t) /\ o \in conflicts[w] => ticket[t] < ticket[w]

InTurn == TicketsAreRanks /\ ListedInTurn /\ HolderCameFirst

\* At first nobody has a turn to lose.
LEMMA InitInTurn == IdsInit => InTurn
<1> SUFFICES ASSUME IdsInit PROVE InTurn
  OBVIOUS
<1>1. Arrived = {} /\ Cardinality(Arrived) = 0
  BY FS_EmptySet DEF IdsInit, Arrived
<1>2. TicketsAreRanks
  BY <1>1 DEF IdsInit, TicketsAreRanks
<1> QED
  BY <1>2 DEF IdsInit, InTurn, ListedInTurn, HolderCameFirst

\* The ticket of a call that arrives is larger than all others: it is the last
\* in the lists it joins, and the holders there came before it.
LEMMA ArrivalKeepsTurn ==
  ASSUME IInv, InTurn, NEW t \in Txs, NEW ids \in Footprints, Enqueue(t, ids)
  PROVE  InTurn'
<1> DEFINE Q == objectIdQueues
           n == Cardinality(Arrived)
<1>1. /\ phase[t] = "new" /\ ticket[t] = 0
      /\ usedObjects' = [usedObjects EXCEPT ![t] = ids]
      /\ conflicts' = [conflicts EXCEPT ![t] = Held(ids)]
      /\ phase' = [phase EXCEPT ![t] = IF Held(ids) = {} THEN "admitted" ELSE "waiting"]
      /\ ticket' = [ticket EXCEPT ![t] = n + 1]
  BY DEF InTurn, TicketsAreRanks, Enqueue, TakeIds
<1>2. /\ DOMAIN Q' = DOMAIN Q \union ids
      /\ \A o \in DOMAIN Q' :
           Q'[o] = IF o \in ids \intersect DOMAIN Q THEN Append(Q[o], t)
                   ELSE IF o \in ids THEN <<>> ELSE Q[o]
  BY DEF Enqueue, TakeIds, Held
<1>3. /\ usedObjects \in [Txs -> SUBSET Objects]
      /\ conflicts \in [Txs -> SUBSET Objects]
      /\ phase \in [Txs -> Phases]
      /\ ticket \in [Txs -> Nat]
      /\ \A w \in Txs : conflicts[w] \subseteq usedObjects[w]
      /\ \A o \in DOMAIN Q : Q[o] \in Seq(Txs)
  BY DEF IInv, IdsTypeOK
<1>4. /\ IsFiniteSet(Arrived) /\ n \in Nat
      /\ Arrived' = Arrived \union {t} /\ t \notin Arrived
      /\ Cardinality(Arrived') = n + 1
  <2>1. IsFiniteSet(Arrived)
    BY TxsAssumption, FS_Subset DEF Arrived
  <2>2. ticket'[t] # 0 /\ \A w \in Txs \ {t} : ticket'[w] = ticket[w]
    BY <1>1, <1>3, <2>1, FS_CardinalityType
  <2>3. Arrived' = Arrived \union {t} /\ t \notin Arrived
    BY <1>1, <2>2 DEF Arrived
  <2> QED
    BY <2>1, <2>3, FS_CardinalityType, FS_AddElement
<1>5. \A w \in Txs : /\ ticket[w] <= n
                     /\ w # t => ticket'[w] = ticket[w]
  BY <1>1, <1>3 DEF InTurn, TicketsAreRanks
<1>6. ticket'[t] = n + 1
  BY <1>1, <1>3
<1> HIDE DEF n
<1>7. TicketsAreRanks'
  <2>1. \A w \in Txs : ticket'[w] = 0 <=> phase'[w] = "new"
    BY <1>1, <1>3, <1>4, <1>5, <1>6 DEF InTurn, TicketsAreRanks, Phases
  <2>2. \A w \in Txs : ticket'[w] <= Cardinality(Arrived')
    BY <1>3, <1>4, <1>5, <1>6
  <2>3. \A v, w \in Arrived' : ticket'[v] = ticket'[w] => v = w
    <3> SUFFICES ASSUME NEW v \in Arrived', NEW w \in Arrived', ticket'[v] = ticket'[w]
                 PROVE  v = w
      OBVIOUS
    <3>1. v \in Txs /\ w \in Txs
      BY DEF Arrived
    <3>2. CASE v # t /\ w # t
      BY <1>4, <1>5, <3>1, <3>2 DEF InTurn, TicketsAreRanks
    <3>3. CASE v = t \/ w = t
      BY <1>3, <1>4, <1>5, <1>6, <3>1, <3>3
    <3> QED
      BY <3>2, <3>3
  <2> QED
    BY <2>1, <2>2, <2>3 DEF TicketsAreRanks
<1>8. ListedInTurn'
  <2> SUFFICES ASSUME NEW o \in DOMAIN Q',
                      NEW i \in 1..Len(Q'[o]), NEW j \in 1..Len(Q'[o]), i < j
               PROVE  ticket'[Q'[o][i]] < ticket'[Q'[o][j]]
    BY DEF ListedInTurn
  <2>1. ASSUME o \in DOMAIN Q, NEW k \in 1..Len(Q[o])
        PROVE  Q[o][k] \in Txs /\ Q[o][k] # t
    <3>1. Q[o][k] \in ToSet(Q[o]) /\ ToSet(Q[o]) \subseteq Txs
      <4>1. Q[o] \in Seq(Txs)
        BY <1>3, <2>1
      <4>2. /\ ToSet(Q[o]) = { Q[o][m] : m \in 1..Len(Q[o]) }
            /\ ToSet(Q[o]) \subseteq Txs
        BY <4>1, ElementsByIndex
      <4> QED
        BY <2>1, <4>2, Zenon
    <3>2. ToSet(Q[o]) = { w \in Txs : o \in conflicts[w] }
      BY <2>1 DEF IInv, WaitersAreListed
    <3>3. conflicts[t] = {}
      BY <1>1 DEF IInv, WaitingForSomething
    <3> QED
      BY <3>1, <3>2, <3>3
  <2>2. CASE o \in ids \intersect DOMAIN Q
    <3>1. /\ Len(Q'[o]) = Len(Q[o]) + 1 /\ Len(Q[o]) \in Nat
          /\ \A k \in 1..Len(Q[o]) : Q'[o][k] = Q[o][k]
          /\ Q'[o][Len(Q[o]) + 1] = t
      <4>1. Q[o] \in Seq(Txs) /\ Q'[o] = Append(Q[o], t)
        BY <1>2, <1>3, <2>2
      <4> QED
        BY <4>1, AppendProperties, LenProperties
    <3>2. i \in 1..Len(Q[o])
      BY <3>1
    <3>3. CASE j \in 1..Len(Q[o])
      BY <1>5, <2>1, <2>2, <3>1, <3>2, <3>3 DEF InTurn, ListedInTurn
    <3>4. CASE j = Len(Q[o]) + 1
      <4>1. Q'[o][i] \in Txs /\ Q'[o][i] # t
        BY <2>1, <2>2, <3>1, <3>2
      <4>2. ticket'[Q'[o][i]] \in Nat /\ ticket'[Q'[o][i]] <= n
        BY <1>3, <1>5, <4>1
      <4>3. ticket'[Q'[o][j]] = n + 1
        BY <1>6, <3>1, <3>4
      <4> QED
        BY <1>4, <4>2, <4>3
    <3> QED
      BY <3>1, <3>3, <3>4
  <2>3. CASE o \in ids \ DOMAIN Q
    BY <1>2, <2>3, EmptySeq
  <2>4. CASE o \notin ids
    BY <1>2, <1>5, <2>1, <2>4 DEF InTurn, ListedInTurn
  <2> QED
    BY <1>2, <2>2, <2>3, <2>4
<1>9. HolderCameFirst'
  <2> SUFFICES ASSUME NEW o \in DOMAIN Q', NEW h \in Txs, NEW w \in Txs,
                      o \in Holds(h)', o \in conflicts'[w]
               PROVE  ticket'[h] < ticket'[w]
    BY DEF HolderCameFirst
  <2>1. CASE w = t
    <3>1. o \in ids \intersect DOMAIN Q
      BY <1>1, <1>3, <2>1 DEF Held
    <3>2. h # t
      BY <1>1, <1>3, <3>1 DEF Holds, Held
    <3> QED
      BY <1>3, <1>4, <1>5, <1>6, <2>1, <3>2
  <2>2. CASE w # t
    <3>1. o \in conflicts[w] /\ conflicts'[w] = conflicts[w]
      BY <1>1, <1>3, <2>2
    <3>2. o \in DOMAIN Q
      BY <1>3, <3>1 DEF IInv, UsedAreKeys, Live, WaitingForSomething
    <3>3. h # t
      BY <1>1, <1>3, <3>2 DEF Holds, Held
    <3>4. o \in Holds(h)
      BY <1>1, <1>3, <3>3 DEF Holds
    <3> QED
      BY <1>5, <2>2, <3>1, <3>2, <3>3, <3>4 DEF InTurn, HolderCameFirst
  <2> QED
    BY <2>1, <2>2
<1> QED
  BY <1>7, <1>8, <1>9 DEF InTurn

\* An id passes to the first in its list, which came before the others there.
LEMMA ReleaseKeepsTurn ==
  ASSUME IInv, InTurn, NEW t \in Txs, Release(t)
  PROVE  InTurn'
<1> DEFINE Q == objectIdQueues
<1>1. /\ phase[t] = "admitted" /\ conflicts[t] = {}
      /\ usedObjects' = usedObjects
      /\ ticket' = ticket /\ Arrived' = Arrived
      /\ conflicts' = [w \in Txs |-> conflicts[w] \ PassedTo(t, w)]
      /\ phase' = [w \in Txs |-> IF w = t THEN "released"
                                 ELSE IF w \in ReadyAfter(t) THEN "admitted"
                                 ELSE phase[w]]
  BY DEF IInv, WaitingForSomething, Release, PassIds, Arrived
<1>2. /\ DOMAIN Q' = DOMAIN Q \ (usedObjects[t] \ Contended(t))
      /\ \A o \in DOMAIN Q' :
           Q'[o] = IF o \in Contended(t) THEN Tail(Q[o]) ELSE Q[o]
  BY DEF Release, PassIds
<1>3. /\ usedObjects \in [Txs -> SUBSET Objects]
      /\ conflicts \in [Txs -> SUBSET Objects]
      /\ phase \in [Txs -> Phases]
      /\ ticket \in [Txs -> Nat]
      /\ \A o \in DOMAIN Q : Q[o] \in Seq(Txs)
  BY DEF IInv, IdsTypeOK
<1>4. \A w \in Txs : /\ w \in ReadyAfter(t) => phase[w] = "waiting"
                     /\ conflicts[w] # {} <=> phase[w] = "waiting"
  BY DEF IInv, WaitingForSomething, ReadyAfter
<1>5. TicketsAreRanks'
  BY <1>1, <1>4 DEF InTurn, TicketsAreRanks
<1>6. ASSUME NEW o \in DOMAIN Q', o \in Contended(t)
      PROVE  /\ Q[o] \in Seq(Txs) /\ o \in DOMAIN Q /\ Q[o] # <<>>
             /\ Len(Q[o]) \in Nat \ {0}
             /\ Len(Tail(Q[o])) = Len(Q[o]) - 1
             /\ \A k \in 1..(Len(Q[o]) - 1) : Tail(Q[o])[k] = Q[o][k + 1]
             /\ Head(Q[o]) = Q[o][1]
  BY <1>2, <1>3, <1>6, EmptySeq, HeadTailProperties DEF Contended
<1>7. ListedInTurn'
  <2> SUFFICES ASSUME NEW o \in DOMAIN Q',
                      NEW i \in 1..Len(Q'[o]), NEW j \in 1..Len(Q'[o]), i < j
               PROVE  ticket[Q'[o][i]] < ticket[Q'[o][j]]
    BY <1>1 DEF ListedInTurn
  <2>1. CASE o \in Contended(t)
    <3>1. /\ i + 1 \in 1..Len(Q[o]) /\ j + 1 \in 1..Len(Q[o])
          /\ Q'[o][i] = Q[o][i + 1] /\ Q'[o][j] = Q[o][j + 1]
      BY <1>2, <1>6, <2>1
    <3> QED
      BY <1>6, <2>1, <3>1, SMTT(30) DEF InTurn, ListedInTurn
  <2>2. CASE o \notin Contended(t)
    BY <1>2, <2>2 DEF InTurn, ListedInTurn
  <2> QED
    BY <2>1, <2>2
<1>8. HolderCameFirst'
  <2> SUFFICES ASSUME NEW o \in DOMAIN Q', NEW h \in Txs, NEW w \in Txs,
                      o \in Holds(h)', o \in conflicts'[w]
               PROVE  ticket[h] < ticket[w]
    BY <1>1 DEF HolderCameFirst
  <2>1. /\ o \in conflicts[w] /\ o \notin PassedTo(t, w)
        /\ h # t /\ phase[h] \in {"waiting", "admitted"}
        /\ o \in usedObjects[h]
        /\ o \in conflicts[h] => o \in PassedTo(t, h)
    BY <1>1, <1>3, <1>4 DEF Holds
  <2>2. CASE o \in Holds(h)
    BY <1>2, <2>1, <2>2 DEF InTurn, HolderCameFirst
  <2>3. CASE o \notin Holds(h)
    <3>1. o \in PassedTo(t, h)
      BY <2>1, <2>3 DEF Holds
    <3>2. o \in Contended(t) /\ h = Head(Q[o])
      BY <3>1 DEF PassedTo
    <3>3. w \in ToSet(Q[o]) /\ w # Head(Q[o])
      BY <1>6, <2>1, <3>2 DEF IInv, WaitersAreListed, PassedTo
    <3>4. PICK k \in 1..Len(Q[o]) : w = Q[o][k]
      BY <1>6, <3>2, <3>3, ElementsByIndex
    <3>5. k > 1 /\ 1 \in 1..Len(Q[o])
      BY <1>6, <3>2, <3>3, <3>4
    <3> QED
      BY <1>6, <3>2, <3>4, <3>5 DEF InTurn, ListedInTurn
  <2> QED
    BY <2>2, <2>3
<1> QED
  BY <1>5, <1>7, <1>8 DEF InTurn

\* Neither an arrival nor a release lets anybody be overtaken.
LEMMA StepKeepsTurn == IInv /\ InTurn /\ [IdsNext]_idVars => InTurn'
<1>1. IInv /\ InTurn /\ UNCHANGED idVars => InTurn'
  BY DEF InTurn, idVars, TicketsAreRanks, ListedInTurn, HolderCameFirst, Arrived, Holds
<1> QED
  BY <1>1, ArrivalKeepsTurn, ReleaseKeepsTurn DEF IdsNext

\* A call that has arrived executes as soon as, and not before, every earlier
\* call that uses one of its ids has released them (parallel.ts:147-166,
\* 323-330): no wake-up is lost, and no later call is served first.
THEOREM NobodyIsOvertaken == IdsSpec => []AdmittedInTurn
<1>1. IInv /\ InTurn => AdmittedInTurn
  <2> SUFFICES ASSUME IInv, InTurn, NEW t \in Live
               PROVE  phase[t] = "admitted"
                        <=> \A u \in Live : ticket[u] < ticket[t] => ~Conflicting(t, u)
    BY DEF AdmittedInTurn
  <2>1. t \in Txs /\ phase[t] \in {"waiting", "admitted"}
    BY DEF Live
  <2>2. ticket \in [Txs -> Nat] /\ \A w \in Txs : conflicts[w] \subseteq usedObjects[w]
    BY DEF IInv, IdsTypeOK
  <2>3. ASSUME phase[t] = "admitted", NEW u \in Live, ticket[u] < ticket[t],
               NEW o \in usedObjects[t] \intersect usedObjects[u]
        PROVE  FALSE
    <3>1. o \in DOMAIN objectIdQueues
      BY DEF IInv, UsedAreKeys
    <3>2. o \in Holds(t)
      BY <2>1, <2>3 DEF IInv, WaitingForSomething, Holds
    <3>3. u \in Txs /\ u # t /\ phase[u] \in {"waiting", "admitted"}
      BY <2>1, <2>2, <2>3 DEF Live
    <3>4. o \in conflicts[u]
      BY <3>1, <3>2, <3>3, <2>1 DEF IInv, OneHolder, Holds
    <3>5. ticket[t] < ticket[u]
      BY <2>1, <3>1, <3>2, <3>3, <3>4 DEF InTurn, HolderCameFirst
    <3> QED
      BY <2>1, <2>2, <2>3, <3>3, <3>5
  <2>4. ASSUME phase[t] = "waiting"
        PROVE  \E u \in Live : ticket[u] < ticket[t] /\ Conflicting(t, u)
    <3>1. PICK o : o \in conflicts[t]
      BY <2>1, <2>4 DEF IInv, WaitingForSomething
    <3>2. o \in usedObjects[t] /\ o \in DOMAIN objectIdQueues
      BY <2>1, <2>2, <3>1 DEF IInv, UsedAreKeys
    <3>3. PICK h \in Txs : o \in Holds(h)
      BY <3>2 DEF IInv, OneHolder
    <3>4. h \in Live /\ o \in usedObjects[h]
      BY <3>3 DEF Holds, Live
    <3>5. ticket[h] < ticket[t]
      BY <2>1, <3>1, <3>2, <3>3 DEF InTurn, HolderCameFirst
    <3> QED
      BY <3>2, <3>4, <3>5 DEF Conflicting
  <2> QED
    BY <2>1, <2>3, <2>4 DEF Conflicting
<1> QED
  BY <1>1, InitHolds, StepKeeps, InitInTurn, StepKeepsTurn, PTL DEF IdsSpec

-----------------------------------------------------------------------------
(* The cache lock.                                                          *)

LockInv == LockTypeOK /\ NoDeadPromise

\* No promise is in the field at first.
LEMMA LockBegins == LockInit => LockInv
BY DEF LockInit, LockInv, LockTypeOK, NoDeadPromise

\* A call enters, or awaits what it found.
LEMMA LockCallKeeps ==
  ASSUME LockInv, NEW c \in Callers, UpdateCache(c) PROVE LockInv'
<1>1. CASE CallThrough(c)
  BY <1>1 DEF LockInv, LockTypeOK, NoDeadPromise, CallThrough, Enter
<1>2. CASE CallAwaits(c)
  BY <1>2 DEF LockInv, LockTypeOK, NoDeadPromise, CallAwaits
<1> QED
  BY <1>1, <1>2 DEF UpdateCache

\* A call goes on when the promise it awaited has settled.
LEMMA LockResumeKeeps ==
  ASSUME LockInv, NEW c \in Callers, Resume(c) PROVE LockInv'
BY DEF LockInv, LockTypeOK, NoDeadPromise, Resume, Enter

\* An update settles: its promise leaves the field or is settled there, and
\* those who await it are resumed.
LEMMA LockSettleKeeps ==
  ASSUME LockInv, NEW u \in Callers, Settle(u) PROVE LockInv'
<1>1. CASE Succeed(u)
  BY <1>1 DEF LockInv, LockTypeOK, NoDeadPromise, Succeed, Wake
<1>2. CASE Fail(u)
  BY <1>2 DEF LockInv, LockTypeOK, NoDeadPromise, Fail, Wake
<1> QED
  BY <1>1, <1>2 DEF Settle

\* Every step of #updateCache keeps dead promises out of the field.
LEMMA LockStepKeeps == LockInv /\ [LockNext]_lockVars => LockInv'
<1>1. LockInv /\ UNCHANGED lockVars => LockInv'
  BY DEF LockInv, lockVars, LockTypeOK, NoDeadPromise
<1> QED
  BY <1>1, LockCallKeeps, LockResumeKeeps, LockSettleKeeps DEF LockNext

\* What a call to #updateCache finds in the field, or is awaiting, belongs to an
\* update that is pending or has settled (parallel.ts:337-347).
THEOREM NoCallAwaitsInVain == LockSpec => []NoDeadPromise
<1>1. LockInv => NoDeadPromise
  BY DEF LockInv
<1> QED
  BY <1>1, LockBegins, LockStepKeeps, PTL DEF LockSpec

-----------------------------------------------------------------------------
(* The queue of executions.                                                 *)

QueueInv ==
  /\ TypeOK
  /\ ActiveCountsRunning
  /\ NoIdlePlace
  /\ OnePlaceEach

\* An empty queue runs nothing.
LEMMA QueueBegins == Init => QueueInv
<1> SUFFICES ASSUME Init PROVE QueueInv
  OBVIOUS
<1>1. /\ <<>> \in Seq(Tasks)
      /\ ToSet(<<>>) = {}
      /\ IsInjective(<<>>)
  BY EmptyQueue
<1>2. 0 \in 0..MaxTasks
  BY MaxTasksAssumption
<1>3. IsFiniteSet({}) /\ Cardinality({}) = 0
  BY FS_EmptySet
<1> QED
  BY <1>1, <1>2, <1>3
     DEF Init, QueueInv, TypeOK, ActiveCountsRunning, NoIdlePlace, OnePlaceEach

\* Tasks that arrive together: those admitted fill places that were free.
LEMMA ArrivalsKeep ==
  ASSUME QueueInv, NEW s \in SetToAllKPermutations(Unseen), RunAll(s)
  PROVE  QueueInv'
<1> DEFINE k     == Admitted(Len(s))
           first == { s[i] : i \in 1..k }
           rest  == SubSeq(s, k + 1, Len(s))
<1>1. /\ s \in Seq(Unseen) /\ s \in Seq(Tasks)
      /\ IsInjective(s)
      /\ ToSet(s) \subseteq Unseen
  <2>1. IsFiniteSet(Unseen) /\ Unseen \subseteq Tasks
    BY TasksAssumption, FS_Subset DEF Unseen
  <2> QED
    BY <2>1, BatchOfArrivals, SeqMonotonic, ElementsByIndex
<1>2. /\ Len(s) \in Nat
      /\ activeTasks \in 0..MaxTasks
      /\ MaxTasks \in Nat
  BY <1>1, LenProperties, MaxTasksAssumption DEF QueueInv, TypeOK
<1>3. /\ k \in 0..Len(s)
      /\ activeTasks + k \in 0..MaxTasks
      /\ k < Len(s) => activeTasks + k = MaxTasks
      /\ activeTasks = MaxTasks => k = 0
  BY <1>2 DEF Admitted, Smaller
<1> HIDE DEF k, first, rest
<1>4. /\ IsFiniteSet(first) /\ Cardinality(first) = k
      /\ first \subseteq ToSet(s)
      /\ rest \in Seq(Tasks)
      /\ IsInjective(rest)
      /\ ToSet(rest) = ToSet(s) \ first
      /\ Len(rest) = Len(s) - k
  <2>1. \A n \in 0..Len(s) :
          /\ IsFiniteSet({ s[i] : i \in 1..n })
          /\ Cardinality({ s[i] : i \in 1..n }) = n
          /\ { s[i] : i \in 1..n } \subseteq ToSet(s)
          /\ SubSeq(s, n + 1, Len(s)) \in Seq(Tasks)
          /\ IsInjective(SubSeq(s, n + 1, Len(s)))
          /\ ToSet(SubSeq(s, n + 1, Len(s))) = ToSet(s) \ { s[i] : i \in 1..n }
          /\ Len(SubSeq(s, n + 1, Len(s))) = Len(s) - n
    BY <1>1, SplitBatch
  <2> QED
    BY <1>3, <2>1 DEF first, rest
<1>5. /\ activeTasks' = activeTasks + k
      /\ running' = running \union first
      /\ queue' = queue \o rest
      /\ settled' = settled
  BY DEF RunAll, TakePlaces, k, first, rest
<1>6. /\ queue \in Seq(Tasks)
      /\ IsInjective(queue)
      /\ ToSet(queue) \intersect ToSet(rest) = {}
      /\ ToSet(queue) \intersect ToSet(s) = {}
      /\ running \intersect ToSet(s) = {}
      /\ settled \intersect ToSet(s) = {}
  BY <1>1, <1>4 DEF QueueInv, TypeOK, OnePlaceEach, Unseen
<1>7. /\ queue \o rest \in Seq(Tasks)
      /\ IsInjective(queue \o rest)
      /\ ToSet(queue \o rest) = ToSet(queue) \union ToSet(rest)
      /\ Len(queue \o rest) = Len(queue) + Len(rest)
  BY <1>4, <1>6, JoinQueues
<1>8. TypeOK'
  <2>1. running' \subseteq Tasks
    BY <1>1, <1>4, <1>5, ElementsByIndex DEF QueueInv, TypeOK
  <2> QED
    BY <1>3, <1>5, <1>7, <2>1 DEF QueueInv, TypeOK
<1>9. ActiveCountsRunning'
  <2>1. running \intersect first = {}
    BY <1>4, <1>6
  <2>2. /\ IsFiniteSet(running \union first)
        /\ Cardinality(running \union first) = Cardinality(running) + k
    BY <1>4, <2>1, GrowsBy DEF QueueInv, ActiveCountsRunning
  <2> QED
    BY <1>5, <2>2 DEF QueueInv, ActiveCountsRunning
<1>10. NoIdlePlace'
  <2>1. CASE queue # <<>>
    BY <1>2, <1>3, <1>5, <2>1 DEF QueueInv, NoIdlePlace
  <2>2. CASE queue = <<>>
    <3>1. ASSUME queue' # <<>> PROVE k < Len(s)
      <4>1. Len(queue') \in Nat \ {0}
        BY <1>5, <1>7, <3>1, EmptySeq
      <4>2. Len(queue) = 0
        BY <2>2, EmptySeq
      <4> QED
        BY <1>2, <1>3, <1>4, <1>5, <1>7, <4>1, <4>2
    <3> QED
      BY <1>3, <1>5, <3>1 DEF NoIdlePlace
  <2> QED
    BY <2>1, <2>2
<1>11. OnePlaceEach'
  BY <1>4, <1>5, <1>6, <1>7 DEF QueueInv, OnePlaceEach
<1> QED
  BY <1>8, <1>9, <1>10, <1>11 DEF QueueInv

\* A task that settles hands its place to the head of the queue.
LEMMA SettlingKeeps ==
  ASSUME QueueInv, NEW t \in Tasks, Finally(t)
  PROVE  QueueInv'
<1>1. /\ queue \in Seq(Tasks)
      /\ IsInjective(queue)
      /\ IsFiniteSet(running)
      /\ activeTasks = Cardinality(running)
      /\ activeTasks \in 0..MaxTasks
      /\ MaxTasks \in Nat
      /\ t \in running
      /\ settled' = settled \union {t}
  BY MaxTasksAssumption
     DEF QueueInv, TypeOK, ActiveCountsRunning, OnePlaceEach, Finally
<1>2. /\ IsFiniteSet(running \ {t})
      /\ Cardinality(running \ {t}) = activeTasks - 1
  BY <1>1, FS_RemoveElement
<1>3. activeTasks - 1 \in 0..MaxTasks
  <2>1. Cardinality(running \ {t}) \in Nat
    BY <1>2, FS_CardinalityType
  <2> QED
    BY <1>1, <1>2, <2>1
<1>4. CASE queue # <<>>
  <2>1. /\ Head(queue) \in ToSet(queue)
        /\ Tail(queue) \in Seq(Tasks)
        /\ IsInjective(Tail(queue))
        /\ ToSet(Tail(queue)) = ToSet(queue) \ {Head(queue)}
    BY <1>1, <1>4, ServeHead
  <2>2. /\ queue' = Tail(queue)
        /\ running' = (running \ {t}) \union {Head(queue)}
        /\ activeTasks' = activeTasks
    BY <1>4 DEF Finally, HandOn, Called
  <2>3. Head(queue) \in Tasks /\ Head(queue) \notin running
    BY <1>1, <2>1, ElementsByIndex DEF QueueInv, OnePlaceEach
  <2>4. /\ IsFiniteSet((running \ {t}) \union {Head(queue)})
        /\ Cardinality((running \ {t}) \union {Head(queue)}) = activeTasks
    <3>1. IsFiniteSet({Head(queue)}) /\ Cardinality({Head(queue)}) = 1
      BY FS_Singleton
    <3>2. (running \ {t}) \intersect {Head(queue)} = {}
      BY <2>3
    <3>3. /\ IsFiniteSet((running \ {t}) \union {Head(queue)})
          /\ Cardinality((running \ {t}) \union {Head(queue)})
               = Cardinality(running \ {t}) + Cardinality({Head(queue)})
      BY <1>2, <3>1, <3>2, GrowsBy
    <3> QED
      BY <1>1, <1>2, <3>1, <3>3
  <2>5. TypeOK'
    BY <1>1, <2>1, <2>2, <2>3 DEF QueueInv, TypeOK
  <2>6. ActiveCountsRunning'
    BY <2>2, <2>4 DEF ActiveCountsRunning
  <2>7. NoIdlePlace'
    BY <1>4, <2>2 DEF QueueInv, NoIdlePlace
  <2>8. OnePlaceEach'
    BY <1>1, <2>1, <2>2 DEF QueueInv, OnePlaceEach
  <2> QED
    BY <2>5, <2>6, <2>7, <2>8 DEF QueueInv
<1>5. CASE queue = <<>>
  <2>1. /\ queue' = <<>>
        /\ activeTasks' = activeTasks - 1
        /\ running' = running \ {t}
    BY <1>5 DEF Finally, HandOn, Called
  <2>2. ToSet(queue) = {}
    BY <1>1, <1>5, ElementsByIndex
  <2>3. TypeOK'
    BY <1>1, <1>3, <1>5, <2>1 DEF QueueInv, TypeOK
  <2>4. ActiveCountsRunning' /\ NoIdlePlace'
    BY <1>2, <2>1 DEF ActiveCountsRunning, NoIdlePlace
  <2>5. OnePlaceEach'
    BY <1>1, <1>5, <2>1, <2>2 DEF QueueInv, OnePlaceEach
  <2> QED
    BY <2>3, <2>4, <2>5 DEF QueueInv
<1> QED
  BY <1>4, <1>5

\* Nothing changes while nothing happens.
LEMMA QueueStutterKeeps == QueueInv /\ UNCHANGED vars => QueueInv'
BY DEF QueueInv, vars, TypeOK, ActiveCountsRunning, NoIdlePlace, OnePlaceEach

\* Every call of runTask and every end of a task keeps the counts.
LEMMA QueueStepKeeps == QueueInv /\ [Next]_vars => QueueInv'
BY ArrivalsKeep, SettlingKeeps, QueueStutterKeeps DEF Next

\* activeTasks is the number of running tasks, at most maxTasks of them run,
\* and a task waits only while maxTasks others run (queue.ts:28).
THEOREM PlacesAreCounted ==
  Spec => [](ActiveCountsRunning /\ NoIdlePlace /\ TypeOK)
<1>1. QueueInv => ActiveCountsRunning /\ NoIdlePlace /\ TypeOK
  BY DEF QueueInv
<1> QED
  BY <1>1, QueueBegins, QueueStepKeeps, PTL DEF Spec

\* A task is waiting once, running or settled, never two of these.
THEOREM TasksAreInOnePlace == Spec => []OnePlaceEach
<1>1. QueueInv => OnePlaceEach
  BY DEF QueueInv
<1> QED
  BY <1>1, QueueBegins, QueueStepKeeps, PTL DEF Spec

\* A task that starts while others wait is the one that has waited longest.
THEOREM NobodyOvertakes == Spec => NoOvertaking
<1>1. QueueInv /\ [Next]_vars
        => [ queue # <<>> => (running' \ running) \subseteq {Head(queue)} ]_vars
  <2> SUFFICES ASSUME QueueInv, Next, queue # <<>>
               PROVE  (running' \ running) \subseteq {Head(queue)}
    OBVIOUS
  <2>1. CASE \E s \in SetToAllKPermutations(Unseen) \ {<<>>} : RunAll(s)
    <3>1. PICK s : RunAll(s)
      BY <2>1
    <3>2. activeTasks = MaxTasks /\ MaxTasks \in Nat
      BY MaxTasksAssumption DEF QueueInv, NoIdlePlace
    <3>3. Admitted(Len(s)) = 0
      BY <3>2 DEF Admitted
    <3> QED
      BY <3>1, <3>3 DEF RunAll, TakePlaces
  <2>2. CASE \E t \in Tasks : Finally(t)
    BY <2>2 DEF Finally, Called
  <2> QED
    BY <2>1, <2>2 DEF Next
<1> QED
  BY <1>1, QueueBegins, QueueStepKeeps, PTL DEF Spec, NoOvertaking

\* The counter and the list of thunks implement the service of TaskService:
\* each batch of arrivals and each hand-over is a step of it.
THEOREM ImplementsService == Spec => ServiceSpec
<1>1. Init => Service!Init
  BY DEF Init, Service!Init
<1>2. QueueInv /\ [Next]_vars => [Service!Next]_<<queue, running, settled>>
  <2> SUFFICES ASSUME QueueInv, Next PROVE Service!Next
    BY DEF vars
  <2>1. CASE \E s \in SetToAllKPermutations(Unseen) \ {<<>>} : RunAll(s)
    <3>1. PICK s \in SetToAllKPermutations(Unseen) : RunAll(s)
      BY <2>1
    <3>2. Len(s) \in Nat
      <4>1. IsFiniteSet(Unseen)
        BY TasksAssumption, FS_Subset DEF Unseen
      <4> QED
        BY <4>1, BatchOfArrivals, LenProperties
    <3>3. Service!Cardinality(running) = Cardinality(running)
      BY DEF Service!Cardinality, Cardinality
    <3>4. Service!Smaller(Len(s), MaxTasks - Cardinality(running)) = Admitted(Len(s))
      BY <3>2, MaxTasksAssumption
         DEF QueueInv, TypeOK, ActiveCountsRunning, Admitted, Smaller, Service!Smaller
    <3>5. Service!Submit(s)
      BY <3>1, <3>3, <3>4 DEF RunAll, TakePlaces, Service!Submit
    <3>6. Service!Unseen = Unseen
      BY DEF Unseen, ToSet, Service!Unseen, Service!ToSet
    <3>7. s \in Service!SetToAllKPermutations(Service!Unseen)
      <4>1. PICK T \in SUBSET Unseen : s \in SetToSeqs(T)
        BY DEF SetToAllKPermutations
      <4>2. Service!Cardinality(T) = Cardinality(T)
        BY DEF Service!Cardinality, Cardinality
      <4>3. s \in Service!SetToSeqs(T)
        BY <4>1, <4>2 DEF SetToSeqs, Service!SetToSeqs
      <4> QED
        BY <3>6, <4>1, <4>3 DEF Service!SetToAllKPermutations
    <3> QED
      BY <3>5, <3>7 DEF Service!Next
  <2>2. CASE \E t \in Tasks : Finally(t)
    <3>1. PICK t \in Tasks : Finally(t)
      BY <2>2
    <3>2. Service!Finish(t)
      BY <3>1 DEF Finally, HandOn, Called, Service!Finish
    <3> QED
      BY <3>2 DEF Service!Next
  <2> QED
    BY <2>1, <2>2 DEF Next
<1> QED
  BY <1>1, <1>2, QueueBegins, QueueStepKeeps, PTL
     DEF Spec, ServiceSpec, Service!Spec, Service!vars
=============================================================================
