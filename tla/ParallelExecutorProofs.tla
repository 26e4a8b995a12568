----------------------- MODULE ParallelExecutorProofs -----------------------
(***************************************************************************)
(* For any calls, objects, sizes and faults: the executor implements the   *)
(* object locks, its two queues and the cache lock.  Each turn of a call   *)
(* does one of five things to the locks and queues, whatever else it does; *)
(* the invariant relates the place of every call to the queues it is in    *)
(* and to the await of the lock it is at.                                  *)
(***************************************************************************)
EXTENDS ParallelExecutor, CollectionLemmas

PartsP == INSTANCE ParallelPartsProofs WITH
  phase <- LockPhase, Callers <- CallSites, Updaters <- UpdateSites,
  Tasks <- Txs, MaxTasks <- MaxPoolSize, queue <- executeQueue,
  running <- At(Executing), settled <- At({"done"})

BuildP == INSTANCE SerialQueueProofs WITH
  Tasks <- Txs, queue <- buildQueue,
  started <- At(Building), settled <- At(AfterBuild \union {"done"})

scheduling == <<pc, lockVars, taskVars, buildQueue>>

-----------------------------------------------------------------------------
(* What a step does to the locks and the queues.                            *)

\* A call goes on within the same stage of its life.
GoesOn(t) ==
  /\ \E to \in PCs :
       /\ Move(t, to)
       /\ \/ pc[t] \in Building /\ to \in Building
          \/ pc[t] \in AfterBuild \ {"freeing"} /\ to \in AfterBuild \ {"freeing"}
          \/ pc[t] = "new" /\ to = "refused"
  /\ UNCHANGED <<callVars, buildQueue>>

\* Its build task settles.
LeavesBuild(t) ==
  /\ pc[t] \in Building
  /\ \E to \in {"sign", "caught"} : LeaveBuild(t, to)
  /\ UNCHANGED callVars

\* It has its object ids, or waits for them.
Joins(t, used) ==
  /\ pc[t] = "new"
  /\ IF Locks!Held(used) = {}
     THEN MoveAndPlace(t, "queued", <<t>>) /\ Dispatch(<<t>>)
     ELSE Move(t, "waiting") /\ UNCHANGED <<taskVars, buildQueue>>
  /\ Locks!TakeIds(t, used)

\* It passes its ids on.
PassesOn(t) ==
  /\ pc[t] \in {"sent", "unwind"}
  /\ \E s \in SetToSeqs(Woken(t)) : MoveAndPlace(t, "freeing", s) /\ Dispatch(s)
  /\ Locks!PassIds(t)

Turn(t) ==
  \/ GoesOn(t) \/ LeavesBuild(t) \/ PassesOn(t) \/ FreePlace(t)
  \/ \E used \in Footprints : Joins(t, used)

\* A step of a call, from its arrival on.
Acts(t) == Refuse(t) \/ (\E used \in Footprints : Arrive(t, used)) \/ CallStep(t)

\* A step of the environment.
Elsewhere ==
  \/ \E m \in inFlight : LandLate(m)
  \/ \E x \in Outside : OutsideUpdate(x)
  \/ \E c \in CallSites : SettleUpdate(c)

\* Each step of a call does one of five things to the parts.
LEMMA StepsAreTurns == ASSUME NEW t \in Txs, Acts(t) PROVE Turn(t)
<1> USE DEF Building, AfterBuild, Executing, PCs, callVars, lockVars, taskVars
<1>1. CASE Refuse(t)
  BY <1>1 DEF Refuse, GoesOn, Turn
<1>2. CASE \E used \in Footprints : Arrive(t, used)
  BY <1>2 DEF Arrive, Joins, Turn
<1>3. CASE Price(t)
  BY <1>3 DEF Price, CallUpdate, Waits, GoesOn, Turn
<1>4. CASE ResumeUpdate(t)
  BY <1>4 DEF ResumeUpdate, Waits, GoesOn, Turn
<1>5. CASE TakePooledCoin(t)
  BY <1>5 DEF TakePooledCoin, CountPending, GoesOn, Turn
<1>6. CASE FindPoolEmpty(t)
  BY <1>6 DEF FindPoolEmpty, CountPending, StartRefill, CallUpdate, Waits, BuildFails,
              LeavesBuild, GoesOn, Turn
<1>7. CASE FetchSources(t)
  BY <1>7 DEF FetchSources, CallUpdate, Waits, GoesOn, Turn
<1>8. CASE SendRefill(t)
  BY <1>8 DEF SendRefill, GoesOn, Turn
<1>9. CASE RefillAnswered(t)
  BY <1>9 DEF RefillAnswered, GoesOn, Turn
<1>10. CASE RefillRefused(t)
  BY <1>10 DEF RefillRefused, BuildFails, LeavesBuild, Turn
<1>11. CASE RefillConfirmed(t)
  BY <1>11 DEF RefillConfirmed, BuildFails, LeavesBuild, GoesOn, Turn
<1>12. CASE Resolve(t)
  BY <1>12 DEF Resolve, LeavesBuild, Turn
<1>13. CASE BuildRejects(t)
  BY <1>13 DEF BuildRejects, BuildAwaits, BuildFails, LeavesBuild, Turn
<1>14. CASE Send(t)
  BY <1>14 DEF Send, GoesOn, Turn
<1>15. CASE Answered(t)
  BY <1>15 DEF Answered, Finish, PassesOn, Turn
<1>16. CASE SendRejects(t)
  BY <1>16 DEF SendRejects, GoesOn, Turn
<1>17. CASE Catch(t)
  BY <1>17 DEF Catch, CallUpdate, Waits, GoesOn, Turn
<1>18. CASE Unwind(t)
  BY <1>18 DEF Unwind, Finish, PassesOn, Turn
<1>19. CASE FreePlace(t)
  BY <1>19 DEF Turn
<1> QED
  BY <1>1, <1>2, <1>3, <1>4, <1>5, <1>6, <1>7, <1>8, <1>9, <1>10, <1>11, <1>12, <1>13, <1>14,
     <1>15, <1>16, <1>17, <1>18, <1>19 DEF CallStep, Acts

\* The environment does nothing to them.
LEMMA ElsewhereIsNoTurn == ASSUME Elsewhere PROVE UNCHANGED scheduling
BY DEF Elsewhere, LandLate, OutsideUpdate, SettleUpdate, scheduling, callVars

-----------------------------------------------------------------------------
(* The locks and the queues take steps of their own modules.                *)

\* Each queue lists the calls whose place is in it.
QueuesList ==
  /\ ToSet(executeQueue) = At({"queued"})
  /\ ToSet(buildQueue) = At({"inLine"} \union Building)

Scheduled ==
  /\ pc \in [Txs -> PCs]
  /\ QueuesList
  /\ PartsP!IInv /\ PartsP!QueueInv /\ BuildP!IInv

\* The other calls stay where they are, or come closer to the head of a queue.
OthersQueue(t) ==
  \A u \in Txs \ {t} :
    \/ pc'[u] = pc[u]
    \/ pc[u] \in {"waiting", "queued", "inLine"} /\ pc'[u] \in {"queued", "inLine", "price"}

PartsStep ==
  /\ [Locks!IdsNext]_(Locks!idVars)
  /\ [ExecQ!Next]_(ExecQ!vars)
  /\ [BuildQ!SerialNext]_(BuildQ!serialVars)

\* What the invariants of the parts say in the terms of the executor.
LEMMA PartsSay ==
  ASSUME Scheduled
  PROVE  /\ executeQueue \in Seq(Txs) /\ IsInjective(executeQueue)
         /\ activeTasks \in 0..MaxPoolSize
         /\ activeTasks = Cardinality(At(Executing))
         /\ buildQueue \in Seq(Txs) /\ IsInjective(buildQueue)
         /\ At(Building) = IF buildQueue = <<>> THEN {} ELSE {Head(buildQueue)}
         /\ \A t \in Txs : pc[t] = "waiting" <=> conflicts[t] # {}
<1>1. /\ executeQueue \in Seq(Txs) /\ IsInjective(executeQueue)
      /\ activeTasks \in 0..MaxPoolSize
  BY DEF Scheduled, PartsP!QueueInv, PartsP!TypeOK, PartsP!OnePlaceEach, PartsP!IsInjective,
         IsInjective
<1>2. activeTasks = Cardinality(At(Executing))
  BY DEF Scheduled, PartsP!QueueInv, PartsP!ActiveCountsRunning, PartsP!Cardinality, Cardinality
<1>3. /\ buildQueue \in Seq(Txs) /\ IsInjective(buildQueue)
      /\ At(Building) = IF buildQueue = <<>> THEN {} ELSE {Head(buildQueue)}
  BY DEF Scheduled, BuildP!IInv, BuildP!SerialTypeOK, BuildP!OnePlaceEach, BuildP!HeadRuns,
         BuildP!Call, BuildP!IsInjective, IsInjective
<1>4. \A t \in Txs : pc[t] = "waiting" <=> conflicts[t] # {}
  BY DEF Scheduled, PartsP!IInv, PartsP!WaitingForSomething, LockPhase
<1> QED
  BY <1>1, <1>2, <1>3, <1>4

\* A call that stays in its stage touches none of the parts.
LEMMA GoingOn ==
  ASSUME Scheduled, NEW t \in Txs, GoesOn(t)
  PROVE  PartsStep /\ QueuesList' /\ pc' \in [Txs -> PCs] /\ OthersQueue(t)
<1>1. PICK to \in PCs :
        /\ Move(t, to)
        /\ \/ pc[t] \in Building /\ to \in Building
           \/ pc[t] \in AfterBuild \ {"freeing"} /\ to \in AfterBuild \ {"freeing"}
           \/ pc[t] = "new" /\ to = "refused"
  BY DEF GoesOn
<1>2. /\ pc \in [Txs -> PCs]
      /\ pc' = [pc EXCEPT ![t] = to]
      /\ UNCHANGED <<lockVars, taskVars, buildQueue>>
  BY <1>1 DEF Scheduled, GoesOn, Move, callVars
<1>3. LockPhase' = LockPhase
  BY <1>1, <1>2 DEF LockPhase, Building, AfterBuild
<1>4. /\ At(Executing)' = At(Executing)
      /\ At({"done"})' = At({"done"})
      /\ At(Building)' = At(Building)
      /\ At(AfterBuild \union {"done"})' = At(AfterBuild \union {"done"})
      /\ At({"queued"})' = At({"queued"})
      /\ At({"inLine"} \union Building)' = At({"inLine"} \union Building)
  BY <1>1, <1>2 DEF At, Executing, Building, AfterBuild
<1>5. PartsStep
  BY <1>2, <1>3, <1>4
     DEF PartsStep, Locks!idVars, ExecQ!vars, BuildQ!serialVars, lockVars, taskVars
<1>6. QueuesList'
  BY <1>2, <1>4 DEF Scheduled, QueuesList, taskVars
<1>7. OthersQueue(t)
  BY <1>2 DEF OthersQueue
<1> QED
  BY <1>2, <1>5, <1>6, <1>7

\* A build task that settles is the head of its list, and calls the next one.
LEMMA LeavingBuild ==
  ASSUME Scheduled, NEW t \in Txs, LeavesBuild(t)
  PROVE  PartsStep /\ QueuesList' /\ pc' \in [Txs -> PCs] /\ OthersQueue(t)
<1>1. PICK to \in {"sign", "caught"} : LeaveBuild(t, to)
  BY DEF LeavesBuild
<1>2. /\ pc \in [Txs -> PCs] /\ pc[t] \in Building
      /\ UNCHANGED <<lockVars, taskVars>>
      /\ buildQueue' = Tail(buildQueue)
      /\ buildQueue \in Seq(Txs) /\ IsInjective(buildQueue)
      /\ At(Building) = IF buildQueue = <<>> THEN {} ELSE {Head(buildQueue)}
      /\ ToSet(buildQueue) = At({"inLine"} \union Building)
  BY <1>1, PartsSay DEF Scheduled, QueuesList, LeavesBuild, LeaveBuild, BuildQ!Shift, callVars
<1>3. buildQueue # <<>> /\ t = Head(buildQueue) /\ At(Building) = {t}
  BY <1>2 DEF At
<1>4. /\ Tail(buildQueue) \in Seq(Txs) /\ IsInjective(Tail(buildQueue))
      /\ ToSet(Tail(buildQueue)) = ToSet(buildQueue) \ {t}
      /\ Len(buildQueue) \in Nat \ {0}
      /\ Tail(buildQueue) = <<>> <=> Len(buildQueue) = 1
      /\ Len(buildQueue) > 1 => buildQueue[2] = Head(Tail(buildQueue))
  <2>1. /\ Tail(buildQueue) \in Seq(Txs) /\ IsInjective(Tail(buildQueue))
        /\ ToSet(Tail(buildQueue)) = ToSet(buildQueue) \ {t}
    BY <1>2, <1>3, ServeHead
  <2>2. /\ Len(buildQueue) \in Nat \ {0}
        /\ Len(Tail(buildQueue)) = Len(buildQueue) - 1
        /\ \A i \in 1..(Len(buildQueue) - 1) : Tail(buildQueue)[i] = buildQueue[i + 1]
    BY <1>2, <1>3, HeadTailProperties, EmptySeq
  <2>3. Tail(buildQueue) = <<>> <=> Len(buildQueue) = 1
    <3>1. Tail(buildQueue) = <<>> <=> Len(Tail(buildQueue)) = 0
      BY <2>1, EmptySeq
    <3> QED
      BY <2>2, <3>1
  <2>4. Len(buildQueue) > 1 => Head(Tail(buildQueue)) = Tail(buildQueue)[1]
    BY <2>1, <2>3, HeadTailProperties
  <2> QED
    BY <2>1, <2>2, <2>3, <2>4
<1> DEFINE next == IF Tail(buildQueue) = <<>> THEN {} ELSE {Head(Tail(buildQueue))}
<1>5. next \subseteq ToSet(buildQueue) \ {t}
  BY <1>4, ServeHead
<1>6. \A u \in Txs : /\ u = t => pc'[u] = to
                     /\ u \in next => pc'[u] = "price" /\ pc[u] = "inLine"
                     /\ u # t /\ u \notin next => pc'[u] = pc[u]
  <2>1. pc' = [u \in Txs |-> IF u = t THEN to
                            ELSE IF Len(buildQueue) > 1 /\ u = buildQueue[2]
                                 THEN "price" ELSE pc[u]]
    BY <1>1 DEF LeaveBuild
  <2>2. Len(buildQueue) > 1 <=> Tail(buildQueue) # <<>>
    BY <1>4
  <2>3. \A u \in next : pc[u] = "inLine"
    BY <1>2, <1>3, <1>5 DEF At, Building
  <2> QED
    BY <1>4, <1>5, <2>1, <2>2, <2>3
<1>7. pc' \in [Txs -> PCs]
  BY <1>1, <1>2 DEF LeaveBuild, PCs, Executing, Building, AfterBuild
<1>8. LockPhase' = LockPhase
  BY <1>2, <1>6 DEF LockPhase, Building
<1>9. /\ At(Executing)' = At(Executing)
      /\ At({"done"})' = At({"done"})
      /\ At({"queued"})' = At({"queued"})
      /\ At({"inLine"} \union Building)' = At({"inLine"} \union Building) \ {t}
      /\ At(Building)' = next
      /\ At(AfterBuild \union {"done"})' = At(AfterBuild \union {"done"}) \union {t}
  <2>1. \A u \in Txs : u # t => pc[u] \notin Building
    BY <1>3 DEF At
  <2>2. next \subseteq Txs
    BY <1>2, <1>5 DEF At
  <2> HIDE DEF next
  <2> QED
    BY <1>2, <1>6, <2>1, <2>2 DEF At, Executing, Building, AfterBuild
<1>10. BuildQ!Finally(t)
  BY <1>2, <1>3, <1>9 DEF BuildQ!Finally, BuildQ!Shift, BuildQ!Call, At
<1>11. PartsStep
  BY <1>2, <1>8, <1>9, <1>10
     DEF PartsStep, Locks!idVars, ExecQ!vars, BuildQ!SerialNext, lockVars, taskVars
<1>12. QueuesList'
  BY <1>2, <1>4, <1>9 DEF Scheduled, QueuesList, taskVars
<1>13. OthersQueue(t)
  BY <1>6 DEF OthersQueue
<1> QED
  BY <1>7, <1>11, <1>12, <1>13

\* Calls that reach the queues together: those admitted fill the places that are
\* free, and the first of these builds when nobody else does.
LEMMA Dispatching ==
  ASSUME Scheduled, NEW t \in Txs, NEW to, NEW s \in Seq(Txs), IsInjective(s),
         ToSet(s) \subseteq At({"new", "waiting"}),
         MoveAndPlace(t, to, s), Dispatch(s),
         \/ t \in ToSet(s)
         \/ pc[t] \in AfterBuild \ {"freeing"} /\ to = "freeing"
  PROVE  /\ [ExecQ!Next]_(ExecQ!vars)
         /\ [BuildQ!SerialNext]_(BuildQ!serialVars)
         /\ QueuesList'
         /\ pc' \in [Txs -> PCs]
         /\ \A u \in ToSet(s) : pc'[u] \in {"queued", "price", "inLine"}
         /\ \A u \in Txs \ ToSet(s) : pc'[u] = IF u = t THEN to ELSE pc[u]
<1> DEFINE k     == ExecQ!Admitted(Len(s))
           first == { s[i] : i \in 1..k }
           enter == SubSeq(s, 1, k)
           rest  == SubSeq(s, k + 1, Len(s))
           builder == IF k # 0 /\ buildQueue = <<>> THEN {s[1]} ELSE {}
<1>1. /\ executeQueue \in Seq(Txs) /\ IsInjective(executeQueue)
      /\ activeTasks \in 0..MaxPoolSize
      /\ buildQueue \in Seq(Txs) /\ IsInjective(buildQueue)
      /\ At(Building) = IF buildQueue = <<>> THEN {} ELSE {Head(buildQueue)}
      /\ pc \in [Txs -> PCs]
      /\ ToSet(executeQueue) = At({"queued"})
      /\ ToSet(buildQueue) = At({"inLine"} \union Building)
  BY PartsSay DEF Scheduled, QueuesList
<1>2. /\ Len(s) \in Nat /\ DOMAIN s = 1..Len(s)
      /\ \A i, j \in 1..Len(s) : s[i] = s[j] => i = j
      /\ ToSet(s) = { s[i] : i \in 1..Len(s) }
      /\ ToSet(s) \subseteq Txs
  BY ElementsByIndex, LenProperties DEF IsInjective
<1>3. k \in 0..Len(s)
  BY <1>1, <1>2, SizesAssumption DEF ExecQ!Admitted, ExecQ!Smaller
<1>4. /\ activeTasks' = activeTasks + k
      /\ executeQueue' = executeQueue \o rest
      /\ buildQueue' = buildQueue \o enter
  BY DEF Dispatch, ExecQ!TakePlaces, BuildQ!PushAll
<1>5. pc' = [u \in Txs |-> IF u \in ToSet(s) THEN Place(s, u)
                          ELSE IF u = t THEN to ELSE pc[u]]
  BY DEF MoveAndPlace
<1>6. \A i \in 1..Len(s) :
        Place(s, s[i]) = IF i > k THEN "queued"
                         ELSE IF i = 1 /\ buildQueue = <<>> THEN "price" ELSE "inLine"
  <2> SUFFICES ASSUME NEW i \in 1..Len(s)
               PROVE  Place(s, s[i]) = IF i > k THEN "queued"
                         ELSE IF i = 1 /\ buildQueue = <<>> THEN "price" ELSE "inLine"
    OBVIOUS
  <2>1. (CHOOSE j \in DOMAIN s : s[j] = s[i]) = i
    BY <1>2
  <2> HIDE DEF k
  <2> QED
    BY <2>1 DEF Place, k
<1> HIDE DEF k
<1>7. /\ enter \in Seq(Txs) /\ IsInjective(enter) /\ ToSet(enter) = first
      /\ k = 0 <=> enter = <<>>
      /\ k # 0 => Head(enter) = s[1]
      /\ rest \in Seq(Txs) /\ IsInjective(rest) /\ ToSet(rest) = ToSet(s) \ first
      /\ first \subseteq ToSet(s)
      /\ k = 0 => first = {}
      /\ k # 0 => s[1] \in first
  <2>1. \A n \in 0..Len(s) :
          /\ SubSeq(s, 1, n) \in Seq(Txs)
          /\ Len(SubSeq(s, 1, n)) = n
          /\ \A i \in 1..n : SubSeq(s, 1, n)[i] = s[i]
          /\ IsInjective(SubSeq(s, 1, n))
          /\ ToSet(SubSeq(s, 1, n)) = { s[i] : i \in 1..n }
          /\ n = 0 <=> SubSeq(s, 1, n) = <<>>
          /\ n # 0 => Head(SubSeq(s, 1, n)) = s[1]
    BY FirstOfBatch
  <2>2. \A n \in 0..Len(s) :
          /\ IsFiniteSet({ s[i] : i \in 1..n })
          /\ Cardinality({ s[i] : i \in 1..n }) = n
          /\ { s[i] : i \in 1..n } \subseteq ToSet(s)
          /\ SubSeq(s, n + 1, Len(s)) \in Seq(Txs)
          /\ IsInjective(SubSeq(s, n + 1, Len(s)))
          /\ ToSet(SubSeq(s, n + 1, Len(s))) = ToSet(s) \ { s[i] : i \in 1..n }
          /\ Len(SubSeq(s, n + 1, Len(s))) = Len(s) - n
    BY SplitBatch
  <2>3. k = 0 => first = {}
    BY <1>3
  <2>4. k # 0 => s[1] \in first
    BY <1>2, <1>3
  <2> QED
    BY <1>3, <2>1, <2>2, <2>3, <2>4
<1>8. /\ \A u \in ToSet(s) \ first : pc'[u] = "queued"
      /\ \A u \in builder : pc'[u] = "price"
      /\ \A u \in first \ builder : pc'[u] = "inLine"
      /\ \A u \in Txs \ ToSet(s) : pc'[u] = IF u = t THEN to ELSE pc[u]
      /\ builder \subseteq first
  <2>1. \A i \in 1..Len(s) : s[i] \in Txs /\ s[i] \in ToSet(s) /\ pc'[s[i]] = Place(s, s[i])
    BY <1>2, <1>5
  <2>2. \A u \in ToSet(s) \ first : pc'[u] = "queued"
    BY <1>2, <1>3, <1>6, <2>1
  <2>3. \A u \in builder : pc'[u] = "price"
    BY <1>2, <1>3, <1>6, <2>1
  <2>4. \A u \in first \ builder : pc'[u] = "inLine"
    BY <1>2, <1>3, <1>6, <2>1
  <2> QED
    BY <1>5, <1>7, <2>2, <2>3, <2>4
<1> HIDE DEF first, enter, rest, builder
<1>9. /\ pc' \in [Txs -> PCs]
      /\ \A u \in ToSet(s) : pc'[u] \in {"queued", "price", "inLine"}
  <2>1. \A u \in ToSet(s) : pc'[u] \in {"queued", "price", "inLine"}
    BY <1>8
  <2>2. t \notin ToSet(s) => to = "freeing"
    OBVIOUS
  <2>3. pc' = [u \in Txs |-> pc'[u]]
    BY <1>5
  <2>4. \A u \in Txs : pc'[u] \in PCs
    BY <1>1, <1>8, <2>1, <2>2 DEF PCs, Executing, Building, AfterBuild
  <2> QED
    BY <2>1, <2>3, <2>4
<1>10. /\ At(Executing)' = At(Executing) \union first
       /\ At({"done"})' = At({"done"})
       /\ At({"queued"})' = At({"queued"}) \union (ToSet(s) \ first)
       /\ At({"inLine"} \union Building)' = At({"inLine"} \union Building) \union first
       /\ At(Building)' = At(Building) \union builder
       /\ At(AfterBuild \union {"done"})' = At(AfterBuild \union {"done"})
  <2>1. \A u \in ToSet(s) : pc[u] \in {"new", "waiting"}
    BY DEF At
  <2>2. \A u \in Txs \ ToSet(s) :
          pc'[u] = pc[u] \/ (u = t /\ pc[u] \in AfterBuild \ {"freeing"} /\ pc'[u] = "freeing")
    BY <1>8
  <2>3. /\ first \subseteq Txs /\ builder \subseteq first /\ first \subseteq ToSet(s)
        /\ \A u \in Txs : u \in ToSet(s) =>
             pc'[u] = IF u \notin first THEN "queued"
                      ELSE IF u \in builder THEN "price" ELSE "inLine"
    BY <1>2, <1>7, <1>8
  <2>4. At(Executing)' = At(Executing) \union first /\ At({"done"})' = At({"done"})
    BY <2>1, <2>2, <2>3 DEF At, Executing, Building, AfterBuild
  <2>5. At({"queued"})' = At({"queued"}) \union (ToSet(s) \ first)
    BY <1>2, <2>1, <2>2, <2>3 DEF At, AfterBuild
  <2>6. /\ At({"inLine"} \union Building)' = At({"inLine"} \union Building) \union first
        /\ At(Building)' = At(Building) \union builder
    BY <2>1, <2>2, <2>3 DEF At, Building, AfterBuild
  <2>7. At(AfterBuild \union {"done"})' = At(AfterBuild \union {"done"})
    BY <2>1, <2>2, <2>3 DEF At, AfterBuild
  <2> QED
    BY <2>4, <2>5, <2>6, <2>7
<1>11. [ExecQ!Next]_(ExecQ!vars)
  <2>1. CASE s = <<>>
    <3>1. k = 0 /\ first = {} /\ rest = <<>>
      BY <1>2, <1>3, <1>7, <2>1, EmptySeq, ElementsByIndex
    <3>2. executeQueue' = executeQueue
      BY <1>1, <1>4, <3>1, ConcatEmptySeq
    <3> QED
      BY <1>1, <1>4, <1>10, <3>1, <3>2 DEF ExecQ!vars
  <2>2. CASE s # <<>>
    <3>1. ToSet(s) \subseteq ExecQ!Unseen
      BY <1>1, <1>2 DEF ExecQ!Unseen, ExecQ!ToSet, ToSet, At, Executing, Building, AfterBuild
    <3>2. s \in Seq(ExecQ!Unseen)
      BY <1>2, <3>1, SeqDef
    <3>3. s \in SetToAllKPermutations(ExecQ!Unseen)
      BY <3>2, DistinctIsBatch
    <3>4. s \in ExecQ!SetToAllKPermutations(ExecQ!Unseen)
      BY <3>3 DEF SetToAllKPermutations, SetToSeqs, Cardinality,
                  ExecQ!SetToAllKPermutations, ExecQ!SetToSeqs, ExecQ!Cardinality
    <3>5. ExecQ!RunAll(s)
      BY <1>4, <1>10 DEF ExecQ!RunAll, ExecQ!TakePlaces, k, first, rest
    <3> QED
      BY <2>2, <3>4, <3>5 DEF ExecQ!Next
  <2> QED
    BY <2>1, <2>2
<1>12. [BuildQ!SerialNext]_(BuildQ!serialVars)
  <2>1. CASE enter = <<>>
    <3>1. buildQueue' = buildQueue /\ builder = {}
      BY <1>1, <1>4, <1>7, <2>1, ConcatEmptySeq DEF builder
    <3> QED
      BY <1>10, <3>1 DEF BuildQ!serialVars
  <2>2. CASE enter # <<>>
    <3>1. first \subseteq BuildQ!Unseen
      BY <1>1, <1>2, <1>7 DEF BuildQ!Unseen, BuildQ!ToSet, ToSet, At, Building, AfterBuild
    <3>2. enter \in Seq(BuildQ!Unseen)
      <4>1. DOMAIN enter = 1..Len(enter) /\ Len(enter) \in Nat
        BY <1>7, LenProperties
      <4>2. \A i \in 1..Len(enter) : enter[i] \in first
        BY <1>7, <4>1 DEF ToSet
      <4>3. enter = [i \in 1..Len(enter) |-> enter[i]]
        BY <1>7, <4>1, SeqDef
      <4> QED
        BY <3>1, <4>1, <4>2, <4>3, SeqDef
    <3>3. enter \in SetToAllKPermutations(BuildQ!Unseen)
      BY <1>7, <3>2, DistinctIsBatch
    <3>4. enter \in BuildQ!SetToAllKPermutations(BuildQ!Unseen)
      BY <3>3 DEF SetToAllKPermutations, SetToSeqs, Cardinality,
                  BuildQ!SetToAllKPermutations, BuildQ!SetToSeqs, BuildQ!Cardinality
    <3>5. BuildQ!RunAll(enter)
      BY <1>4, <1>7, <1>10, <2>2 DEF BuildQ!RunAll, BuildQ!PushAll, BuildQ!Call, builder
    <3> QED
      BY <2>2, <3>4, <3>5 DEF BuildQ!SerialNext
  <2> QED
    BY <2>1, <2>2
<1>13. QueuesList'
  <2>1. ToSet(executeQueue') = ToSet(executeQueue) \union ToSet(rest)
    <3>1. ToSet(executeQueue) \intersect ToSet(rest) = {}
      BY <1>1, <1>7 DEF At
    <3>2. /\ executeQueue \o rest \in Seq(Txs)
          /\ IsInjective(executeQueue \o rest)
          /\ ToSet(executeQueue \o rest) = ToSet(executeQueue) \union ToSet(rest)
          /\ Len(executeQueue \o rest) = Len(executeQueue) + Len(rest)
      BY <1>1, <1>7, <3>1, JoinQueues
    <3> QED
      BY <1>4, <3>2
  <2>2. ToSet(buildQueue') = ToSet(buildQueue) \union first
    <3>1. ToSet(buildQueue) \intersect ToSet(enter) = {}
      BY <1>1, <1>7 DEF At, Building
    <3>2. /\ buildQueue \o enter \in Seq(Txs)
          /\ IsInjective(buildQueue \o enter)
          /\ ToSet(buildQueue \o enter) = ToSet(buildQueue) \union ToSet(enter)
          /\ Len(buildQueue \o enter) = Len(buildQueue) + Len(enter)
      <4>1. /\ buildQueue \in Seq(Txs) /\ IsInjective(buildQueue)
            /\ enter \in Seq(Txs) /\ IsInjective(enter)
        BY <1>1, <1>7
      <4> QED
        BY <3>1, <4>1, JoinQueues
    <3> QED
      BY <1>4, <1>7, <3>2
  <2> QED
    BY <1>1, <1>7, <1>10, <2>1, <2>2 DEF QueuesList
<1> QED
  BY <1>8, <1>9, <1>11, <1>12, <1>13

\* A call that arrives: it enqueues its ids and, without conflicts, itself.
LEMMA Joining ==
  ASSUME Scheduled, NEW t \in Txs, NEW used \in Footprints, Joins(t, used)
  PROVE  PartsStep /\ QueuesList' /\ pc' \in [Txs -> PCs] /\ OthersQueue(t)
<1>1. /\ pc \in [Txs -> PCs] /\ pc[t] = "new"
      /\ Locks!TakeIds(t, used)
  BY DEF Scheduled, Joins
<1>2. ASSUME Locks!Held(used) = {} 
      PROVE  PartsStep /\ QueuesList' /\ pc' \in [Txs -> PCs] /\ OthersQueue(t)
  <2>1. PICK s : s = <<t>>
    OBVIOUS
  <2>2. s \in Seq(Txs) /\ IsInjective(s) /\ ToSet(s) = {t}
    BY <2>1 DEF IsInjective, ToSet
  <2>3. /\ MoveAndPlace(t, "queued", s) /\ Dispatch(s)
        /\ ToSet(s) \subseteq At({"new", "waiting"})
    BY <1>1, <1>2, <2>1, <2>2 DEF Joins, At
  <2>4. /\ [ExecQ!Next]_(ExecQ!vars)
        /\ [BuildQ!SerialNext]_(BuildQ!serialVars)
        /\ QueuesList'
        /\ pc' \in [Txs -> PCs]
        /\ \A u \in ToSet(s) : pc'[u] \in {"queued", "price", "inLine"}
        /\ \A u \in Txs \ ToSet(s) : pc'[u] = IF u = t THEN "queued" ELSE pc[u]
    BY <2>2, <2>3, Dispatching
  <2>5. LockPhase' = [LockPhase EXCEPT ![t] = "admitted"] /\ LockPhase[t] = "new"
    BY <1>1, <2>2, <2>4 DEF LockPhase
  <2>6. Locks!Enqueue(t, used)
    BY <1>1, <1>2, <2>5 DEF Locks!Enqueue
  <2>7. OthersQueue(t)
    BY <2>2, <2>4 DEF OthersQueue
  <2> QED
    BY <2>4, <2>6, <2>7 DEF PartsStep, Locks!IdsNext
<1>3. ASSUME Locks!Held(used) # {} 
      PROVE  PartsStep /\ QueuesList' /\ pc' \in [Txs -> PCs] /\ OthersQueue(t)
  <2>1. pc' = [pc EXCEPT ![t] = "waiting"] /\ UNCHANGED <<taskVars, buildQueue>>
    BY <1>3 DEF Joins, Move
  <2>2. LockPhase' = [LockPhase EXCEPT ![t] = "waiting"] /\ LockPhase[t] = "new"
    BY <1>1, <2>1 DEF LockPhase
  <2>3. Locks!Enqueue(t, used)
    BY <1>1, <1>3, <2>2 DEF Locks!Enqueue
  <2>4. /\ At(Executing)' = At(Executing)
        /\ At({"done"})' = At({"done"})
        /\ At(Building)' = At(Building)
        /\ At(AfterBuild \union {"done"})' = At(AfterBuild \union {"done"})
        /\ At({"queued"})' = At({"queued"})
        /\ At({"inLine"} \union Building)' = At({"inLine"} \union Building)
    BY <1>1, <2>1 DEF At, Executing, Building, AfterBuild
  <2>5. PartsStep
    BY <2>1, <2>3, <2>4
       DEF PartsStep, Locks!IdsNext, ExecQ!vars, BuildQ!serialVars, taskVars
  <2>6. QueuesList' /\ pc' \in [Txs -> PCs]
    BY <1>1, <2>1, <2>4 DEF Scheduled, QueuesList, PCs, taskVars
  <2>7. OthersQueue(t)
    BY <2>1 DEF OthersQueue
  <2> QED
    BY <2>5, <2>6, <2>7
<1> QED
  BY <1>2, <1>3

\* A call that passes its ids on: those it held up reach the queues.
LEMMA PassingOn ==
  ASSUME Scheduled, NEW t \in Txs, PassesOn(t)
  PROVE  /\ PartsStep /\ QueuesList' /\ pc' \in [Txs -> PCs] /\ OthersQueue(t)
         /\ pc'[t] = "freeing"
<1>1. PICK s \in SetToSeqs(Woken(t)) : MoveAndPlace(t, "freeing", s) /\ Dispatch(s)
  BY DEF PassesOn
<1>2. /\ pc \in [Txs -> PCs] /\ pc[t] \in {"sent", "unwind"}
      /\ Locks!PassIds(t)
      /\ \A u \in Txs : pc[u] = "waiting" <=> conflicts[u] # {}
  BY PartsSay DEF Scheduled, PassesOn
<1>3. /\ Woken(t) = Locks!ReadyAfter(t)
      /\ Woken(t) \subseteq Txs /\ IsFiniteSet(Woken(t))
      /\ \A u \in Woken(t) : pc[u] = "waiting"
  <2>1. Woken(t) = Locks!ReadyAfter(t)
    BY DEF Woken
  <2>2. Woken(t) \subseteq Txs /\ \A u \in Woken(t) : conflicts[u] # {}
    BY <2>1 DEF Locks!ReadyAfter
  <2> QED
    BY <1>2, <2>1, <2>2, CallsAssumption, FS_Subset
<1>4. s \in Seq(Txs) /\ IsInjective(s) /\ ToSet(s) = Woken(t)
  BY <1>3, SequencesOfSet, SeqMonotonic
<1>5. /\ [ExecQ!Next]_(ExecQ!vars)
      /\ [BuildQ!SerialNext]_(BuildQ!serialVars)
      /\ QueuesList'
      /\ pc' \in [Txs -> PCs]
      /\ \A u \in ToSet(s) : pc'[u] \in {"queued", "price", "inLine"}
      /\ \A u \in Txs \ ToSet(s) : pc'[u] = IF u = t THEN "freeing" ELSE pc[u]
  <2>1. ToSet(s) \subseteq At({"new", "waiting"})
    BY <1>3, <1>4 DEF At
  <2>2. pc[t] \in AfterBuild \ {"freeing"}
    BY <1>2 DEF AfterBuild
  <2> QED
    BY <1>1, <1>4, <2>1, <2>2, Dispatching
<1>6. /\ LockPhase[t] = "admitted"
      /\ LockPhase' = [u \in Txs |-> IF u = t THEN "released"
                                     ELSE IF u \in Locks!ReadyAfter(t) THEN "admitted"
                                     ELSE LockPhase[u]]
  BY <1>2, <1>3, <1>4, <1>5 DEF LockPhase
<1>7. Locks!Release(t)
  BY <1>2, <1>6 DEF Locks!Release
<1>8. OthersQueue(t) /\ pc'[t] = "freeing"
  BY <1>2, <1>3, <1>4, <1>5 DEF OthersQueue
<1> QED
  BY <1>5, <1>7, <1>8 DEF PartsStep, Locks!IdsNext

\* A call that hands its place on: the one that has waited longest is next.
LEMMA Freeing ==
  ASSUME Scheduled, NEW t \in Txs, FreePlace(t)
  PROVE  PartsStep /\ QueuesList' /\ pc' \in [Txs -> PCs] /\ OthersQueue(t)
<1> DEFINE next == IF executeQueue = <<>> THEN <<>> ELSE <<Head(executeQueue)>>
<1>1. /\ executeQueue \in Seq(Txs) /\ IsInjective(executeQueue)
      /\ buildQueue \in Seq(Txs) /\ IsInjective(buildQueue)
      /\ At(Building) = IF buildQueue = <<>> THEN {} ELSE {Head(buildQueue)}
      /\ pc \in [Txs -> PCs] /\ pc[t] = "freeing"
      /\ ToSet(executeQueue) = At({"queued"})
      /\ ToSet(buildQueue) = At({"inLine"} \union Building)
  BY PartsSay DEF Scheduled, QueuesList, FreePlace
<1>2. /\ pc' = [u \in Txs |-> IF u = t THEN "done"
                              ELSE IF u \in ToSet(next)
                              THEN IF buildQueue = <<>> THEN "price" ELSE "inLine"
                              ELSE pc[u]]
      /\ ExecQ!HandOn
      /\ buildQueue' = buildQueue \o next
      /\ UNCHANGED lockVars
  BY DEF FreePlace, BuildQ!PushAll
<1>3. pc' \in [Txs -> PCs]
  BY <1>1, <1>2 DEF PCs, Executing, Building
<1>4. CASE executeQueue = <<>>
  <2>1. next = <<>> /\ ToSet(next) = {}
    BY <1>4, EmptyQueue
  <2>2. /\ pc' = [pc EXCEPT ![t] = "done"]
        /\ executeQueue' = executeQueue /\ activeTasks' = activeTasks - 1
        /\ buildQueue' = buildQueue
    BY <1>1, <1>2, <1>4, <2>1, ConcatEmptySeq DEF ExecQ!HandOn
  <2>3. LockPhase' = LockPhase
    BY <1>1, <2>2 DEF LockPhase
  <2>4. /\ At(Executing)' = At(Executing) \ {t}
        /\ At({"done"})' = At({"done"}) \union {t}
        /\ At(Building)' = At(Building)
        /\ At(AfterBuild \union {"done"})' = At(AfterBuild \union {"done"})
        /\ At({"queued"})' = At({"queued"})
        /\ At({"inLine"} \union Building)' = At({"inLine"} \union Building)
    BY <1>1, <2>2 DEF At, Executing, Building, AfterBuild
  <2>5. t \in At(Executing)
    BY <1>1 DEF At, Executing, AfterBuild
  <2>6. ExecQ!Finally(t)
    BY <1>2, <1>4, <2>4, <2>5 DEF ExecQ!Finally, ExecQ!Called
  <2>7. PartsStep
    BY <1>2, <2>2, <2>3, <2>4, <2>6
       DEF PartsStep, ExecQ!Next, Locks!idVars, BuildQ!serialVars, lockVars
  <2> QED
    BY <1>1, <1>3, <2>2, <2>4, <2>7 DEF QueuesList, OthersQueue
<1>5. CASE executeQueue # <<>>
  <2>1. PICK h \in Txs : h = Head(executeQueue)
    BY <1>1, <1>5, HeadTailProperties
  <2>2. /\ next = <<h>> /\ ToSet(next) = {h}
        /\ next \in Seq(Txs) /\ IsInjective(next) /\ next # <<>> /\ Head(next) = h
    BY <1>5, <2>1 DEF ToSet, IsInjective
  <2>3. /\ h \in ToSet(executeQueue)
        /\ Tail(executeQueue) \in Seq(Txs)
        /\ ToSet(Tail(executeQueue)) = ToSet(executeQueue) \ {h}
    BY <1>1, <1>5, <2>1, ServeHead
  <2>4. pc[h] = "queued"
    BY <1>1, <2>3 DEF At
  <2>5. /\ executeQueue' = Tail(executeQueue) /\ activeTasks' = activeTasks
        /\ \A u \in Txs : pc'[u] = IF u = t THEN "done"
                         ELSE IF u = h THEN IF buildQueue = <<>> THEN "price" ELSE "inLine"
                         ELSE pc[u]
        /\ h # t
    BY <1>1, <1>2, <1>5, <2>2, <2>4 DEF ExecQ!HandOn
  <2>6. LockPhase' = LockPhase
    BY <1>1, <2>4, <2>5 DEF LockPhase
  <2>7. /\ At(Executing)' = (At(Executing) \ {t}) \union {h}
        /\ At({"done"})' = At({"done"}) \union {t}
        /\ At({"queued"})' = At({"queued"}) \ {h}
    BY <1>1, <2>4, <2>5 DEF At, Executing, Building, AfterBuild
  <2>8. /\ At(Building)' = At(Building) \union (IF buildQueue = <<>> THEN {h} ELSE {})
        /\ At(AfterBuild \union {"done"})' = At(AfterBuild \union {"done"})
        /\ At({"inLine"} \union Building)' = At({"inLine"} \union Building) \union {h}
    BY <1>1, <2>4, <2>5 DEF At, Building, AfterBuild
  <2>9. t \in At(Executing)
    BY <1>1 DEF At, Executing, AfterBuild
  <2>10. ExecQ!Finally(t)
    BY <1>2, <1>5, <2>1, <2>7, <2>9 DEF ExecQ!Finally, ExecQ!Called
  <2>11. BuildQ!SerialNext
    <3>1. h \in BuildQ!Unseen
      BY <1>1, <2>4 DEF BuildQ!Unseen, BuildQ!ToSet, ToSet, At, Building, AfterBuild
    <3>2. next \in Seq(BuildQ!Unseen)
      BY <2>2, <3>1
    <3>3. next \in SetToAllKPermutations(BuildQ!Unseen)
      BY <2>2, <3>2, DistinctIsBatch
    <3>4. next \in BuildQ!SetToAllKPermutations(BuildQ!Unseen)
      BY <3>3 DEF SetToAllKPermutations, SetToSeqs, Cardinality,
                  BuildQ!SetToAllKPermutations, BuildQ!SetToSeqs, BuildQ!Cardinality
    <3>5. BuildQ!RunAll(next)
      BY <1>2, <2>2, <2>8 DEF BuildQ!RunAll, BuildQ!PushAll, BuildQ!Call
    <3> QED
      BY <2>2, <3>4, <3>5 DEF BuildQ!SerialNext
  <2>12. PartsStep
    BY <1>2, <2>6, <2>10, <2>11 DEF PartsStep, ExecQ!Next, Locks!idVars, lockVars
  <2>13. ToSet(buildQueue') = ToSet(buildQueue) \union {h}
    <3>1. buildQueue' = Append(buildQueue, h)
      BY <1>1, <1>2, <2>2, AppendIsConcat
    <3>2. h \notin ToSet(buildQueue)
      BY <1>1, <2>4 DEF At, Building
    <3> QED
      BY <1>1, <3>1, <3>2, JoinOne
  <2>14. OthersQueue(t)
    BY <2>4, <2>5 DEF OthersQueue
  <2> QED
    BY <1>1, <1>3, <2>3, <2>5, <2>7, <2>8, <2>12, <2>13, <2>14 DEF QueuesList
<1> QED
  BY <1>4, <1>5

-----------------------------------------------------------------------------
(* The parts as their own proofs know them.                                 *)

\* The executor satisfies what the proofs of the parts assume of their constants.
LEMMA AssumptionsOfParts ==
  /\ PartsP!TxsAssumption /\ PartsP!FootprintsAssumption /\ PartsP!CallersAssumption
  /\ PartsP!TasksAssumption /\ PartsP!MaxTasksAssumption
  /\ BuildP!IsFiniteSet(Txs)
<1>1. UpdateSites \subseteq CallSites
  BY DEF UpdateSites
<1>2. PartsP!CallersAssumption
  BY <1>1, PromisesAssumption DEF PartsP!CallersAssumption
<1> QED
  BY <1>2, CallsAssumption, SizesAssumption
     DEF PartsP!TxsAssumption, PartsP!FootprintsAssumption, PartsP!IsFiniteSet,
         PartsP!TasksAssumption, PartsP!MaxTasksAssumption,
         BuildP!IsFiniteSet, IsFiniteSet

\* The two names of each part, as the executor and as its proofs know it, stand
\* for the same states and steps.
LEMMA SameLocks ==
  /\ Locks!IdsInit <=> PartsP!IdsInit
  /\ [Locks!IdsNext]_(Locks!idVars) <=> [PartsP!IdsNext]_(PartsP!idVars)
BY DEF Locks!IdsInit, PartsP!IdsInit, Locks!IdsNext, PartsP!IdsNext, Locks!idVars,
       PartsP!idVars, Locks!Enqueue, PartsP!Enqueue, Locks!Release, PartsP!Release,
       Locks!TakeIds, PartsP!TakeIds, Locks!PassIds, PartsP!PassIds, Locks!Held,
       PartsP!Held, Locks!Arrived, PartsP!Arrived, Locks!Cardinality, PartsP!Cardinality,
       Locks!ReadyAfter, PartsP!ReadyAfter, Locks!PassedTo, PartsP!PassedTo,
       Locks!Contended, PartsP!Contended

\* The queue of executions is the one its proofs are about.
LEMMA SameExecuteQueue ==
  /\ ExecQ!Init <=> PartsP!Init
  /\ [ExecQ!Next]_(ExecQ!vars) <=> [PartsP!Next]_(PartsP!vars)
BY DEF ExecQ!Init, PartsP!Init, ExecQ!Next, PartsP!Next, ExecQ!vars, PartsP!vars,
       ExecQ!RunAll, PartsP!RunAll, ExecQ!TakePlaces, PartsP!TakePlaces, ExecQ!Admitted,
       PartsP!Admitted, ExecQ!Smaller, PartsP!Smaller, ExecQ!Finally, PartsP!Finally,
       ExecQ!HandOn, PartsP!HandOn, ExecQ!Called, PartsP!Called, ExecQ!Unseen, PartsP!Unseen,
       ExecQ!ToSet, PartsP!ToSet, ExecQ!SetToAllKPermutations, PartsP!SetToAllKPermutations,
       ExecQ!SetToSeqs, PartsP!SetToSeqs, ExecQ!Cardinality, PartsP!Cardinality

\* The queue of builds is the one its proofs are about.
LEMMA SameBuildQueue ==
  /\ BuildQ!SerialInit <=> BuildP!SerialInit
  /\ [BuildQ!SerialNext]_(BuildQ!serialVars) <=> [BuildP!SerialNext]_(BuildP!serialVars)
BY DEF BuildQ!SerialInit, BuildP!SerialInit, BuildQ!SerialNext, BuildP!SerialNext,
       BuildQ!serialVars, BuildP!serialVars, BuildQ!RunAll, BuildP!RunAll, BuildQ!PushAll,
       BuildP!PushAll, BuildQ!Call, BuildP!Call, BuildQ!Finally, BuildP!Finally,
       BuildQ!Shift, BuildP!Shift, BuildQ!Unseen, BuildP!Unseen, BuildQ!ToSet,
       BuildP!ToSet, BuildQ!SetToAllKPermutations, BuildP!SetToAllKPermutations,
       BuildQ!SetToSeqs, BuildP!SetToSeqs, BuildQ!Cardinality, BuildP!Cardinality

\* The executor begins where its parts do.
LEMMA PartsBegin ==
  ASSUME Init
  PROVE  /\ Locks!IdsInit /\ ExecQ!Init /\ BuildQ!SerialInit
         /\ Scheduled
<1>1. /\ pc = [t \in Txs |-> "new"]
      /\ executeQueue = <<>> /\ activeTasks = 0 /\ buildQueue = <<>>
  BY DEF Init
<1>2. /\ At(Executing) = {} /\ At({"done"}) = {} /\ At(Building) = {}
      /\ At(AfterBuild \union {"done"}) = {} /\ At({"queued"}) = {}
      /\ At({"inLine"} \union Building) = {}
  BY <1>1 DEF At, Executing, Building, AfterBuild
<1>3. Locks!IdsInit
  BY DEF Init, Locks!IdsInit, LockPhase
<1>4. ExecQ!Init /\ BuildQ!SerialInit
  BY <1>1, <1>2 DEF ExecQ!Init, BuildQ!SerialInit
<1>5. PartsP!IInv
  BY <1>3, SameLocks, AssumptionsOfParts, PartsP!InitHolds
<1>6. PartsP!QueueInv
  BY <1>4, SameExecuteQueue, AssumptionsOfParts, PartsP!QueueBegins
<1>7. BuildP!IInv
  BY <1>4, SameBuildQueue, BuildP!InitHolds
<1>8. pc \in [Txs -> PCs] /\ QueuesList
  BY <1>1, <1>2, EmptyQueue DEF PCs, QueuesList
<1> QED
  BY <1>3, <1>4, <1>5, <1>6, <1>7, <1>8 DEF Scheduled

\* Whatever turn a call takes.
LEMMA TurnsKeep ==
  ASSUME Scheduled, NEW t \in Txs, Acts(t)
  PROVE  PartsStep /\ QueuesList' /\ pc' \in [Txs -> PCs] /\ OthersQueue(t)
BY StepsAreTurns, GoingOn, LeavingBuild, Joining, PassingOn, Freeing DEF Turn

\* What leaves the locks and the queues alone keeps what is known of them.
LEMMA StillScheduled ==
  ASSUME Scheduled, UNCHANGED scheduling
  PROVE  PartsStep /\ QueuesList' /\ pc' \in [Txs -> PCs]
<1>1. UNCHANGED <<pc, lockVars, taskVars, buildQueue>>
  BY DEF scheduling
<1>2. LockPhase' = LockPhase
  BY <1>1 DEF LockPhase
<1>3. /\ At(Executing)' = At(Executing)
      /\ At({"done"})' = At({"done"})
      /\ At(Building)' = At(Building)
      /\ At(AfterBuild \union {"done"})' = At(AfterBuild \union {"done"})
      /\ At({"queued"})' = At({"queued"})
      /\ At({"inLine"} \union Building)' = At({"inLine"} \union Building)
  BY <1>1 DEF At
<1>4. PartsStep
  BY <1>1, <1>2, <1>3
     DEF PartsStep, Locks!idVars, ExecQ!vars, BuildQ!serialVars, lockVars, taskVars
<1> QED
  BY <1>1, <1>3, <1>4 DEF Scheduled, QueuesList, taskVars

\* Whoever takes a step: a call, the environment, or nobody.
LEMMA WhoSteps ==
  ASSUME [Next]_vars
  PROVE  (\E t \in Txs : Acts(t)) \/ Elsewhere \/ UNCHANGED vars
BY DEF Next, Acts, Elsewhere

\* Every step of the executor is one of each part, or leaves that part alone.
LEMMA StepsOfParts == Scheduled /\ [Next]_vars => PartsStep /\ Scheduled'
<1> SUFFICES ASSUME Scheduled, [Next]_vars PROVE PartsStep /\ Scheduled'
  OBVIOUS
<1>1. UNCHANGED vars => UNCHANGED scheduling
  BY DEF vars, scheduling
<1>2. PartsStep /\ QueuesList' /\ pc' \in [Txs -> PCs]
  BY <1>1, WhoSteps, TurnsKeep, ElsewhereIsNoTurn, StillScheduled
<1>3. PartsP!IInv'
  BY <1>2, SameLocks, AssumptionsOfParts, PartsP!StepKeeps DEF Scheduled, PartsStep
<1>4. PartsP!QueueInv'
  BY <1>2, SameExecuteQueue, AssumptionsOfParts, PartsP!QueueStepKeeps DEF Scheduled, PartsStep
<1>5. BuildP!IInv'
  BY <1>2, SameBuildQueue, AssumptionsOfParts, BuildP!StepKeeps DEF Scheduled, PartsStep
<1> QED
  BY <1>2, <1>3, <1>4, <1>5 DEF Scheduled

\* Every turn of the executor takes the object locks and the two queues through
\* a step of their own modules, or leaves them alone: the executor implements
\* all three (parallel.ts:135-169, 212-242, 322-333).
THEOREM PartsImplemented == Spec => PartsSpec
<1>1. Init => Locks!IdsInit /\ ExecQ!Init /\ BuildQ!SerialInit /\ Scheduled
  BY PartsBegin
<1>2. Scheduled /\ [Next]_vars => /\ [Locks!IdsNext]_(Locks!idVars)
                                 /\ [ExecQ!Next]_(ExecQ!vars)
                                 /\ [BuildQ!SerialNext]_(BuildQ!serialVars)
                                 /\ Scheduled'
  BY StepsOfParts DEF PartsStep
<1> QED
  BY <1>1, <1>2, PTL
     DEF Spec, PartsSpec, LocksSpec, ExecuteQueueSpec, BuildQueueSpec, Locks!IdsSpec,
         ExecQ!Spec, BuildQ!SerialSpec

\* What the object locks guarantee by themselves holds in the executor: calls
\* that execute share no id, the map holds the ids of live calls, and a call is
\* executed as soon as no earlier one shares an id with it.
THEOREM ExecutorKeepsLocks ==
  Spec => [](Locks!Exclusive /\ Locks!KeysAreLive /\ Locks!AdmittedInTurn)
<1>1. PartsP!IdsSpec => /\ []PartsP!Exclusive /\ []PartsP!KeysAreLive
                        /\ []PartsP!AdmittedInTurn
  BY AssumptionsOfParts, PartsP!CallsExclude, PartsP!MapDoesNotLeak, PartsP!NobodyIsOvertaken
<1>2. LocksSpec => PartsP!IdsSpec
  BY SameLocks, PTL DEF LocksSpec, Locks!IdsSpec, PartsP!IdsSpec
<1>3. /\ PartsP!Exclusive => Locks!Exclusive
      /\ PartsP!KeysAreLive => Locks!KeysAreLive
      /\ PartsP!AdmittedInTurn => Locks!AdmittedInTurn
  BY DEF PartsP!Exclusive, Locks!Exclusive, PartsP!KeysAreLive, Locks!KeysAreLive,
         PartsP!AdmittedInTurn, Locks!AdmittedInTurn, PartsP!Conflicting,
         Locks!Conflicting, PartsP!Live, Locks!Live
<1> QED
  BY <1>1, <1>2, <1>3, PartsImplemented, PTL DEF PartsSpec

\* So does what the queues guarantee: as many transactions execute as are counted, nobody
\* waits beside a free place, and it is the head of the build queue that is being built
\* (parallel.ts:140, 212; queue.ts).
THEOREM ExecutorKeepsQueues ==
  Spec => [](ExecQ!ActiveCountsRunning /\ ExecQ!NoIdlePlace /\ BuildQ!HeadRuns)
<1>1. Init => Scheduled
  BY PartsBegin
<1>2. Scheduled /\ [Next]_vars => Scheduled'
  BY StepsOfParts
<1>3. Scheduled => ExecQ!ActiveCountsRunning /\ ExecQ!NoIdlePlace
  BY DEF Scheduled, PartsP!QueueInv, PartsP!ActiveCountsRunning, ExecQ!ActiveCountsRunning,
         PartsP!NoIdlePlace, ExecQ!NoIdlePlace, PartsP!Cardinality, ExecQ!Cardinality,
         PartsP!IsFiniteSet, ExecQ!IsFiniteSet
<1>4. Scheduled => BuildQ!HeadRuns
  BY DEF Scheduled, BuildP!IInv, BuildP!HeadRuns, BuildQ!HeadRuns, BuildP!Call, BuildQ!Call
<1> QED
  BY <1>1, <1>2, <1>3, <1>4, PTL DEF Spec

-----------------------------------------------------------------------------
(* The cache lock takes steps of its own module.                            *)

\* A call that is past its refill, or past the update of its catch block, whose
\* functions may still be running then.
PastRefill == {"split", "splitSent", "splitWait", "resolve", "done"} \union AfterBuild
PastPurge == {"unwind", "freeing", "done"}

\* Where a call is while one of its call sites waits for the lock, and since
\* when one of its updates can be under way.
SitesOf(t) ==
  /\ awaited[<<t, "build">>] # NoLock => pc[t] = "lock"
  /\ awaited[<<t, "refill">>] # NoLock => pc[t] = "flush"
  /\ awaited[<<t, "purge">>] # NoLock => pc[t] = "purge"
  /\ <<t, "refill">> \in updating => pc[t] \in PastRefill
  /\ <<t, "purge">> \in updating => pc[t] \in PastPurge

CacheLocked == PartsP!LockInv /\ \A t \in Txs : SitesOf(t)

\* A turn of t that does not call #updateCache.
GoesBy(t) ==
  /\ UNCHANGED cacheVars
  /\ pc[t] \notin DOMAIN Waits
  /\ pc[t] \in PastRefill => pc'[t] \in PastRefill
  /\ pc[t] \in PastPurge => pc'[t] \in PastPurge

\* A turn that does.
CallsFrom(t, w) ==
  /\ \/ pc[t] = "price" /\ w = "lock"
     \/ pc[t] \in {"gas", "fetch"} /\ w = "flush"
     \/ pc[t] = "caught" /\ w = "purge"
  /\ CallUpdate(t, w)

\* The call sites of #updateCache in a transaction, and which pass a function.
LEMMA Sites ==
  /\ DOMAIN Waits = {"lock", "flush", "purge"}
  /\ Waits["lock"] = [site |-> "build", next |-> "gas"]
  /\ Waits["flush"] = [site |-> "refill", next |-> "split"]
  /\ Waits["purge"] = [site |-> "purge", next |-> "unwind"]
  /\ \A t \in Txs : /\ <<t, "build">> \in CallSites \ UpdateSites
                    /\ <<t, "refill">> \in UpdateSites
                    /\ <<t, "purge">> \in UpdateSites
  /\ \A x \in Outside : <<x, "reset">> \in UpdateSites
  /\ UpdateSites \subseteq CallSites
<1>1. \A t \in Txs : /\ <<t, "build">> \in CallSites \ UpdateSites
                     /\ <<t, "refill">> \in UpdateSites
                     /\ <<t, "purge">> \in UpdateSites
  BY DEF CallSites, UpdateSites
<1>2. \A x \in Outside : <<x, "reset">> \in UpdateSites
  BY DEF CallSites, UpdateSites
<1>3. UpdateSites \subseteq CallSites
  BY DEF UpdateSites
<1>4. /\ DOMAIN Waits = {"lock", "flush", "purge"}
      /\ Waits["lock"] = [site |-> "build", next |-> "gas"]
      /\ Waits["flush"] = [site |-> "refill", next |-> "split"]
      /\ Waits["purge"] = [site |-> "purge", next |-> "unwind"]
  BY DEF Waits
<1> QED
  BY <1>1, <1>2, <1>3, <1>4

\* What a turn of t does to the cache lock.
LEMMA LockTurns ==
  ASSUME Scheduled, NEW t \in Txs, Acts(t)
  PROVE  GoesBy(t) \/ ResumeUpdate(t) \/ \E w \in DOMAIN Waits : CallsFrom(t, w)
<1> USE Sites DEF PastRefill, PastPurge, Building, AfterBuild
<1>1. pc \in [Txs -> PCs]
  BY DEF Scheduled
<1>2. CASE Refuse(t)
  BY <1>2 DEF Refuse, GoesBy
<1>3. CASE \E used \in Footprints : Arrive(t, used)
  BY <1>3 DEF Arrive, GoesBy
<1>4. CASE Price(t)
  BY <1>4 DEF Price, CallsFrom
<1>5. CASE TakePooledCoin(t)
  BY <1>5 DEF TakePooledCoin, CountPending, GoesBy
<1>6. CASE FindPoolEmpty(t)
  BY <1>6 DEF FindPoolEmpty, CountPending, StartRefill, CallsFrom, GoesBy
<1>7. CASE FetchSources(t)
  BY <1>7 DEF FetchSources, CallsFrom
<1>8. CASE SendRefill(t)
  BY <1>1, <1>8 DEF SendRefill, Move, GoesBy
<1>9. CASE RefillAnswered(t)
  BY <1>1, <1>9 DEF RefillAnswered, Move, GoesBy
<1>10. CASE RefillRefused(t)
  BY <1>1, <1>10 DEF RefillRefused, BuildFails, LeaveBuild, GoesBy
<1>11. CASE RefillConfirmed(t)
  BY <1>1, <1>11 DEF RefillConfirmed, BuildFails, LeaveBuild, Move, GoesBy
<1>12. CASE Resolve(t)
  BY <1>1, <1>12 DEF Resolve, LeaveBuild, GoesBy
<1>13. CASE BuildRejects(t)
  BY <1>1, <1>13 DEF BuildRejects, BuildAwaits, BuildFails, LeaveBuild, GoesBy
<1>14. CASE Send(t)
  BY <1>1, <1>14 DEF Send, Move, GoesBy
<1>15. CASE Answered(t)
  <2>1. PassesOn(t)
    BY <1>15 DEF Answered, Finish, PassesOn
  <2> QED
    BY <1>15, <2>1, PassingOn DEF Answered, GoesBy
<1>16. CASE SendRejects(t)
  BY <1>1, <1>16 DEF SendRejects, Move, GoesBy
<1>17. CASE Catch(t)
  BY <1>17 DEF Catch, CallsFrom
<1>18. CASE Unwind(t)
  <2>1. PassesOn(t)
    BY <1>18 DEF Unwind, Finish, PassesOn
  <2> QED
    BY <1>18, <2>1, PassingOn DEF Unwind, GoesBy
<1>19. CASE FreePlace(t)
  BY <1>1, <1>19 DEF FreePlace, GoesBy
<1> QED
  BY <1>2, <1>3, <1>4, <1>5, <1>6, <1>7, <1>8, <1>9, <1>10, <1>11, <1>12, <1>13, <1>14, <1>15,
     <1>16, <1>17, <1>18, <1>19 DEF CallStep, Acts

\* The calls that do not act stay clear of #updateCache.
LEMMA OtherSites ==
  ASSUME NEW t \in Txs, OthersQueue(t), NEW u \in Txs, u # t, SitesOf(u),
         \A site \in {"build", "refill", "purge"} :
            /\ awaited'[<<u, site>>] # NoLock => awaited[<<u, site>>] # NoLock
            /\ <<u, site>> \in updating' => <<u, site>> \in updating
  PROVE  SitesOf(u)'
BY DEF OthersQueue, SitesOf, PastRefill, PastPurge, AfterBuild

\* A call of #updateCache, at a call site that is idle.
LEMMA CallingLock ==
  ASSUME CacheLocked, pc \in [Txs -> PCs], NEW t \in Txs, OthersQueue(t),
         NEW w \in DOMAIN Waits, CallsFrom(t, w)
  PROVE  Lock!LockNext /\ \A u \in Txs : SitesOf(u)'
<1> DEFINE c == <<t, Waits[w].site>>
<1>1. c \in CallSites
  <2>1. Waits[w].site \in {"build", "refill", "purge"}
    BY Sites
  <2> QED
    BY <2>1, Sites
<1>2. awaited \in [CallSites -> UpdateSites \union {NoLock, Settled}]
      /\ updating \subseteq UpdateSites
  BY DEF CacheLocked, PartsP!LockInv, PartsP!LockTypeOK
<1>3. SitesOf(t)
  BY DEF CacheLocked
<1>4. awaited[c] = NoLock /\ c \notin updating
  BY <1>2, <1>3, Sites DEF CallsFrom, SitesOf, PastRefill, PastPurge, AfterBuild
<1>5. \/ Lock!CallThrough(c) /\ pc' = [pc EXCEPT ![t] = Waits[w].next]
      \/ Lock!CallAwaits(c) /\ pc' = [pc EXCEPT ![t] = w]
  BY DEF CallsFrom, CallUpdate, Move
<1>6. Lock!LockNext
  BY <1>1, <1>4, <1>5 DEF Lock!LockNext, Lock!UpdateCache, Lock!Idle
<1>7. /\ \A d \in CallSites \ {c} : awaited'[d] = awaited[d]
      /\ updating' \subseteq updating \union {c}
      /\ Lock!CallThrough(c) => awaited' = awaited
      /\ Lock!CallAwaits(c) => updating' = updating
      /\ c \notin UpdateSites => updating' = updating
  BY <1>2, <1>5 DEF Lock!CallThrough, Lock!Enter, Lock!CallAwaits
<1>8. SitesOf(t)'
  <2>1. pc'[t] \in {w, Waits[w].next} /\ (pc'[t] = w => Lock!CallAwaits(c))
    BY <1>5, Sites
  <2>2. CASE w = "lock"
    BY <1>3, <1>5, <1>7, <2>2, Sites
       DEF CallsFrom, SitesOf, PastRefill, PastPurge, AfterBuild
  <2>3. CASE w = "flush"
    BY <1>3, <1>5, <1>7, <2>3, Sites
       DEF CallsFrom, SitesOf, PastRefill, PastPurge, AfterBuild
  <2>4. CASE w = "purge"
    BY <1>3, <1>5, <1>7, <2>4, Sites
       DEF CallsFrom, SitesOf, PastRefill, PastPurge, AfterBuild
  <2> QED
    BY <2>2, <2>3, <2>4, Sites
<1>9. ASSUME NEW u \in Txs, u # t PROVE SitesOf(u)'
  <2>1. SitesOf(u)
    BY DEF CacheLocked
  <2>2. \A site \in {"build", "refill", "purge"} : <<u, site>> \in CallSites \ {c}
    BY <1>9, Sites
  <2> QED
    BY <1>7, <1>9, <2>1, <2>2, OtherSites
<1> QED
  BY <1>6, <1>8, <1>9

\* A call that is resumed.
LEMMA ResumingLock ==
  ASSUME CacheLocked, pc \in [Txs -> PCs], NEW t \in Txs, OthersQueue(t), ResumeUpdate(t)
  PROVE  Lock!LockNext /\ \A u \in Txs : SitesOf(u)'
<1> DEFINE w == pc[t]
           c == <<t, Waits[w].site>>
<1>1. w \in DOMAIN Waits /\ c \in CallSites
  <2>1. w \in DOMAIN Waits
    BY DEF ResumeUpdate
  <2>2. Waits[w].site \in {"build", "refill", "purge"}
    BY <2>1, Sites
  <2> QED
    BY <2>1, <2>2, Sites
<1>2. awaited \in [CallSites -> UpdateSites \union {NoLock, Settled}]
      /\ updating \subseteq UpdateSites
  BY DEF CacheLocked, PartsP!LockInv, PartsP!LockTypeOK
<1>3. SitesOf(t)
  BY DEF CacheLocked
<1>4. Lock!Resume(c) /\ pc' = [pc EXCEPT ![t] = Waits[w].next]
  BY DEF ResumeUpdate, Move
<1>5. Lock!LockNext
  BY <1>1, <1>4 DEF Lock!LockNext
<1>6. /\ \A d \in CallSites \ {c} : awaited'[d] = awaited[d]
      /\ awaited'[c] = NoLock
      /\ updating' \subseteq updating \union {c}
      /\ c \notin UpdateSites => updating' = updating
  BY <1>1, <1>2, <1>4 DEF Lock!Resume, Lock!Enter
<1>7. SitesOf(t)'
  <2>1. CASE w = "lock"
    BY <1>3, <1>4, <1>6, <2>1, Sites DEF SitesOf, PastRefill, PastPurge, AfterBuild
  <2>2. CASE w = "flush"
    BY <1>3, <1>4, <1>6, <2>2, Sites DEF SitesOf, PastRefill, PastPurge, AfterBuild
  <2>3. CASE w = "purge"
    BY <1>3, <1>4, <1>6, <2>3, Sites DEF SitesOf, PastRefill, PastPurge, AfterBuild
  <2> QED
    BY <1>1, <2>1, <2>2, <2>3, Sites
<1>8. ASSUME NEW u \in Txs, u # t PROVE SitesOf(u)'
  <2>1. SitesOf(u)
    BY DEF CacheLocked
  <2>2. \A site \in {"build", "refill", "purge"} : <<u, site>> \in CallSites \ {c}
    BY <1>8, Sites
  <2> QED
    BY <1>6, <1>8, <2>1, <2>2, OtherSites
<1> QED
  BY <1>5, <1>7, <1>8

\* A turn without a call of #updateCache.
LEMMA GoingBy ==
  ASSUME CacheLocked, NEW t \in Txs, OthersQueue(t), GoesBy(t)
  PROVE  UNCHANGED cacheVars /\ \A u \in Txs : SitesOf(u)'
<1>1. UNCHANGED <<cacheLock, updating, awaited>> /\ \A u \in Txs : SitesOf(u)
  BY DEF CacheLocked, GoesBy, cacheVars
<1>2. SitesOf(t)'
  BY <1>1, Sites DEF GoesBy, SitesOf
<1>3. ASSUME NEW u \in Txs, u # t PROVE SitesOf(u)'
  BY <1>1, <1>3, OtherSites
<1> QED
  BY <1>1, <1>2, <1>3 DEF cacheVars

\* The application and the updates themselves.
LEMMA LockElsewhere ==
  ASSUME CacheLocked, Elsewhere
  PROVE  [Lock!LockNext]_(Lock!lockVars) /\ \A u \in Txs : SitesOf(u)'
<1>1. /\ awaited \in [CallSites -> UpdateSites \union {NoLock, Settled}]
      /\ \A u \in Txs : SitesOf(u)
  BY DEF CacheLocked, PartsP!LockInv, PartsP!LockTypeOK
<1>2. CASE \E m \in inFlight : LandLate(m)
  <2>1. UNCHANGED <<pc, cacheLock, updating, awaited>>
    BY <1>2 DEF LandLate, cacheVars
  <2> QED
    BY <1>1, <2>1 DEF Lock!lockVars, SitesOf
<1>3. ASSUME NEW x \in Outside, OutsideUpdate(x)
      PROVE  Lock!LockNext /\ \A u \in Txs : SitesOf(u)'
  <2> DEFINE c == <<x, "reset">>
  <2>1. c \in UpdateSites /\ c \in CallSites
    BY Sites
  <2>2. /\ Lock!UpdateCache(c) \/ Lock!Resume(c)
        /\ pc' = pc
    BY <1>3 DEF OutsideUpdate
  <2>3. /\ \A d \in CallSites \ {c} : awaited'[d] = awaited[d]
        /\ updating' \subseteq updating \union {c}
    BY <1>1, <2>2 DEF Lock!UpdateCache, Lock!CallThrough, Lock!CallAwaits, Lock!Resume,
                      Lock!Enter
  <2>4. \A u \in Txs, site \in {"build", "refill", "purge"} : <<u, site>> \in CallSites \ {c}
    BY Sites
  <2>5. \A u \in Txs : SitesOf(u)'
    BY <1>1, <2>2, <2>3, <2>4 DEF SitesOf
  <2> QED
    BY <2>1, <2>2, <2>5 DEF Lock!LockNext
<1>4. ASSUME NEW c \in CallSites, SettleUpdate(c)
      PROVE  Lock!LockNext /\ \A u \in Txs : SitesOf(u)'
  <2>1. Lock!Settle(c) /\ pc' = pc
    BY <1>4 DEF SettleUpdate
  <2>2. /\ updating' \subseteq updating
        /\ \A d \in CallSites : awaited'[d] # NoLock => awaited[d] # NoLock
    <3>1. /\ updating' = updating \ {c} /\ c \in updating
          /\ awaited' = [d \in CallSites |-> IF awaited[d] = c THEN Settled ELSE awaited[d]]
      BY <2>1 DEF Lock!Settle, Lock!Succeed, Lock!Fail, Lock!Wake
    <3> QED
      BY <3>1, PromisesAssumption
  <2>3. \A u \in Txs, site \in {"build", "refill", "purge"} : <<u, site>> \in CallSites
    BY Sites
  <2>4. \A u \in Txs : SitesOf(u)'
    BY <1>1, <2>1, <2>2, <2>3 DEF SitesOf
  <2> QED
    BY <2>1, <2>4 DEF Lock!LockNext
<1> QED
  BY <1>2, <1>3, <1>4 DEF Elsewhere

\* The lock as the executor and as its proofs know it.
LEMMA SameCacheLock ==
  /\ Lock!LockInit <=> PartsP!LockInit
  /\ [Lock!LockNext]_(Lock!lockVars) <=> [PartsP!LockNext]_(PartsP!lockVars)
BY DEF Lock!LockInit, PartsP!LockInit, Lock!LockNext, PartsP!LockNext, Lock!lockVars,
       PartsP!lockVars, Lock!UpdateCache, PartsP!UpdateCache, Lock!Idle, PartsP!Idle,
       Lock!CallThrough, PartsP!CallThrough, Lock!CallAwaits, PartsP!CallAwaits,
       Lock!Enter, PartsP!Enter, Lock!Resume, PartsP!Resume, Lock!Settle, PartsP!Settle,
       Lock!Succeed, PartsP!Succeed, Lock!Fail, PartsP!Fail, Lock!Wake, PartsP!Wake

\* The calls to #updateCache, from the transactions and from outside, are calls
\* of idle call sites, and nothing else touches the lock: the executor
\* implements the cache lock (parallel.ts:335-348).
THEOREM CacheLockImplemented == Spec => CacheLockSpec
<1>1. Init => Lock!LockInit /\ Scheduled /\ CacheLocked
  <2> SUFFICES ASSUME Init PROVE Lock!LockInit /\ Scheduled /\ CacheLocked
    OBVIOUS
  <2>1. Lock!LockInit
    BY DEF Init
  <2>2. PartsP!LockInv
    BY <2>1, SameCacheLock, AssumptionsOfParts, PartsP!LockBegins
  <2>3. \A t \in Txs : SitesOf(t)
    BY <2>1, Sites DEF Lock!LockInit, SitesOf
  <2> QED
    BY <2>1, <2>2, <2>3, PartsBegin DEF CacheLocked
<1>2. Scheduled /\ CacheLocked /\ [Next]_vars
        => Scheduled' /\ CacheLocked' /\ [Lock!LockNext]_(Lock!lockVars)
  <2> SUFFICES ASSUME Scheduled, CacheLocked, [Next]_vars
               PROVE  Scheduled' /\ CacheLocked' /\ [Lock!LockNext]_(Lock!lockVars)
    OBVIOUS
  <2>1. [Lock!LockNext]_(Lock!lockVars) /\ \A u \in Txs : SitesOf(u)'
    <3>1. ASSUME NEW t \in Txs, Acts(t)
          PROVE  [Lock!LockNext]_(Lock!lockVars) /\ \A u \in Txs : SitesOf(u)'
      <4>1. OthersQueue(t) /\ pc \in [Txs -> PCs]
        BY <3>1, TurnsKeep DEF Scheduled
      <4>2. CASE GoesBy(t)
        BY <4>1, <4>2, GoingBy DEF cacheVars, Lock!lockVars
      <4>3. CASE ResumeUpdate(t)
        BY <4>1, <4>3, ResumingLock
      <4>4. CASE \E w \in DOMAIN Waits : CallsFrom(t, w)
        BY <4>1, <4>4, CallingLock
      <4> QED
        BY <3>1, <4>2, <4>3, <4>4, LockTurns
    <3>2. CASE UNCHANGED vars
      BY <3>2 DEF vars, cacheVars, Lock!lockVars, CacheLocked, SitesOf
    <3> QED
      BY <3>1, <3>2, WhoSteps, LockElsewhere
  <2>2. PartsP!LockInv'
    BY <2>1, SameCacheLock, AssumptionsOfParts, PartsP!LockStepKeeps DEF CacheLocked
  <2> QED
    BY <2>1, <2>2, StepsOfParts DEF CacheLocked
<1> QED
  BY <1>1, <1>2, PTL DEF Spec, CacheLockSpec, Lock!LockSpec

=============================================================================
