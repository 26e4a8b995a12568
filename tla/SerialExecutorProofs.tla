------------------------ MODULE SerialExecutorProofs ------------------------
(***************************************************************************)
(* For any calls, objects, coins and faults: the calls go through the      *)
(* queue by steps of SerialQueue, so that one at a time is under way; what *)
(* the cache holds is as new as what this executor has made; and, as long  *)
(* as transactions freeze nothing and no answer is lost, what is signed    *)
(* refers to nothing the executor has replaced, and is paid with coins     *)
(* the signer has.                                                         *)
(***************************************************************************)
EXTENDS SerialExecutor, CollectionLemmas

QueueP == INSTANCE SerialQueueProofs
            WITH Tasks <- Txs, started <- At(Running), settled <- At({"done"})

Stages == {"new", "inLine", "done"} \union Running

-----------------------------------------------------------------------------
(* One call at a time.                                                      *)

\* The queue holds the calls that are in line or under way.
Queued ==
  /\ pc \in [Txs -> Stages]
  /\ QueueP!IInv
  /\ ToSet(queue) = At({"inLine"} \union Running)

\* What a step does to the queue, whatever else it does.
Enters(t) ==
  /\ pc[t] = "new"
  /\ pc' = [pc EXCEPT ![t] = IF queue = <<>> THEN "prepare" ELSE "inLine"]
  /\ Queue!PushAll(<<t>>)
GoesOn(t) == pc[t] \in Running /\ \E to \in Running : Move(t, to)
Leaves(t) == pc[t] \in Running /\ Leave(t)
Turn(t) == Enters(t) \/ GoesOn(t) \/ Leaves(t)

QueueStep == [Queue!SerialNext]_(Queue!serialVars)

\* The invariant of the queue in terms of the executor.
LEMMA QueueSays ==
  ASSUME Queued
  PROVE  /\ pc \in [Txs -> Stages]
         /\ queue \in Seq(Txs) /\ IsInjective(queue)
         /\ At(Running) = IF queue = <<>> THEN {} ELSE {Head(queue)}
         /\ ToSet(queue) = At({"inLine"} \union Running)
BY DEF Queued, QueueP!IInv, QueueP!SerialTypeOK, QueueP!HeadRuns, QueueP!OnePlaceEach,
       QueueP!Call, QueueP!IsInjective, IsInjective

\* A call that is under way is the only one.
LEMMA Alone ==
  ASSUME Queued, NEW t \in Txs, pc[t] \in Running
  PROVE  \A u \in Txs : pc[u] \in Running => u = t
<1>1. /\ At(Running) = IF queue = <<>> THEN {} ELSE {Head(queue)}
      /\ t \in At(Running)
  BY QueueSays DEF At
<1>2. queue # <<>> /\ t = Head(queue)
  BY <1>1
<1> QED
  BY <1>1, <1>2 DEF At

\* Entering, a call starts when it finds itself alone.
LEMMA Entering ==
  ASSUME Queued, NEW t \in Txs, Enters(t)
  PROVE  /\ QueueStep /\ pc' \in [Txs -> Stages]
         /\ ToSet(queue)' = At({"inLine"} \union Running)'
<1> DEFINE to == IF queue = <<>> THEN "prepare" ELSE "inLine"
<1>1. /\ pc \in [Txs -> Stages] /\ pc[t] = "new" /\ pc' = [pc EXCEPT ![t] = to]
      /\ queue \in Seq(Txs) /\ IsInjective(queue)
      /\ ToSet(queue) = At({"inLine"} \union Running)
      /\ queue' = queue \o <<t>>
  BY QueueSays DEF Enters, Queue!PushAll
<1>2. /\ At(Running)' = At(Running) \union (IF queue = <<>> THEN {t} ELSE {})
      /\ At({"done"})' = At({"done"})
      /\ At({"inLine"} \union Running)' = At({"inLine"} \union Running) \union {t}
  BY <1>1 DEF At, Running
<1>3. t \notin ToSet(queue)
  BY <1>1 DEF At, Running
<1>4. <<t>> \in Seq(Txs) /\ <<t>> # <<>> /\ Head(<<t>>) = t /\ IsInjective(<<t>>)
  BY DEF IsInjective
<1>5. Queue!SerialNext
  <2>1. t \in Queue!Unseen
    BY <1>1, <1>3 DEF Queue!Unseen, Queue!ToSet, ToSet, At
  <2>2. <<t>> \in Seq(Queue!Unseen)
    BY <2>1
  <2>3. <<t>> \in SetToAllKPermutations(Queue!Unseen)
    BY <1>4, <2>2, DistinctIsBatch
  <2>4. <<t>> \in Queue!SetToAllKPermutations(Queue!Unseen)
    BY <2>3 DEF SetToAllKPermutations, SetToSeqs, Cardinality,
                Queue!SetToAllKPermutations, Queue!SetToSeqs, Queue!Cardinality
  <2>5. Queue!RunAll(<<t>>)
    BY <1>1, <1>2, <1>4 DEF Queue!RunAll, Queue!PushAll, Queue!Call
  <2> QED
    BY <1>4, <2>4, <2>5 DEF Queue!SerialNext
<1>6. ToSet(queue') = ToSet(queue) \union {t}
  <2>1. queue' = Append(queue, t)
    BY <1>1, AppendIsConcat
  <2> QED
    <3>1. ToSet(Append(queue, t)) = ToSet(queue) \union {t}
      BY <1>1, <1>3, JoinOne
    <3> QED
      BY <2>1, <3>1, Zenon
<1> QED
  BY <1>1, <1>2, <1>5, <1>6 DEF QueueStep, Stages, Running

\* Going on, it stays at the head.
LEMMA GoingOn ==
  ASSUME Queued, NEW t \in Txs, GoesOn(t)
  PROVE  /\ QueueStep /\ pc' \in [Txs -> Stages]
         /\ ToSet(queue)' = At({"inLine"} \union Running)'
<1>1. PICK to \in Running : pc' = [pc EXCEPT ![t] = to] /\ queue' = queue
  BY DEF GoesOn, Move
<1>2. /\ At(Running)' = At(Running) /\ At({"done"})' = At({"done"})
      /\ At({"inLine"} \union Running)' = At({"inLine"} \union Running)
  BY <1>1, QueueSays DEF At, GoesOn, Running
<1> QED
  BY <1>1, <1>2, QueueSays DEF QueueStep, Queue!serialVars, Stages

\* Leaving, it calls the next one.
LEMMA Leaving ==
  ASSUME Queued, NEW t \in Txs, Leaves(t)
  PROVE  /\ QueueStep /\ pc' \in [Txs -> Stages]
         /\ ToSet(queue)' = At({"inLine"} \union Running)'
         /\ pc'[t] = "done"
         /\ \A u \in Txs \ {t} : pc'[u] = pc[u] \/ (pc[u] = "inLine" /\ pc'[u] = "prepare")
<1>1. /\ pc \in [Txs -> Stages] /\ pc[t] \in Running
      /\ queue \in Seq(Txs) /\ IsInjective(queue)
      /\ At(Running) = IF queue = <<>> THEN {} ELSE {Head(queue)}
      /\ ToSet(queue) = At({"inLine"} \union Running)
      /\ queue' = Tail(queue)
      /\ pc' = [u \in Txs |-> IF u = t THEN "done"
                              ELSE IF Len(queue) > 1 /\ u = queue[2]
                                   THEN "prepare" ELSE pc[u]]
  BY QueueSays DEF Leaves, Leave, Queue!Shift
<1>2. queue # <<>> /\ t = Head(queue) /\ At(Running) = {t}
  BY <1>1 DEF At
<1>3. /\ Tail(queue) \in Seq(Txs) /\ IsInjective(Tail(queue))
      /\ ToSet(Tail(queue)) = ToSet(queue) \ {t}
  BY <1>1, <1>2, ServeHead
<1>4. CASE Tail(queue) = <<>>
  <2>1. Len(queue) <= 1
    <3>1. Len(Tail(queue)) = Len(queue) - 1 /\ Len(queue) \in Nat /\ Len(<<>>) = 0
      BY <1>1, <1>2, HeadTailProperties, LenProperties, EmptySeq
    <3>2. PICK n \in Nat : n = Len(queue)
      BY <3>1
    <3>3. 0 = n - 1
      BY <1>4, <3>1, <3>2, Zenon
    <3>4. n <= 1
      BY <3>3
    <3> QED
      BY <3>2, <3>4, Zenon
  <2>2. \A u \in Txs : pc'[u] = IF u = t THEN "done" ELSE pc[u]
    BY <1>1, <2>1, LenProperties
  <2>3. /\ At(Running)' = {} /\ At({"done"})' = At({"done"}) \union {t}
        /\ At({"inLine"} \union Running)' = At({"inLine"} \union Running) \ {t}
    BY <1>1, <1>2, <2>2 DEF At, Running
  <2>4. Queue!Finally(t)
    BY <1>1, <1>2, <1>4, <2>3 DEF Queue!Finally, Queue!Shift, Queue!Call
  <2> QED
    BY <1>1, <1>3, <2>2, <2>3, <2>4 DEF QueueStep, Queue!SerialNext, Stages, Running
<1>5. CASE Tail(queue) # <<>>
  <2> DEFINE h == Head(Tail(queue))
  <2>1. Len(queue) > 1 /\ h = queue[2]
    BY <1>1, <1>2, <1>3, <1>5, HeadTailProperties, EmptySeq, LenProperties
  <2>2. h \in ToSet(Tail(queue))
    BY <1>3, <1>5, ServeHead
  <2> HIDE DEF h
  <2>3. h \in Txs /\ h # t /\ pc[h] = "inLine"
    BY <1>1, <1>2, <1>3, <2>2 DEF At
  <2>4. \A u \in Txs : pc'[u] = IF u = t THEN "done" ELSE IF u = h THEN "prepare" ELSE pc[u]
    BY <1>1, <2>1
  <2>5. /\ At(Running)' = {h} /\ At({"done"})' = At({"done"}) \union {t}
        /\ At({"inLine"} \union Running)' = At({"inLine"} \union Running) \ {t}
    BY <1>1, <1>2, <2>3, <2>4 DEF At, Running
  <2>6. Queue!Finally(t)
    BY <1>1, <1>2, <1>5, <2>5 DEF Queue!Finally, Queue!Shift, Queue!Call, h
  <2> QED
    BY <1>1, <1>3, <2>3, <2>4, <2>5, <2>6 DEF QueueStep, Queue!SerialNext, Stages, Running
<1> QED
  BY <1>4, <1>5

\* The two names of the queue stand for the same states and steps.
LEMMA SameQueue ==
  /\ Queue!SerialInit <=> QueueP!SerialInit
  /\ [Queue!SerialNext]_(Queue!serialVars) <=> [QueueP!SerialNext]_(QueueP!serialVars)
BY DEF Queue!SerialInit, QueueP!SerialInit, Queue!SerialNext, QueueP!SerialNext,
       Queue!serialVars, QueueP!serialVars, Queue!RunAll, QueueP!RunAll, Queue!PushAll,
       QueueP!PushAll, Queue!Call, QueueP!Call, Queue!Finally, QueueP!Finally,
       Queue!Shift, QueueP!Shift, Queue!Unseen, QueueP!Unseen, Queue!ToSet,
       QueueP!ToSet, Queue!SetToAllKPermutations, QueueP!SetToAllKPermutations,
       Queue!SetToSeqs, QueueP!SetToSeqs, Queue!Cardinality, QueueP!Cardinality

\* At first nobody is in line.
LEMMA QueueBegins == ASSUME Init PROVE Queued /\ Queue!SerialInit
<1>1. /\ pc = [t \in Txs |-> "new"] /\ queue = <<>>
      /\ At(Running) = {} /\ At({"done"}) = {} /\ At({"inLine"} \union Running) = {}
  BY DEF Init, At, Running
<1>2. Queue!SerialInit
  BY <1>1 DEF Queue!SerialInit
<1>3. QueueP!IInv
  BY <1>2, SameQueue, QueueP!InitHolds
<1>4. ToSet(queue) = {}
  BY <1>1, EmptyQueue
<1> QED
  BY <1>1, <1>2, <1>3, <1>4 DEF Queued, Stages

\* Every turn of a call is a step of the queue.
LEMMA TurnsQueue ==
  ASSUME Queued, (\E t \in Txs : Turn(t)) \/ UNCHANGED <<pc, queue>>
  PROVE  QueueStep /\ Queued'
<1>1. /\ QueueStep /\ pc' \in [Txs -> Stages]
      /\ ToSet(queue)' = At({"inLine"} \union Running)'
  <2>1. ASSUME UNCHANGED <<pc, queue>>
        PROVE  QueueStep /\ pc' \in [Txs -> Stages]
               /\ ToSet(queue)' = At({"inLine"} \union Running)'
    BY <2>1, QueueSays DEF QueueStep, Queue!serialVars, At
  <2> QED
    BY <2>1, Entering, GoingOn, Leaving DEF Turn
<1>2. IsFiniteSet(Txs) /\ QueueP!IsFiniteSet(Txs)
  BY InputsAssumption DEF QueueP!IsFiniteSet, IsFiniteSet
<1>3. QueueP!IInv'
  BY <1>1, <1>2, SameQueue, QueueP!StepKeeps DEF Queued, QueueStep
<1> QED
  BY <1>1, <1>3 DEF Queued

\* Whatever happens is a turn of a call, or leaves the queue alone.
LEMMA StepsTurn ==
  ASSUME Queued, [Next]_vars
  PROVE  (\E t \in Txs : Turn(t)) \/ UNCHANGED <<pc, queue>>
<1>1. ASSUME NEW t \in Txs, NEW objects \in Footprints, Execute(t, objects)
      PROVE  Turn(t)
  BY <1>1 DEF Turn, Enters, Execute
<1>2. ASSUME NEW t \in Txs, CallStep(t)
      PROVE  Turn(t)
  <2>1. CASE ReadCache(t)
    BY <2>1 DEF Turn, GoesOn, ReadCache, Running
  <2>2. CASE Resolve(t)
    BY <2>2 DEF Turn, GoesOn, Resolve, Running
  <2>3. CASE ResolveFails(t)
    BY <2>3 DEF Turn, Leaves, ResolveFails, Running
  <2>4. CASE Sign(t)
    BY <2>4 DEF Turn, GoesOn, Leaves, Sign, Running
  <2>5. CASE Land(t)
    BY <2>5 DEF Turn, GoesOn, Land, Running
  <2>6. CASE Refuse(t)
    BY <2>6 DEF Turn, GoesOn, Refuse, Running
  <2>7. CASE Answered(t)
    BY <2>7 DEF Turn, Leaves, Answered, Running
  <2>8. CASE AnswerLost(t)
    BY <2>8 DEF Turn, GoesOn, AnswerLost, Running
  <2>9. CASE Reset(t)
    BY <2>9 DEF Turn, GoesOn, Leaves, Reset, Running
  <2>10. CASE ResetDone(t)
    BY <2>10 DEF Turn, Leaves, ResetDone, Running
  <2> QED
    BY <1>2, <2>1, <2>2, <2>3, <2>4, <2>5, <2>6, <2>7, <2>8, <2>9, <2>10 DEF CallStep
<1>3. ASSUME NodeSees \/ (\E x \in Objects, g \in Coins : OutsideTx(x, g))
             \/ (\E n \in untold, g \in Coins : ApplyOutside(n, g))
             \/ (\E x \in App : AppCall(x) \/ AppCallDone(x)) \/ UNCHANGED vars
      PROVE  UNCHANGED <<pc, queue>>
  BY <1>3 DEF NodeSees, OutsideTx, ApplyOutside, AppCall, AppCallDone, vars, callVars
<1> QED
  BY <1>1, <1>2, <1>3 DEF Next

\* The calls go through #queue by steps of SerialQueue only: each turn of the
\* executor pushes a task, settles the one at the head, or leaves the queue
\* alone (serial.ts:48-50, 109-157; queue.ts:3-21).
THEOREM QueueImplemented == Spec => QueueSpec
<1>1. Init => Queued /\ Queue!SerialInit
  BY QueueBegins
<1>2. Queued /\ [Next]_vars => [Queue!SerialNext]_(Queue!serialVars) /\ Queued'
  BY StepsTurn, TurnsQueue DEF QueueStep
<1> QED
  BY <1>1, <1>2, PTL DEF Spec, QueueSpec, Queue!SerialSpec

-----------------------------------------------------------------------------
(* What the chain records.                                                  *)

ObjectState == [version : Nat, owner : Owners]

\* The version of an object that changes is the place of the change in the
\* history; versions grow, and what is gone stays gone.
Genuine ==
  /\ history \in Seq([Items -> ObjectState]) /\ history # <<>>
  /\ \A n \in 1..Len(history) : \A x \in Items : history[n][x].version <= n
  /\ \A n \in 2..Len(history) : \A x \in Changed(n) : history[n][x].version = n
  /\ \A m, n \in 1..Len(history) : m <= n =>
       \A x \in Items : /\ history[m][x].version <= history[n][x].version
                        /\ history[m][x].owner = "gone" => history[n][x].owner = "gone"

\* What may come next for an object.
Succeeds(s) ==
  \A y \in Items : \/ s[y] = Chain[y]
                   \/ /\ s[y].version = Len(history) + 1
                      /\ Chain[y].owner = "gone" => s[y].owner = "gone"

\* The history is longer by one state and is otherwise what it was.
Grows(s) ==
  /\ Len(history') = Len(history) + 1
  /\ \A n \in 1..Len(history) : history'[n] = history[n]
  /\ history'[Len(history) + 1] = s

\* The state a history ends with.
LEMMA ChainIs ==
  ASSUME Genuine
  PROVE  /\ Len(history) \in Nat \ {0} /\ DOMAIN history = 1..Len(history)
         /\ Chain \in [Items -> ObjectState]
         /\ \A n \in 1..Len(history) : history[n] \in [Items -> ObjectState]
<1>1. history \in Seq([Items -> ObjectState]) /\ history # <<>>
  BY DEF Genuine
<1>2. Len(history) \in Nat \ {0} /\ DOMAIN history = 1..Len(history)
  BY <1>1, EmptySeq, LenProperties
<1> QED
  BY <1>1, <1>2, ElementOfSeq DEF Chain

\* A transaction adds a genuine state.
LEMMA HistoryGrows ==
  ASSUME Genuine, NEW s \in [Items -> ObjectState], Succeeds(s),
         history' = Append(history, s)
  PROVE  /\ Genuine' /\ Grows(s) /\ Chain' = s
         /\ \A n \in 2..Len(history) : Changed(n)' = Changed(n)
<1>1. /\ Len(history) \in Nat \ {0}
      /\ Chain \in [Items -> ObjectState] /\ Chain = history[Len(history)]
      /\ \A n \in 1..Len(history) : history[n] \in [Items -> ObjectState]
  BY ChainIs DEF Chain
<1>2. /\ history' \in Seq([Items -> ObjectState]) /\ history' # <<>>
      /\ Grows(s)
  BY <1>1, AppendProperties DEF Genuine, Grows
<1>3. PICK k \in Nat \ {0} : k = Len(history)
  BY <1>1
<1>4. /\ Len(history') = k + 1 /\ history'[k + 1] = s
      /\ \A n \in 1..k : history'[n] = history[n]
  BY <1>2, <1>3 DEF Grows
<1>5. Chain' = s
  BY <1>4 DEF Chain
<1>6. \A n \in 2..k : Changed(n)' = Changed(n)
  BY <1>4 DEF Changed
<1>7. \A n \in 1..(k + 1) : \A x \in Items : history'[n][x].version <= n
  <2>1. \A n \in 1..k : \A x \in Items : history[n][x].version <= n
    BY <1>3 DEF Genuine
  <2>2. ASSUME NEW x \in Items
        PROVE  s[x].version <= k + 1
    <3>1. k \in 1..k /\ Chain = history[k]
      BY <1>1, <1>3
    <3>2. Chain[x].version <= k /\ Chain[x].version \in Nat
      BY <1>1, <2>1, <3>1 DEF ObjectState
    <3>3. s[x] = Chain[x] \/ s[x].version = k + 1
      BY <1>3 DEF Succeeds
    <3> QED
      BY <1>3, <3>2, <3>3
  <2> QED
    BY <1>4, <2>1, <2>2
<1>8. \A n \in 2..(k + 1) : \A x \in Changed(n)' : history'[n][x].version = n
  <2>1. \A n \in 2..k : \A x \in Changed(n) : history[n][x].version = n
    BY <1>3 DEF Genuine
  <2>2. \A x \in Changed(k + 1)' : x \in Items /\ s[x] # Chain[x]
    BY <1>1, <1>3, <1>4 DEF Changed
  <2> QED
    BY <1>3, <1>4, <1>6, <2>1, <2>2 DEF Succeeds
<1>9. \A m, n \in 1..(k + 1) : m <= n =>
        \A x \in Items : /\ history'[m][x].version <= history'[n][x].version
                         /\ history'[m][x].owner = "gone" => history'[n][x].owner = "gone"
  <2>1. \A m, n \in 1..k : m <= n =>
          \A x \in Items : /\ history[m][x].version <= history[n][x].version
                           /\ history[m][x].owner = "gone" => history[n][x].owner = "gone"
    BY <1>3 DEF Genuine
  <2>2. \A m \in 1..k : \A x \in Items :
          /\ history[m][x].version <= s[x].version
          /\ history[m][x].owner = "gone" => s[x].owner = "gone"
    <3> SUFFICES ASSUME NEW m \in 1..k, NEW x \in Items
                 PROVE  /\ history[m][x].version <= s[x].version
                        /\ history[m][x].owner = "gone" => s[x].owner = "gone"
      OBVIOUS
    <3>1. /\ history[m][x].version <= Chain[x].version
          /\ history[m][x].owner = "gone" => Chain[x].owner = "gone"
      BY <1>1, <1>3, <2>1
    <3>2. history[m][x].version <= m /\ history[m][x].version \in Nat
      BY <1>1, <1>3 DEF Genuine, ObjectState
    <3> QED
      BY <1>3, <3>1, <3>2 DEF Succeeds
  <2>3. \A x \in Items : s[x].version <= s[x].version
    BY DEF ObjectState
  <2> QED
    BY <1>4, <2>1, <2>2, <2>3
<1> QED
  BY <1>2, <1>3, <1>4, <1>5, <1>6, <1>7, <1>8, <1>9 DEF Genuine

\* The states that transactions lead to are such.
LEMMA AfterSucceeds ==
  ASSUME Genuine, NEW W, NEW M, NEW g, NEW x, NEW f \in Owners,
         Chain[x].owner # "gone"
  PROVE  /\ After(W, M, g, x, f) \in [Items -> ObjectState]
         /\ Succeeds(After(W, M, g, x, f))
<1>1. /\ Len(history) + 1 \in Nat /\ Chain \in [Items -> ObjectState]
      /\ "gone" \in Owners
  BY ChainIs DEF Owners
<1>2. \A y \in Items : Chain[y].owner \in Owners /\ Chain[y].version \in Nat
  BY <1>1 DEF ObjectState
<1>3. After(W, M, g, x, f) \in [Items -> ObjectState]
  BY <1>1, <1>2 DEF After, ObjectState
<1> QED
  BY <1>1, <1>3 DEF Succeeds, After

-----------------------------------------------------------------------------
(* What the calls and the cache hold.                                       *)

Typed ==
  /\ used \in [Txs -> SUBSET Objects]
  /\ refs = [t \in Txs |-> refs[t]]
  /\ gasPayment \in [Txs -> SUBSET Coins]
  /\ result \in [Txs -> Nat]
  /\ cache = [OwnedObject |-> cache.OwnedObject,
              SharedOrImmutable |-> cache.SharedOrImmutable]
  /\ gasCoin \in [id : Coins, version : Nat] \union {NoCoin}
  /\ lastDigest \in Nat
  /\ node \in 1..Len(history)
  /\ untold \subseteq 2..Len(history)

\* A transaction pays with coins it refers to.
Built ==
  \A t \in At({"resolve", "sign", "sent"}) : gasPayment[t] \subseteq DOMAIN refs[t]

\* Only what was sent has a result; while an answer is awaited no other call has
\* a later one, and only a lost answer makes a call with a result fail.
Answers ==
  \A t \in Txs :
    /\ result[t] # 0 =>
         /\ result[t] \in 2..Len(history)
         /\ pc[t] \in {"landed", "failed", "waiting", "done"}
         /\ pc[t] \in {"failed", "waiting"} => May("reply")
    /\ pc[t] = "landed" => result[t] # 0 /\ \A u \in Txs : result[u] <= result[t]

\* Nothing is frozen by transactions that freeze nothing.
Fated ==
  "frozen" \in Fates \/
    \A n \in 1..Len(history) : \A x \in Items : history[n][x].owner # "frozen"

Recorded == Queued /\ Genuine /\ Typed /\ Built /\ Answers /\ Fated

\* From one await to the next.
Early == {"new", "inLine", "prepare", "resolve", "sign", "sent"}
Progress(u) ==
  \/ pc'[u] = pc[u]
  \/ pc[u] \in Early /\ pc'[u] \notin {"landed", "waiting"}
  \/ pc[u] = "sent" /\ Land(u)
  \/ pc[u] = "landed" /\ Answered(u) /\ pc'[u] = "done"
  \/ pc[u] = "landed" /\ AnswerLost(u) /\ pc'[u] = "failed"
  \/ pc[u] = "failed" /\ Reset(u) /\ pc'[u] \in {"waiting", "done"}
  \/ pc[u] = "waiting" /\ ResetDone(u) /\ pc'[u] = "done"

\* Every step takes every call along this way.
LEMMA StepsProgress ==
  ASSUME Queued, [Next]_vars, NEW u \in Txs
  PROVE  Progress(u)
<1>1. pc \in [Txs -> Stages] /\ pc[u] \in Stages
  BY QueueSays
<1>2. ASSUME NEW t \in Txs, NEW objects \in Footprints, Execute(t, objects)
      PROVE  Progress(u)
  BY <1>1, <1>2 DEF Execute, Progress, Early
<1>3. ASSUME NEW t \in Txs, CallStep(t)
      PROVE  Progress(u)
  <2>1. ASSUME NEW to, pc[t] \in Running, Move(t, to)
        PROVE  u # t => pc'[u] = pc[u]
    BY <1>1, <2>1 DEF Move
  <2>2. ASSUME pc[t] \in Running, Leave(t)
        PROVE  /\ u # t => pc'[u] = pc[u] \/ (pc[u] \in Early /\ pc'[u] = "prepare")
               /\ u = t => pc'[u] = "done"
    BY <2>2, Leaving DEF Leaves, Early
  <2>3. CASE ReadCache(t)
    BY <1>1, <2>3 DEF ReadCache, Move, Progress, Early
  <2>4. CASE Resolve(t)
    BY <1>1, <2>4 DEF Resolve, Move, Progress, Early
  <2>5. CASE ResolveFails(t)
    BY <1>1, <2>2, <2>5 DEF ResolveFails, Progress, Early, Running
  <2>6. CASE Sign(t)
    <3>1. CASE Move(t, "sent")
      BY <1>1, <2>6, <3>1 DEF Sign, Move, Progress, Early
    <3>2. CASE Leave(t)
      BY <1>1, <2>2, <2>6, <3>2 DEF Sign, Progress, Early, Running
    <3> QED
      BY <2>6, <3>1, <3>2 DEF Sign
  <2>7. CASE Land(t)
    <3>1. pc[t] = "sent" /\ Move(t, "landed")
      BY <2>7 DEF Land
    <3> QED
      BY <1>1, <2>1, <2>7, <3>1 DEF Progress, Running
  <2>8. CASE Refuse(t)
    BY <1>1, <2>8 DEF Refuse, Move, Progress, Early
  <2>9. CASE Answered(t)
    BY <1>1, <2>2, <2>9 DEF Answered, Progress, Running
  <2>10. CASE AnswerLost(t)
    <3>1. pc[t] = "landed" /\ Move(t, "failed")
      BY <2>10 DEF AnswerLost
    <3> QED
      BY <1>1, <2>1, <2>10, <3>1 DEF Progress, Running, Move
  <2>11. CASE Reset(t)
    <3>1. pc[t] = "failed" /\ (Move(t, "waiting") \/ Leave(t))
      BY <2>11 DEF Reset
    <3> QED
      BY <1>1, <2>1, <2>2, <2>11, <3>1 DEF Progress, Running, Move
  <2>12. CASE ResetDone(t)
    <3>1. pc[t] = "waiting" /\ Leave(t)
      BY <2>12 DEF ResetDone
    <3> QED
      BY <1>1, <2>2, <2>12, <3>1 DEF Progress, Running
  <2> QED
    BY <1>3, <2>3, <2>4, <2>5, <2>6, <2>7, <2>8, <2>9, <2>10, <2>11, <2>12 DEF CallStep
<1>4. ASSUME UNCHANGED pc PROVE Progress(u)
  BY <1>4 DEF Progress
<1>5. ASSUME NodeSees \/ (\E x \in Objects, g \in Coins : OutsideTx(x, g))
             \/ (\E n \in untold, g \in Coins : ApplyOutside(n, g))
             \/ (\E x \in App : AppCall(x) \/ AppCallDone(x)) \/ UNCHANGED vars
      PROVE  UNCHANGED pc
  BY <1>5 DEF NodeSees, OutsideTx, ApplyOutside, AppCall, AppCallDone, vars, callVars
<1> QED
  BY <1>2, <1>3, <1>4, <1>5 DEF Next

\* Only transactions change the history.
LEMMA StepsRecord ==
  ASSUME [Next]_vars
  PROVE  \/ \E t \in Txs : Land(t)
         \/ \E x \in Objects, g \in Coins : OutsideTx(x, g)
         \/ UNCHANGED <<history, result>> /\ untold' \subseteq untold
<1>1. ASSUME NEW t \in Txs, NEW objects \in Footprints, Execute(t, objects)
      PROVE  UNCHANGED <<history, result>> /\ untold' \subseteq untold
  BY <1>1 DEF Execute, chainVars
<1>2. ASSUME NEW t \in Txs, CallStep(t)
      PROVE  Land(t) \/ (UNCHANGED <<history, result>> /\ untold' \subseteq untold)
  BY <1>2 DEF CallStep, ReadCache, Resolve, ResolveFails, Sign, Refuse, Answered, AnswerLost,
              Reset, ResetDone, chainVars
<1>3. ASSUME NodeSees \/ (\E n \in untold, g \in Coins : ApplyOutside(n, g))
             \/ (\E x \in App : AppCall(x) \/ AppCallDone(x)) \/ UNCHANGED vars
      PROVE  UNCHANGED <<history, result>> /\ untold' \subseteq untold
  BY <1>3 DEF NodeSees, ApplyOutside, AppCall, AppCallDone, vars, chainVars
<1> QED
  BY <1>1, <1>2, <1>3 DEF Next

\* What landing does to the history.
LEMMA Landing ==
  ASSUME Recorded, NEW t \in Txs, Land(t)
  PROVE  \E g \in gasPayment[t] : \E s \in [Items -> ObjectState] :
           /\ Succeeds(s) /\ history' = Append(history, s)
           /\ gasPayment' = [gasPayment EXCEPT ![t] = {g}]
           /\ "frozen" \in Fates \/ \A y \in Items : s[y].owner # "frozen"
           /\ "gasToOther" \in Fates \/ s[g].owner = "signer"
<1> DEFINE owned == { x \in used[t] : Chain[x].owner = "signer" }
           M == gasPayment[t]
<1>1. /\ pc[t] = "sent" /\ Valid(t) /\ M \subseteq Coins /\ M \subseteq DOMAIN refs[t]
      /\ owned \subseteq Objects /\ Objects \intersect Coins = {}
  BY InputsAssumption DEF Recorded, Typed, Built, Land, At
<1>2. Chain \in [Items -> ObjectState] /\ \A g \in M : Chain[g].owner = "signer"
  BY <1>1, ChainIs DEF Recorded, Valid, Usable
<1>3. "frozen" \in Fates \/ \A y \in Items : Chain[y].owner # "frozen"
  BY ChainIs DEF Recorded, Fated, Chain
<1>4. PICK g \in M :
        /\ \/ history' = Append(history, After(owned, M, g, g, "signer"))
           \/ \E x \in owned, f \in Fates \ {"gasToOther"} :
                history' = Append(history, After(owned, M, g, x, f))
           \/ /\ "gasToOther" \in Fates
              /\ history' = Append(history, After(owned, M, g, g, "other"))
        /\ gasPayment' = [gasPayment EXCEPT ![t] = {g}]
  BY DEF Land
<1>5. g \in Items /\ Chain[g].owner = "signer" /\ g \in M /\ g \notin owned
  BY <1>1, <1>2 DEF Items
<1>6. ASSUME NEW x, NEW f \in Owners, Chain[x].owner # "gone",
             history' = Append(history, After(owned, M, g, x, f)),
             f # "frozen" \/ "frozen" \in Fates,
             (x = g /\ f = "signer") \/ x # g \/ "gasToOther" \in Fates
      PROVE  \E s \in [Items -> ObjectState] :
               /\ Succeeds(s) /\ history' = Append(history, s)
               /\ "frozen" \in Fates \/ \A y \in Items : s[y].owner # "frozen"
               /\ "gasToOther" \in Fates \/ s[g].owner = "signer"
  <2> DEFINE s == After(owned, M, g, x, f)
  <2>1. s \in [Items -> ObjectState] /\ Succeeds(s)
    BY <1>6, AfterSucceeds DEF Recorded
  <2>2. "frozen" \in Fates \/ \A y \in Items : s[y].owner # "frozen"
    BY <1>3, <1>6 DEF After
  <2>3. "gasToOther" \in Fates \/ s[g].owner = "signer"
    BY <1>5, <1>6 DEF After
  <2> QED
    BY <1>6, <2>1, <2>2, <2>3
<1>7. {"signer", "other", "frozen", "gone"} = Owners
  BY DEF Owners
<1>8. \E s \in [Items -> ObjectState] :
        /\ Succeeds(s) /\ history' = Append(history, s)
        /\ "frozen" \in Fates \/ \A y \in Items : s[y].owner # "frozen"
        /\ "gasToOther" \in Fates \/ s[g].owner = "signer"
  <2>1. CASE history' = Append(history, After(owned, M, g, g, "signer"))
    BY <1>5, <1>6, <1>7, <2>1
  <2>2. ASSUME NEW x \in owned, NEW f \in Fates \ {"gasToOther"},
               history' = Append(history, After(owned, M, g, x, f))
        PROVE  \E s \in [Items -> ObjectState] :
                 /\ Succeeds(s) /\ history' = Append(history, s)
                 /\ "frozen" \in Fates \/ \A y \in Items : s[y].owner # "frozen"
                 /\ "gasToOther" \in Fates \/ s[g].owner = "signer"
    <3>1. f \in {"other", "frozen", "gone"}
      BY InputsAssumption
    <3>2. x # g /\ Chain[x].owner # "gone"
      BY <1>5
    <3> QED
      BY <1>6, <1>7, <2>2, <3>1, <3>2
  <2>3. CASE "gasToOther" \in Fates /\ history' = Append(history, After(owned, M, g, g, "other"))
    BY <1>5, <1>6, <1>7, <2>3
  <2> QED
    BY <1>4, <2>1, <2>2, <2>3
<1> QED
  BY <1>4, <1>8

\* What a transaction of another wallet does to it.
LEMMA OutsideOne ==
  ASSUME Recorded, NEW x \in Objects, NEW g \in Coins, OutsideTx(x, g)
  PROVE  \E s \in [Items -> ObjectState] :
           /\ Succeeds(s) /\ history' = Append(history, s)
           /\ \A y \in Items : s[y].owner = Chain[y].owner
           /\ \A c \in Coins : s[c] # Chain[c] => s[c].owner = "signer"
<1> DEFINE s == After({x}, {g}, g, g, "signer")
<1>1. Chain[g].owner = "signer" /\ history' = Append(history, s) /\ x \notin Coins
  BY InputsAssumption DEF OutsideTx
<1>2. s \in [Items -> ObjectState] /\ Succeeds(s)
  BY <1>1, AfterSucceeds DEF Recorded, Owners
<1>3. \A y \in Items : s[y].owner = Chain[y].owner
  BY <1>1 DEF After
<1>4. \A c \in Coins : s[c] # Chain[c] => s[c].owner = "signer"
  BY <1>1 DEF After, Items
<1> QED
  BY <1>1, <1>2, <1>3, <1>4

\* The history stays genuine, and transactions freeze nothing unless they may.
LEMMA GenuineStays ==
  ASSUME Recorded, [Next]_vars
  PROVE  /\ Genuine' /\ Fated'
         /\ Len(history') \in Nat /\ Len(history) <= Len(history')
         /\ \A n \in 1..Len(history) : history'[n] = history[n]
         /\ \A n \in 2..Len(history) : Changed(n)' = Changed(n)
<1>1. Len(history) \in Nat \ {0} /\ Genuine
  BY ChainIs DEF Recorded
<1>2. ASSUME NEW s \in [Items -> ObjectState], Succeeds(s), history' = Append(history, s),
             "frozen" \in Fates \/ \A y \in Items : s[y].owner # "frozen"
      PROVE  /\ Genuine' /\ Fated'
             /\ Len(history') \in Nat /\ Len(history) <= Len(history')
             /\ \A n \in 1..Len(history) : history'[n] = history[n]
             /\ \A n \in 2..Len(history) : Changed(n)' = Changed(n)
  <2>1. /\ Genuine' /\ Grows(s)
        /\ \A n \in 2..Len(history) : Changed(n)' = Changed(n)
    BY <1>1, <1>2, HistoryGrows
  <2>2. Fated'
    BY <1>1, <1>2, <2>1 DEF Recorded, Fated, Grows
  <2> QED
    BY <1>1, <2>1, <2>2 DEF Grows
<1>3. CASE \E t \in Txs : Land(t)
  BY <1>2, <1>3, Landing
<1>4. CASE \E x \in Objects, g \in Coins : OutsideTx(x, g)
  <2>1. PICK s \in [Items -> ObjectState] :
          /\ Succeeds(s) /\ history' = Append(history, s)
          /\ \A y \in Items : s[y].owner = Chain[y].owner
    BY <1>4, OutsideOne
  <2>2. "frozen" \in Fates \/ \A y \in Items : s[y].owner # "frozen"
    BY <2>1, ChainIs DEF Recorded, Fated, Chain
  <2> QED
    BY <1>2, <2>1, <2>2
<1>5. CASE UNCHANGED history
  BY <1>1, <1>5 DEF Recorded, Genuine, Fated, Changed
<1> QED
  BY <1>3, <1>4, <1>5, StepsRecord

\* The effects of a transaction leave a cache a cache.
LEMMA CacheIsRecord ==
  ASSUME NEW c, NEW e
  PROVE  LET d == ApplyEffects(c, e) IN
         d = [OwnedObject |-> d.OwnedObject, SharedOrImmutable |-> d.SharedOrImmutable]
BY DEF ApplyEffects, DeleteObjects

\* The types of what calls and cache hold.
LEMMA TypedStays ==
  ASSUME Recorded, [Next]_vars
  PROVE  Typed'
<1>1. /\ Typed
      /\ Len(history) \in Nat \ {0}
      /\ Len(history') \in Nat /\ Len(history) <= Len(history')
      /\ \A x : x \in Footprints => x \subseteq Objects
  BY ChainIs, GenuineStays, InputsAssumption DEF Recorded
<1>2. 1..Len(history) \subseteq 1..Len(history') /\ 2..Len(history) \subseteq 2..Len(history')
  BY <1>1
<1>3. \A n \in Nat, g \in Coins : ApplyAll(n, g) =>
        /\ lastDigest' \in Nat
        /\ cache' = [OwnedObject |-> cache'.OwnedObject,
                     SharedOrImmutable |-> cache'.SharedOrImmutable]
        /\ gasCoin' \in [id : Coins, version : Nat] \union {NoCoin}
  BY CacheIsRecord DEF ApplyAll
<1>4. ClearCaches =>
        /\ cache' = [OwnedObject |-> cache'.OwnedObject,
                     SharedOrImmutable |-> cache'.SharedOrImmutable]
        /\ gasCoin' \in [id : Coins, version : Nat] \union {NoCoin}
  BY <1>1 DEF ClearCaches, ClearOwnedObjects, Typed
<1>5. \A x : EndWait(x) => lastDigest' \in Nat
  BY <1>1 DEF EndWait, Typed
<1>6. ASSUME NEW t \in Txs, NEW objects \in Footprints, Execute(t, objects)
      PROVE  Typed'
  BY <1>1, <1>6 DEF Execute, Typed, cacheVars, chainVars
<1>7. ASSUME NEW t \in Txs, CallStep(t)
      PROVE  Typed'
  <2>1. CASE ReadCache(t)
    <3>1. { x \in {gasCoin.id} : gasCoin # NoCoin } \subseteq Coins
      BY <1>1 DEF Typed
    <3> QED
      BY <1>1, <2>1, <3>1 DEF ReadCache, Typed, cacheVars, chainVars
  <2>2. CASE Resolve(t)
    <3>1. Payment(t) \subseteq Coins
      BY <1>1 DEF Payment, ListedCoins, Typed
    <3> QED
      BY <1>1, <2>2, <3>1 DEF Resolve, Typed, cacheVars, chainVars
  <2>3. CASE ResolveFails(t) \/ Sign(t) \/ Refuse(t) \/ AnswerLost(t)
    BY <1>1, <2>3 DEF ResolveFails, Sign, Refuse, AnswerLost, Typed, cacheVars, chainVars
  <2>4. CASE Land(t)
    <3>1. PICK g \in gasPayment[t] : gasPayment' = [gasPayment EXCEPT ![t] = {g}]
      BY <2>4, Landing
    <3>2. gasPayment' \in [Txs -> SUBSET Coins]
      BY <1>1, <3>1 DEF Typed
    <3>3. result' \in [Txs -> Nat]
      BY <1>1, <2>4 DEF Land, Typed
    <3>4. UNCHANGED <<used, refs, cache, gasCoin, lastDigest, node, untold>>
      BY <2>4 DEF Land, cacheVars
    <3> QED
      BY <1>1, <1>2, <3>2, <3>3, <3>4 DEF Typed
  <2>5. CASE Answered(t)
    <3>1. PICK g \in gasPayment[t] : ApplyAll(result[t], g)
      BY <2>5 DEF Answered
    <3>2. g \in Coins /\ result[t] \in Nat
      BY <1>1 DEF Typed
    <3>3. UNCHANGED <<used, refs, gasPayment, result, history, node, untold>>
      BY <2>5 DEF Answered, chainVars
    <3> QED
      BY <1>1, <1>3, <3>1, <3>2, <3>3 DEF Typed
  <2>6. CASE Reset(t)
    BY <1>1, <1>4, <2>6 DEF Reset, Typed, chainVars
  <2>7. CASE ResetDone(t)
    BY <1>1, <1>5, <2>7 DEF ResetDone, Typed, cacheVars, chainVars
  <2> QED
    BY <1>7, <2>1, <2>2, <2>3, <2>4, <2>5, <2>6, <2>7 DEF CallStep
<1>8. CASE NodeSees
  BY <1>1, <1>8 DEF NodeSees, Typed, callVars, cacheVars
<1>9. ASSUME NEW x \in Objects, NEW g \in Coins, OutsideTx(x, g)
      PROVE  Typed'
  <2>1. PICK s \in [Items -> ObjectState] : Succeeds(s) /\ history' = Append(history, s)
    BY <1>9, OutsideOne
  <2>2. Len(history') = Len(history) + 1
    BY <2>1, HistoryGrows DEF Recorded, Grows
  <2>3. UNCHANGED <<used, refs, gasPayment, result, cache, gasCoin, lastDigest, node>>
    BY <1>9 DEF OutsideTx, callVars, cacheVars
  <2>4. untold' \subseteq 2..Len(history')
    BY <1>1, <1>2, <1>9, <2>2 DEF OutsideTx, Typed
  <2> QED
    BY <1>1, <1>2, <2>3, <2>4 DEF Typed
<1>10. ASSUME NEW n \in untold, NEW g \in Coins, ApplyOutside(n, g)
       PROVE  Typed'
  <2>1. n \in Nat
    BY <1>1 DEF Typed
  <2>2. /\ UNCHANGED <<used, refs, gasPayment, result, history, node>>
        /\ untold' \subseteq untold /\ ApplyAll(n, g)
    BY <1>10 DEF ApplyOutside, callVars
  <2> QED
    BY <1>1, <1>3, <2>1, <2>2 DEF Typed
<1>11. ASSUME NEW x \in App, AppCall(x)
       PROVE  Typed'
  BY <1>1, <1>4, <1>11 DEF AppCall, Typed, callVars, cacheVars, chainVars
<1>12. ASSUME NEW x \in App, AppCallDone(x)
       PROVE  Typed'
  BY <1>1, <1>5, <1>12 DEF AppCallDone, Typed, callVars, cacheVars, chainVars
<1>13. CASE UNCHANGED vars
  BY <1>1, <1>13 DEF Typed, vars, callVars, cacheVars, chainVars
<1> QED
  BY <1>6, <1>7, <1>8, <1>9, <1>10, <1>11, <1>12, <1>13 DEF Next

\* What a call has built, and its result, are its own business.
LEMMA OwnBusiness ==
  ASSUME Typed, [Next]_vars, NEW u \in Txs
  PROVE  /\ ~ReadCache(u) /\ ~Resolve(u) => refs'[u] = refs[u]
         /\ ~ReadCache(u) /\ ~Resolve(u) /\ ~Land(u) => gasPayment'[u] = gasPayment[u]
         /\ ~Land(u) => result'[u] = result[u]
         /\ pc[u] # "new" => used'[u] = used[u]
<1>1. /\ refs = [t \in Txs |-> refs[t]] /\ gasPayment \in [Txs -> SUBSET Coins]
      /\ result \in [Txs -> Nat] /\ used \in [Txs -> SUBSET Objects]
  BY DEF Typed
<1>2. ASSUME NEW t \in Txs, CallStep(t)
      PROVE  /\ ~ReadCache(u) /\ ~Resolve(u) => refs'[u] = refs[u]
             /\ ~ReadCache(u) /\ ~Resolve(u) /\ ~Land(u) => gasPayment'[u] = gasPayment[u]
             /\ ~Land(u) => result'[u] = result[u]
             /\ used' = used
  <2>1. CASE ReadCache(t)
    BY <1>1, <2>1 DEF ReadCache
  <2>2. CASE Resolve(t)
    BY <1>1, <2>2 DEF Resolve
  <2>3. CASE Land(t)
    <3>1. CASE u = t
      BY <2>3, <3>1 DEF Land
    <3>2. CASE u # t
      <4>1. \E g : gasPayment' = [gasPayment EXCEPT ![t] = {g}]
        BY <2>3 DEF Land
      <4>2. \E n : result' = [result EXCEPT ![t] = n]
        BY <2>3 DEF Land
      <4>3. refs' = refs /\ used' = used
        BY <2>3 DEF Land
      <4> QED
        BY <1>1, <3>2, <4>1, <4>2, <4>3
    <3> QED
      BY <3>1, <3>2
  <2>4. CASE ResolveFails(t) \/ Sign(t) \/ Refuse(t) \/ Answered(t) \/ AnswerLost(t)
             \/ Reset(t) \/ ResetDone(t)
    BY <2>4 DEF ResolveFails, Sign, Refuse, Answered, AnswerLost, Reset, ResetDone
  <2> QED
    BY <1>2, <2>1, <2>2, <2>3, <2>4 DEF CallStep
<1>3. ASSUME NEW t \in Txs, NEW objects \in Footprints, Execute(t, objects)
      PROVE  /\ UNCHANGED <<refs, gasPayment, result>>
             /\ pc[u] # "new" => used'[u] = used[u]
  BY <1>1, <1>3 DEF Execute
<1>4. ASSUME NodeSees \/ (\E x \in Objects, g \in Coins : OutsideTx(x, g))
             \/ (\E n \in untold, g \in Coins : ApplyOutside(n, g))
             \/ (\E x \in App : AppCall(x) \/ AppCallDone(x)) \/ UNCHANGED vars
      PROVE  UNCHANGED <<refs, gasPayment, result, used>>
  BY <1>4 DEF NodeSees, OutsideTx, ApplyOutside, AppCall, AppCallDone, vars, callVars
<1> QED
  BY <1>2, <1>3, <1>4 DEF Next

\* A transaction that is being built was so before, and goes on with what it
\* has, or has just read the cache or the full node.
LEMMA BuildsOn ==
  ASSUME Queued, Typed, [Next]_vars, NEW u \in Txs, pc'[u] \in {"resolve", "sign", "sent"}
  PROVE  \/ ReadCache(u) /\ pc'[u] = "resolve"
         \/ Resolve(u) /\ pc'[u] = "sign"
         \/ /\ pc[u] \in {"resolve", "sign", "sent"}
            /\ pc'[u] = "resolve" => pc[u] = "resolve"
            /\ refs'[u] = refs[u] /\ gasPayment'[u] = gasPayment[u] /\ used'[u] = used[u]
<1>1. pc \in [Txs -> Stages]
  BY QueueSays
<1>2. ReadCache(u) => pc'[u] = "resolve"
  BY <1>1 DEF ReadCache, Move
<1>3. Resolve(u) => pc'[u] = "sign"
  BY <1>1 DEF Resolve, Move
<1>4. CASE ~ReadCache(u) /\ ~Resolve(u)
  <2>1. \/ pc'[u] = pc[u]
        \/ pc[u] = "sign" /\ pc'[u] = "sent"
    <3>1. \A t \in Txs, objects \in Footprints :
            Execute(t, objects) => pc'[u] \in {"prepare", "inLine"} \/ pc'[u] = pc[u]
      BY <1>1 DEF Execute
    <3>2. ASSUME NEW t \in Txs, CallStep(t)
          PROVE  \/ pc'[u] = pc[u]
                 \/ pc[u] = "sign" /\ pc'[u] = "sent"
      <4>1. Leave(t) => pc'[u] = pc[u]
        BY DEF Leave
      <4>2. \A to : Move(t, to) => pc'[u] = pc[u] \/ (u = t /\ pc'[u] = to)
        BY <1>1 DEF Move
      <4>3. CASE u = t
        BY <1>4, <3>2, <4>1, <4>2, <4>3
           DEF CallStep, ResolveFails, Sign, Land, Refuse, Answered, AnswerLost, Reset, ResetDone
      <4>4. CASE u # t
        BY <3>2, <4>1, <4>2, <4>4
           DEF CallStep, ReadCache, Resolve, ResolveFails, Sign, Land, Refuse, Answered,
               AnswerLost, Reset, ResetDone
      <4> QED
        BY <4>3, <4>4
    <3>3. ASSUME NodeSees \/ (\E x \in Objects, g \in Coins : OutsideTx(x, g))
                 \/ (\E n \in untold, g \in Coins : ApplyOutside(n, g))
                 \/ (\E x \in App : AppCall(x) \/ AppCallDone(x)) \/ UNCHANGED vars
          PROVE  UNCHANGED pc
      BY <3>3 DEF NodeSees, OutsideTx, ApplyOutside, AppCall, AppCallDone, vars, callVars
    <3> QED
      BY <3>1, <3>2, <3>3 DEF Next
  <2>2. ~Land(u)
    BY <1>1 DEF Land, Move
  <2> QED
    BY <1>4, <2>1, <2>2, OwnBusiness
<1> QED
  BY <1>2, <1>3, <1>4

\* Whatever a transaction is to pay with is among its references.
LEMMA BuiltStays ==
  ASSUME Recorded, [Next]_vars
  PROVE  Built'
<1> SUFFICES ASSUME NEW u \in Txs, pc'[u] \in {"resolve", "sign", "sent"}
             PROVE  gasPayment'[u] \subseteq DOMAIN refs'[u]
  BY DEF Built, At
<1>1. Queued /\ Typed /\ Built
  BY DEF Recorded
<1>2. CASE ReadCache(u)
  BY <1>1, <1>2 DEF ReadCache, Typed
<1>3. CASE Resolve(u)
  <2>1. gasPayment'[u] = Payment(u)
    BY <1>1, <1>3 DEF Resolve, Typed
  <2>2. DOMAIN refs'[u] = DOMAIN refs[u] \union Unresolved(u)
                          \union (Payment(u) \ gasPayment[u])
    BY <1>1, <1>3 DEF Resolve, Typed, SetAll
  <2>3. gasPayment[u] \subseteq DOMAIN refs[u]
    BY <1>1, <1>3 DEF Built, At, Resolve
  <2> QED
    BY <2>1, <2>2, <2>3
<1>4. CASE ~ReadCache(u) /\ ~Resolve(u)
  BY <1>1, <1>4, BuildsOn DEF Built, At
<1> QED
  BY <1>2, <1>3, <1>4

\* Results come in the order of the history, one at a time.
LEMMA AnswersStay ==
  ASSUME Recorded, [Next]_vars
  PROVE  Answers'
<1>1. /\ Typed /\ Answers /\ Queued /\ pc \in [Txs -> Stages]
      /\ Len(history) \in Nat \ {0}
      /\ Len(history') \in Nat /\ Len(history) <= Len(history')
  BY ChainIs, GenuineStays, QueueSays DEF Recorded
<1>2. \A t \in Txs : result[t] \in Nat /\ (result[t] # 0 => result[t] <= Len(history))
  BY <1>1 DEF Typed, Answers
<1> SUFFICES ASSUME NEW u \in Txs
             PROVE  /\ result'[u] # 0 =>
                         /\ result'[u] \in 2..Len(history')
                         /\ pc'[u] \in {"landed", "failed", "waiting", "done"}
                         /\ pc'[u] \in {"failed", "waiting"} => May("reply")
                    /\ pc'[u] = "landed" =>
                         result'[u] # 0 /\ \A v \in Txs : result'[v] <= result'[u]
  BY DEF Answers
<1>3. Progress(u)
  BY <1>1, StepsProgress
<1>4. CASE Land(u)
  <2>1. /\ result' = [result EXCEPT ![u] = Len(history) + 1]
        /\ pc' = [pc EXCEPT ![u] = "landed"]
    BY <1>4 DEF Land, Move
  <2>2. Len(history') = Len(history) + 1
    BY <1>4, Landing, HistoryGrows DEF Recorded, Grows
  <2>3. result'[u] = Len(history) + 1 /\ \A v \in Txs \ {u} : result'[v] = result[v]
    BY <1>1, <2>1 DEF Typed
  <2>4. \A v \in Txs : result'[v] <= result'[u]
    BY <1>1, <1>2, <2>3
  <2> QED
    BY <1>1, <2>1, <2>2, <2>3, <2>4
<1>5. CASE ~Land(u)
  <2>1. result'[u] = result[u]
    BY <1>1, <1>5, OwnBusiness
  <2>2. result'[u] # 0 => result'[u] \in 2..Len(history')
    BY <1>1, <2>1 DEF Answers
  <2>3. result'[u] # 0 => /\ pc'[u] \in {"landed", "failed", "waiting", "done"}
                          /\ pc'[u] \in {"failed", "waiting"} => May("reply")
    BY <1>1, <1>3, <1>5, <2>1 DEF Answers, Progress, Early, AnswerLost
  <2>4. ASSUME pc'[u] = "landed"
        PROVE  result'[u] # 0 /\ \A v \in Txs : result'[v] <= result'[u]
    <3>1. pc[u] = "landed"
      BY <1>3, <1>5, <2>4 DEF Progress
    <3>2. \A v \in Txs : ~Land(v)
      BY <1>1, <3>1, Alone DEF Land, Running
    <3>3. \A v \in Txs : result'[v] = result[v]
      BY <1>1, <3>2, OwnBusiness
    <3> QED
      BY <1>1, <3>1, <3>3 DEF Answers
  <2> QED
    BY <2>2, <2>3, <2>4
<1> QED
  BY <1>4, <1>5

\* At first nothing has been recorded.
LEMMA RecordBegins == ASSUME Init PROVE Recorded
<1> DEFINE s == [x \in Items |-> [version |-> 1, owner |-> "signer"]]
<1>1. Queued
  BY QueueBegins
<1>2. history = <<s>> /\ s \in [Items -> ObjectState]
  BY DEF Init, ObjectState, Owners
<1>3. /\ history \in Seq([Items -> ObjectState]) /\ history # <<>>
      /\ Len(history) = 1 /\ history[1] = s
  BY <1>2
<1>4. Genuine
  BY <1>2, <1>3 DEF Genuine
<1>5. Typed
  BY <1>3, EmptyQueue DEF Init, Typed, Empty
<1>6. Built /\ Answers /\ Fated
  BY <1>2, <1>3 DEF Init, Built, Answers, Fated, At
<1> QED
  BY <1>1, <1>4, <1>5, <1>6 DEF Recorded

\* Every step keeps the record.
LEMMA RecordStays == Recorded /\ [Next]_vars => Recorded'
<1> SUFFICES ASSUME Recorded, [Next]_vars PROVE Recorded'
  OBVIOUS
<1>1. Queued'
  BY StepsTurn, TurnsQueue DEF Recorded
<1> QED
  BY <1>1, GenuineStays, TypedStays, BuiltStays, AnswersStay DEF Recorded

-----------------------------------------------------------------------------
(* The cache is current.                                                    *)

\* Nothing the cache knows has been replaced by the transaction of u.
Fresh(u) ==
  /\ \A x \in DOMAIN cache.OwnedObject :
       x \in Changed(result[u]) => ~(result[u] > cache.OwnedObject[x])
  /\ gasCoin # NoCoin =>
       (gasCoin.id \in Changed(result[u]) => ~(result[u] > gasCoin.version))

\* That holds of every transaction whose outcome has been learnt.
Current ==
  /\ \A x \in DOMAIN cache.OwnedObject : cache.OwnedObject[x] \in Nat
  /\ \A u \in Txs : result[u] # 0 /\ pc[u] \notin {"landed", "failed"} => Fresh(u)

\* No object loses its owner, and effects that the application applies do not
\* meet calls that were executed but failed.
OwnersStay == "frozen" \notin Fates
InOrder == "apply" \notin App \/ "reply" \notin Faults

\* What the effects of transaction n leave in the cache.
LEMMA Applied ==
  ASSUME Recorded, OwnersStay, NEW n \in 2..Len(history), NEW g, ApplyAll(n, g)
  PROVE  /\ gasCoin' = [id |-> g, version |-> n]
         /\ \A x \in DOMAIN cache'.OwnedObject :
              IF x \in Changed(n) THEN cache'.OwnedObject[x] = n
              ELSE /\ x \in DOMAIN cache.OwnedObject
                   /\ cache'.OwnedObject[x] = cache.OwnedObject[x]
         /\ \A x \in DOMAIN cache.OwnedObject \union Changed(n) :
              x \in DOMAIN cache'.OwnedObject \/ history[n][x].owner = "gone"
         /\ DOMAIN cache'.SharedOrImmutable \subseteq DOMAIN cache.SharedOrImmutable
<1> DEFINE e == Effects(n)
           gone == { x \in Changed(n) : history[n][x].owner = "gone" }
           kept == Changed(n) \ gone
           o == cache.OwnedObject
           d == cache.SharedOrImmutable
<1>1. \A x \in Changed(n) : /\ x \in Items /\ history[n][x].version = n
                            /\ history[n][x].owner \in Owners \ {"frozen"}
  <2>1. \A x \in Changed(n) : x \in Items
    BY DEF Changed
  <2>2. history[n] \in [Items -> ObjectState]
    BY ChainIs DEF Recorded
  <2>3. \A x \in Items : history[n][x].owner # "frozen"
    BY ChainIs DEF Recorded, Fated, OwnersStay
  <2> QED
    BY <2>1, <2>2, <2>3 DEF Recorded, Genuine, ObjectState
<1>2. /\ e.written = [x \in kept |-> history[n][x]] /\ e.removed = gone
      /\ DOMAIN e.written = kept
  BY DEF Effects
<1>3. { x \in DOMAIN e.written : HasOwner(e.written[x]) } = kept
  BY <1>1, <1>2 DEF HasOwner, Owners
<1>4. /\ Versions(e.written, kept) = [x \in kept |-> n]
      /\ Versions(e.written, kept \ kept) = [x \in {} |-> 0]
  BY <1>1, <1>2 DEF Versions
<1>5. /\ AddObjects(cache, e.written).OwnedObject = SetAll(o, [x \in kept |-> n])
      /\ AddObjects(cache, e.written).SharedOrImmutable = SetAll(d, [x \in {} |-> 0])
  BY <1>2, <1>3, <1>4 DEF AddObjects
<1>6. /\ cache'.OwnedObject = DeleteAll(SetAll(o, [x \in kept |-> n]), gone)
      /\ cache'.SharedOrImmutable = DeleteAll(SetAll(d, [x \in {} |-> 0]), gone)
  BY <1>2, <1>5 DEF ApplyAll, ApplyEffects, DeleteObjects
<1>7. /\ DOMAIN cache'.OwnedObject = (DOMAIN o \union kept) \ gone
      /\ \A x \in DOMAIN cache'.OwnedObject :
           cache'.OwnedObject[x] = IF x \in kept THEN n ELSE o[x]
      /\ DOMAIN cache'.SharedOrImmutable = DOMAIN d \ gone
  BY <1>6 DEF DeleteAll, SetAll
<1>8. gasCoin' = [id |-> g, version |-> n]
  BY DEF ApplyAll
<1> QED
  BY <1>7, <1>8

\* What a step does to the cache.
LEMMA StepsCache ==
  ASSUME [Next]_vars
  PROVE  \/ \E t \in Txs : Answered(t)
         \/ \E n \in untold, g \in Coins : ApplyOutside(n, g)
         \/ ClearCaches /\ ((\E t \in Txs : Reset(t)) \/ (\E x \in App : AppCall(x)))
         \/ UNCHANGED cacheVars
<1>1. \A t \in Txs, objects \in Footprints : Execute(t, objects) => UNCHANGED cacheVars
  BY DEF Execute
<1>2. ASSUME NEW t \in Txs, CallStep(t)
      PROVE  \/ Answered(t) \/ UNCHANGED cacheVars
             \/ ClearCaches /\ Reset(t)
  <2>1. Reset(t) => ClearCaches
    BY DEF Reset
  <2>2. ReadCache(t) \/ Resolve(t) \/ ResolveFails(t) \/ Sign(t) \/ Land(t) \/ Refuse(t)
        \/ AnswerLost(t) \/ ResetDone(t) => UNCHANGED cacheVars
    BY DEF ReadCache, Resolve, ResolveFails, Sign, Land, Refuse, AnswerLost, ResetDone
  <2> QED
    BY <1>2, <2>1, <2>2 DEF CallStep
<1>3. NodeSees \/ (\E x \in Objects, g \in Coins : OutsideTx(x, g))
      \/ (\E x \in App : AppCallDone(x)) \/ UNCHANGED vars => UNCHANGED cacheVars
  BY DEF NodeSees, OutsideTx, AppCallDone, vars
<1>4. \A x \in App : AppCall(x) => ClearCaches \/ UNCHANGED cacheVars
  BY DEF AppCall
<1> QED
  BY <1>1, <1>2, <1>3, <1>4 DEF Next

\* What it holds are versions.
LEMMA VersionsStay ==
  ASSUME OwnersStay, Recorded, [Next]_vars,
         \A x \in DOMAIN cache.OwnedObject : cache.OwnedObject[x] \in Nat
  PROVE  \A x \in DOMAIN cache'.OwnedObject : cache'.OwnedObject[x] \in Nat
<1>1. /\ Queued /\ Typed /\ Answers /\ Len(history) \in Nat
  BY ChainIs DEF Recorded
<1>2. ASSUME NEW n \in 2..Len(history), NEW g, ApplyAll(n, g)
      PROVE  \A x \in DOMAIN cache'.OwnedObject : cache'.OwnedObject[x] \in Nat
  BY <1>1, <1>2, Applied
<1>3. \A t \in Txs : Answered(t) => \E n \in 2..Len(history), g \in Coins : ApplyAll(n, g)
  BY <1>1 DEF Answered, Answers, Typed
<1>4. \A n \in untold, g \in Coins : ApplyOutside(n, g) => n \in 2..Len(history) /\ ApplyAll(n, g)
  BY <1>1 DEF ApplyOutside, Typed
<1>5. ClearCaches => DOMAIN cache'.OwnedObject = {}
  BY <1>1 DEF ClearCaches, ClearOwnedObjects, Typed, Nothing
<1>6. CASE UNCHANGED cacheVars
  BY <1>6 DEF cacheVars
<1> QED
  BY <1>2, <1>3, <1>4, <1>5, <1>6, StepsCache

\* The cache stays current whoever resets it, and whatever is applied to it.
LEMMA CurrentStays ==
  ASSUME OwnersStay, InOrder, Recorded, Current, [Next]_vars
  PROVE  Current'
<1> SUFFICES ASSUME NEW u \in Txs, result'[u] # 0, pc'[u] \notin {"landed", "failed"}
             PROVE  Fresh(u)'
  BY VersionsStay DEF Current
<1>1. /\ Queued /\ Typed /\ Answers /\ Progress(u)
      /\ Len(history) \in Nat \ {0} /\ \A t \in Txs : result[t] \in Nat
  BY ChainIs, StepsProgress DEF Recorded, Typed
<1>2. ~Land(u)
  BY <1>1 DEF Land, Move, Queued
<1>3. result'[u] = result[u] /\ result[u] \in 2..Len(history)
  BY <1>1, <1>2, OwnBusiness DEF Answers
<1>4. Changed(result[u])' = Changed(result[u])
  <2>1. PICK r : r = result[u]
    OBVIOUS
  <2>2. Changed(r)' = Changed(r)
    BY <1>3, <2>1, GenuineStays
  <2> QED
    BY <1>3, <2>1, <2>2
<1>5. CASE \E t \in Txs : Answered(t)
  <2>1. PICK t \in Txs : Answered(t)
    BY <1>5
  <2>2. PICK g \in gasPayment[t] : ApplyAll(result[t], g)
    BY <2>1 DEF Answered
  <2>3. pc[t] = "landed"
    BY <2>1 DEF Answered
  <2>4. result[t] \in 2..Len(history) /\ result[u] <= result[t]
    BY <1>1, <2>3 DEF Answers
  <2>5. u # t => Fresh(u)
    BY <1>1, <1>3, <2>3, Alone DEF Current, Running
  <2>6. PICK n : n = result[t]
    OBVIOUS
  <2>7. /\ gasCoin' = [id |-> g, version |-> n]
        /\ \A x \in DOMAIN cache'.OwnedObject :
              IF x \in Changed(n) THEN cache'.OwnedObject[x] = n
              ELSE /\ x \in DOMAIN cache.OwnedObject
                   /\ cache'.OwnedObject[x] = cache.OwnedObject[x]
    BY <2>2, <2>4, <2>6, Applied
  <2>8. ~(result[u] > n)
    BY <1>3, <2>4, <2>6
  <2>9. ASSUME NEW x \in DOMAIN cache'.OwnedObject, x \in Changed(result[u])
        PROVE  ~(result[u] > cache'.OwnedObject[x])
    BY <2>5, <2>6, <2>7, <2>8, <2>9 DEF Fresh
  <2> QED
    BY <1>3, <1>4, <2>7, <2>8, <2>9 DEF Fresh
<1>6. CASE \E n \in untold, g \in Coins : ApplyOutside(n, g)
  <2>1. PICK n \in untold, g \in Coins : ApplyOutside(n, g)
    BY <1>6
  <2>2. n \in 2..Len(history) /\ ApplyAll(n, g) /\ "apply" \in App /\ pc' = pc
    BY <1>1, <2>1 DEF Typed, ApplyOutside, callVars
  <2>3. pc[u] = "done"
    BY <1>1, <1>3, <2>2 DEF Answers, InOrder, May
  <2>4. result[u] < n /\ Fresh(u)
    BY <1>3, <2>1, <2>3 DEF ApplyOutside, At, Current
  <2>5. /\ gasCoin' = [id |-> g, version |-> n]
        /\ \A x \in DOMAIN cache'.OwnedObject :
              IF x \in Changed(n) THEN cache'.OwnedObject[x] = n
              ELSE /\ x \in DOMAIN cache.OwnedObject
                   /\ cache'.OwnedObject[x] = cache.OwnedObject[x]
    BY <2>2, Applied
  <2>6. ~(result[u] > n)
    BY <1>3, <2>2, <2>4
  <2>7. ASSUME NEW x \in DOMAIN cache'.OwnedObject, x \in Changed(result[u])
        PROVE  ~(result[u] > cache'.OwnedObject[x])
    BY <2>4, <2>5, <2>6, <2>7 DEF Fresh
  <2> QED
    BY <1>3, <1>4, <2>5, <2>6, <2>7 DEF Fresh
<1>7. CASE ClearCaches
  <2>1. DOMAIN cache'.OwnedObject = {} /\ gasCoin' = NoCoin
    BY <1>1, <1>7 DEF ClearCaches, ClearOwnedObjects, Typed, Nothing
  <2> QED
    BY <2>1 DEF Fresh
<1>8. CASE UNCHANGED cacheVars /\ ~Answered(u) /\ ~ClearCaches
  <2>1. pc[u] \notin {"landed", "failed"}
    BY <1>1, <1>2, <1>8 DEF Progress, Reset, Early
  <2>2. Fresh(u)
    BY <1>3, <2>1 DEF Current
  <2> QED
    BY <1>3, <1>4, <1>8, <2>2 DEF Fresh, cacheVars
<1> QED
  BY <1>5, <1>6, <1>7, <1>8, StepsCache

\* Whatever answers are lost, whenever waits time out or the application resets
\* the cache, it holds nothing the executor has replaced, unless the outcome of
\* a call is still to be learnt or its failure to be handled (caching.ts:60-88,
\* 113-138, 151-158; serial.ts:109-165).
THEOREM CacheStaysCurrent ==
  ASSUME OwnersStay, InOrder PROVE Spec => []CacheIsCurrent
<1>1. Init => Recorded /\ Current
  BY RecordBegins DEF Init, Current, Empty, Nothing
<1>2. Recorded /\ Current /\ [Next]_vars => Recorded' /\ Current'
  BY RecordStays, CurrentStays
<1>3. Recorded /\ Current => CacheIsCurrent
  <2> SUFFICES ASSUME Recorded, Current, At({"landed", "failed"}) = {}
               PROVE  /\ \A x \in DOMAIN cache.OwnedObject : ~Outdated(x, cache.OwnedObject[x])
                      /\ gasCoin # NoCoin => ~Outdated(gasCoin.id, gasCoin.version)
    BY DEF CacheIsCurrent
  <2>1. /\ \A u \in Txs : result[u] # 0 => Fresh(u)
        /\ \A x \in DOMAIN cache.OwnedObject : cache.OwnedObject[x] \in Nat
        /\ gasCoin # NoCoin => gasCoin.version \in Nat
    BY DEF Recorded, Typed, Current, At
  <2>2. ASSUME NEW u \in Txs, NEW v \in Nat, result[u] > v
        PROVE  result[u] # 0
    BY <2>2 DEF Recorded, Typed
  <2> QED
    BY <2>1, <2>2 DEF Outdated, Fresh
<1> QED
  BY <1>1, <1>2, <1>3, PTL DEF Spec

-----------------------------------------------------------------------------
(* Nothing signed is stale.                                                 *)

\* Transactions freeze nothing; no answer is lost and no wait times out; the
\* application applies effects and does nothing else.
Reliable ==
  /\ App \subseteq {"apply"}
  /\ "frozen" \notin Fates
  /\ Faults \subseteq {"resolve", "send"}

\* The calls whose effects have been applied, and those the full node has not
\* seen although they changed x.
Past == { u \in At({"done"}) : result[u] # 0 }
Seen(u) == result[u] <= node
Missed(u, x) == x \in Changed(result[u]) /\ ~Seen(u)
Gone(x) == Chain[x].owner = "gone"
Nobody(stage) == At({stage}) = {}

\* Only a reset that has not ended awaits anything.
Waits ==
  /\ awaited \in [Txs \union App -> Nat]
  /\ \A x \in Txs \union App : awaited[x] # 0 => x \in Txs /\ pc[x] = "waiting"

\* What the full node has not seen is remembered, or awaited by a reset.
Remembered ==
  \A u \in Past : ~Seen(u) =>
    /\ Nobody("waiting") => result[u] <= lastDigest
    /\ \A w \in At({"waiting"}) : result[u] <= awaited[w]

\* Outside of a reset, what the cache does not know the full node has seen.
Known ==
  Nobody("waiting") =>
    \A u \in Past :
      /\ \A x \in Items \ DOMAIN cache.OwnedObject : Missed(u, x) => Gone(x)
      /\ gasCoin = NoCoin => Seen(u)

\* So has it what a transaction that is being built takes from it.
Resolvable ==
  \A t \in At({"resolve"}) : \A u \in Past :
    /\ \A x \in Unresolved(t) : Missed(u, x) => Gone(x)
    /\ gasPayment[t] = {} => Seen(u)

\* The references a transaction is built with are current, those to objects
\* that exist no more excepted.
ReferencesCurrent ==
  \A t \in At({"resolve", "sign", "sent"}) : \A x \in DOMAIN refs[t] :
    /\ refs[t][x] \in Nat
    /\ \A u \in Past : x \in Changed(result[u]) /\ result[u] > refs[t][x] =>
                         x \notin gasPayment[t] /\ Gone(x)

NothingShared == DOMAIN cache.SharedOrImmutable = {}

Steady ==
  /\ Waits /\ NothingShared
  /\ Remembered /\ Known /\ Resolvable /\ ReferencesCurrent

\* What has been applied stays so, and only answers add to it.
LEMMA PastStays ==
  ASSUME Recorded, [Next]_vars, NEW u \in Past'
  PROVE  /\ u \in Txs /\ pc'[u] = "done" /\ ~Land(u)
         /\ result'[u] = result[u] /\ result[u] \in 2..Len(history)
         /\ Changed(result[u])' = Changed(result[u])
         /\ u \in Past \/ (pc[u] \in {"failed", "waiting"} /\ May("reply"))
                       \/ (pc[u] = "landed" /\ Answered(u))
<1>1. u \in Txs /\ pc'[u] = "done" /\ result'[u] # 0
  BY DEF Past, At
<1>2. Queued /\ Typed /\ Answers /\ Progress(u)
  BY <1>1, StepsProgress DEF Recorded
<1>3. ~Land(u)
  BY <1>1, <1>2 DEF Land, Move, Queued
<1>4. result'[u] = result[u] /\ result[u] \in 2..Len(history)
  BY <1>1, <1>2, <1>3, OwnBusiness DEF Answers
<1>5. Changed(result[u])' = Changed(result[u])
  <2>1. PICK r : r = result[u]
    OBVIOUS
  <2>2. Changed(r)' = Changed(r)
    BY <1>4, <2>1, GenuineStays
  <2> QED
    BY <1>4, <2>1, <2>2
<1>6. u \in Past \/ (pc[u] \in {"failed", "waiting"} /\ May("reply"))
                 \/ (pc[u] = "landed" /\ Answered(u))
  BY <1>1, <1>2, <1>3, <1>4 DEF Past, At, Answers, Progress, Early
<1> QED
  BY <1>1, <1>3, <1>4, <1>5, <1>6

\* The full node sees more and more, and what is gone stays gone.
LEMMA WorldGrows ==
  ASSUME Recorded, [Next]_vars
  PROVE  /\ node \in Nat /\ node' \in Nat /\ node <= node'
         /\ \A x \in Items : Gone(x) => Gone(x)'
<1>1. node \in 1..Len(history) /\ node' \in 1..Len(history')
  BY TypedStays DEF Recorded, Typed
<1>2. Len(history) \in Nat \ {0} /\ Len(history') \in Nat /\ Len(history) <= Len(history')
  BY ChainIs, GenuineStays DEF Recorded
<1>3. node' = node \/ node' = node + 1
  <2>1. \A t \in Txs, objects \in Footprints : Execute(t, objects) => node' = node
    BY DEF Execute, chainVars
  <2>2. \A t \in Txs : CallStep(t) => node' = node
    BY DEF CallStep, ReadCache, Resolve, ResolveFails, Sign, Land, Refuse, Answered,
           AnswerLost, Reset, ResetDone, chainVars
  <2>3. NodeSees \/ (\E x \in Objects, g \in Coins : OutsideTx(x, g))
        \/ (\E n \in untold, g \in Coins : ApplyOutside(n, g))
        \/ (\E x \in App : AppCall(x) \/ AppCallDone(x)) \/ UNCHANGED vars
        => node' = node \/ node' = node + 1
    BY DEF NodeSees, OutsideTx, ApplyOutside, AppCall, AppCallDone, vars, chainVars
  <2> QED
    BY <2>1, <2>2, <2>3 DEF Next
<1>4. \A x \in Items : Gone(x) => Gone(x)'
  <2>1. PICK k, m : k = Len(history) /\ m = Len(history')
    OBVIOUS
  <2>2. /\ k \in 1..m /\ m \in 1..m /\ k <= m
        /\ history'[k] = history[k]
    BY <1>2, <2>1, GenuineStays
  <2>3. \A x \in Items : history'[k][x].owner = "gone" => history'[m][x].owner = "gone"
    BY <2>1, <2>2, GenuineStays DEF Genuine
  <2> QED
    BY <2>1, <2>2, <2>3 DEF Gone, Chain
<1> QED
  BY <1>1, <1>2, <1>3, <1>4

\* What is seen, or not missed, stays so.
LEMMA SeenStays ==
  ASSUME Recorded, [Next]_vars, NEW u \in Past'
  PROVE  /\ Seen(u) => Seen(u)'
         /\ \A x : Missed(u, x)' => Missed(u, x)
<1>1. node \in Nat /\ node' \in Nat /\ node <= node'
  BY WorldGrows
<1>2. /\ result'[u] = result[u] /\ result[u] \in Nat
      /\ Changed(result[u])' = Changed(result[u])
  BY PastStays DEF Recorded, Typed
<1>3. Seen(u) => Seen(u)'
  BY <1>1, <1>2 DEF Seen
<1> QED
  BY <1>2, <1>3 DEF Missed

\* Under these conditions a call that failed was never executed, and nothing
\* but an answer or effects the application applies adds to the cache.
LEMMA ReliableCalls ==
  ASSUME Reliable, Recorded, Waits, [Next]_vars
  PROVE  /\ OwnersStay /\ InOrder
         /\ ~May("reply") /\ ~May("wait")
         /\ \A u \in Past' : u \in Past \/ (pc[u] = "landed" /\ Answered(u))
         /\ \A x \in App : ~AppCall(x) /\ ~AppCallDone(x)
<1>1. OwnersStay /\ InOrder /\ ~May("reply") /\ ~May("wait")
  BY DEF Reliable, OwnersStay, InOrder, May
<1>2. \A u \in Past' : u \in Past \/ (pc[u] = "landed" /\ Answered(u))
  BY <1>1, PastStays
<1>3. \A x \in App : ~AppCall(x) /\ ~AppCallDone(x)
  BY InputsAssumption DEF Reliable, AppCall, AppCallDone, EndWait, Waits
<1> QED
  BY <1>1, <1>2, <1>3

\* A call that waits has reset the cache.
LEMMA WaitingCalls ==
  ASSUME Queued, [Next]_vars, NEW w \in Txs
  PROVE  /\ pc'[w] = "waiting" => (pc[w] = "waiting" /\ ~ResetDone(w)) \/ Reset(w)
         /\ pc[w] = "waiting" => pc'[w] = "waiting" \/ ResetDone(w)
<1>1. Progress(w)
  BY StepsProgress
<1>2. ResetDone(w) => pc'[w] = "done"
  BY Leaving DEF ResetDone, Leaves, Running
<1>3. Land(w) => pc'[w] = "landed"
  BY DEF Land, Move, Queued
<1> QED
  BY <1>1, <1>2, <1>3 DEF Progress, Early

\* What a step does to the digest to be waited for.
LEMMA StepsAwait ==
  ASSUME [Next]_vars, \A x \in App : ~AppCall(x) /\ ~AppCallDone(x)
  PROVE  /\ \/ awaited' = awaited
            \/ \E t \in Txs : Reset(t) \/ ResetDone(t)
         /\ \/ lastDigest' = lastDigest
            \/ \E t \in Txs : Answered(t) \/ ResetDone(t)
            \/ \E n \in untold, g \in Coins : ApplyOutside(n, g)
<1>1. \A t \in Txs, objects \in Footprints : Execute(t, objects) =>
        UNCHANGED <<awaited, lastDigest>>
  BY DEF Execute
<1>2. \A t \in Txs : CallStep(t) =>
        /\ awaited' = awaited \/ Reset(t) \/ ResetDone(t)
        /\ lastDigest' = lastDigest \/ Answered(t) \/ ResetDone(t)
  BY DEF CallStep, ReadCache, Resolve, ResolveFails, Sign, Land, Refuse, Answered, AnswerLost,
         Reset
<1>3. NodeSees \/ (\E x \in Objects, g \in Coins : OutsideTx(x, g)) \/ UNCHANGED vars =>
        UNCHANGED <<awaited, lastDigest>>
  BY DEF NodeSees, OutsideTx, vars
<1>4. \A n \in untold, g \in Coins : ApplyOutside(n, g) => awaited' = awaited
  BY DEF ApplyOutside
<1> QED
  BY <1>1, <1>2, <1>3, <1>4 DEF Next

\* Only a call in the middle of its reset awaits.
LEMMA WaitsStay ==
  ASSUME Reliable, Recorded, Waits, [Next]_vars
  PROVE  Waits'
<1>1. Queued /\ Typed /\ Txs \intersect App = {} /\ pc \in [Txs -> Stages]
  BY InputsAssumption, QueueSays DEF Recorded
<1>2. /\ awaited \in [Txs \union App -> Nat]
      /\ \A x \in Txs \union App : awaited[x] # 0 => x \in Txs /\ pc[x] = "waiting"
  BY DEF Waits
<1>3. ASSUME NEW t \in Txs, Reset(t)
      PROVE  Waits'
  <2>1. /\ pc[t] = "failed" /\ awaited' = [awaited EXCEPT ![t] = lastDigest]
        /\ lastDigest = 0 \/ pc'[t] = "waiting"
    BY <1>1, <1>3 DEF Reset, ToAwait, Move
  <2>2. \A x \in (Txs \union App) \ {t} : awaited[x] = 0
    BY <1>1, <1>2, <2>1, Alone DEF Running
  <2> QED
    BY <1>1, <1>2, <2>1, <2>2 DEF Waits, Typed
<1>4. ASSUME NEW t \in Txs, ResetDone(t)
      PROVE  Waits'
  <2>1. pc[t] = "waiting" /\ awaited' = [awaited EXCEPT ![t] = 0]
    BY <1>4 DEF ResetDone, EndWait
  <2>2. \A x \in (Txs \union App) \ {t} : awaited[x] = 0
    BY <1>1, <1>2, <2>1, Alone DEF Running
  <2> QED
    BY <1>1, <1>2, <2>1, <2>2 DEF Waits
<1>5. CASE awaited' = awaited /\ \A t \in Txs : ~ResetDone(t)
  BY <1>1, <1>2, <1>5, WaitingCalls DEF Waits
<1> QED
  BY <1>3, <1>4, <1>5, StepsAwait, ReliableCalls

\* No step shares an object.
LEMMA NothingSharedStays ==
  ASSUME Reliable, Recorded, Waits, NothingShared, [Next]_vars
  PROVE  NothingShared'
<1>1. OwnersStay /\ Typed /\ Answers
  BY ReliableCalls DEF Recorded
<1>2. ASSUME NEW n \in 2..Len(history), NEW g, ApplyAll(n, g)
      PROVE  NothingShared'
  BY <1>1, <1>2, Applied DEF NothingShared
<1>3. \A t \in Txs : Answered(t) => \E n \in 2..Len(history), g \in Coins : ApplyAll(n, g)
  BY <1>1 DEF Answered, Answers, Typed
<1>4. \A n \in untold, g \in Coins : ApplyOutside(n, g) => n \in 2..Len(history) /\ ApplyAll(n, g)
  BY <1>1 DEF ApplyOutside, Typed
<1>5. ClearCaches => cache'.SharedOrImmutable = cache.SharedOrImmutable
  BY <1>1 DEF ClearCaches, ClearOwnedObjects, Typed
<1>6. CASE cache'.SharedOrImmutable = cache.SharedOrImmutable
  BY <1>6 DEF NothingShared
<1>7. UNCHANGED cacheVars => cache'.SharedOrImmutable = cache.SharedOrImmutable
  BY DEF cacheVars
<1> QED
  BY <1>2, <1>3, <1>4, <1>5, <1>6, <1>7, StepsCache

\* When a reset ends, or has nothing to wait for, all has been seen.
LEMMA ResetSees ==
  ASSUME Reliable, Recorded, Waits, Remembered, [Next]_vars,
         NEW t \in Txs, (Reset(t) /\ Nobody("waiting")') \/ ResetDone(t), NEW u \in Past'
  PROVE  u \in Past /\ Seen(u)
<1>1. /\ Queued /\ Typed /\ ~May("wait")
      /\ u \in Past \/ pc[u] = "landed"
      /\ pc[t] \in {"failed", "waiting"} /\ u \in Txs
  BY ReliableCalls, PastStays DEF Recorded, Reset, ResetDone
<1>2. u \in Past
  BY <1>1, Alone DEF Running
<1>3. result[u] \in Nat \ {0} /\ node \in Nat /\ lastDigest \in Nat
  BY <1>1, <1>2, WorldGrows DEF Past, Typed
<1>4. CASE Reset(t) /\ Nobody("waiting")'
  <2>1. pc[t] = "failed" /\ Nobody("waiting")
    BY <1>1, <1>4, Alone DEF Reset, Nobody, At, Running
  <2>2. lastDigest = 0
    <3>1. Move(t, "waiting") => pc'[t] = "waiting"
      BY <1>1 DEF Move, Queued
    <3> QED
      BY <1>4, <3>1 DEF Reset, ToAwait, Nobody, At
  <2> QED
    BY <1>2, <1>3, <2>1, <2>2 DEF Remembered, Seen
<1>5. CASE ResetDone(t)
  <2>1. t \in At({"waiting"}) /\ awaited[t] <= node /\ awaited[t] \in Nat
    BY <1>1, <1>5 DEF ResetDone, EndWait, At, Waits
  <2> QED
    BY <1>2, <1>3, <2>1 DEF Remembered, Seen
<1> QED
  BY <1>4, <1>5

\* The last digest, or the one a reset awaits, is as large as any result that
\* has not been seen.
LEMMA RememberedStays ==
  ASSUME Reliable, Recorded, Waits, Remembered, [Next]_vars
  PROVE  Remembered'
<1> SUFFICES ASSUME NEW u \in Past', ~Seen(u)'
             PROVE  /\ Nobody("waiting")' => result'[u] <= lastDigest'
                    /\ \A w \in At({"waiting"})' : result'[u] <= awaited'[w]
  BY DEF Remembered
<1>1. /\ Queued /\ Typed /\ Answers /\ u \in Txs
      /\ result'[u] = result[u] /\ result[u] \in Nat /\ ~Seen(u)
      /\ u \in Past \/ (pc[u] = "landed" /\ Answered(u))
      /\ pc \in [Txs -> Stages]
  BY ReliableCalls, PastStays, SeenStays, QueueSays DEF Recorded, Typed
<1>2. CASE \E t \in Txs : Answered(t)
  <2>1. PICK t \in Txs : Answered(t)
    BY <1>2
  <2>2. pc[t] = "landed" /\ lastDigest' = result[t] /\ result[u] <= result[t]
    BY <1>1, <2>1 DEF Answered, ApplyAll, Answers
  <2>3. At({"waiting"})' = {}
    BY <1>1, <2>2, WaitingCalls, Alone DEF At, Running, Reset
  <2> QED
    BY <1>1, <2>2, <2>3
<1>3. CASE \E n \in untold, g \in Coins : ApplyOutside(n, g)
  <2>1. PICK n \in untold, g \in Coins : ApplyOutside(n, g)
    BY <1>3
  <2>2. n \in Nat /\ lastDigest' = n /\ awaited' = awaited /\ pc' = pc /\ UNCHANGED result
    BY <1>1, <2>1 DEF ApplyOutside, ApplyAll, callVars, Typed
  <2>3. u \in Past
    BY <2>2 DEF Past, At
  <2>4. result[u] < n
    BY <2>1, <2>3 DEF ApplyOutside, Past
  <2>5. At({"waiting"})' = At({"waiting"})
    BY <2>2 DEF At
  <2> QED
    BY <1>1, <2>2, <2>3, <2>4, <2>5 DEF Remembered
<1>4. CASE \E t \in Txs : Reset(t)
  <2>1. PICK t \in Txs : Reset(t)
    BY <1>4
  <2>2. pc[t] = "failed" /\ awaited' = [awaited EXCEPT ![t] = lastDigest]
    BY <2>1 DEF Reset, ToAwait
  <2>3. Nobody("waiting") /\ u \in Past /\ ~Nobody("waiting")'
    BY <1>1, <2>1, <2>2, Alone, ResetSees DEF Nobody, At, Running
  <2>4. result[u] <= lastDigest
    BY <1>1, <2>3 DEF Remembered
  <2>5. \A w \in At({"waiting"})' : w = t
    BY <1>1, <2>2, <2>3, WaitingCalls, Alone DEF Nobody, At, Running, Reset
  <2>6. awaited'[t] = lastDigest
    BY <2>2 DEF Waits
  <2> QED
    BY <1>1, <2>3, <2>4, <2>5, <2>6
<1>5. CASE \E t \in Txs : ResetDone(t)
  BY <1>1, <1>5, ResetSees
<1>6. CASE awaited' = awaited /\ lastDigest' = lastDigest
           /\ \A t \in Txs : ~Answered(t) /\ ~Reset(t) /\ ~ResetDone(t)
  <2>1. At({"waiting"})' = At({"waiting"})
    BY <1>6, <1>1, WaitingCalls DEF At
  <2>2. u \in Past
    BY <1>1, <1>6
  <2> QED
    BY <1>1, <1>6, <2>1, <2>2 DEF Remembered, Nobody
<1> QED
  BY <1>2, <1>3, <1>4, <1>5, <1>6, StepsAwait, ReliableCalls

\* What is applied to the cache is known from then on.
LEMMA AppliedIsKnown ==
  ASSUME OwnersStay, Recorded, [Next]_vars, NEW n \in 2..Len(history), NEW g, ApplyAll(n, g),
         UNCHANGED history
  PROVE  /\ gasCoin' # NoCoin
         /\ \A x \in Items \ DOMAIN cache'.OwnedObject :
              x \in DOMAIN cache.OwnedObject \union Changed(n) => Gone(x)'
<1>1. Len(history) \in Nat /\ Genuine
  BY ChainIs DEF Recorded
<1>2. gasCoin' = [id |-> g, version |-> n]
  BY Applied
<1>3. n # 0
  BY <1>1
<1>4. ASSUME NEW x \in Items \ DOMAIN cache'.OwnedObject,
             x \in DOMAIN cache.OwnedObject \union Changed(n)
      PROVE  Gone(x)'
  <2>1. history[n][x].owner = "gone"
    BY <1>4, Applied
  <2>2. n <= Len(history) /\ Len(history) \in 1..Len(history) /\ n \in 1..Len(history)
    BY <1>1
  <2>3. Gone(x)
    BY <1>1, <2>1, <2>2 DEF Genuine, Gone, Chain
  <2> QED
    BY <2>3, WorldGrows
<1> QED
  BY <1>2, <1>3, <1>4 DEF NoCoin

\* What the cache does not know has been seen, or is gone.
LEMMA KnownStays ==
  ASSUME Reliable, Recorded, Waits, Remembered, Known, [Next]_vars
  PROVE  Known'
<1> SUFFICES ASSUME Nobody("waiting")', NEW u \in Past'
             PROVE  /\ \A x \in Items \ DOMAIN cache'.OwnedObject : Missed(u, x)' => Gone(x)'
                    /\ gasCoin' = NoCoin => Seen(u)'
  BY DEF Known
<1>1. /\ Queued /\ Typed /\ Answers /\ u \in Txs /\ OwnersStay
      /\ u \in Past \/ (pc[u] = "landed" /\ Answered(u))
      /\ \A x : Missed(u, x)' => Missed(u, x)
      /\ Seen(u) => Seen(u)'
      /\ \A x \in Items : Gone(x) => Gone(x)'
  BY ReliableCalls, PastStays, SeenStays, WorldGrows DEF Recorded
<1>2. CASE \E t \in Txs : Answered(t)
  <2>1. PICK t \in Txs : Answered(t)
    BY <1>2
  <2>2. pc[t] = "landed" /\ UNCHANGED history
    BY <2>1 DEF Answered, chainVars
  <2>3. PICK g \in gasPayment[t] : ApplyAll(result[t], g)
    BY <2>1 DEF Answered
  <2>4. PICK n \in 2..Len(history) : n = result[t]
    BY <1>1, <2>2 DEF Answers
  <2>5. /\ gasCoin' # NoCoin
        /\ \A x \in Items \ DOMAIN cache'.OwnedObject :
             x \in DOMAIN cache.OwnedObject \union Changed(n) => Gone(x)'
    BY <1>1, <2>2, <2>3, <2>4, AppliedIsKnown
  <2>6. Nobody("waiting") /\ (u = t \/ u \in Past)
    BY <1>1, <2>2, Alone DEF Nobody, At, Running
  <2>7. ASSUME NEW x \in Items \ DOMAIN cache'.OwnedObject, Missed(u, x)'
        PROVE  Gone(x)'
    <3>1. CASE x \in DOMAIN cache.OwnedObject \union Changed(n)
      BY <2>5, <3>1
    <3>2. CASE x \notin DOMAIN cache.OwnedObject \union Changed(n)
      <4>1. Missed(u, x) /\ u # t
        BY <1>1, <2>4, <2>7, <3>2 DEF Missed
      <4> QED
        BY <1>1, <2>6, <3>2, <4>1 DEF Known
    <3> QED
      BY <3>1, <3>2
  <2> QED
    BY <2>5, <2>7
<1>3. CASE \E n \in untold, g \in Coins : ApplyOutside(n, g)
  <2>1. PICK n \in untold, g \in Coins : ApplyOutside(n, g)
    BY <1>3
  <2>2. /\ ApplyAll(n, g) /\ n \in 2..Len(history)
        /\ UNCHANGED history /\ pc' = pc /\ UNCHANGED result
    BY <1>1, <2>1 DEF ApplyOutside, Typed, callVars
  <2>3. /\ gasCoin' # NoCoin
        /\ \A x \in Items \ DOMAIN cache'.OwnedObject :
             x \in DOMAIN cache.OwnedObject \union Changed(n) => Gone(x)'
    BY <1>1, <2>2, AppliedIsKnown
  <2>4. Nobody("waiting") /\ u \in Past
    BY <2>2 DEF Nobody, At, Past
  <2>5. ASSUME NEW x \in Items \ DOMAIN cache'.OwnedObject, Missed(u, x)'
        PROVE  Gone(x)'
    BY <1>1, <2>3, <2>4, <2>5 DEF Known
  <2> QED
    BY <2>3, <2>5
<1>4. CASE \E t \in Txs : Reset(t) \/ ResetDone(t)
  <2>1. Seen(u)
    BY <1>4, ResetSees
  <2> QED
    BY <1>1, <2>1 DEF Missed
<1>5. CASE UNCHANGED cacheVars /\ \A t \in Txs : ~Answered(t) /\ ~ResetDone(t)
  <2>1. Nobody("waiting")
    BY <1>1, <1>5, WaitingCalls DEF Nobody, At
  <2> QED
    BY <1>1, <1>5, <2>1 DEF Known, cacheVars
<1> QED
  BY <1>2, <1>3, <1>4, <1>5, StepsCache, ReliableCalls

\* What is not in the cache when a transaction is built has been seen.
LEMMA ResolvableStays ==
  ASSUME Reliable, Recorded, Waits, Known, Resolvable, [Next]_vars, NothingShared
  PROVE  Resolvable'
<1> SUFFICES ASSUME NEW t \in At({"resolve"})', NEW u \in Past'
             PROVE  /\ \A x \in Unresolved(t)' : Missed(u, x)' => Gone(x)'
                    /\ gasPayment'[t] = {} => Seen(u)'
  BY DEF Resolvable
<1>1. /\ Queued /\ Typed /\ t \in Txs /\ pc'[t] = "resolve"
      /\ u \in Past \/ (pc[u] = "landed" /\ Answered(u))
      /\ \A x : Missed(u, x)' => Missed(u, x)
      /\ Seen(u) => Seen(u)'
      /\ \A x \in Items : Gone(x) => Gone(x)'
      /\ Objects \subseteq Items /\ Coins \subseteq Items
  BY ReliableCalls, PastStays, SeenStays, WorldGrows DEF Recorded, At, Items
<1>2. CASE ReadCache(t)
  <2>1. pc[t] = "prepare" /\ UNCHANGED <<used, cacheVars>>
    BY <1>2 DEF ReadCache
  <2>2. Nobody("waiting") /\ u \in Past
    BY <1>1, <2>1, Alone, PastStays DEF Nobody, At, Running
  <2>3. /\ used[t] \subseteq Items
        /\ \A x \in Items \ DOMAIN cache.OwnedObject : Missed(u, x) => Gone(x)
        /\ gasCoin = NoCoin => Seen(u)
    BY <1>1, <2>2 DEF Known, Typed
  <2>4. DOMAIN refs'[t] = (used[t] \intersect Cached(cache))
                           \union { x \in {gasCoin.id} : gasCoin # NoCoin }
    BY <1>1, <1>2 DEF ReadCache, Typed
  <2>5. Unresolved(t)' \subseteq used[t] \ DOMAIN cache.OwnedObject
    BY <2>1, <2>4 DEF Unresolved, Cached
  <2>6. gasPayment'[t] = {} => gasCoin = NoCoin
    BY <1>1, <1>2 DEF ReadCache, Typed
  <2> QED
    BY <1>1, <2>3, <2>5, <2>6
<1>3. CASE ~ReadCache(t)
  <2>1. /\ pc[t] = "resolve"
        /\ refs'[t] = refs[t] /\ gasPayment'[t] = gasPayment[t] /\ used'[t] = used[t]
    BY <1>1, <1>3, BuildsOn
  <2>2. u \in Past
    BY <1>1, <2>1, Alone, PastStays DEF Running
  <2>3. Unresolved(t)' = Unresolved(t) /\ used[t] \subseteq Items
    BY <1>1, <2>1 DEF Unresolved, Typed
  <2>4. /\ \A x \in Unresolved(t) : x \in Items /\ (Missed(u, x) => Gone(x))
        /\ gasPayment[t] = {} => Seen(u)
    BY <1>1, <2>1, <2>2, <2>3 DEF Resolvable, At, Unresolved
  <2> QED
    BY <1>1, <2>1, <2>3, <2>4
<1> QED
  BY <1>2, <1>3

\* What is read from the cache is current.
LEMMA ReadingTheCache ==
  ASSUME Reliable, Recorded, NothingShared, Current, NEW t \in Txs, ReadCache(t)
  PROVE  /\ DOMAIN refs'[t] = (used[t] \intersect DOMAIN cache.OwnedObject) \union gasPayment'[t]
         /\ gasPayment'[t] = { x \in {gasCoin.id} : gasCoin # NoCoin }
         /\ \A x \in DOMAIN refs'[t] :
              /\ refs'[t][x] \in Nat
              /\ \A u \in Past : x \in Changed(result[u]) => ~(result[u] > refs'[t][x])
<1> DEFINE gas == { x \in {gasCoin.id} : gasCoin # NoCoin }
<1>1. /\ Typed /\ Cached(cache) = DOMAIN cache.OwnedObject
      /\ \A x \in DOMAIN cache.OwnedObject : cache.OwnedObject[x] \in Nat
  BY DEF Recorded, NothingShared, Cached, Current
<1>2. /\ gasPayment'[t] = gas
      /\ DOMAIN refs'[t] = (used[t] \intersect Cached(cache)) \union gas
      /\ \A x \in DOMAIN refs'[t] :
           refs'[t][x] = IF x \in gas THEN gasCoin.version ELSE GetObject(cache, x)
  BY <1>1 DEF ReadCache, Typed
<1>3. \A u \in Past : Fresh(u)
  BY DEF Past, At, Current
<1>4. ASSUME NEW x \in DOMAIN refs'[t]
      PROVE  /\ refs'[t][x] \in Nat
             /\ \A u \in Past : x \in Changed(result[u]) => ~(result[u] > refs'[t][x])
  <2>1. CASE x \in gas
    <3>1. refs'[t][x] = gasCoin.version /\ gasCoin # NoCoin /\ x = gasCoin.id
      BY <1>2, <2>1
    <3> QED
      BY <1>1, <1>3, <3>1 DEF Typed, Fresh
  <2>2. CASE x \notin gas
    <3>1. x \in DOMAIN cache.OwnedObject /\ refs'[t][x] = cache.OwnedObject[x]
      BY <1>1, <1>2, <2>2 DEF GetObject
    <3> QED
      BY <1>1, <1>3, <3>1 DEF Fresh
  <2> QED
    BY <2>1, <2>2
<1> QED
  BY <1>1, <1>2, <1>4

\* What the full node has seen replaced, it does not show any more.
LEMMA NodeShowsCurrent ==
  ASSUME Recorded, NEW u \in Txs, result[u] # 0, Seen(u), NEW x \in Changed(result[u])
  PROVE  ~(result[u] > NodeView[x].version)
<1>1. PICK r : r = result[u]
  OBVIOUS
<1>2. /\ Len(history) \in Nat \ {0} /\ node \in 1..Len(history)
      /\ r \in 2..Len(history) /\ r <= node
  BY <1>1, ChainIs DEF Recorded, Typed, Answers, Seen
<1>3. x \in Items /\ history[r][x].version = r
  BY <1>1, <1>2 DEF Recorded, Genuine, Changed
<1>4. history[r][x].version <= history[node][x].version /\ history[node][x].version \in Nat
  <2>1. r \in 1..Len(history)
    BY <1>2
  <2>2. history[node] \in [Items -> ObjectState]
    BY <1>2, ChainIs DEF Recorded
  <2> QED
    BY <1>2, <1>3, <2>1, <2>2 DEF Recorded, Genuine, ObjectState
<1>5. r <= history[node][x].version
  BY <1>3, <1>4
<1> QED
  BY <1>1, <1>2, <1>4, <1>5 DEF NodeView

\* What comes from the full node is as current, or gone.
LEMMA Resolving ==
  ASSUME Reliable, Recorded, Resolvable, ReferencesCurrent, NEW t \in Txs, Resolve(t),
         NEW x \in DOMAIN refs'[t]
  PROVE  /\ refs'[t][x] \in Nat
         /\ \A u \in Past : x \in Changed(result[u]) /\ result[u] > refs'[t][x] =>
                              x \notin gasPayment'[t] /\ Gone(x)
<1> DEFINE fetched == Unresolved(t) \union (Payment(t) \ gasPayment[t])
<1>1. /\ Typed /\ pc[t] = "resolve" /\ gasPayment'[t] = Payment(t)
      /\ refs'[t] = SetAll(refs[t], [y \in fetched |-> NodeView[y].version])
  BY DEF Recorded, Typed, Resolve
<1>2. /\ x \in fetched \/ x \in DOMAIN refs[t]
      /\ refs'[t][x] = IF x \in fetched THEN NodeView[x].version ELSE refs[t][x]
  BY <1>1 DEF SetAll
<1>3. /\ Payment(t) \subseteq Coins /\ Unresolved(t) \subseteq Objects
      /\ Objects \intersect Coins = {}
  BY <1>1, InputsAssumption DEF Payment, ListedCoins, Unresolved, Typed
<1>4. CASE x \in fetched
  <2>1. refs'[t][x] = NodeView[x].version /\ x \in Items
    BY <1>2, <1>3, <1>4 DEF Items
  <2>2. NodeView \in [Items -> ObjectState]
    BY <1>1, ChainIs DEF NodeView, Recorded, Typed
  <2>3. refs'[t][x] \in Nat
    BY <2>1, <2>2 DEF ObjectState
  <2>4. ASSUME NEW u \in Past, x \in Changed(result[u]), result[u] > refs'[t][x]
        PROVE  x \notin gasPayment'[t] /\ Gone(x)
    <3>1. u \in Txs /\ result[u] # 0
      BY DEF Past, At
    <3>2. ~Seen(u)
      BY <2>1, <2>4, <3>1, NodeShowsCurrent
    <3>3. gasPayment[t] # {} /\ Payment(t) = gasPayment[t] /\ x \in Unresolved(t)
      BY <1>1, <1>4, <3>2 DEF Resolvable, At, Payment
    <3>4. Gone(x)
      BY <1>1, <2>4, <3>2, <3>3 DEF Resolvable, At, Missed
    <3> QED
      BY <1>1, <1>3, <3>3, <3>4
  <2> QED
    BY <2>3, <2>4
<1>5. CASE x \notin fetched
  <2>1. x \in DOMAIN refs[t] /\ refs'[t][x] = refs[t][x]
    BY <1>2, <1>5
  <2>2. x \notin gasPayment[t] => x \notin gasPayment'[t]
    BY <1>1, <1>5
  <2> QED
    BY <1>1, <2>1, <2>2 DEF ReferencesCurrent, At
<1> QED
  BY <1>4, <1>5

\* What a transaction is built with stays current.
LEMMA ReferencesStay ==
  ASSUME Reliable, Recorded, Waits, NothingShared, Current, Resolvable, ReferencesCurrent,
         [Next]_vars
  PROVE  ReferencesCurrent'
<1> SUFFICES ASSUME NEW t \in Txs, pc'[t] \in {"resolve", "sign", "sent"},
                    NEW x \in DOMAIN refs'[t]
             PROVE  /\ refs'[t][x] \in Nat
                    /\ \A u \in Past' : x \in Changed(result[u])' /\ result'[u] > refs'[t][x] =>
                         x \notin gasPayment'[t] /\ Gone(x)'
  BY DEF ReferencesCurrent, At
<1>1. Queued /\ Typed
  BY DEF Recorded
<1>2. ASSUME pc[t] \in Running,
             refs'[t][x] \in Nat,
             \A u \in Past : x \in Changed(result[u]) /\ result[u] > refs'[t][x] =>
                               x \notin gasPayment'[t] /\ Gone(x)
      PROVE  /\ refs'[t][x] \in Nat
             /\ \A u \in Past' : x \in Changed(result[u])' /\ result'[u] > refs'[t][x] =>
                  x \notin gasPayment'[t] /\ Gone(x)'
  <2> SUFFICES ASSUME NEW u \in Past', x \in Changed(result[u])', result'[u] > refs'[t][x]
               PROVE  x \notin gasPayment'[t] /\ Gone(x)'
    BY <1>2
  <2>1. /\ u \in Txs /\ pc'[u] = "done" /\ result'[u] = result[u]
        /\ x \in Changed(result[u])
        /\ u \in Past \/ pc[u] = "landed"
    BY PastStays, ReliableCalls
  <2>2. u \in Past
    BY <1>1, <1>2, <2>1, Alone DEF Running
  <2>3. x \notin gasPayment'[t] /\ Gone(x)
    BY <1>2, <2>1, <2>2
  <2>4. x \in Items
    BY <2>1 DEF Changed
  <2> QED
    BY <2>3, <2>4, WorldGrows
<1>3. CASE ReadCache(t)
  <2>1. pc[t] \in Running
    BY <1>3 DEF ReadCache, Running
  <2> QED
    BY <1>2, <1>3, <2>1, ReadingTheCache
<1>4. CASE Resolve(t)
  <2>1. pc[t] \in Running
    BY <1>4 DEF Resolve, Running
  <2> QED
    BY <1>2, <1>4, <2>1, Resolving
<1>5. CASE ~ReadCache(t) /\ ~Resolve(t)
  <2>1. /\ pc[t] \in {"resolve", "sign", "sent"}
        /\ refs'[t] = refs[t] /\ gasPayment'[t] = gasPayment[t]
    BY <1>1, <1>5, BuildsOn
  <2>2. /\ refs[t][x] \in Nat
        /\ \A u \in Past : x \in Changed(result[u]) /\ result[u] > refs[t][x] =>
                             x \notin gasPayment[t] /\ Gone(x)
    BY <2>1 DEF ReferencesCurrent, At
  <2> QED
    BY <1>2, <2>1, <2>2 DEF Running
<1> QED
  BY <1>3, <1>4, <1>5

\* All of it together.
LEMMA SteadyStays ==
  ASSUME Reliable, Recorded, Current, Steady, [Next]_vars
  PROVE  Recorded' /\ Current' /\ Steady'
<1>1. OwnersStay /\ InOrder
  BY ReliableCalls DEF Steady
<1>2. Recorded' /\ Current'
  BY <1>1, RecordStays, CurrentStays
<1> QED
  BY <1>2, WaitsStay, NothingSharedStays, RememberedStays, KnownStays, ResolvableStays,
     ReferencesStay DEF Steady

\* At first nothing is known and nothing has been missed.
LEMMA SteadyBegins == ASSUME Init PROVE Recorded /\ Current /\ Steady
<1>1. Recorded /\ Current
  BY RecordBegins DEF Init, Current, Empty, Nothing
<1>2. Past = {} /\ \A S : S \subseteq Running => At(S) = {}
  BY DEF Init, Past, At, Running
<1>3. Waits
  BY DEF Init, Waits
<1>4. NothingShared
  BY DEF Init, NothingShared, Empty, Nothing
<1> QED
  BY <1>1, <1>2, <1>3, <1>4
     DEF Steady, Remembered, Known, Resolvable, ReferencesCurrent, Running

\* A call that is being built or sent is alone: all that has been executed has
\* been applied.
LEMMA ThePast ==
  ASSUME Recorded, NEW t \in At({"resolve", "sent"}), NEW u \in Txs, result[u] # 0
  PROVE  u \in Past \/ May("reply")
<1>1. t \in Txs /\ pc[t] \in {"resolve", "sent"}
  BY DEF At
<1>2. u # t /\ pc[u] \in {"landed", "failed", "waiting", "done"}
  BY <1>1 DEF Recorded, Answers
<1>3. pc[u] = "done"
  BY <1>1, <1>2, Alone DEF Recorded, Running
<1> QED
  BY <1>3 DEF Past, At

\* No transaction refers to a version that an earlier one of the executor has
\* replaced, although the full node may not have seen that one, calls fail, and
\* other wallets execute transactions meanwhile (executors.mdx:135;
\* caching.ts:60-88; serial.ts:109-157).
THEOREM NothingIsStale ==
  ASSUME Reliable PROVE Spec => []NeverStale
<1>1. Init => Recorded /\ Current /\ Steady
  BY SteadyBegins
<1>2. Recorded /\ Current /\ Steady /\ [Next]_vars => Recorded' /\ Current' /\ Steady'
  BY SteadyStays
<1>3. Recorded /\ Current /\ Steady => NeverStale
  <2> SUFFICES ASSUME Recorded, Steady, NEW t \in At({"sent"}), NEW x \in DOMAIN refs[t],
                      ~Gone(x), Outdated(x, refs[t][x])
               PROVE  FALSE
    BY DEF NeverStale, Gone
  <2>1. PICK u \in Txs : result[u] > refs[t][x] /\ x \in Changed(result[u])
    BY DEF Outdated
  <2>2. t \in At({"resolve", "sign", "sent"}) /\ refs[t][x] \in Nat /\ result[u] \in Nat
    BY DEF Steady, ReferencesCurrent, At, Recorded, Typed
  <2>3. result[u] # 0
    BY <2>1, <2>2
  <2>4. u \in Past
    BY <2>3, ThePast DEF Reliable, May, At
  <2> QED
    BY <2>1, <2>2, <2>4 DEF Steady, ReferencesCurrent
<1> QED
  BY <1>1, <1>2, <1>3, PTL DEF Spec

-----------------------------------------------------------------------------
(* What is signed can be paid.                                              *)

\* Transactions do not give the coin away that they pay with.
GasComesBack == "gasToOther" \notin Fates

\* The signer loses a coin only through a later transaction of a call, and what
\* the application may still apply are coins it had.
GasStays ==
  /\ \A c \in Coins, n \in 1..Len(history) :
       history[n][c].owner = "signer" =>
         Chain[c].owner = "signer" \/ \E u \in Txs : result[u] > n
  /\ \A n \in untold : \A c \in Changed(n) \intersect Coins : history[n][c].owner = "signer"

\* A call pays with coins of the signer, and the coin that is remembered is one,
\* unless an answer will replace it.
GasKept ==
  /\ \A t \in At({"resolve", "sign", "sent", "landed"}) : \A g \in gasPayment[t] :
       Chain[g].owner = "signer"
  /\ Nobody("landed") /\ gasCoin # NoCoin => Chain[gasCoin.id].owner = "signer"

\* A coin keeps its owner unless a call lands.
LEMMA CoinsKeepOwner ==
  ASSUME Recorded, [Next]_vars, NEW c \in Coins
  PROVE  (\E t \in Txs : Land(t)) \/ Chain'[c].owner = Chain[c].owner
<1>1. CASE \E x \in Objects, g \in Coins : OutsideTx(x, g)
  <2>1. PICK s \in [Items -> ObjectState] :
          /\ Succeeds(s) /\ history' = Append(history, s)
          /\ \A y \in Items : s[y].owner = Chain[y].owner
    BY <1>1, OutsideOne
  <2>2. Chain' = s
    BY <2>1, HistoryGrows DEF Recorded
  <2> QED
    BY <2>1, <2>2 DEF Items
<1>2. CASE UNCHANGED history
  BY <1>2 DEF Chain
<1> QED
  BY <1>1, <1>2, StepsRecord

\* Only calls make the signer lose coins.
LEMMA GasStaysSo ==
  ASSUME Recorded, GasStays, [Next]_vars
  PROVE  GasStays'
<1>1. /\ Len(history) \in Nat \ {0} /\ Typed
      /\ \A t \in Txs : result[t] \in Nat
      /\ \A n \in 1..Len(history) : history'[n] = history[n]
      /\ \A n \in 2..Len(history) : Changed(n)' = Changed(n)
  BY ChainIs, GenuineStays DEF Recorded, Typed
<1>2. CASE \E t \in Txs : Land(t)
  <2>1. PICK t \in Txs : Land(t)
    BY <1>2
  <2>2. PICK s \in [Items -> ObjectState] : Succeeds(s) /\ history' = Append(history, s)
    BY <2>1, Landing
  <2>3. Len(history') = Len(history) + 1 /\ Chain' = s /\ history'[Len(history) + 1] = s
    BY <2>2, HistoryGrows DEF Recorded, Grows
  <2>4. result'[t] = Len(history) + 1 /\ untold' = untold
    BY <1>1, <2>1 DEF Land, Typed
  <2>5. ASSUME NEW c \in Coins, NEW n \in 1..Len(history'), history'[n][c].owner = "signer"
        PROVE  Chain'[c].owner = "signer" \/ \E u \in Txs : result'[u] > n
    BY <1>1, <2>3, <2>4, <2>5
  <2>6. \A n \in untold' : \A c \in Changed(n)' \intersect Coins :
          history'[n][c].owner = "signer"
    BY <1>1, <2>4 DEF GasStays, Typed
  <2> QED
    BY <2>5, <2>6 DEF GasStays
<1>3. CASE \E x \in Objects, g \in Coins : OutsideTx(x, g)
  <2>1. PICK x \in Objects, g \in Coins : OutsideTx(x, g)
    BY <1>3
  <2>2. PICK s \in [Items -> ObjectState] :
          /\ Succeeds(s) /\ history' = Append(history, s)
          /\ \A y \in Items : s[y].owner = Chain[y].owner
          /\ \A c \in Coins : s[c] # Chain[c] => s[c].owner = "signer"
    BY <2>1, OutsideOne
  <2>3. Len(history') = Len(history) + 1 /\ Chain' = s /\ history'[Len(history) + 1] = s
    BY <2>2, HistoryGrows DEF Recorded, Grows
  <2>4. result' = result /\ untold' = untold \union {Len(history) + 1}
    BY <2>1 DEF OutsideTx
  <2>5. ASSUME NEW c \in Coins, NEW n \in 1..Len(history'), history'[n][c].owner = "signer"
        PROVE  Chain'[c].owner = "signer" \/ \E u \in Txs : result'[u] > n
    <3>1. CASE n = Len(history) + 1
      BY <2>3, <2>5, <3>1
    <3>2. CASE n \in 1..Len(history)
      BY <1>1, <2>2, <2>3, <2>4, <2>5, <3>2 DEF GasStays, Items
    <3> QED
      BY <1>1, <2>3, <3>1, <3>2
  <2>6. ASSUME NEW n \in untold', NEW c \in Changed(n)' \intersect Coins
        PROVE  history'[n][c].owner = "signer"
    <3>1. CASE n = Len(history) + 1
      <4>1. history'[(Len(history) + 1) - 1] = Chain
        BY <1>1 DEF Chain
      <4>2. s[c] # Chain[c]
        BY <2>3, <2>6, <3>1, <4>1 DEF Changed
      <4> QED
        BY <2>2, <2>3, <3>1, <4>2
    <3>2. CASE n \in untold
      BY <1>1, <3>2 DEF GasStays, Typed
    <3> QED
      BY <2>4, <3>1, <3>2
  <2> QED
    BY <2>5, <2>6 DEF GasStays
<1>4. CASE UNCHANGED <<history, result>> /\ untold' \subseteq untold
  <2>1. Chain' = Chain /\ Len(history') = Len(history)
    BY <1>4 DEF Chain
  <2>2. \A n \in untold' : n \in untold /\ Changed(n)' = Changed(n)
    BY <1>1, <1>4 DEF Typed
  <2> QED
    BY <1>4, <2>1, <2>2 DEF GasStays
<1> QED
  BY <1>2, <1>3, <1>4, StepsRecord

\* A call that resolves without a gas coin finds only coins the signer still
\* has: whatever took one away has been seen.
LEMMA ListedIsKept ==
  ASSUME Reliable, Recorded, Resolvable, GasStays, NEW t \in At({"resolve"}),
         gasPayment[t] = {}, NEW c \in ListedCoins
  PROVE  Chain[c].owner = "signer"
<1>1. /\ t \in Txs /\ pc[t] = "resolve" /\ Typed /\ node \in 1..Len(history)
      /\ c \in Coins /\ history[node][c].owner = "signer"
  BY DEF At, Recorded, Typed, ListedCoins, NodeView
<1>2. Len(history) \in Nat
  BY ChainIs DEF Recorded
<1>3. ASSUME NEW u \in Txs, result[u] > node
      PROVE  FALSE
  <2>1. result[u] \in Nat /\ result[u] # 0
    BY <1>1, <1>2, <1>3 DEF Typed
  <2>2. u \in Past
    BY <1>1, <2>1, ThePast DEF Reliable, May, At
  <2>3. result[u] <= node
    BY <2>2 DEF Resolvable, Seen
  <2> QED
    BY <1>1, <1>2, <1>3, <2>1, <2>3
<1> QED
  BY <1>1, <1>3 DEF GasStays

\* Calls go on paying with coins of the signer.
LEMMA PaymentsStay ==
  ASSUME Reliable, Recorded, Resolvable, GasStays, GasKept, [Next]_vars,
         \A t \in Txs : ~Land(t),
         NEW u \in Txs, pc'[u] \in {"resolve", "sign", "sent", "landed"},
         NEW g \in gasPayment'[u]
  PROVE  Chain'[g].owner = "signer"
<1>1. Queued /\ Typed /\ Progress(u)
  BY StepsProgress DEF Recorded
<1>2. Chain[g].owner = "signer"
  <2>1. CASE ReadCache(u)
    <3>1. pc[u] = "prepare" /\ gasPayment'[u] = { x \in {gasCoin.id} : gasCoin # NoCoin }
      BY <1>1, <2>1 DEF ReadCache, Typed
    <3>2. Nobody("landed")
      BY <1>1, <3>1, Alone DEF Nobody, At, Running
    <3> QED
      BY <3>1, <3>2 DEF GasKept
  <2>2. CASE Resolve(u)
    <3>1. u \in At({"resolve"}) /\ gasPayment'[u] = Payment(u)
      BY <1>1, <2>2 DEF Resolve, Typed, At
    <3>2. CASE gasPayment[u] = {}
      BY <3>1, <3>2, ListedIsKept DEF Payment
    <3>3. CASE gasPayment[u] # {}
      BY <3>1, <3>3 DEF Payment, GasKept, At
    <3> QED
      BY <3>2, <3>3
  <2>3. CASE ~ReadCache(u) /\ ~Resolve(u)
    <3>1. gasPayment'[u] = gasPayment[u]
      BY <1>1, <2>3, OwnBusiness
    <3>2. pc[u] \in {"resolve", "sign", "sent", "landed"}
      <4>1. CASE pc'[u] = "landed"
        BY <1>1, <4>1 DEF Progress
      <4>2. CASE pc'[u] # "landed"
        BY <1>1, <2>3, <4>2, BuildsOn
      <4> QED
        BY <4>1, <4>2
    <3> QED
      BY <3>1, <3>2 DEF GasKept, At
  <2> QED
    BY <2>1, <2>2, <2>3
<1>3. g \in Coins
  BY TypedStays DEF Typed
<1> QED
  BY <1>2, <1>3, CoinsKeepOwner

\* So does the executor with the coin it remembers.
LEMMA GasIsKept ==
  ASSUME Reliable, GasComesBack, Recorded, Waits, Resolvable, GasStays, GasKept,
         [Next]_vars
  PROVE  GasKept'
<1>1. /\ Queued /\ Typed /\ Answers /\ Queued' /\ Len(history) \in Nat
      /\ ~May("reply")
  BY RecordStays, ReliableCalls, ChainIs DEF Recorded
<1>2. ASSUME NEW t \in Txs, Land(t)
      PROVE  GasKept'
  <2>1. PICK g \in gasPayment[t] : \E s \in [Items -> ObjectState] :
          /\ Succeeds(s) /\ history' = Append(history, s)
          /\ gasPayment' = [gasPayment EXCEPT ![t] = {g}]
          /\ "gasToOther" \in Fates \/ s[g].owner = "signer"
    BY <1>2, Landing
  <2>2. PICK s \in [Items -> ObjectState] :
          Succeeds(s) /\ history' = Append(history, s) /\ s[g].owner = "signer"
    BY <2>1 DEF GasComesBack
  <2>3. Chain'[g].owner = "signer"
    BY <2>2, HistoryGrows DEF Recorded
  <2>4. pc'[t] = "landed" /\ gasPayment'[t] = {g}
    BY <1>1, <1>2, <2>1 DEF Land, Move, Queued, Typed
  <2>5. \A u \in Txs : pc'[u] \in Running => u = t
    <3>1. \A u \in Txs : pc[u] \in Running => u = t
      BY <1>1, <1>2, Alone DEF Land, Running
    <3> QED
      BY <1>1, <1>2, <3>1 DEF Land, Move, Queued
  <2>6. ~Nobody("landed")'
    BY <2>4 DEF Nobody, At
  <2> QED
    BY <2>3, <2>4, <2>5, <2>6 DEF GasKept, At, Running
<1>3. CASE \A t \in Txs : ~Land(t)
  <2>1. \A t \in At({"resolve", "sign", "sent", "landed"})' : \A g \in gasPayment'[t] :
          Chain'[g].owner = "signer"
    BY <1>3, PaymentsStay DEF At
  <2>2. ASSUME Nobody("landed")', gasCoin' # NoCoin
        PROVE  Chain'[gasCoin'.id].owner = "signer"
    <3>1. gasCoin'.id \in Coins
      BY <2>2, TypedStays DEF Typed
    <3>2. Chain[gasCoin'.id].owner = "signer"
      <4>1. ASSUME NEW t \in Txs, Answered(t)
            PROVE  Chain[gasCoin'.id].owner = "signer"
        <5>1. gasCoin'.id \in gasPayment[t] /\ t \in At({"landed"})
          BY <4>1 DEF Answered, ApplyAll, At
        <5> QED
          BY <5>1 DEF GasKept, At
      <4>2. ASSUME NEW n \in untold, NEW g \in Coins, ApplyOutside(n, g)
            PROVE  Chain[gasCoin'.id].owner = "signer"
        <5>1. /\ gasCoin'.id = g /\ g \in Changed(n) \intersect Coins
              /\ \A t \in At({"done"}) : result[t] < n
              /\ pc' = pc /\ n \in 1..Len(history)
          BY <1>1, <4>2 DEF ApplyOutside, ApplyAll, callVars, Typed
        <5>2. ASSUME NEW u \in Txs, result[u] > n
              PROVE  FALSE
          <6>1. result[u] \in Nat /\ result[u] # 0
            BY <1>1, <5>1, <5>2 DEF Typed
          <6>2. pc[u] \in {"landed", "done"}
            BY <1>1, <6>1 DEF Answers
          <6>3. pc[u] # "landed"
            BY <2>2, <5>1 DEF Nobody, At
          <6>4. result[u] < n
            BY <5>1, <6>2, <6>3 DEF At
          <6> QED
            BY <1>1, <5>1, <5>2, <6>1, <6>4
        <5> QED
          BY <5>1, <5>2 DEF GasStays
      <4>3. ClearCaches => gasCoin' = NoCoin
        BY DEF ClearCaches
      <4>4. CASE UNCHANGED cacheVars /\ \A t \in Txs : ~Answered(t)
        <5>1. ASSUME NEW u \in Txs, pc[u] = "landed"
              PROVE  FALSE
          <6>1. pc'[u] # "landed"
            BY <2>2 DEF Nobody, At
          <6>2. Progress(u)
            BY <1>1, StepsProgress
          <6> QED
            BY <1>1, <4>4, <5>1, <6>1, <6>2 DEF Progress, Early, AnswerLost
        <5>2. Nobody("landed")
          BY <5>1 DEF Nobody, At
        <5> QED
          BY <2>2, <4>4, <5>2 DEF GasKept, cacheVars
      <4> QED
        BY <2>2, <4>1, <4>2, <4>3, <4>4, StepsCache
    <3> QED
      BY <1>3, <3>1, <3>2, CoinsKeepOwner
  <2> QED
    BY <2>1, <2>2 DEF GasKept
<1> QED
  BY <1>2, <1>3

\* Every transaction the signer signs is paid with coins it has, in the version
\* the executor has left them in, although the full node may list coins that
\* earlier transactions have merged (executors.mdx:19; serial.ts:52-107).
THEOREM GasStaysUsable ==
  ASSUME Reliable, GasComesBack PROVE Spec => []GasIsUsable
<1> DEFINE Inv == Recorded /\ Current /\ Steady /\ GasStays /\ GasKept
<1>1. Init => Inv
  <2> SUFFICES ASSUME Init PROVE Inv
    OBVIOUS
  <2>1. Recorded /\ Current /\ Steady
    BY SteadyBegins
  <2>2. Chain = [x \in Items |-> [version |-> 1, owner |-> "signer"]] /\ untold = {}
    BY DEF Init, Chain
  <2>3. GasStays
    BY <2>2 DEF GasStays, Items
  <2>4. At({"resolve", "sign", "sent", "landed"}) = {} /\ gasCoin = NoCoin
    BY DEF Init, At
  <2>5. GasKept
    BY <2>4 DEF GasKept
  <2> QED
    BY <2>1, <2>3, <2>5
<1>2. Inv /\ [Next]_vars => Inv'
  BY SteadyStays, GasStaysSo, GasIsKept DEF Steady
<1>3. Inv => GasIsUsable
  <2> SUFFICES ASSUME Inv, NEW t \in At({"sent"}), NEW g \in gasPayment[t]
               PROVE  Chain[g].owner = "signer" /\ ~Outdated(g, refs[t][g])
    BY DEF GasIsUsable
  <2>1. Chain[g].owner = "signer"
    BY DEF GasKept, At
  <2>2. ASSUME NEW u \in Txs, result[u] > refs[t][g], g \in Changed(result[u])
        PROVE  FALSE
    <3>1. /\ t \in At({"resolve", "sign", "sent"}) /\ g \in DOMAIN refs[t]
          /\ refs[t][g] \in Nat /\ result[u] \in Nat
      BY DEF Steady, ReferencesCurrent, At, Recorded, Typed, Built
    <3>2. result[u] # 0
      BY <2>2, <3>1
    <3>3. u \in Past
      BY <3>2, ThePast DEF Reliable, May, At
    <3> QED
      BY <2>2, <3>1, <3>3 DEF Steady, ReferencesCurrent
  <2> QED
    BY <2>1, <2>2 DEF Outdated
<1> HIDE DEF Inv
<1>4. Spec => []Inv
  BY <1>1, <1>2, PTL DEF Spec
<1> QED
  BY <1>3, <1>4, PTL
=============================================================================
