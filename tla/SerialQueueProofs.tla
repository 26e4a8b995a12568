------------------------- MODULE SerialQueueProofs -------------------------
(***************************************************************************)
(* For any finite set of tasks: exactly the head of the list runs, no task *)
(* is in it twice, and the list implements the service of TaskService with *)
(* a width of one.                                                         *)
(***************************************************************************)
EXTENDS SerialQueue, CollectionLemmas

IInv ==
  /\ SerialTypeOK
  /\ HeadRuns
  /\ OnePlaceEach

\* An empty queue runs nothing.
LEMMA InitHolds == SerialInit => IInv
<1>1. /\ <<>> \in Seq(Tasks)
      /\ ToSet(<<>>) = {}
      /\ IsInjective(<<>>)
  BY EmptyQueue
<1> QED
  BY <1>1 DEF SerialInit, IInv, SerialTypeOK, HeadRuns, OnePlaceEach, Call

\* What is known of a batch of arrivals.
LEMMA Arrivals ==
  ASSUME IsFiniteSet(Tasks), IInv, NEW s \in SetToAllKPermutations(Unseen)
  PROVE  /\ s \in Seq(Tasks)
         /\ IsInjective(s)
         /\ ToSet(s) \subseteq Unseen
<1>1. IsFiniteSet(Unseen) /\ Unseen \subseteq Tasks
  BY FS_Subset DEF Unseen
<1> QED
  BY <1>1, BatchOfArrivals, SeqMonotonic, ElementsByIndex

\* A task starts on an empty queue and is appended otherwise.
LEMMA ArrivalsKeep ==
  ASSUME IsFiniteSet(Tasks), IInv, NEW s \in SetToAllKPermutations(Unseen), s # <<>>, RunAll(s)
  PROVE  IInv'
<1>1. /\ s \in Seq(Tasks) /\ IsInjective(s)
      /\ ToSet(s) \subseteq Unseen
  BY Arrivals
<1>2. /\ queue \in Seq(Tasks) /\ IsInjective(queue)
      /\ started = Call(queue)
      /\ ToSet(queue) \intersect settled = {}
      /\ settled \subseteq Tasks
  BY DEF IInv, SerialTypeOK, HeadRuns, OnePlaceEach
<1>3. /\ queue' = queue \o s
      /\ started' = started \union (IF queue = <<>> THEN Call(s) ELSE {})
      /\ settled' = settled
  BY DEF RunAll, PushAll
<1>4. /\ queue \o s \in Seq(Tasks)
      /\ IsInjective(queue \o s)
      /\ ToSet(queue \o s) = ToSet(queue) \union ToSet(s)
  BY <1>1, <1>2, JoinQueues DEF Unseen
<1>5. started' = Call(queue \o s)
  <2>1. CASE queue = <<>>
    BY <1>1, <1>2, <1>3, <2>1, ConcatEmptySeq DEF Call
  <2>2. CASE queue # <<>>
    BY <1>1, <1>2, <1>3, <2>2, HeadAndTailOfJoined DEF Call
  <2> QED
    BY <2>1, <2>2
<1>6. Call(queue \o s) \subseteq ToSet(queue \o s)
  BY <1>4, ServeHead DEF Call
<1>7. ToSet(queue \o s) \intersect settled = {}
  BY <1>1, <1>2, <1>4 DEF Unseen
<1> QED
  BY <1>2, <1>3, <1>4, <1>5, <1>6, <1>7 DEF IInv, SerialTypeOK, HeadRuns, OnePlaceEach

\* A task that ends, either way, leaves and the next one starts.
LEMMA SettlingKeeps ==
  ASSUME IInv, NEW t \in Tasks, Finally(t)
  PROVE  IInv'
<1>1. /\ queue \in Seq(Tasks) /\ IsInjective(queue)
      /\ t \in started
      /\ started = Call(queue)
      /\ ToSet(queue) \intersect settled = {}
      /\ settled \subseteq Tasks
  BY DEF IInv, SerialTypeOK, HeadRuns, OnePlaceEach, Finally
<1>2. queue # <<>> /\ t = Head(queue)
  BY <1>1 DEF Call
<1>3. /\ Tail(queue) \in Seq(Tasks)
      /\ IsInjective(Tail(queue))
      /\ ToSet(Tail(queue)) = ToSet(queue) \ {t}
  BY <1>1, <1>2, ServeHead
<1>4. /\ queue' = Tail(queue)
      /\ started' = Call(Tail(queue))
      /\ settled' = settled \union {t}
  BY <1>1, <1>2 DEF Finally, Shift, Call
<1>5. Call(Tail(queue)) \subseteq ToSet(Tail(queue))
  BY <1>3, ServeHead DEF Call
<1> QED
  BY <1>1, <1>3, <1>4, <1>5 DEF IInv, SerialTypeOK, HeadRuns, OnePlaceEach

\* Nothing changes while nothing happens.
LEMMA StutterKeeps == IInv /\ UNCHANGED serialVars => IInv'
BY DEF IInv, serialVars, SerialTypeOK, HeadRuns, OnePlaceEach

\* Every call of runTask and every end of a task keeps the order.
LEMMA StepKeeps ==
  ASSUME IsFiniteSet(Tasks) PROVE IInv /\ [SerialNext]_serialVars => IInv'
BY ArrivalsKeep, SettlingKeeps, StutterKeeps DEF SerialNext

\* Exactly the task at the head of the list runs, so the shift() in finally()
\* removes the task that settled (queue.ts:11-17).
THEOREM TheHeadRuns ==
  ASSUME IsFiniteSet(Tasks) PROVE SerialSpec => []HeadRuns
<1>1. IInv => HeadRuns
  BY DEF IInv
<1> QED
  BY <1>1, InitHolds, StepKeeps, PTL DEF SerialSpec

\* The list of thunks implements the service of TaskService with one place.
THEOREM ImplementsService ==
  ASSUME IsFiniteSet(Tasks) PROVE SerialSpec => ServiceSpec
<1> DEFINE waiting == IF queue = <<>> THEN <<>> ELSE Tail(queue)
<1>1. SerialInit => Service!Init
  BY DEF SerialInit, Service!Init
<1>2. IInv /\ [SerialNext]_serialVars => [Service!Next]_<<waiting, started, settled>>
  <2> SUFFICES ASSUME IInv, SerialNext PROVE Service!Next
    BY DEF serialVars
  <2>1. ASSUME NEW s \in SetToAllKPermutations(Unseen), s # <<>>, RunAll(s)
        PROVE  Service!Next
    <3>1. /\ s \in Seq(Tasks) /\ Len(s) \in Nat \ {0}
          /\ queue \in Seq(Tasks)
      BY <2>1, Arrivals, EmptySeq DEF IInv, SerialTypeOK
    <3>2. Service!Cardinality(started) = IF queue = <<>> THEN 0 ELSE 1
      <4>1. Service!Cardinality(started) = Cardinality(started)
        BY DEF Service!Cardinality, Cardinality
      <4> QED
        BY <4>1, FS_EmptySet, FS_Singleton DEF IInv, HeadRuns, Call
    <3>3. Service!Smaller(Len(s), 1 - Service!Cardinality(started))
            = IF queue = <<>> THEN 1 ELSE 0
      BY <3>1, <3>2 DEF Service!Smaller
    <3>4. Service!Submit(s)
      <4>1. CASE queue = <<>>
        <5>1. /\ queue' = s
              /\ started' = {s[1]}
              /\ settled' = settled
          BY <2>1, <3>1, <4>1, ConcatEmptySeq
             DEF RunAll, PushAll, Call, IInv, HeadRuns
        <5>2. Tail(s) = SubSeq(s, 2, Len(s))
          BY <2>1, <3>1, TailIsSubSeq
        <5>3. /\ { s[i] : i \in 1..1 } = {s[1]}
              /\ SubSeq(s, 2, Len(s)) \in Seq(Tasks)
          BY <2>1, <3>1, <5>2, HeadTailProperties
        <5>4. <<>> \o SubSeq(s, 2, Len(s)) = SubSeq(s, 2, Len(s))
          BY <5>3, ConcatEmptySeq
        <5>5. waiting = <<>> /\ waiting' = Tail(s) /\ started = {}
          BY <2>1, <4>1, <5>1 DEF IInv, HeadRuns, Call
        <5> QED
          BY <3>3, <4>1, <5>1, <5>2, <5>3, <5>4, <5>5 DEF Service!Submit
      <4>2. CASE queue # <<>>
        <5>1. /\ queue' = queue \o s
              /\ started' = started
              /\ settled' = settled
          BY <2>1, <4>2 DEF RunAll, PushAll
        <5>2. waiting = Tail(queue) /\ waiting' = Tail(queue) \o s
          BY <3>1, <4>2, <5>1, HeadAndTailOfJoined
        <5>3. SubSeq(s, 1, Len(s)) = s
          BY <3>1, SubSeqFull
        <5>4. PICK n : n = Service!Smaller(Len(s), 1 - Service!Cardinality(started))
          OBVIOUS
        <5>5. n = 0
          BY <3>3, <4>2, <5>4
        <5>6. { s[i] : i \in 1..n } = {} /\ SubSeq(s, n + 1, Len(s)) = s
          BY <5>3, <5>5
        <5>7. /\ started' = started \union { s[i] : i \in 1..n }
              /\ waiting' = waiting \o SubSeq(s, n + 1, Len(s))
              /\ settled' = settled
          BY <5>1, <5>2, <5>6
        <5> QED
          BY <5>4, <5>7 DEF Service!Submit
      <4> QED
        BY <4>1, <4>2
    <3>5. Service!Unseen = Unseen
      <4>1. started \union ToSet(waiting) = ToSet(queue)
        <5>1. CASE queue = <<>>
          BY <3>1, <5>1, EmptyQueue DEF IInv, HeadRuns, Call
        <5>2. CASE queue # <<>>
          BY <3>1, <5>2, ServeHead DEF IInv, HeadRuns, OnePlaceEach, Call
        <5> QED
          BY <5>1, <5>2
      <4>2. Service!ToSet(waiting) = ToSet(waiting)
        BY DEF ToSet, Service!ToSet
      <4> QED
        BY <4>1, <4>2 DEF Unseen, Service!Unseen
    <3>6. s \in Service!SetToAllKPermutations(Service!Unseen)
      <4>1. PICK T \in SUBSET Unseen : s \in SetToSeqs(T)
        BY <2>1 DEF SetToAllKPermutations
      <4>2. Service!Cardinality(T) = Cardinality(T)
        BY DEF Service!Cardinality, Cardinality
      <4>3. s \in Service!SetToSeqs(T)
        BY <4>1, <4>2 DEF SetToSeqs, Service!SetToSeqs
      <4> QED
        BY <3>5, <4>1, <4>3 DEF Service!SetToAllKPermutations
    <3> QED
      BY <3>4, <3>6 DEF Service!Next
  <2>2. ASSUME NEW t \in Tasks, Finally(t) PROVE Service!Next
    <3>1. /\ queue \in Seq(Tasks) /\ queue # <<>>
          /\ t = Head(queue) /\ started = {t} /\ t \in started
          /\ queue' = Tail(queue)
          /\ settled' = settled \union {t}
          /\ started' = Call(Tail(queue))
      BY <2>2 DEF IInv, SerialTypeOK, HeadRuns, Finally, Shift, Call
    <3>2. waiting = Tail(queue)
      BY <3>1
    <3>3. CASE Tail(queue) = <<>>
      <4>1. waiting' = <<>> /\ started' = {} /\ started \ {t} = {}
        BY <3>1, <3>3 DEF Call
      <4> QED
        BY <3>1, <3>2, <3>3, <4>1 DEF Service!Finish, Service!Next
    <3>4. CASE Tail(queue) # <<>>
      <4>1. /\ waiting' = Tail(Tail(queue))
            /\ started' = {Head(Tail(queue))}
            /\ started \ {t} = {}
        BY <3>1, <3>4 DEF Call
      <4> QED
        BY <3>1, <3>2, <3>4, <4>1 DEF Service!Finish, Service!Next
    <3> QED
      BY <3>3, <3>4
  <2> QED
    BY <2>1, <2>2 DEF SerialNext
<1> QED
  BY <1>1, <1>2, InitHolds, StepKeeps, PTL
     DEF SerialSpec, ServiceSpec, Service!Spec, Service!vars
=============================================================================
