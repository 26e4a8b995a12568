-------------------------- MODULE ParallelExecutor --------------------------
(***************************************************************************)
(* ParallelTransactionExecutor in coin mode (executor/parallel.ts): the    *)
(* composition of the object locks, the two work queues, the cache lock    *)
(* and the pool of gas coins, with the chain as far as gas coins go.       *)
(*                                                                         *)
(* One action is one synchronous turn of the event loop, from one await to *)
(* the next.  Every await that can reject is a fault point; Faults says    *)
(* which of them do in a given configuration.                              *)
(***************************************************************************)
EXTENDS Integers, Sequences, FiniteSets, SequencesExt

CONSTANTS
  Txs, Objects, Footprints,  \* see ObjectLocks
  Outside,        \* callers of resetCache() and waitForLastTransaction()
  NoLock, Settled,  \* see CacheLock
  MaxPoolSize,    \* #maxPoolSize
  CoinBatchSize,  \* #coinBatchSize
  OwnedCoins,     \* number of coins the signer owns at the start
  SourceGiven,    \* whether options.sourceCoins is given (then: all of them)
  Faults          \* the fault points that may reject

FaultPoints ==
  { "prepare",  \* #getUsedObjects
    "price",    \* #getGasPrice
    "fetch",    \* getObjects of the source coins
    "stale",    \* ... or it answers with a version the node is behind with
    "split",    \* building, signing or sending the refill transaction
    "abort",    \* the refill transaction aborts on chain
    "confirm",  \* waitForTransaction after the refill
    "resolve",  \* cache.buildTransaction
    "sign",     \* build, signing or a definite refusal of the transaction
    "reply" }   \* the transaction is sent and its answer is lost

ASSUME SizesAssumption ==
  /\ MaxPoolSize \in Nat \ {0}
  /\ CoinBatchSize \in Nat \ {0}
  /\ OwnedCoins \in Nat \ {0}
ASSUME SwitchesAssumption == SourceGiven \in BOOLEAN /\ Faults \subseteq FaultPoints
ASSUME CallsAssumption == IsFiniteSet(Txs) /\ Footprints \subseteq SUBSET Objects

VARIABLES
  pc,                   \* the await each call of executeTransaction is at
  objectIdQueues, usedObjects, conflicts, ticket,  \* see ObjectLocks
  executeQueue,         \* #executeQueue: tasks whose thunk is not called
  activeTasks,          \* #executeQueue.activeTasks
  buildQueue,           \* #buildQueue
  cacheLock, updating, awaited,  \* see CacheLock
  pendingTransactions,  \* #pendingTransactions
  coinPool,             \* #coinPool, a sequence of references
  sourceCoins,          \* #sourceCoins: id -> version, 0 for a null reference
  sourceIsNull,         \* #sourceCoins is null: all owned coins
  gasCoin,              \* gasCoin of each #execute, NoCoin before it has one
  batch,                \* batchSize of each #refillCoinPool, 0 outside
  payment,              \* the references it collected
  version,              \* chain: id -> version, 0 for a deleted coin
  inFlight              \* transactions sent and not yet decided by the chain

lockVars  == <<objectIdQueues, usedObjects, conflicts, ticket>>
cacheVars == <<cacheLock, updating, awaited>>
taskVars  == <<executeQueue, activeTasks>>
poolVars  == <<coinPool, sourceCoins, sourceIsNull>>
refillVars == <<batch, payment>>
chainVars == <<version, inFlight>>
callVars == <<lockVars, taskVars>>
coinVars == <<poolVars, gasCoin>>
ledgerVars == <<refillVars, chainVars>>
vars == <<pc, lockVars, taskVars, buildQueue, cacheVars, pendingTransactions,
          poolVars, gasCoin, refillVars, chainVars>>

-----------------------------------------------------------------------------
(* Where a call is.  "price" to "resolve" is the task of the build queue.   *)
Building == {"price", "lock", "gas", "fetch", "flush", "split", "splitSent",
             "splitWait", "resolve"}
AfterBuild == {"sign", "sent", "caught", "purge", "unwind", "freeing"}
Executing == {"inLine"} \union Building \union AfterBuild
PCs == {"new", "refused", "waiting", "queued", "done"} \union Executing

At(S) == { t \in Txs : pc[t] \in S }

\* How far a call has come with its object ids.
LockPhase ==
  [t \in Txs |-> IF pc[t] \in {"new", "refused"} THEN "new"
                ELSE IF pc[t] = "waiting" THEN "waiting"
                ELSE IF pc[t] \in {"freeing", "done"} THEN "released"
                ELSE "admitted"]

Locks == INSTANCE ObjectLocks WITH phase <- LockPhase

ExecQ == INSTANCE ParallelQueue WITH
  Tasks <- Txs, MaxTasks <- MaxPoolSize, queue <- executeQueue,
  running <- At(Executing), settled <- At({"done"})

BuildQ == INSTANCE SerialQueue WITH
  Tasks <- Txs, queue <- buildQueue,
  started <- At(Building), settled <- At(AfterBuild \union {"done"})

\* The call sites of #updateCache: the wait in the build task, the one of the
\* refill, the one of the catch block, and the public methods.
CallSites == (Txs \X {"build", "refill", "purge"}) \union (Outside \X {"reset"})
UpdateSites == { c \in CallSites : c[2] # "build" }

\* What the field of the lock may hold besides the promise of a call.
ASSUME PromisesAssumption ==
  NoLock # Settled /\ NoLock \notin CallSites /\ Settled \notin CallSites

Lock == INSTANCE CacheLock WITH Callers <- CallSites, Updaters <- UpdateSites

May(f) == f \in Faults

-----------------------------------------------------------------------------
(* Gas coins.                                                               *)
Ref(c, v) == [id |-> c, version |-> v]
NoCoin == Ref(0, 0)
Coins == DOMAIN version
Owned == { c \in Coins : version[c] # 0 }
Current == { Ref(c, version[c]) : c \in Owned }

SourceRefs == { Ref(c, sourceCoins[c]) : c \in DOMAIN sourceCoins }
With(f, c, v) == [d \in DOMAIN f \union {c} |-> IF d = c THEN v ELSE f[d]]
NoSources == [c \in {} |-> 0]

\* Mutant of PutSource: a new map is made although there is one.
PutSourceAlone(c, v) ==
  /\ sourceCoins' = With(NoSources, c, v)
  /\ sourceIsNull' = FALSE

\* #sourceCoins.set, after replacing null by an empty map.
PutSource(c, v) ==
  /\ sourceCoins' = With(sourceCoins, c, v)
  /\ sourceIsNull' = FALSE

\* Mutant of EmptySources: the map is left as it is.
KeepSources == UNCHANGED sourceCoins

\* The source coins are handed to a refill.
EmptySources == sourceCoins' = NoSources

Holders == { t \in Txs : gasCoin[t] # NoCoin }

Init ==
  /\ pc = [t \in Txs |-> "new"]
  /\ objectIdQueues = [o \in {} |-> <<>>]
  /\ usedObjects = [t \in Txs |-> {}]
  /\ conflicts = [t \in Txs |-> {}]
  /\ ticket = [t \in Txs |-> 0]
  /\ executeQueue = <<>> /\ activeTasks = 0
  /\ buildQueue = <<>>
  /\ Lock!LockInit
  /\ pendingTransactions = 0
  /\ coinPool = <<>>
  /\ sourceCoins = IF SourceGiven THEN [c \in 1..OwnedCoins |-> 0] ELSE NoSources
  /\ sourceIsNull = ~SourceGiven
  /\ gasCoin = [t \in Txs |-> NoCoin]
  /\ batch = [t \in Txs |-> 0]
  /\ payment = [t \in Txs |-> {}]
  /\ version = [c \in 1..OwnedCoins |-> 1]
  /\ inFlight = {}
-----------------------------------------------------------------------------
(* Moving calls through the two work queues.                                *)

\* Mutant of Place: whoever has a place builds at once.
BuildTogether(s, u) ==
  IF \E i \in 1..ExecQ!Admitted(Len(s)) : s[i] = u THEN "price" ELSE "queued"

\* The calls of s reach #executeQueue one after another: those that get a
\* place go on into #buildQueue in the same turn, and the first of these
\* starts building when nobody else does.  Where call u of s is then:
Place(s, u) ==
  LET i == CHOOSE j \in DOMAIN s : s[j] = u
  IN  IF i > ExecQ!Admitted(Len(s)) THEN "queued"
      ELSE IF i = 1 /\ buildQueue = <<>> THEN "price" ELSE "inLine"

Dispatch(s) ==
  /\ ExecQ!TakePlaces(s)
  /\ BuildQ!PushAll(SubSeq(s, 1, ExecQ!Admitted(Len(s))))

\* Call t moves on; the calls of s are dispatched in the same turn.
MoveAndPlace(t, to, s) ==
  pc' = [u \in Txs |-> IF u \in ToSet(s) THEN Place(s, u)
                       ELSE IF u = t THEN to ELSE pc[u]]

Move(t, to) == pc' = [pc EXCEPT ![t] = to]

\* The build task of t settles and the next one starts.
LeaveBuild(t, to) ==
  /\ pc' = [u \in Txs |-> IF u = t THEN to
                          ELSE IF Len(buildQueue) > 1 /\ u = buildQueue[2]
                               THEN "price" ELSE pc[u]]
  /\ BuildQ!Shift

\* An await of the build task rejects.
BuildFails(t) == LeaveBuild(t, "caught")
-----------------------------------------------------------------------------
(* executeTransaction.                                                      *)

\* #getUsedObjects rejects: nothing has been touched.
Refuse(t) ==
  /\ pc[t] = "new" /\ May("prepare")
  /\ Move(t, "refused")
  /\ UNCHANGED <<callVars, buildQueue, cacheVars, pendingTransactions, coinVars,
                 ledgerVars>>

\* #getUsedObjects returns; without conflicts execute() follows at once.
Arrive(t, used) ==
  /\ pc[t] = "new"
  /\ IF Locks!Held(used) = {}
     THEN MoveAndPlace(t, "queued", <<t>>) /\ Dispatch(<<t>>)
     ELSE Move(t, "waiting") /\ UNCHANGED <<taskVars, buildQueue>>
  /\ Locks!TakeIds(t, used)
  /\ UNCHANGED <<cacheVars, pendingTransactions, coinVars, ledgerVars>>

-----------------------------------------------------------------------------
(* The build task, up to the gas coin.                                      *)

\* The call sites of #updateCache in a transaction, by the await at which each
\* waits for the lock, and where it goes on.
Waits == [lock  |-> [site |-> "build",  next |-> "gas"],
          flush |-> [site |-> "refill", next |-> "split"],
          purge |-> [site |-> "purge",  next |-> "unwind"]]

\* Mutant of CallUpdate: the lock is taken without awaiting the one before.
TakeLockAtOnce(t, w) ==
  /\ Lock!Enter(<<t, Waits[w].site>>)
  /\ UNCHANGED awaited
  /\ Move(t, Waits[w].next)

\* A call of #updateCache by t: straight through, or to the await w of the lock
\* it found.
CallUpdate(t, w) ==
  \/ Lock!CallThrough(<<t, Waits[w].site>>) /\ Move(t, Waits[w].next)
  \/ Lock!CallAwaits(<<t, Waits[w].site>>) /\ Move(t, w)

ResumeUpdate(t) ==
  /\ pc[t] \in DOMAIN Waits
  /\ Lock!Resume(<<t, Waits[pc[t]].site>>)
  /\ Move(t, Waits[pc[t]].next)
  /\ UNCHANGED <<callVars, buildQueue, pendingTransactions, coinVars, ledgerVars>>

\* The gas price is known or fetched; #updateCache() is called.
Price(t) ==
  /\ pc[t] = "price"
  /\ CallUpdate(t, "lock")
  /\ UNCHANGED <<callVars, buildQueue, pendingTransactions, coinVars, ledgerVars>>

\* #updateCache() has returned: the transaction counts as pending.
CountPending(t) ==
  /\ pc[t] = "gas"
  /\ pendingTransactions' = pendingTransactions + 1

\* Mutant of ShiftCoin: the coin is read without being shifted out.
PeekCoin(t) ==
  /\ coinPool # <<>>
  /\ gasCoin' = [gasCoin EXCEPT ![t] = Head(coinPool)]
  /\ UNCHANGED poolVars

\* #coinPool.shift().
ShiftCoin(t) ==
  /\ coinPool # <<>>
  /\ gasCoin' = [gasCoin EXCEPT ![t] = Head(coinPool)]
  /\ coinPool' = Tail(coinPool)
  /\ UNCHANGED <<sourceCoins, sourceIsNull>>

TakePooledCoin(t) ==
  /\ CountPending(t)
  /\ ShiftCoin(t)
  /\ Move(t, "resolve")
  /\ UNCHANGED <<callVars, buildQueue, cacheVars, ledgerVars>>

\* Mutant of BatchSize: the room is not shared with pending transactions.
BatchIgnoringPending(p) ==
  LET room == MaxPoolSize - Len(coinPool)
  IN  IF CoinBatchSize < room THEN CoinBatchSize ELSE room

\* The size of the batch a refill creates, once p transactions are pending.
BatchSize(p) ==
  LET room == MaxPoolSize - (Len(coinPool) + p) + 1
  IN  IF CoinBatchSize < room THEN CoinBatchSize ELSE room

\* #refillCoinPool reads the source coins.  Without null references the map is
\* emptied at once and waitForLastTransaction() called; null references are
\* fetched first.
StartRefill(t, size) ==
  /\ batch' = [batch EXCEPT ![t] = size]
  /\ payment' = [payment EXCEPT ![t] = SourceRefs]
  /\ IF \E r \in SourceRefs : r.version = 0
     THEN Move(t, "fetch") /\ UNCHANGED <<poolVars, cacheVars>>
     ELSE /\ EmptySources
          /\ CallUpdate(t, "flush")
          /\ UNCHANGED <<coinPool, sourceIsNull>>
  /\ UNCHANGED buildQueue

\* Nothing is pooled: a refill, or 'No coins available' when none is allowed or
\* there is no room for a batch.
FindPoolEmpty(t) ==
  LET pending == pendingTransactions + 1
      size    == BatchSize(pending)
  IN  /\ CountPending(t)
      /\ coinPool = <<>>
      /\ IF pending <= MaxPoolSize /\ size # 0
         THEN StartRefill(t, size)
         ELSE BuildFails(t) /\ UNCHANGED <<poolVars, cacheVars, refillVars>>
      /\ UNCHANGED <<callVars, gasCoin, chainVars>>

\* A reference as getObjects answers it: the current one, an older one when
\* the node is behind, none when the coin is gone.
Answers(r) ==
  IF r.version # 0 THEN {r}
  ELSE { Ref(r.id, v) : v \in IF May("stale") THEN 1..version[r.id]
                              ELSE {version[r.id]} \ {0} }

\* getObjects answers: the references are complete and the map is emptied,
\* whatever has been put into it since it was read.
FetchSources(t) ==
  /\ pc[t] = "fetch"
  /\ \E refs \in SUBSET UNION { Answers(r) : r \in payment[t] } :
       /\ \A r \in payment[t] :
            Answers(r) # {} => Cardinality(refs \intersect Answers(r)) = 1
       /\ payment' = [payment EXCEPT ![t] = refs]
  /\ EmptySources
  /\ CallUpdate(t, "flush")
  /\ UNCHANGED <<callVars, buildQueue, pendingTransactions, coinPool, sourceIsNull,
                 gasCoin, batch, chainVars>>

\* The refill of t is over, one way or the other.
EndRefill(t) ==
  /\ batch' = [batch EXCEPT ![t] = 0]
  /\ payment' = [payment EXCEPT ![t] = {}]

-----------------------------------------------------------------------------
(* The refill transaction.                                                  *)

\* Signed transactions on their way: the gas they pay with and the number of
\* coins they create.
CallMessage(t) ==
  [by |-> t, kind |-> "call", gas |-> {gasCoin[t]}, creates |-> 0]
RefillMessage(t, gas) ==
  [by |-> t, kind |-> "refill", gas |-> gas, creates |-> batch[t]]

\* The gas payment of the refill: the collected references, or every owned
\* coin while #sourceCoins is null.
RefillGas(t) == IF sourceIsNull THEN Current ELSE payment[t]

SendRefill(t) ==
  /\ pc[t] = "split"
  /\ RefillGas(t) # {}
  /\ inFlight' = inFlight \union {RefillMessage(t, RefillGas(t))}
  /\ payment' = [payment EXCEPT ![t] = RefillGas(t)]
  /\ Move(t, "splitSent")
  /\ UNCHANGED <<callVars, buildQueue, cacheVars, pendingTransactions, coinVars,
                 batch, version>>

\* The chain accepts gas references only in their current version.
Valid(gas) == gas \subseteq Current

\* The chain merges the gas coins into g and, unless the transaction aborts,
\* creates n coins behind the last id.
AfterRefill(gas, g, n) ==
  [c \in 1..(Cardinality(Coins) + n) |->
     IF c \notin Coins THEN 1
     ELSE IF c = g THEN version[c] + 1
     ELSE IF \E r \in gas : r.id = c THEN 0
     ELSE version[c]]

NewRefs(n) == [i \in 1..n |-> Ref(Cardinality(Coins) + i, 1)]

\* The coin that paid for the refill is a source coin again.
ReturnRefillGas(r) == PutSource(r.id, r.version + 1)

\* The answer to the refill: created coins go to the pool, the gas coin to the
\* source coins; an aborted transaction creates none.
RefillAnswered(t) ==
  /\ pc[t] = "splitSent"
  /\ Valid(payment[t])
  /\ \E r \in payment[t], n \in {0, batch[t]} :
       /\ n = 0 => May("abort")
       /\ version' = AfterRefill(payment[t], r.id, n)
       /\ coinPool' = coinPool \o NewRefs(n)
       /\ ReturnRefillGas(r)
  /\ inFlight' = inFlight \ {RefillMessage(t, payment[t])}
  /\ EndRefill(t)
  /\ Move(t, "splitWait")
  /\ UNCHANGED <<callVars, buildQueue, cacheVars, pendingTransactions, gasCoin>>

\* A stale reference: the chain refuses the refill.
RefillRefused(t) ==
  /\ pc[t] = "splitSent"
  /\ ~Valid(payment[t])
  /\ inFlight' = inFlight \ {RefillMessage(t, payment[t])}
  /\ BuildFails(t)
  /\ EndRefill(t)
  /\ UNCHANGED <<callVars, cacheVars, pendingTransactions, coinVars, version>>

\* waitForTransaction resolves and the first coin is taken, if there is one.
RefillConfirmed(t) ==
  /\ pc[t] = "splitWait"
  /\ \/ /\ ShiftCoin(t)
        /\ Move(t, "resolve")
        /\ UNCHANGED buildQueue
     \/ /\ coinPool = <<>>
        /\ BuildFails(t)
        /\ UNCHANGED coinVars
  /\ UNCHANGED <<callVars, cacheVars, pendingTransactions, ledgerVars>>

\* The awaits of the build task that can reject.  The gas price is fetched
\* before #pendingTransactions is incremented; a refill whose answer is lost
\* stays on its way; coins of an unconfirmed one stay in the pool.
BuildAwaits == [price |-> "price", fetch |-> "fetch", split |-> "split",
                splitSent |-> "reply", splitWait |-> "confirm", resolve |-> "resolve"]

\* One of them does.  A refill without gas coins always fails: it would pay from
\* the address balance, where there is no gas coin to split.
BuildRejects(t) ==
  /\ pc[t] \in DOMAIN BuildAwaits
  /\ \/ May(BuildAwaits[pc[t]])
     \/ pc[t] = "split" /\ RefillGas(t) = {}
  /\ BuildFails(t)
  /\ EndRefill(t)
  /\ UNCHANGED <<callVars, cacheVars, pendingTransactions, coinVars, chainVars>>

-----------------------------------------------------------------------------
(* The transaction itself.                                                  *)

Resolve(t) ==
  /\ pc[t] = "resolve"
  /\ LeaveBuild(t, "sign")
  /\ UNCHANGED <<callVars, cacheVars, pendingTransactions, coinVars, ledgerVars>>

Send(t) ==
  /\ pc[t] = "sign"
  /\ Move(t, "sent")
  /\ inFlight' = inFlight \union {CallMessage(t)}
  /\ UNCHANGED <<callVars, buildQueue, cacheVars, pendingTransactions, coinVars,
                 refillVars, version>>

\* Building, signing or a definite refusal rejects, or the answer is lost and
\* the transaction stays on its way.
SendRejects(t) ==
  /\ \/ pc[t] = "sign" /\ May("sign")
     \/ pc[t] = "sent" /\ May("reply")
  /\ Move(t, "caught")
  /\ UNCHANGED <<callVars, buildQueue, cacheVars, pendingTransactions, coinVars,
                 ledgerVars>>

\* Mutant of Woken: the callbacks are dropped.
WakeNobody(t) == {}

\* The calls that t holds up and that wait for nobody else.
Woken(t) == Locks!ReadyAfter(t)

Uncount == pendingTransactions' = pendingTransactions - 1

\* The finally block of #execute: the ids of t are passed on, the calls that
\* are ready now reach #executeQueue in the order of the ids, and t is no
\* longer pending.
Finish(t) ==
  /\ \E s \in SetToSeqs(Woken(t)) :
       MoveAndPlace(t, "freeing", s) /\ Dispatch(s)
  /\ Locks!PassIds(t)
  /\ Uncount

\* Mutant of GasRef: the reference the transaction paid with is kept.
InputRef(t) == gasCoin[t]

\* The reference of the gas coin in the effects of the transaction.
GasRef(t) == Ref(gasCoin[t].id, gasCoin[t].version + 1)

\* The answer to the transaction, successful or aborted on chain (GasIsCurrent
\* shows that it is never refused for a stale gas reference).  Its gas coin
\* returns to the pool, or to the source coins when the transaction used it or
\* left too little on it, or is gone when it was given away.
Answered(t) ==
  LET c == gasCoin[t].id
      v == version[c] + 1
  IN  /\ pc[t] = "sent"
      /\ Valid({gasCoin[t]})
      /\ \/ /\ coinPool' = Append(coinPool, GasRef(t))
            /\ UNCHANGED <<sourceCoins, sourceIsNull>>
            /\ version' = [version EXCEPT ![c] = v]
         \/ /\ PutSource(c, GasRef(t).version)
            /\ UNCHANGED coinPool
            /\ version' = [version EXCEPT ![c] = v]
         \/ /\ UNCHANGED poolVars
            /\ version' = [version EXCEPT ![c] = 0]
      /\ inFlight' = inFlight \ {CallMessage(t)}
      /\ gasCoin' = [gasCoin EXCEPT ![t] = NoCoin]
      /\ Finish(t)
      /\ UNCHANGED <<cacheVars, refillVars>>

\* A gas coin whose transaction failed is a source coin with a null reference.
GiveBack(t) ==
  IF gasCoin[t] = NoCoin
  THEN UNCHANGED poolVars
  ELSE PutSource(gasCoin[t].id, 0) /\ UNCHANGED coinPool

\* The catch block: the gas coin is given back, and the cache entries of the
\* used objects are dropped under the cache lock.
Catch(t) ==
  /\ pc[t] = "caught"
  /\ GiveBack(t)
  /\ gasCoin' = [gasCoin EXCEPT ![t] = NoCoin]
  /\ CallUpdate(t, "purge")
  /\ UNCHANGED <<callVars, buildQueue, pendingTransactions, ledgerVars>>

\* The error is rethrown through the finally block.
Unwind(t) ==
  /\ pc[t] = "unwind"
  /\ Finish(t)
  /\ UNCHANGED <<cacheVars, coinVars, ledgerVars>>

\* The promise of executeTransaction is settled and finally() of #executeQueue
\* hands the place of t on; the next call enters #buildQueue in that turn.
FreePlace(t) ==
  LET next == IF executeQueue = <<>> THEN <<>> ELSE <<Head(executeQueue)>>
  IN  /\ pc[t] = "freeing"
      /\ pc' = [u \in Txs |->
                  IF u = t THEN "done"
                  ELSE IF u \in ToSet(next)
                  THEN IF buildQueue = <<>> THEN "price" ELSE "inLine"
                  ELSE pc[u]]
      /\ ExecQ!HandOn
      /\ BuildQ!PushAll(next)
      /\ UNCHANGED <<lockVars, cacheVars, pendingTransactions, coinVars,
                     ledgerVars>>

-----------------------------------------------------------------------------
(* The environment.                                                         *)

\* A transaction whose sender has given up reaches the chain after all.
LandLate(m) ==
  /\ m \in inFlight
  /\ pc[m.by] # IF m.kind = "call" THEN "sent" ELSE "splitSent"
  /\ inFlight' = inFlight \ {m}
  /\ IF ~Valid(m.gas) THEN UNCHANGED version
     ELSE \E r \in m.gas, n \in {0, m.creates} :
            version' = AfterRefill(m.gas, r.id, n)
  /\ UNCHANGED <<pc, callVars, buildQueue, cacheVars, pendingTransactions, coinVars,
                 refillVars>>

\* resetCache() and waitForLastTransaction(), called by the application.
OutsideUpdate(x) ==
  /\ \/ Lock!UpdateCache(<<x, "reset">>)
     \/ Lock!Resume(<<x, "reset">>)
  /\ UNCHANGED <<pc, callVars, buildQueue, pendingTransactions, coinVars,
                 ledgerVars>>

\* The function of an update settles.
SettleUpdate(c) ==
  /\ Lock!Settle(c)
  /\ UNCHANGED <<pc, callVars, buildQueue, pendingTransactions, coinVars,
                 ledgerVars>>

-----------------------------------------------------------------------------
CallStep(t) ==
  \/ Price(t) \/ ResumeUpdate(t)
  \/ TakePooledCoin(t) \/ FindPoolEmpty(t)
  \/ FetchSources(t) \/ SendRefill(t)
  \/ RefillAnswered(t) \/ RefillRefused(t) \/ RefillConfirmed(t)
  \/ Resolve(t) \/ BuildRejects(t)
  \/ Send(t) \/ Answered(t) \/ SendRejects(t)
  \/ Catch(t) \/ Unwind(t)
  \/ FreePlace(t)

Next ==
  \/ \E t \in Txs :
       \/ Refuse(t)
       \/ \E used \in Footprints : Arrive(t, used)
       \/ CallStep(t)
  \/ \E m \in inFlight : LandLate(m)
  \/ \E x \in Outside : OutsideUpdate(x)
  \/ \E c \in CallSites : SettleUpdate(c)

Spec == Init /\ [][Next]_vars

\* Every await of a call is a promise of the client, the signer or the lock,
\* which settles, and the event loop runs every callback that is due.
FairSpec ==
  /\ Spec
  /\ \A t \in Txs : WF_vars(CallStep(t))
  /\ \A c \in CallSites : WF_vars(SettleUpdate(c))

-----------------------------------------------------------------------------
AllRefs == [id : Coins, version : Nat]

TypeOK ==
  /\ pc \in [Txs -> PCs]
  /\ Locks!IdsTypeOK
  /\ ExecQ!TypeOK
  /\ BuildQ!SerialTypeOK
  /\ Lock!LockTypeOK
  /\ pendingTransactions \in Int
  /\ coinPool \in Seq(AllRefs)
  /\ DOMAIN sourceCoins \subseteq Coins
  /\ \A c \in DOMAIN sourceCoins : sourceCoins[c] \in Nat
  /\ sourceIsNull \in BOOLEAN
  /\ gasCoin \in [Txs -> AllRefs \union {NoCoin}]
  /\ batch \in [Txs -> 0..CoinBatchSize]
  /\ payment \in [Txs -> SUBSET AllRefs]
  /\ Coins = 1..Cardinality(Coins)
  /\ \A c \in Coins : version[c] \in Nat

\* The coins a refill creates and those already made, pooled or in use by a
\* transaction, stay within maxPoolSize (parallel.ts:31), also while a batch is
\* on its way and coins come back from transactions that finish meanwhile.
PoolBounded ==
  \A t \in Txs : Len(coinPool) + Cardinality(Holders) + batch[t] <= MaxPoolSize

\* #pendingTransactions counts the transactions between the increment in the
\* build task and the finally block.
Pending == At((Building \ {"price", "lock", "gas"}) \union (AfterBuild \ {"freeing"}))
PendingCounts == pendingTransactions = Cardinality(Pending)

\* Where the executor keeps a coin: the pool, a transaction, the source coins
\* or the payment of a refill.
InPool(c) == { i \in DOMAIN coinPool : coinPool[i].id = c }
HeldBy(c) == { t \in Txs : gasCoin[t].id = c }
PaidBy(c) == { t \in Txs : \E r \in payment[t] : r.id = c }
InSource(c) == { d \in DOMAIN sourceCoins : d = c }

\* A coin is kept in one place only, and once: no two transactions are given
\* the same coin, and no refill merges a coin that a transaction pays with.
\* (While getObjects is awaited the references are a copy of the map.)
OnePlacePerCoin ==
  \A c \in Coins :
    Cardinality(InPool(c)) + Cardinality(HeldBy(c)) + Cardinality(InSource(c))
      + Cardinality(PaidBy(c) \ At({"fetch"})) <= 1

\* A coin in the pool or given to a transaction is referenced in its current
\* version, whatever failed before: no transaction is refused for its gas.
GasIsCurrent ==
  /\ \A i \in DOMAIN coinPool : coinPool[i] \in Current
  /\ \A t \in Holders \ At({"caught"}) : gasCoin[t] \in Current

\* A transaction that finds the pool empty may refill it, with room for a coin
\* of its own: 'No coins available' is never thrown for want of room.
RefillNeverRefused ==
  coinPool = <<>> /\ At({"gas"}) # {}
    => pendingTransactions < MaxPoolSize /\ BatchSize(pendingTransactions + 1) > 0

\* The room of the pool is accounted for: the coins stay within the limit, the
\* count that a refill is sized by is true, and no transaction is turned away.
PoolAccounted == PoolBounded /\ PendingCounts /\ RefillNeverRefused

\* The same version of a coin is never in two undecided transactions, which
\* would lock it until the end of the epoch (docs executors.mdx:76).
NoEquivocation ==
  \A m, n \in inFlight : m.gas \intersect n.gas # {} => m = n

\* parallel.ts:42 "If the gasCoin is below this value, it will be used when
\* refilling the gasPool": every coin the signer still owns is kept somewhere.
NoCoinForgotten ==
  \A c \in Owned :
    \/ sourceIsNull
    \/ InPool(c) \union HeldBy(c) \union InSource(c) \union PaidBy(c) # {}

\* Every promise executeTransaction returns is settled, in spite of the object
\* ids, the place, the build task and the lock it may have to wait for, and of
\* what fails on the way.
EveryCallSettles ==
  \A t \in Txs : pc[t] \in PCs \ {"new", "refused"} ~> pc[t] = "done"

\* The composition takes the object locks and both queues through steps of their
\* own modules only: what is true of each of the three by itself, such as that
\* calls exclude each other, holds in the executor too.  So does the cache lock.
LocksSpec == Locks!IdsSpec
ExecuteQueueSpec == ExecQ!Spec
BuildQueueSpec == BuildQ!SerialSpec
PartsSpec == LocksSpec /\ ExecuteQueueSpec /\ BuildQueueSpec
CacheLockSpec == Lock!LockSpec
=============================================================================
