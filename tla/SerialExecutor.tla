--------------------------- MODULE SerialExecutor ---------------------------
(***************************************************************************)
(* SerialTransactionExecutor in coin mode (executor/serial.ts) over its    *)
(* CachingTransactionExecutor (executor/caching.ts) and ObjectCache, with  *)
(* the chain and a full node that lags behind it.                          *)
(*                                                                         *)
(* One action is one turn of the event loop, from one await to the next.   *)
(* The cache is the default InMemoryCache, whose promises settle within    *)
(* the turn.  Transactions come unbuilt, use objects by id and leave the   *)
(* gas payment to the executor; the digest of a transaction, and the       *)
(* version it gives to the objects it writes, is its place in the history. *)
(***************************************************************************)
EXTENDS Integers, Sequences, FiniteSets, SequencesExt, ObjectCache

CONSTANTS
  Txs,         \* calls of executeTransaction
  Objects,     \* ids of objects the signer owns at the start
  Coins,       \* ids of its gas coins
  Footprints,  \* the sets of objects a transaction may use
  App,         \* what the application calls beside: "reset", "wait", "apply"
  MaxOutside,  \* bound on transactions executed without the executor
  Fates,       \* what transactions may do to objects besides writing them
  Faults       \* the fault points that may reject

FaultPoints == { "resolve",  \* a read of the full node while building
                 "send",     \* the transaction never reaches the chain
                 "reply",    \* it is executed and the answer is lost
                 "wait" }    \* waitForTransaction times out

ASSUME InputsAssumption ==
  /\ IsFiniteSet(Txs) /\ Txs \intersect App = {}
  /\ Footprints \subseteq SUBSET Objects
  /\ Objects \intersect Coins = {}
  /\ App \subseteq {"reset", "wait", "apply"}
  /\ MaxOutside \in Nat
  /\ Fates \subseteq {"other", "frozen", "gone", "gasToOther"}
  /\ Faults \subseteq FaultPoints

VARIABLES
  pc,          \* the await each call is at
  queue,       \* #queue
  used,        \* the objects of each transaction
  refs,        \* the versions it is built with: id -> version
  gasPayment,  \* the coins it pays with
  result,      \* the digest of each transaction that was executed, or 0
  cache,       \* #cache.cache: the object entries
  gasCoin,     \* #cache.cache: the custom entry "gasCoin", or NoCoin
  lastDigest,  \* #cache.#lastDigest, 0 for null
  awaited,     \* the digest a reset or wait is waiting for, 0 for none
  history,     \* chain: its state after each executed transaction
  node,        \* how much of it the full node has seen
  untold       \* outside transactions that applyEffects was not called for

callVars  == <<pc, queue, used, refs, gasPayment>>
cacheVars == <<cache, gasCoin>>
chainVars == <<history, node, untold>>
vars == <<callVars, result, cacheVars, lastDigest, awaited, chainVars>>

Items == Objects \union Coins
NoCoin == [id |-> 0, version |-> 0]
May(f) == f \in Faults

\* A digest is the index of the state the transaction leads to.
Chain == history[Len(history)]
NodeView == history[node]

Running == {"prepare", "resolve", "sign", "sent", "landed", "failed", "waiting"}
At(S) == { t \in Txs : pc[t] \in S }

Queue == INSTANCE SerialQueue
           WITH Tasks <- Txs, started <- At(Running), settled <- At({"done"})

Init ==
  /\ pc = [t \in Txs |-> "new"]
  /\ queue = <<>>
  /\ used = [t \in Txs |-> {}]
  /\ refs = [t \in Txs |-> Nothing]
  /\ gasPayment = [t \in Txs |-> {}]
  /\ result = [t \in Txs |-> 0]
  /\ cache = Empty
  /\ gasCoin = NoCoin
  /\ lastDigest = 0
  /\ awaited = [x \in Txs \union App |-> 0]
  /\ history = << [x \in Items |-> [version |-> 1, owner |-> "signer"]] >>
  /\ node = 1
  /\ untold = {}

-----------------------------------------------------------------------------
(* The queue and building.                                                  *)

\* executeTransaction or buildTransaction: the task enters the queue and starts
\* when it is alone.
Execute(t, objects) ==
  /\ pc[t] = "new"
  /\ pc' = [pc EXCEPT ![t] = IF queue = <<>> THEN "prepare" ELSE "inLine"]
  /\ used' = [used EXCEPT ![t] = objects]
  /\ Queue!PushAll(<<t>>)
  /\ UNCHANGED <<refs, gasPayment, result, cacheVars, lastDigest, awaited, chainVars>>

\* Mutant of Leave: a call whose transaction was executed leaves the queue
\* with its successor still in line.
LeaveAlone(t) ==
  /\ pc' = [pc EXCEPT ![t] = "done"]
  /\ Queue!Shift

\* The task of t settles and the next one starts.
Leave(t) ==
  /\ pc' = [u \in Txs |-> IF u = t THEN "done"
                          ELSE IF Len(queue) > 1 /\ u = queue[2]
                               THEN "prepare" ELSE pc[u]]
  /\ Queue!Shift

Move(t, to) == pc' = [pc EXCEPT ![t] = to] /\ UNCHANGED queue

\* #buildTransaction, up to the full node: the gas coin and the references the
\* cache knows.
ReadCache(t) ==
  LET known == used[t] \intersect Cached(cache)
      gas   == { x \in {gasCoin.id} : gasCoin # NoCoin }
  IN  /\ pc[t] = "prepare"
      /\ refs' = [refs EXCEPT ![t] =
                    [x \in known \union gas |->
                       IF x \in gas THEN gasCoin.version ELSE GetObject(cache, x)]]
      /\ gasPayment' = [gasPayment EXCEPT ![t] = gas]
      /\ Move(t, "resolve")
      /\ UNCHANGED <<used, result, cacheVars, lastDigest, awaited, chainVars>>

\* What the full node lists as coins of the signer.
ListedCoins == { c \in Coins : NodeView[c].owner = "signer" }
Unresolved(t) == used[t] \ DOMAIN refs[t]
Payment(t) == IF gasPayment[t] # {} THEN gasPayment[t] ELSE ListedCoins
CanResolve(t) ==
  /\ \A x \in Unresolved(t) : NodeView[x].owner # "gone"
  /\ Payment(t) # {}

\* The rest of the references and, without a gas coin, the payment come from
\* the full node.
Resolve(t) ==
  LET fetched == Unresolved(t) \union (Payment(t) \ gasPayment[t])
  IN  /\ pc[t] = "resolve"
      /\ CanResolve(t)
      /\ refs' = [refs EXCEPT ![t] =
                    SetAll(refs[t], [x \in fetched |-> NodeView[x].version])]
      /\ gasPayment' = [gasPayment EXCEPT ![t] = Payment(t)]
      /\ Move(t, "sign")
      /\ UNCHANGED <<used, result, cacheVars, lastDigest, awaited, chainVars>>

\* A read fails, an object does not exist or there is no coin: the error does
\* not pass the catch of executeTransaction.
ResolveFails(t) ==
  /\ pc[t] = "resolve"
  /\ May("resolve") \/ ~CanResolve(t)
  /\ Leave(t)
  /\ UNCHANGED <<used, refs, gasPayment, result, cacheVars, lastDigest, awaited,
                 chainVars>>

\* The bytes are signed and sent; a call of buildTransaction() ends here, and so
\* does one whose signer rejects.
Sign(t) ==
  /\ pc[t] = "sign"
  /\ Move(t, "sent") \/ Leave(t)
  /\ UNCHANGED <<used, refs, gasPayment, result, cacheVars, lastDigest, awaited,
                 chainVars>>

-----------------------------------------------------------------------------
(* The chain.                                                               *)

\* The chain accepts references to current versions of objects the signer
\* owns, or that are frozen.
Usable(t, x) ==
  /\ refs[t][x] = Chain[x].version
  /\ Chain[x].owner \in {"signer"} \union
                        (IF x \in gasPayment[t] THEN {} ELSE {"frozen"})
Valid(t) == \A x \in DOMAIN refs[t] : Usable(t, x)

\* Executing a transaction that writes the objects of W, gives the object or
\* coin x the owner f, and merges the coins of M into g.
After(W, M, g, x, f) ==
  LET n == Len(history) + 1
  IN  [y \in Items |->
         IF y \in M \ {g} THEN [version |-> n, owner |-> "gone"]
         ELSE IF y = x THEN [version |-> n, owner |-> f]
         ELSE IF y \in W \union {g} THEN [version |-> n, owner |-> Chain[y].owner]
         ELSE Chain[y]]

\* The transaction of t is executed.
Land(t) ==
  LET owned == { x \in used[t] : Chain[x].owner = "signer" }
      n     == Len(history) + 1
  IN  /\ pc[t] = "sent"
      /\ Valid(t)
      /\ \E g \in gasPayment[t] :
           /\ \/ history' = Append(history, After(owned, gasPayment[t], g, g, "signer"))
              \/ \E x \in owned, f \in Fates \ {"gasToOther"} :
                   history' = Append(history, After(owned, gasPayment[t], g, x, f))
              \/ /\ "gasToOther" \in Fates
                 /\ history' = Append(history, After(owned, gasPayment[t], g, g, "other"))
           /\ gasPayment' = [gasPayment EXCEPT ![t] = {g}]
      /\ result' = [result EXCEPT ![t] = n]
      /\ Move(t, "landed")
      /\ UNCHANGED <<used, refs, cacheVars, lastDigest, awaited, node, untold>>

\* The chain refuses the transaction, or it gets lost on its way.
Refuse(t) ==
  /\ pc[t] = "sent"
  /\ ~Valid(t) \/ May("send")
  /\ Move(t, "failed")
  /\ UNCHANGED <<used, refs, gasPayment, result, cacheVars, lastDigest, awaited,
                 chainVars>>

\* The full node sees one more transaction.
NodeSees ==
  /\ node < Len(history)
  /\ node' = node + 1
  /\ UNCHANGED <<callVars, result, cacheVars, lastDigest, awaited, history, untold>>

\* Another wallet of the signer executes a transaction of its own.
OutsideTx(x, g) ==
  /\ Len(history) - Cardinality({ t \in Txs : result[t] # 0 }) <= MaxOutside
  /\ Chain[x].owner = "signer" /\ Chain[g].owner = "signer"
  /\ history' = Append(history, After({x}, {g}, g, g, "signer"))
  /\ untold' = untold \union {Len(history) + 1}
  /\ UNCHANGED <<callVars, result, cacheVars, lastDigest, awaited, node>>

-----------------------------------------------------------------------------
(* The cache after a transaction.                                           *)

Changed(n) == { x \in Items : history[n][x] # history[n - 1][x] }
Effects(n) ==
  [written |-> [x \in { y \in Changed(n) : history[n][y].owner # "gone" } |->
                  history[n][x]],
   removed |-> { x \in Changed(n) : history[n][x].owner = "gone" }]

\* Mutant of ApplyAll: a gas coin the cache knows is not written again.
ApplyAllKeepingCoin(n, g) ==
  /\ lastDigest' = n
  /\ cache' = ApplyEffects(cache, Effects(n))
  /\ gasCoin' = IF gasCoin.id = g THEN gasCoin ELSE [id |-> g, version |-> n]

\* applyEffects, with #cacheGasCoin as the onEffects callback: the gas coin g of
\* transaction n is remembered, whoever owns it now.
ApplyAll(n, g) ==
  /\ lastDigest' = n
  /\ cache' = ApplyEffects(cache, Effects(n))
  /\ gasCoin' = [id |-> g, version |-> n]

Answered(t) ==
  /\ pc[t] = "landed"
  /\ \E g \in gasPayment[t] : ApplyAll(result[t], g)
  /\ Leave(t)
  /\ UNCHANGED <<used, refs, gasPayment, result, awaited, chainVars>>

AnswerLost(t) ==
  /\ pc[t] = "landed" /\ May("reply")
  /\ Move(t, "failed")
  /\ UNCHANGED <<used, refs, gasPayment, result, cacheVars, lastDigest, awaited,
                 chainVars>>

\* applyEffects called by the application for a transaction of another wallet,
\* before the effects of a later transaction have been applied: the class does
\* not compare versions, their order is the application's care.
ApplyOutside(n, g) ==
  /\ "apply" \in App /\ n \in untold /\ g \in Changed(n) \intersect Coins
  /\ \A t \in At({"done"}) : result[t] < n
  /\ \A k \in untold : n <= k
  /\ ApplyAll(n, g)
  /\ untold' = untold \ {n}
  /\ UNCHANGED <<callVars, result, awaited, history, node>>

\* Mutant of ClearCaches: the gas coin is kept.
ClearObjectsOnly ==
  /\ cache' = ClearOwnedObjects(cache)
  /\ UNCHANGED gasCoin

\* The caches are emptied at once, while waitForLastTransaction() is waiting.
ClearCaches ==
  /\ cache' = ClearOwnedObjects(cache)
  /\ gasCoin' = NoCoin

\* Mutant of ToAwait: a reset forgets about the last transaction.
AwaitNothing == 0

\* The digest waitForLastTransaction() waits for.
ToAwait == lastDigest

\* The full node has seen the digest, or waitForTransaction gives up.  The field
\* is cleared, whatever it holds by then.
EndWait(x) ==
  /\ awaited[x] # 0
  /\ \/ awaited[x] <= node /\ lastDigest' = 0
     \/ May("wait") /\ UNCHANGED lastDigest
  /\ awaited' = [awaited EXCEPT ![x] = 0]

\* The catch of executeTransaction: resetCache() runs until it has to wait.
Reset(t) ==
  /\ pc[t] = "failed"
  /\ ClearCaches
  /\ awaited' = [awaited EXCEPT ![t] = ToAwait]
  /\ IF ToAwait = 0 THEN Leave(t) ELSE Move(t, "waiting")
  /\ UNCHANGED <<used, refs, gasPayment, result, lastDigest, chainVars>>

\* The reset is over and the error is rethrown.
ResetDone(t) ==
  /\ pc[t] = "waiting"
  /\ EndWait(t)
  /\ Leave(t)
  /\ UNCHANGED <<used, refs, gasPayment, result, cacheVars, chainVars>>

\* resetCache() and waitForLastTransaction() called by the application.
AppCall(x) ==
  /\ awaited[x] = 0
  /\ \/ x = "reset" /\ ClearCaches
     \/ x = "wait" /\ UNCHANGED cacheVars
  /\ awaited' = [awaited EXCEPT ![x] = ToAwait]
  /\ UNCHANGED <<callVars, result, lastDigest, chainVars>>

AppCallDone(x) ==
  /\ EndWait(x)
  /\ UNCHANGED <<callVars, result, cacheVars, chainVars>>

-----------------------------------------------------------------------------
CallStep(t) ==
  \/ ReadCache(t) \/ Resolve(t) \/ ResolveFails(t)
  \/ Sign(t)
  \/ Land(t) \/ Refuse(t)
  \/ Answered(t) \/ AnswerLost(t)
  \/ Reset(t) \/ ResetDone(t)

Next ==
  \/ \E t \in Txs :
       \/ \E objects \in Footprints : Execute(t, objects)
       \/ CallStep(t)
  \/ NodeSees
  \/ \E x \in Objects, g \in Coins : OutsideTx(x, g)
  \/ \E n \in untold, g \in Coins : ApplyOutside(n, g)
  \/ \E x \in App : AppCall(x) \/ AppCallDone(x)

Spec == Init /\ [][Next]_vars

\* The promises a call awaits settle, and the full node catches up.
FairSpec == Spec /\ WF_vars(NodeSees) /\ \A t \in Txs : WF_vars(CallStep(t))

-----------------------------------------------------------------------------
TypeOK ==
  /\ Queue!SerialTypeOK
  /\ pc \in [Txs -> {"new", "inLine", "done"} \union Running]
  /\ used \in [Txs -> Footprints \union {{}}]
  /\ \A t \in Txs : refs[t] \in [DOMAIN refs[t] -> 1..Len(history)]
  /\ gasPayment \in [Txs -> SUBSET Coins]
  /\ \A x \in Cached(cache) : x \in Items /\ GetObject(cache, x) \in 1..Len(history)
  /\ gasCoin \in [id : Coins, version : 1..Len(history)] \union {NoCoin}
  /\ {lastDigest} \union { awaited[x] : x \in DOMAIN awaited } \subseteq 0..Len(history)
  /\ { result[t] : t \in Txs } \subseteq 0..Len(history)
  /\ \A n \in DOMAIN history :
       history[n] \in [Items -> [version : 1..Len(history), owner : Owners]]
  /\ node \in DOMAIN history
  /\ untold \subseteq DOMAIN history

\* Version v of x has been replaced by a transaction of this executor.
Outdated(x, v) == \E t \in Txs : result[t] > v /\ x \in Changed(result[t])

\* executors.mdx:135 "allow the executor to use object versions and digests from
\* the cache, and will avoid executing transactions using stale object
\* versions": no transaction refers to a version that an earlier one of the
\* executor has replaced, although the full node may not have seen that one,
\* calls fail, and other wallets execute transactions meanwhile.  (An object
\* that exists no more is not in the cache.)
NeverStale ==
  \A t \in At({"sent"}) : \A x \in DOMAIN refs[t] :
    Chain[x].owner # "gone" => ~Outdated(x, refs[t][x])

\* executors.mdx:19 "a single coin that will then be used as the gas payment on
\* all subsequent transactions": the coins a transaction pays with exist in that
\* version and belong to the signer.
GasIsUsable ==
  \A t \in At({"sent"}) : \A g \in gasPayment[t] :
    Chain[g].owner = "signer" /\ ~Outdated(g, refs[t][g])

\* Unless the outcome of a call is still to be learnt or its failure to be
\* handled, no cached version has been replaced by a transaction of the
\* executor, whatever answers were lost and whenever the application resets.
CacheIsCurrent ==
  At({"landed", "failed"}) = {} =>
    /\ \A x \in DOMAIN cache.OwnedObject : ~Outdated(x, cache.OwnedObject[x])
    /\ gasCoin # NoCoin => ~Outdated(gasCoin.id, gasCoin.version)

\* Every promise executeTransaction returns is settled: no failure leaves the
\* queue or a reset hanging.
EveryCallSettles == \A t \in Txs : pc[t] # "new" ~> pc[t] = "done"

\* The calls go through #queue by steps of SerialQueue only.
QueueSpec == Queue!SerialSpec
=============================================================================
