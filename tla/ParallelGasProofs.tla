-------------------------- MODULE ParallelGasProofs --------------------------
(***************************************************************************)
(* The gas coins of ParallelTransactionExecutor: proofs.                   *)
(*                                                                         *)
(* Every turn of a call is one of nine moves of coins (GasTurn).  GasInv   *)
(* is kept by each of them, whatever fails: no coin is in two places, and  *)
(* what is pooled or in use is current, because no transaction on its way  *)
(* names it but the one of the call that awaits its answer.  Three more    *)
(* invariants rest on it, each under the faults it can stand: RoomInv, on  *)
(* the room of the pool; AnsweredInv, on transactions on their way; and    *)
(* CarefulInv, on the coins that must not be forgotten.                    *)
(***************************************************************************)
EXTENDS ParallelExecutorProofs

-----------------------------------------------------------------------------
(* What is known of the coins.                                              *)

Reference == [id : Nat, version : Nat]

\* Where a call has a gas coin, and where it collects coins for a refill.
UsesCoin == {"resolve", "sign", "sent"}
Refilling == {"fetch", "flush", "split", "splitSent"}

Typed ==
  /\ coinPool \in Seq(Reference)
  /\ gasCoin \in [Txs -> Reference]
  /\ batch \in [Txs -> Nat]
  /\ payment \in [Txs -> SUBSET Reference]
  /\ sourceCoins \in [DOMAIN sourceCoins -> Nat]
  /\ sourceIsNull \in BOOLEAN
  /\ version \in [Coins -> Nat]
  /\ IsFiniteSet(Coins) /\ Coins = 1..Cardinality(Coins)
  /\ \A m \in inFlight : m.by \in Txs /\ m.gas \subseteq Reference /\ m.creates \in Nat

Stages ==
  \A t \in Txs :
    /\ pc[t] \in UsesCoin => gasCoin[t] # NoCoin
    /\ gasCoin[t] # NoCoin => pc[t] \in UsesCoin \union {"caught"}
    /\ batch[t] # 0 \/ payment[t] # {} => pc[t] \in Refilling

Pooled == ToSet(coinPool)

\* Whatever the executor refers to exists, or did.
KnownIds ==
  /\ \A r \in Pooled : r.id \in Coins
  /\ \A t \in Holders : gasCoin[t].id \in Coins
  /\ DOMAIN sourceCoins \subseteq Coins
  /\ \A t \in Txs : \A r \in payment[t] : r.id \in Coins
  /\ \A m \in inFlight : \A r \in m.gas : r.id \in Coins

\* The references of a pool name different coins.
Apart(s) == IsInjective(s) /\ \A q, r \in ToSet(s) : q.id = r.id => q = r

\* No coin is in two places.  While getObjects is awaited the payment is a copy
\* of source coins, to which others may be added; while the source coins are
\* null no coin is anywhere else than in a payment.
PlacesApart ==
  /\ Apart(coinPool)
  /\ \A t, u \in Holders : gasCoin[t].id = gasCoin[u].id => t = u
  /\ \A r \in Pooled : \A t \in Holders : r.id # gasCoin[t].id
  /\ \A r \in Pooled : r.id \notin DOMAIN sourceCoins
  /\ \A t \in Holders : gasCoin[t].id \notin DOMAIN sourceCoins
  /\ \A t \in Txs : pc[t] = "fetch" => \A r \in payment[t] : r.id \in DOMAIN sourceCoins
  /\ \A t \in Txs : pc[t] # "fetch" =>
       \A r \in payment[t] : /\ r.id \notin DOMAIN sourceCoins
                             /\ \A q \in Pooled : q.id # r.id
                             /\ \A u \in Holders : gasCoin[u].id # r.id
  /\ sourceIsNull => Pooled = {} /\ Holders = {} /\ DOMAIN sourceCoins = {}

IsCurrent(r) == r.id \in Coins /\ r.version # 0 /\ version[r.id] = r.version

\* Coins in the pool or in use are current,
UsedAreCurrent ==
  /\ \A r \in Pooled : IsCurrent(r)
  /\ \A t \in At(UsesCoin) : IsCurrent(gasCoin[t])

\* because no transaction on its way can touch them, but the one of the call
\* that uses the coin and still awaits the answer.
Untouched ==
  \A m \in inFlight : \A r \in m.gas :
    /\ \A q \in Pooled : q.id # r.id
    /\ \A t \in At(UsesCoin) : gasCoin[t].id = r.id => pc[t] = "sent" /\ m = CallMessage(t)

GasKept == Typed /\ Stages /\ KnownIds /\ PlacesApart /\ UsedAreCurrent /\ Untouched

-----------------------------------------------------------------------------
(* What a step does to the coins.                                           *)

\* Why a call ends up in the catch block, and what becomes of its message.
GivesUp(t) ==
  \/ /\ inFlight' = inFlight
     /\ \/ pc[t] \in DOMAIN BuildAwaits /\ May(BuildAwaits[pc[t]])
        \/ pc[t] = "split" /\ RefillGas(t) = {}
        \/ pc[t] \in {"gas", "splitWait"} /\ coinPool = <<>>
        \/ pc[t] = "sign" /\ May("sign")
        \/ pc[t] = "sent" /\ May("reply")
  \/ /\ pc[t] = "splitSent" /\ ~Valid(payment[t])
     /\ inFlight' = inFlight \ {RefillMessage(t, payment[t])}

\* No coin changes hands; a refill may be given up.
Keeps(t) ==
  /\ UNCHANGED <<coinVars, version>>
  /\ IF pc'[t] = "caught" THEN GivesUp(t) ELSE inFlight' = inFlight
  /\ \/ EndRefill(t) /\ pc'[t] = "caught"
     \/ /\ UNCHANGED refillVars
        /\ \/ /\ pc[t] \notin Refilling \union UsesCoin \union {"caught"}
              /\ pc'[t] \notin Refilling \union UsesCoin
           \/ pc[t] = "flush" /\ pc'[t] = "split"
           \/ pc[t] = "resolve" /\ pc'[t] = "sign"
           \/ pc[t] \in {"sign", "sent"} /\ pc'[t] = "caught"

Sends(t) ==
  /\ pc[t] = "sign" /\ pc'[t] = "sent"
  /\ inFlight' = inFlight \union {CallMessage(t)}
  /\ UNCHANGED <<coinVars, refillVars, version>>

\* A pooled coin is taken.
Shifts(t) ==
  /\ pc[t] \in {"gas", "splitWait"} /\ pc'[t] = "resolve"
  /\ ShiftCoin(t)
  /\ UNCHANGED ledgerVars

\* The batch a refill is going to create: sized when the pool is found empty,
\* for a transaction that counts as pending by then.
Sized(t, size) ==
  \/ /\ pc[t] = "gas" /\ coinPool = <<>>
     /\ pendingTransactions + 1 <= MaxPoolSize
     /\ size = BatchSize(pendingTransactions + 1)
  \/ pc[t] = "fetch" /\ size = batch[t]

\* The references it collects: the source coins as they are, or as fetched.
Collected(t, refs) ==
  \/ pc[t] = "gas" /\ refs = SourceRefs /\ \A r \in refs : r.version # 0
  \/ /\ pc[t] = "fetch"
     /\ refs \in SUBSET UNION { Answers(r) : r \in payment[t] }
     /\ \A r \in payment[t] :
          Answers(r) # {} => Cardinality(refs \intersect Answers(r)) = 1

\* A refill reads the source coins and fetches their versions.
Reads(t) ==
  /\ pc[t] = "gas" /\ pc'[t] = "fetch"
  /\ \E size \in Nat : Sized(t, size) /\ batch' = [batch EXCEPT ![t] = size]
  /\ \E r \in SourceRefs : r.version = 0
  /\ payment' = [payment EXCEPT ![t] = SourceRefs]
  /\ UNCHANGED <<coinVars, chainVars>>

\* A refill takes the source coins.
Takes(t) ==
  /\ pc[t] \in {"gas", "fetch"} /\ pc'[t] \in {"flush", "split"}
  /\ \E size \in Nat : Sized(t, size) /\ batch' = [batch EXCEPT ![t] = size]
  /\ \E refs \in SUBSET Reference :
       /\ payment' = [payment EXCEPT ![t] = refs]
       /\ Collected(t, refs)
       /\ \A r \in refs : r.id \in DOMAIN sourceCoins
  /\ EmptySources
  /\ UNCHANGED <<coinPool, sourceIsNull, gasCoin, chainVars>>

Splits(t) ==
  /\ pc[t] = "split" /\ pc'[t] = "splitSent"
  /\ inFlight' = inFlight \union {RefillMessage(t, RefillGas(t))}
  /\ payment' = [payment EXCEPT ![t] = RefillGas(t)]
  /\ UNCHANGED <<coinVars, batch, version>>

Refills(t) ==
  /\ RefillAnswered(t)
  /\ pc'[t] = "splitWait"

Returns(t) ==
  /\ Answered(t)
  /\ pc'[t] = "freeing"

\* The catch block.
Gives(t) ==
  /\ pc[t] = "caught" /\ pc'[t] \in {"purge", "unwind"}
  /\ GiveBack(t)
  /\ gasCoin' = [gasCoin EXCEPT ![t] = NoCoin]
  /\ UNCHANGED ledgerVars

GasTurn(t) ==
  \/ Keeps(t) \/ Sends(t) \/ Shifts(t) \/ Reads(t) \/ Takes(t)
  \/ Splits(t) \/ Refills(t) \/ Returns(t) \/ Gives(t)

\* What the count of pending transactions does meanwhile.
PendingStages == (Building \ {"price", "lock", "gas"}) \union (AfterBuild \ {"freeing"})

Counts(t) ==
  \/ /\ pendingTransactions' = pendingTransactions + 1
     /\ pc[t] \notin PendingStages /\ pc'[t] \in PendingStages
  \/ /\ pendingTransactions' = pendingTransactions - 1
     /\ pc[t] \in PendingStages /\ pc'[t] \notin PendingStages
  \/ /\ pendingTransactions' = pendingTransactions
     /\ \/ pc[t] \in PendingStages <=> pc'[t] \in PendingStages
        \/ May("price")

\* One builder at a time, as the queue guarantees.
LEMMA OneBuilder ==
  ASSUME Scheduled, NEW t \in Txs, NEW u \in Txs, pc[t] \in Building, pc[u] \in Building
  PROVE  t = u
BY PartsSay DEF At

\* The references of the source coins.
LEMMA RefsOfSources ==
  ASSUME Typed, KnownIds
  PROVE  /\ SourceRefs \subseteq Reference
         /\ \A r \in SourceRefs : r.id \in DOMAIN sourceCoins
<1>1. \A c \in DOMAIN sourceCoins : c \in Nat /\ sourceCoins[c] \in Nat
  <2>1. Cardinality(Coins) \in Nat /\ Coins = 1..Cardinality(Coins)
    BY FS_CardinalityType DEF Typed
  <2> QED
    BY <2>1 DEF Typed, KnownIds
<1> QED
  BY <1>1 DEF SourceRefs, Ref, Reference

\* The sources as getObjects completes them.
LEMMA RefsFetched ==
  ASSUME Typed, NEW t \in Txs, NEW refs \in SUBSET UNION { Answers(r) : r \in payment[t] },
         \A r \in payment[t] : r.id \in Coins /\ r.id \in DOMAIN sourceCoins
  PROVE  /\ refs \subseteq Reference
         /\ \A r \in refs : r.id \in DOMAIN sourceCoins
<1> SUFFICES ASSUME NEW q \in refs PROVE q \in Reference /\ q.id \in DOMAIN sourceCoins
  OBVIOUS
<1>1. PICK r \in payment[t] : q \in Answers(r)
  OBVIOUS
<1>2. r \in Reference /\ version[r.id] \in Nat
  BY DEF Typed
<1>3. q = r \/ \E v \in Nat : q = Ref(r.id, v)
  BY <1>1, <1>2 DEF Answers
<1> QED
  BY <1>2, <1>3 DEF Reference, Ref

\* The batch of a refill that is allowed has a size.
LEMMA SizeOfBatch ==
  ASSUME Typed, pendingTransactions \in Int, coinPool = <<>>,
         pendingTransactions + 1 <= MaxPoolSize
  PROVE  BatchSize(pendingTransactions + 1) \in Nat
<1>1. Len(coinPool) = 0 /\ pendingTransactions \in Int
  BY DEF Typed
<1> QED
  BY <1>1, SizesAssumption DEF BatchSize

\* A turn that finishes the call is followed by nothing else of it.
LEMMA Finishing ==
  ASSUME Scheduled, NEW t \in Txs, pc[t] \in {"sent", "unwind"}, Finish(t)
  PROVE  pc'[t] = "freeing"
BY PassingOn DEF Finish, PassesOn

\* Each turn of a call is one of these moves of coins.
LEMMA TurnsOfCoins ==
  ASSUME Scheduled, Typed, KnownIds, PlacesApart, pendingTransactions \in Int,
         NEW t \in Txs, Acts(t)
  PROVE  GasTurn(t) /\ Counts(t)
<1> USE DEF Building, AfterBuild, UsesCoin, Refilling, PendingStages
<1>1. pc \in [Txs -> PCs] /\ payment \in [Txs -> SUBSET Reference] /\ batch \in [Txs -> Nat]
  BY DEF Scheduled, Typed
<1>2. CASE Refuse(t)
  <2>1. pc[t] = "new" /\ pc'[t] = "refused"
    BY <1>1, <1>2 DEF Refuse, Move
  <2> QED
    BY <1>2, <2>1 DEF Refuse, Keeps, ledgerVars, chainVars, GasTurn, Counts
<1>3. CASE \E used \in Footprints : Arrive(t, used)
  <2>1. pc[t] = "new" /\ pc'[t] \in {"queued", "waiting", "inLine", "price"}
    BY <1>1, <1>3 DEF Arrive, MoveAndPlace, Place, Move
  <2> QED
    BY <1>3, <2>1 DEF Arrive, Keeps, ledgerVars, chainVars, GasTurn, Counts
<1>4. CASE Price(t)
  <2>1. pc[t] = "price" /\ pc'[t] \in {"lock", "gas"}
    BY <1>1, <1>4, Sites DEF Price, CallUpdate, Move
  <2> QED
    BY <1>4, <2>1 DEF Price, Keeps, ledgerVars, chainVars, GasTurn, Counts
<1>5. CASE ResumeUpdate(t)
  <2>1. \/ pc[t] = "lock" /\ pc'[t] = "gas"
        \/ pc[t] = "flush" /\ pc'[t] = "split"
        \/ pc[t] = "purge" /\ pc'[t] = "unwind"
    BY <1>1, <1>5, Sites DEF ResumeUpdate, Move
  <2> QED
    BY <1>5, <2>1 DEF ResumeUpdate, Keeps, ledgerVars, chainVars, GasTurn, Counts
<1>6. CASE TakePooledCoin(t)
  <2>1. pc[t] = "gas" /\ pc'[t] = "resolve"
    BY <1>1, <1>6 DEF TakePooledCoin, CountPending, Move
  <2> QED
    BY <1>6, <2>1 DEF TakePooledCoin, CountPending, Shifts, GasTurn, Counts
<1>7. CASE FindPoolEmpty(t)
  <2> DEFINE size == BatchSize(pendingTransactions + 1)
  <2>1. /\ pc[t] = "gas" /\ pendingTransactions' = pendingTransactions + 1
        /\ coinPool = <<>> /\ UNCHANGED <<gasCoin, chainVars>>
    BY <1>7 DEF FindPoolEmpty, CountPending
  <2>2. CASE pendingTransactions + 1 <= MaxPoolSize /\ size # 0
    <3>1. StartRefill(t, size)
      BY <1>7, <2>2 DEF FindPoolEmpty
    <3>2. size \in Nat
      BY <2>1, <2>2, SizeOfBatch
    <3> HIDE DEF size
    <3>3. /\ Sized(t, size) /\ batch' = [batch EXCEPT ![t] = size]
          /\ payment' = [payment EXCEPT ![t] = SourceRefs]
      BY <2>1, <2>2, <3>1 DEF StartRefill, Sized, size
    <3>4. CASE /\ \E r \in SourceRefs : r.version = 0
               /\ Move(t, "fetch") /\ UNCHANGED <<poolVars, cacheVars>>
      <4>1. pc'[t] = "fetch"
        BY <1>1, <3>4 DEF Move
      <4> QED
        BY <2>1, <3>2, <3>3, <3>4, <4>1 DEF Reads, coinVars, GasTurn, Counts
    <3>5. CASE /\ \A r \in SourceRefs : r.version # 0
               /\ EmptySources /\ CallUpdate(t, "flush") /\ UNCHANGED <<coinPool, sourceIsNull>>
      <4>1. pc'[t] \in {"flush", "split"}
        BY <1>1, <3>5, Sites DEF CallUpdate, Move
      <4>2. Collected(t, SourceRefs)
        BY <2>1, <3>5 DEF Collected
      <4> QED
        BY <2>1, <3>2, <3>3, <3>5, <4>1, <4>2, RefsOfSources DEF Takes, GasTurn, Counts
    <3> QED
      BY <3>1, <3>4, <3>5 DEF StartRefill
  <2>3. CASE ~(pendingTransactions + 1 <= MaxPoolSize /\ size # 0)
    <3>1. BuildFails(t) /\ UNCHANGED <<poolVars, cacheVars, refillVars>>
      BY <1>7, <2>3 DEF FindPoolEmpty
    <3>2. pc'[t] = "caught" /\ GivesUp(t)
      BY <1>1, <2>1, <3>1 DEF BuildFails, LeaveBuild, GivesUp, chainVars
    <3> QED
      BY <2>1, <3>1, <3>2 DEF Keeps, coinVars, chainVars, GasTurn, Counts
  <2> QED
    BY <2>2, <2>3
<1>8. CASE FetchSources(t)
  <2>1. pc[t] = "fetch" /\ pc'[t] \in {"flush", "split"}
    BY <1>1, <1>8, Sites DEF FetchSources, CallUpdate, Move
  <2>2. PICK refs \in SUBSET UNION { Answers(r) : r \in payment[t] } :
          /\ payment' = [payment EXCEPT ![t] = refs]
          /\ \A r \in payment[t] :
               Answers(r) # {} => Cardinality(refs \intersect Answers(r)) = 1
    BY <1>8 DEF FetchSources
  <2>3. \A r \in payment[t] : r.id \in Coins /\ r.id \in DOMAIN sourceCoins
    BY <2>1 DEF KnownIds, PlacesApart
  <2>4. refs \subseteq Reference /\ \A r \in refs : r.id \in DOMAIN sourceCoins
    BY <2>3, RefsFetched
  <2>5. /\ batch' = [batch EXCEPT ![t] = batch[t]] /\ batch[t] \in Nat
        /\ Sized(t, batch[t]) /\ Collected(t, refs)
    BY <1>1, <1>8, <2>1, <2>2 DEF FetchSources, Sized, Collected
  <2> QED
    BY <1>8, <2>1, <2>2, <2>4, <2>5 DEF FetchSources, Takes, GasTurn, Counts
<1>9. CASE SendRefill(t)
  <2>1. pc[t] = "split" /\ pc'[t] = "splitSent"
    BY <1>1, <1>9 DEF SendRefill, Move
  <2> QED
    BY <1>9, <2>1 DEF SendRefill, Splits, GasTurn, Counts
<1>10. CASE RefillAnswered(t)
  <2>1. pc[t] = "splitSent" /\ pc'[t] = "splitWait"
    BY <1>1, <1>10 DEF RefillAnswered, Move
  <2> QED
    BY <1>10, <2>1 DEF RefillAnswered, Refills, GasTurn, Counts
<1>11. CASE RefillRefused(t)
  <2>1. pc[t] = "splitSent" /\ pc'[t] = "caught" /\ GivesUp(t)
    BY <1>1, <1>11 DEF RefillRefused, BuildFails, LeaveBuild, GivesUp
  <2> QED
    BY <1>11, <2>1 DEF RefillRefused, Keeps, GasTurn, Counts
<1>12. CASE RefillConfirmed(t)
  <2>1. CASE ShiftCoin(t) /\ Move(t, "resolve")
    <3>1. pc[t] = "splitWait" /\ pc'[t] = "resolve"
      BY <1>1, <1>12, <2>1 DEF RefillConfirmed, Move
    <3> QED
      BY <1>12, <2>1, <3>1 DEF RefillConfirmed, Shifts, GasTurn, Counts
  <2>2. CASE coinPool = <<>> /\ BuildFails(t) /\ UNCHANGED coinVars
    <3>1. pc[t] = "splitWait" /\ pc'[t] = "caught" /\ GivesUp(t)
      BY <1>1, <1>12, <2>2
         DEF RefillConfirmed, BuildFails, LeaveBuild, GivesUp, ledgerVars, chainVars
    <3> QED
      BY <1>12, <2>2, <3>1
         DEF RefillConfirmed, Keeps, ledgerVars, chainVars, GasTurn, Counts
  <2> QED
    BY <1>12, <2>1, <2>2 DEF RefillConfirmed
<1>13. CASE Resolve(t)
  <2>1. pc[t] = "resolve" /\ pc'[t] = "sign"
    BY <1>1, <1>13 DEF Resolve, LeaveBuild
  <2> QED
    BY <1>13, <2>1 DEF Resolve, Keeps, ledgerVars, chainVars, GasTurn, Counts
<1>14. CASE BuildRejects(t)
  <2>1. /\ pc[t] \in {"price", "fetch", "split", "splitSent", "splitWait", "resolve"}
        /\ pc[t] = "price" => May("price")
        /\ pc'[t] = "caught" /\ GivesUp(t)
    <3>1. /\ pc[t] \in {"price", "fetch", "split", "splitSent", "splitWait", "resolve"}
          /\ pc[t] = "price" => May("price")
      BY <1>14 DEF BuildRejects, BuildAwaits
    <3>2. pc'[t] = "caught"
      BY <1>1, <1>14 DEF BuildRejects, BuildFails, LeaveBuild
    <3>3. GivesUp(t)
      BY <1>14 DEF BuildRejects, GivesUp, chainVars
    <3> QED
      BY <3>1, <3>2, <3>3
  <2> QED
    BY <1>14, <2>1 DEF BuildRejects, Keeps, chainVars, GasTurn, Counts
<1>15. CASE Send(t)
  <2>1. pc[t] = "sign" /\ pc'[t] = "sent"
    BY <1>1, <1>15 DEF Send, Move
  <2> QED
    BY <1>15, <2>1 DEF Send, Sends, GasTurn, Counts
<1>16. CASE Answered(t)
  <2>1. pc[t] = "sent" /\ pc'[t] = "freeing"
    BY <1>16, Finishing DEF Answered
  <2> QED
    BY <1>16, <2>1 DEF Answered, Finish, Uncount, Returns, GasTurn, Counts
<1>17. CASE SendRejects(t)
  <2>1. pc[t] \in {"sign", "sent"} /\ pc'[t] = "caught" /\ GivesUp(t)
    BY <1>1, <1>17 DEF SendRejects, Move, GivesUp, ledgerVars, chainVars
  <2> QED
    BY <1>17, <2>1 DEF SendRejects, Keeps, ledgerVars, chainVars, GasTurn, Counts
<1>18. CASE Catch(t)
  <2>1. pc[t] = "caught" /\ pc'[t] \in {"purge", "unwind"}
    BY <1>1, <1>18, Sites DEF Catch, CallUpdate, Move
  <2> QED
    BY <1>18, <2>1 DEF Catch, Gives, GasTurn, Counts
<1>19. CASE Unwind(t)
  <2>1. pc[t] = "unwind" /\ pc'[t] = "freeing"
    BY <1>19, Finishing DEF Unwind
  <2> QED
    BY <1>19, <2>1
       DEF Unwind, Finish, Uncount, Keeps, ledgerVars, chainVars, GasTurn, Counts
<1>20. CASE FreePlace(t)
  <2>1. pc[t] = "freeing" /\ pc'[t] = "done"
    BY <1>1, <1>20 DEF FreePlace
  <2> QED
    BY <1>20, <2>1 DEF FreePlace, Keeps, ledgerVars, chainVars, GasTurn, Counts
<1> QED
  BY <1>2, <1>3, <1>4, <1>5, <1>6, <1>7, <1>8, <1>9, <1>10, <1>11, <1>12, <1>13, <1>14, <1>15,
     <1>16, <1>17, <1>18, <1>19, <1>20 DEF CallStep, Acts

-----------------------------------------------------------------------------
(* The pool as a sequence of references.                                    *)

\* #coinPool.shift() takes one reference out of the pool.
LEMMA PoolShifted ==
  ASSUME NEW s \in Seq(Reference), Apart(s), s # <<>>
  PROVE  /\ Head(s) \in ToSet(s)
         /\ Tail(s) \in Seq(Reference)
         /\ Apart(Tail(s))
         /\ ToSet(Tail(s)) = ToSet(s) \ {Head(s)}
         /\ \A r \in ToSet(Tail(s)) : r.id # Head(s).id
BY ServeHead DEF Apart

\* Pushing the created coins adds them to the pool.
LEMMA PoolJoined ==
  ASSUME NEW s \in Seq(Reference), Apart(s), NEW z \in Seq(Reference), Apart(z),
         \A q \in ToSet(s), r \in ToSet(z) : q.id # r.id
  PROVE  /\ s \o z \in Seq(Reference)
         /\ Apart(s \o z)
         /\ ToSet(s \o z) = ToSet(s) \union ToSet(z)
<1>1. IsInjective(s) /\ IsInjective(z) /\ ToSet(s) \intersect ToSet(z) = {}
  BY DEF Apart
<1>2. /\ s \o z \in Seq(Reference)
      /\ IsInjective(s \o z)
      /\ ToSet(s \o z) = ToSet(s) \union ToSet(z)
      /\ Len(s \o z) = Len(s) + Len(z)
  BY <1>1, JoinQueues
<1> QED
  BY <1>2 DEF Apart

\* Pushing the coin that came back adds it to the pool.
LEMMA PoolAppended ==
  ASSUME NEW s \in Seq(Reference), Apart(s), NEW e \in Reference,
         \A q \in ToSet(s) : q.id # e.id
  PROVE  /\ Append(s, e) \in Seq(Reference)
         /\ Apart(Append(s, e))
         /\ ToSet(Append(s, e)) = ToSet(s) \union {e}
<1>1. IsInjective(s) /\ e \notin ToSet(s)
  BY DEF Apart
<1>2. /\ Append(s, e) \in Seq(Reference)
      /\ IsInjective(Append(s, e))
      /\ ToSet(Append(s, e)) = ToSet(s) \union {e}
  BY <1>1, JoinOne
<1> QED
  BY <1>2 DEF Apart

\* The references of coins just created.
LEMMA PoolCreated ==
  ASSUME Typed, NEW n \in Nat
  PROVE  /\ NewRefs(n) \in Seq(Reference)
         /\ Len(NewRefs(n)) = n
         /\ Apart(NewRefs(n))
         /\ \A r \in ToSet(NewRefs(n)) :
              /\ r \in Reference /\ r.version = 1
              /\ r.id \in 1..(Cardinality(Coins) + n) /\ r.id \notin Coins
<1> DEFINE k == Cardinality(Coins)
           z == NewRefs(n)
<1>1. k \in Nat /\ Coins = 1..k
  BY FS_CardinalityType DEF Typed
<1>2. \A i \in 1..n : Ref(k + i, 1) \in Reference
  BY <1>1 DEF Ref, Reference
<1>3. z = [i \in 1..n |-> Ref(k + i, 1)]
  BY DEF NewRefs
<1> HIDE DEF k, z
<1>4. z \in Seq(Reference) /\ Len(z) = n /\ DOMAIN z = 1..n
  BY <1>2, <1>3, SeqDef, LenProperties
<1>5. ToSet(z) = { z[i] : i \in 1..n }
  BY <1>4 DEF ToSet
<1>6. \A r \in ToSet(z) : \E i \in 1..n : r = Ref(k + i, 1)
  BY <1>3, <1>5
<1>7. IsInjective(z)
  BY <1>1, <1>3, <1>4 DEF IsInjective, Ref
<1>8. Apart(z)
  BY <1>1, <1>6, <1>7 DEF Apart, Ref
<1>9. \A r \in ToSet(z) : /\ r \in Reference /\ r.version = 1
                          /\ r.id \in 1..(k + n) /\ r.id \notin Coins
  <2> SUFFICES ASSUME NEW r \in ToSet(z)
               PROVE  /\ r \in Reference /\ r.version = 1
                      /\ r.id \in 1..(k + n) /\ r.id \notin Coins
    OBVIOUS
  <2>1. PICK i \in 1..n : r = Ref(k + i, 1)
    BY <1>6
  <2>2. r.id = k + i /\ r.version = 1 /\ r \in Reference
    BY <1>2, <2>1 DEF Ref
  <2> QED
    BY <1>1, <2>2
<1> QED
  BY <1>4, <1>8, <1>9 DEF k, z

-----------------------------------------------------------------------------
(* The moves keep the coins apart and current.                              *)

\* While one call builds, the others collect no coins.
LEMMA OthersPayNothing ==
  ASSUME Scheduled, Stages, NEW t \in Txs, pc[t] \in Building
  PROVE  \A u \in Txs \ {t} : payment[u] = {} /\ batch[u] = 0
BY OneBuilder DEF Stages, Refilling, Building

\* The other calls stay where they are, as far as coins go.
LEMMA OthersStay ==
  ASSUME NEW t \in Txs, OthersQueue(t)
  PROVE  \A u \in Txs \ {t} :
           /\ pc'[u] \in UsesCoin <=> pc[u] \in UsesCoin
           /\ pc'[u] \in Refilling <=> pc[u] \in Refilling
           /\ \A x \in {"caught", "fetch", "sent", "splitSent"} : pc'[u] = x <=> pc[u] = x
BY DEF OthersQueue, UsesCoin, Refilling

\* A call that goes on without its coins changing hands.
LEMMA KeepsGas ==
  ASSUME GasKept, pc \in [Txs -> PCs], NEW t \in Txs, OthersQueue(t), Keeps(t)
  PROVE  GasKept'
<1>1. /\ coinPool' = coinPool /\ gasCoin' = gasCoin /\ version' = version
      /\ sourceCoins' = sourceCoins /\ sourceIsNull' = sourceIsNull
      /\ inFlight' \subseteq inFlight
      /\ Pooled' = Pooled /\ Holders' = Holders /\ Coins' = Coins
  BY DEF Keeps, GivesUp, coinVars, poolVars, Pooled, Holders, Coins
<1>2. /\ Typed /\ Stages /\ KnownIds /\ PlacesApart /\ UsedAreCurrent /\ Untouched
      /\ payment \in [Txs -> SUBSET Reference] /\ batch \in [Txs -> Nat]
  BY DEF GasKept, Typed
<1>3. /\ payment' \in [Txs -> SUBSET Reference] /\ batch' \in [Txs -> Nat]
      /\ \A u \in Txs : /\ payment'[u] \subseteq payment[u]
                        /\ batch'[u] \in {0, batch[u]}
                        /\ u # t => payment'[u] = payment[u]
  BY <1>2 DEF Keeps, EndRefill, refillVars
<1>4. \/ payment'[t] = {} /\ batch'[t] = 0 /\ pc'[t] = "caught"
      \/ pc[t] \notin Refilling \union UsesCoin \union {"caught"}
         /\ pc'[t] \notin Refilling \union UsesCoin
      \/ pc[t] = "flush" /\ pc'[t] = "split"
      \/ pc[t] = "resolve" /\ pc'[t] = "sign"
      \/ pc[t] \in {"sign", "sent"} /\ pc'[t] = "caught"
  BY <1>2 DEF Keeps, EndRefill
<1>5. Typed'
  BY <1>1, <1>2, <1>3 DEF Typed
<1>6. Stages'
  BY <1>1, <1>2, <1>3, <1>4, OthersStay DEF Stages, UsesCoin, Refilling
<1>7. KnownIds'
  BY <1>1, <1>2, <1>3 DEF KnownIds
<1>8. PlacesApart'
  <2>1. \A u \in Txs : payment'[u] # {} => (pc'[u] = "fetch" <=> pc[u] = "fetch")
    BY <1>2, <1>3, <1>4, OthersStay DEF Stages, Refilling
  <2> QED
    BY <1>1, <1>2, <1>3, <2>1, SMTT(30) DEF PlacesApart
<1>9. UsedAreCurrent'
  BY <1>1, <1>2, <1>4, OthersStay DEF UsedAreCurrent, IsCurrent, At, UsesCoin
<1>10. Untouched'
  BY <1>1, <1>2, <1>4, OthersStay DEF Untouched, At, UsesCoin, CallMessage
<1> QED
  BY <1>5, <1>6, <1>7, <1>8, <1>9, <1>10 DEF GasKept

\* The transaction is sent: its message names the coin of the call only.
LEMMA SendsGas ==
  ASSUME GasKept, NEW t \in Txs, OthersQueue(t), Sends(t)
  PROVE  GasKept'
<1>1. /\ coinPool' = coinPool /\ gasCoin' = gasCoin /\ version' = version
      /\ sourceCoins' = sourceCoins /\ sourceIsNull' = sourceIsNull
      /\ payment' = payment /\ batch' = batch
      /\ inFlight' = inFlight \union {CallMessage(t)}
      /\ pc[t] = "sign" /\ pc'[t] = "sent"
      /\ Pooled' = Pooled /\ Holders' = Holders /\ Coins' = Coins
  BY DEF Sends, coinVars, poolVars, refillVars, Pooled, Holders, Coins
<1>2. Typed /\ Stages /\ KnownIds /\ PlacesApart /\ UsedAreCurrent /\ Untouched
  BY DEF GasKept
<1>3. gasCoin[t] \in Reference /\ t \in Holders /\ gasCoin[t].id \in Coins
  BY <1>1, <1>2 DEF Typed, Stages, KnownIds, Holders, UsesCoin
<1>4. Typed'
  BY <1>1, <1>2, <1>3 DEF Typed, CallMessage
<1>5. Stages'
  BY <1>1, <1>2, OthersStay DEF Stages, UsesCoin, Refilling
<1>6. KnownIds'
  BY <1>1, <1>2, <1>3 DEF KnownIds, CallMessage
<1>7. PlacesApart'
  BY <1>1, <1>2, OthersStay DEF PlacesApart
<1>8. UsedAreCurrent'
  BY <1>1, <1>2, OthersStay DEF UsedAreCurrent, IsCurrent, At, UsesCoin
<1>9. Untouched'
  <2>1. /\ At(UsesCoin)' = At(UsesCoin)
        /\ \A u \in At(UsesCoin) : u \in Holders
        /\ \A u \in Txs : pc[u] = "sent" => pc'[u] = "sent"
        /\ \A u \in Txs : CallMessage(u)' = CallMessage(u)
    BY <1>1, <1>2, OthersStay DEF At, UsesCoin, Stages, Holders, CallMessage
  <2>2. \A q \in Pooled : q.id # gasCoin[t].id
    BY <1>2, <1>3 DEF PlacesApart
  <2>3. \A u \in At(UsesCoin) : gasCoin[u].id = gasCoin[t].id => u = t
    BY <1>2, <1>3, <2>1 DEF PlacesApart
  <2>4. CallMessage(t).gas = {gasCoin[t]}
    BY DEF CallMessage
  <2>5. \A m \in inFlight : \A r \in m.gas :
          /\ \A q \in Pooled : q.id # r.id
          /\ \A u \in At(UsesCoin) : gasCoin[u].id = r.id =>
                                      pc[u] = "sent" /\ m = CallMessage(u)
    BY <1>2 DEF Untouched
  <2>6. \A m \in inFlight' : m \in inFlight \/ m = CallMessage(t)
    BY <1>1
  <2>7. \A u \in At(UsesCoin) : u \in Txs
    BY DEF At
  <2> SUFFICES ASSUME NEW m \in inFlight', NEW r \in m.gas
               PROVE  /\ \A q \in Pooled : q.id # r.id
                      /\ \A u \in At(UsesCoin) : gasCoin[u].id = r.id =>
                                                  pc'[u] = "sent" /\ m = CallMessage(u)
    BY <1>1, <2>1, <2>7 DEF Untouched
  <2>8. CASE m \in inFlight
    BY <2>1, <2>5, <2>7, <2>8
  <2>9. CASE m = CallMessage(t)
    BY <1>1, <2>2, <2>3, <2>4, <2>9
  <2> QED
    BY <2>6, <2>8, <2>9
<1> QED
  BY <1>4, <1>5, <1>6, <1>7, <1>8, <1>9 DEF GasKept

\* The head of the pool becomes the coin of t.
LEMMA ShiftsGas ==
  ASSUME GasKept, pc \in [Txs -> PCs], NEW t \in Txs, OthersQueue(t), Shifts(t)
  PROVE  GasKept'
<1>1. /\ Typed /\ Stages /\ KnownIds /\ PlacesApart /\ UsedAreCurrent /\ Untouched
      /\ coinPool \in Seq(Reference) /\ gasCoin \in [Txs -> Reference]
      /\ Apart(coinPool) /\ coinPool # <<>>
  BY DEF GasKept, Typed, PlacesApart, Shifts, ShiftCoin
<1>2. PICK r \in Pooled :
        /\ r \in Reference /\ gasCoin' = [gasCoin EXCEPT ![t] = r]
        /\ coinPool' \in Seq(Reference) /\ Apart(coinPool)'
        /\ Pooled' = Pooled \ {r}
        /\ \A q \in Pooled' : q.id # r.id
  <2>1. /\ Head(coinPool) \in ToSet(coinPool)
        /\ Tail(coinPool) \in Seq(Reference)
        /\ Apart(Tail(coinPool))
        /\ ToSet(Tail(coinPool)) = ToSet(coinPool) \ {Head(coinPool)}
        /\ \A r \in ToSet(Tail(coinPool)) : r.id # Head(coinPool).id
    BY <1>1, PoolShifted
  <2>2. Head(coinPool) \in Reference
    BY <1>1, HeadTailProperties
  <2> QED
    BY <2>1, <2>2 DEF Shifts, ShiftCoin, Pooled
<1>3. /\ version' = version /\ sourceCoins' = sourceCoins /\ sourceIsNull' = sourceIsNull
      /\ payment' = payment /\ batch' = batch /\ inFlight' = inFlight
      /\ Coins' = Coins
      /\ pc[t] \in {"gas", "splitWait"} /\ pc'[t] = "resolve"
  BY DEF Shifts, ShiftCoin, ledgerVars, refillVars, chainVars, Coins
<1>4. /\ r.id \in Coins /\ IsCurrent(r) /\ r # NoCoin
      /\ gasCoin[t] = NoCoin /\ payment[t] = {}
      /\ gasCoin'[t] = r /\ \A u \in Txs \ {t} : gasCoin'[u] = gasCoin[u]
      /\ Holders' = Holders \union {t} /\ t \notin Holders
      /\ At(UsesCoin)' = At(UsesCoin) \union {t} /\ At(UsesCoin) \subseteq Holders
  <2>1. r.id \in Coins /\ IsCurrent(r)
    BY <1>1, <1>2 DEF KnownIds, UsedAreCurrent
  <2>2. r # NoCoin
    BY <2>1 DEF NoCoin, Ref, IsCurrent
  <2>3. gasCoin[t] = NoCoin /\ payment[t] = {}
    BY <1>1, <1>3 DEF Stages, UsesCoin, Refilling
  <2>4. gasCoin'[t] = r /\ \A u \in Txs \ {t} : gasCoin'[u] = gasCoin[u]
    BY <1>1, <1>2
  <2>5. Holders' = Holders \union {t} /\ t \notin Holders
    BY <2>2, <2>3, <2>4 DEF Holders
  <2>6. At(UsesCoin)' = At(UsesCoin) \union {t} /\ At(UsesCoin) \subseteq Holders
    BY <1>1, <1>3, OthersStay DEF At, UsesCoin, Stages, Holders
  <2> QED
    BY <2>1, <2>2, <2>3, <2>4, <2>5, <2>6
<1>5. Typed'
  BY <1>1, <1>2, <1>3 DEF Typed
<1>6. Stages'
  BY <1>1, <1>3, <1>4, OthersStay DEF Stages, UsesCoin, Refilling
<1>7. KnownIds'
  BY <1>1, <1>2, <1>3, <1>4 DEF KnownIds
<1>8. PlacesApart'
  BY <1>1, <1>2, <1>3, <1>4, OthersStay DEF PlacesApart
<1>9. UsedAreCurrent'
  BY <1>1, <1>2, <1>3, <1>4 DEF UsedAreCurrent, IsCurrent
<1>10. Untouched'
  <2>1. \A u \in Txs \ {t} : /\ pc[u] = "sent" => pc'[u] = "sent"
                             /\ CallMessage(u)' = CallMessage(u)
    BY <1>4, OthersStay DEF CallMessage
  <2> QED
    BY <1>1, <1>2, <1>3, <1>4, <2>1 DEF Untouched, At
<1> QED
  BY <1>5, <1>6, <1>7, <1>8, <1>9, <1>10 DEF GasKept

\* The source coins are read, or taken.
LEMMA ReadsGas ==
  ASSUME GasKept, Scheduled, NEW t \in Txs, OthersQueue(t), Reads(t)
  PROVE  GasKept'
<1>1. /\ coinPool' = coinPool /\ gasCoin' = gasCoin /\ version' = version
      /\ sourceCoins' = sourceCoins /\ sourceIsNull' = sourceIsNull /\ inFlight' = inFlight
      /\ pc[t] = "gas" /\ pc'[t] = "fetch"
      /\ Pooled' = Pooled /\ Holders' = Holders /\ Coins' = Coins
  BY DEF Reads, coinVars, poolVars, chainVars, Pooled, Holders, Coins
<1>2. /\ Typed /\ Stages /\ KnownIds /\ PlacesApart /\ UsedAreCurrent /\ Untouched
      /\ payment \in [Txs -> SUBSET Reference] /\ batch \in [Txs -> Nat]
  BY DEF GasKept, Typed
<1>3. /\ payment' \in [Txs -> SUBSET Reference] /\ batch' \in [Txs -> Nat]
      /\ \A r \in payment'[t] : r.id \in DOMAIN sourceCoins
      /\ \A u \in Txs \ {t} : payment'[u] = payment[u] /\ batch'[u] = batch[u]
  BY <1>2, RefsOfSources DEF Reads
<1>4. Typed'
  BY <1>1, <1>2, <1>3 DEF Typed
<1>5. Stages'
  BY <1>1, <1>2, <1>3, OthersStay DEF Stages, UsesCoin, Refilling
<1>6. KnownIds'
  BY <1>1, <1>2, <1>3 DEF KnownIds
<1>7. PlacesApart'
  <2>1. \A u \in Txs \ {t} : pc'[u] = "fetch" <=> pc[u] = "fetch"
    BY OthersStay
  <2> QED
    BY <1>1, <1>2, <1>3, <2>1 DEF PlacesApart
<1>8. UsedAreCurrent'
  BY <1>1, <1>2, OthersStay DEF UsedAreCurrent, IsCurrent, At, UsesCoin
<1>9. Untouched'
  BY <1>1, <1>2, OthersStay DEF Untouched, At, UsesCoin, CallMessage
<1> QED
  BY <1>4, <1>5, <1>6, <1>7, <1>8, <1>9 DEF GasKept

\* The source coins become the payment of the refill.
LEMMA TakesGas ==
  ASSUME GasKept, Scheduled, NEW t \in Txs, OthersQueue(t), Takes(t)
  PROVE  GasKept'
<1>1. /\ coinPool' = coinPool /\ gasCoin' = gasCoin /\ version' = version
      /\ sourceCoins' = NoSources /\ sourceIsNull' = sourceIsNull /\ inFlight' = inFlight
      /\ pc[t] \in {"gas", "fetch"} /\ pc'[t] \in {"flush", "split"}
      /\ Pooled' = Pooled /\ Holders' = Holders /\ Coins' = Coins
  BY DEF Takes, EmptySources, chainVars, Pooled, Holders, Coins
<1>2. /\ Typed /\ Stages /\ KnownIds /\ PlacesApart /\ UsedAreCurrent /\ Untouched
      /\ payment \in [Txs -> SUBSET Reference] /\ batch \in [Txs -> Nat]
  BY DEF GasKept, Typed
<1>3. /\ payment' \in [Txs -> SUBSET Reference] /\ batch' \in [Txs -> Nat]
      /\ \A r \in payment'[t] : r.id \in DOMAIN sourceCoins
      /\ \A u \in Txs \ {t} : payment'[u] = {} /\ batch'[u] = 0
  <2>1. \A u \in Txs \ {t} : payment[u] = {} /\ batch[u] = 0
    BY <1>1, <1>2, OthersPayNothing DEF Building
  <2> QED
    BY <1>2, <2>1 DEF Takes
<1>4. DOMAIN sourceCoins' = {} /\ sourceCoins' \in [DOMAIN sourceCoins' -> Nat]
  BY <1>1 DEF NoSources
<1>5. Typed'
  BY <1>1, <1>2, <1>3, <1>4 DEF Typed
<1>6. Stages'
  BY <1>1, <1>2, <1>3, OthersStay DEF Stages, UsesCoin, Refilling
<1>7. KnownIds'
  BY <1>1, <1>2, <1>3, <1>4 DEF KnownIds
<1>8. PlacesApart'
  <2>1. /\ Apart(coinPool)'
        /\ \A u, v \in Holders' : gasCoin'[u].id = gasCoin'[v].id => u = v
        /\ \A r \in Pooled' : \A u \in Holders' : r.id # gasCoin'[u].id
    BY <1>1, <1>2 DEF PlacesApart, Apart
  <2>2. \A r \in payment'[t] : /\ r.id \notin DOMAIN sourceCoins'
                               /\ \A q \in Pooled' : q.id # r.id
                               /\ \A u \in Holders' : gasCoin'[u].id # r.id
    BY <1>1, <1>2, <1>3, <1>4 DEF PlacesApart
  <2>3. sourceIsNull' => Pooled' = {} /\ Holders' = {}
    BY <1>1, <1>2 DEF PlacesApart
  <2> QED
    BY <1>1, <1>3, <1>4, <2>1, <2>2, <2>3 DEF PlacesApart
<1>9. UsedAreCurrent'
  BY <1>1, <1>2, OthersStay DEF UsedAreCurrent, IsCurrent, At, UsesCoin
<1>10. Untouched'
  BY <1>1, <1>2, OthersStay DEF Untouched, At, UsesCoin, CallMessage
<1> QED
  BY <1>5, <1>6, <1>7, <1>8, <1>9, <1>10 DEF GasKept

\* The refill is sent with what it collected, or with every coin there is while
\* none is anywhere else.
LEMMA SplitsGas ==
  ASSUME GasKept, Scheduled, NEW t \in Txs, OthersQueue(t), Splits(t)
  PROVE  GasKept'
<1>1. /\ coinPool' = coinPool /\ gasCoin' = gasCoin /\ version' = version /\ batch' = batch
      /\ sourceCoins' = sourceCoins /\ sourceIsNull' = sourceIsNull
      /\ inFlight' = inFlight \union {RefillMessage(t, RefillGas(t))}
      /\ pc[t] = "split" /\ pc'[t] = "splitSent"
      /\ Pooled' = Pooled /\ Holders' = Holders /\ Coins' = Coins
  BY DEF Splits, coinVars, poolVars, Pooled, Holders, Coins
<1>2. /\ Typed /\ Stages /\ KnownIds /\ PlacesApart /\ UsedAreCurrent /\ Untouched
      /\ payment \in [Txs -> SUBSET Reference] /\ batch \in [Txs -> Nat]
  BY DEF GasKept, Typed
<1>3. PICK refs \in SUBSET Reference :
        /\ refs = RefillGas(t)
        /\ payment' = [payment EXCEPT ![t] = refs]
        /\ \A r \in refs : /\ r.id \in Coins
                           /\ r.id \notin DOMAIN sourceCoins
                           /\ \A q \in Pooled : q.id # r.id
                           /\ \A u \in Holders : gasCoin[u].id # r.id
  <2>1. CASE sourceIsNull
    <3>1. Current \subseteq Reference /\ \A r \in Current : r.id \in Coins
      <4>1. \A c \in Coins : c \in Nat /\ version[c] \in Nat
        BY <1>2, FS_CardinalityType DEF Typed
      <4> QED
        BY <4>1 DEF Current, Owned, Ref, Reference
    <3> QED
      BY <1>2, <2>1, <3>1 DEF Splits, RefillGas, PlacesApart
  <2>2. CASE ~sourceIsNull
    <3>1. RefillGas(t) = payment[t] /\ payment[t] \in SUBSET Reference /\ pc[t] # "fetch"
      BY <1>1, <1>2, <2>2 DEF RefillGas
    <3> QED
      BY <1>2, <3>1 DEF Splits, PlacesApart, KnownIds
  <2> QED
    BY <2>1, <2>2
<1>4. /\ payment' \in [Txs -> SUBSET Reference] /\ payment'[t] = refs
      /\ \A u \in Txs \ {t} : payment'[u] = payment[u]
      /\ RefillMessage(t, refs).gas = refs
      /\ RefillMessage(t, refs).by = t /\ RefillMessage(t, refs).creates = batch[t]
  BY <1>2, <1>3 DEF RefillMessage
<1>5. Typed'
  BY <1>1, <1>2, <1>3, <1>4 DEF Typed
<1>6. Stages'
  BY <1>1, <1>2, <1>4, OthersStay DEF Stages, UsesCoin, Refilling
<1>7. KnownIds'
  BY <1>1, <1>2, <1>3, <1>4 DEF KnownIds
<1>8. PlacesApart'
  <2>1. \A u \in Txs : pc'[u] = "fetch" <=> pc[u] = "fetch"
    BY <1>1, OthersStay
  <2> QED
    BY <1>1, <1>2, <1>3, <1>4, <2>1 DEF PlacesApart
<1>9. UsedAreCurrent'
  BY <1>1, <1>2, OthersStay DEF UsedAreCurrent, IsCurrent, At, UsesCoin
<1>10. Untouched'
  <2>1. /\ At(UsesCoin)' = At(UsesCoin)
        /\ \A u \in At(UsesCoin) : u \in Holders
        /\ \A u \in Txs : pc[u] = "sent" => pc'[u] = "sent"
        /\ \A u \in Txs : CallMessage(u)' = CallMessage(u)
    BY <1>1, <1>2, OthersStay DEF At, UsesCoin, Stages, Holders, CallMessage
  <2>2. \A m \in inFlight : \A r \in m.gas :
          /\ \A q \in Pooled : q.id # r.id
          /\ \A u \in At(UsesCoin) : gasCoin[u].id = r.id =>
                                      pc[u] = "sent" /\ m = CallMessage(u)
    BY <1>2 DEF Untouched
  <2>3. \A m \in inFlight' : m \in inFlight \/ m = RefillMessage(t, refs)
    BY <1>1, <1>3
  <2>4. \A u \in At(UsesCoin) : u \in Txs
    BY DEF At
  <2> SUFFICES ASSUME NEW m \in inFlight', NEW r \in m.gas
               PROVE  /\ \A q \in Pooled : q.id # r.id
                      /\ \A u \in At(UsesCoin) : gasCoin[u].id = r.id =>
                                                  pc'[u] = "sent" /\ m = CallMessage(u)
    BY <1>1, <2>1, <2>4 DEF Untouched
  <2>5. CASE m \in inFlight
    BY <2>1, <2>2, <2>4, <2>5
  <2>6. CASE m = RefillMessage(t, refs)
    BY <1>3, <1>4, <2>1, <2>6
  <2> QED
    BY <2>3, <2>5, <2>6
<1> QED
  BY <1>5, <1>6, <1>7, <1>8, <1>9, <1>10 DEF GasKept

\* What a refill does to the coins of the chain.
LEMMA Landed ==
  ASSUME Typed, NEW gas \in SUBSET Reference, NEW g, NEW n \in Nat,
         \E r \in gas : r.id = g, version' = AfterRefill(gas, g, n)
  PROVE  /\ version' \in [Coins' -> Nat]
         /\ IsFiniteSet(Coins') /\ Coins' = 1..Cardinality(Coins')
         /\ Coins' = 1..(Cardinality(Coins) + n) /\ Coins \subseteq Coins'
         /\ \A c \in Coins : (\A r \in gas : r.id # c) => version'[c] = version[c]
         /\ \A c \in Coins' \ Coins : version'[c] = 1
<1> DEFINE k == Cardinality(Coins)
<1>1. k \in Nat /\ Coins = 1..k /\ version \in [Coins -> Nat]
  BY FS_CardinalityType DEF Typed
<1>2. version' = [c \in 1..(k + n) |-> IF c \notin Coins THEN 1
                                       ELSE IF c = g THEN version[c] + 1
                                       ELSE IF \E r \in gas : r.id = c THEN 0
                                       ELSE version[c]]
  BY DEF AfterRefill
<1> HIDE DEF k
<1>3. Coins' = 1..(k + n)
  BY <1>2 DEF Coins
<1>4. IsFiniteSet(Coins') /\ Cardinality(Coins') = k + n
  <2>1. k + n \in Int /\ k + n \in Nat /\ 1 \in Int
    BY <1>1
  <2>2. IsFiniteSet(1..(k + n))
        /\ Cardinality(1..(k + n)) = IF 1 > k + n THEN 0 ELSE (k + n) - 1 + 1
    BY <2>1, FS_Interval
  <2>3. Cardinality(1..(k + n)) = k + n
    BY <2>1, <2>2
  <2> QED
    BY <1>3, <2>2, <2>3
<1>5. version' \in [Coins' -> Nat]
  BY <1>1, <1>2, <1>3
<1>6. Coins \subseteq Coins'
  BY <1>1, <1>3
<1>7. \A c \in Coins : (\A r \in gas : r.id # c) => version'[c] = version[c]
  BY <1>2, <1>3, <1>6
<1>8. \A c \in Coins' \ Coins : version'[c] = 1
  BY <1>2, <1>3
<1> QED
  BY <1>3, <1>4, <1>5, <1>6, <1>7, <1>8 DEF k

\* A transaction lands whose sender has given up: it touches no coin in use.
LEMMA LandsGas ==
  ASSUME GasKept, NEW m \in inFlight, LandLate(m)
  PROVE  GasKept'
<1>1. /\ pc' = pc /\ coinPool' = coinPool /\ gasCoin' = gasCoin
      /\ sourceCoins' = sourceCoins /\ sourceIsNull' = sourceIsNull
      /\ payment' = payment /\ batch' = batch
      /\ inFlight' = inFlight \ {m}
      /\ Pooled' = Pooled /\ Holders' = Holders
      /\ pc[m.by] # IF m.kind = "call" THEN "sent" ELSE "splitSent"
  BY DEF LandLate, coinVars, poolVars, refillVars, Pooled, Holders
<1>2. /\ Typed /\ Stages /\ KnownIds /\ PlacesApart /\ UsedAreCurrent /\ Untouched
      /\ m.gas \in SUBSET Reference /\ m.creates \in Nat
  BY DEF GasKept, Typed
<1>3. /\ version' \in [Coins' -> Nat]
      /\ IsFiniteSet(Coins') /\ Coins' = 1..Cardinality(Coins')
      /\ Coins \subseteq Coins'
      /\ \A c \in Coins : (\A r \in m.gas : r.id # c) => version'[c] = version[c]
  <2>1. CASE version' = version
    BY <1>2, <2>1 DEF Typed, Coins
  <2>2. CASE \E r \in m.gas, n \in {0, m.creates} : version' = AfterRefill(m.gas, r.id, n)
    <3>1. PICK r \in m.gas, n \in {0, m.creates} : version' = AfterRefill(m.gas, r.id, n)
      BY <2>2
    <3>2. n \in Nat /\ \E q \in m.gas : q.id = r.id
      BY <1>2, <3>1
    <3> QED
      BY <1>2, <3>1, <3>2, Landed
  <2> QED
    BY <2>1, <2>2 DEF LandLate
<1>4. /\ \A r \in m.gas : \A q \in Pooled : q.id # r.id
      /\ \A r \in m.gas : \A t \in At(UsesCoin) : gasCoin[t].id # r.id
  <2>1. \A t \in Txs : m = CallMessage(t) => pc[t] # "sent"
    BY <1>1 DEF CallMessage
  <2>2. \A t \in At(UsesCoin) : t \in Txs
    BY DEF At
  <2> QED
    BY <1>2, <2>1, <2>2 DEF Untouched
<1>5. /\ At(UsesCoin)' = At(UsesCoin) /\ At(UsesCoin) \subseteq Holders
      /\ \A t \in Txs : CallMessage(t)' = CallMessage(t)
  BY <1>1, <1>2 DEF At, Stages, Holders, CallMessage
<1>6. Typed'
  BY <1>1, <1>2, <1>3 DEF Typed
<1>7. Stages'
  BY <1>1, <1>2 DEF Stages
<1>8. KnownIds'
  BY <1>1, <1>2, <1>3 DEF KnownIds
<1>9. PlacesApart'
  BY <1>1, <1>2 DEF PlacesApart
<1>10. UsedAreCurrent'
  <2>1. \A r : IsCurrent(r) /\ (\A q \in m.gas : q.id # r.id) => IsCurrent(r)'
    BY <1>3 DEF IsCurrent
  <2>2. /\ \A r \in Pooled : IsCurrent(r)'
        /\ \A t \in At(UsesCoin) : IsCurrent(gasCoin[t])'
    BY <1>1, <1>2, <1>3, <1>4 DEF UsedAreCurrent, IsCurrent
  <2> QED
    BY <1>1, <1>5, <2>2 DEF UsedAreCurrent
<1>11. Untouched'
  <2>1. \A t \in At(UsesCoin) : t \in Txs
    BY DEF At
  <2> QED
    BY <1>1, <1>2, <1>5, <2>1 DEF Untouched
<1> QED
  BY <1>6, <1>7, <1>8, <1>9, <1>10, <1>11 DEF GasKept

\* #sourceCoins.set.
LEMMA SourcePut ==
  ASSUME Typed, NEW c \in Coins, NEW v \in Nat, PutSource(c, v)
  PROVE  /\ DOMAIN sourceCoins' = DOMAIN sourceCoins \union {c}
         /\ sourceCoins' \in [DOMAIN sourceCoins' -> Nat]
         /\ sourceIsNull' = FALSE
BY DEF Typed, PutSource, With

\* A call that fails hands its coin to the sources.
LEMMA GivesGas ==
  ASSUME GasKept, NEW t \in Txs, OthersQueue(t), Gives(t)
  PROVE  GasKept'
<1>1. /\ coinPool' = coinPool /\ version' = version
      /\ payment' = payment /\ batch' = batch /\ inFlight' = inFlight
      /\ pc[t] = "caught" /\ pc'[t] \in {"purge", "unwind"}
      /\ gasCoin' = [gasCoin EXCEPT ![t] = NoCoin]
      /\ Pooled' = Pooled /\ Coins' = Coins
  BY DEF Gives, GiveBack, poolVars, ledgerVars, refillVars, chainVars, Pooled, Coins
<1>2. /\ Typed /\ Stages /\ KnownIds /\ PlacesApart /\ UsedAreCurrent /\ Untouched
      /\ gasCoin \in [Txs -> Reference]
  BY DEF GasKept, Typed
<1>3. /\ sourceCoins' \in [DOMAIN sourceCoins' -> Nat] /\ sourceIsNull' \in BOOLEAN
      /\ DOMAIN sourceCoins \subseteq DOMAIN sourceCoins'
      /\ \A c \in DOMAIN sourceCoins' \ DOMAIN sourceCoins :
           t \in Holders /\ c = gasCoin[t].id /\ c \in Coins
      /\ sourceIsNull' => sourceIsNull /\ sourceCoins' = sourceCoins
  <2>1. CASE gasCoin[t] = NoCoin
    BY <1>2, <2>1 DEF Gives, GiveBack, poolVars, Typed
  <2>2. CASE gasCoin[t] # NoCoin
    <3>1. t \in Holders /\ gasCoin[t].id \in Coins
      BY <1>2, <2>2 DEF Holders, KnownIds
    <3>2. PutSource(gasCoin[t].id, 0)
      BY <2>2 DEF Gives, GiveBack
    <3> QED
      BY <1>2, <3>1, <3>2, SourcePut
  <2> QED
    BY <2>1, <2>2
<1>4. /\ gasCoin' \in [Txs -> Reference]
      /\ Holders' = Holders \ {t}
      /\ gasCoin'[t] = NoCoin
      /\ \A u \in Txs \ {t} : gasCoin'[u] = gasCoin[u]
  BY <1>1, <1>2 DEF Holders, NoCoin, Ref, Reference
<1>5. /\ At(UsesCoin)' = At(UsesCoin) /\ At(UsesCoin) \subseteq Holders \ {t}
      /\ \A u \in At(UsesCoin) : /\ u \in Txs /\ u # t
                                 /\ pc[u] = "sent" => pc'[u] = "sent"
                                 /\ CallMessage(u)' = CallMessage(u)
  BY <1>1, <1>2, <1>4, OthersStay DEF At, UsesCoin, Stages, Holders, CallMessage
<1>6. Typed'
  BY <1>1, <1>2, <1>3, <1>4 DEF Typed
<1>7. Stages'
  BY <1>1, <1>2, <1>4, OthersStay DEF Stages, UsesCoin, Refilling
<1>8. KnownIds'
  BY <1>1, <1>2, <1>3, <1>4 DEF KnownIds
<1>9. PlacesApart'
  <2>1. \A u \in Txs : pc'[u] = "fetch" <=> pc[u] = "fetch"
    BY <1>1, OthersStay
  <2>2. \A u \in Holders' : u \in Holders /\ u # t /\ gasCoin'[u] = gasCoin[u]
    BY <1>4 DEF Holders
  <2> QED
    BY <1>1, <1>2, <1>3, <1>4, <2>1, <2>2 DEF PlacesApart
<1>10. UsedAreCurrent'
  BY <1>1, <1>2, <1>4, <1>5 DEF UsedAreCurrent, IsCurrent
<1>11. Untouched'
  BY <1>1, <1>2, <1>4, <1>5 DEF Untouched
<1> QED
  BY <1>6, <1>7, <1>8, <1>9, <1>10, <1>11 DEF GasKept

\* The answer to the refill: new coins reach the pool, the one that paid is a
\* source coin again.
LEMMA RefillsGas ==
  ASSUME GasKept, Scheduled, NEW t \in Txs, OthersQueue(t), Refills(t)
  PROVE  GasKept'
<1>1. /\ Typed /\ Stages /\ KnownIds /\ PlacesApart /\ UsedAreCurrent /\ Untouched
      /\ payment \in [Txs -> SUBSET Reference] /\ batch \in [Txs -> Nat]
      /\ coinPool \in Seq(Reference) /\ Apart(coinPool)
  BY DEF GasKept, Typed, PlacesApart
<1>2. /\ gasCoin' = gasCoin /\ Holders' = Holders
      /\ inFlight' = inFlight \ {RefillMessage(t, payment[t])}
      /\ pc[t] = "splitSent" /\ pc'[t] = "splitWait"
      /\ EndRefill(t)
  BY DEF Refills, RefillAnswered, Holders
<1>3. PICK g \in payment[t], n \in {0, batch[t]} :
        /\ version' = AfterRefill(payment[t], g.id, n)
        /\ coinPool' = coinPool \o NewRefs(n)
        /\ PutSource(g.id, g.version + 1)
  BY DEF Refills, RefillAnswered, ReturnRefillGas
<1>4. /\ n \in Nat /\ g \in Reference /\ g.version + 1 \in Nat /\ g.id \in Coins
      /\ payment[t] \in SUBSET Reference
  BY <1>1 DEF KnownIds, Reference
<1>5. /\ version' \in [Coins' -> Nat]
      /\ IsFiniteSet(Coins') /\ Coins' = 1..Cardinality(Coins')
      /\ Coins' = 1..(Cardinality(Coins) + n) /\ Coins \subseteq Coins'
      /\ \A c \in Coins : (\A r \in payment[t] : r.id # c) => version'[c] = version[c]
      /\ \A c \in Coins' \ Coins : version'[c] = 1
  <2>1. \E r \in payment[t] : r.id = g.id
    OBVIOUS
  <2> QED
    BY <1>1, <1>3, <1>4, <2>1, Landed
<1>6. PICK new \in SUBSET Reference :
        /\ coinPool' \in Seq(Reference) /\ Apart(coinPool)'
        /\ Pooled' = Pooled \union new
        /\ \A r \in new : r.version = 1 /\ r.id \in Coins' /\ r.id \notin Coins
  <2>1. /\ NewRefs(n) \in Seq(Reference)
        /\ Len(NewRefs(n)) = n
        /\ Apart(NewRefs(n))
        /\ \A r \in ToSet(NewRefs(n)) :
             /\ r \in Reference /\ r.version = 1
             /\ r.id \in 1..(Cardinality(Coins) + n) /\ r.id \notin Coins
    BY <1>1, <1>4, PoolCreated
  <2>2. \A q \in ToSet(coinPool), r \in ToSet(NewRefs(n)) : q.id # r.id
    BY <1>1, <2>1 DEF KnownIds, Pooled
  <2>3. /\ coinPool \o NewRefs(n) \in Seq(Reference)
        /\ Apart(coinPool \o NewRefs(n))
        /\ ToSet(coinPool \o NewRefs(n)) = ToSet(coinPool) \union ToSet(NewRefs(n))
    BY <1>1, <2>1, <2>2, PoolJoined
  <2> QED
    BY <1>3, <1>5, <2>1, <2>3 DEF Pooled
<1>7. /\ DOMAIN sourceCoins' = DOMAIN sourceCoins \union {g.id}
      /\ sourceCoins' \in [DOMAIN sourceCoins' -> Nat]
      /\ sourceIsNull' = FALSE
  BY <1>1, <1>3, <1>4, SourcePut
<1>8. /\ payment' \in [Txs -> SUBSET Reference] /\ batch' \in [Txs -> Nat]
      /\ \A u \in Txs : payment'[u] = {} /\ batch'[u] = 0
  <2>1. \A u \in Txs \ {t} : payment[u] = {} /\ batch[u] = 0
    BY <1>1, <1>2, OthersPayNothing DEF Building
  <2> QED
    BY <1>1, <1>2, <2>1 DEF EndRefill
<1>9. /\ At(UsesCoin)' = At(UsesCoin) /\ At(UsesCoin) \subseteq Holders
      /\ \A u \in At(UsesCoin) : /\ u \in Txs
                                 /\ pc[u] = "sent" => pc'[u] = "sent"
                                 /\ CallMessage(u)' = CallMessage(u)
  BY <1>1, <1>2, OthersStay DEF At, UsesCoin, Stages, Holders, CallMessage
<1>10. \A r \in payment[t] : /\ r.id \notin DOMAIN sourceCoins
                             /\ \A q \in Pooled : q.id # r.id
                             /\ \A u \in Holders : gasCoin[u].id # r.id
  BY <1>1, <1>2 DEF PlacesApart
<1>11. Typed'
  BY <1>1, <1>2, <1>5, <1>6, <1>7, <1>8 DEF Typed
<1>12. Stages'
  BY <1>1, <1>2, <1>8, OthersStay DEF Stages, UsesCoin, Refilling
<1>13. KnownIds'
  BY <1>1, <1>2, <1>4, <1>5, <1>6, <1>7, <1>8 DEF KnownIds
<1>14. PlacesApart'
  <2>1. \A c : c \in DOMAIN sourceCoins' => c \in Coins /\ (c \in DOMAIN sourceCoins \/ c = g.id)
    BY <1>1, <1>4, <1>7 DEF KnownIds
  <2>2. \A r \in Pooled' : r \in Pooled \/ r.id \notin Coins
    BY <1>6
  <2>3. \A u \in Holders : gasCoin[u].id \in Coins
    BY <1>1 DEF KnownIds
  <2>4. /\ \A r \in Pooled' : \A u \in Holders : r.id # gasCoin[u].id
        /\ \A r \in Pooled' : r.id \notin DOMAIN sourceCoins'
        /\ \A u \in Holders : gasCoin[u].id \notin DOMAIN sourceCoins'
    BY <1>1, <1>10, <2>1, <2>2, <2>3 DEF PlacesApart
  <2> QED
    BY <1>1, <1>2, <1>6, <1>7, <1>8, <2>4 DEF PlacesApart
<1>15. UsedAreCurrent'
  <2>1. ASSUME NEW r \in Pooled PROVE IsCurrent(r)'
    <3>1. r.id \in Coins /\ r.version # 0 /\ version[r.id] = r.version
      BY <1>1 DEF UsedAreCurrent, IsCurrent
    <3>2. \A q \in payment[t] : q.id # r.id
      BY <1>10
    <3>3. r.id \in Coins' /\ version'[r.id] = version[r.id]
      BY <1>5, <3>1, <3>2
    <3> QED
      BY <3>1, <3>3 DEF IsCurrent
  <2>2. \A r \in new : IsCurrent(r)'
    BY <1>5, <1>6 DEF IsCurrent
  <2>3. ASSUME NEW u \in At(UsesCoin) PROVE IsCurrent(gasCoin[u])'
    <3>1. /\ gasCoin[u].id \in Coins /\ gasCoin[u].version # 0
          /\ version[gasCoin[u].id] = gasCoin[u].version
      BY <1>1 DEF UsedAreCurrent, IsCurrent
    <3>2. \A q \in payment[t] : q.id # gasCoin[u].id
      BY <1>9, <1>10
    <3>3. gasCoin[u].id \in Coins' /\ version'[gasCoin[u].id] = version[gasCoin[u].id]
      BY <1>5, <3>1, <3>2
    <3>4. gasCoin'[u] = gasCoin[u]
      BY <1>2
    <3> QED
      BY <3>1, <3>3, <3>4 DEF IsCurrent
  <2> QED
    BY <1>2, <1>6, <1>9, <2>1, <2>2, <2>3 DEF UsedAreCurrent
<1>16. Untouched'
  <2>1. \A m \in inFlight : \A r \in m.gas : r.id \in Coins
    BY <1>1 DEF KnownIds
  <2> QED
    BY <1>1, <1>2, <1>6, <1>9, <2>1 DEF Untouched
<1> QED
  BY <1>11, <1>12, <1>13, <1>14, <1>15, <1>16 DEF GasKept

\* The answer to a transaction: its coin returns to the pool, or to the sources,
\* or is gone.
LEMMA ReturnsGas ==
  ASSUME GasKept, NEW t \in Txs, OthersQueue(t), Returns(t)
  PROVE  GasKept'
<1> DEFINE c == gasCoin[t].id
           v == gasCoin[t].version + 1
<1>1. /\ Typed /\ Stages /\ KnownIds /\ PlacesApart /\ UsedAreCurrent /\ Untouched
      /\ gasCoin \in [Txs -> Reference]
      /\ coinPool \in Seq(Reference) /\ Apart(coinPool)
      /\ version \in [Coins -> Nat]
      /\ IsFiniteSet(Coins) /\ Coins = 1..Cardinality(Coins)
  BY DEF GasKept, Typed, PlacesApart
<1>2. /\ payment' = payment /\ batch' = batch
      /\ inFlight' = inFlight \ {CallMessage(t)}
      /\ gasCoin' = [gasCoin EXCEPT ![t] = NoCoin]
      /\ pc[t] = "sent" /\ pc'[t] = "freeing"
  BY DEF Returns, Answered, refillVars
<1>3. /\ t \in Holders /\ c \in Coins /\ gasCoin[t] \in Reference
      /\ t \in At(UsesCoin) /\ version[c] + 1 = v /\ v \in Nat \ {0}
      /\ GasRef(t) = Ref(c, v) /\ Ref(c, v) \in Reference
      /\ Ref(c, v).id = c /\ Ref(c, v).version = v
  <2>1. t \in Holders /\ t \in At(UsesCoin) /\ gasCoin[t] \in Reference
    BY <1>1, <1>2 DEF Stages, Holders, UsesCoin, At
  <2>2. c \in Coins /\ version[c] = gasCoin[t].version
    BY <1>1, <2>1 DEF UsedAreCurrent, IsCurrent
  <2> QED
    BY <2>1, <2>2 DEF GasRef, Ref, Reference
<1>4. /\ gasCoin' \in [Txs -> Reference]
      /\ Holders' = Holders \ {t}
      /\ gasCoin'[t] = NoCoin
      /\ \A u \in Txs \ {t} : gasCoin'[u] = gasCoin[u]
  BY <1>1, <1>2 DEF Holders, NoCoin, Ref, Reference
<1>5. /\ \A u \in Holders \ {t} : u \in Txs /\ gasCoin[u].id # c
      /\ \A r \in Pooled : r.id # c
      /\ c \notin DOMAIN sourceCoins
      /\ \A u \in Txs : pc[u] # "fetch" => \A r \in payment[u] : r.id # c
      /\ ~sourceIsNull
  BY <1>1, <1>3 DEF PlacesApart, Holders
<1>6. /\ Coins' = Coins /\ version' \in [Coins -> Nat]
      /\ \A d \in Coins \ {c} : version'[d] = version[d]
      /\ \/ Pooled' = Pooled \union {Ref(c, v)} /\ version'[c] = v
            /\ UNCHANGED <<sourceCoins, sourceIsNull>>
         \/ /\ Pooled' = Pooled
            /\ DOMAIN sourceCoins' \subseteq DOMAIN sourceCoins \union {c}
      /\ coinPool' \in Seq(Reference) /\ Apart(coinPool)'
      /\ DOMAIN sourceCoins \subseteq DOMAIN sourceCoins'
      /\ DOMAIN sourceCoins' \subseteq Coins
      /\ sourceCoins' \in [DOMAIN sourceCoins' -> Nat]
      /\ sourceIsNull' = FALSE
  <2>1. \/ /\ coinPool' = Append(coinPool, GasRef(t))
           /\ UNCHANGED <<sourceCoins, sourceIsNull>>
           /\ version' = [version EXCEPT ![c] = version[c] + 1]
        \/ /\ PutSource(c, GasRef(t).version)
           /\ UNCHANGED coinPool
           /\ version' = [version EXCEPT ![c] = version[c] + 1]
        \/ /\ UNCHANGED poolVars
           /\ version' = [version EXCEPT ![c] = 0]
    BY DEF Returns, Answered
  <2> HIDE DEF c, v
  <2>2. /\ Coins' = Coins /\ version' \in [Coins -> Nat]
        /\ \A d \in Coins \ {c} : version'[d] = version[d]
    BY <1>1, <1>3, <2>1 DEF Coins
  <2>3. /\ sourceIsNull = FALSE /\ sourceCoins \in [DOMAIN sourceCoins -> Nat]
        /\ DOMAIN sourceCoins \subseteq Coins
    BY <1>1, <1>5 DEF Typed, KnownIds
  <2>4. CASE /\ coinPool' = Append(coinPool, GasRef(t))
             /\ UNCHANGED <<sourceCoins, sourceIsNull>>
             /\ version' = [version EXCEPT ![c] = version[c] + 1]
    <3>1. \A q \in ToSet(coinPool) : q.id # Ref(c, v).id
      BY <1>3, <1>5 DEF Pooled
    <3>2. /\ Append(coinPool, Ref(c, v)) \in Seq(Reference)
          /\ Apart(Append(coinPool, Ref(c, v)))
          /\ ToSet(Append(coinPool, Ref(c, v))) = ToSet(coinPool) \union {Ref(c, v)}
      BY <1>1, <1>3, <3>1, PoolAppended
    <3>3. /\ coinPool' \in Seq(Reference) /\ Apart(coinPool)'
          /\ Pooled' = Pooled \union {Ref(c, v)} /\ version'[c] = v
      BY <1>1, <1>3, <2>4, <3>2 DEF Pooled
    <3> QED
      BY <2>2, <2>3, <2>4, <3>3
  <2>5. CASE PutSource(c, GasRef(t).version) /\ UNCHANGED coinPool
    <3>1. PutSource(c, v) /\ c \in Coins /\ v \in Nat
      BY <1>3, <2>5
    <3>2. /\ DOMAIN sourceCoins' = DOMAIN sourceCoins \union {c}
          /\ sourceCoins' \in [DOMAIN sourceCoins' -> Nat]
          /\ sourceIsNull' = FALSE
      BY <1>1, <3>1, SourcePut
    <3> QED
      BY <1>1, <1>3, <2>2, <2>3, <2>5, <3>2 DEF Pooled
  <2>6. CASE UNCHANGED poolVars
    BY <1>1, <2>2, <2>3, <2>6 DEF Pooled, poolVars
  <2> QED
    BY <2>1, <2>4, <2>5, <2>6
<1> HIDE DEF c, v
<1>7. /\ At(UsesCoin)' = At(UsesCoin) \ {t} /\ At(UsesCoin)' \subseteq Holders \ {t}
      /\ \A u \in At(UsesCoin)' : /\ u \in Txs /\ u # t
                                  /\ pc[u] = "sent" => pc'[u] = "sent"
                                  /\ CallMessage(u)' = CallMessage(u)
  BY <1>1, <1>2, <1>4, OthersStay DEF At, UsesCoin, Stages, Holders, CallMessage
<1>8. Typed'
  BY <1>1, <1>2, <1>4, <1>6 DEF Typed
<1>9. Stages'
  BY <1>1, <1>2, <1>4, OthersStay DEF Stages, UsesCoin, Refilling
<1>10. KnownIds'
  BY <1>1, <1>2, <1>3, <1>4, <1>6 DEF KnownIds
<1>11. PlacesApart'
  <2>1. \A u \in Txs : payment[u] # {} => (pc'[u] = "fetch" <=> pc[u] = "fetch")
    BY <1>1, <1>2, OthersStay DEF Stages, Refilling
  <2>2. \A u \in Holders' : u \in Holders /\ u # t /\ gasCoin'[u] = gasCoin[u]
    BY <1>4 DEF Holders
  <2>3. /\ \A r \in Pooled' : r \in Pooled \/ r.id = c
        /\ \A d \in DOMAIN sourceCoins' : d \in DOMAIN sourceCoins \/ d = c
        /\ \A r \in Pooled' : r.id \notin DOMAIN sourceCoins'
    BY <1>1, <1>3, <1>5, <1>6 DEF PlacesApart
  <2>4. /\ Apart(coinPool)' /\ sourceIsNull' = FALSE
        /\ \A u, w \in Holders' : gasCoin'[u].id = gasCoin'[w].id => u = w
    BY <1>1, <1>6, <2>2 DEF PlacesApart
  <2>5. /\ \A r \in Pooled' : \A u \in Holders' : r.id # gasCoin'[u].id
        /\ \A u \in Holders' : gasCoin'[u].id \notin DOMAIN sourceCoins'
    BY <1>1, <1>5, <2>2, <2>3 DEF PlacesApart
  <2>6. \A u \in Txs : pc'[u] = "fetch" =>
          \A r \in payment'[u] : r.id \in DOMAIN sourceCoins'
    BY <1>1, <1>2, <1>6, <2>1 DEF PlacesApart
  <2>7. \A u \in Txs : pc'[u] # "fetch" =>
          \A r \in payment'[u] : /\ r.id \notin DOMAIN sourceCoins'
                                 /\ \A q \in Pooled' : q.id # r.id
                                 /\ \A w \in Holders' : gasCoin'[w].id # r.id
    BY <1>1, <1>2, <1>5, <2>1, <2>2, <2>3 DEF PlacesApart
  <2> QED
    BY <2>3, <2>4, <2>5, <2>6, <2>7 DEF PlacesApart
<1>12. UsedAreCurrent'
  <2>1. \A r \in Pooled' : IsCurrent(r)'
    BY <1>1, <1>3, <1>5, <1>6 DEF UsedAreCurrent, IsCurrent
  <2>2. \A u \in At(UsesCoin)' : IsCurrent(gasCoin[u])'
    <3> SUFFICES ASSUME NEW u \in At(UsesCoin)' PROVE IsCurrent(gasCoin[u])'
      OBVIOUS
    <3>1. /\ u \in At(UsesCoin) /\ u \in Holders \ {t} /\ u \in Txs /\ u # t
      BY <1>7
    <3>2. gasCoin'[u] = gasCoin[u] /\ gasCoin[u].id # c
      BY <1>4, <1>5, <3>1
    <3>3. IsCurrent(gasCoin[u])
      BY <1>1, <3>1 DEF UsedAreCurrent
    <3>4. version'[gasCoin[u].id] = version[gasCoin[u].id]
      BY <1>6, <3>2, <3>3 DEF IsCurrent
    <3> QED
      BY <1>6, <3>2, <3>3, <3>4 DEF IsCurrent
  <2> QED
    BY <1>4, <1>7, <2>1, <2>2 DEF UsedAreCurrent
<1>13. Untouched'
  <2>1. \A m \in inFlight' : m \in inFlight /\ \A r \in m.gas : r.id # c
    BY <1>1, <1>2, <1>3 DEF Untouched, c
  <2>2. \A r \in Pooled' : r \in Pooled \/ r.id = c
    BY <1>3, <1>6
  <2> QED
    BY <1>1, <1>4, <1>7, <2>1, <2>2 DEF Untouched
<1> QED
  BY <1>8, <1>9, <1>10, <1>11, <1>12, <1>13 DEF GasKept

\* Where nothing happens to the coins, all stays as it is.
LEMMA NothingMoves ==
  ASSUME GasKept, UNCHANGED <<pc, coinVars, ledgerVars>>
  PROVE  GasKept'
<1>1. /\ pc' = pc /\ coinPool' = coinPool /\ gasCoin' = gasCoin /\ version' = version
      /\ sourceCoins' = sourceCoins /\ sourceIsNull' = sourceIsNull
      /\ payment' = payment /\ batch' = batch /\ inFlight' = inFlight
      /\ Pooled' = Pooled /\ Holders' = Holders /\ Coins' = Coins
      /\ At(UsesCoin)' = At(UsesCoin)
  BY DEF coinVars, poolVars, ledgerVars, refillVars, chainVars, Pooled, Holders, Coins, At
<1>2. Typed'
  BY <1>1 DEF GasKept, Typed
<1>3. Stages' /\ KnownIds'
  BY <1>1 DEF GasKept, Stages, KnownIds
<1>4. PlacesApart'
  BY <1>1 DEF GasKept, PlacesApart, Apart
<1>5. UsedAreCurrent'
  BY <1>1 DEF GasKept, UsedAreCurrent, IsCurrent
<1>6. Untouched'
  <2>1. \A u \in Txs : CallMessage(u)' = CallMessage(u)
    BY <1>1 DEF CallMessage
  <2>2. \A u \in At(UsesCoin) : u \in Txs
    BY DEF At
  <2> QED
    BY <1>1, <2>1, <2>2 DEF GasKept, Untouched
<1> QED
  BY <1>2, <1>3, <1>4, <1>5, <1>6 DEF GasKept

\* At the start every coin is a source coin, or the sources are null.
LEMMA GasBegins == Init => GasKept
<1> SUFFICES ASSUME Init PROVE GasKept
  OBVIOUS
<1>1. /\ coinPool = <<>> /\ gasCoin = [t \in Txs |-> NoCoin]
      /\ batch = [t \in Txs |-> 0] /\ payment = [t \in Txs |-> {}]
      /\ inFlight = {} /\ pc = [t \in Txs |-> "new"]
      /\ sourceCoins = IF SourceGiven THEN [c \in 1..OwnedCoins |-> 0] ELSE NoSources
      /\ sourceIsNull = ~SourceGiven
      /\ version = [c \in 1..OwnedCoins |-> 1]
  BY DEF Init
<1>2. Pooled = {} /\ Holders = {} /\ At(UsesCoin) = {} /\ Coins = 1..OwnedCoins
  BY <1>1 DEF Pooled, ToSet, Holders, At, UsesCoin, Coins
<1>3. IsFiniteSet(Coins) /\ Coins = 1..Cardinality(Coins)
  <2>1. OwnedCoins \in Int /\ 1 \in Int /\ OwnedCoins >= 1
    BY SizesAssumption
  <2>2. /\ IsFiniteSet(1..OwnedCoins)
        /\ Cardinality(1..OwnedCoins) = IF 1 > OwnedCoins THEN 0 ELSE OwnedCoins - 1 + 1
    BY <2>1, FS_Interval
  <2>3. Cardinality(1..OwnedCoins) = OwnedCoins
    BY <2>1, <2>2
  <2> QED
    BY <1>2, <2>2, <2>3
<1>4. /\ sourceCoins \in [DOMAIN sourceCoins -> Nat] /\ DOMAIN sourceCoins \subseteq Coins
      /\ sourceIsNull \in BOOLEAN
      /\ sourceIsNull => DOMAIN sourceCoins = {}
  <2>1. CASE SourceGiven
    BY <1>1, <1>2, <2>1
  <2>2. CASE ~SourceGiven
    BY <1>1, <2>2, SwitchesAssumption DEF NoSources
  <2> QED
    BY <2>1, <2>2
<1>5. Typed
  BY <1>1, <1>2, <1>3, <1>4 DEF Typed, NoCoin, Ref, Reference
<1>6. Stages /\ KnownIds /\ UsedAreCurrent /\ Untouched
  BY <1>1, <1>2, <1>4 DEF Stages, UsesCoin, KnownIds, UsedAreCurrent, Untouched
<1>7. Apart(coinPool)
  BY <1>1 DEF Apart, IsInjective, ToSet
<1>8. PlacesApart
  BY <1>1, <1>2, <1>4, <1>7 DEF PlacesApart
<1> QED
  BY <1>5, <1>6, <1>8 DEF GasKept

GasInv == Scheduled /\ pendingTransactions \in Int /\ GasKept

\* A turn of a call keeps what is known of the coins.
LEMMA TurnsKeepGas ==
  ASSUME GasInv, NEW t \in Txs, Acts(t)
  PROVE  GasInv' /\ GasTurn(t) /\ Counts(t) /\ OthersQueue(t)
<1>1. Scheduled /\ pendingTransactions \in Int /\ GasKept /\ pc \in [Txs -> PCs]
  BY DEF GasInv, Scheduled
<1>2. OthersQueue(t)
  BY <1>1, TurnsKeep
<1>3. Scheduled'
  <2>1. [Next]_vars
    BY DEF Acts, Next
  <2> QED
    BY <1>1, <2>1, StepsOfParts
<1>4. GasTurn(t) /\ Counts(t)
  BY <1>1, TurnsOfCoins DEF GasKept
<1>5. pendingTransactions' \in Int
  BY <1>1, <1>4 DEF Counts
<1>6. GasKept'
  BY <1>1, <1>2, <1>4, KeepsGas, SendsGas, ShiftsGas, ReadsGas, TakesGas, SplitsGas, RefillsGas,
     ReturnsGas, GivesGas DEF GasTurn
<1> QED
  BY <1>2, <1>3, <1>4, <1>5, <1>6 DEF GasInv

\* So does what happens elsewhere.
LEMMA ElsewhereKeepsGas ==
  ASSUME GasInv, Elsewhere
  PROVE  GasInv' /\ UNCHANGED <<pc, coinVars, refillVars, pendingTransactions>>
<1>1. Scheduled /\ pendingTransactions \in Int /\ GasKept
  BY DEF GasInv
<1>2. UNCHANGED <<pc, coinVars, refillVars, pendingTransactions>>
  BY DEF Elsewhere, LandLate, OutsideUpdate, SettleUpdate, ledgerVars
<1>3. Scheduled'
  BY <1>1, StepsOfParts DEF Elsewhere, Next
<1>4. GasKept'
  <2>1. CASE \E m \in inFlight : LandLate(m)
    BY <1>1, <2>1, LandsGas
  <2>2. CASE \/ \E x \in Outside : OutsideUpdate(x)
             \/ \E c \in CallSites : SettleUpdate(c)
    <3>1. UNCHANGED <<pc, coinVars, ledgerVars>>
      BY <2>2 DEF OutsideUpdate, SettleUpdate
    <3> QED
      BY <1>1, <3>1, NothingMoves
  <2> QED
    BY <2>1, <2>2 DEF Elsewhere
<1> QED
  BY <1>1, <1>2, <1>3, <1>4 DEF GasInv

\* The inductive invariant of the coins: it begins,
LEMMA GasInvBegins == Init => GasInv
BY GasBegins, PartsBegin DEF GasInv, Init

\* is kept by every step,
LEMMA GasInvKept == GasInv /\ [Next]_vars => GasInv'
<1> SUFFICES ASSUME GasInv, [Next]_vars PROVE GasInv'
  OBVIOUS
<1>1. CASE UNCHANGED vars
  <2>1. /\ Scheduled /\ pendingTransactions \in Int /\ GasKept
        /\ UNCHANGED <<pc, coinVars, ledgerVars>> /\ pendingTransactions' = pendingTransactions
    BY <1>1 DEF GasInv, vars, coinVars, ledgerVars
  <2>2. Scheduled'
    BY <2>1, StepsOfParts
  <2> QED
    BY <2>1, <2>2, NothingMoves DEF GasInv
<1> QED
  BY <1>1, WhoSteps, TurnsKeepGas, ElsewhereKeepsGas

\* and so holds throughout.
LEMMA CoinsAreKept == Spec => []GasInv
<1> QED
  BY GasInvBegins, GasInvKept, PTL DEF Spec

\* A set whose elements are equal to each other has one element at most.
LEMMA OneAtMost ==
  ASSUME NEW S, \A x, y \in S : x = y
  PROVE  Cardinality(S) \in {0, 1} /\ (S = {} => Cardinality(S) = 0)
<1>1. CASE S = {}
  BY <1>1, FS_EmptySet
<1>2. CASE S # {}
  <2>1. PICK x \in S : S = {x}
    BY <1>2
  <2>2. Cardinality({x}) = 1
    BY FS_Singleton
  <2> QED
    BY <1>2, <2>1, <2>2
<1> QED
  BY <1>1, <1>2

\* What PlacesApart says place by place, counted.
LEMMA PlacesAreApart == GasInv => OnePlacePerCoin
<1> SUFFICES ASSUME GasInv, NEW c \in Coins
             PROVE  Cardinality(InPool(c)) + Cardinality(HeldBy(c)) + Cardinality(InSource(c))
                      + Cardinality(PaidBy(c) \ At({"fetch"})) <= 1
  BY DEF OnePlacePerCoin
<1>1. Scheduled /\ Typed /\ Stages /\ PlacesApart
  BY DEF GasInv, GasKept
<1>2. c # 0
  <2>1. Cardinality(Coins) \in Nat /\ Coins = 1..Cardinality(Coins)
    BY <1>1, FS_CardinalityType DEF Typed
  <2> QED
    BY <2>1
<1>3. HeldBy(c) \subseteq Holders /\ \A t, u \in HeldBy(c) : t = u
  BY <1>1, <1>2 DEF HeldBy, Holders, NoCoin, Ref, PlacesApart
<1>4. /\ \A i \in InPool(c) : coinPool[i] \in Pooled /\ coinPool[i].id = c
      /\ \A i, j \in InPool(c) : i = j
  BY <1>1 DEF InPool, Pooled, ToSet, PlacesApart, Apart, IsInjective
<1>5. \A d, e \in InSource(c) : d = e
  BY DEF InSource
<1>6. \A t, u \in PaidBy(c) : t = u
  <2> SUFFICES ASSUME NEW t \in PaidBy(c), NEW u \in PaidBy(c) PROVE t = u
    OBVIOUS
  <2>1. t \in Txs /\ u \in Txs /\ payment[t] # {} /\ payment[u] # {}
    BY DEF PaidBy
  <2>2. pc[t] \in Building /\ pc[u] \in Building
    BY <1>1, <2>1 DEF Stages, Refilling, Building
  <2> QED
    BY <1>1, <2>1, <2>2, OneBuilder
<1> DEFINE P == PaidBy(c) \ At({"fetch"})
<1>7. \A t, u \in P : t = u
  BY <1>6
<1>8. /\ InPool(c) # {} => HeldBy(c) = {} /\ InSource(c) = {} /\ P = {}
      /\ HeldBy(c) # {} => InSource(c) = {} /\ P = {}
      /\ InSource(c) # {} => P = {}
  <2>1. \A t \in P : t \in Txs /\ pc[t] # "fetch" /\ \E r \in payment[t] : r.id = c
    BY DEF PaidBy, At
  <2>2. \A t \in P : /\ c \notin DOMAIN sourceCoins
                     /\ \A q \in Pooled : q.id # c
                     /\ \A u \in Holders : gasCoin[u].id # c
    BY <1>1, <2>1 DEF PlacesApart
  <2>3. \A t \in HeldBy(c) : t \in Holders /\ gasCoin[t].id = c
    BY <1>3 DEF HeldBy
  <2>4. \A d \in InSource(c) : c \in DOMAIN sourceCoins
    BY DEF InSource
  <2> HIDE DEF P
  <2>5. InPool(c) # {} => HeldBy(c) = {} /\ InSource(c) = {}
    BY <1>1, <1>4, <2>3, <2>4 DEF PlacesApart
  <2>6. HeldBy(c) # {} => InSource(c) = {}
    BY <1>1, <2>3, <2>4 DEF PlacesApart
  <2>7. P # {} => InPool(c) = {} /\ HeldBy(c) = {} /\ InSource(c) = {}
    BY <1>4, <2>2, <2>3, <2>4
  <2> QED
    BY <2>5, <2>6, <2>7
<1> HIDE DEF P
<1>9. /\ Cardinality(InPool(c)) \in {0, 1} /\ (InPool(c) = {} => Cardinality(InPool(c)) = 0)
      /\ Cardinality(HeldBy(c)) \in {0, 1} /\ (HeldBy(c) = {} => Cardinality(HeldBy(c)) = 0)
      /\ Cardinality(InSource(c)) \in {0, 1}
      /\ (InSource(c) = {} => Cardinality(InSource(c)) = 0)
      /\ Cardinality(P) \in {0, 1} /\ (P = {} => Cardinality(P) = 0)
  BY <1>3, <1>4, <1>5, <1>7, OneAtMost
<1>10. Cardinality(InPool(c)) + Cardinality(HeldBy(c)) + Cardinality(InSource(c))
         + Cardinality(P) <= 1
  BY <1>8, <1>9
<1> QED
  BY <1>10 DEF P

\* No coin is in two places.
THEOREM OneKeeper == Spec => []OnePlacePerCoin
<1> QED
  BY CoinsAreKept, PlacesAreApart, PTL

\* The references pooled or in use are among the current ones.
LEMMA UsedCoinsAreCurrent == GasInv => GasIsCurrent
<1> SUFFICES ASSUME GasInv PROVE GasIsCurrent
  OBVIOUS
<1>1. Typed /\ Stages /\ UsedAreCurrent
  BY DEF GasInv, GasKept
<1>2. \A r \in Reference : IsCurrent(r) => r \in Current
  <2> SUFFICES ASSUME NEW r \in Reference, IsCurrent(r) PROVE r \in Current
    OBVIOUS
  <2>1. r = Ref(r.id, version[r.id]) /\ r.id \in Owned
    BY DEF Reference, Ref, IsCurrent, Owned
  <2> QED
    BY <2>1 DEF Current
<1>3. \A i \in DOMAIN coinPool : coinPool[i] \in Pooled /\ coinPool[i] \in Reference
  BY <1>1 DEF Pooled, ToSet, Typed
<1>4. \A t \in Holders \ At({"caught"}) : t \in At(UsesCoin) /\ gasCoin[t] \in Reference
  BY <1>1 DEF Holders, At, Stages, Typed
<1> QED
  BY <1>1, <1>2, <1>3, <1>4 DEF GasIsCurrent, UsedAreCurrent

\* No transaction pays with a stale reference.
THEOREM GasStaysCurrent == Spec => []GasIsCurrent
<1> QED
  BY CoinsAreKept, UsedCoinsAreCurrent, PTL

-----------------------------------------------------------------------------
(* The room of the pool.                                                    *)

\* The sets of calls are finite; who holds a coin is pending.
LEMMA PendingHolds ==
  ASSUME GasInv
  PROVE  /\ IsFiniteSet(Pending) /\ IsFiniteSet(Holders)
         /\ Holders \subseteq Pending
         /\ Cardinality(Holders) \in Nat /\ Cardinality(Pending) \in Nat
         /\ Cardinality(Holders) <= Cardinality(Pending)
<1>1. Holders \subseteq Txs /\ Pending \subseteq Txs /\ IsFiniteSet(Txs)
  BY CallsAssumption DEF Holders, Pending, At
<1>2. IsFiniteSet(Pending) /\ IsFiniteSet(Holders)
  BY <1>1, FS_Subset
<1>3. Holders \subseteq Pending
  BY DEF GasInv, GasKept, Stages, Holders, Pending, At, Building, AfterBuild, UsesCoin
<1> QED
  BY <1>2, <1>3, FS_Subset, FS_CardinalityType

\* The count stays true, unless fetching the gas price can fail.
LEMMA CountStaysTrue ==
  ASSUME GasInv, PendingCounts, ~May("price"), NEW t \in Txs, OthersQueue(t), Counts(t)
  PROVE  PendingCounts'
<1>1. Pending = At(PendingStages) /\ IsFiniteSet(Pending) /\ Cardinality(Pending) \in Nat
  BY PendingHolds DEF Pending, PendingStages
<1>2. Pending' = At(PendingStages)'
  BY DEF Pending, PendingStages, At
<1>3. \A u \in Txs \ {t} : pc'[u] \in PendingStages <=> pc[u] \in PendingStages
  BY DEF OthersQueue, PendingStages, Building, AfterBuild
<1>4. pendingTransactions = Cardinality(Pending)
  BY DEF PendingCounts
<1>5. CASE /\ pendingTransactions' = pendingTransactions + 1
           /\ pc[t] \notin PendingStages /\ pc'[t] \in PendingStages
  <2>1. Pending' = Pending \union {t} /\ t \notin Pending
    BY <1>1, <1>2, <1>3, <1>5 DEF At
  <2>2. Cardinality(Pending \union {t}) = Cardinality(Pending) + 1
    BY <1>1, <2>1, FS_AddElement
  <2> QED
    BY <1>4, <1>5, <2>1, <2>2 DEF PendingCounts
<1>6. CASE /\ pendingTransactions' = pendingTransactions - 1
           /\ pc[t] \in PendingStages /\ pc'[t] \notin PendingStages
  <2>1. Pending' = Pending \ {t} /\ t \in Pending
    BY <1>1, <1>2, <1>3, <1>6 DEF At
  <2>2. Cardinality(Pending \ {t}) = Cardinality(Pending) - 1
    BY <1>1, <2>1, FS_RemoveElement
  <2> QED
    BY <1>4, <1>6, <2>1, <2>2 DEF PendingCounts
<1>7. CASE /\ pendingTransactions' = pendingTransactions
           /\ pc[t] \in PendingStages <=> pc'[t] \in PendingStages
  <2>1. Pending' = Pending
    BY <1>1, <1>2, <1>3, <1>7 DEF At
  <2> QED
    BY <1>4, <1>7, <2>1 DEF PendingCounts
<1> QED
  BY <1>5, <1>6, <1>7 DEF Counts

\* What is in use or to be created stays within the limit.
LEMMA PoolStaysBounded ==
  ASSUME GasInv, PendingCounts, PoolBounded, NEW t \in Txs, OthersQueue(t), GasTurn(t)
  PROVE  PoolBounded'
<1> DEFINE H == Cardinality(Holders)
<1>1. /\ Scheduled /\ Stages /\ pendingTransactions \in Nat
      /\ coinPool \in Seq(Reference) /\ Len(coinPool) \in Nat
      /\ batch \in [Txs -> Nat] /\ MaxPoolSize \in Nat /\ CoinBatchSize \in Nat
      /\ gasCoin \in [Txs -> Reference]
  BY PendingHolds, SizesAssumption DEF GasInv, GasKept, Typed, PendingCounts
<1>2. H \in Nat /\ IsFiniteSet(Holders) /\ H <= pendingTransactions
  BY PendingHolds DEF PendingCounts
<1>3. \A u \in Txs : Len(coinPool) + H + batch[u] <= MaxPoolSize
  BY DEF PoolBounded
<1> HIDE DEF H
<1>4. ASSUME /\ Len(coinPool') \in Nat /\ H' \in Nat
             /\ \A u \in Txs : batch'[u] \in Nat
                  /\ Len(coinPool') + H' + batch'[u] <= MaxPoolSize
      PROVE  PoolBounded'
  BY <1>4 DEF PoolBounded, H
<1>5. CASE Keeps(t) \/ Sends(t) \/ Splits(t)
  <2>1. coinPool' = coinPool /\ Holders' = Holders
    BY <1>5 DEF Keeps, Sends, Splits, coinVars, poolVars, Holders
  <2>2. \A u \in Txs : batch'[u] \in Nat /\ batch'[u] <= batch[u]
    BY <1>1, <1>5 DEF Keeps, Sends, Splits, EndRefill, refillVars
  <2> QED
    BY <1>1, <1>2, <1>3, <1>4, <2>1, <2>2 DEF H
<1>6. CASE Shifts(t)
  <2>1. /\ coinPool # <<>> /\ coinPool' = Tail(coinPool) /\ batch' = batch
        /\ gasCoin' = [gasCoin EXCEPT ![t] = Head(coinPool)]
    BY <1>6 DEF Shifts, ShiftCoin, ledgerVars, refillVars
  <2>2. Len(coinPool') \in Nat /\ Len(coinPool') = Len(coinPool) - 1
    BY <1>1, <2>1
  <2>3. Holders' \subseteq Holders \union {t}
    BY <1>1, <2>1 DEF Holders
  <2>4. IsFiniteSet(Holders \union {t}) /\ Cardinality(Holders \union {t}) <= H + 1
    <3>1. /\ IsFiniteSet(Holders \union {t})
          /\ Cardinality(Holders \union {t}) =
               IF t \in Holders THEN Cardinality(Holders) ELSE Cardinality(Holders) + 1
      BY <1>2, FS_AddElement
    <3> QED
      BY <1>2, <3>1 DEF H
  <2>5. H' \in Nat /\ H' <= H + 1
    <3>1. /\ Cardinality(Holders') \in Nat
          /\ Cardinality(Holders \union {t}) \in Nat
          /\ Cardinality(Holders') <= Cardinality(Holders \union {t})
      BY <2>3, <2>4, FS_Subset, FS_CardinalityType
    <3> QED
      BY <1>2, <2>4, <3>1 DEF H
  <2> QED
    BY <1>1, <1>2, <1>3, <1>4, <2>1, <2>2, <2>5
<1>7. CASE Reads(t) \/ Takes(t)
  <2>1. /\ coinPool' = coinPool /\ Holders' = Holders
        /\ pc[t] \in Building
        /\ \E size \in Nat : Sized(t, size) /\ batch' = [batch EXCEPT ![t] = size]
    BY <1>7 DEF Reads, Takes, coinVars, poolVars, Holders, Building
  <2>2. PICK size \in Nat : Sized(t, size) /\ batch' = [batch EXCEPT ![t] = size]
    BY <2>1
  <2>3. Len(coinPool) + H + size <= MaxPoolSize
    <3>1. CASE pc[t] = "fetch" /\ size = batch[t]
      BY <1>3, <3>1
    <3>2. CASE coinPool = <<>> /\ size = BatchSize(pendingTransactions + 1)
      <4>1. Len(coinPool) = 0
        BY <3>2
      <4>2. size <= MaxPoolSize - (0 + (pendingTransactions + 1)) + 1
        BY <1>1, <3>2, <4>1 DEF BatchSize
      <4> QED
        BY <1>1, <1>2, <4>1, <4>2
    <3> QED
      BY <2>2, <3>1, <3>2 DEF Sized
  <2> QED
    BY <1>1, <1>2, <1>3, <1>4, <2>1, <2>2, <2>3 DEF H
<1>8. CASE Refills(t)
  <2>1. /\ gasCoin' = gasCoin /\ pc[t] \in Building
        /\ batch' = [batch EXCEPT ![t] = 0]
        /\ \E n \in {0, batch[t]} : coinPool' = coinPool \o NewRefs(n)
    BY <1>8 DEF Refills, RefillAnswered, EndRefill, Building
  <2>2. PICK n \in {0, batch[t]} : coinPool' = coinPool \o NewRefs(n)
    BY <2>1
  <2>3. n \in Nat /\ n <= batch[t]
    BY <1>1
  <2>4. Len(coinPool') = Len(coinPool) + n
    <3>1. NewRefs(n) \in Seq(Reference) /\ Len(NewRefs(n)) = n
      BY <2>3, PoolCreated DEF GasInv, GasKept
    <3>2. \A z \in Seq(Reference) : Len(coinPool \o z) = Len(coinPool) + Len(z)
      BY <1>1
    <3> QED
      BY <2>2, <3>1, <3>2
  <2>5. \A u \in Txs : batch'[u] = 0
    BY <1>1, <2>1, OthersPayNothing
  <2>6. Holders' = Holders
    BY <2>1 DEF Holders
  <2> QED
    BY <1>1, <1>2, <1>3, <1>4, <2>3, <2>4, <2>5, <2>6 DEF H
<1>9. CASE Returns(t) \/ Gives(t)
  <2>1. /\ gasCoin' = [gasCoin EXCEPT ![t] = NoCoin] /\ batch' = batch
        /\ \/ coinPool' = coinPool
           \/ coinPool' = Append(coinPool, GasRef(t)) /\ t \in Holders
    BY <1>1, <1>9 DEF Returns, Answered, Gives, GiveBack, ledgerVars, refillVars, poolVars,
                      Stages, UsesCoin, Holders
  <2>2. Holders' = Holders \ {t}
    BY <1>1, <2>1 DEF Holders, NoCoin, Ref, Reference
  <2>3. H' \in Nat /\ H' <= H /\ (t \in Holders => H' = H - 1)
    <3>1. /\ IsFiniteSet(Holders \ {t})
          /\ Cardinality(Holders \ {t}) =
               IF t \in Holders THEN Cardinality(Holders) - 1 ELSE Cardinality(Holders)
      BY <1>2, FS_RemoveElement
    <3>2. Cardinality(Holders \ {t}) \in Nat
      BY <3>1, FS_CardinalityType
    <3> QED
      BY <1>2, <2>2, <3>1, <3>2 DEF H
  <2>4. Len(coinPool') \in Nat /\ Len(coinPool') + H' <= Len(coinPool) + H
    <3>1. GasRef(t) \in Reference
      BY <1>1 DEF GasRef, Ref, Reference
    <3> QED
      BY <1>1, <1>2, <2>1, <2>3, <3>1
  <2> QED
    BY <1>1, <1>2, <1>3, <1>4, <2>1, <2>3, <2>4
<1> QED
  BY <1>5, <1>6, <1>7, <1>8, <1>9 DEF GasTurn

\* Every pending transaction is executing, and so is the one that asks for a
\* coin: there is a place less than the pool has room.
LEMMA RoomForOneMore ==
  ASSUME GasInv, PendingCounts
  PROVE  RefillNeverRefused
<1> SUFFICES ASSUME coinPool = <<>>, NEW t \in At({"gas"})
             PROVE  /\ pendingTransactions < MaxPoolSize
                    /\ BatchSize(pendingTransactions + 1) > 0
  BY DEF RefillNeverRefused
<1>1. /\ IsFiniteSet(Pending) /\ Cardinality(Pending) \in Nat
      /\ pendingTransactions = Cardinality(Pending)
      /\ t \in Txs /\ t \notin Pending
  BY PendingHolds DEF At, Pending, Building, AfterBuild, PendingCounts
<1>2. Pending \union {t} \subseteq At(Executing)
  BY DEF At, Pending, Executing, Building, AfterBuild
<1>3. IsFiniteSet(At(Executing))
  BY CallsAssumption, FS_Subset DEF At
<1>4. Cardinality(At(Executing)) <= MaxPoolSize /\ Cardinality(At(Executing)) \in Nat
  BY PartsSay DEF GasInv
<1>5. Cardinality(Pending \union {t}) = Cardinality(Pending) + 1
  BY <1>1, FS_AddElement
<1>6. Cardinality(Pending \union {t}) <= Cardinality(At(Executing))
  BY <1>2, <1>3, FS_Subset
<1>7. pendingTransactions + 1 <= MaxPoolSize
  BY <1>1, <1>4, <1>5, <1>6, SizesAssumption
<1>8. Len(coinPool) = 0
  OBVIOUS
<1> QED
  BY <1>1, <1>7, <1>8, SizesAssumption DEF BatchSize

RoomInv == GasInv /\ PendingCounts /\ PoolBounded

\* At the start nothing is pending and there are no coins in use.
LEMMA RoomBegins == Init => RoomInv
<1> SUFFICES ASSUME Init PROVE RoomInv
  OBVIOUS
<1>1. /\ coinPool = <<>> /\ pendingTransactions = 0
      /\ batch = [t \in Txs |-> 0] /\ gasCoin = [t \in Txs |-> NoCoin]
      /\ pc = [t \in Txs |-> "new"]
  BY DEF Init
<1>2. Pending = {} /\ Holders = {} /\ Len(coinPool) = 0
  BY <1>1 DEF Pending, Holders, At, Building, AfterBuild
<1> QED
  BY <1>1, <1>2, GasInvBegins, FS_EmptySet, SizesAssumption
     DEF RoomInv, PendingCounts, PoolBounded

\* The accounts of the room are inductive, together with those of the coins.
LEMMA RoomKept == ASSUME ~May("price") PROVE RoomInv /\ [Next]_vars => RoomInv'
<1> SUFFICES ASSUME RoomInv, [Next]_vars PROVE RoomInv'
  OBVIOUS
<1>1. GasInv /\ PendingCounts /\ PoolBounded /\ GasInv'
  BY GasInvKept DEF RoomInv
<1>2. CASE \E t \in Txs : Acts(t)
  <2>1. PICK t \in Txs : Acts(t)
    BY <1>2
  <2>2. GasTurn(t) /\ Counts(t) /\ OthersQueue(t)
    BY <1>1, <2>1, TurnsKeepGas
  <2> QED
    BY <1>1, <2>2, CountStaysTrue, PoolStaysBounded DEF RoomInv
<1>3. CASE Elsewhere \/ UNCHANGED vars
  <2>1. UNCHANGED <<pc, coinPool, gasCoin, batch, pendingTransactions>>
    BY <1>1, <1>3, ElsewhereKeepsGas DEF coinVars, poolVars, refillVars, vars
  <2>2. PendingCounts'
    BY <1>1, <2>1 DEF PendingCounts, Pending, At
  <2>3. PoolBounded'
    BY <1>1, <2>1 DEF PoolBounded, Holders
  <2> QED
    BY <1>1, <2>2, <2>3 DEF RoomInv
<1> QED
  BY <1>2, <1>3, WhoSteps

\* The room of the pool is accounted for, when the gas price cannot be refused.
THEOREM PoolIsAccounted ==
  ASSUME "price" \notin Faults
  PROVE  Spec => []PoolAccounted
<1>1. ~May("price")
  BY DEF May
<1>2. RoomInv /\ [Next]_vars => RoomInv'
  BY <1>1, RoomKept
<1>3. RoomInv => PoolAccounted
  BY RoomForOneMore DEF RoomInv, PoolAccounted
<1> QED
  BY RoomBegins, <1>2, <1>3, PTL DEF Spec

-----------------------------------------------------------------------------
(* Transactions on their way.                                               *)

\* The sender of a transaction on its way awaits the answer.
AwaitsAnswer(m) ==
  \/ m = CallMessage(m.by) /\ pc[m.by] = "sent"
  \/ m = RefillMessage(m.by, payment[m.by]) /\ pc[m.by] = "splitSent"
Answerable == \A m \in inFlight : m.by \in Txs /\ AwaitsAnswer(m)

\* A turn touches the coins of its own call only.
LEMMA OthersKeepTheirs ==
  ASSUME GasInv, NEW t \in Txs, GasTurn(t)
  PROVE  \A u \in Txs \ {t} : /\ gasCoin'[u] = gasCoin[u]
                              /\ payment'[u] = payment[u] /\ batch'[u] = batch[u]
<1>1. /\ gasCoin \in [Txs -> Reference] /\ payment \in [Txs -> SUBSET Reference]
      /\ batch \in [Txs -> Nat]
  BY DEF GasInv, GasKept, Typed
<1>2. /\ \/ gasCoin' = gasCoin
         \/ \E g : gasCoin' = [gasCoin EXCEPT ![t] = g]
      /\ \/ payment' = payment
         \/ \E p : payment' = [payment EXCEPT ![t] = p]
      /\ \/ batch' = batch
         \/ \E n : batch' = [batch EXCEPT ![t] = n]
  <2>1. CASE Keeps(t) \/ Sends(t) \/ Splits(t)
    BY <2>1 DEF Keeps, Sends, Splits, coinVars, EndRefill, refillVars
  <2>2. CASE Shifts(t) \/ Gives(t)
    BY <2>2 DEF Shifts, ShiftCoin, Gives, ledgerVars, refillVars
  <2>3. CASE Reads(t) \/ Takes(t)
    BY <2>3 DEF Reads, Takes, coinVars
  <2>4. CASE Refills(t)
    BY <2>4 DEF Refills, RefillAnswered, EndRefill
  <2>5. CASE Returns(t)
    BY <2>5 DEF Returns, Answered, refillVars
  <2> QED
    BY <2>1, <2>2, <2>3, <2>4, <2>5 DEF GasTurn
<1> QED
  BY <1>1, <1>2

\* Unless an answer can be lost, the sender does not go on without it.
LEMMA TurnsAwaitAnswers ==
  ASSUME GasInv, Answerable, ~May("reply"), NEW t \in Txs, OthersQueue(t), GasTurn(t)
  PROVE  Answerable'
<1>1. \A u \in Txs \ {t} : /\ gasCoin'[u] = gasCoin[u]
                           /\ payment'[u] = payment[u] /\ batch'[u] = batch[u]
                           /\ pc[u] \in {"sent", "splitSent"} => pc'[u] = pc[u]
  BY OthersKeepTheirs DEF OthersQueue
<1>2. /\ payment \in [Txs -> SUBSET Reference]
      /\ \A m \in inFlight : m.by = t =>
           \/ m = CallMessage(t) /\ pc[t] = "sent"
           \/ m = RefillMessage(t, payment[t]) /\ pc[t] = "splitSent"
  BY DEF Answerable, AwaitsAnswer, GasInv, GasKept, Typed
<1>3. \A m \in inFlight' :
        \/ m \in inFlight /\ m.by # t
        \/ /\ m = [by |-> t, kind |-> "call", gas |-> {gasCoin'[t]}, creates |-> 0]
           /\ pc'[t] = "sent"
        \/ /\ m = [by |-> t, kind |-> "refill", gas |-> payment'[t], creates |-> batch'[t]]
           /\ pc'[t] = "splitSent"
  <2>1. CASE Keeps(t)
    <3>1. \/ inFlight' = inFlight /\ pc[t] \notin {"sent", "splitSent"}
          \/ pc[t] = "splitSent" /\ inFlight' = inFlight \ {RefillMessage(t, payment[t])}
      BY <2>1 DEF Keeps, GivesUp, BuildAwaits, Refilling, UsesCoin
    <3> QED
      BY <1>2, <3>1
  <2>2. CASE Sends(t)
    <3>1. /\ pc[t] = "sign" /\ pc'[t] = "sent" /\ gasCoin' = gasCoin
          /\ inFlight' = inFlight \union {CallMessage(t)}
      BY <2>2 DEF Sends, coinVars
    <3>2. CallMessage(t) = [by |-> t, kind |-> "call", gas |-> {gasCoin'[t]}, creates |-> 0]
      BY <3>1 DEF CallMessage
    <3> QED
      BY <1>2, <3>1, <3>2
  <2>3. CASE Splits(t)
    <3>1. /\ pc[t] = "split" /\ pc'[t] = "splitSent" /\ batch' = batch
          /\ inFlight' = inFlight \union {RefillMessage(t, RefillGas(t))}
          /\ payment'[t] = RefillGas(t)
      BY <1>2, <2>3 DEF Splits
    <3>2. RefillMessage(t, RefillGas(t)) =
            [by |-> t, kind |-> "refill", gas |-> payment'[t], creates |-> batch'[t]]
      BY <3>1 DEF RefillMessage
    <3> QED
      BY <1>2, <3>1, <3>2
  <2>4. CASE Refills(t)
    BY <1>2, <2>4 DEF Refills, RefillAnswered
  <2>5. CASE Returns(t)
    BY <1>2, <2>5 DEF Returns, Answered
  <2>6. CASE Shifts(t) \/ Reads(t) \/ Takes(t) \/ Gives(t)
    <3>1. pc[t] \notin {"sent", "splitSent"} /\ inFlight' = inFlight
      BY <2>6 DEF Shifts, Reads, Takes, Gives, ledgerVars, chainVars
    <3> QED
      BY <1>2, <3>1
  <2> QED
    BY <2>1, <2>2, <2>3, <2>4, <2>5, <2>6 DEF GasTurn
<1> SUFFICES ASSUME NEW m \in inFlight' PROVE m.by \in Txs /\ AwaitsAnswer(m)'
  BY DEF Answerable
<1>4. CASE m \in inFlight /\ m.by # t
  <2>1. m.by \in Txs \ {t} /\ AwaitsAnswer(m)
    BY <1>4 DEF Answerable
  <2> QED
    BY <1>1, <2>1 DEF AwaitsAnswer, CallMessage, RefillMessage
<1>5. CASE /\ m = [by |-> t, kind |-> "call", gas |-> {gasCoin'[t]}, creates |-> 0]
           /\ pc'[t] = "sent"
  BY <1>5 DEF AwaitsAnswer, CallMessage
<1>6. CASE /\ m = [by |-> t, kind |-> "refill", gas |-> payment'[t], creates |-> batch'[t]]
           /\ pc'[t] = "splitSent"
  BY <1>6 DEF AwaitsAnswer, RefillMessage
<1> QED
  BY <1>3, <1>4, <1>5, <1>6

AnsweredInv == GasInv /\ Answerable

\* Where no answer is lost, no transaction lands late, so every step keeps this.
LEMMA AnsweredKept ==
  ASSUME ~May("reply")
  PROVE  AnsweredInv /\ [Next]_vars => AnsweredInv'
<1> SUFFICES ASSUME AnsweredInv, [Next]_vars PROVE AnsweredInv'
  OBVIOUS
<1>1. GasInv /\ Answerable /\ GasInv'
  BY GasInvKept DEF AnsweredInv
<1>2. CASE \E t \in Txs : Acts(t)
  BY <1>1, <1>2, TurnsKeepGas, TurnsAwaitAnswers DEF AnsweredInv
<1>3. CASE \/ UNCHANGED vars
           \/ \E x \in Outside : OutsideUpdate(x)
           \/ \E c \in CallSites : SettleUpdate(c)
  <2>1. UNCHANGED <<pc, gasCoin, payment, batch, inFlight>>
    BY <1>3 DEF vars, OutsideUpdate, SettleUpdate, coinVars, ledgerVars, refillVars, chainVars
  <2>2. Answerable'
    BY <1>1, <2>1 DEF Answerable, AwaitsAnswer, CallMessage, RefillMessage
  <2> QED
    BY <1>1, <2>2 DEF AnsweredInv
<1>4. \A m \in inFlight : ~LandLate(m)
  BY <1>1 DEF Answerable, AwaitsAnswer, LandLate, CallMessage, RefillMessage
<1> QED
  BY <1>2, <1>3, <1>4, WhoSteps DEF Elsewhere

\* The senders of two messages would hold the same coin, or both be building.
LEMMA OneMessagePerCoin == AnsweredInv => NoEquivocation
<1> SUFFICES ASSUME AnsweredInv, NEW m \in inFlight, NEW n \in inFlight, NEW r,
                    r \in m.gas, r \in n.gas
             PROVE  m = n
  BY DEF NoEquivocation
<1>1. Scheduled /\ Stages /\ PlacesApart
  BY DEF AnsweredInv, GasInv, GasKept
<1>2. /\ m.by \in Txs /\ AwaitsAnswer(m)
      /\ n.by \in Txs /\ AwaitsAnswer(n)
  BY DEF AnsweredInv, Answerable
<1>3. \A u \in Txs : pc[u] = "sent" => u \in Holders
  BY <1>1 DEF Stages, UsesCoin, Holders
<1>4. CASE m = CallMessage(m.by) /\ pc[m.by] = "sent" /\ n = CallMessage(n.by) /\ pc[n.by] = "sent"
  <2>1. r = gasCoin[m.by] /\ r = gasCoin[n.by]
    BY <1>4 DEF CallMessage
  <2>2. m.by = n.by
    BY <1>1, <1>2, <1>3, <1>4, <2>1 DEF PlacesApart
  <2> QED
    BY <1>4, <2>2
<1>5. CASE /\ m = RefillMessage(m.by, payment[m.by]) /\ pc[m.by] = "splitSent"
           /\ n = RefillMessage(n.by, payment[n.by]) /\ pc[n.by] = "splitSent"
  <2>1. m.by = n.by
    BY <1>1, <1>2, <1>5, OneBuilder DEF Building
  <2> QED
    BY <1>5, <2>1
<1>6. ASSUME NEW u \in Txs, NEW w \in Txs, pc[u] = "sent", pc[w] = "splitSent",
             r = gasCoin[u], r \in payment[w]
      PROVE  FALSE
  BY <1>1, <1>3, <1>6 DEF PlacesApart
<1>7. CASE /\ m = CallMessage(m.by) /\ pc[m.by] = "sent"
           /\ n = RefillMessage(n.by, payment[n.by]) /\ pc[n.by] = "splitSent"
  <2>1. r = gasCoin[m.by] /\ r \in payment[n.by]
    BY <1>7 DEF CallMessage, RefillMessage
  <2> QED
    BY <1>2, <1>6, <1>7, <2>1
<1>8. CASE /\ n = CallMessage(n.by) /\ pc[n.by] = "sent"
           /\ m = RefillMessage(m.by, payment[m.by]) /\ pc[m.by] = "splitSent"
  <2>1. r = gasCoin[n.by] /\ r \in payment[m.by]
    BY <1>8 DEF CallMessage, RefillMessage
  <2> QED
    BY <1>2, <1>6, <1>8, <2>1
<1> QED
  BY <1>2, <1>4, <1>5, <1>7, <1>8 DEF AwaitsAnswer

\* No two transactions on their way pay with the same version of a coin, when
\* no answer is lost.
THEOREM NobodyEquivocates ==
  ASSUME "reply" \notin Faults
  PROVE  Spec => []NoEquivocation
<1>1. ~May("reply")
  BY DEF May
<1>2. Init => AnsweredInv
  BY GasInvBegins DEF AnsweredInv, Answerable, Init
<1>3. AnsweredInv /\ [Next]_vars => AnsweredInv'
  BY <1>1, AnsweredKept
<1> QED
  BY <1>2, <1>3, OneMessagePerCoin, PTL DEF Spec

-----------------------------------------------------------------------------
(* Coins the signer still owns.                                             *)

Kept(c) ==
  \/ \E r \in Pooled : r.id = c
  \/ \E t \in Holders : gasCoin[t].id = c
  \/ c \in DOMAIN sourceCoins
  \/ \E t \in Txs : \E r \in payment[t] : r.id = c

\* Some source coin has never been fetched.
NullSource == \E c \in DOMAIN sourceCoins : sourceCoins[c] = 0

EveryCoinKept ==
  \A c \in Owned : Kept(c) \/ (sourceIsNull /\ \A t \in Txs : pc[t] # "splitSent")
SourcesAreCurrent ==
  \A c \in DOMAIN sourceCoins : sourceCoins[c] # 0 => IsCurrent(Ref(c, sourceCoins[c]))
PaymentsAreCurrent ==
  \A t \in Txs : pc[t] # "fetch" => \A r \in payment[t] : IsCurrent(r)

\* Only the first refill fetches: it empties the map when the answer is there,
\* and nobody else has a coin to put into it meanwhile.
FirstFetches ==
  /\ \A t \in Txs : pc[t] = "fetch" => payment[t] = SourceRefs /\ NullSource
  /\ NullSource => /\ Pooled = {} /\ Holders = {}
                   /\ \A t \in Txs : pc[t] \notin {"flush", "split", "splitSent"}
NobodyFails == \A t \in Holders : pc[t] \in UsesCoin

Careful ==
  EveryCoinKept /\ SourcesAreCurrent /\ PaymentsAreCurrent /\ FirstFetches /\ NobodyFails
CarefulInv == AnsweredInv /\ Careful

\* The parts of the invariant, for the lemmas on the moves.
LEMMA CarefulSays ==
  ASSUME CarefulInv
  PROVE  /\ GasInv /\ Scheduled /\ Typed /\ Stages /\ KnownIds /\ PlacesApart /\ UsedAreCurrent
         /\ EveryCoinKept /\ SourcesAreCurrent /\ PaymentsAreCurrent /\ FirstFetches
         /\ NobodyFails
         /\ payment \in [Txs -> SUBSET Reference] /\ gasCoin \in [Txs -> Reference]
         /\ version \in [Coins -> Nat] /\ coinPool \in Seq(Reference) /\ Apart(coinPool)
BY DEF CarefulInv, AnsweredInv, Careful, GasInv, GasKept, Typed, PlacesApart

\* No other call enters or leaves a stage that matters to the coins.
LEMMA OthersRest ==
  ASSUME NEW t \in Txs, OthersQueue(t)
  PROVE  \A u \in Txs \ {t} : \A x \in Refilling \union UsesCoin : pc'[u] = x <=> pc[u] = x
BY DEF OthersQueue, Refilling, UsesCoin

\* Calls may move on while the coins stay where they are.
LEMMA CarefulAtRest ==
  ASSUME CarefulInv, UNCHANGED <<coinVars, version, payment>>,
         \A u \in Txs : /\ pc'[u] = "fetch" <=> pc[u] = "fetch"
                        /\ pc'[u] = "splitSent" => pc[u] = "splitSent"
                        /\ pc'[u] = "split" => pc[u] \in {"flush", "split"}
                        /\ pc'[u] = "flush" => pc[u] = "flush"
                        /\ u \in Holders /\ pc[u] \in UsesCoin => pc'[u] \in UsesCoin
  PROVE  Careful'
<1>1. /\ coinPool' = coinPool /\ sourceCoins' = sourceCoins /\ sourceIsNull' = sourceIsNull
      /\ gasCoin' = gasCoin /\ version' = version /\ payment' = payment
      /\ Pooled' = Pooled /\ Holders' = Holders /\ Coins' = Coins /\ Owned' = Owned
      /\ SourceRefs' = SourceRefs /\ NullSource' = NullSource
  BY DEF coinVars, poolVars, Pooled, Holders, Coins, Owned, SourceRefs, NullSource
<1>2. /\ EveryCoinKept /\ SourcesAreCurrent /\ PaymentsAreCurrent /\ FirstFetches
      /\ NobodyFails
  BY CarefulSays
<1>3. EveryCoinKept'
  BY <1>1, <1>2 DEF EveryCoinKept, Kept
<1>4. SourcesAreCurrent' /\ PaymentsAreCurrent'
  BY <1>1, <1>2 DEF SourcesAreCurrent, PaymentsAreCurrent, IsCurrent
<1>5. FirstFetches'
  BY <1>1, <1>2 DEF FirstFetches
<1>6. NobodyFails'
  BY <1>1, <1>2 DEF NobodyFails, Holders
<1> QED
  BY <1>3, <1>4, <1>5, <1>6 DEF Careful

\* The faults that cost no coin.
Harmless == Faults \subseteq {"prepare", "price", "abort", "confirm"}

\* Whoever gives up has not collected anything.
LEMMA KeepsCareful ==
  ASSUME Harmless, CarefulInv, NEW t \in Txs, OthersQueue(t), Keeps(t)
  PROVE  Careful'
<1>1. /\ Typed /\ Stages /\ KnownIds /\ PaymentsAreCurrent /\ NobodyFails
      /\ payment \in [Txs -> SUBSET Reference]
  BY CarefulSays
<1>2. \A r \in Reference : IsCurrent(r) => r \in Current /\ r.id \in Owned
  <2> SUFFICES ASSUME NEW r \in Reference, IsCurrent(r) PROVE r \in Current /\ r.id \in Owned
    OBVIOUS
  <2>1. r = Ref(r.id, version[r.id]) /\ r.id \in Owned
    BY DEF Reference, Ref, IsCurrent, Owned
  <2> QED
    BY <2>1 DEF Current
<1>3. pc'[t] = "caught" => /\ payment[t] = {}
                           /\ pc[t] \in {"price", "gas", "split", "splitWait"}
  <2> SUFFICES ASSUME pc'[t] = "caught"
               PROVE  payment[t] = {} /\ pc[t] \in {"price", "gas", "split", "splitWait"}
    OBVIOUS
  <2>1. GivesUp(t)
    BY DEF Keeps
  <2>2. CASE pc[t] \in DOMAIN BuildAwaits /\ May(BuildAwaits[pc[t]])
    <3>1. pc[t] \in {"price", "splitWait"}
      BY <2>2 DEF May, BuildAwaits, Harmless
    <3> QED
      BY <1>1, <3>1 DEF Stages, Refilling
  <2>3. CASE pc[t] = "split" /\ RefillGas(t) = {}
    <3>1. \A r \in payment[t] : r \in Reference /\ IsCurrent(r)
      BY <1>1, <2>3 DEF PaymentsAreCurrent
    <3>2. payment[t] = {}
      BY <1>2, <2>3, <3>1 DEF RefillGas
    <3> QED
      BY <2>3, <3>2
  <2>4. CASE pc[t] \in {"gas", "splitWait"} /\ coinPool = <<>>
    BY <1>1, <2>4 DEF Stages, Refilling
  <2>5. CASE (pc[t] = "sign" /\ May("sign")) \/ (pc[t] = "sent" /\ May("reply"))
    BY <2>5 DEF May, Harmless
  <2>6. CASE pc[t] = "splitSent" /\ ~Valid(payment[t])
    <3>1. \A r \in payment[t] : r \in Reference /\ IsCurrent(r)
      BY <1>1, <2>6 DEF PaymentsAreCurrent
    <3> QED
      BY <1>2, <2>6, <3>1 DEF Valid
  <2> QED
    BY <2>1, <2>2, <2>3, <2>4, <2>5, <2>6 DEF GivesUp
<1>4. payment' = payment
  BY <1>1, <1>3 DEF Keeps, EndRefill, refillVars
<1>5. UNCHANGED <<coinVars, version, payment>>
  BY <1>4 DEF Keeps
<1>6. /\ pc'[t] = "fetch" <=> pc[t] = "fetch"
      /\ pc'[t] = "splitSent" => pc[t] = "splitSent"
      /\ pc'[t] = "split" => pc[t] \in {"flush", "split"}
      /\ pc'[t] = "flush" => pc[t] = "flush"
      /\ t \in Holders /\ pc[t] \in UsesCoin => pc'[t] \in UsesCoin
  BY <1>3 DEF Keeps, Refilling, UsesCoin
<1>7. \A u \in Txs \ {t} : /\ pc'[u] = "fetch" <=> pc[u] = "fetch"
                           /\ pc'[u] = "splitSent" <=> pc[u] = "splitSent"
                           /\ pc'[u] = "split" <=> pc[u] = "split"
                           /\ pc'[u] = "flush" <=> pc[u] = "flush"
                           /\ pc[u] \in UsesCoin => pc'[u] \in UsesCoin
  BY OthersRest DEF Refilling, UsesCoin
<1>8. \A u \in Txs : /\ pc'[u] = "fetch" <=> pc[u] = "fetch"
                     /\ pc'[u] = "splitSent" => pc[u] = "splitSent"
                     /\ pc'[u] = "split" => pc[u] \in {"flush", "split"}
                     /\ pc'[u] = "flush" => pc[u] = "flush"
                     /\ u \in Holders /\ pc[u] \in UsesCoin => pc'[u] \in UsesCoin
  BY <1>6, <1>7
<1> QED
  BY <1>5, <1>8, CarefulAtRest

\* A call that sends its transaction, or that has no coin to give back.
LEMMA SendsCareful ==
  ASSUME CarefulInv, NEW t \in Txs, OthersQueue(t), Sends(t) \/ Gives(t)
  PROVE  Careful'
<1>1. NobodyFails /\ gasCoin \in [Txs -> Reference]
  BY CarefulSays
<1>2. UNCHANGED <<coinVars, version, payment>>
  <2>1. CASE Sends(t)
    BY <2>1 DEF Sends, refillVars
  <2>2. CASE Gives(t)
    <3>1. gasCoin[t] = NoCoin
      BY <1>1, <2>2 DEF Gives, NobodyFails, Holders, UsesCoin
    <3> QED
      BY <1>1, <2>2, <3>1 DEF Gives, GiveBack, coinVars, ledgerVars, chainVars, refillVars
  <2> QED
    BY <2>1, <2>2
<1>3. \/ pc[t] = "sign" /\ pc'[t] = "sent"
      \/ pc[t] = "caught" /\ pc'[t] \in {"purge", "unwind"}
  BY DEF Sends, Gives
<1>4. \A u \in Txs \ {t} : /\ pc'[u] = "fetch" <=> pc[u] = "fetch"
                           /\ pc'[u] = "splitSent" <=> pc[u] = "splitSent"
                           /\ pc'[u] = "split" <=> pc[u] = "split"
                           /\ pc'[u] = "flush" <=> pc[u] = "flush"
                           /\ pc[u] \in UsesCoin => pc'[u] \in UsesCoin
  BY OthersRest DEF Refilling, UsesCoin
<1>5. \A u \in Txs : /\ pc'[u] = "fetch" <=> pc[u] = "fetch"
                     /\ pc'[u] = "splitSent" => pc[u] = "splitSent"
                     /\ pc'[u] = "split" => pc[u] \in {"flush", "split"}
                     /\ pc'[u] = "flush" => pc[u] = "flush"
                     /\ u \in Holders /\ pc[u] \in UsesCoin => pc'[u] \in UsesCoin
  BY <1>3, <1>4 DEF UsesCoin
<1> QED
  BY <1>2, <1>5, CarefulAtRest

\* The refill transaction is signed with what was collected, or with every coin.
LEMMA SplitsCareful ==
  ASSUME CarefulInv, NEW t \in Txs, OthersQueue(t), Splits(t)
  PROVE  Careful'
<1>1. /\ Scheduled /\ Stages /\ EveryCoinKept /\ SourcesAreCurrent /\ PaymentsAreCurrent
      /\ FirstFetches /\ NobodyFails /\ payment \in [Txs -> SUBSET Reference]
      /\ version \in [Coins -> Nat]
  BY CarefulSays
<1>2. /\ coinPool' = coinPool /\ sourceCoins' = sourceCoins /\ sourceIsNull' = sourceIsNull
      /\ gasCoin' = gasCoin /\ version' = version
      /\ payment'[t] = RefillGas(t) /\ pc[t] = "split" /\ pc'[t] = "splitSent"
      /\ Pooled' = Pooled /\ Holders' = Holders /\ Coins' = Coins /\ Owned' = Owned
      /\ SourceRefs' = SourceRefs /\ NullSource' = NullSource
  BY <1>1 DEF Splits, coinVars, poolVars, Pooled, Holders, Coins, Owned, SourceRefs, NullSource
<1>3. \A u \in Txs \ {t} : payment'[u] = payment[u] /\ payment[u] = {}
  BY <1>1, <1>2, OthersPayNothing DEF Splits, Building
<1>4. \A r \in payment'[t] : IsCurrent(r)
  <2>1. CASE sourceIsNull
    BY <1>1, <1>2, <2>1 DEF RefillGas, Current, Owned, IsCurrent, Ref
  <2>2. CASE ~sourceIsNull
    BY <1>1, <1>2, <2>2 DEF RefillGas, PaymentsAreCurrent
  <2> QED
    BY <2>1, <2>2
<1>5. \A c \in Owned : \/ \E r \in Pooled : r.id = c
                       \/ \E u \in Holders : gasCoin[u].id = c
                       \/ c \in DOMAIN sourceCoins
                       \/ \E r \in payment'[t] : r.id = c
  <2>1. CASE sourceIsNull
    <3>1. \A c \in Owned : Ref(c, version[c]) \in Current /\ Ref(c, version[c]).id = c
      BY DEF Current, Ref
    <3> QED
      BY <1>2, <2>1, <3>1 DEF RefillGas
  <2>2. CASE ~sourceIsNull
    BY <1>1, <1>2, <1>3, <2>2 DEF RefillGas, EveryCoinKept, Kept
  <2> QED
    BY <2>1, <2>2
<1>6. EveryCoinKept'
  BY <1>2, <1>5 DEF EveryCoinKept, Kept
<1>7. SourcesAreCurrent' /\ PaymentsAreCurrent'
  BY <1>1, <1>2, <1>3, <1>4 DEF SourcesAreCurrent, PaymentsAreCurrent, IsCurrent
<1>8. FirstFetches'
  <2>1. ~NullSource
    BY <1>1, <1>2 DEF FirstFetches
  <2>2. \A u \in Txs : pc'[u] # "fetch"
    BY <1>1, <1>2, <2>1, OthersRest DEF FirstFetches, Refilling
  <2> QED
    BY <1>2, <2>1, <2>2 DEF FirstFetches
<1>9. NobodyFails'
  BY <1>1, <1>2, OthersStay DEF NobodyFails, Holders, UsesCoin
<1> QED
  BY <1>6, <1>7, <1>8, <1>9 DEF Careful

\* A coin changes from the pool to a call.
LEMMA ShiftsCareful ==
  ASSUME CarefulInv, NEW t \in Txs, OthersQueue(t), Shifts(t)
  PROVE  Careful'
<1>1. /\ Stages /\ EveryCoinKept /\ SourcesAreCurrent /\ PaymentsAreCurrent
      /\ FirstFetches /\ NobodyFails /\ gasCoin \in [Txs -> Reference]
      /\ coinPool \in Seq(Reference) /\ Apart(coinPool) /\ coinPool # <<>>
      /\ UsedAreCurrent
  BY CarefulSays DEF Shifts, ShiftCoin
<1>2. /\ sourceCoins' = sourceCoins /\ sourceIsNull' = sourceIsNull
      /\ coinPool' = Tail(coinPool) /\ version' = version /\ payment' = payment
      /\ gasCoin' = [gasCoin EXCEPT ![t] = Head(coinPool)]
      /\ pc[t] \in {"gas", "splitWait"} /\ pc'[t] = "resolve"
      /\ Coins' = Coins /\ Owned' = Owned
      /\ SourceRefs' = SourceRefs /\ NullSource' = NullSource
  BY DEF Shifts, ShiftCoin, ledgerVars, refillVars, chainVars, Coins, Owned, SourceRefs, NullSource
<1>3. Head(coinPool) \in Pooled /\ Pooled' = Pooled \ {Head(coinPool)}
  BY <1>1, <1>2, PoolShifted DEF Pooled
<1>4. /\ Head(coinPool) # NoCoin
      /\ gasCoin'[t] = Head(coinPool) /\ t \in Holders'
      /\ \A u \in Holders : u # t
      /\ \A u \in Holders : u \in Holders' /\ gasCoin'[u] = gasCoin[u]
      /\ Holders' \subseteq Holders \union {t}
  <2>1. Head(coinPool).version # 0
    BY <1>1, <1>3 DEF UsedAreCurrent, IsCurrent
  <2>2. Head(coinPool) # NoCoin
    BY <2>1 DEF NoCoin, Ref
  <2>3. \A u \in Holders : u # t
    BY <1>1, <1>2 DEF Holders, Stages, UsesCoin
  <2>4. gasCoin'[t] = Head(coinPool) /\ \A u \in Txs \ {t} : gasCoin'[u] = gasCoin[u]
    BY <1>1, <1>2
  <2> QED
    BY <2>2, <2>3, <2>4 DEF Holders
<1>5. \A u \in Txs : pc'[u] = "splitSent" <=> pc[u] = "splitSent"
  BY <1>2, OthersRest DEF Refilling
<1>6. EveryCoinKept'
  <2>1. \A c : Kept(c) => \/ \E r \in Pooled' : r.id = c
                          \/ \E u \in Holders' : gasCoin'[u].id = c
                          \/ c \in DOMAIN sourceCoins'
                          \/ \E u \in Txs : \E r \in payment'[u] : r.id = c
    BY <1>2, <1>3, <1>4 DEF Kept
  <2> QED
    BY <1>1, <1>2, <1>5, <2>1 DEF EveryCoinKept, Kept
<1>7. SourcesAreCurrent' /\ PaymentsAreCurrent'
  <2>1. \A u \in Txs : pc'[u] # "fetch" => pc[u] # "fetch"
    BY <1>2, OthersRest DEF Refilling
  <2> QED
    BY <1>1, <1>2, <2>1 DEF SourcesAreCurrent, PaymentsAreCurrent, IsCurrent
<1>8. FirstFetches'
  <2>1. ~NullSource
    BY <1>1, <1>3 DEF FirstFetches
  <2>2. \A u \in Txs : pc'[u] # "fetch"
    BY <1>1, <1>2, <2>1, OthersRest DEF FirstFetches, Refilling
  <2> QED
    BY <1>2, <2>1, <2>2 DEF FirstFetches
<1>9. NobodyFails'
  BY <1>1, <1>2, <1>4, OthersStay DEF NobodyFails, Holders, UsesCoin
<1> QED
  BY <1>6, <1>7, <1>8, <1>9 DEF Careful

\* The first refill reads the source coins.
LEMMA ReadsCareful ==
  ASSUME CarefulInv, NEW t \in Txs, OthersQueue(t), Reads(t)
  PROVE  Careful'
<1>1. /\ Scheduled /\ Stages /\ EveryCoinKept /\ SourcesAreCurrent /\ PaymentsAreCurrent
      /\ FirstFetches /\ NobodyFails /\ payment \in [Txs -> SUBSET Reference]
      /\ Typed
  BY CarefulSays
<1>2. /\ coinPool' = coinPool /\ sourceCoins' = sourceCoins /\ sourceIsNull' = sourceIsNull
      /\ gasCoin' = gasCoin /\ version' = version
      /\ payment'[t] = SourceRefs /\ pc[t] = "gas" /\ pc'[t] = "fetch"
      /\ Pooled' = Pooled /\ Holders' = Holders /\ Coins' = Coins /\ Owned' = Owned
      /\ SourceRefs' = SourceRefs /\ NullSource' = NullSource
  BY <1>1 DEF Reads, coinVars, poolVars, chainVars, Pooled, Holders, Coins, Owned, SourceRefs,
              NullSource
<1>3. \A u \in Txs \ {t} : payment'[u] = payment[u] /\ payment[u] = {}
  BY <1>1, <1>2, OthersPayNothing DEF Reads, Building
<1>4. payment[t] = {}
  BY <1>1, <1>2 DEF Stages, Refilling
<1>5. \A u \in Txs \ {t} : /\ pc[u] \notin Refilling /\ pc'[u] \notin Refilling
  <2>1. \A u \in Txs \ {t} : pc[u] \notin Building
    BY <1>1, <1>2, OneBuilder DEF Building
  <2> QED
    BY <2>1, OthersStay DEF Building, Refilling
<1>6. EveryCoinKept'
  <2>1. \A c \in Owned : Kept(c) \/ sourceIsNull
    BY <1>1 DEF EveryCoinKept
  <2>2. \A c : Kept(c) => \/ \E r \in Pooled : r.id = c
                          \/ \E u \in Holders : gasCoin[u].id = c
                          \/ c \in DOMAIN sourceCoins
    BY <1>3, <1>4 DEF Kept
  <2>3. \A u \in Txs : pc'[u] # "splitSent"
    BY <1>2, <1>5 DEF Refilling
  <2> QED
    BY <1>2, <2>1, <2>2, <2>3 DEF EveryCoinKept, Kept
<1>7. SourcesAreCurrent' /\ PaymentsAreCurrent'
  BY <1>1, <1>2, <1>3 DEF SourcesAreCurrent, PaymentsAreCurrent, IsCurrent
<1>8. FirstFetches'
  <2>1. NullSource
    BY DEF Reads, NullSource, SourceRefs, Ref
  <2> QED
    BY <1>1, <1>2, <1>5, <2>1 DEF FirstFetches, Refilling
<1>9. NobodyFails'
  BY <1>1, <1>2, OthersStay DEF NobodyFails, Holders, UsesCoin
<1> QED
  BY <1>6, <1>7, <1>8, <1>9 DEF Careful

\* What getObjects answers is complete and current, unless the node is behind.
LEMMA FetchedAreCurrent ==
  ASSUME ~May("stale"), Typed, KnownIds, SourcesAreCurrent, NEW t \in Txs, NEW refs,
         pc[t] = "fetch", payment[t] = SourceRefs, Collected(t, refs)
  PROVE  /\ \A r \in refs : IsCurrent(r)
         /\ \A c \in DOMAIN sourceCoins \intersect Owned : \E r \in refs : r.id = c
<1>1. /\ refs \in SUBSET UNION { Answers(r) : r \in payment[t] }
      /\ \A r \in payment[t] : Answers(r) # {} => Cardinality(refs \intersect Answers(r)) = 1
  BY DEF Collected
<1>2. \A r \in payment[t] :
        /\ r.id \in DOMAIN sourceCoins /\ r.id \in Coins
        /\ r = Ref(r.id, sourceCoins[r.id]) /\ version[r.id] \in Nat
  BY DEF SourceRefs, Ref, KnownIds, Typed
<1>3. \A r \in payment[t] : \/ r.version # 0 /\ Answers(r) = {r} /\ IsCurrent(r)
                            \/ /\ r.version = 0 /\ version[r.id] = 0 /\ Answers(r) = {}
                            \/ /\ r.version = 0 /\ version[r.id] # 0
                               /\ Answers(r) = {Ref(r.id, version[r.id])}
  <2> SUFFICES ASSUME NEW r \in payment[t]
               PROVE  \/ r.version # 0 /\ Answers(r) = {r} /\ IsCurrent(r)
                      \/ /\ r.version = 0 /\ version[r.id] = 0 /\ Answers(r) = {}
                      \/ /\ r.version = 0 /\ version[r.id] # 0
                         /\ Answers(r) = {Ref(r.id, version[r.id])}
    OBVIOUS
  <2>1. CASE r.version # 0
    <3>1. r.version = sourceCoins[r.id]
      BY <1>2 DEF Ref
    <3> QED
      BY <1>2, <2>1, <3>1 DEF Answers, SourcesAreCurrent
  <2>2. CASE r.version = 0
    <3>1. Answers(r) = { Ref(r.id, v) : v \in {version[r.id]} \ {0} }
      BY <2>2 DEF Answers
    <3> QED
      BY <2>2, <3>1
  <2> QED
    BY <2>1, <2>2
<1>4. ASSUME NEW r \in refs PROVE IsCurrent(r)
  <2>1. PICK q \in payment[t] : r \in Answers(q)
    BY <1>1
  <2>2. CASE q.version # 0 /\ r = q
    BY <1>3, <2>1, <2>2
  <2>3. CASE r = Ref(q.id, version[q.id]) /\ version[q.id] # 0
    BY <1>2, <2>1, <2>3 DEF IsCurrent, Ref
  <2> QED
    BY <1>3, <2>1, <2>2, <2>3
<1>5. ASSUME NEW c \in DOMAIN sourceCoins \intersect Owned PROVE \E r \in refs : r.id = c
  <2> DEFINE q == Ref(c, sourceCoins[c])
  <2>1. q \in payment[t] /\ q.id = c /\ version[c] # 0
    BY DEF SourceRefs, Ref, Owned
  <2> HIDE DEF q
  <2>2. PICK a : Answers(q) = {a} /\ a.id = c
    <3>1. Ref(q.id, version[q.id]).id = c
      BY <2>1 DEF Ref
    <3> QED
      BY <1>3, <2>1, <3>1
  <2>3. Cardinality(refs \intersect Answers(q)) = 1
    BY <1>1, <2>1, <2>2
  <2>4. refs \intersect Answers(q) # {}
    BY <2>3, FS_EmptySet
  <2> QED
    BY <2>2, <2>4
<1> QED
  BY <1>4, <1>5

\* A refill takes all source coins, each in its current version.
LEMMA TakesCareful ==
  ASSUME ~May("stale"), CarefulInv, NEW t \in Txs, OthersQueue(t), Takes(t)
  PROVE  Careful'
<1>1. /\ Scheduled /\ Stages /\ EveryCoinKept /\ SourcesAreCurrent /\ PaymentsAreCurrent
      /\ FirstFetches /\ NobodyFails /\ payment \in [Txs -> SUBSET Reference]
      /\ Typed /\ KnownIds
  BY CarefulSays
<1>2. /\ coinPool' = coinPool /\ sourceCoins' = NoSources /\ sourceIsNull' = sourceIsNull
      /\ gasCoin' = gasCoin /\ version' = version
      /\ pc[t] \in {"gas", "fetch"} /\ pc'[t] \in {"flush", "split"}
      /\ Pooled' = Pooled /\ Holders' = Holders /\ Coins' = Coins /\ Owned' = Owned
      /\ DOMAIN sourceCoins' = {} /\ ~NullSource'
  BY DEF Takes, EmptySources, NoSources, chainVars, Pooled, Holders, Coins, Owned, NullSource
<1>3. PICK refs \in SUBSET Reference :
        payment' = [payment EXCEPT ![t] = refs] /\ Collected(t, refs)
  BY DEF Takes
<1>4. /\ \A u \in Txs \ {t} : payment'[u] = payment[u] /\ payment[u] = {}
      /\ payment'[t] = refs
  BY <1>1, <1>2, <1>3, OthersPayNothing DEF Building
<1>5. /\ \A r \in refs : IsCurrent(r)
      /\ \A c \in DOMAIN sourceCoins \intersect Owned : \E r \in refs : r.id = c
      /\ \A r \in payment[t] : r.id \in DOMAIN sourceCoins
  <2>1. CASE pc[t] = "gas"
    <3>1. refs = SourceRefs /\ \A r \in refs : r.version # 0
      BY <1>3, <2>1 DEF Collected
    <3>2. \A r \in refs : IsCurrent(r)
      BY <1>1, <3>1 DEF SourcesAreCurrent, SourceRefs, Ref
    <3>3. \A c \in DOMAIN sourceCoins : \E r \in refs : r.id = c
      <4>1. \A c \in DOMAIN sourceCoins :
              Ref(c, sourceCoins[c]) \in refs /\ Ref(c, sourceCoins[c]).id = c
        BY <3>1 DEF SourceRefs, Ref
      <4> QED
        BY <4>1
    <3>4. payment[t] = {}
      BY <1>1, <2>1 DEF Stages, Refilling
    <3> QED
      BY <3>2, <3>3, <3>4
  <2>2. CASE pc[t] = "fetch"
    <3>1. payment[t] = SourceRefs
      BY <1>1, <2>2 DEF FirstFetches
    <3>2. \A r \in payment[t] : r.id \in DOMAIN sourceCoins
      BY <3>1 DEF SourceRefs, Ref
    <3> QED
      BY <1>1, <1>3, <2>2, <3>1, <3>2, FetchedAreCurrent
  <2> QED
    BY <1>2, <2>1, <2>2
<1>6. \A u \in Txs : pc'[u] \notin {"splitSent", "fetch"}
  <2>1. \A u \in Txs \ {t} : pc[u] \notin Refilling
    BY <1>1, <1>2, OneBuilder DEF Building, Refilling
  <2> QED
    BY <1>2, <2>1, OthersStay DEF Refilling
<1>7. EveryCoinKept'
  <2> SUFFICES ASSUME NEW c \in Owned, ~sourceIsNull PROVE Kept(c)'
    BY <1>2, <1>6 DEF EveryCoinKept
  <2>1. Kept(c)
    BY <1>1 DEF EveryCoinKept
  <2>2. CASE (\E r \in Pooled : r.id = c) \/ (\E u \in Holders : gasCoin[u].id = c)
    BY <1>2, <2>2 DEF Kept
  <2>3. CASE c \in DOMAIN sourceCoins \/ \E u \in Txs : \E r \in payment[u] : r.id = c
    <3>1. c \in DOMAIN sourceCoins
      BY <1>4, <1>5, <2>3
    <3>2. \E r \in payment'[t] : r.id = c
      BY <1>4, <1>5, <3>1
    <3> QED
      BY <3>2 DEF Kept
  <2> QED
    BY <2>1, <2>2, <2>3 DEF Kept
<1>8. SourcesAreCurrent' /\ PaymentsAreCurrent'
  BY <1>2, <1>4, <1>5 DEF SourcesAreCurrent, PaymentsAreCurrent, IsCurrent
<1>9. FirstFetches'
  BY <1>2, <1>6 DEF FirstFetches
<1>10. NobodyFails'
  BY <1>1, <1>2, OthersStay DEF NobodyFails, Holders, UsesCoin
<1> QED
  BY <1>7, <1>8, <1>9, <1>10 DEF Careful

\* The refill lands: what paid for it is merged into one source coin.
LEMMA RefillsCareful ==
  ASSUME CarefulInv, NEW t \in Txs, OthersQueue(t), Refills(t)
  PROVE  Careful'
<1>1. /\ Scheduled /\ Stages /\ EveryCoinKept /\ SourcesAreCurrent /\ PaymentsAreCurrent
      /\ FirstFetches /\ NobodyFails /\ payment \in [Txs -> SUBSET Reference]
      /\ Typed /\ KnownIds /\ PlacesApart /\ coinPool \in Seq(Reference) /\ Apart(coinPool)
      /\ version \in [Coins -> Nat] /\ batch \in [Txs -> Nat]
  BY CarefulSays DEF Typed
<1>2. /\ gasCoin' = gasCoin /\ Holders' = Holders
      /\ pc[t] = "splitSent" /\ pc'[t] = "splitWait"
      /\ EndRefill(t)
  BY DEF Refills, RefillAnswered, Holders
<1>3. PICK g \in payment[t], n \in {0, batch[t]} :
        /\ version' = AfterRefill(payment[t], g.id, n)
        /\ coinPool' = coinPool \o NewRefs(n)
        /\ PutSource(g.id, g.version + 1)
  BY DEF Refills, RefillAnswered, ReturnRefillGas
<1>4. /\ n \in Nat /\ g \in Reference /\ g.version \in Nat /\ g.version + 1 \in Nat
      /\ g.id \in Coins
      /\ payment[t] \in SUBSET Reference /\ IsCurrent(g)
  <2>1. payment[t] \in SUBSET Reference /\ batch[t] \in Nat
    BY <1>1
  <2>2. g \in Reference /\ n \in Nat
    BY <2>1
  <2>3. IsCurrent(g) /\ g.id \in Coins
    BY <1>1, <1>2 DEF PaymentsAreCurrent, IsCurrent
  <2> QED
    BY <2>1, <2>2, <2>3 DEF Reference
<1>5. /\ Coins' = 1..(Cardinality(Coins) + n) /\ Coins \subseteq Coins'
      /\ \A c \in Coins : (\A r \in payment[t] : r.id # c) => version'[c] = version[c]
      /\ \A c \in Coins' \ Coins : version'[c] = 1
  <2>1. \E r \in payment[t] : r.id = g.id
    OBVIOUS
  <2> QED
    BY <1>1, <1>3, <1>4, <2>1, Landed
<1>6. /\ version'[g.id] = g.version + 1
      /\ \A c \in Coins : (\E r \in payment[t] : r.id = c) /\ c # g.id => version'[c] = 0
  <2>1. Cardinality(Coins) \in Nat /\ Coins = 1..Cardinality(Coins)
    BY <1>1, FS_CardinalityType DEF Typed
  <2>2. \A c \in Coins : c \in 1..(Cardinality(Coins) + n)
    BY <1>5
  <2>3. version' = [c \in 1..(Cardinality(Coins) + n) |->
                      IF c \notin Coins THEN 1
                      ELSE IF c = g.id THEN version[c] + 1
                      ELSE IF \E r \in payment[t] : r.id = c THEN 0
                      ELSE version[c]]
    BY <1>3 DEF AfterRefill
  <2> QED
    BY <1>4, <2>2, <2>3 DEF IsCurrent
<1>7. PICK new \in SUBSET Reference :
        /\ Pooled' = Pooled \union new
        /\ \A c \in Coins' \ Coins : \E r \in new : r.id = c
  <2>1. /\ NewRefs(n) \in Seq(Reference)
        /\ Len(NewRefs(n)) = n
        /\ Apart(NewRefs(n))
        /\ \A r \in ToSet(NewRefs(n)) :
             /\ r \in Reference /\ r.version = 1
             /\ r.id \in 1..(Cardinality(Coins) + n) /\ r.id \notin Coins
    BY <1>1, <1>4, PoolCreated
  <2>2. \A q \in ToSet(coinPool), r \in ToSet(NewRefs(n)) : q.id # r.id
    BY <1>1, <2>1 DEF KnownIds, Pooled
  <2>3. /\ coinPool \o NewRefs(n) \in Seq(Reference)
        /\ Apart(coinPool \o NewRefs(n))
        /\ ToSet(coinPool \o NewRefs(n)) = ToSet(coinPool) \union ToSet(NewRefs(n))
    BY <1>1, <2>1, <2>2, PoolJoined
  <2>4. \A c \in Coins' \ Coins : \E r \in ToSet(NewRefs(n)) : r.id = c
    <3> DEFINE k == Cardinality(Coins)
    <3>1. k \in Nat /\ Coins = 1..k
      BY <1>1, FS_CardinalityType DEF Typed
    <3>2. NewRefs(n) = [i \in 1..n |-> Ref(k + i, 1)]
      BY DEF NewRefs
    <3>3. Coins' = 1..(k + n)
      BY <1>5
    <3> HIDE DEF k
    <3> SUFFICES ASSUME NEW c \in Coins' \ Coins
                 PROVE  \E r \in ToSet(NewRefs(n)) : r.id = c
      OBVIOUS
    <3>4. c - k \in 1..n /\ k + (c - k) = c
      BY <1>4, <3>1, <3>3
    <3>5. NewRefs(n)[c - k] = Ref(c, 1) /\ c - k \in DOMAIN NewRefs(n)
      BY <3>2, <3>4
    <3>6. NewRefs(n)[c - k] \in ToSet(NewRefs(n))
      BY <3>5 DEF ToSet
    <3> QED
      BY <3>5, <3>6 DEF Ref
  <2>5. ToSet(NewRefs(n)) \in SUBSET Reference
    BY <2>1
  <2> QED
    BY <1>3, <2>3, <2>4, <2>5 DEF Pooled
<1>8. /\ DOMAIN sourceCoins' = DOMAIN sourceCoins \union {g.id}
      /\ sourceCoins'[g.id] = g.version + 1
      /\ \A c \in DOMAIN sourceCoins : c # g.id => sourceCoins'[c] = sourceCoins[c]
  BY <1>3 DEF PutSource, With
<1>9. \A u \in Txs : payment'[u] = {}
  <2>1. \A u \in Txs \ {t} : payment[u] = {} /\ batch[u] = 0
    BY <1>1, <1>2, OthersPayNothing DEF Building
  <2> QED
    BY <1>1, <1>2, <2>1 DEF EndRefill
<1>10. ~NullSource /\ \A c \in DOMAIN sourceCoins : sourceCoins[c] # 0
  BY <1>1, <1>2 DEF FirstFetches, NullSource
<1>11. EveryCoinKept'
  <2> SUFFICES ASSUME NEW c \in Owned' PROVE Kept(c)'
    BY DEF EveryCoinKept
  <2>1. c \in Coins' /\ version'[c] # 0
    BY DEF Owned, Coins
  <2>2. CASE c \notin Coins
    BY <1>7, <2>1, <2>2 DEF Kept
  <2>3. CASE c = g.id
    BY <1>8, <2>3 DEF Kept
  <2>4. CASE c \in Coins /\ c # g.id
    <3>1. \A r \in payment[t] : r.id # c
      BY <1>6, <2>1, <2>4
    <3>2. c \in Owned
      BY <1>5, <2>1, <2>4, <3>1 DEF Owned
    <3>3. Kept(c)
      BY <1>1, <1>2, <3>2 DEF EveryCoinKept
    <3>4. \A u \in Txs : \A r \in payment[u] : r.id # c
      BY <1>1, <1>2, <3>1, OthersPayNothing DEF Building
    <3> QED
      BY <1>2, <1>7, <1>8, <3>3, <3>4 DEF Kept
  <2> QED
    BY <2>2, <2>3, <2>4
<1>12. SourcesAreCurrent'
  <2> SUFFICES ASSUME NEW c \in DOMAIN sourceCoins', sourceCoins'[c] # 0
               PROVE  c \in Coins' /\ version'[c] = sourceCoins'[c]
    BY DEF SourcesAreCurrent, IsCurrent, Ref
  <2>1. CASE c = g.id
    BY <1>4, <1>5, <1>6, <1>8, <2>1
  <2>2. CASE c \in DOMAIN sourceCoins /\ c # g.id
    <3>1. \A r \in payment[t] : r.id # c
      BY <1>1, <1>2, <2>2 DEF PlacesApart
    <3>2. IsCurrent(Ref(c, sourceCoins[c])) /\ sourceCoins'[c] = sourceCoins[c]
      BY <1>1, <1>8, <1>10, <2>2 DEF SourcesAreCurrent
    <3>3. c \in Coins /\ version'[c] = version[c]
      BY <1>5, <3>1, <3>2 DEF IsCurrent, Ref
    <3> QED
      BY <1>5, <3>2, <3>3 DEF IsCurrent, Ref
  <2> QED
    BY <1>8, <2>1, <2>2
<1>13. PaymentsAreCurrent'
  BY <1>9 DEF PaymentsAreCurrent
<1>14. FirstFetches'
  <2>1. ~NullSource'
    <3>1. \A c \in DOMAIN sourceCoins' : sourceCoins'[c] # 0
      BY <1>4, <1>8, <1>10
    <3> QED
      BY <3>1 DEF NullSource
  <2>2. \A u \in Txs : pc'[u] # "fetch"
    BY <1>1, <1>2, <1>10, OthersRest DEF FirstFetches, Refilling
  <2> QED
    BY <2>1, <2>2 DEF FirstFetches
<1>15. NobodyFails'
  BY <1>1, <1>2, OthersStay DEF NobodyFails, Holders, UsesCoin
<1> QED
  BY <1>11, <1>12, <1>13, <1>14, <1>15 DEF Careful

\* A call returns its coin to the pool or to the sources, or has given it away.
LEMMA ReturnsCareful ==
  ASSUME CarefulInv, NEW t \in Txs, OthersQueue(t), Returns(t)
  PROVE  Careful'
<1> DEFINE c == gasCoin[t].id
           v == gasCoin[t].version + 1
<1>1. /\ Stages /\ EveryCoinKept /\ SourcesAreCurrent /\ PaymentsAreCurrent
      /\ FirstFetches /\ NobodyFails /\ gasCoin \in [Txs -> Reference]
      /\ Typed /\ KnownIds /\ PlacesApart /\ UsedAreCurrent
      /\ coinPool \in Seq(Reference) /\ Apart(coinPool)
      /\ version \in [Coins -> Nat]
  BY CarefulSays
<1>2. /\ payment' = payment
      /\ gasCoin' = [gasCoin EXCEPT ![t] = NoCoin]
      /\ pc[t] = "sent" /\ pc'[t] = "freeing"
  BY DEF Returns, Answered, refillVars
<1>3. /\ t \in Holders /\ c \in Coins /\ gasCoin[t] \in Reference
      /\ version[c] + 1 = v /\ v \in Nat \ {0}
      /\ GasRef(t) = Ref(c, v) /\ Ref(c, v) \in Reference
      /\ Ref(c, v).id = c /\ Ref(c, v).version = v
  <2>1. t \in Holders /\ t \in At(UsesCoin) /\ gasCoin[t] \in Reference
    BY <1>1, <1>2 DEF Stages, Holders, UsesCoin, At
  <2>2. c \in Coins /\ version[c] = gasCoin[t].version
    BY <1>1, <2>1 DEF UsedAreCurrent, IsCurrent
  <2> QED
    BY <2>1, <2>2 DEF GasRef, Ref, Reference
<1>4. /\ Holders' = Holders \ {t}
      /\ \A u \in Holders \ {t} : u \in Holders' /\ gasCoin'[u] = gasCoin[u]
  BY <1>1, <1>2 DEF Holders, NoCoin, Ref, Reference
<1>5. /\ c \notin DOMAIN sourceCoins /\ ~NullSource /\ ~sourceIsNull
      /\ \A u \in Txs : pc[u] # "fetch"
      /\ \A u \in Txs : \A r \in payment[u] : r.id # c
  BY <1>1, <1>3 DEF PlacesApart, FirstFetches
<1>6. \/ /\ coinPool' = Append(coinPool, GasRef(t))
         /\ UNCHANGED <<sourceCoins, sourceIsNull>>
         /\ version' = [version EXCEPT ![c] = version[c] + 1]
      \/ /\ PutSource(c, GasRef(t).version)
         /\ UNCHANGED coinPool
         /\ version' = [version EXCEPT ![c] = version[c] + 1]
      \/ /\ UNCHANGED poolVars
         /\ version' = [version EXCEPT ![c] = 0]
  BY DEF Returns, Answered
<1> HIDE DEF c, v
<1>7. /\ Coins' = Coins /\ \A d \in Coins \ {c} : version'[d] = version[d]
      /\ Pooled \subseteq Pooled'
      /\ DOMAIN sourceCoins \subseteq DOMAIN sourceCoins'
      /\ \A d \in DOMAIN sourceCoins : sourceCoins'[d] = sourceCoins[d]
      /\ DOMAIN sourceCoins' \subseteq DOMAIN sourceCoins \union {c}
      /\ c \in DOMAIN sourceCoins' => sourceCoins'[c] = v /\ version'[c] = v
      /\ \/ \E r \in Pooled' : r.id = c
         \/ c \in DOMAIN sourceCoins'
         \/ version'[c] = 0
  <2>1. Coins' = Coins /\ \A d \in Coins \ {c} : version'[d] = version[d]
    BY <1>1, <1>3, <1>6 DEF Coins
  <2>2. CASE /\ coinPool' = Append(coinPool, GasRef(t))
             /\ UNCHANGED <<sourceCoins, sourceIsNull>>
    <3>1. \A q \in ToSet(coinPool) : q.id # Ref(c, v).id
      BY <1>1, <1>3 DEF PlacesApart, Pooled, c
    <3>2. /\ Append(coinPool, Ref(c, v)) \in Seq(Reference)
          /\ Apart(Append(coinPool, Ref(c, v)))
          /\ ToSet(Append(coinPool, Ref(c, v))) = ToSet(coinPool) \union {Ref(c, v)}
      BY <1>1, <1>3, <3>1, PoolAppended
    <3>3. Pooled' = Pooled \union {Ref(c, v)}
      BY <1>3, <2>2, <3>2 DEF Pooled
    <3> QED
      BY <1>3, <1>5, <2>1, <2>2, <3>3
  <2>3. CASE /\ PutSource(c, GasRef(t).version)
             /\ UNCHANGED coinPool
             /\ version' = [version EXCEPT ![c] = version[c] + 1]
    <3>1. sourceCoins' = With(sourceCoins, c, v) /\ version'[c] = v
      BY <1>1, <1>3, <2>3 DEF PutSource
    <3>2. /\ DOMAIN sourceCoins' = DOMAIN sourceCoins \union {c}
          /\ sourceCoins'[c] = v
          /\ \A d \in DOMAIN sourceCoins : d # c => sourceCoins'[d] = sourceCoins[d]
      BY <3>1 DEF With
    <3>3. Pooled' = Pooled
      BY <2>3 DEF Pooled
    <3> QED
      BY <1>5, <2>1, <3>1, <3>2, <3>3
  <2>4. CASE UNCHANGED poolVars /\ version' = [version EXCEPT ![c] = 0]
    BY <1>1, <1>3, <1>5, <2>1, <2>4 DEF Pooled, poolVars
  <2> QED
    BY <1>6, <2>2, <2>3, <2>4
<1>8. EveryCoinKept'
  <2> SUFFICES ASSUME NEW d \in Owned' PROVE Kept(d)'
    BY DEF EveryCoinKept
  <2>1. d \in Coins /\ version'[d] # 0
    BY <1>7 DEF Owned, Coins
  <2>2. CASE d = c
    BY <1>7, <2>1, <2>2 DEF Kept
  <2>3. CASE d # c
    <3>1. d \in Owned
      BY <1>7, <2>1, <2>3 DEF Owned
    <3>2. Kept(d)
      BY <1>1, <1>5, <3>1 DEF EveryCoinKept
    <3>3. \A u \in Holders : gasCoin[u].id = d => u \in Holders \ {t}
      BY <2>3 DEF c
    <3> QED
      BY <1>2, <1>4, <1>7, <3>2, <3>3 DEF Kept
  <2> QED
    BY <2>2, <2>3
<1>9. SourcesAreCurrent'
  <2> SUFFICES ASSUME NEW d \in DOMAIN sourceCoins', sourceCoins'[d] # 0
               PROVE  d \in Coins' /\ version'[d] = sourceCoins'[d]
    BY DEF SourcesAreCurrent, IsCurrent, Ref
  <2>1. CASE d = c
    BY <1>3, <1>7, <2>1
  <2>2. CASE d # c
    <3>1. d \in DOMAIN sourceCoins /\ sourceCoins'[d] = sourceCoins[d]
      BY <1>7, <2>2
    <3>2. IsCurrent(Ref(d, sourceCoins[d]))
      BY <1>1, <3>1 DEF SourcesAreCurrent
    <3> QED
      BY <1>7, <2>2, <3>1, <3>2 DEF IsCurrent, Ref
  <2> QED
    BY <2>1, <2>2
<1>10. PaymentsAreCurrent'
  BY <1>1, <1>2, <1>5, <1>7 DEF PaymentsAreCurrent, IsCurrent
<1>11. FirstFetches'
  <2>1. ~NullSource'
    <3>1. \A d \in DOMAIN sourceCoins' : sourceCoins'[d] # 0
      BY <1>3, <1>5, <1>7 DEF NullSource
    <3> QED
      BY <3>1 DEF NullSource
  <2>2. \A u \in Txs : pc'[u] # "fetch"
    BY <1>2, <1>5, OthersRest DEF Refilling
  <2> QED
    BY <2>1, <2>2 DEF FirstFetches
<1>12. NobodyFails'
  <2>1. \A u \in Holders' : u \in Holders /\ u \in Txs \ {t}
    BY <1>4 DEF Holders
  <2> QED
    BY <1>1, <2>1, OthersStay DEF NobodyFails
<1> QED
  BY <1>8, <1>9, <1>10, <1>11, <1>12 DEF Careful

\* At the start all coins are source coins, or the source coins are null.
LEMMA CarefulBegins == Init => CarefulInv
<1> SUFFICES ASSUME Init PROVE CarefulInv
  OBVIOUS
<1>1. /\ coinPool = <<>> /\ gasCoin = [t \in Txs |-> NoCoin]
      /\ payment = [t \in Txs |-> {}] /\ inFlight = {} /\ pc = [t \in Txs |-> "new"]
      /\ sourceCoins = IF SourceGiven THEN [c \in 1..OwnedCoins |-> 0] ELSE NoSources
      /\ sourceIsNull = ~SourceGiven
      /\ version = [c \in 1..OwnedCoins |-> 1]
  BY DEF Init
<1>2. Pooled = {} /\ Holders = {} /\ Owned \subseteq 1..OwnedCoins
  BY <1>1 DEF Pooled, ToSet, Holders, Owned, Coins
<1>3. /\ \A c \in DOMAIN sourceCoins : sourceCoins[c] = 0
      /\ ~sourceIsNull => DOMAIN sourceCoins = 1..OwnedCoins
  BY <1>1, SwitchesAssumption DEF NoSources
<1>4. EveryCoinKept
  BY <1>1, <1>2, <1>3, SwitchesAssumption DEF EveryCoinKept, Kept
<1>5. SourcesAreCurrent /\ PaymentsAreCurrent /\ FirstFetches /\ NobodyFails
  BY <1>1, <1>2, <1>3 DEF SourcesAreCurrent, PaymentsAreCurrent, FirstFetches, NobodyFails
<1>6. AnsweredInv
  BY <1>1, GasInvBegins DEF AnsweredInv, Answerable
<1> QED
  BY <1>4, <1>5, <1>6 DEF CarefulInv, Careful

\* The invariant is inductive under the faults that cost no coin.
LEMMA CarefulKept ==
  ASSUME Harmless
  PROVE  CarefulInv /\ [Next]_vars => CarefulInv'
<1> SUFFICES ASSUME CarefulInv, [Next]_vars PROVE CarefulInv'
  OBVIOUS
<1>1. ~May("reply") /\ ~May("stale")
  BY DEF May, Harmless
<1>2. AnsweredInv /\ GasInv
  BY DEF CarefulInv, AnsweredInv
<1>3. AnsweredInv'
  BY <1>1, <1>2, AnsweredKept
<1>4. CASE \E t \in Txs : Acts(t)
  <2>1. PICK t \in Txs : Acts(t)
    BY <1>4
  <2>2. GasTurn(t) /\ OthersQueue(t)
    BY <1>2, <2>1, TurnsKeepGas
  <2>3. Careful'
    BY <1>1, <2>2, KeepsCareful, SendsCareful, ShiftsCareful, ReadsCareful, TakesCareful,
       SplitsCareful, RefillsCareful, ReturnsCareful DEF GasTurn
  <2> QED
    BY <1>3, <2>3 DEF CarefulInv
<1>5. CASE \/ UNCHANGED vars
           \/ \E x \in Outside : OutsideUpdate(x)
           \/ \E c \in CallSites : SettleUpdate(c)
  <2>1. UNCHANGED <<coinVars, version, payment>> /\ pc' = pc
    BY <1>5 DEF vars, OutsideUpdate, SettleUpdate, coinVars, ledgerVars, refillVars, chainVars
  <2>2. Careful'
    BY <2>1, CarefulAtRest
  <2> QED
    BY <1>3, <2>2 DEF CarefulInv
<1>6. \A m \in inFlight : ~LandLate(m)
  BY <1>2 DEF AnsweredInv, Answerable, AwaitsAnswer, LandLate, CallMessage, RefillMessage
<1> QED
  BY <1>4, <1>5, <1>6, WhoSteps DEF Elsewhere

\* A coin that is kept is in one of the four places the property names.
LEMMA CarefulForgetsNothing == CarefulInv => NoCoinForgotten
<1> SUFFICES ASSUME CarefulInv, NEW c \in Owned, ~sourceIsNull
             PROVE  InPool(c) \union HeldBy(c) \union InSource(c) \union PaidBy(c) # {}
  BY DEF NoCoinForgotten
<1>1. Kept(c) /\ coinPool \in Seq(Reference)
  BY CarefulSays DEF EveryCoinKept
<1>2. CASE \E r \in Pooled : r.id = c
  <2>1. PICK i \in DOMAIN coinPool : coinPool[i].id = c
    BY <1>2 DEF Pooled, ToSet
  <2> QED
    BY <2>1 DEF InPool
<1>3. CASE \E t \in Holders : gasCoin[t].id = c
  BY <1>3 DEF Holders, HeldBy
<1>4. CASE c \in DOMAIN sourceCoins
  BY <1>4 DEF InSource
<1>5. CASE \E t \in Txs : \E r \in payment[t] : r.id = c
  BY <1>5 DEF PaidBy
<1> QED
  BY <1>1, <1>2, <1>3, <1>4, <1>5 DEF Kept

\* No coin the signer still owns is forgotten, as long as only the preparation, the
\* gas price, the refill on chain and its confirmation fail.
THEOREM NoCoinIsForgotten ==
  ASSUME Faults \subseteq {"prepare", "price", "abort", "confirm"}
  PROVE  Spec => []NoCoinForgotten
<1>1. CarefulInv /\ [Next]_vars => CarefulInv'
  BY CarefulKept DEF Harmless
<1> QED
  BY CarefulBegins, <1>1, CarefulForgetsNothing, PTL DEF Spec
=============================================================================
