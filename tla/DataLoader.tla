----------------------------- MODULE DataLoader -----------------------------
(***************************************************************************)
(* Batched and memoised lookups (packages/utils/src/dataloader.ts), used   *)
(* for the names of the move registry.  Loads of one turn share a batch;   *)
(* the memo cache keeps the promise of a key, a load that finds one waits  *)
(* for the dispatch of its batch and takes over that promise.              *)
(* Values are told apart by the number of clear() calls before they were   *)
(* fetched.                                                                *)
(***************************************************************************)
EXTENDS Integers, Sequences, FiniteSets, SequencesExt

CONSTANTS Keys,
          MaxBatchSize,  \* options.maxBatchSize
          MaxLoads,      \* bound: calls of load() and prime()
          MaxClears      \* bound: calls of clear()

VARIABLES loads,     \* calls of load, in order; each is a promise
          batches,   \* batches, in the order in which they were scheduled
          batch,     \* _batch: the current one, 0 for null
          cacheMap,  \* _cacheMap: the load whose promise a key has, 0 for none
          clears,    \* calls of clear() so far
          cleared    \* the last of them for each key

loader == <<loads, batches, batch, cacheMap, clears, cleared>>

Pending == -2
Rejected == -1

LoaderInit ==
    /\ loads = <<>> /\ batches = <<>> /\ batch = 0
    /\ cacheMap = [k \in Keys |-> 0]
    /\ clears = 0 /\ cleared = [k \in Keys |-> 0]

\* The promise a load has returned follows the one it found, once it is released.
Outcome(i) == IF ~ loads[i].released THEN Pending ELSE loads[loads[i].of].outcome

\* Mutant: hasDispatched is not looked at.
AcceptsLate(b) == b # 0 /\ batches[b].state # "done" /\ Len(batches[b].keys) < MaxBatchSize
Accepts(b) == b # 0 /\ batches[b].state = "open" /\ Len(batches[b].keys) < MaxBatchSize

\* load(): getCurrentBatch, then a hit or a place in the batch
Load(k) ==
    LET i == Len(loads) + 1
        hit == cacheMap[k] # 0
        new == IF Accepts(batch) THEN batches
               ELSE Append(batches, [keys |-> <<>>, state |-> "open", at |-> 0])
    IN /\ i <= MaxLoads
       /\ batch' = IF Accepts(batch) THEN batch ELSE Len(new)
       /\ batches' = IF hit THEN new ELSE [new EXCEPT ![batch'].keys = Append(@, i)]
       /\ cacheMap' = [cacheMap EXCEPT ![k] = IF hit THEN @ ELSE i]
       /\ loads' = Append(loads, [key |-> k, batch |-> batch', of |-> cacheMap'[k],
                                  released |-> ~ hit, since |-> cleared[k], outcome |-> Pending])
       /\ UNCHANGED <<clears, cleared>>

\* prime(): a value known now, unless the key has a promise
Prime(k) ==
    /\ Len(loads) < MaxLoads
    /\ cacheMap[k] = 0
    /\ cacheMap' = [cacheMap EXCEPT ![k] = Len(loads) + 1]
    /\ loads' = Append(loads, [key |-> k, batch |-> 0, of |-> Len(loads) + 1, released |-> TRUE,
                               since |-> cleared[k], outcome |-> clears])
    /\ UNCHANGED <<batches, batch, clears, cleared>>

\* clear() of one key, clearAll() of all of them
Clear(ks) ==
    /\ clears < MaxClears
    /\ clears' = clears + 1
    /\ cacheMap' = [k \in Keys |-> IF k \in ks THEN 0 ELSE cacheMap[k]]
    /\ cleared' = [k \in Keys |-> IF k \in ks THEN clears' ELSE cleared[k]]
    /\ UNCHANGED <<loads, batches, batch>>

-----------------------------------------------------------------------------
\* Mutant: only hits on keys of the same batch are resolved with it.
HitsOfKeys(b) == {i \in DOMAIN loads : loads[i].batch = b /\ loads[i].of \in ToSet(batches[b].keys)}
\* batch.cacheHits, and the promises of the batch, which need no release
Hits(b) == {i \in DOMAIN loads : loads[i].batch = b}

\* The callbacks of the batch are called with its results, the hits are resolved.
Settle(b, results) ==
    /\ batches' = [batches EXCEPT ![b].state = "done"]
    /\ loads' = [i \in DOMAIN loads |->
                   [loads[i] EXCEPT !.released = @ \/ i \in Hits(b),
                        !.outcome = IF i \in ToSet(batches[b].keys) THEN results[i] ELSE @]]

\* dispatchBatch, in the order of scheduling; a batch of hits only ends at once
Dispatch(b) ==
    /\ batches[b].state = "open" /\ \A a \in 1 .. (b - 1) : batches[a].state # "open"
    /\ IF batches[b].keys = <<>>
       THEN Settle(b, <<>>)
       ELSE /\ batches' = [batches EXCEPT ![b].state = "dispatched", ![b].at = clears]
            /\ UNCHANGED loads
    /\ UNCHANGED <<batch, cacheMap, clears, cleared>>

\* The load function answers, with values or with an error for some of the keys;
\* their rejected promises stay in the cache.
Answered(b) ==
    /\ batches[b].state = "dispatched"
    /\ \E errors \in SUBSET ToSet(batches[b].keys) :
           Settle(b, [i \in DOMAIN loads |-> IF i \in errors THEN Rejected ELSE batches[b].at])
    /\ UNCHANGED <<batch, cacheMap, clears, cleared>>

\* failedDispatch: the keys of the batch lose their promises, newer ones too.
FailedDispatch(b) ==
    /\ batches[b].state = "dispatched"
    /\ Settle(b, [i \in DOMAIN loads |-> Rejected])
    /\ LET keys == {loads[i].key : i \in ToSet(batches[b].keys)}
       IN cacheMap' = [k \in Keys |-> IF k \in keys THEN 0 ELSE cacheMap[k]]
    /\ UNCHANGED <<batch, clears, cleared>>

LoaderStep(b) == Dispatch(b) \/ Answered(b) \/ FailedDispatch(b)

LoaderNext ==
    \/ \E k \in Keys : Load(k) \/ Prime(k)
    \/ \E ks \in {{k} : k \in Keys} \cup {Keys} : Clear(ks)
    \/ \E b \in DOMAIN batches : LoaderStep(b)

\* Scheduled dispatches run and the load function settles.
LoaderFairness == \A b \in 1 .. MaxLoads : WF_loader(b \in DOMAIN batches /\ LoaderStep(b))

LoaderSpec == LoaderInit /\ [][LoaderNext]_loader /\ LoaderFairness

-----------------------------------------------------------------------------
\* A load never gets a value fetched before the last clear() of its key that came
\* before it, whatever is still on its way, fails or shares its batch.
FreshAfterClear ==
    \A i \in DOMAIN loads : Outcome(i) \in {Pending, Rejected} \/ Outcome(i) >= loads[i].since

\* In the end every promise that load() returned has settled, those of hits too.
EveryLoadSettles == <>[](\A i \in DOMAIN loads : Outcome(i) # Pending)
=============================================================================
