------------------------------ MODULE KeyFetch ------------------------------
(***************************************************************************)
(* MyDataClient.fetchKeys (packages/mydata/src/client.ts): a call asks the *)
(* key servers it has no keys of, all at once, and stops the others as     *)
(* soon as the servers that delivered weigh as much as the threshold, or   *)
(* those that are left can no longer reach it.  Calls run concurrently and *)
(* share the cache of keys.  Which error a failed call reports is left out.*)
(***************************************************************************)
EXTENDS Integers, FiniteSets, FiniteSetsExt

CONSTANTS Servers, Weight,   \* key servers and their weights
          Fetches,           \* calls of fetchKeys
          Wanted, Threshold  \* the ids and the threshold of each call

ASSUME FetchAssumption == /\ IsFiniteSet(Servers) /\ Weight \in [Servers -> Nat]
                          /\ Threshold \in [Fetches -> Int]

VARIABLES keyServers,      \* #keyServers: null, loading or loaded
          cachedKeys,      \* #cachedKeys: pairs of an id and a server
          phase,           \* the await each call is at
          completedWeight,
          remainingWeight, \* remainingKeyServersWeight
          fetch,           \* what became of the request to each server
          aborted          \* the controller of each call

keyfetch == <<keyServers, cachedKeys, phase, completedWeight, remainingWeight, fetch, aborted>>

WeightOf(S) == MapThenSumSet(LAMBDA k : Weight[k], S)

\* Servers whose keys for all ids of a call are in the cache.
Complete(c, cache) == {s \in Servers : Wanted[c] \X {s} \subseteq cache}

FetchInit ==
    /\ keyServers = "null" /\ cachedKeys = {}
    /\ phase = [c \in Fetches |-> "new"]
    /\ completedWeight = [c \in Fetches |-> 0]
    /\ remainingWeight = [c \in Fetches |-> 0]
    /\ fetch = [c \in Fetches |-> [s \in Servers |-> "none"]]
    /\ aborted = [c \in Fetches |-> FALSE]

\* fetchKeys up to getKeyServers, whose promise is shared and kept once it is loaded
Begin(c) ==
    /\ phase[c] = "new"
    /\ phase' = [phase EXCEPT ![c] = "loading"]
    /\ keyServers' = IF keyServers = "null" THEN "loading" ELSE keyServers
    /\ UNCHANGED <<cachedKeys, completedWeight, remainingWeight, fetch, aborted>>

ServersLoaded ==
    /\ keyServers = "loading" /\ keyServers' = "loaded"
    /\ UNCHANGED <<cachedKeys, phase, completedWeight, remainingWeight, fetch, aborted>>

LoadFails ==
    /\ keyServers = "loading" /\ keyServers' = "null"
    /\ phase' = [c \in Fetches |-> IF phase[c] = "loading" THEN "failed" ELSE phase[c]]
    /\ UNCHANGED <<cachedKeys, completedWeight, remainingWeight, fetch, aborted>>

\* The cache is looked at, before the request is signed.
Count(c) ==
    /\ phase[c] = "loading" /\ keyServers = "loaded"
    /\ LET complete == Complete(c, cachedKeys)
       IN /\ completedWeight' = [completedWeight EXCEPT ![c] = WeightOf(complete)]
          /\ remainingWeight' = [remainingWeight EXCEPT ![c] = WeightOf(Servers \ complete)]
          /\ fetch' = [fetch EXCEPT ![c] =
                          [s \in Servers |-> IF s \in complete THEN "cached" ELSE "none"]]
          /\ phase' = [phase EXCEPT ![c] =
                          IF completedWeight'[c] >= Threshold[c] THEN "done" ELSE "signing"]
    /\ UNCHANGED <<keyServers, cachedKeys, aborted>>

Signed(c) ==
    /\ phase[c] = "signing"
    /\ phase' = [phase EXCEPT ![c] = "fetching"]
    /\ fetch' = [fetch EXCEPT ![c] = [s \in Servers |-> IF @[s] = "none" THEN "sent" ELSE @[s]]]
    /\ UNCHANGED <<keyServers, cachedKeys, completedWeight, remainingWeight, aborted>>

SignFails(c) ==
    /\ phase[c] = "signing"
    /\ phase' = [phase EXCEPT ![c] = "failed"]
    /\ UNCHANGED <<keyServers, cachedKeys, completedWeight, remainingWeight, fetch, aborted>>

-----------------------------------------------------------------------------
\* Mutant: the weight that is left is compared with the threshold alone.
HopelessAlone(c, completed, remaining) == remaining < Threshold[c]
Hopeless(c, completed, remaining) == remaining < Threshold[c] - completed

\* The end of one request: its catch and finally blocks.
Ended(c, s, outcome, completed) ==
    LET remaining == remainingWeight[c] - Weight[s]
    IN /\ fetch[c][s] = "sent"
       /\ fetch' = [fetch EXCEPT ![c][s] = outcome]
       /\ completedWeight' = [completedWeight EXCEPT ![c] = completed]
       /\ remainingWeight' = [remainingWeight EXCEPT ![c] = remaining]
       /\ aborted' = [aborted EXCEPT ![c] = @ \/ completed >= Threshold[c]
                                              \/ Hopeless(c, completed, remaining)]
       /\ UNCHANGED <<keyServers, phase>>

Delivered(c, s, cache) == s \in Complete(c, cache)

\* The server answers with keys, of which `valid' are for the ids of the call and pass
\* the check; keys another call put into the cache count as well.
Deliver(c, s) ==
    \E valid \in SUBSET Wanted[c] :
        /\ cachedKeys' = cachedKeys \cup (valid \X {s})
        /\ IF Delivered(c, s, cachedKeys') THEN Ended(c, s, "ok", completedWeight[c] + Weight[s])
                                           ELSE Ended(c, s, "bad", completedWeight[c])

Refused(c, s) == Ended(c, s, "bad", completedWeight[c]) /\ UNCHANGED cachedKeys

\* The signal of the call stops a request that is under way.
Stop(c, s) == aborted[c] /\ Ended(c, s, "stopped", completedWeight[c]) /\ UNCHANGED cachedKeys

\* Promise.allSettled
Finish(c) ==
    /\ phase[c] = "fetching" /\ \A s \in Servers : fetch[c][s] # "sent"
    /\ phase' = [phase EXCEPT ![c] =
                   IF completedWeight[c] < Threshold[c] THEN "failed" ELSE "done"]
    /\ UNCHANGED <<keyServers, cachedKeys, completedWeight, remainingWeight, fetch, aborted>>

Loading == ServersLoaded \/ LoadFails
FetchStep(c) == \/ Begin(c) \/ Count(c) \/ Signed(c) \/ SignFails(c) \/ Finish(c)
                \/ \E s \in Servers : Deliver(c, s) \/ Refused(c, s) \/ Stop(c, s)

FetchNext == Loading \/ \E c \in Fetches : FetchStep(c)

FetchSpec == FetchInit /\ [][FetchNext]_keyfetch

-----------------------------------------------------------------------------
\* A call that succeeds leaves keys for all its ids in the cache, from servers that
\* together weigh its threshold: the weights are counted once each, in any order.
SuccessMeansKeys(c) == phase[c] = "done" => WeightOf(Complete(c, cachedKeys)) >= Threshold[c]

\* A call stops its requests for want of weight, or fails after sending them, only if
\* the servers that did not fail it of themselves weigh less than its threshold: it is
\* never given up because of requests it stopped.
Asked(c) == \E s \in Servers : fetch[c][s] \in {"sent", "ok", "bad", "stopped"}
GiveUpIsJustified(c) ==
    (Asked(c) /\ (phase[c] = "failed" \/ aborted[c]) /\ completedWeight[c] < Threshold[c])
    => WeightOf({s \in Servers : fetch[c][s] # "bad"}) < Threshold[c]

\* However its answers are ordered, a call ends as the servers deserve.
VerdictIsJustified == \A c \in Fetches : SuccessMeansKeys(c) /\ GiveUpIsJustified(c)
=============================================================================
