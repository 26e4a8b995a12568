-------------------------- MODULE StorageCommittee --------------------------
(***************************************************************************)
(* Which committee calls of FileStorageClient ask, while epochs change     *)
(* (packages/file-storage/src/client.ts): the staking state in the object  *)
(* loader, the active committee in the ClientCache over it                 *)
(* (packages/myso/src/client/cache.ts), the promise in #readCommittee, and *)
(* what reset() and the retry after it do to the three.                    *)
(* The objects of the staking state are read in one step, when the answer  *)
(* arrives, and once by #forceGetReadCommittee, which asks for it twice.   *)
(***************************************************************************)
EXTENDS Integers, Sequences, FiniteSets

CONSTANTS StorageCalls,   \* calls of readBlob and of functions that write
          MaxEpochs,      \* bound: epochs of the chain
          MaxCommittees,  \* bound: loads of the active committee
          MaxResets,      \* bound: resets by the application
          NoValue

VARIABLES epoch, moving,   \* the chain; epoch_state is EpochChangeSync while it is moving
          memo,            \* the staking state in #objectLoader, NoValue if not loaded
          poolLoads,       \* loads of the active committee, in order
          entry,           \* of getActiveCommittee in the cache: its load, 0 for none
          readCommittee,   \* the promise in #readCommittee and how far it is
          storageCalls,
          resets, lastReset  \* resets by the application, and the epoch of the last of any

chain == <<epoch, moving>>
cache == <<poolLoads, entry>>
resetVars == <<resets, lastReset>>
committees == <<chain, memo, cache, readCommittee, storageCalls, resetVars>>

\* A committee: whose epoch it is of, and the epoch the chain was in when the staking state
\* was read.  `late' marks the value of a load that a reset overtook.
Committee(e, state) == [of |-> e, seen |-> state.epoch, late |-> FALSE]
\* An error instead of a committee, of now; is it a RetryableFileStorageClientError?
Error(retryable) == [of |-> IF retryable THEN -1 ELSE 0, seen |-> epoch, late |-> FALSE]

NoRead == [stage |-> "none", state |-> NoValue, load |-> 0, value |-> NoValue]

CommitteeInit ==
    /\ epoch = 1 /\ moving = FALSE /\ memo = NoValue
    /\ poolLoads = <<>> /\ entry = 0 /\ readCommittee = NoRead
    /\ storageCalls = [c \in StorageCalls |-> [does |-> NoValue, stage |-> "new", tries |-> 0,
                                              load |-> 0, since |-> 1, asks |-> NoValue]]
    /\ resets = 0 /\ lastReset = 1

\* The chain: shards move to the next committee, and have moved.
EpochChanges ==
    /\ ~ moving /\ epoch < MaxEpochs
    /\ epoch' = epoch + 1 /\ moving' = TRUE
    /\ UNCHANGED <<memo, cache, readCommittee, storageCalls, resetVars>>
ShardsMoved ==
    /\ moving /\ moving' = FALSE
    /\ UNCHANGED <<epoch, memo, cache, readCommittee, storageCalls, resetVars>>

\* stakingState(): what is memoised, or the chain's
Staking == IF memo # NoValue THEN memo ELSE [epoch |-> epoch, moving |-> moving]

-----------------------------------------------------------------------------
\* ClientCache.read of the active committee: the load to wait for.
LoadOf == IF entry # 0 THEN entry ELSE Len(poolLoads) + 1
NewLoad == [stage |-> "staking", value |-> NoValue, late |-> FALSE]
Read == /\ LoadOf <= MaxCommittees
        /\ entry' = LoadOf
        /\ poolLoads' = IF entry # 0 THEN poolLoads ELSE Append(poolLoads, NewLoad)

\* #getActiveCommittee and #getCommittee: the staking state, then the pools of its nodes
StakingRead(i) ==
    /\ poolLoads[i].stage = "staking"
    /\ memo' = Staking
    /\ poolLoads' = [poolLoads EXCEPT ![i].stage = "pools",
                                      ![i].value = Committee(Staking.epoch, Staking)]
    /\ UNCHANGED <<chain, entry, readCommittee, storageCalls, resetVars>>

\* Its then(): the value is written back, whatever the entry is by now.
CommitteeLoaded(i) ==
    /\ poolLoads[i].stage = "pools"
    /\ poolLoads' = [poolLoads EXCEPT ![i].stage = "done", ![i].value.late = poolLoads[i].late]
    /\ entry' = i
    /\ UNCHANGED <<chain, memo, readCommittee, storageCalls, resetVars>>

\* Its catch(): the entry is deleted, whatever it is by now.
CommitteeFails(i) ==
    /\ poolLoads[i].stage \in {"staking", "pools"}
    /\ poolLoads' = [poolLoads EXCEPT ![i].stage = "failed", ![i].value = Error(FALSE)]
    /\ entry' = 0
    /\ UNCHANGED <<chain, memo, readCommittee, storageCalls, resetVars>>

Settled(i) == poolLoads[i].stage \in {"done", "failed"}

-----------------------------------------------------------------------------
\* #forceGetReadCommittee: the staking state; while shards are moving also the status of the
\* blob, which the active committee is asked for; then one of the two committees.
Resolving(stage) == readCommittee.stage = stage
ResolveTo(value) ==
    readCommittee' = [readCommittee EXCEPT !.stage = "settled", !.value = value]

ReadStaking ==
    /\ Resolving("staking")
    /\ memo' = Staking /\ Read
    /\ readCommittee' = [readCommittee EXCEPT !.state = Staking, !.load = LoadOf,
                           !.stage = IF Staking.moving THEN "status" ELSE "active"]
    /\ UNCHANGED <<chain, storageCalls, resetVars>>

StakingFails ==
    /\ Resolving("staking") /\ memo = NoValue
    /\ ResolveTo(Error(FALSE))
    /\ UNCHANGED <<chain, memo, cache, storageCalls, resetVars>>

\* getVerifiedBlobStatus has ended: the blob was certified before this epoch, or in it; there
\* is no verified status; or the blob is not certified, or only in an epoch to come.
BlobStatusArrives ==
    /\ Resolving("status") /\ Settled(readCommittee.load)
    /\ \/ /\ poolLoads[readCommittee.load].stage = "done"
          /\ ResolveTo(Committee(readCommittee.state.epoch - 1, readCommittee.state))
          /\ UNCHANGED cache
       \/ /\ poolLoads[readCommittee.load].stage = "done" /\ Read
          /\ readCommittee' = [readCommittee EXCEPT !.stage = "active", !.load = LoadOf]
       \/ ResolveTo(Error(FALSE)) /\ UNCHANGED cache
       \/ /\ poolLoads[readCommittee.load].stage = "done" /\ ResolveTo(Error(TRUE))
          /\ UNCHANGED cache
    /\ UNCHANGED <<chain, memo, storageCalls, resetVars>>

ActiveArrives ==
    /\ Resolving("active") /\ Settled(readCommittee.load)
    /\ ResolveTo(poolLoads[readCommittee.load].value)
    /\ UNCHANGED <<chain, memo, cache, storageCalls, resetVars>>

-----------------------------------------------------------------------------
\* reset(): the object loader and the cache are cleared, #readCommittee is not.
\* Mutant: the object loader keeps the staking state.
ClearCache == entry' = 0 /\ memo' = memo
ClearBoth == entry' = 0 /\ memo' = NoValue

ResetClient ==
    /\ ClearBoth
    /\ lastReset' = epoch
    /\ poolLoads' = [i \in DOMAIN poolLoads |->
                        [poolLoads[i] EXCEPT !.late = @ \/ ~ Settled(i)]]

AppResets ==
    /\ resets < MaxResets /\ resets' = resets + 1
    /\ ResetClient
    /\ UNCHANGED <<chain, readCommittee, storageCalls>>

\* A try of readBlob: #getReadCommittee keeps the promise it finds.  The system state a try
\* loads first, of other objects, is left out.
TryRead(c, tries) ==
    /\ readCommittee' = IF Resolving("none") THEN [readCommittee EXCEPT !.stage = "staking"]
                                             ELSE readCommittee
    /\ storageCalls' = [storageCalls EXCEPT ![c] =
                          [does |-> "read", stage |-> "waiting", tries |-> tries, load |-> 0,
                           since |-> lastReset', asks |-> NoValue]]

BeginRead(c) ==
    /\ storageCalls[c].stage = "new"
    /\ lastReset' = lastReset /\ TryRead(c, 1)
    /\ UNCHANGED <<chain, memo, cache, resets>>

\* A write asks for the active committee.
BeginWrite(c) ==
    /\ storageCalls[c].stage = "new"
    /\ Read
    /\ storageCalls' = [storageCalls EXCEPT ![c] =
                          [does |-> "write", stage |-> "waiting", tries |-> 1, load |-> LoadOf,
                           since |-> lastReset, asks |-> NoValue]]
    /\ UNCHANGED <<chain, memo, readCommittee, resetVars>>

\* The committee is there and its nodes are asked, or there is an error instead of it.
AskNodes(c) ==
    LET read == storageCalls[c].does = "read"
        load == storageCalls[c].load
    IN /\ storageCalls[c].stage = "waiting"
       /\ IF read THEN Resolving("settled") ELSE Settled(load)
       /\ storageCalls' = [storageCalls EXCEPT
              ![c].stage = "asking",
              ![c].asks = IF read THEN readCommittee.value ELSE poolLoads[load].value]
       /\ UNCHANGED <<chain, memo, cache, readCommittee, resetVars>>

\* #retryOnPossibleEpochChange: after a retryable error, reset and read again, once.
Retry(c) ==
    /\ storageCalls[c].stage = "asking"
    /\ storageCalls[c].does = "read" /\ storageCalls[c].tries = 1
    /\ storageCalls[c].asks.of # 0
    /\ ResetClient /\ TryRead(c, 2)
    /\ UNCHANGED <<chain, resets>>

\* The nodes, or the error, decide the call.
EndCall(c) ==
    /\ storageCalls[c].stage = "asking"
    /\ storageCalls' = [storageCalls EXCEPT ![c].stage = "ended"]
    /\ UNCHANGED <<chain, memo, cache, readCommittee, resetVars>>

CommitteeNext ==
    \/ EpochChanges \/ ShardsMoved \/ AppResets
    \/ ReadStaking \/ StakingFails \/ BlobStatusArrives \/ ActiveArrives
    \/ \E i \in DOMAIN poolLoads : StakingRead(i) \/ CommitteeLoaded(i) \/ CommitteeFails(i)
    \/ \E c \in StorageCalls : \/ BeginRead(c) \/ BeginWrite(c)
                               \/ AskNodes(c) \/ Retry(c) \/ EndCall(c)

CommitteeSpec == CommitteeInit /\ [][CommitteeNext]_committees

-----------------------------------------------------------------------------
\* The committee a call asks comes from a staking state that was read after the last reset
\* before the call, or its retry, began; or from a load that a reset overtook, which writes
\* its value back into the cache.
Fresh(c) == LET asked == storageCalls[c].asks
            IN asked # NoValue => asked.seen >= storageCalls[c].since \/ asked.late

\* Writes are not sent to a committee from before a reset, save that a load which a reset
\* overtook puts its old value back (cache.ts:33) and later calls may ask it.
WritesAreFresh == \A c \in StorageCalls : storageCalls[c].does = "write" => Fresh(c)

\* Nor are reads, according to the documentation of reset() and of retryable errors.
ReadsAreFresh == \A c \in StorageCalls : storageCalls[c].does = "read" => Fresh(c)
=============================================================================
