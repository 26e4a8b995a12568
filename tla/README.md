# Verification of the MySo TypeScript SDKs

The repository is a monorepo of TypeScript packages around one blockchain
client, `@socialproof/myso`. Most of it is stateless: clients map requests and
responses, builders rewrite one transaction at a time, bindings are generated.
The part that is hard to get right is small and concurrent: the executors,
which turn calls of `executeTransaction` into transactions that must not use
the same object or gas coin twice, and whose state is read and written around
awaits. This project models those in most detail. Around them
are clients and wallets whose state is small but shared by calls that overlap.

Everything here is translated from the code in `packages/`; paths below are
relative to it. `EX` stands for `packages/myso/src/transactions/executor`.

## 1. Inventory

JavaScript has one thread. A *turn* is the code between two awaits: it is
atomic, and whatever was read before an await may have changed after it. Every
model takes one turn as one action.

### Executors (modelled)

| component | state | operations | interacts with |
|---|---|---|---|
| `SerialQueue` (`EX/queue.ts:5-26`) | list of thunks, head running | `runTask` | both executors |
| `ParallelQueue` (`EX/queue.ts:28-66`) | list of waiting thunks, `activeTasks` | `runTask` | parallel executor |
| object locks (`EX/parallel.ts:130-169, 322-330`) | `#objectIdQueues`: id -> callbacks | arrival, release | `#executeQueue` |
| cache lock (`EX/parallel.ts:335-348`) | `#cacheLock`: a promise or null | `#updateCache` with or without a function | build task, refill, catch block, `resetCache` |
| `ParallelTransactionExecutor` (`EX/parallel.ts`) | the above, `#coinPool`, `#sourceCoins`, `#pendingTransactions`, `#lastDigest`, epoch information | `executeTransaction`, `resetCache`, `waitForLastTransaction`; inside: build, refill, execute, catch, finally | chain, full node, signer, object cache |
| `SerialTransactionExecutor` (`EX/serial.ts`) | `#queue`, cached gas coin | `executeTransaction`, `buildTransaction`, `applyEffects`, `resetCache`, `waitForLastTransaction` | caching executor |
| `CachingTransactionExecutor` (`EX/caching.ts`) | `ObjectCache`, `#lastDigest` | `executeTransaction`, `applyEffects`, `reset`, `waitForLastTransaction` | full node |
| `ObjectCache` (`transactions/ObjectCache.ts`) | owned and shared/immutable entries, custom entries | `getObjects`, `addObjects`, `deleteObjects`, `applyEffects`, clear | both executors |

What is hard: a call holds object ids while it waits for a place, for the
single build task, for the cache lock and for the chain, and any of them may
fail; the gas coin pool is refilled by a transaction of its own whose size was
computed several awaits earlier; answers get lost and their transactions are
executed later; the full node from which the cache is filled lags behind.

What makes it correct: calls that share an object never execute together and
are served in order; never more than `maxPoolSize` execute, nor are more coins
made; a coin is kept in one place, in its current version; nobody waits for
ever; no transaction refers to a version an earlier one replaced.

### Transactions, clients and wallets (modelled in part)

| component | state | operations | hard |
|---|---|---|---|
| transaction builder (`myso/src/transactions/Transaction.ts`) | commands, sections per fork, promises of functions added | `add` of commands and functions, `build` | functions run on forks and end in any order; the sort renumbers what they made; two builds may overlap (`:803`) |
| transaction data (`myso/src/transactions/TransactionData.ts`, `intents/CoinWithBalance.ts`) | commands that refer to each other by index | `replaceCommand`, `insertTransaction`, intent resolvers | every edit renumbers every reference |
| `WebsocketClient` (`myso/src/jsonRpc/rpc-websocket-client.ts`) | request counter, pending requests, connection promise, disconnect count, subscriptions | `makeRequest`, `subscribe`, `unsubscribe`, the events of the socket, timers, signals | timers and signals delete the entry of the newest request (`:116`, `:123`); a reconnect renews subscriptions while answers, timeouts and unsubscribing go on |
| `DataLoader` (`utils/src/dataloader.ts`) | memo cache, current batch | `load`, `prime`, `clear`, dispatch | hits wait for batches that fail; `clear` while a batch is under way |
| mydata key fetch (`mydata/src/client.ts`) | key servers, key cache, weights of a call | `fetchKeys` | answers in any order, early success and early abort (`:408`), calls that share the cache |
| mysocial-auth (`mysocial-auth/src/auth.ts`) | session, refresh promise | `signIn`, `getSession`, `refresh`, `signOut` | refresh tokens are good for one use; answers get lost |
| coin flows (`wallet-sdk/src/transaction-analyzer/rules/coin-flows.ts`) | remaining balance of tracked coins | one pass over the commands | must never underestimate what is spent |
| auto approvals (`wallet-sdk/src/auto-approvals/manager.ts`) | settings and budgets, pending digests | check, commit, revert, apply, `updateSettings`, `reset` | estimates of several pending transactions are booked, given back and replaced in any order |
| file-storage client (`file-storage/src/client.ts`) | counts of one call; staking state in the object loader, committee in `ClientCache` (`myso/src/client/cache.ts`), `#readCommittee` | `getBlobMetadata`, `getSlivers`, `getVerifiedBlobStatus`, `writeEncodedBlobToNodes`, `readBlob` with its retry, `reset` | requests to all nodes race, some nodes fail or lie, and the counts decide; committees are cached in three places while epochs change |
| wallet connection (`dapp-kit-next/packages/dapp-kit-core/src/core`) | connection, registered wallets, storage | connect, disconnect, switch account, autoconnect, sync to storage | every call asks the wallet and writes when it answers; wallets change and pages are reloaded meanwhile |

What makes them correct: a build keeps the order of the program and the meaning
of every argument; a number reaches the subscriber who asked for it, and no
subscriber is forgotten; a load is not older than the last `clear`; a threshold
fetch ends as the answers deserve; a refresh token is presented once and the
session kept is the one the server accepts; estimates cover spending and budgets
add up; the verdict of a fan-out follows from what correct nodes know, and a
committee is not older than the last reset; the wallet a reload restores is the
one the user chose.

### Not modelled

- **MVR lookups** (`myso/src/client/mvr.ts`): `DataLoader`s behind a
  `ClientCache`, both of which are modelled where they are used otherwise.
- **window-wallet-core**: one request and one answer over `postMessage`.
- **RPC clients** (JSON-RPC, gRPC, GraphQL), the largest part of the repository
  by lines: mappings of requests and responses without state, mostly generated.
- **Contract bindings** (orderbook, payment-kit, contra, zksend), codegen,
  documentation, templates: generated or sequential.
- **BCS, keypairs, multisig, zkLogin, the cryptography of mydata, signers**:
  conversions and cryptographic computation; a model would be a copy.
- **React packages and wallet adapters**: user interface and foreign software.

`PROJECT.json` lists each component with its reason, and the hazards with the
properties that watch them.

## 2. Modules

```
TaskService                     what a work queue promises
  ^ implemented by
SerialQueue   ParallelQueue     EX/queue.ts
ObjectLocks                     #objectIdQueues
CacheLock                       #cacheLock
  ^ steps of, each through INSTANCE
ParallelExecutor                EX/parallel.ts, with coins and chain
ObjectCache  <- SerialExecutor -> SerialQueue     EX/serial.ts, EX/caching.ts

TransactionBuilder   TransactionData              myso/src/transactions
WebsocketClient   DataLoader   KeyFetch   AuthSession
CoinFlows   AutoApprovals   WalletConnection
StorageQuorums   StorageCommittee                 file-storage

MCParallelExecutor   footprints and symmetry of ParallelExecutor
MCTransactionParts   queues, locks, builder and data, one at a time
MCServices           the nine modules of clients and wallets, one at a time

CollectionLemmas                sequences of distinct elements, sums and folds
  ^ cited by
ParallelPartsProofs             ParallelQueue, ObjectLocks and CacheLock
SerialQueueProofs               SerialQueue
ParallelExecutorProofs          the executor through the proofs of its four parts
  ^ extended by
ParallelGasProofs               its coins
SerialExecutorProofs            the serial executor, on the proofs of its queue
ServiceProofs                   AuthSession, DataLoader, WebsocketClient, KeyFetch,
                                StorageCommittee, StorageQuorums
TransactionProofs               TransactionData, AutoApprovals, CoinFlows,
                                WalletConnection
```

**TaskService** is the abstract specification: a set of running tasks of
bounded size, the others served in the order of arrival, each settling once.

**ParallelQueue**, **SerialQueue**. `queue` is the list, `running`/`started` the
tasks whose thunk was called and whose `finally()` has not run, `settled` the
rest. `RunAll(s)` is the calls of `runTask` of one turn, in order; a turn may
make several. `Finally(t)` is the `finally()` callback. The serial list keeps
its head while it runs and shifts it out afterwards; the parallel one shifts
before it calls.

**ObjectLocks**. `objectIdQueues` maps an id to the calls that wait for it; a
key with an empty list means "held, nobody waits". `Enqueue` takes every free id
and joins the lists of the others in the same turn; `Release` runs the `finally`
block: it passes each id to the first in its list or drops the key, and those
with nothing left to wait for become ready, in any order of ids. `ticket` is a
history variable, the order of arrival.

**CacheLock**. A pending promise is named after the call that made it. A call
reads the field once, awaits what it read, and assigns it whatever happened in
between; a fulfilled update clears the field, a rejected one leaves it.

**ParallelExecutor**. `pc` is the await each call is at, and the sub-modules'
variables are this module's own, so that `PartsSpec` (the object locks and both
queues) and `CacheLockSpec` say that the composition takes only their steps. Coins have ids and versions; `version` is the chain, `inFlight` the
transactions it has not decided. Balances are not numbers: whether a used coin
is big enough to go back to the pool (`minimumCoinBalance`) is a choice, and so
is which of several transactions the chain decides first. The fault points are
named in `FaultPoints`; a run says which reject. `BuildRejects` and
`SendRejects` are the rejections of the awaits inside and outside the build
task; `Finish` is the `finally` block they share with the successful path.

**ObjectCache**, **SerialExecutor**. The cache keeps owned and shared/immutable
entries apart and prefers the owned one, as `getObject` does. The chain is its
`history` of states and the full node has seen a prefix of it; a digest is an
index into it. A call reads the cache, asks the node for what is missing, is
signed, executed, and its effects go into the cache; the catch block clears the
cache and waits for the last digest. `OutsideTx` is another wallet of the same
signer, `ApplyOutside` the application handing over its effects; it is assumed
to do so before later effects have been applied, because the cache compares no
versions. `AppCall` is `resetCache()` or `waitForLastTransaction()` called by
the application.

**TransactionBuilder**. Commands are numbered as they are created and `made`
remembers for each what its argument was meant to be; `commands` is the data,
`section` the nested lists of the forks. Code runs on `Main` or on the fork of a
function, inside `add` (`stack`) or in a turn of its own. A build is three
turns: `Collect` is one round of `#waitForPendingTasks`, `Sort` is
`#sortCommandsAndInputs`, `Finish` the end of the plugins. The program adds
nothing while a build is past its wait, uses only results it was given since the
last build, and one function may throw at any point. `Overlap` allows a second
build while the first one waits.

**TransactionData**. A command has an identity and arguments; an argument has
the position it refers to and, as a history value, what it means. `DataNext` is
every edit of every command by new commands of bounded length. `ResolveCoin`
moves whole results only, as `CoinWithBalance.ts:258` does; what was meant by an
element of the intent that the replacement does not hold is `Lost`.

**WebsocketClient**. Connections are numbered; the server numbers its
subscriptions anew on each, so numbers come back. `MakeRequests` is
`makeRequest` with `#setupWebSocket`; a request is waiting for its connection,
sent, dropped (answered without an entry), late (rejected while the server may
still act), done or failed.

**DataLoader**. A load is a promise; `of` is the load whose promise it shares.
Values are told apart by the number of `clear` calls before they were fetched.

**KeyFetch**. Calls of `fetchKeys` over weighted servers, with the shared load
of the servers, the shared key cache, and the counters of the code, which are
changed by the callbacks of the answers. `Deliver` may bring valid keys for any
part of the ids.

**AuthSession**. Sessions are numbered as the server issues them and stand for
their refresh tokens. A refresh is sent, served, and its answer arrives or is
lost, while the user signs in and out at any time. `stray` marks a refresh that
`refreshPromise` no longer stands for, because of a sign-out or of the end of
another stray one (`auth.ts:131`): then the server is asked twice with one token,
which `OneRequestPerToken` excepts. That a refresh which ends after a sign-out or
a new sign-in saves its own session (`:118`) is as the code has it.

**CoinFlows**. The analysis and, beside it, an execution of the same commands
that chooses what the analysis cannot know. A command takes any coins there are:
a split makes one coin for each of its amounts (`Splits`), a transfer moves a
sequence of coins, a call takes coins by value and one by reference. Without
`ReturnsOthers` no coin of another type than gas is sent to the sender:
`coin-flows.ts:93` credits it to the gas coin, and the outflow of gas comes out
too low.

**AutoApprovals**. Check and commit are one turn, as in the manager's test
(`manager.test.ts:71-79`); then a transaction is executed and applied, or
reverted. `Apply` books every balance change of the answer, as the loop at
`manager.ts:345` does: those of recipients, those above 0, and those of coin types
the analysis has no value for, at which it throws (`:361`) with the changes before
it booked; the payment is then `thrown`. `updateSettings` and `reset` are called
at any time. `granted`, `carried` (what was reserved when the settings were
chosen) and `earned` (all balance changes answered since) are history variables.
Prices are 1, so conversions of amounts to values do not round.

**WalletConnection**. `asked`, `leaving` and `restoring` are the calls that wait
for a wallet; `saved` is the storage, written when the status changes; `chosen`
is a history variable. `WalletsChange` (wallets come, go, or change their
accounts), calls of `connectWallet` and autoconnects happen at any time and cross
each other, and `Reload`, at any time, forgets everything but the storage. An
answer may authorize nobody. `course` is a history variable too: calls that cross
make it `disturbed`, and a call nothing crossed makes it `undisturbed` again.
`Broken` is when `$connection` threw in the middle of an update
(`getAssociatedWalletOrThrow`): nanostores leaves its listeners without the
update, and what the page does from there to its next load is not modelled.

**StorageQuorums**. One call of one of the four functions that ask the nodes of
a committee. `Holder` says of every shard which node keeps it; weights are
numbers of shards. A lane is one of the loops of the code, as the list of what
it still asks for: all nodes and then chunks of them for metadata, a column of
shards for slivers, a node each for the status and for writes. `told` and
`errors` are the counters, changed when a request ends; for metadata the executor counts in its
own catch block and the lane looks at the count in a later turn (`LaneCatches`).
`truth` is what correct nodes know of the blob, all of them the same; `faulty` nodes, with no more
shards than `getMaxFaultyNodes` allows, answer anything, and every request may
fail. The order of the nodes, which the code shuffles, is any.

**StorageCommittee**. Where the committee of a call comes from. The chain changes
its epoch and is for a while in `EpochChangeSync`. `memo` is the staking state in
the object loader, `entry` the `ClientCache` entry of the active committee,
`poolLoads` the loads behind it, of which one that a reset overtook is marked
`late`, and `readCommittee` the promise of the first read. A committee remembers
the epoch in which its staking state was read, a call that of the last reset
before it began.

## 3. Runs

All runs finish in less than five minutes with two workers. Deadlock is not
checked: the number of calls is finite in every run and the system stops when
all have settled. That nobody hangs is what the liveness properties say.

| run | instance | shows |
|---|---|---|
| `transaction_parts` | queues of 4 tasks (width 2, and serial), 4 calls on 3 ids with footprints of one id or two, 4 callers of the cache lock, 2 functions and 2 builds, 4 commands and one edit | `ParallelQueue` implements `TaskService`; the head of the build queue runs; ids exclude, are served in order of arrival, leave no key, and every call releases; nobody awaits a dead promise; a build keeps order and meaning; edits keep meaning; every build ends |
| `parallel_scheduling` | 3 calls, 2 ids used alone or together, pool of 2 | the composition takes steps of its parts only; calls settle; no coin is lost while nothing fails after building |
| `parallel_gas` | 3 calls without ids, pool and batch of 2, 2 coins, lagging references, failing fetches and signatures, resets | the accounting of the pool, and that no two undecided transactions hold one version of a coin |
| `parallel_failures` | 2 calls, every fault point | coins stay in one place and current; every call settles |
| `serial_executor` | 3 calls, 2 objects, 2 coins, one outside transaction | no reference and no gas coin is outdated |
| `serial_app` | 3 calls, 1 object, all faults, application resets and waits | the cache holds nothing outdated; every call settles |
| `services` | 2 subscriptions on 2 connections; 4 loads of 2 keys in batches of 2 with a clear; 2 calls on 3 servers of weight 2, 1, 1; 3 sessions and 3 refreshes; 3 commands on 2 coins and what they split; 3 payments under 3 settings; 2 wallets with an account or none, 2 callers of `connectWallet`; 4 nodes with 2, 2, 2 and 1 shards, lanes limited to 2 or 10; 2 storage calls over 2 epochs with 2 resets and 3 loads of the committee | the properties of the nine modules, each by itself |
| `parallel_price_fails` | 2 calls, pool of 1 | **finding**: see below |
| `parallel_source_race` | 3 calls | **finding** |
| `serial_freeze` | 3 calls, freezing | **finding** |
| `transaction_overlap` | one function, builds that overlap | **finding** |
| `storage_reset` | one read over 2 epochs, no reset but its own | **finding** |

`transaction_parts` and `services` put modules that share no state side by side:
a behaviour is one of a single part, chosen by `part`, and the others stay in
their initial states. This is as strong as a run for each.

Bounds. Width 2 is the least with a place that is busy and one that is free;
one task more than twice the width gives a waiting line that refills, and four
tasks one that is served twice. Four calls on three ids give chains of waiting
calls, a call that waits for ids of two others, and two calls that become ready
in one turn. Three transactions on a pool of two give one that refills while one
executes and one ends, which is where the accounting can go wrong; a batch of
two makes room that pending transactions must share. In the serial executor
three transactions are needed for a cache written by the first, changed by the
second and read by the third; one outside transaction makes the cache wrong
about an object. Two functions nest or stand side by side, and two builds have
the second start from what the first renumbered. Two connections make a number
come back; four loads of two keys fill a batch, hit it and load again after a
clear; the heavy server is needed by one threshold and not by the other; three
sessions are one, its successor, and that of a new sign-in in between. Seven
shards on four nodes of 2, 2, 2 and 1 make one node faulty, whichever it is; a
quorum takes five shards, three nodes or more, and slivers three, so that no single
failure decides a call, nodes differ in weight, and columns have two shards or
three; a limit of 2 gives lanes, and 10, the limit of the code, the case of a
committee with too few nodes for it. The three settings have budgets that overlap,
with and without a shared one, and the answers take all, take less, refund, and
hold a type without a value between others. Wallets with accounts {} or {1} lose
and regain an account; two callers cross each other and one autoconnect.
Two epochs and two resets let a load of the committee be overtaken twice. Amounts up
to 4 are enough to split a coin twice and to overdraw each of the budgets.
`SYMMETRY` is used in `parallel_gas` only, where calls differ in name alone and
nothing temporal is checked beyond action properties.
`MCOrders` lists the orders of the four storage nodes up to exchanging the three of
equal weight, which differ in name alone.

Fairness. `WF` of the steps of each call: its awaits are promises of the
client, the signer or the locks, which settle (requests have timeouts), and the
event loop runs every callback that is due. Full nodes catch up (`NodeSees`).
`BuilderFairness`: functions return or throw, and promises wake those that wait.
`WebsocketFairness`: a socket opens or closes, the reconnect timer fires, and so
does the timer of every request; no answer is assumed. `LoaderFairness`: every
batch is dispatched and the batch function answers or fails. `QuorumsFairness`:
every request to a storage node ends, by its timeout if not otherwise, and
callbacks that are due run. Nothing is assumed
of new calls, of outside transactions, or of which of two transactions is
decided first. `EveryCallReleases`, `EveryBuildEnds`, `EverySentRequestSettles`
and `EveryLoadSettles` are of the form `<>[]`: calls are finitely many, so in the
end all have settled and stay settled. `EveryFanOutEnds` is about a single call
and excepts two cases, below, in which the code never settles it: when nobody is
asked any more, and exactly enough slivers or one error too many were counted.

### Findings

- `parallel_price_fails`: `#pendingTransactions` is decremented in `finally`
  (`EX/parallel.ts:331`) also when `getGasPrice` failed before the increment
  (`:222`). The count drifts below the truth and a refill makes a coin too many.
- `parallel_source_race`: `#refillCoinPool` awaits `getObjects` (`:450`) and then
  replaces `#sourceCoins` by an empty map (`:465`); a coin another transaction
  put there meanwhile is dropped.
- `serial_freeze`: an object that gets frozen is added to the
  shared/immutable entries while its owned entry stays and is preferred by
  `getObject`; the next transaction uses the old version.
- `transaction_overlap`: two builds that wait for the same function replace
  `#pendingPromises` by a promise of their own (`Transaction.ts:805-807`) which
  includes the other's; what `:809` deletes is no longer there, the set is never
  empty, and the two loops wake each other for ever.
- `storage_reset`: `reset()` (`file-storage/src/client.ts:2092`) clears the object
  loader and the cache but not `#readCommittee` (`:168`, `:682`). A read whose
  committee has lost its shards resets the client, retries and asks the same
  committee, and so does every later read of this client.

Also seen in models while they were written, and not among the runs: a refill
that fails after `:465` loses the source coins and later refills have nothing
to pay with; two calls resumed by the same promise both update under
`#cacheLock`, and a call without a function clears the lock of a pending update
(the comment at `:335` says one at a time); a `waitForLastTransaction()` that
ends late clears the digest of a newer transaction (`EX/caching.ts:117`), so
that the reset after a failure waits for nothing; `#cacheGasCoin`
(`EX/serial.ts:71`) keeps a coin its transaction gave away. `NeverStale` and
`GasIsUsable` are therefore checked without application waits
(`App = {"apply"}`) and without `frozen` and `gasToOther` fates.

Seen in the other modules: entries of settled requests stay in
`#pendingRequests` and their signals go on deleting entries of others
(`rpc-websocket-client.ts:123`), subscriptions that were cancelled are renewed
(`:193`), and requests that wait for a connection that never opens are lost when
reconnects run out (`:150`); a per-key error stays in the memo cache of
`DataLoader`, unlike a failed batch; `refresh()` of an expired session refreshes
twice (`auth.ts:318`). A reference to an element of `coinWithBalance`
(`const [coin] = tx.add(...)`) is not moved to the split (`CoinWithBalance.ts:258`)
and ends at the first command of the replacement, so `ReferencesKeepTheirMeaning`
allows what was `Lost`.

Of auto approvals (`manager.ts`): a transfer of a budgeted type is booked as -x of
the sender and +x of the recipient (`:345`), so that the budget is as before, and
repeated payments may exceed what was granted (the TODO at `:233` is about such
changes), so that no property bounds spending by the grant; settings chosen while
something is pending are given back what they never gave (`:394`); a change of a type
without a value throws half way (`:361`), and the budgets no longer add up; the
shared budget is compared with each coin type by itself (`:222`) and may be
overdrawn, so `NeverOverdrawn` speaks of the budgets per type.

Of wallet connections: a reconnect that is answered with no accounts makes
`$connection` throw (`connect-wallet.ts:56`, `store.ts:84`); a wallet that drops its
accounts while `disconnectWallet` awaits it ends the connection, and autoconnect,
which reads the storage in the same turn, may connect and save the wallet the user
leaves; two connects that cross may leave the storage with the wallet of the first
and the store with that of the second, because the status does not change when the
second ends; a connect that fails sets the status back (`connect-wallet.ts:74`)
whatever was connected meanwhile. These are calls that crossed: after them
`SavedWalletIsChosen` asks for nothing until a call has ended that nothing crossed.
`switchAccount` is not saved; and `sync-state-to-storage.ts:44` replaces
the first colon of a wallet identifier while `autoconnect-wallet.ts:82` compares
the unchanged one, so that wallets with a colon in it are never restored.

Seen in file-storage (`file-storage/src/client.ts`), and excepted by the
properties with just these conditions (`OneNotAsked`, `CountedPast`,
`ExactlyEnough`, `LastNotCounted`): `getBlobMetadata` compares the count of
errors with the number of executors after the first was shifted off (`:418`), so
it reports that no node has the metadata while one is still asked, and never
settles if the last two fail in one turn; a committee of no more nodes than the
concurrency limit makes chunks of size 0 (`:393`) and a `RangeError` when the
first node fails; `getSlivers` resolves with the sliver that arrives after
enough have (`:506`), so when exactly enough arrive it never settles; the last
answer to `getVerifiedBlobStatus` rejects it (`:604`) although a quorum has
answered, because only an answer after the quorum resolves it (`:583`), while
the package's README says that errors are thrown only when too few nodes can be
reached (`README.md:425`). `ClientCache` writes the value of a load back after
`clear()` (`cache.ts:33`), which `WritesAreFresh` excepts as `late`.

## 4. Proofs

TLAPS proves the following for every value of the constants that satisfies the
named assumptions: finite sets of calls, tasks, subscriptions, servers, payments
and settings, footprints within the objects, positive sizes, natural weights,
balances and amounts (`FetchAssumption`, `FlowsAssumption`,
`PaymentsAssumption`, which has one outflow per coin type, as the analysis lists
them, `GrantsAssumption`, and `ExecutionsAreBounded`: the chain takes from
nobody more of a coin type than the analysis says), `NoWallet` no wallet,
finitely many shards on finitely many nodes and positive limits
(`QuorumsAssumption`), and markers of the model (`NoLock`, `Settled`) that are
no call sites.

**Queues and locks.**

- `ParallelPartsProofs`, the parallel queue: `PlacesAreCounted`, `TasksAreInOnePlace`,
  `NobodyOvertakes`, `ImplementsService`. The inductive invariant is type
  correctness, the exact count, no idle place, and one place per task: the
  counter stays below the limit because it is exact, it is exact because a task
  is in one place, and no place idles because a freed one is handed on in the
  same turn.
- `SerialQueueProofs`: `TheHeadRuns`, `ImplementsService`. The list is
  injective and the started task is its head. (`transaction_parts` checks the
  instance of `HeadRuns` in `MCTransactionParts`, which says the same of the same
  queue.)
- `ParallelPartsProofs`, the locks: `CallsExclude`, `MapDoesNotLeak`, `NobodyIsOvertaken`.
  Exclusion is not inductive. The strengthening: each key has exactly one
  holder, the list of an id names exactly those that have it among their
  conflicts and each once, and a call is waiting just when it has conflicts.
  For the order of arrival (`InTurn`) the lists must be sorted by ticket, with
  the holder before all of them. And `NoCallAwaitsInVain`, for the cache lock:
  what the field or a caller names is pending or settled.
- `CollectionLemmas`: what head, tail, concatenation and a batch of arrivals do to
  the elements, length and injectivity of a sequence, and what sequences and
  permutations of a finite set are; what a sum over a finite set is when a member
  or a subset is set apart, and how sums of two functions compare (`SumSplits`,
  `SumOfSubset` and what follows them); that a fold over a sequence has the values
  of its steps. The sums and folds of the models are those of the community
  modules, defined by a choice of functions that recur over subsets. No induction
  theorem can be cited about them, so these lemmas take a smallest set, or a
  shortest prefix, for which the fact fails (`SmallestCounterexample`) and show
  that there is a smaller one.

The refinement theorems map `queue` of `TaskService` to the waiting tasks
(everything but the head, for the serial list) and `running` to those started;
every step is shown to be a step of the service or a stutter.

**The executor through its parts** (`ParallelExecutorProofs`).
`PartsImplemented` and `CacheLockImplemented` say that every turn of the
executor takes the object locks, the two queues and the cache lock through a
step of their own module or leaves them alone. A step of a part has guards the
executor does not test (a task ends only if it started, a call site enters only
if it is idle), so the proof carries an invariant, `Scheduled`: `pc`, the queues
and the maps agree on where each call is. `ExecutorKeepsLocks` and
`ExecutorKeepsQueues` are what follows: what is proved of the parts by themselves
holds in the executor.

**The coins of the executor** (`ParallelGasProofs`), by four inductive
invariants, each on top of the one before:

- `GasInv` gives `OneKeeper` and `GasStaysCurrent`, under any faults. Places are
  apart (pool, source map, calls, payments of refills), ids in them are known,
  and what is pooled or about to pay is in the chain's version, because a version
  changes only by the transaction whose call holds the coin.
- `RoomInv` gives `PoolIsAccounted`: the count is the number of calls between
  its increment and its decrement, and pool, holders and refills fit the limit.
  It needs `"price" \notin Faults`: a price that fails is the finding
  `parallel_price_fails`, where the count drifts.
- `AnsweredInv` gives `NobodyEquivocates`: whoever sent a transaction that is
  not decided still awaits its answer. It needs `"reply" \notin Faults`: after a
  lost answer the transaction may be decided later, when its caller is gone.
- `CarefulInv` gives `NoCoinIsForgotten`. It needs that nothing fails but
  preparations, prices and the sending or confirmation of refills: a call that
  fails with a coin puts it into the source map, which is where
  `parallel_source_race` drops it, and a fetch that fails or is answered by a
  node that lags drops what it read. Under the hypothesis only the first refill
  fetches, and nothing is in use then.

**The serial executor** (`SerialExecutorProofs`):

- `QueueImplemented`, for any constants: every turn is a step of `SerialQueue`.
  As above, `Queued` ties `pc` to the queue. What the other proofs need of it is
  `Alone`: one call at a time is between its start and its end.
- `Recorded` is what the chain and the calls are, for any constants: an object
  that changes gets the place of the change as its version, versions grow, what
  is gone stays gone, and only what was sent has a result.
- `CacheStaysCurrent`: the cache is fresh with respect to every call whose outcome
  has been learnt (`Current`). It needs `OwnersStay`, since a frozen object is the
  finding `serial_freeze`, and `InOrder`: `applyEffects` compares no versions, and
  the application cannot put effects in order with a transaction whose answer was
  lost. Resets, waits and lost answers are otherwise free.
- `NothingIsStale` is about references that come from the full node, which lags.
  `Steady` follows an object from the cache to the signed bytes: what the node has
  not seen is remembered in `#lastDigest` or awaited by a reset (`Remembered`);
  hence outside of a reset what the cache does not know has been seen (`Known`),
  so has what is left to resolve (`Resolvable`), and what is built with is current
  (`ReferencesCurrent`). It needs `Reliable`: after a lost answer or a wait that
  times out, a reset has nothing to wait for or does not wait until the node has
  caught up, a reset of the application empties the cache of a call in the middle
  of building, and a wait of the application clears the digest.
- `GasStaysUsable`: the signer loses a coin only by a call of this executor
  (`GasStays`), so that coins listed by a node that has seen all calls are there,
  and the coin that is remembered was last written by the call or the effects
  that brought it (`GasKept`). It needs, besides, that a transaction does not give
  its gas coin away (`GasComesBack`): `#cacheGasCoin` would keep it.

**Clients of services and of the file storage** (`ServiceProofs`):

- `TokensAreSentOnce`, `SessionStaysCurrent` (`AuthSession`). The promise the
  client keeps belongs to the only refresh under way that no sign-out let go of,
  and an answer that is still to come carries the newest token of its session.
- `LoadsAreFresh` (`DataLoader`). An entry of the cache is a load of its key
  since the last clear, and a batch fetches after all loads it was given.
- `NotificationsReachSubscribers`, `EverySubscriberAsks` (`WebsocketClient`).
  A number to be given up is on the server's list and with nobody else, nobody
  has a number before the connection is open, and whoever is known has the
  promise of a socket, so that a connection is never replaced while numbers of
  it are held. Uses `SubsAssumption`: a reconnection renews finitely many.
- `FetchesEndAsDeserved` (`KeyFetch`), for any weights and thresholds. `FetchInv`
  says what the two counters count: `completedWeight` is the weight of the
  servers whose keys are in the cache, `remainingWeight` that of the servers
  asked and not heard of (`Weighed`), each in the phase it is used in
  (`InPhase`). A call is aborted, or fails, only when the servers that did not
  fail it weigh too little (`Decided`), and keys never leave the cache, so that a
  server counted once stays complete whatever other calls add (`HasKeys`).
- `WritesAskFreshCommittees` (`StorageCommittee`). Whatever a call waits for, or
  what a load will bring, was read no earlier than the reset the call must see,
  or belongs to a load that a reset overtook.
- `VerdictsAreDeserved` (`StorageQuorums`), for any committee, division of its
  shards and order of answers, with at most `getMaxFaultyNodes` shards on faulty
  nodes. The verdict compares counters with thresholds, so `QuorumInv` says what
  the counters count. No two lanes ask for the same thing (`Laid`); what no lane
  has still to hear of is `Heard`, a set of shards. Only faulty nodes say what is
  not so, each shard at most once (`Honest`), hence what more than `MaxFaulty`
  shards say is so. And `Counts` bounds the errors by the nodes, or the shards of
  nodes, that failed, so that a call that gives up has too few left. That the
  lanes of slivers, the columns of rows of shards, are apart is arithmetic of
  places (`PlacesInRows`) over the order in which `FoldLeft` lists the shards
  (`NodesInOrder`, by the fold lemmas); that chunks are is the same.

**Transactions and wallets** (`TransactionProofs`):

- `ReferencesHold` (`TransactionData`), for commands and edits of any number and
  length. `DataInv` says that no two commands have one id, that none has the id of
  one to come, and that each reference is to an earlier command and means what
  stands there. Every edit is a splice of a block into the list, of which
  `PlacesKeepOrder` says where the other commands go, and a renumbering; the ids
  tell the command that went from those that stay when what was meant by it is
  meant of its replacement, and what was meant by an element that a coin intent
  does not pass on is lost.
- `NoBudgetIsOverdrawn`, `BudgetsStayExact` (`AutoApprovals`), for any payments,
  coin types, settings and answers. A booking is a fold that may stop half way;
  `BookedInTurn` says what every prefix of it has booked. No budget falls below 0
  because a transaction reserves at most what is there and its answer, in which all
  losses of a coin type together are within the outflow, takes no more at any
  prefix than was given back before it; changes above 0 only add. What is left is
  the grant, what was carried over and what was earned, less what is reserved
  (`BudgetBalance`), for each budget and for the shared one, as long as no booking
  threw. That the keys of the budgets are those of the grant is `ApprovalsTypeOK`.
- `OutflowsCover` (`CoinFlows`), under `~ ReturnsOthers`, which `coin-flows.ts:93`
  makes necessary; and `OtherOutflowsCover`, which needs no such hypothesis: of
  every type but that of gas the outflow covers what is spent, whatever coins are
  sent back. `FlowInv` splits the claim by coin: what the analysis has written off
  of the coins of a type is never less than what the sender has lost of that
  type (`Backed`), because a coin is tracked with no more than its value, results
  are new, and a coin the analysis does not know has been written off where it came
  from. `Judged` are the types of which this is kept, all of them or all but gas.
- `ReloadsRestoreTheChoice` (`WalletConnection`), for any wallets and any number of
  callers and autoconnects that cross, and answers that authorize nobody. Where
  nothing crosses, what is under way tells the status (`StatusTells`): one call
  that connects (`OneAsks`), or one that leaves a connected wallet (`OneLeaves`), or
  none; and what an autoconnect found is what is saved, of the wallet that was
  chosen (`RestoresTheChoice`). A call that begins in a disturbed state needs none of
  this: it writes connection, storage and choice together when it ends.

Only model-checked: every liveness property (fairness and ENABLED are outside
the prover); the coins of the parallel executor under faults the theorems
exclude; and `InProgramOrder` and `ArgumentsKeepTheirMeaning` of
`TransactionBuilder`, which flattens the nested sections of the forks by a
recursion of its own and filters them (`SelectSeq`), of which the backends know
nothing.

## 5. What is abstracted

Of the executors: address-balance gas, the epoch information and its clock, gas
budgets and balances, sponsored gas, transactions passed as bytes, Move function
and shared-version entries of the cache, foreign `AsyncCache` implementations,
`#lastDigest` of the parallel executor. Serialisation of transactions is
identity of a call. A thunk that throws synchronously does not occur: every
thunk is an async function.

Of the others: inputs of transactions, which are sorted by the code that sorts
commands, and serialization; parsing and delivery of notifications; `loadMany`
and custom schedules of the data loader; retries of single key requests and
decryption; the sign-in window; the policy, operation types and expiration of
auto approvals; signing, networks and supported intents of the dapp kit;
encoding, certificates, upload relays, quilts and signals of file-storage. Prices
are 1. Answers of services are chosen by the model, never computed.

## 6. Plan

1. Proofs: request bookkeeping of `WebsocketClient` (`EverySentRequestSettles`
   without fairness); and the order of commands in `TransactionBuilder` without
   recursion.
2. `ParallelExecutor`, second part: `#lastDigest` with a lagging node, epoch
   information fetched once for several callers, address-balance mode.
3. File-storage certificates, which count members where they mean shards
   (`client.ts:1120-1185`), and the upload relay; `KeyFetch` and `StorageQuorums`
   under one abstract threshold specification; the MVR lookups; the popup channel.
