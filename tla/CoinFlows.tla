----------------------------- MODULE CoinFlows -----------------------------
(***************************************************************************)
(* What a transaction may cost its sender: the analysis of                 *)
(* packages/wallet-sdk/src/transaction-analyzer/rules/coin-flows.ts goes   *)
(* through the commands once and keeps a remaining balance for every coin  *)
(* it can track.  Beside it, the execution of the same commands (external):*)
(* the coins there are, their values, and what the sender has got back.    *)
(***************************************************************************)
EXTENDS Integers, Sequences, FiniteSets, SequencesExt, FiniteSetsExt, Functions

CONSTANTS InputType,       \* coin types of the coin objects among the inputs, a sequence
          GasType,         \* MYSO
          Balance,         \* of every input, and of the gas coins without the gas budget
          Splits,          \* amounts of a split, a sequence
          MaxCommands,     \* bound: commands
          AtOnce,          \* bound: objects a transfer or a call takes
          ReturnsOthers    \* may coins of other types be transferred to the sender?

ASSUME FlowsAssumption ==
    /\ InputType \in Seq(Range(InputType))
    /\ Splits \subseteq Seq(Nat)
    /\ Balance \in Nat

VARIABLES trackedCoins,    \* of the analysis
          coins,           \* of the execution: value and type
          returned,        \* per type, what was transferred to the sender
          length           \* commands so far

flows == <<trackedCoins, coins, returned, length>>

Types == Range(InputType) \cup {GasType}
\* The gas coin, input i and result k of command n are <<0, 0>>, <<0, i>> and <<n, k>>.
Gas == <<0, 0>>
Owned == {Gas} \cup {<<0, i>> : i \in DOMAIN InputType}
TypeOf(c) == IF c = Gas THEN GasType ELSE InputType[c[2]]
Known == DOMAIN trackedCoins

FlowsInit ==
    /\ trackedCoins = [c \in Owned |-> [type |-> TypeOf(c), remaining |-> Balance]]
    /\ coins = [c \in Owned |-> [type |-> TypeOf(c), value |-> Balance]]
    /\ returned = [t \in Types |-> 0]
    /\ length = 0

Values == [c \in DOMAIN coins |-> coins[c].value]
Remaining == [c \in Known |-> trackedCoins[c].remaining]
Total(f, S) == MapThenSumSet(LAMBDA x : f[x], S)

\* consume() of each of the coins that are tracked
Consumed(S) == [c \in Known |-> IF c \in S THEN [trackedCoins[c] EXCEPT !.remaining = 0]
                                          ELSE trackedCoins[c]]
Without(S) == Restrict(coins, DOMAIN coins \ S)
Result(k) == <<length + 1, k>>

\* Mutant: a split by amounts that are not known yet changes nothing.
SplitUnknownIgnored(c) == trackedCoins
\* Dynamic amounts: the coin is assumed to be fully consumed, the results are not tracked.
SplitUnknown(c) == Consumed({c})

\* splitCoin; the execution takes the amounts the arguments turn out to have
SplitCoins(c, amounts, pure) ==
    /\ Total(amounts, DOMAIN amounts) <= coins[c].value
    /\ LET total == Total(amounts, DOMAIN amounts)
           results == {Result(k) : k \in DOMAIN amounts}
       IN /\ coins' = [x \in DOMAIN coins \cup results |->
                          CASE x \in results -> [type |-> coins[c].type, value |-> amounts[x[2]]]
                            [] x = c         -> [coins[c] EXCEPT !.value = @ - total]
                            [] OTHER         -> coins[x]]
          /\ trackedCoins' =
                IF c \notin Known THEN trackedCoins
                ELSE IF ~ pure THEN SplitUnknown(c)
                ELSE [x \in Known \cup results |->
                          CASE x \in results -> [type |-> trackedCoins[c].type,
                                                 remaining |-> amounts[x[2]]]
                            [] x = c         -> [trackedCoins[c] EXCEPT !.remaining = @ - total]
                            [] OTHER         -> trackedCoins[x]]
    /\ UNCHANGED returned

\* mergeCoins: without a tracked destination the sources are lost to the analysis
MergeCoins(destination, sources) ==
    /\ destination \notin sources
    /\ \A c \in sources : coins[c].type = coins[destination].type
    /\ coins' = [Without(sources) EXCEPT ![destination].value = @ + Total(Values, sources)]
    /\ LET amount == Total(Remaining, sources \cap Known)
       IN trackedCoins' = IF destination \in Known
                          THEN [Consumed(sources) EXCEPT ![destination].remaining = @ + amount]
                          ELSE Consumed(sources)
    /\ UNCHANGED returned

\* transferObjects, one object after the other: what goes to the sender is credited to
\* the gas coin, whatever its type
Transferred(t, c, toSender) ==
    IF c \notin DOMAIN t THEN t
    ELSE LET credited == IF toSender
                         THEN [t EXCEPT ![Gas].remaining = @ + t[c].remaining] ELSE t
         IN [credited EXCEPT ![c].remaining = 0]

TransferObjects(objects, toSender) ==
    /\ toSender /\ ~ ReturnsOthers => \A c \in ToSet(objects) : coins[c].type = GasType
    /\ trackedCoins' = FoldLeft(LAMBDA t, c : Transferred(t, c, toSender), trackedCoins, objects)
    /\ coins' = Without(ToSet(objects))
    /\ returned' = [t \in Types |->
          IF toSender
          THEN returned[t] + Total(Values, {c \in ToSet(objects) : coins[c].type = t})
          ELSE returned[t]]

\* A Move call, or a vector for one: arguments passed by value are gone, from those passed
\* by reference the call takes what it likes.  It may return a coin nobody tracks.
MoveCall(byValue, byReference, taken, returns) ==
    /\ byReference \notin byValue
    /\ trackedCoins' = Consumed(byValue \cup {byReference})
    /\ LET left == [Without(byValue) EXCEPT ![byReference].value = @ - taken]
       IN coins' = [x \in DOMAIN left \cup (IF returns THEN {Result(1)} ELSE {}) |->
                       IF x \in DOMAIN left THEN left[x]
                       ELSE [type |-> coins[byReference].type, value |-> taken]]
    /\ UNCHANGED returned

FlowsNext ==
    /\ length < MaxCommands /\ length' = length + 1
    /\ \/ \E c \in DOMAIN coins, amounts \in Splits, pure \in BOOLEAN :
              SplitCoins(c, amounts, pure)
       \/ \E c \in DOMAIN coins, sources \in SUBSET DOMAIN coins :
              sources # {} /\ MergeCoins(c, sources)
       \/ \E objects \in SeqOf(DOMAIN coins, AtOnce), toSender \in BOOLEAN :
              IsInjective(objects) /\ TransferObjects(objects, toSender)
       \/ \E c \in DOMAIN coins, byValue \in SUBSET DOMAIN coins, returns \in BOOLEAN :
              /\ Cardinality(byValue) <= AtOnce
              /\ \E taken \in 0 .. coins[c].value : MoveCall(byValue, c, taken, returns)

FlowsSpec == FlowsInit /\ [][FlowsNext]_flows

-----------------------------------------------------------------------------
OwnedOf(t) == {c \in Owned : TypeOf(c) = t}

\* coinFlows.outflows (the gas budget is part of it and paid in any case)
Outflow(t) == Total([c \in OwnedOf(t) |-> Balance - trackedCoins[c].remaining], OwnedOf(t))

\* Coins that are left over, also those that are still to be used, are the sender's.
Spent(t) == Total([c \in OwnedOf(t) |-> Balance], OwnedOf(t)) - returned[t]
                - Total(Values, {c \in DOMAIN coins : coins[c].type = t})

\* What the wallet is told a transaction may cost is never less than what it costs: no
\* coin type leaves the sender in a larger amount than the outflow, however the commands
\* split, merge, return and consume coins and whatever the calls do.
OutflowCoversSpending == \A t \in Types : Spent(t) <= Outflow(t)
=============================================================================
