--------------------------- MODULE AutoApprovals ---------------------------
(***************************************************************************)
(* The budgets of AutoApprovalManager (packages/wallet-sdk/src/            *)
(* auto-approvals/manager.ts).  A wallet checks and commits a transaction  *)
(* in one turn, as the test of the manager does; then it is executed and   *)
(* its estimated outflows are replaced by the balance changes of the       *)
(* answer, or it fails and they are given back.  Several may be pending,   *)
(* and settings may be chosen meanwhile.  All prices are 1; a coin type    *)
(* without a price has no coinValue.  A null for remainingTransactions is  *)
(* a large number; for sharedBudget it is 0, and `sharing' is FALSE.       *)
(***************************************************************************)
EXTENDS Integers, Sequences, FiniteSets, SequencesExt, FiniteSetsExt, Functions

CONSTANTS CoinTypes,
          Payments,     \* analysed transactions, which stand for their digests
          Outflows,     \* of each: a sequence of [coin, amount], one per coin type
          Executions,   \* of each: balanceChanges its answer may hold, of any address
          Priced,       \* coin types with a price
          Grants,       \* settings the user may choose
          NoSettings,   \* null
          MaxGrants     \* bound: calls of updateSettings and reset

ASSUME PaymentsAssumption ==
    /\ IsFiniteSet(Payments) /\ IsFiniteSet(CoinTypes)
    /\ \A t \in Payments :
          /\ Outflows[t] \in Seq([coin : CoinTypes, amount : Nat])
          /\ \A i, j \in DOMAIN Outflows[t] : Outflows[t][i].coin = Outflows[t][j].coin => i = j
          /\ \A changes \in Executions[t] : changes \in Seq([coin : CoinTypes, amount : Int])

ASSUME GrantsAssumption ==
    /\ NoSettings \notin Grants
    /\ \A s \in Grants :
          /\ DOMAIN s.coinBudgets \subseteq CoinTypes
          /\ s \in [remainingTransactions : Nat, coinBudgets : [DOMAIN s.coinBudgets -> Nat],
                    sharedBudget : Nat, sharing : BOOLEAN]

VARIABLES settings,        \* #state.settings: remainingTransactions, coinBudgets, sharedBudget
          pendingDigests,  \* #state.pendingDigests
          progress,        \* of each transaction, at the wallet
          granted,         \* the settings last chosen
          grants,          \* calls of updateSettings and reset so far
          carried,         \* of each coin type: what was reserved when they were chosen
          earned           \* of each coin type: all balance changes answered since

approvals == <<settings, pendingDigests, progress, granted, grants, carried, earned>>

\* All that a sequence of [coin, amount] says of a coin type.
TotalOf(changes, c) ==
    MapThenSumSet(LAMBDA i : changes[i].amount, {i \in DOMAIN changes : changes[i].coin = c})

OutflowOf(t, c) == TotalOf(Outflows[t], c)
NothingOf == [c \in CoinTypes |-> 0]

\* The chain takes no more from anyone than the analysis says (what CoinFlows is about).
Losses(changes) ==
    [i \in DOMAIN changes |-> [changes[i] EXCEPT !.amount = IF @ < 0 THEN @ ELSE 0]]
ASSUME ExecutionsAreBounded ==
    \A t \in Payments, c \in CoinTypes : \A changes \in Executions[t] :
        TotalOf(Losses(changes), c) + OutflowOf(t, c) >= 0

ApprovalsInit ==
    /\ settings = NoSettings /\ granted = NoSettings
    /\ pendingDigests = <<>>
    /\ progress = [t \in Payments |-> "analysed"]
    /\ carried = NothingOf /\ earned = NothingOf /\ grants = 0

\* coinValues.coinTypes: outflows above 0 that have a price
HasValue(t, c) == c \in Priced /\ OutflowOf(t, c) > 0

\* Mutant: one more than the budget is still approved.
AffordableByOneMore(t, o) ==
    IF o.coin \in DOMAIN settings.coinBudgets THEN settings.coinBudgets[o.coin] + 1 >= o.amount
    ELSE HasValue(t, o.coin) /\ o.amount <= settings.sharedBudget
\* #canAutoApprove, one outflow, which is compared with the whole shared budget
Affordable(t, o) ==
    IF o.coin \in DOMAIN settings.coinBudgets THEN settings.coinBudgets[o.coin] >= o.amount
    ELSE HasValue(t, o.coin) /\ o.amount <= settings.sharedBudget

CanAutoApprove(t) ==
    /\ settings # NoSettings /\ settings.remainingTransactions > 0
    /\ \A o \in Range(Outflows[t]) : o.amount > 0 => Affordable(t, o)

\* One change in the loop of commitTransaction, #revertCoinFlows and applyTransactionEffects.
\* With neither a budget nor a value it throws, and nothing is booked from then on.
Book(t, s, a, o) ==
    IF a.thrown THEN a
    ELSE IF o.coin \in DOMAIN s.coinBudgets
         THEN [a EXCEPT !.settings.coinBudgets[o.coin] = @ + o.amount]
    ELSE IF s.sharing /\ HasValue(t, o.coin)
         THEN [a EXCEPT !.settings.sharedBudget = @ + o.amount]
    ELSE [a EXCEPT !.thrown = TRUE]

Booked(t, s, changes) == FoldLeft(LAMBDA a, o : Book(t, s, a, o),
                                  [settings |-> s, thrown |-> FALSE], changes)

Negative(changes) == [i \in DOMAIN changes |-> [changes[i] EXCEPT !.amount = -@]]

\* What was booked before a throw stays booked, and the wallet gives the transaction up.
Ends(t, result, otherwise) ==
    /\ settings' = result.settings
    /\ progress' = [progress EXCEPT ![t] = IF result.thrown THEN "thrown" ELSE otherwise]

\* checkTransaction and commitTransaction
Approve(t) ==
    /\ progress[t] = "analysed" /\ CanAutoApprove(t)
    /\ LET counted == [settings EXCEPT !.remainingTransactions = IF @ > 0 THEN @ - 1 ELSE 0]
           result == Booked(t, counted, Negative(Outflows[t]))
       IN /\ Ends(t, result, "committed")
          /\ pendingDigests' = IF result.thrown THEN pendingDigests ELSE Append(pendingDigests, t)
    /\ UNCHANGED <<granted, grants, carried, earned>>

\* revertTransaction or applyTransactionEffects for a digest that reset() dropped: it throws.
NotFound(t) ==
    /\ progress[t] = "committed" /\ t \notin Range(pendingDigests)
    /\ progress' = [progress EXCEPT ![t] = "over"]
    /\ UNCHANGED <<settings, pendingDigests, granted, grants, carried, earned>>

\* #removePendingDigest
Forget(t) ==
    /\ progress[t] = "committed" /\ t \in Range(pendingDigests)
    /\ pendingDigests' = RemoveFirst(pendingDigests, t)
    /\ UNCHANGED <<granted, grants, carried>>

\* revertTransaction, after a failure
Revert(t) ==
    /\ Forget(t)
    /\ Ends(t, Booked(t, [settings EXCEPT !.remainingTransactions = @ + 1], Outflows[t]), "over")
    /\ UNCHANGED earned

\* Mutant: the estimate is not given back before the real changes are booked.
GivenBackNot(t) == [settings |-> settings, thrown |-> FALSE]
\* #revertCoinFlows, in applyTransactionEffects
GivenBack(t) == Booked(t, settings, Outflows[t])

\* applyTransactionEffects.  The loop books every balance change of the answer: those of
\* recipients, those above 0 and those of coin types that were not analysed too.
Apply(t) ==
    /\ Forget(t)
    /\ \E changes \in Executions[t] :
          LET back == GivenBack(t)
          IN /\ Ends(t, IF back.thrown THEN back ELSE Booked(t, back.settings, changes), "over")
             /\ earned' = [c \in CoinTypes |-> earned[c] + TotalOf(changes, c)]

Reserved(c) == MapThenSumSet(LAMBDA t : OutflowOf(t, c), Range(pendingDigests))

\* updateSettings, which leaves what is pending alone, and reset, which drops it; both at any
\* time
Choose(s) ==
    /\ grants < MaxGrants /\ grants' = grants + 1
    /\ settings' = s /\ granted' = s
    /\ pendingDigests' = IF s = NoSettings THEN <<>> ELSE pendingDigests
    /\ carried' = IF s = NoSettings THEN NothingOf ELSE [c \in CoinTypes |-> Reserved(c)]
    /\ earned' = NothingOf
    /\ progress' = [t \in Payments |-> IF progress[t] = "thrown" THEN "over" ELSE progress[t]]

ApprovalsNext ==
    \/ \E t \in Payments : Approve(t) \/ NotFound(t) \/ Revert(t) \/ Apply(t)
    \/ \E s \in Grants \cup {NoSettings} : Choose(s)

ApprovalsSpec == ApprovalsInit /\ [][ApprovalsNext]_approvals

-----------------------------------------------------------------------------
\* No coin budget is ever below 0: whatever was pending, was given back, was refunded, threw
\* half-way or was pending from before the settings were chosen, a transaction is approved
\* only for what is left and its answer takes no more than it had reserved.
NeverOverdrawn ==
    settings # NoSettings =>
        \A c \in DOMAIN settings.coinBudgets : settings.coinBudgets[c] >= 0

\* Nothing is booked twice or not at all: what is left of the budgets is what was granted,
\* plus all balance changes of the executions, less what is reserved; the reservations made
\* under earlier settings, which are given back to these, come on top.  Unless a booking
\* threw on its way, after which the budgets add up again only with new settings.
BudgetsAddUp ==
    granted # NoSettings /\ (\A t \in Payments : progress[t] # "thrown") =>
        /\ \A c \in DOMAIN granted.coinBudgets :
              settings.coinBudgets[c] =
                 granted.coinBudgets[c] + carried[c] + earned[c] - Reserved(c)
        /\ LET shared == CoinTypes \ DOMAIN granted.coinBudgets
           IN settings.sharedBudget =
                 granted.sharedBudget
                    + MapThenSumSet(LAMBDA c : carried[c] + earned[c] - Reserved(c), shared)
=============================================================================
