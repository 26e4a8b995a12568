-------------------------- MODULE WalletConnection --------------------------
(***************************************************************************)
(* The connection of a dapp to a wallet (packages/dapp-kit-next/packages/  *)
(* dapp-kit-core/src/core).  Connecting, disconnecting and autoconnecting  *)
(* ask the wallet and write the connection when it answers; wallets come,  *)
(* go and change their accounts meanwhile, calls and autoconnects cross;   *)
(* every change of status is saved in the storage, from which a page that  *)
(* is reloaded, which may be at any time, restores the connection.         *)
(***************************************************************************)
EXTENDS Integers, FiniteSets, FiniteSetsExt

CONSTANTS
    Wallets,
    Accounts,  \* numbers of the accounts of a wallet, in its order
    Answers,   \* the sets of accounts a wallet may have or authorize
    NoWallet,
    Connects,  \* bound: calls of connectWallet at the same time
    Restores   \* bound: autoconnects at the same time that have found an account

ASSUME WalletsAssumption == NoWallet \notin Wallets

VARIABLES
    compatible,  \* $compatibleWallets
    status,      \* $baseConnection: status
    current,     \* $baseConnection: currentAccount
    asked,       \* what each call of connectWallet awaits, Nothing when it does not
    leaving,     \* is a disconnectWallet waiting for the wallet?
    restoring,   \* what each autoconnect found in the storage, or Nothing
    saved,       \* the storage: an account or None
    chosen,      \* the wallet the user connected last and has not disconnected
    course       \* whether calls have crossed: "undisturbed", "disturbed" or "recovering"

walletConnection ==
    <<compatible, status, current, asked, leaving, restoring, saved, chosen, course>>

Account(w, n) == [wallet |-> w, number |-> n]
None == Account(NoWallet, 0)
Nothing == [for |-> None, again |-> FALSE, present |-> FALSE]

ConnectionInit ==
    /\ compatible = {} /\ status = "disconnected" /\ current = None
    /\ asked = [c \in Connects |-> Nothing]
    /\ leaving = FALSE /\ restoring = [r \in Restores |-> Nothing]
    /\ saved = None /\ chosen = NoWallet /\ course = "undisturbed"

NothingCalled == (\A c \in Connects : asked[c] = Nothing) /\ ~ leaving
Idle == NothingCalled /\ \A r \in Restores : restoring[r] = Nothing

\* A call that starts while another one or an autoconnect is under way disturbs it, and
\* an autoconnect that starts during a call does; whichever comes last decides then.  The
\* first call after that which nothing crosses may set it right.
Started == course' = IF ~ Idle THEN "disturbed"
                     ELSE IF course = "disturbed" THEN "recovering" ELSE course
Done == course' = IF course = "recovering" THEN "undisturbed" ELSE course
InVain == course' = IF course = "recovering" THEN "disturbed" ELSE course

InUse(s) == s \in {"connected", "reconnecting"}
\* $connection.wallet: the store forgets it while it is connecting
Associated == IF InUse(status) THEN current.wallet ELSE NoWallet

\* getAssociatedWalletOrThrow: $connection throws in the middle of an update when the wallet
\* of a connection in use is not there, or no account is.  Its listeners miss the update,
\* and what the stores do from then on is not modelled, up to the next load of the page.
Throws(s, a) == InUse(s) /\ a.wallet \notin compatible
Broken == Throws(status, current)

\* Mutant: only the end of a connect is saved.
SavedWhenConnected(s, a) == IF s = "connected" THEN a ELSE saved
\* syncStateToStorage: a change of status saves the account, or removes it.
Saved(s, a) == IF s = status \/ Throws(s, a) THEN saved ELSE a

Become(s, a) == status' = s /\ current' = a /\ saved' = Saved(s, a)

-----------------------------------------------------------------------------
\* connectWallet, up to the answer of the wallet.  The user chooses an account or
\* leaves it to the wallet (number 0).
ConnectWallet(c, w, n) ==
    /\ asked[c] = Nothing /\ w \in compatible /\ Started
    /\ LET again == status = "connected"
           call == [for |-> Account(w, n), again |-> again, present |-> FALSE]
       IN /\ asked' = [asked EXCEPT ![c] = call]
          /\ Become(IF again THEN "reconnecting" ELSE "connecting", current)
    /\ UNCHANGED <<compatible, leaving, restoring, chosen>>

\* account ?? accounts[0], which may be undefined
Selected(call, granted) ==
    IF call.for.number # 0 THEN call.for
    ELSE IF granted = {} THEN None ELSE Account(call.for.wallet, Min(granted))

\* The wallet answers.  Accounts must be authorized unless a wallet was connected.
Connected(c) ==
    /\ asked[c] # Nothing
    /\ asked' = [asked EXCEPT ![c] = Nothing]
    /\ \E granted \in Answers :
           /\ granted # {} \/ asked[c].again
           /\ Become("connected", Selected(asked[c], granted))
    /\ chosen' = asked[c].for.wallet /\ Done
    /\ UNCHANGED <<compatible, leaving, restoring>>

\* The user refuses, or no account is authorized: the status from before is restored.
ConnectFails(c) ==
    /\ asked[c] # Nothing /\ InVain
    /\ asked' = [asked EXCEPT ![c] = Nothing]
    /\ Become(IF asked[c].again THEN "connected" ELSE "disconnected", current)
    /\ UNCHANGED <<compatible, leaving, restoring, chosen>>

DisconnectWallet ==
    /\ Associated # NoWallet /\ ~ leaving /\ Started
    /\ leaving' = TRUE
    /\ UNCHANGED <<compatible, status, current, asked, restoring, saved, chosen>>

\* The connection is over.
Reset == Become("disconnected", None)

\* Whether the wallet has agreed or not.
Disconnected ==
    /\ leaving /\ leaving' = FALSE
    /\ Reset
    /\ chosen' = NoWallet /\ Done
    /\ UNCHANGED <<compatible, asked, restoring>>

\* switchAccount: any account of the wallet; the status stays, so it is not saved.
SwitchAccount(n) ==
    /\ Associated # NoWallet
    /\ current' = Account(Associated, n)
    /\ UNCHANGED <<compatible, status, asked, leaving, restoring, saved, chosen,
                   course>>

-----------------------------------------------------------------------------
\* resolveWalletAccount: the account itself, or the first one of its wallet
Resolved(cs, as) ==
    LET w == current.wallet
    IN IF w \notin cs \/ as[w] = {} THEN None
       ELSE IF current.number \in as[w] THEN current ELSE Account(w, Min(as[w]))

\* manageWalletConnection: a connection follows its wallet, or ends with it.
Follow(cs, as) ==
    IF status # "connected" THEN UNCHANGED <<status, current, saved>>
    ELSE IF Resolved(cs, as) = None THEN Reset
    ELSE Become(status, Resolved(cs, as))

\* What autoconnect finds in the storage, and whether the wallet has the account.
FoundAccount(stored, cs, as) ==
    IF stored = None \/ stored.wallet \notin cs THEN Nothing
    ELSE [for |-> stored, again |-> FALSE, present |-> stored.number \in as[stored.wallet]]

\* The account that was found is looked for.
LookFor(found) ==
    IF found = Nothing THEN UNCHANGED <<restoring, course>>
    ELSE /\ \E r \in Restores : /\ restoring[r] = Nothing
                                /\ restoring' = [restoring EXCEPT ![r] = found]
         /\ course' = IF NothingCalled THEN course ELSE "disturbed"

\* autoConnectWallet: whenever wallets change and their number does not shrink.  The
\* storage is read in that turn; whether before or after a connection that ends
\* with this change is noticed is left open.
Autoconnect(cs, as) ==
    IF Cardinality(cs) < Cardinality(compatible) THEN UNCHANGED <<restoring, course>>
    ELSE \/ /\ \/ status = "disconnected"
               \/ status = "connected" /\ Resolved(cs, as) = None
            /\ LookFor(FoundAccount(saved, cs, as))
         \/ status # "disconnected" /\ UNCHANGED <<restoring, course>>

\* Wallets are registered or unregistered, fit the network or not, or change their
\* accounts (wallet.accounts, which nothing keeps), at any time.
WalletsChange ==
    /\ \E cs \in SUBSET Wallets : \E as \in [cs -> Answers] :
           compatible' = cs /\ Follow(cs, as) /\ Autoconnect(cs, as)
    /\ UNCHANGED <<asked, leaving, chosen>>

\* Autoconnect has the account at once or asks the wallet silently; that may fail or
\* authorize other accounts.
Restored(r) ==
    /\ restoring[r] # Nothing /\ restoring' = [restoring EXCEPT ![r] = Nothing]
    /\ \/ /\ \/ restoring[r].present
             \/ \E granted \in Answers : restoring[r].for.number \in granted
          /\ Become("connected", restoring[r].for)
       \/ UNCHANGED <<status, current, saved>>
    /\ UNCHANGED <<compatible, asked, leaving, chosen, course>>

\* The page is loaded again: only the storage is left.  The wallets come one after the
\* other or all at once.
Reload ==
    /\ compatible' = {} /\ status' = "disconnected" /\ current' = None
    /\ asked' = [c \in Connects |-> Nothing] /\ leaving' = FALSE
    /\ restoring' = [r \in Restores |-> Nothing]
    /\ course' = IF Broken \/ course = "recovering" THEN "disturbed" ELSE course
    /\ UNCHANGED <<saved, chosen>>

PageNext ==
    \/ \E c \in Connects : \/ \E w \in Wallets, n \in Accounts \cup {0} : ConnectWallet(c, w, n)
                           \/ Connected(c) \/ ConnectFails(c)
    \/ DisconnectWallet \/ Disconnected
    \/ \E n \in Accounts : SwitchAccount(n)
    \/ WalletsChange
    \/ \E r \in Restores : Restored(r)

ConnectionNext == (~ Broken /\ PageNext) \/ Reload

ConnectionSpec == ConnectionInit /\ [][ConnectionNext]_walletConnection

-----------------------------------------------------------------------------
\* store.ts:18-27: a connection has an account just when it is established, whichever
\* calls fail, wallets disappear or pages are reloaded on the way.
StatusFitsAccount == InUse(status) <=> current # None

\* The storage and the connection agree: what a reload would restore is the wallet the
\* user chose and has not left since, and while a connection lasts it is that of the
\* account in use.  Calls that crossed may spoil this, until a call that nothing crossed
\* has connected or disconnected a wallet; then all agrees again.
SavedWalletIsChosen ==
    course = "undisturbed" /\ ~ Broken =>
        /\ StatusFitsAccount
        /\ saved # None => saved.wallet = chosen
        /\ InUse(status) => saved.wallet = current.wallet
=============================================================================
