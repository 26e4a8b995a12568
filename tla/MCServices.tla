----------------------------- MODULE MCServices -----------------------------
(***************************************************************************)
(* Clients of services and wallets, and decisions of a wallet.  They share *)
(* no state: every behaviour is one of a single part.                      *)
(***************************************************************************)
EXTENDS WebsocketClient, DataLoader, KeyFetch, AuthSession, CoinFlows, AutoApprovals,
        WalletConnection, StorageQuorums, StorageCommittee, TLC

VARIABLE part   \* the part this behaviour is about

\* Key servers of different weight and two calls for overlapping ids, one of which
\* can be satisfied without the heavy server.
CONSTANTS s1, s2, s3, f1, f2, i1, i2
MCWeight == s1 :> 2 @@ s2 :> 1 @@ s3 :> 1
MCWanted == f1 :> {i1} @@ f2 :> {i1, i2}
MCThreshold == f1 :> 3 @@ f2 :> 2

\* Two coin objects, one of the type of gas; transactions with outflows of one to three
\* types, a type without a price and an outflow of 0 among them.
CONSTANTS MYSO, USDC, NFT, p1, p2, p3
MCInputType == <<MYSO, USDC>>
MCSplits == {<<1>>, <<1, 2>>}
Flow(c, n) == [coin |-> c, amount |-> n]
MCOutflows == p1 :> <<Flow(MYSO, 2), Flow(USDC, 1)>> @@ p2 :> <<Flow(MYSO, 1), Flow(NFT, 0)>>
              @@ p3 :> <<Flow(USDC, 2), Flow(NFT, 1), Flow(MYSO, 1)>>
\* Answers that take all, take less, pay a recipient whose coins have a budget too, and hold
\* a coin type without a value between others.
MCExecutions ==
    p1 :> {<<Flow(MYSO, -2), Flow(USDC, -1), Flow(MYSO, 2)>>, <<Flow(MYSO, -1)>>,
           <<Flow(USDC, -1), Flow(NFT, 1), Flow(MYSO, -2)>>}
    @@ p2 :> {<<Flow(MYSO, -1)>>, <<Flow(MYSO, -1), Flow(USDC, 1)>>}
    @@ p3 :> {<<>>, <<Flow(USDC, -2), Flow(NFT, -1), Flow(MYSO, -1)>>}
Grant(n, budgets, shared) ==
    [remainingTransactions |-> n, coinBudgets |-> budgets, sharedBudget |-> shared,
     sharing |-> shared > 0]
MCGrants == {Grant(2, MYSO :> 2, 2), Grant(3, MYSO :> 3 @@ NFT :> 1, 2),
             Grant(3, MYSO :> 4 @@ USDC :> 3, 0)}

\* A committee of four nodes with 7 shards, of which 2 may be faulty, so one node; 5 are a
\* quorum, 3 are enough slivers.  One failure does not decide a call.
CONSTANTS n1, n2, n3, n4
MCHolder == <<n1, n1, n2, n2, n3, n3, n4>>
\* The orders in which nodes are asked, up to exchanging n1, n2 and n3, which are alike.
MCOrders == {<<n1, n2, n3, n4>>, <<n1, n2, n4, n3>>, <<n1, n4, n2, n3>>, <<n4, n1, n2, n3>>}
MCQuorumsInit == /\ QuorumsInit
                 /\ kind \in {"metadata", "slivers"} =>
                       \E order \in MCOrders : lanes = Lanes(kind, order)

NoCall == /\ kind = "none" /\ limit = 0 /\ truth = "ok" /\ faulty = {} /\ lanes = <<>>
          /\ caught = {} /\ told = <<>> /\ errors = 0 /\ failed = {} /\ outcome = "ok"

Others(p) == /\ p # "websocket" => UNCHANGED websocket
             /\ p # "loader" => UNCHANGED loader
             /\ p # "keyfetch" => UNCHANGED keyfetch
             /\ p # "auth" => UNCHANGED auth
             /\ p # "flows" => UNCHANGED flows
             /\ p # "approvals" => UNCHANGED approvals
             /\ p # "connection" => UNCHANGED walletConnection
             /\ p # "quorums" => UNCHANGED quorums
             /\ p # "committees" => UNCHANGED committees

MCInit ==
    /\ part \in {"websocket", "loader", "keyfetch", "auth", "flows", "approvals", "connection",
                "quorums", "committees"}
    /\ WebsocketInit /\ LoaderInit /\ FetchInit /\ AuthInit /\ FlowsInit /\ ApprovalsInit
    /\ ConnectionInit /\ CommitteeInit
    /\ IF part = "quorums" THEN MCQuorumsInit ELSE NoCall

MCNext ==
    /\ UNCHANGED part
    /\ \/ part = "websocket" /\ WebsocketNext
       \/ part = "loader" /\ LoaderNext
       \/ part = "keyfetch" /\ FetchNext
       \/ part = "auth" /\ AuthNext
       \/ part = "flows" /\ FlowsNext
       \/ part = "approvals" /\ ApprovalsNext
       \/ part = "connection" /\ ConnectionNext
       \/ part = "quorums" /\ QuorumsNext
       \/ part = "committees" /\ CommitteeNext
    /\ Others(part)

\* Actions of the other parts are never enabled, so their fairness asks for nothing.
MCSpec == /\ MCInit
          /\ [][MCNext]_<<part, websocket, loader, keyfetch, auth, flows, approvals,
                         walletConnection, quorums, committees>>
          /\ WebsocketFairness /\ LoaderFairness /\ QuorumsFairness
=============================================================================
