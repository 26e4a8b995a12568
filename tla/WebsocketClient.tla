--------------------------- MODULE WebsocketClient ---------------------------
(***************************************************************************)
(* JSON-RPC over one web socket at a time (packages/myso/src/jsonRpc/      *)
(* rpc-websocket-client.ts): requests wait for the connection, are         *)
(* answered or time out; subscriptions are renewed whenever the client     *)
(* reconnects.  (Requests of other kinds behave like those that            *)
(* unsubscribe.)  Connections are numbered in order; a server numbers its  *)
(* subscriptions anew on each, so the same number comes back.              *)
(***************************************************************************)
EXTENDS Integers, Sequences, FiniteSets, SequencesExt

CONSTANTS
    Subs,            \* subscriptions the application makes
    MaxReconnects,   \* options.maxReconnects
    MaxConnections   \* bound: connections
ASSUME SubsAssumption == IsFiniteSet(Subs)

VARIABLES
    socket,          \* the socket of #webSocket: none, connecting, open or closed
    connection,      \* its number, 0 before the first
    connecting,      \* is #connectionPromise its promise, rather than null?
    opened,          \* connections whose promise has resolved
    disconnects,     \* #disconnects
    timer,           \* the timer of #reconnect runs
    requests,        \* calls of makeRequest, in order
    requestId,       \* #requestId
    pendingRequests, \* ids in #pendingRequests whose request has not settled
    subscription,    \* the RpcSubscription of each, once in #subscriptions
    server           \* subscriptions of the current connection at the server

websocket == <<socket, connection, connecting, opened, disconnects, timer, requests,
               requestId, pendingRequests, subscription, server>>

Null == 0   \* no subscription id; servers count from 1

WebsocketInit ==
    /\ socket = "none" /\ connection = 0 /\ connecting = FALSE /\ opened = {}
    /\ disconnects = 0 /\ timer = FALSE
    /\ requests = <<>> /\ requestId = 0 /\ pendingRequests = {}
    /\ subscription = [s \in Subs |-> [known |-> FALSE, subscribed |-> FALSE, id |-> Null]]
    /\ server = <<>>

\* makeRequest.  Its await of a connection that is open, or was, ends before anything
\* else happens, so the message goes out at once; a closed socket drops it.  Otherwise
\* #setupWebSocket makes a socket unless there is one, and the request waits for it.
Ready == connecting /\ connection \in opened
MakeRequests(kind, senders, arg) ==
    /\ requests' = requests \o
           [i \in DOMAIN senders |->
               [kind |-> kind, of |-> senders[i], arg |-> arg,
                conn |-> IF connecting THEN connection ELSE connection + 1,
                id |-> IF Ready THEN requestId + i ELSE 0,
                state |-> IF Ready THEN "sent" ELSE "waiting"]]
    /\ IF Ready THEN /\ requestId' = requestId + Len(senders)
                     /\ pendingRequests' = pendingRequests \cup (requestId + 1) .. requestId'
                ELSE UNCHANGED <<requestId, pendingRequests>>
    /\ IF connecting \/ senders = <<>>
       THEN UNCHANGED <<socket, connection, connecting, server>>
       ELSE /\ connection < MaxConnections
            /\ connection' = connection + 1
            /\ socket' = "connecting" /\ connecting' = TRUE /\ server' = <<>>

\* (Subscriptions are alike: the next one made is called the first unknown.)
Subscribe(s) ==
    /\ ~ subscription[s].known
    /\ s = CHOOSE u \in Subs : ~ subscription[u].known
    /\ subscription' = [subscription EXCEPT ![s] =
                          [known |-> TRUE, subscribed |-> TRUE, id |-> Null]]
    /\ MakeRequests("subscribe", <<s>>, Null)
    /\ UNCHANGED <<opened, disconnects, timer>>

\* The application has the function to unsubscribe once its first request is answered.
Unsubscribe(s) ==
    /\ subscription[s].subscribed
    /\ LET first == {r \in DOMAIN requests : requests[r].of = s}
       IN \E r \in first : requests[r].state = "done" /\ \A q \in first : r <= q
    /\ subscription' = [subscription EXCEPT ![s].subscribed = FALSE, ![s].id = Null]
    /\ LET senders == IF subscription[s].id = Null THEN <<>> ELSE <<s>>
       IN MakeRequests("unsubscribe", senders, subscription[s].id)
    /\ UNCHANGED <<opened, disconnects, timer>>

-----------------------------------------------------------------------------
\* The requests that wait for the connection send their messages, in order.
Open ==
    /\ socket = "connecting"
    /\ socket' = "open"
    /\ opened' = opened \cup {connection}
    /\ disconnects' = 0
    /\ LET Waits(r) == requests[r].conn = connection
           Id(r) == requestId + Cardinality({q \in 1 .. r : Waits(q)})
       IN /\ requests' = [r \in DOMAIN requests |->
                IF Waits(r) THEN [requests[r] EXCEPT !.state = "sent", !.id = Id(r)]
                             ELSE requests[r]]
          /\ requestId' = Id(Len(requests))
          /\ pendingRequests' = pendingRequests \cup (requestId + 1) .. requestId'
    /\ UNCHANGED <<connection, connecting, timer, subscription, server>>

\* What the server still had to do for this connection is void.
Close ==
    /\ socket \in {"connecting", "open"}
    /\ socket' = "closed"
    /\ disconnects' = disconnects + 1
    /\ timer' = (disconnects + 1 <= MaxReconnects)
    /\ server' = <<>>
    /\ requests' = [r \in DOMAIN requests |->
                      [requests[r] EXCEPT !.state = IF @ = "late" THEN "failed" ELSE @]]
    /\ UNCHANGED <<connection, connecting, opened, requestId, pendingRequests, subscription>>

\* Mutant: a subscription keeps its id until the new one is known.
RenewedLater(s) == [subscription[s] EXCEPT !.subscribed = @ \/ subscription[s].known]
\* RpcSubscription.subscribe, up to its await
Renewed(s) == IF subscription[s].known
              THEN [subscription[s] EXCEPT !.subscribed = TRUE, !.id = Null] ELSE subscription[s]

\* Mutant: only those that have a number.
ToRenewNumbered == {s \in Subs : subscription[s].id # Null}
\* #subscriptions: nothing is ever taken out.
ToRenew == {s \in Subs : subscription[s].known}

\* #reconnect: every subscription there ever was is made again, on one new socket.
Reconnect ==
    /\ timer /\ timer' = FALSE
    /\ LET known == SetToSeq(ToRenew)
       IN /\ connecting' = (known # <<>>)
          /\ IF known = <<>> THEN UNCHANGED <<socket, connection, server, requests>>
             ELSE /\ connection < MaxConnections
                  /\ connection' = connection + 1
                  /\ socket' = "connecting" /\ server' = <<>>
                  /\ requests' = requests \o
                       [i \in DOMAIN known |->
                           [kind |-> "subscribe", of |-> known[i], arg |-> Null,
                            conn |-> connection + 1, id |-> 0, state |-> "waiting"]]
    /\ subscription' = [s \in Subs |-> Renewed(s)]
    /\ UNCHANGED <<opened, disconnects, requestId, pendingRequests>>

\* An answer arrives on the open connection, also when its request was rejected in the
\* meantime.  Without an entry it is dropped.  (The entry stays, to no effect.)
Arrives(r) ==
    /\ requests[r].state \in {"sent", "late"} /\ socket = "open" /\ requests[r].conn = connection
    /\ pendingRequests' = pendingRequests \ {requests[r].id}
    /\ UNCHANGED <<socket, connection, connecting, opened, disconnects, timer, requestId>>
Found(r) == requests[r].state = "sent" /\ requests[r].id \in pendingRequests
Concluded(r, found) ==
    requests' = [requests EXCEPT ![r].state = CASE @ = "late" -> "failed"
                                                [] Found(r)   -> found
                                                [] OTHER      -> "dropped"]

\* The server has obeyed.
Answer(r) ==
    /\ Arrives(r) /\ Concluded(r, "done")
    /\ server' = CASE requests[r].kind = "subscribe" -> Append(server, requests[r].of)
                   [] requests[r].kind = "unsubscribe" -> [server EXCEPT ![requests[r].arg] = Null]
    /\ LET s == requests[r].of
       IN IF Found(r) /\ requests[r].kind = "subscribe" /\ subscription[s].subscribed
          THEN subscription' = [subscription EXCEPT ![s].id = Len(server')]
          ELSE UNCHANGED subscription

\* The server has answered with an error.
Refuse(r) == Arrives(r) /\ Concluded(r, "failed") /\ UNCHANGED <<server, subscription>>

\* Mutant: the timer rejects the request it deletes.
TimedOutLast(r) == CHOOSE q \in DOMAIN requests : requests[q].id = requestId
\* The promise a timer rejects is that of its own request.
TimedOut(r) == r

\* The server may still act on a message it was sent; of these, a late subscription
\* takes a number.
Overdue(r) == IF requests[r].kind = "subscribe" THEN "late" ELSE "failed"

\* What a timer or a signal does: it deletes the entry of the latest request,
\* whichever that is, and rejects its own.
DeleteAndReject(r) ==
    /\ pendingRequests' = pendingRequests \ {requestId, requests[r].id}
    /\ requests' = [requests EXCEPT ![TimedOut(r)].state =
                       CASE @ = "sent" -> Overdue(r) [] @ = "dropped" -> "failed" [] OTHER -> @]
    /\ UNCHANGED <<socket, connection, connecting, opened, disconnects, timer, requestId,
                   subscription, server>>

Timeout(r) == requests[r].state \in {"sent", "dropped"} /\ DeleteAndReject(r)

\* The signal of a subscription that was answered long ago is listened to for ever.
\* (That of one that is under way does what the timer does.)
Abort(r) ==
    /\ requests[r].kind = "subscribe" /\ requests[r].state = "done"
    /\ requestId \in pendingRequests
    /\ DeleteAndReject(r)

-----------------------------------------------------------------------------
WebsocketNext ==
    \/ \E s \in Subs : Subscribe(s) \/ Unsubscribe(s)
    \/ Open \/ Close \/ Reconnect
    \/ \E r \in DOMAIN requests : Answer(r) \/ Refuse(r) \/ Timeout(r) \/ Abort(r)

\* Connections open or fail, and timers run; nobody promises an answer.
\* Each connection sees every subscription made once and undone once, at most.
MaxRequests == 2 * Cardinality(Subs) * MaxConnections
WebsocketFairness ==
    /\ WF_websocket(Open \/ Close) /\ WF_websocket(Reconnect)
    /\ \A r \in 1 .. MaxRequests :
          WF_websocket(r \in DOMAIN requests /\ Timeout(r))

WebsocketSpec == WebsocketInit /\ [][WebsocketNext]_websocket /\ WebsocketFairness

-----------------------------------------------------------------------------
\* A notification reaches the subscriber who asked for it: whoever holds number n holds
\* what the server of this connection calls n, although numbers of earlier connections
\* come back, requests were answered late or not, and others have unsubscribed.
RightSubscriber ==
    \A s \in Subs : socket = "open" /\ subscription[s].subscribed /\ subscription[s].id # Null =>
        subscription[s].id \in DOMAIN server /\ server[subscription[s].id] = s

\* A reconnection leaves no subscriber behind: one that is subscribed but has no number
\* on an open connection has a request there that is under way or was rejected.
NobodyIsForgotten ==
    \A s \in Subs : socket = "open" /\ subscription[s].subscribed /\ subscription[s].id = Null =>
        \E r \in DOMAIN requests :
            /\ requests[r].kind = "subscribe" /\ requests[r].of = s
            /\ requests[r].conn = connection /\ requests[r].state # "done"

\* In the end every request that was sent is answered or rejected, also when its
\* entry was deleted by the timer of another one or its answer is lost.
EverySentRequestSettles ==
    <>[](\A r \in DOMAIN requests :
            requests[r].conn \in opened => requests[r].state \in {"done", "failed", "late"})
=============================================================================
