--------------------------- MODULE ServiceProofs ---------------------------
(***************************************************************************)
(* What the clients of services promise, for any number of calls, sessions *)
(* and keys; and what the client of the file storage promises, for any     *)
(* number of calls, nodes and shards: the committees it works with, and    *)
(* what it concludes from the answers of the nodes.                        *)
(***************************************************************************)
EXTENDS WebsocketClient, DataLoader, AuthSession, KeyFetch,
        StorageCommittee, StorageQuorums, CollectionLemmas

-----------------------------------------------------------------------------
(* The session of an auth client.                                           *)

RefreshStates == {"sent", "granted", "revoked", "failed", "kept", "over"}
Refresh == [of : Nat, state : RefreshStates, new : Nat, again : BOOLEAN, stray : BOOLEAN]

AuthTyped ==
  /\ session \in 0..issued /\ issued \in Nat
  /\ refreshPromise \in Nat
  /\ refreshes \in Seq(Refresh)
  /\ signOuts \in Nat

\* Only strays are under way beside the one in refreshPromise.
PromiseIsKept == \A r \in UnderWay : refreshes[r].stray \/ r = refreshPromise

\* The session of an answer that has not arrived is accepted, and known to nobody.
Granted == {r \in DOMAIN refreshes : refreshes[r].state = "granted"}
AnswersAreFresh ==
  /\ \A r \in DOMAIN refreshes : refreshes[r].of <= issued /\ refreshes[r].new <= issued
  /\ \A r \in Granted :
       /\ refreshes[r].new \in live \ {0, session}
       /\ \A q \in DOMAIN refreshes : refreshes[q].of # refreshes[r].new
       /\ \A q \in Granted : refreshes[q].new = refreshes[r].new => q = r

AuthInv == AuthTyped /\ PromiseIsKept /\ AnswersAreFresh /\ TokenIsCurrent

\* Before anybody signs in, no token is current and none is asked for.
LEMMA AuthBegins == AuthInit => AuthInv
<1> SUFFICES ASSUME AuthInit PROVE AuthInv
  OBVIOUS
<1>1. refreshes \in Seq(Refresh) /\ DOMAIN refreshes = {}
  BY DEF AuthInit
<1> QED
  BY <1>1 DEF AuthInit, AuthInv, AuthTyped, PromiseIsKept, AnswersAreFresh, TokenIsCurrent,
              UnderWay, Granted

\* A request, and the list of them with one more.
LEMMA RefreshesAre ==
  ASSUME AuthTyped
  PROVE  /\ DOMAIN refreshes = 1..Len(refreshes) /\ Len(refreshes) \in Nat
         /\ \A r \in DOMAIN refreshes : refreshes[r] \in Refresh
         /\ \A rs \in Seq(Refresh), x \in Refresh :
              /\ Append(rs, x) \in Seq(Refresh)
              /\ DOMAIN Append(rs, x) = 1..Len(rs) + 1 /\ Len(Append(rs, x)) = Len(rs) + 1
              /\ \A r \in 1..Len(rs) : Append(rs, x)[r] = rs[r]
              /\ Append(rs, x)[Len(rs) + 1] = x
<1>1. refreshes \in Seq(Refresh)
  BY DEF AuthTyped
<1>2. /\ DOMAIN refreshes = 1..Len(refreshes) /\ Len(refreshes) \in Nat
      /\ \A r \in DOMAIN refreshes : refreshes[r] \in Refresh
  BY <1>1, LenProperties, ElementOfSeq
<1>3. ASSUME NEW rs \in Seq(Refresh), NEW x \in Refresh
      PROVE  /\ Append(rs, x) \in Seq(Refresh)
             /\ DOMAIN Append(rs, x) = 1..Len(rs) + 1 /\ Len(Append(rs, x)) = Len(rs) + 1
             /\ \A r \in 1..Len(rs) : Append(rs, x)[r] = rs[r]
             /\ Append(rs, x)[Len(rs) + 1] = x
  BY AppendProperties, LenProperties
<1> QED
  BY <1>2, <1>3

\* Sessions come and go while requests stay as they are.
LEMMA SessionChanges ==
  ASSUME AuthInv, UNCHANGED <<refreshPromise, refreshes>>,
         SignIn \/ SignOut \/ Expire
         \/ (session' = 0 /\ UNCHANGED <<signOuts, issued, bare, live>>)
  PROVE  AuthInv'
<1>1. AuthTyped'
  BY DEF AuthInv, AuthTyped, SignIn, SignOut, Expire
<1>2. PromiseIsKept'
  BY DEF AuthInv, PromiseIsKept, UnderWay
<1>3. \A r \in DOMAIN refreshes : refreshes[r].new \in Nat /\ refreshes[r].of \in Nat
  BY RefreshesAre DEF AuthInv, Refresh
<1>4. AnswersAreFresh'
  BY <1>3 DEF AuthInv, AuthTyped, AnswersAreFresh, Granted, SignIn, SignOut, Expire
<1>5. TokenIsCurrent'
  BY DEF AuthInv, AuthTyped, TokenIsCurrent, SignIn, SignOut, Expire
<1> QED
  BY <1>1, <1>2, <1>4, <1>5 DEF AuthInv

\* One request goes on: it is answered, or its answer is lost.
LEMMA RequestGoesOn ==
  ASSUME AuthInv, NEW r \in DOMAIN refreshes, Serve(r) \/ Lose(r)
  PROVE  AuthInv'
<1> USE DEF AuthInv, RefreshStates
<1>1. refreshes[r] \in Refresh
  BY RefreshesAre
<1>2. PICK x \in Refresh :
        /\ refreshes' = [refreshes EXCEPT ![r] = x]
        /\ x.of = refreshes[r].of /\ x.again = refreshes[r].again /\ x.stray = refreshes[r].stray
        /\ x.state \in {"granted", "revoked", "failed"}
        /\ refreshes[r].state \in {"sent", "granted"}
        /\ IF x.state = "granted"
           THEN /\ x.new = issued + 1 /\ issued' = issued + 1
                /\ live' = (live \ {x.of}) \cup {issued + 1}
           ELSE x.new = refreshes[r].new /\ UNCHANGED <<issued, live>>
  <2>1. CASE Serve(r) /\ refreshes' = [refreshes EXCEPT ![r].state = "granted", ![r].new = issued']
             /\ issued' = issued + 1 /\ live' = (live \ {refreshes[r].of}) \cup {issued'}
    <3> DEFINE x == [refreshes[r] EXCEPT !.state = "granted", !.new = issued']
    <3> HIDE DEF AuthInv
    <3>1. x \in Refresh
      <4>1. issued' \in Nat
        BY <2>1 DEF AuthInv, AuthTyped
      <4> QED
        BY <1>1, <4>1 DEF Refresh
    <3>2. refreshes' = [refreshes EXCEPT ![r] = x]
      BY <2>1
    <3> QED
      BY <1>1, <2>1, <3>1, <3>2 DEF AuthInv, AuthTyped, Refresh, Serve
  <2>2. CASE (Serve(r) \/ Lose(r)) /\ UNCHANGED <<issued, live>>
             /\ \E s \in {"revoked", "failed"} : refreshes' = [refreshes EXCEPT ![r].state = s]
    <3>1. PICK s \in {"revoked", "failed"} : refreshes' = [refreshes EXCEPT ![r].state = s]
      BY <2>2
    <3> DEFINE x == [refreshes[r] EXCEPT !.state = s]
    <3>2. x \in Refresh
      BY <1>1 DEF Refresh
    <3>3. refreshes' = [refreshes EXCEPT ![r] = x]
      BY <3>1
    <3> QED
      BY <1>1, <2>2, <3>2, <3>3 DEF Refresh, Serve, Lose
  <2> QED
    BY <2>1, <2>2 DEF Serve, Lose
<1>3. /\ DOMAIN refreshes' = DOMAIN refreshes
      /\ refreshes'[r] = x /\ \A q \in DOMAIN refreshes \ {r} : refreshes'[q] = refreshes[q]
  BY <1>2
<1>4. UNCHANGED <<session, refreshPromise, signOuts, bare>>
  BY DEF Serve, Lose
<1>5. AuthTyped'
  <2>1. refreshes' \in Seq(Refresh)
    BY <1>2, RefreshesAre, ExceptSeq DEF AuthTyped
  <2> QED
    BY <1>2, <1>4, <2>1 DEF AuthTyped
<1>6. PromiseIsKept'
  BY <1>2, <1>3, <1>4 DEF PromiseIsKept, UnderWay
<1>7. /\ \A q \in DOMAIN refreshes : refreshes[q].new \in Nat /\ refreshes[q].of \in Nat
      /\ issued \in Nat /\ session \in 0..issued /\ x.new \in Nat /\ x.of \in Nat
  BY <1>2, RefreshesAre DEF Refresh, AuthTyped
<1>8. AnswersAreFresh'
  BY <1>2, <1>3, <1>4, <1>7 DEF AnswersAreFresh, Granted
<1>9. TokenIsCurrent'
  BY <1>2, <1>3, <1>4, <1>7 DEF TokenIsCurrent
<1> QED
  BY <1>5, <1>6, <1>8, <1>9

\* What the list of requests becomes: one may have ended, others have gone astray, and
\* one may have been added, for the session there is then.
NextRequests(ended, added) ==
  /\ refreshes' \in Seq(Refresh)
  /\ Len(refreshes') = Len(refreshes) + (IF added THEN 1 ELSE 0)
  /\ \A q \in DOMAIN refreshes :
       /\ refreshes'[q].of = refreshes[q].of /\ refreshes'[q].new = refreshes[q].new
       /\ q \in ended =>
            refreshes'[q].state = IF refreshes[q].state = "granted" THEN "kept" ELSE "over"
       /\ q \notin ended => refreshes'[q].state = refreshes[q].state
       /\ refreshes[q].stray => refreshes'[q].stray
  /\ added => /\ refreshPromise' = Len(refreshes') /\ session' # 0
              /\ refreshes'[Len(refreshes')].of = session'
              /\ refreshes'[Len(refreshes')].state = "sent"
              /\ refreshes'[Len(refreshes')].new = 0
              /\ ~ refreshes'[Len(refreshes')].stray

\* What else such a step has to see to.
LEMMA RequestsChange ==
  ASSUME AuthInv, NEW ended, NEW added \in BOOLEAN, NextRequests(ended, added),
         UNCHANGED <<issued, bare, live>>, signOuts' \in Nat, refreshPromise' \in Nat,
         \A q \in UnderWay \ ended : refreshes'[q].stray \/ (~added /\ q = refreshPromise'),
         \/ session' = 0
         \/ session' = session /\ signOuts' = signOuts /\ Granted \cap ended = {}
         \/ \E r \in Granted \cap ended : session' = refreshes[r].new
  PROVE  AuthInv'
<1>1. /\ DOMAIN refreshes = 1..Len(refreshes) /\ Len(refreshes) \in Nat
      /\ DOMAIN refreshes' = 1..Len(refreshes') /\ Len(refreshes') \in Nat
      /\ \A q \in DOMAIN refreshes' : refreshes'[q] \in Refresh
      /\ \A q \in DOMAIN refreshes : refreshes[q] \in Refresh
  BY RefreshesAre, LenProperties, ElementOfSeq DEF NextRequests, AuthInv
<1>2. /\ \A q \in DOMAIN refreshes : refreshes[q].of \in Nat /\ refreshes[q].new \in Nat
      /\ issued \in Nat /\ session \in 0..issued
  BY <1>1 DEF AuthInv, AuthTyped, Refresh
<1>3. \A r \in Granted : refreshes[r].new \in 1..issued
  BY <1>2 DEF AuthInv, AnswersAreFresh, Granted
<1>4. session' \in 0..issued
  BY <1>2, <1>3
<1>5. DOMAIN refreshes' = DOMAIN refreshes \cup (IF added THEN {Len(refreshes')} ELSE {})
  BY <1>1 DEF NextRequests
<1>6. /\ \A q \in DOMAIN refreshes :
           /\ refreshes'[q].of = refreshes[q].of /\ refreshes'[q].new = refreshes[q].new
           /\ q \in ended =>
            refreshes'[q].state = IF refreshes[q].state = "granted" THEN "kept" ELSE "over"
           /\ q \notin ended => refreshes'[q].state = refreshes[q].state
      /\ added => /\ refreshPromise' = Len(refreshes') /\ session' # 0
                  /\ refreshes'[Len(refreshes')].of = session'
                  /\ refreshes'[Len(refreshes')].state = "sent"
                  /\ refreshes'[Len(refreshes')].new = 0
                  /\ ~ refreshes'[Len(refreshes')].stray
      /\ Len(refreshes') \notin DOMAIN refreshes \/ ~added
  BY <1>1 DEF NextRequests
<1>7. AuthTyped'
  BY <1>2, <1>4 DEF AuthTyped, NextRequests
<1>8. PromiseIsKept'
  BY <1>5, <1>6 DEF PromiseIsKept, UnderWay
<1>9. Granted' = Granted \ ended
  BY <1>5, <1>6 DEF Granted
<1>10. AnswersAreFresh'
  <2>1. ASSUME NEW q \in DOMAIN refreshes'
        PROVE  refreshes'[q].of <= issued /\ refreshes'[q].new <= issued
    <3>1. CASE q \in DOMAIN refreshes
      BY <3>1, <1>6 DEF AuthInv, AnswersAreFresh
    <3>2. CASE added /\ q = Len(refreshes')
      BY <3>2, <1>2, <1>4, <1>6
    <3> QED
      BY <3>1, <3>2, <1>5
  <2>2. \A r \in Granted \ ended : refreshes[r].new # session'
    BY <1>2, <1>3 DEF AuthInv, AnswersAreFresh
  <2>3. \A r \in Granted \ ended : refreshes[r].new \in live \ {0, session'}
    BY <2>2 DEF AuthInv, AnswersAreFresh
  <2>4. ASSUME NEW r \in Granted \ ended, NEW q \in DOMAIN refreshes'
        PROVE  refreshes'[q].of # refreshes[r].new
    <3>1. CASE q \in DOMAIN refreshes
      BY <3>1, <1>6 DEF AuthInv, AnswersAreFresh
    <3>2. CASE added /\ q = Len(refreshes')
      BY <3>2, <2>3, <1>6
    <3> QED
      BY <3>1, <3>2, <1>5
  <2>5. \A q, r \in Granted \ ended : refreshes[q].new = refreshes[r].new => q = r
    BY DEF AuthInv, AnswersAreFresh
  <2> QED
    BY <1>6, <1>9, <2>1, <2>3, <2>4, <2>5 DEF AnswersAreFresh, Granted
<1>11. TokenIsCurrent'
  <2>1. CASE session' = 0
    BY <2>1 DEF TokenIsCurrent
  <2>2. CASE session' = session /\ signOuts' = signOuts /\ Granted \cap ended = {}
    BY <2>2, <1>5, <1>6 DEF AuthInv, TokenIsCurrent, Granted
  <2>3. CASE \E r \in Granted \cap ended : session' = refreshes[r].new
    BY <2>3 DEF AuthInv, AnswersAreFresh, TokenIsCurrent
  <2> QED
    BY <2>1, <2>2, <2>3
<1> QED
  BY <1>7, <1>8, <1>10, <1>11 DEF AuthInv

\* A stored session is loaded: its token is the newest of all.
LEMMA LoadingKeeps ==
  ASSUME AuthInv, NEW forced \in BOOLEAN, LoadSession(forced) PROVE AuthInv'
<1>1. CASE session' = 0 /\ UNCHANGED <<refreshPromise, refreshes>>
  BY <1>1, SessionChanges DEF LoadSession
<1>2. CASE ~(session' = 0 /\ UNCHANGED <<refreshPromise, refreshes>>)
  <2> DEFINE waits == forced /\ due
             n == Len(refreshes)
  <2>1. /\ session # 0 /\ session' = session
        /\ UNCHANGED <<signOuts, issued, bare, live>>
        /\ \/ /\ refreshPromise # 0 /\ refreshPromise' = refreshPromise
              /\ refreshes' = [refreshes EXCEPT ![refreshPromise].again = @ \/ waits]
           \/ /\ refreshPromise = 0 /\ refreshPromise' = Len(refreshes')
              /\ refreshes' = WithRequest(session, waits)
    BY <1>2 DEF LoadSession, Joined
  <2>2. /\ DOMAIN refreshes = 1..n /\ n \in Nat /\ refreshes \in Seq(Refresh)
        /\ \A r \in DOMAIN refreshes : refreshes[r] \in Refresh
        /\ session \in Nat /\ signOuts \in Nat /\ refreshPromise \in Nat
    BY RefreshesAre DEF AuthInv, AuthTyped
  <2>3. CASE refreshPromise # 0
    <3>1. /\ UNCHANGED refreshPromise
          /\ refreshes' = [refreshes EXCEPT ![refreshPromise].again = @ \/ waits]
      BY <2>1, <2>3
    <3>2. refreshes' \in [1..n -> Refresh]
      <4>1. \A r \in DOMAIN refreshes : [refreshes[r] EXCEPT !.again = @ \/ waits] \in Refresh
        BY <2>2 DEF Refresh
      <4>2. /\ DOMAIN refreshes' = DOMAIN refreshes
            /\ refreshes' = [r \in DOMAIN refreshes |-> refreshes'[r]]
            /\ \A r \in DOMAIN refreshes : refreshes'[r] \in Refresh
        BY <2>2, <3>1, <4>1
      <4> QED
        BY <2>2, <4>2
    <3>3. refreshes' \in Seq(Refresh) /\ Len(refreshes') = n
      BY <2>2, <3>2, AsLong
    <3>4. \A q \in DOMAIN refreshes :
            /\ refreshes'[q].of = refreshes[q].of /\ refreshes'[q].new = refreshes[q].new
            /\ refreshes'[q].state = refreshes[q].state /\ refreshes'[q].stray = refreshes[q].stray
      BY <2>2, <3>1 DEF Refresh
    <3>5. NextRequests({}, FALSE)
      BY <2>2, <3>3, <3>4 DEF NextRequests
    <3>6. \A q \in UnderWay \ {} : refreshes'[q].stray \/ q = refreshPromise'
      BY <3>1, <3>4 DEF AuthInv, PromiseIsKept, UnderWay
    <3> QED
      BY <2>1, <2>2, <3>1, <3>5, <3>6, RequestsChange
  <2>4. CASE refreshPromise = 0
    <3> DEFINE x == [of |-> session, state |-> "sent", new |-> 0, again |-> waits, stray |-> FALSE]
    <3>1. refreshPromise' = Len(refreshes') /\ refreshes' = Append(refreshes, x)
      BY <2>1, <2>4 DEF WithRequest
    <3>2. x \in Refresh
      BY <2>2 DEF Refresh, RefreshStates
    <3>3. /\ refreshes' \in Seq(Refresh) /\ Len(refreshes') = n + 1
          /\ \A r \in 1..n : refreshes'[r] = refreshes[r]
          /\ refreshes'[n + 1] = x
      BY <2>2, <3>1, <3>2, RefreshesAre DEF AuthInv
    <3>4. x.of = session /\ x.state = "sent" /\ x.new = 0 /\ ~x.stray
      OBVIOUS
    <3> HIDE DEF x
    <3>5. /\ session # 0 /\ session' = session /\ refreshPromise' = Len(refreshes')
          /\ \A r \in DOMAIN refreshes : refreshes'[r] = refreshes[r]
          /\ refreshes'[Len(refreshes')] = x
      BY <2>1, <2>2, <3>1, <3>3
    <3>6. NextRequests({}, TRUE)
      BY <3>3, <3>4, <3>5 DEF NextRequests
    <3>7. \A q \in UnderWay \ {} : refreshes'[q].stray
      BY <2>2, <2>4, <3>3 DEF AuthInv, PromiseIsKept, UnderWay
    <3>8. refreshPromise' \in Nat
      BY <2>2, <3>3, <3>5
    <3>9. signOuts' \in Nat
      BY <2>1, <2>2
    <3> QED
      BY <2>1, <3>6, <3>7, <3>8, <3>9, RequestsChange
  <2> QED
    BY <2>3, <2>4
<1> QED
  BY <1>1, <1>2

\* Going astray concerns nothing but the mark.
LEMMA GoingAstray ==
  ASSUME NEW rs \in Seq(Refresh), NEW e
  PROVE  /\ Astray(rs, e) \in Seq(Refresh) /\ Len(Astray(rs, e)) = Len(rs)
         /\ \A q \in DOMAIN rs :
              /\ Astray(rs, e)[q].of = rs[q].of /\ Astray(rs, e)[q].new = rs[q].new
              /\ Astray(rs, e)[q].state = rs[q].state
              /\ rs[q].stray => Astray(rs, e)[q].stray
              /\ q \in UnderWay \ {e} => Astray(rs, e)[q].stray
<1>1. DOMAIN rs = 1..Len(rs) /\ Len(rs) \in Nat /\ \A q \in DOMAIN rs : rs[q] \in Refresh
  BY LenProperties, ElementOfSeq
<1>2. \A q \in DOMAIN rs : [rs[q] EXCEPT !.stray = @ \/ q \in UnderWay \ {e}] \in Refresh
  BY <1>1 DEF Refresh
<1>3. Astray(rs, e) \in [1..Len(rs) -> Refresh]
  BY <1>1, <1>2 DEF Astray
<1>4. \A q \in DOMAIN rs : Astray(rs, e)[q] = [rs[q] EXCEPT !.stray = @ \/ q \in UnderWay \ {e}]
  BY DEF Astray
<1>5. Astray(rs, e) \in Seq(Refresh) /\ Len(Astray(rs, e)) = Len(rs)
  BY <1>1, <1>3, AsLong
<1>6. ASSUME NEW q \in DOMAIN rs
      PROVE  /\ Astray(rs, e)[q].of = rs[q].of /\ Astray(rs, e)[q].new = rs[q].new
             /\ Astray(rs, e)[q].state = rs[q].state
             /\ rs[q].stray => Astray(rs, e)[q].stray
             /\ q \in UnderWay \ {e} => Astray(rs, e)[q].stray
  <2>1. PICK b \in BOOLEAN : b <=> (rs[q].stray \/ q \in UnderWay \ {e})
    OBVIOUS
  <2>2. rs[q] \in Refresh /\ Astray(rs, e)[q] = [rs[q] EXCEPT !.stray = b]
    BY <1>1, <1>4, <2>1
  <2>3. /\ Astray(rs, e)[q].of = rs[q].of /\ Astray(rs, e)[q].new = rs[q].new
        /\ Astray(rs, e)[q].state = rs[q].state /\ Astray(rs, e)[q].stray = b
    BY <2>2 DEF Refresh
  <2> QED
    BY <2>1, <2>3
<1> QED
  BY <1>5, <1>6

\* Signing out drops the tokens; what is under way will not be kept.
LEMMA SigningOutKeeps == ASSUME AuthInv, SignedOut PROVE AuthInv'
<1>1. refreshes \in Seq(Refresh) /\ signOuts \in Nat
  BY DEF AuthInv, AuthTyped
<1>2. /\ session' = 0 /\ refreshPromise' = 0 /\ refreshes' = Astray(refreshes, 0)
      /\ UNCHANGED <<issued, bare, live>> /\ signOuts > 0 /\ signOuts' = signOuts - 1
  BY DEF SignedOut
<1>3. refreshPromise' \in Nat /\ signOuts' \in Nat
  BY <1>1, <1>2
<1>4. NextRequests({}, FALSE)
  BY <1>1, <1>2, GoingAstray DEF NextRequests
<1>5. UnderWay \subseteq DOMAIN refreshes /\ 0 \notin DOMAIN refreshes
  BY <1>1, LenProperties DEF UnderWay
<1>6. \A q \in UnderWay \ {} : refreshes'[q].stray
  BY <1>1, <1>2, <1>5, GoingAstray
<1> QED
  BY <1>2, <1>3, <1>4, <1>6, RequestsChange

\* A refresh ends, and may be asked for once more.
LEMMA EndingKeeps ==
  ASSUME AuthInv, NEW r \in DOMAIN refreshes, EndRefresh(r) PROVE AuthInv'
<1> DEFINE n == Len(refreshes)
           ended == [refreshes EXCEPT ![r].state = IF @ = "granted" THEN "kept" ELSE "over"]
           over == IF refreshes[r].stray THEN Astray(ended, r) ELSE ended
           added == refreshes[r].state = "granted" /\ refreshes[r].again
           x == [of |-> session', state |-> "sent", new |-> 0, again |-> FALSE, stray |-> FALSE]
<1>1. /\ DOMAIN refreshes = 1..n /\ n \in Nat /\ refreshes \in Seq(Refresh)
      /\ \A q \in DOMAIN refreshes : refreshes[q] \in Refresh
      /\ signOuts \in Nat
  BY RefreshesAre DEF AuthInv, AuthTyped
<1>2. /\ refreshes[r].state \in {"granted", "revoked", "failed"}
      /\ session' = IF refreshes[r].state = "granted" THEN refreshes[r].new
                    ELSE IF refreshes[r].state = "revoked" THEN 0 ELSE session
      /\ IF added THEN refreshes' = Append(over, x) /\ refreshPromise' = Len(refreshes')
                  ELSE refreshes' = over /\ refreshPromise' = 0
      /\ UNCHANGED <<signOuts, issued, bare, live>>
  BY DEF EndRefresh, Merged
<1>3. /\ ended \in Seq(Refresh) /\ Len(ended) = n
      /\ \A q \in DOMAIN refreshes :
           /\ ended[q].of = refreshes[q].of /\ ended[q].new = refreshes[q].new
           /\ ended[q].stray = refreshes[q].stray
           /\ q # r => ended[q].state = refreshes[q].state
           /\ q = r => ended[q].state = IF refreshes[r].state = "granted" THEN "kept" ELSE "over"
  <2> DEFINE y == [refreshes[r] EXCEPT
                     !.state = IF refreshes[r].state = "granted" THEN "kept" ELSE "over"]
  <2>1. y \in Refresh
    BY <1>1 DEF Refresh, RefreshStates
  <2>2. ended = [refreshes EXCEPT ![r] = y]
    OBVIOUS
  <2>3. /\ y.of = refreshes[r].of /\ y.new = refreshes[r].new /\ y.stray = refreshes[r].stray
        /\ y.state = IF refreshes[r].state = "granted" THEN "kept" ELSE "over"
    BY <1>1 DEF Refresh
  <2> HIDE DEF y, ended
  <2>4. /\ ended \in Seq(Refresh) /\ Len(ended) = n
        /\ \A q \in DOMAIN refreshes : ended[q] = IF q = r THEN y ELSE refreshes[q]
    BY <1>1, <2>1, <2>2, ExceptSeq
  <2> QED
    BY <2>3, <2>4
<1> HIDE DEF ended
<1>4. /\ over \in Seq(Refresh) /\ Len(over) = n
      /\ \A q \in DOMAIN refreshes :
           /\ over[q].of = refreshes[q].of /\ over[q].new = refreshes[q].new
           /\ refreshes[q].stray => over[q].stray
           /\ q # r => over[q].state = refreshes[q].state
           /\ q = r => over[q].state = IF refreshes[r].state = "granted" THEN "kept" ELSE "over"
           /\ q \in UnderWay \ {r} => over[q].stray
  <2>1. DOMAIN ended = DOMAIN refreshes
    BY <1>1, <1>3, LenProperties
  <2>2. CASE refreshes[r].stray
    BY <1>3, <2>1, <2>2, GoingAstray
  <2>3. CASE ~refreshes[r].stray
    <3>1. r \in UnderWay
      BY <1>2 DEF UnderWay
    <3>2. r = refreshPromise
      BY <2>3, <3>1 DEF AuthInv, PromiseIsKept
    <3>3. \A q \in UnderWay \ {r} : refreshes[q].stray
      BY <3>2 DEF AuthInv, PromiseIsKept
    <3>4. over = ended
      BY <2>3
    <3> QED
      BY <1>3, <3>3, <3>4
  <2> QED
    BY <2>2, <2>3
<1> HIDE DEF over, x, added
<1>5. r \in Granted \/ Granted \cap {r} = {}
  OBVIOUS
<1>6. /\ r \in Granted => session' = refreshes[r].new /\ session' # 0 /\ session' \in Nat
      /\ r \notin Granted => session' = 0 \/ session' = session
  BY <1>1, <1>2 DEF Granted, Refresh, AuthInv, AnswersAreFresh
<1>7. added => r \in Granted
  BY DEF added, Granted
<1>8. CASE added
  <2>1. refreshes' = Append(over, x) /\ refreshPromise' = Len(refreshes')
    BY <1>2, <1>8
  <2>2. x \in Refresh
    BY <1>6, <1>7, <1>8 DEF x, Refresh, RefreshStates
  <2>3. /\ refreshes' \in Seq(Refresh) /\ Len(refreshes') = n + 1
        /\ \A q \in 1..n : refreshes'[q] = over[q]
        /\ refreshes'[n + 1] = x
    <3>1. over \in Seq(Refresh) /\ Len(over) = n
      BY <1>4
    <3>2. /\ Append(over, x) \in Seq(Refresh) /\ Len(Append(over, x)) = Len(over) + 1
          /\ \A q \in 1..Len(over) : Append(over, x)[q] = over[q]
          /\ Append(over, x)[Len(over) + 1] = x
      BY <2>2, <3>1, RefreshesAre DEF AuthInv
    <3> QED
      BY <2>1, <3>1, <3>2
  <2>4. \A q \in DOMAIN refreshes : refreshes'[q] = over[q]
    BY <1>1, <2>3
  <2>5. x.of = session' /\ x.state = "sent" /\ x.new = 0 /\ ~x.stray
    BY DEF x
  <2>6. refreshPromise' \in Nat /\ refreshes'[Len(refreshes')] = x
    BY <1>1, <2>1, <2>3
  <2>7. NextRequests({r}, TRUE)
    BY <1>4, <1>6, <1>7, <1>8, <2>1, <2>3, <2>4, <2>5, <2>6 DEF NextRequests
  <2>8. \A q \in UnderWay \ {r} : refreshes'[q].stray
    BY <1>4, <2>4 DEF UnderWay
  <2>9. \E q \in Granted \cap {r} : session' = refreshes[q].new
    BY <1>6, <1>7, <1>8
  <2>10. signOuts' \in Nat /\ UNCHANGED <<issued, bare, live>>
    BY <1>1, <1>2
  <2> QED
    BY <2>6, <2>7, <2>8, <2>9, <2>10, RequestsChange
<1>9. CASE ~added
  <2>1. refreshes' = over /\ refreshPromise' = 0
    BY <1>2, <1>9
  <2>2. NextRequests({r}, FALSE)
    BY <1>1, <1>4, <2>1 DEF NextRequests
  <2>3. \A q \in UnderWay \ {r} : refreshes'[q].stray
    BY <1>4, <2>1 DEF UnderWay
  <2>4. \/ session' = 0
        \/ session' = session /\ signOuts' = signOuts /\ Granted \cap {r} = {}
        \/ \E q \in Granted \cap {r} : session' = refreshes[q].new
    BY <1>2, <1>5, <1>6
  <2>5. signOuts' \in Nat /\ refreshPromise' \in Nat /\ UNCHANGED <<issued, bare, live>>
    BY <1>1, <1>2, <2>1
  <2> QED
    BY <2>2, <2>3, <2>4, <2>5, RequestsChange
<1> QED
  BY <1>8, <1>9

\* No step of the client or the server disturbs the session.
LEMMA AuthKept == AuthInv /\ [AuthNext]_auth => AuthInv'
<1> SUFFICES ASSUME AuthInv, [AuthNext]_auth PROVE AuthInv'
  OBVIOUS
<1>1. CASE UNCHANGED auth
  BY <1>1 DEF auth, AuthInv, AuthTyped, PromiseIsKept, UnderWay, AnswersAreFresh, Granted,
              TokenIsCurrent
<1>2. CASE SignIn \/ SignOut \/ Expire
  <2>1. UNCHANGED <<refreshPromise, refreshes>>
    BY <1>2 DEF SignIn, SignOut, Expire
  <2> QED
    BY <1>2, <2>1, SessionChanges
<1>3. CASE SignedOut
  BY <1>3, SigningOutKeeps
<1>4. CASE \E forced \in BOOLEAN : LoadSession(forced)
  BY <1>4, LoadingKeeps
<1>5. CASE \E r \in DOMAIN refreshes : Serve(r) \/ EndRefresh(r) \/ Lose(r)
  BY <1>5, RequestGoesOn, EndingKeeps
<1> QED
  BY <1>1, <1>2, <1>3, <1>4, <1>5 DEF AuthNext

\* The invariant of the session holds in every behaviour.
LEMMA AuthHolds == AuthSpec => []AuthInv
BY AuthBegins, AuthKept, PTL DEF AuthSpec

\* However many ask for the session at once, no refresh token is presented in two requests
\* that are under way together, but for those a sign-out let go of (auth.ts doRefresh and
\* its refreshPromise).
THEOREM TokensAreSentOnce == AuthSpec => []OneRequestPerToken
<1>1. AuthInv => OneRequestPerToken
  BY DEF AuthInv, PromiseIsKept, OneRequestPerToken
<1> QED
  BY <1>1, AuthHolds, PTL

\* The session that is kept can be refreshed, whatever answers are lost and whoever signs in
\* or out meanwhile, unless the exchange of its token is not known of yet (auth.ts).
THEOREM SessionStaysCurrent == AuthSpec => []TokenIsCurrent
<1>1. AuthInv => TokenIsCurrent
  BY DEF AuthInv
<1> QED
  BY <1>1, AuthHolds, PTL

-----------------------------------------------------------------------------
(* Loads in batches.                                                        *)

LoadOfKey == [key : Keys, batch : Nat, of : Nat, released : BOOLEAN, since : Nat, outcome : Int]
Batch == [keys : Seq(Nat), state : {"open", "dispatched", "done"}, at : Nat]

LoaderTyped ==
  /\ loads \in Seq(LoadOfKey) /\ batches \in Seq(Batch) /\ batch \in 0..Len(batches)
  /\ cacheMap \in [Keys -> 0..Len(loads)]
  /\ clears \in Nat /\ cleared \in [Keys -> 0..clears]

\* A load follows one of its key from after the same clear, as those in the cache are.
PromisesFollow ==
  /\ \A i \in DOMAIN loads :
       /\ loads[i].since <= clears /\ loads[i].of \in DOMAIN loads
       /\ loads[loads[i].of].since = loads[i].since
  /\ \A k \in Keys : cacheMap[k] # 0 => loads[cacheMap[k]].since = cleared[k]

\* A batch fetches after the loads that belong to it, and nobody joins it afterwards.
BatchesFetchLater ==
  \A b \in DOMAIN batches :
    /\ ToSet(batches[b].keys) \subseteq DOMAIN loads
    /\ batches[b].state # "open" =>
         \A i \in ToSet(batches[b].keys) : loads[i].since <= batches[b].at

OutcomesAreFresh ==
  \A i \in DOMAIN loads :
    loads[i].outcome \in {Pending, Rejected} \/ loads[i].outcome >= loads[i].since

LoaderInv == LoaderTyped /\ PromisesFollow /\ BatchesFetchLater /\ OutcomesAreFresh

\* An empty loader has promised nothing.
LEMMA LoaderBegins == LoaderInit => LoaderInv
<1> SUFFICES ASSUME LoaderInit PROVE LoaderInv
  OBVIOUS
<1>1. /\ loads \in Seq(LoadOfKey) /\ DOMAIN loads = {} /\ Len(loads) = 0
      /\ batches \in Seq(Batch) /\ DOMAIN batches = {} /\ Len(batches) = 0
  BY DEF LoaderInit
<1>2. LoaderTyped
  BY <1>1 DEF LoaderInit, LoaderTyped
<1>3. PromisesFollow
  BY <1>1 DEF LoaderInit, PromisesFollow
<1> QED
  BY <1>1, <1>2, <1>3 DEF LoaderInv, BatchesFetchLater, OutcomesAreFresh

\* The sequences of the loader are functions on their indices.
LEMMA LoaderIs ==
  ASSUME LoaderTyped
  PROVE  /\ DOMAIN loads = 1..Len(loads) /\ Len(loads) \in Nat
         /\ DOMAIN batches = 1..Len(batches) /\ Len(batches) \in Nat
         /\ \A i \in DOMAIN loads : loads[i] \in LoadOfKey
         /\ \A b \in DOMAIN batches : batches[b] \in Batch
BY LenProperties, ElementOfSeq DEF LoaderTyped

\* The elements of a sequence with one more.
LEMMA OneMoreKey ==
  ASSUME NEW S, NEW q \in Seq(S), NEW e \in S
  PROVE  Append(q, e) \in Seq(S) /\ ToSet(Append(q, e)) = ToSet(q) \cup {e}
<1>1. /\ Append(q, e) \in Seq(S) /\ Len(Append(q, e)) = Len(q) + 1
      /\ \A i \in 1..Len(q) : Append(q, e)[i] = q[i]
      /\ Append(q, e)[Len(q) + 1] = e
  BY AppendProperties
<1>2. /\ ToSet(q) = {q[i] : i \in 1..Len(q)} /\ Len(q) \in Nat
      /\ ToSet(Append(q, e)) = {Append(q, e)[i] : i \in 1..(Len(q) + 1)}
  <2>1. /\ DOMAIN q = 1..Len(q) /\ Len(q) \in Nat
        /\ DOMAIN Append(q, e) = 1..(Len(q) + 1)
    BY <1>1, LenProperties
  <2> QED
    BY <2>1 DEF ToSet
<1>3. 1..(Len(q) + 1) = (1..Len(q)) \cup {Len(q) + 1}
  BY <1>2
<1> HIDE DEF ToSet
<1> QED
  BY <1>1, <1>2, <1>3

\* One more promise: of a load or of prime().
LEMMA OneMoreLoad ==
  ASSUME LoaderInv, NEW k \in Keys, NEW x \in LoadOfKey,
         loads' = Append(loads, x), UNCHANGED <<clears, cleared>>,
         x.since = cleared[k],
         cacheMap' = [cacheMap EXCEPT ![k] = x.of],
         x.of \in {cacheMap[k], Len(loads) + 1}, x.of # 0,
         x.outcome = Pending \/ x.outcome = clears
  PROVE  /\ loads' \in Seq(LoadOfKey) /\ cacheMap' \in [Keys -> 0..Len(loads')]
         /\ PromisesFollow' /\ OutcomesAreFresh'
         /\ DOMAIN loads' = DOMAIN loads \cup {Len(loads) + 1}
         /\ \A i \in DOMAIN loads : loads'[i] = loads[i]
<1> DEFINE n == Len(loads)
<1>1. /\ DOMAIN loads = 1..n /\ n \in Nat /\ loads \in Seq(LoadOfKey)
      /\ \A i \in DOMAIN loads : loads[i] \in LoadOfKey
      /\ cacheMap \in [Keys -> 0..n] /\ clears \in Nat /\ cleared \in [Keys -> 0..clears]
  BY LoaderIs DEF LoaderInv, LoaderTyped
<1>2. /\ loads' \in Seq(LoadOfKey) /\ Len(loads') = n + 1 /\ DOMAIN loads' = 1..(n + 1)
      /\ \A i \in 1..n : loads'[i] = loads[i]
      /\ loads'[n + 1] = x
  BY <1>1, AppendProperties, LenProperties
<1>3. cacheMap' \in [Keys -> 0..(n + 1)]
  BY <1>1
<1>4. DOMAIN loads' = DOMAIN loads \cup {n + 1} /\ \A i \in DOMAIN loads : loads'[i] = loads[i]
  BY <1>1, <1>2
<1>5. x.of \in DOMAIN loads' /\ loads'[x.of].since = x.since
  BY <1>1, <1>2, <1>4 DEF LoaderInv, PromisesFollow
<1>6. ASSUME NEW i \in DOMAIN loads'
      PROVE  /\ loads'[i].since <= clears /\ loads'[i].of \in DOMAIN loads'
             /\ loads'[loads'[i].of].since = loads'[i].since
  <2>1. CASE i \in DOMAIN loads
    BY <1>4, <2>1 DEF LoaderInv, PromisesFollow
  <2>2. CASE i = n + 1
    BY <1>1, <1>2, <1>5, <2>2
  <2> QED
    BY <1>4, <2>1, <2>2
<1>7. ASSUME NEW l \in Keys, cacheMap'[l] # 0 PROVE loads'[cacheMap'[l]].since = cleared[l]
  <2>1. CASE l = k
    BY <1>1, <1>5, <2>1
  <2>2. CASE l # k
    BY <1>1, <1>4, <1>7, <2>2 DEF LoaderInv, PromisesFollow
  <2> QED
    BY <2>1, <2>2
<1>8. PromisesFollow'
  BY <1>6, <1>7 DEF PromisesFollow
<1>9. OutcomesAreFresh'
  <2>1. x.outcome \in {Pending, Rejected} \/ x.outcome >= x.since
    BY <1>1
  <2> QED
    BY <1>2, <1>4, <2>1 DEF LoaderInv, OutcomesAreFresh
<1> QED
  BY <1>2, <1>3, <1>4, <1>8, <1>9

\* A value that is primed is as new as the last clear.
LEMMA PrimingKeeps == ASSUME LoaderInv, NEW k \in Keys, Prime(k) PROVE LoaderInv'
<1>1. /\ DOMAIN loads = 1..Len(loads) /\ Len(loads) \in Nat
      /\ batch \in 0..Len(batches) /\ clears \in Nat /\ cleared \in [Keys -> 0..clears]
      /\ batches \in Seq(Batch)
  BY LoaderIs DEF LoaderInv, LoaderTyped
<1>2. PICK x : x = [key |-> k, batch |-> 0, of |-> Len(loads) + 1, released |-> TRUE,
                    since |-> cleared[k], outcome |-> clears]
  OBVIOUS
<1>3. /\ loads' = Append(loads, x) /\ cacheMap' = [cacheMap EXCEPT ![k] = x.of]
      /\ UNCHANGED <<batches, batch, clears, cleared>>
  BY <1>2 DEF Prime
<1>4. /\ x \in LoadOfKey /\ x.since = cleared[k] /\ x.of = Len(loads) + 1 /\ x.outcome = clears
      /\ x.of # 0
  BY <1>1, <1>2 DEF LoadOfKey
<1>5. /\ loads' \in Seq(LoadOfKey) /\ cacheMap' \in [Keys -> 0..Len(loads')]
      /\ PromisesFollow' /\ OutcomesAreFresh'
      /\ DOMAIN loads' = DOMAIN loads \cup {Len(loads) + 1}
      /\ \A i \in DOMAIN loads : loads'[i] = loads[i]
  BY <1>3, <1>4, OneMoreLoad
<1>6. LoaderTyped'
  BY <1>1, <1>3, <1>5 DEF LoaderTyped
<1>7. BatchesFetchLater'
  BY <1>3, <1>5 DEF LoaderInv, BatchesFetchLater
<1> QED
  BY <1>5, <1>6, <1>7 DEF LoaderInv

\* load() of a key that has a promise or gets one, in the batch that is open or a new one.
LEMMA LoadKeeps == ASSUME LoaderInv, NEW k \in Keys, Load(k) PROVE LoaderInv'
<1> DEFINE i == Len(loads) + 1
           hit == cacheMap[k] # 0
           new == IF Accepts(batch) THEN batches
                  ELSE Append(batches, [keys |-> <<>>, state |-> "open", at |-> 0])
<1>1. /\ DOMAIN loads = 1..Len(loads) /\ Len(loads) \in Nat
      /\ batch \in 0..Len(batches) /\ clears \in Nat /\ cleared \in [Keys -> 0..clears]
      /\ batches \in Seq(Batch) /\ DOMAIN batches = 1..Len(batches) /\ Len(batches) \in Nat
      /\ \A b \in DOMAIN batches : batches[b] \in Batch
      /\ cacheMap \in [Keys -> 0..Len(loads)]
  BY LoaderIs DEF LoaderInv, LoaderTyped
<1>2. /\ batch' = IF Accepts(batch) THEN batch ELSE Len(new)
      /\ batches' = IF hit THEN new ELSE [new EXCEPT ![batch'].keys = Append(@, i)]
      /\ cacheMap' = [cacheMap EXCEPT ![k] = IF hit THEN @ ELSE i]
      /\ loads' = Append(loads, [key |-> k, batch |-> batch', of |-> cacheMap'[k],
                                 released |-> ~ hit, since |-> cleared[k], outcome |-> Pending])
      /\ UNCHANGED <<clears, cleared>>
  BY DEF Load
<1>3. /\ new \in Seq(Batch) /\ DOMAIN new = 1..Len(new) /\ Len(new) \in Nat
      /\ batch' \in DOMAIN new /\ new[batch'].state = "open"
      /\ \A b \in DOMAIN new : \/ b \in DOMAIN batches /\ new[b] = batches[b]
                               \/ new[b].keys = <<>> /\ new[b].state = "open"
  <2>1. CASE Accepts(batch)
    BY <1>1, <1>2, <2>1 DEF Accepts
  <2>2. CASE ~Accepts(batch)
    <3> DEFINE x == [keys |-> <<>>, state |-> "open", at |-> 0]
    <3>1. x \in Batch /\ x.keys = <<>> /\ x.state = "open"
      BY EmptyQueue DEF Batch
    <3>2. new = Append(batches, x) /\ batch' = Len(new)
      BY <1>2, <2>2
    <3> HIDE DEF x, new
    <3>3. /\ new \in Seq(Batch) /\ Len(new) = Len(batches) + 1
          /\ \A b \in 1..Len(batches) : new[b] = batches[b]
          /\ new[Len(batches) + 1] = x
      BY <1>1, <3>1, <3>2, AppendProperties
    <3>4. DOMAIN new = 1..Len(new)
      BY <3>3, LenProperties
    <3> QED
      BY <1>1, <3>1, <3>2, <3>3, <3>4
  <2> QED
    BY <2>1, <2>2
<1> HIDE DEF new
<1>4. PICK x : x = [key |-> k, batch |-> batch', of |-> cacheMap'[k],
                    released |-> ~ hit, since |-> cleared[k], outcome |-> Pending]
  OBVIOUS
<1>5. cacheMap'[k] = IF hit THEN cacheMap[k] ELSE i
  BY <1>1, <1>2
<1>6. /\ x \in LoadOfKey /\ x.since = cleared[k] /\ x.of \in {cacheMap[k], i} /\ x.of # 0
      /\ x.outcome = Pending /\ loads' = Append(loads, x)
      /\ cacheMap' = [cacheMap EXCEPT ![k] = x.of]
  <2>1. cacheMap'[k] \in Nat /\ cacheMap'[k] # 0 /\ batch' \in Nat /\ cleared[k] \in Nat
    BY <1>1, <1>3, <1>5
  <2>2. x \in LoadOfKey
    BY <1>4, <2>1 DEF LoadOfKey, Pending
  <2>3. x.of = cacheMap'[k] /\ x.since = cleared[k] /\ x.outcome = Pending
    BY <1>4
  <2>4. loads' = Append(loads, x)
    BY <1>2, <1>4
  <2>5. cacheMap' = [cacheMap EXCEPT ![k] = x.of]
    BY <1>1, <1>2, <1>5, <2>3
  <2> QED
    BY <1>5, <2>1, <2>2, <2>3, <2>4, <2>5
<1>7. /\ loads' \in Seq(LoadOfKey) /\ cacheMap' \in [Keys -> 0..Len(loads')]
      /\ PromisesFollow' /\ OutcomesAreFresh'
      /\ DOMAIN loads' = DOMAIN loads \cup {i}
      /\ \A j \in DOMAIN loads : loads'[j] = loads[j]
  BY <1>2, <1>6, OneMoreLoad
<1>8. /\ batches' \in Seq(Batch) /\ Len(batches') = Len(new) /\ DOMAIN batches' = DOMAIN new
      /\ \A b \in DOMAIN new :
           /\ batches'[b].state = new[b].state /\ batches'[b].at = new[b].at
           /\ ToSet(batches'[b].keys) \subseteq
                ToSet(new[b].keys) \cup (IF b = batch' THEN {i} ELSE {})
  <2>1. CASE hit
    BY <1>2, <1>3, <2>1
  <2>2. CASE ~hit
    <3>1. \A b \in DOMAIN new : new[b] \in Batch
      BY <1>3, ElementOfSeq
    <3> DEFINE y == [new[batch'] EXCEPT !.keys = Append(@, i)]
    <3>2. /\ Append(new[batch'].keys, i) \in Seq(Nat)
          /\ ToSet(Append(new[batch'].keys, i)) = ToSet(new[batch'].keys) \cup {i}
      <4>1. new[batch'].keys \in Seq(Nat) /\ i \in Nat
        BY <1>1, <1>3, <3>1 DEF Batch
      <4> QED
        BY <4>1, OneMoreKey
    <3>3. y \in Batch /\ y.state = new[batch'].state /\ y.at = new[batch'].at
          /\ y.keys = Append(new[batch'].keys, i)
      BY <1>3, <3>1, <3>2 DEF Batch
    <3>4. batches' = [new EXCEPT ![batch'] = y]
      BY <1>2, <2>2
    <3> HIDE DEF y
    <3>5. /\ batches' \in Seq(Batch) /\ Len(batches') = Len(new)
          /\ \A b \in 1..Len(new) : batches'[b] = IF b = batch' THEN y ELSE new[b]
      BY <1>3, <3>3, <3>4, ExceptSeq
    <3>6. DOMAIN batches' = DOMAIN new
      BY <1>3, <3>5, LenProperties
    <3> QED
      BY <1>3, <3>2, <3>3, <3>5, <3>6
  <2> QED
    BY <2>1, <2>2
<1>9. LoaderTyped'
  BY <1>1, <1>2, <1>3, <1>7, <1>8 DEF LoaderTyped
<1>10. BatchesFetchLater'
  <2>1. ToSet(<<>>) = {}
    BY EmptyQueue
  <2>2. ASSUME NEW b \in DOMAIN batches'
        PROVE  ToSet(batches'[b].keys) \subseteq DOMAIN loads'
    BY <1>3, <1>7, <1>8, <2>1 DEF LoaderInv, BatchesFetchLater
  <2>3. ASSUME NEW b \in DOMAIN batches', batches'[b].state # "open",
               NEW j \in ToSet(batches'[b].keys)
        PROVE  loads'[j].since <= batches'[b].at
    <3>1. b # batch' /\ b \in DOMAIN batches /\ new[b] = batches[b]
      BY <1>3, <1>8, <2>3
    <3>2. j \in ToSet(batches[b].keys) /\ batches[b].state # "open"
      BY <1>8, <2>3, <3>1
    <3>3. j \in DOMAIN loads /\ loads[j].since <= batches[b].at
      BY <3>1, <3>2 DEF LoaderInv, BatchesFetchLater
    <3> QED
      BY <1>7, <1>8, <3>1, <3>3
  <2> QED
    BY <2>2, <2>3 DEF BatchesFetchLater
<1> QED
  BY <1>7, <1>9, <1>10 DEF LoaderInv

\* Clearing a key, or all, makes every later load ask again.
LEMMA ClearKeeps ==
  ASSUME LoaderInv, NEW ks \in SUBSET Keys, Clear(ks) PROVE LoaderInv'
<1>1. /\ cacheMap \in [Keys -> 0..Len(loads)] /\ clears \in Nat /\ cleared \in [Keys -> 0..clears]
      /\ Len(loads) \in Nat /\ \A i \in DOMAIN loads : loads[i] \in LoadOfKey
  BY LoaderIs DEF LoaderInv, LoaderTyped
<1>2. /\ clears' = clears + 1 /\ UNCHANGED <<loads, batches, batch>>
      /\ cacheMap' = [k \in Keys |-> IF k \in ks THEN 0 ELSE cacheMap[k]]
      /\ cleared' = [k \in Keys |-> IF k \in ks THEN clears + 1 ELSE cleared[k]]
  BY DEF Clear
<1>3. cacheMap' \in [Keys -> 0..Len(loads)] /\ cleared' \in [Keys -> 0..clears']
  BY <1>1, <1>2
<1>4. LoaderTyped'
  BY <1>1, <1>2, <1>3 DEF LoaderInv, LoaderTyped
<1>5. \A i \in DOMAIN loads : loads[i].since \in Nat
  BY <1>1 DEF LoadOfKey
<1>6. PromisesFollow'
  BY <1>1, <1>2, <1>5 DEF LoaderInv, PromisesFollow
<1> QED
  BY <1>2, <1>4, <1>6 DEF LoaderInv, BatchesFetchLater, OutcomesAreFresh

\* The promises of a batch settle, with an error or with what it fetched.
LEMMA SettlingServes ==
  ASSUME LoaderInv, NEW b \in DOMAIN batches, NEW results,
         batches[b].state = "open" => batches[b].keys = <<>>,
         \A i \in ToSet(batches[b].keys) : results[i] \in {Rejected, batches[b].at},
         Settle(b, results), UNCHANGED <<batch, clears, cleared>>,
         cacheMap' \in [Keys -> 0..Len(loads)],
         \A k \in Keys : cacheMap'[k] \in {0, cacheMap[k]}
  PROVE  LoaderInv'
<1>1. /\ DOMAIN loads = 1..Len(loads) /\ Len(loads) \in Nat
      /\ batches \in Seq(Batch) /\ DOMAIN batches = 1..Len(batches) /\ Len(batches) \in Nat
      /\ \A c \in DOMAIN batches : batches[c] \in Batch
      /\ \A i \in DOMAIN loads : loads[i] \in LoadOfKey
  BY LoaderIs DEF LoaderInv, LoaderTyped
<1> DEFINE keys == ToSet(batches[b].keys)
<1>2. /\ batches' = [batches EXCEPT ![b].state = "done"]
      /\ loads' = [i \in DOMAIN loads |->
                     [loads[i] EXCEPT !.released = @ \/ i \in Hits(b),
                          !.outcome = IF i \in keys THEN results[i] ELSE @]]
  BY DEF Settle
<1>3. keys \subseteq DOMAIN loads /\ \A i \in keys : batches[b].state # "open" =>
                                        loads[i].since <= batches[b].at
  BY DEF LoaderInv, BatchesFetchLater
<1>4. batches[b].state = "open" => keys = {}
  BY EmptyQueue
<1> HIDE DEF keys
<1>5. batches[b].at \in Nat /\ \A i \in keys : results[i] \in Int
  BY <1>1 DEF Batch, Rejected, keys
<1>6. \A i \in DOMAIN loads :
        /\ loads'[i] \in LoadOfKey
        /\ loads'[i].since = loads[i].since /\ loads'[i].of = loads[i].of
        /\ loads'[i].outcome = IF i \in keys THEN results[i] ELSE loads[i].outcome
  BY <1>1, <1>2, <1>5 DEF LoadOfKey
<1>7. DOMAIN loads' = DOMAIN loads /\ loads' \in Seq(LoadOfKey) /\ Len(loads') = Len(loads)
  <2>1. loads' \in [1..Len(loads) -> LoadOfKey]
    BY <1>1, <1>2, <1>6
  <2> QED
    BY <1>1, <1>2, <2>1, AsLong
<1>8. /\ batches' \in Seq(Batch) /\ Len(batches') = Len(batches)
      /\ DOMAIN batches' = DOMAIN batches
      /\ \A c \in DOMAIN batches :
           /\ batches'[c].keys = batches[c].keys /\ batches'[c].at = batches[c].at
           /\ c # b => batches'[c].state = batches[c].state
  <2> DEFINE y == [batches[b] EXCEPT !.state = "done"]
  <2>1. y \in Batch /\ y.keys = batches[b].keys /\ y.at = batches[b].at
    BY <1>1 DEF Batch
  <2>2. batches' = [batches EXCEPT ![b] = y]
    BY <1>2
  <2> HIDE DEF y
  <2> QED
    BY <1>1, <2>1, <2>2, ExceptSeq
<1>9. LoaderTyped'
  BY <1>7, <1>8 DEF LoaderInv, LoaderTyped
<1>10. PromisesFollow'
  <2>1. \A k \in Keys : cacheMap[k] # 0 => cacheMap[k] \in DOMAIN loads
    BY <1>1 DEF LoaderInv, LoaderTyped
  <2> QED
    BY <1>6, <1>7, <2>1 DEF LoaderInv, PromisesFollow
<1>11. BatchesFetchLater'
  <2>1. ASSUME NEW c \in DOMAIN batches
        PROVE  /\ ToSet(batches'[c].keys) \subseteq DOMAIN loads'
               /\ batches'[c].state # "open" =>
                    \A i \in ToSet(batches'[c].keys) : loads'[i].since <= batches'[c].at
    <3>1. ToSet(batches'[c].keys) = ToSet(batches[c].keys) /\ batches'[c].at = batches[c].at
      BY <1>8
    <3>2. \A i \in ToSet(batches[c].keys) : i \in DOMAIN loads /\ loads'[i].since = loads[i].since
      BY <1>6 DEF LoaderInv, BatchesFetchLater
    <3>3. CASE c = b
      BY <1>3, <1>4, <1>7, <3>1, <3>2, <3>3 DEF keys
    <3>4. CASE c # b
      BY <1>7, <1>8, <3>1, <3>2, <3>4 DEF LoaderInv, BatchesFetchLater
    <3> QED
      BY <3>3, <3>4
  <2> QED
    BY <1>8, <2>1 DEF BatchesFetchLater
<1>12. OutcomesAreFresh'
  <2>1. \A i \in keys : results[i] = Rejected \/ results[i] >= loads[i].since
    <3>1. \A i \in keys : loads[i].since \in Nat /\ loads[i].since <= batches[b].at
      BY <1>1, <1>3, <1>4 DEF LoadOfKey
    <3> QED
      BY <1>5, <3>1 DEF keys
  <2> QED
    BY <1>6, <1>7, <2>1 DEF LoaderInv, OutcomesAreFresh
<1> QED
  BY <1>9, <1>10, <1>11, <1>12 DEF LoaderInv

\* A batch answers what it was dispatched for, when it is fetched.
LEMMA BatchKeeps ==
  ASSUME LoaderInv, NEW b \in DOMAIN batches, LoaderStep(b) PROVE LoaderInv'
<1>1. /\ batches \in Seq(Batch) /\ DOMAIN batches = 1..Len(batches) /\ Len(batches) \in Nat
      /\ batches[b] \in Batch /\ cacheMap \in [Keys -> 0..Len(loads)] /\ Len(loads) \in Nat
      /\ clears \in Nat
      /\ ToSet(batches[b].keys) \subseteq DOMAIN loads
  BY LoaderIs DEF LoaderInv, LoaderTyped, BatchesFetchLater
<1>2. CASE \E failing \in SUBSET ToSet(batches[b].keys) : Answered(b) /\
             Settle(b, [i \in DOMAIN loads |-> IF i \in failing THEN Rejected ELSE batches[b].at])
  <2>1. PICK failing \in SUBSET ToSet(batches[b].keys) :
             Settle(b, [i \in DOMAIN loads |-> IF i \in failing THEN Rejected ELSE batches[b].at])
    BY <1>2
  <2> DEFINE results == [i \in DOMAIN loads |-> IF i \in failing THEN Rejected ELSE batches[b].at]
  <2>2. \A i \in ToSet(batches[b].keys) : results[i] \in {Rejected, batches[b].at}
    BY <1>1
  <2>3. /\ batches[b].state # "open" /\ UNCHANGED <<batch, cacheMap, clears, cleared>>
    BY <1>2 DEF Answered
  <2>4. Settle(b, results)
    BY <2>1
  <2> HIDE DEF results
  <2> QED
    BY <1>1, <2>2, <2>3, <2>4, SettlingServes
<1>3. CASE FailedDispatch(b)
  <2> DEFINE results == [i \in DOMAIN loads |-> Rejected]
             ks == {loads[i].key : i \in ToSet(batches[b].keys)}
  <2>1. /\ batches[b].state # "open" /\ UNCHANGED <<batch, clears, cleared>>
        /\ Settle(b, results)
        /\ cacheMap' = [k \in Keys |-> IF k \in ks THEN 0 ELSE cacheMap[k]]
    BY <1>3 DEF FailedDispatch
  <2>2. \A i \in ToSet(batches[b].keys) : results[i] \in {Rejected, batches[b].at}
    BY <1>1
  <2> HIDE DEF results, ks
  <2>3. /\ cacheMap' \in [Keys -> 0..Len(loads)]
        /\ \A k \in Keys : cacheMap'[k] \in {0, cacheMap[k]}
    BY <1>1, <2>1
  <2> QED
    BY <2>1, <2>2, <2>3, SettlingServes
<1>4. CASE Dispatch(b) /\ batches[b].keys = <<>>
  <2>1. Settle(b, <<>>) /\ UNCHANGED <<batch, cacheMap, clears, cleared>>
    BY <1>4 DEF Dispatch
  <2>2. \A i \in ToSet(batches[b].keys) : <<>>[i] \in {Rejected, batches[b].at}
    BY <1>4, EmptyQueue
  <2> QED
    BY <1>1, <1>4, <2>1, <2>2, SettlingServes
<1>5. CASE Dispatch(b) /\ batches[b].keys # <<>>
  <2> DEFINE y == [batches[b] EXCEPT !.state = "dispatched", !.at = clears]
  <2>1. /\ batches' = [batches EXCEPT ![b].state = "dispatched", ![b].at = clears]
        /\ UNCHANGED <<loads, batch, cacheMap, clears, cleared>>
    BY <1>5 DEF Dispatch
  <2>2. y \in Batch /\ y.keys = batches[b].keys /\ y.at = clears
    BY <1>1 DEF Batch
  <2>3. batches' = [batches EXCEPT ![b] = y]
    BY <1>1, <2>1 DEF Batch
  <2> HIDE DEF y
  <2>4. /\ batches' \in Seq(Batch) /\ Len(batches') = Len(batches)
        /\ DOMAIN batches' = DOMAIN batches
        /\ \A c \in DOMAIN batches : batches'[c] = IF c = b THEN y ELSE batches[c]
    BY <1>1, <2>2, <2>3, ExceptSeq
  <2>5. LoaderTyped'
    BY <2>1, <2>4 DEF LoaderInv, LoaderTyped
  <2>6. BatchesFetchLater'
    BY <2>1, <2>2, <2>4 DEF LoaderInv, BatchesFetchLater, PromisesFollow
  <2> QED
    BY <2>1, <2>5, <2>6 DEF LoaderInv, PromisesFollow, OutcomesAreFresh
<1> QED
  BY <1>2, <1>3, <1>4, <1>5 DEF LoaderStep, Answered

\* No step of a caller or a batch disturbs the cache.
LEMMA LoaderKept == LoaderInv /\ [LoaderNext]_loader => LoaderInv'
<1> SUFFICES ASSUME LoaderInv, [LoaderNext]_loader PROVE LoaderInv'
  OBVIOUS
<1>1. CASE UNCHANGED loader
  BY <1>1 DEF loader, LoaderInv, LoaderTyped, PromisesFollow, BatchesFetchLater, OutcomesAreFresh
<1>2. CASE \E k \in Keys : Load(k) \/ Prime(k)
  BY <1>2, LoadKeeps, PrimingKeeps
<1>3. CASE \E ks \in {{k} : k \in Keys} \cup {Keys} : Clear(ks)
  <2>1. {{k} : k \in Keys} \cup {Keys} \subseteq SUBSET Keys
    OBVIOUS
  <2> QED
    BY <1>3, <2>1, ClearKeeps
<1>4. CASE \E b \in DOMAIN batches : LoaderStep(b)
  BY <1>4, BatchKeeps
<1> QED
  BY <1>1, <1>2, <1>3, <1>4 DEF LoaderNext

\* A load never returns a value fetched before the last clear() of its key that came before
\* it, whatever batches are still on their way (dataloader.ts).
THEOREM LoadsAreFresh == LoaderSpec => []FreshAfterClear
<1>1. LoaderInv => FreshAfterClear
  <2> SUFFICES ASSUME LoaderInv, NEW i \in DOMAIN loads
               PROVE  Outcome(i) \in {Pending, Rejected} \/ Outcome(i) >= loads[i].since
    BY DEF FreshAfterClear
  <2> QED
    BY DEF LoaderInv, PromisesFollow, OutcomesAreFresh, Outcome
<1> QED
  BY <1>1, LoaderBegins, LoaderKept, PTL DEF LoaderSpec

-----------------------------------------------------------------------------
(* Subscriptions over one web socket at a time.                             *)

Subscription == [known : BOOLEAN, subscribed : BOOLEAN, id : Nat]
RequestStates == {"waiting", "sent", "late", "done", "failed", "dropped"}
SocketRequest == [kind : {"subscribe", "unsubscribe"}, of : Subs, arg : Nat, conn : Nat,
                  id : Nat, state : RequestStates]

SocketTyped ==
  /\ socket \in {"none", "connecting", "open", "closed"} /\ connection \in Nat
  /\ connecting \in BOOLEAN /\ requestId \in Nat
  /\ requests \in Seq(SocketRequest)
  /\ subscription \in [Subs -> Subscription]
  /\ server \in Seq(Subs \union {Null})

\* While there is a socket its promise is there, also when it is closed and to be replaced;
\* nobody is known before there is one.  Who has subscribed is known, and who has a number.
SocketsAreShared ==
  /\ socket \in {"connecting", "open"} \/ timer => connecting
  /\ timer => socket = "closed"
  /\ \A s \in Subs : subscription[s].known => connecting
  /\ \A s \in Subs : subscription[s].subscribed \/ subscription[s].id # Null =>
                     subscription[s].known
  /\ \A r \in DOMAIN requests : requests[r].conn <= connection

\* Nobody has a number before the connection is open, and a number to be given up then is
\* known to the server and to nobody else.
NumbersAreOfServer ==
  /\ socket \in {"none", "connecting"} =>
       /\ \A s \in Subs : subscription[s].id = Null
       /\ \A r \in DOMAIN requests : requests[r].conn = connection =>
                                     requests[r].kind = "subscribe"
  /\ socket = "open" =>
       /\ \A s \in Subs : subscription[s].id # Null =>
            subscription[s].id \in DOMAIN server /\ server[subscription[s].id] = s
       /\ \A r \in DOMAIN requests :
            requests[r].conn = connection /\ requests[r].kind = "unsubscribe" =>
              /\ requests[r].arg \in DOMAIN server
              /\ \A s \in Subs : subscription[s].id # requests[r].arg

\* Whoever lacks a number has asked for one.
NumbersAreAskedFor ==
  \A s \in Subs : socket \in {"connecting", "open"} /\ subscription[s].subscribed
                    /\ subscription[s].id = Null =>
    \E r \in DOMAIN requests :
      /\ requests[r].kind = "subscribe" /\ requests[r].of = s
      /\ requests[r].conn = connection /\ requests[r].state # "done"

SocketInv == SocketTyped /\ SocketsAreShared /\ NumbersAreOfServer /\ NumbersAreAskedFor

\* The sequence of a finite set has all of its elements.
LEMMA SequenceOfAll ==
  ASSUME NEW S, IsFiniteSet(S)
  PROVE  SetToSeq(S) \in Seq(S) /\ ToSet(SetToSeq(S)) = S
<1> DEFINE n == Cardinality(S)
           f == SetToSeq(S)
<1>1. n \in Nat /\ ExistsBijection(1..n, S) /\ IsFiniteSet(1..n) /\ Cardinality(1..n) = n
  BY FS_CardinalityType, FS_Interval
<1>2. PICK g \in Bijection(1..n, S) : TRUE
  BY <1>1 DEF ExistsBijection
<1>3. g \in [1..n -> S] /\ IsInjective(g)
  BY <1>2 DEF Bijection, Injection
<1>4. f \in [1..n -> S] /\ IsInjective(f)
  BY <1>3 DEF SetToSeq
<1>5. f \in Injection(1..n, S)
  BY <1>4 DEF IsInjective, Injection
<1>6. f \in Surjection(1..n, S)
  BY <1>1, <1>5, FS_Injection
<1>7. \A t \in S : \E i \in 1..n : f[i] = t
  BY <1>6 DEF Surjection
<1>8. f \in Seq(S) /\ DOMAIN f = 1..n
  BY <1>1, <1>4, AsLong
<1> HIDE DEF f, n
<1>9. ToSet(f) = S
  BY <1>4, <1>7, <1>8 DEF ToSet
<1> QED
  BY <1>8, <1>9 DEF f

\* Before the first request there is no socket and no subscriber.
LEMMA SocketBegins == WebsocketInit => SocketInv
<1> SUFFICES ASSUME WebsocketInit PROVE SocketInv
  OBVIOUS
<1>1. requests \in Seq(SocketRequest) /\ DOMAIN requests = {}
  BY DEF WebsocketInit
<1>2. server \in Seq(Subs \union {Null})
  BY DEF WebsocketInit
<1>3. subscription \in [Subs -> Subscription]
      /\ \A s \in Subs : ~subscription[s].known /\ ~subscription[s].subscribed
                         /\ subscription[s].id = Null
  BY DEF WebsocketInit, Subscription, Null
<1>4. socket = "none" /\ connection = 0 /\ requestId = 0
  BY DEF WebsocketInit
<1>5. connecting \in BOOLEAN /\ ~timer
  BY DEF WebsocketInit
<1> QED
  BY <1>1, <1>2, <1>3, <1>4, <1>5
     DEF SocketInv, SocketTyped, SocketsAreShared, NumbersAreOfServer, NumbersAreAskedFor

\* The requests are a function on their indices.
LEMMA RequestsAre ==
  ASSUME SocketTyped
  PROVE  /\ DOMAIN requests = 1..Len(requests) /\ Len(requests) \in Nat
         /\ \A r \in DOMAIN requests : requests[r] \in SocketRequest
BY LenProperties, ElementOfSeq DEF SocketTyped

\* Requests of a purpose are made for the subscriptions of `senders', on the connection
\* there is then.
Requested(purpose, senders, arg) ==
  /\ requests' \in Seq(SocketRequest)
  /\ DOMAIN requests \subseteq DOMAIN requests'
  /\ \A r \in DOMAIN requests : requests'[r] = requests[r]
  /\ \A r \in DOMAIN requests' \ DOMAIN requests :
       /\ requests'[r].kind = purpose /\ requests'[r].of \in ToSet(senders)
       /\ requests'[r].arg = arg /\ requests'[r].conn = connection'
       /\ requests'[r].state # "done"
  /\ \A s \in ToSet(senders) : \E r \in DOMAIN requests' \ DOMAIN requests : requests'[r].of = s

\* Requests that are appended leave those before them alone.
LEMMA AddingRequests ==
  ASSUME SocketTyped, NEW purpose, NEW arg, NEW senders \in Seq(Subs),
         NEW new, requests' = requests \o new,
         DOMAIN new = DOMAIN senders,
         \A i \in DOMAIN senders :
           /\ new[i] \in SocketRequest
           /\ new[i].kind = purpose /\ new[i].of = senders[i] /\ new[i].arg = arg
           /\ new[i].conn = connection' /\ new[i].state # "done",
         new = [i \in DOMAIN senders |-> new[i]]
  PROVE  Requested(purpose, senders, arg)
<1> DEFINE n == Len(requests)
           m == Len(senders)
<1>1. /\ DOMAIN requests = 1..n /\ n \in Nat /\ requests \in Seq(SocketRequest)
      /\ DOMAIN senders = 1..m /\ m \in Nat
  BY RequestsAre, LenProperties DEF SocketTyped
<1>2. new \in Seq(SocketRequest) /\ Len(new) = m
  <2>1. new \in [1..m -> SocketRequest]
    BY <1>1
  <2> QED
    BY <1>1, <2>1, AsLong
<1> HIDE DEF n, m
<1>3. /\ requests' \in Seq(SocketRequest) /\ Len(requests') = n + m
      /\ \A r \in 1..(n + m) : requests'[r] = IF r <= n THEN requests[r] ELSE new[r - n]
  BY <1>1, <1>2, ConcatProperties DEF n
<1>4. DOMAIN requests' = 1..(n + m)
  BY <1>3, LenProperties
<1>5. \A r \in DOMAIN requests : requests'[r] = requests[r]
  BY <1>1, <1>3
<1>6. \A r \in DOMAIN requests' \ DOMAIN requests :
        r - n \in DOMAIN senders /\ requests'[r] = new[r - n]
  BY <1>1, <1>3, <1>4
<1>7. \A i \in DOMAIN senders :
        n + i \in DOMAIN requests' \ DOMAIN requests /\ requests'[n + i] = new[i]
  BY <1>1, <1>3, <1>4
<1>8. ToSet(senders) = {senders[i] : i \in DOMAIN senders}
  BY DEF ToSet
<1>9. ASSUME NEW r \in DOMAIN requests' \ DOMAIN requests
      PROVE  /\ requests'[r].kind = purpose /\ requests'[r].of \in ToSet(senders)
             /\ requests'[r].arg = arg /\ requests'[r].conn = connection'
             /\ requests'[r].state # "done"
  BY <1>6, <1>8
<1>10. ASSUME NEW s \in ToSet(senders)
       PROVE  \E r \in DOMAIN requests' \ DOMAIN requests : requests'[r].of = s
  <2>1. PICK i \in DOMAIN senders : senders[i] = s
    BY <1>8
  <2> QED
    BY <1>7, <2>1
<1>11. DOMAIN requests \subseteq DOMAIN requests'
  BY <1>1, <1>4
<1> QED
  BY <1>3, <1>5, <1>9, <1>10, <1>11 DEF Requested

\* What makeRequest does, for nobody or for one.
LEMMA Requesting ==
  ASSUME SocketTyped, SocketsAreShared, NEW purpose \in {"subscribe", "unsubscribe"},
         NEW senders \in Seq(Subs), NEW arg \in Nat, MakeRequests(purpose, senders, arg)
  PROVE  /\ Requested(purpose, senders, arg) /\ requestId' \in Nat
         /\ IF connecting \/ senders = <<>>
            THEN UNCHANGED <<socket, connection, connecting, server>>
            ELSE /\ connection' = connection + 1 /\ socket' = "connecting"
                 /\ connecting' = TRUE /\ server' = <<>>
<1> DEFINE rec(i) == [kind |-> purpose, of |-> senders[i], arg |-> arg,
                      conn |-> IF connecting THEN connection ELSE connection + 1,
                      id |-> IF Ready THEN requestId + i ELSE 0,
                      state |-> IF Ready THEN "sent" ELSE "waiting"]
<1>1. DOMAIN senders = 1..Len(senders) /\ Len(senders) \in Nat
      /\ \A i \in DOMAIN senders : senders[i] \in Subs
  BY LenProperties, ElementOfSeq
<1>2. connection \in Nat /\ requestId \in Nat
  BY DEF SocketTyped
<1>3. /\ requests' = requests \o [i \in DOMAIN senders |-> rec(i)]
      /\ IF Ready THEN requestId' = requestId + Len(senders) ELSE requestId' = requestId
      /\ IF connecting \/ senders = <<>>
         THEN UNCHANGED <<socket, connection, connecting, server>>
         ELSE /\ connection' = connection + 1 /\ socket' = "connecting"
              /\ connecting' = TRUE /\ server' = <<>>
  BY DEF MakeRequests
<1>4. ASSUME NEW i \in DOMAIN senders
      PROVE  /\ rec(i) \in SocketRequest
             /\ rec(i).kind = purpose /\ rec(i).of = senders[i] /\ rec(i).arg = arg
             /\ rec(i).conn = connection' /\ rec(i).state # "done"
  <2>1. senders # <<>>
    BY <1>1, EmptySeq
  <2>2. connection' = IF connecting THEN connection ELSE connection + 1
    BY <1>3, <2>1
  <2>3. i \in Nat /\ senders[i] \in Subs
    BY <1>1
  <2>4. rec(i) \in SocketRequest
    BY <1>2, <2>3 DEF SocketRequest, RequestStates
  <2> QED
    BY <2>2, <2>4
<1> DEFINE new == [i \in DOMAIN senders |-> rec(i)]
<1>5. /\ requests' = requests \o new /\ DOMAIN new = DOMAIN senders
      /\ new = [i \in DOMAIN senders |-> new[i]]
      /\ \A i \in DOMAIN senders : new[i] = rec(i)
  BY <1>3
<1> HIDE DEF rec, new
<1>6. Requested(purpose, senders, arg)
  BY <1>4, <1>5, AddingRequests, SMTT(30)
<1>7. requestId' \in Nat
  BY <1>1, <1>2, <1>3
<1> QED
  BY <1>3, <1>6, <1>7

\* A subscription is made: nobody else had one, or there is a socket for it.
LEMMA SubscribingKeeps == ASSUME SocketInv, NEW s \in Subs, Subscribe(s) PROVE SocketInv'
<1>1. /\ SocketTyped /\ SocketsAreShared /\ subscription \in [Subs -> Subscription]
      /\ connection \in Nat /\ connecting \in BOOLEAN
      /\ socket \in {"none", "connecting", "open", "closed"}
      /\ server \in Seq(Subs \union {Null})
  BY DEF SocketInv, SocketTyped
<1>2. /\ ~subscription[s].known /\ timer' = timer
      /\ subscription' = [subscription EXCEPT ![s] =
                            [known |-> TRUE, subscribed |-> TRUE, id |-> Null]]
      /\ MakeRequests("subscribe", <<s>>, Null)
  BY DEF Subscribe
<1>3. <<s>> \in Seq(Subs) /\ <<s>> # <<>> /\ ToSet(<<s>>) = {s} /\ Null \in Nat
  BY DEF ToSet, Null
<1>4. /\ Requested("subscribe", <<s>>, Null) /\ requestId' \in Nat
      /\ IF connecting
         THEN UNCHANGED <<socket, connection, connecting, server>>
         ELSE /\ connection' = connection + 1 /\ socket' = "connecting"
              /\ connecting' = TRUE /\ server' = <<>>
  BY <1>1, <1>2, <1>3, Requesting
<1>5. /\ subscription' \in [Subs -> Subscription]
      /\ subscription'[s].known /\ subscription'[s].id = Null
      /\ \A u \in Subs \ {s} : subscription'[u] = subscription[u]
  BY <1>1, <1>2 DEF Subscription, Null
<1>6. SocketTyped'
  <2>1. <<>> \in Seq(Subs \union {Null})
    OBVIOUS
  <2>2. requests' \in Seq(SocketRequest)
    BY <1>4 DEF Requested
  <2>3. CASE connecting
    <3>1. UNCHANGED <<socket, connection, connecting, server>>
      BY <1>4, <2>3
    <3> QED
      BY <1>1, <1>4, <1>5, <2>2, <3>1 DEF SocketTyped
  <2>4. CASE ~connecting
    <3>1. /\ connection' = connection + 1 /\ socket' = "connecting"
          /\ connecting' = TRUE /\ server' = <<>>
      BY <1>4, <2>4
    <3>2. connecting' \in BOOLEAN
      BY <3>1
    <3> QED
      BY <1>1, <1>4, <1>5, <2>1, <2>2, <3>1, <3>2 DEF SocketTyped
  <2> QED
    BY <2>3, <2>4
<1>7. connecting' /\ connection <= connection'
  BY <1>1, <1>4
<1>8. ASSUME NEW r \in DOMAIN requests'
      PROVE  \/ r \in DOMAIN requests /\ requests'[r] = requests[r]
             \/ requests'[r].kind = "subscribe" /\ requests'[r].conn = connection'
  BY <1>4 DEF Requested
<1>9. \A r \in DOMAIN requests : requests[r].conn \in Nat /\ requests[r].conn <= connection
  BY RequestsAre DEF SocketInv, SocketsAreShared, SocketRequest
<1>10. SocketsAreShared'
  <2>1. ASSUME NEW r \in DOMAIN requests' PROVE requests'[r].conn <= connection'
    <3>1. connection' \in Nat
      BY <1>6 DEF SocketTyped
    <3> QED
      BY <1>1, <1>7, <1>8, <1>9, <3>1
  <2>2. \A u \in Subs : subscription'[u].subscribed \/ subscription'[u].id # Null =>
                        subscription'[u].known
    BY <1>1, <1>5 DEF SocketsAreShared
  <2>3. timer' => socket' = "closed"
    BY <1>1, <1>2, <1>4 DEF SocketsAreShared
  <2> QED
    BY <1>7, <2>1, <2>2, <2>3 DEF SocketsAreShared
<1>11. \A u \in Subs : subscription'[u].id # Null =>
          u # s /\ connecting /\ subscription'[u] = subscription[u]
  BY <1>1, <1>5 DEF SocketsAreShared
<1>12. NumbersAreOfServer'
  <2>1. CASE connecting
    <3>1. UNCHANGED <<socket, connection, connecting, server>>
      BY <1>4, <2>1
    <3>2. Null \notin DOMAIN server
      BY <1>1, LenProperties DEF Null
    <3>3. \A u \in Subs : subscription'[u].id \in {Null, subscription[u].id}
      BY <1>5
    <3> QED
      BY <1>8, <1>11, <3>1, <3>2, <3>3 DEF SocketInv, NumbersAreOfServer
  <2>2. CASE ~connecting
    <3>1. connection' = connection + 1 /\ socket' = "connecting"
      BY <1>4, <2>2
    <3>2. \A r \in DOMAIN requests' : requests'[r].conn = connection' =>
                                      requests'[r].kind = "subscribe"
      BY <1>1, <1>8, <1>9, <3>1
    <3> QED
      BY <1>11, <2>2, <3>1, <3>2 DEF NumbersAreOfServer
  <2> QED
    BY <2>1, <2>2
<1>13. NumbersAreAskedFor'
  <2> SUFFICES ASSUME NEW u \in Subs, socket' \in {"connecting", "open"},
                      subscription'[u].subscribed, subscription'[u].id = Null
               PROVE  \E r \in DOMAIN requests' :
                        /\ requests'[r].kind = "subscribe" /\ requests'[r].of = u
                        /\ requests'[r].conn = connection' /\ requests'[r].state # "done"
    BY DEF NumbersAreAskedFor
  <2>1. CASE u = s
    <3>1. PICK r \in DOMAIN requests' \ DOMAIN requests : requests'[r].of = s
      BY <1>3, <1>4 DEF Requested
    <3> QED
      BY <1>4, <2>1, <3>1 DEF Requested
  <2>2. CASE u # s
    <3>1. connecting /\ UNCHANGED <<socket, connection, server>>
      BY <1>1, <1>4, <1>5, <2>2 DEF SocketsAreShared
    <3>2. PICK r \in DOMAIN requests :
            /\ requests[r].kind = "subscribe" /\ requests[r].of = u
            /\ requests[r].conn = connection /\ requests[r].state # "done"
      BY <1>5, <2>2, <3>1 DEF SocketInv, NumbersAreAskedFor
    <3> QED
      BY <1>4, <3>1, <3>2 DEF Requested
  <2> QED
    BY <2>1, <2>2
<1> QED
  BY <1>6, <1>10, <1>12, <1>13 DEF SocketInv

\* A subscriber who leaves gives up its number, which nobody else holds.
LEMMA UnsubscribingKeeps == ASSUME SocketInv, NEW s \in Subs, Unsubscribe(s) PROVE SocketInv'
<1>1. /\ SocketTyped /\ SocketsAreShared /\ subscription \in [Subs -> Subscription]
      /\ connection \in Nat /\ connecting \in BOOLEAN
      /\ socket \in {"none", "connecting", "open", "closed"}
      /\ server \in Seq(Subs \union {Null})
  BY DEF SocketInv, SocketTyped
<1> DEFINE n == subscription[s].id
           senders == IF n = Null THEN <<>> ELSE <<s>>
<1>2. /\ subscription[s].subscribed /\ timer' = timer
      /\ subscription' = [subscription EXCEPT ![s].subscribed = FALSE, ![s].id = Null]
      /\ MakeRequests("unsubscribe", senders, n)
  BY DEF Unsubscribe
<1>3. /\ senders \in Seq(Subs) /\ n \in Nat /\ ToSet(senders) \subseteq {s}
      /\ n # Null => connecting
  BY <1>1 DEF ToSet, Subscription, SocketsAreShared
<1> HIDE DEF senders
<1>4. /\ Requested("unsubscribe", senders, n) /\ requestId' \in Nat
      /\ connecting \/ senders = <<>> => UNCHANGED <<socket, connection, connecting, server>>
  BY <1>1, <1>2, <1>3, Requesting
<1>5. UNCHANGED <<socket, connection, connecting, server>>
  BY <1>3, <1>4 DEF senders
<1>6. /\ subscription' \in [Subs -> Subscription]
      /\ subscription'[s].known = subscription[s].known
      /\ ~subscription'[s].subscribed /\ subscription'[s].id = Null
      /\ \A u \in Subs \ {s} : subscription'[u] = subscription[u]
  BY <1>1, <1>2 DEF Subscription, Null
<1>7. requests' \in Seq(SocketRequest)
  BY <1>4 DEF Requested
<1>8. SocketTyped'
  BY <1>1, <1>4, <1>5, <1>6, <1>7 DEF SocketTyped
<1>9. ASSUME NEW r \in DOMAIN requests'
      PROVE  \/ r \in DOMAIN requests /\ requests'[r] = requests[r]
             \/ /\ n # Null /\ requests'[r].kind = "unsubscribe"
                /\ requests'[r].conn = connection /\ requests'[r].arg = n
  <2>1. ToSet(<<>>) = {}
    BY DEF ToSet
  <2> QED
    BY <1>4, <1>5, <2>1 DEF Requested, senders
<1>10. SocketsAreShared'
  BY <1>1, <1>2, <1>5, <1>6, <1>9 DEF SocketsAreShared
<1>11. NumbersAreOfServer'
  <2>1. CASE socket = "open"
    <3>1. Null \notin DOMAIN server
      BY <1>1, LenProperties DEF Null
    <3>2. \A u \in Subs : subscription'[u].id # Null =>
            subscription'[u].id \in DOMAIN server /\ server[subscription'[u].id] = u
      BY <1>6, <2>1 DEF SocketInv, NumbersAreOfServer
    <3>3. n # Null => n \in DOMAIN server /\ \A u \in Subs \ {s} : subscription[u].id # n
      BY <2>1 DEF SocketInv, NumbersAreOfServer
    <3>4. ASSUME NEW r \in DOMAIN requests', requests'[r].conn = connection,
                 requests'[r].kind = "unsubscribe"
          PROVE  /\ requests'[r].arg \in DOMAIN server
                 /\ \A u \in Subs : subscription'[u].id # requests'[r].arg
      <4>1. CASE r \in DOMAIN requests /\ requests'[r] = requests[r]
        BY <1>6, <2>1, <3>1, <3>4, <4>1 DEF SocketInv, NumbersAreOfServer
      <4>2. CASE n # Null /\ requests'[r].arg = n
        BY <1>6, <3>3, <4>2
      <4> QED
        BY <1>9, <4>1, <4>2
    <3> QED
      BY <1>5, <2>1, <3>2, <3>4 DEF NumbersAreOfServer
  <2>2. CASE socket \in {"none", "connecting"}
    <3>1. n = Null
      BY <2>2 DEF SocketInv, NumbersAreOfServer
    <3> QED
      BY <1>5, <1>6, <1>9, <2>2, <3>1 DEF SocketInv, NumbersAreOfServer
  <2>3. CASE socket = "closed"
    BY <1>5, <2>3 DEF NumbersAreOfServer
  <2> QED
    BY <1>1, <2>1, <2>2, <2>3
<1>12. NumbersAreAskedFor'
  <2> SUFFICES ASSUME NEW u \in Subs, socket' \in {"connecting", "open"},
                      subscription'[u].subscribed, subscription'[u].id = Null
               PROVE  \E r \in DOMAIN requests' :
                        /\ requests'[r].kind = "subscribe" /\ requests'[r].of = u
                        /\ requests'[r].conn = connection' /\ requests'[r].state # "done"
    BY DEF NumbersAreAskedFor
  <2>1. u # s /\ subscription'[u] = subscription[u]
    BY <1>6
  <2>2. PICK r \in DOMAIN requests :
          /\ requests[r].kind = "subscribe" /\ requests[r].of = u
          /\ requests[r].conn = connection /\ requests[r].state # "done"
    BY <1>5, <2>1 DEF SocketInv, NumbersAreAskedFor
  <2> QED
    BY <1>4, <1>5, <2>2 DEF Requested
<1> QED
  BY <1>8, <1>10, <1>11, <1>12 DEF SocketInv

\* #reconnect: the numbers are forgotten and asked for again.
LEMMA ReconnectingKeeps == ASSUME SocketInv, Reconnect PROVE SocketInv'
<1>1. /\ SocketTyped /\ SocketsAreShared /\ subscription \in [Subs -> Subscription]
      /\ connection \in Nat /\ requestId \in Nat
      /\ requests \in Seq(SocketRequest)
      /\ \A r \in DOMAIN requests : requests[r].conn \in Nat /\ requests[r].conn <= connection
  BY RequestsAre DEF SocketInv, SocketTyped, SocketsAreShared, SocketRequest
<1> DEFINE known == SetToSeq(ToRenew)
<1>2. known \in Seq(ToRenew) /\ ToSet(known) = ToRenew
  <2>1. IsFiniteSet(ToRenew)
    BY SubsAssumption, FS_Subset DEF ToRenew
  <2> QED
    BY <2>1, SequenceOfAll
<1>3. known \in Seq(Subs) /\ \A i \in DOMAIN known : known[i] \in Subs
  <2>1. known \in Seq(Subs)
    BY <1>2, SeqMonotonic DEF ToRenew
  <2> QED
    BY <2>1, LenProperties, ElementOfSeq
<1>4. /\ connecting' = (known # <<>>)
      /\ IF known = <<>> THEN UNCHANGED <<socket, connection, server, requests>>
         ELSE /\ connection' = connection + 1
              /\ socket' = "connecting" /\ server' = <<>>
              /\ requests' = requests \o
                   [i \in DOMAIN known |->
                       [kind |-> "subscribe", of |-> known[i], arg |-> Null,
                        conn |-> connection + 1, id |-> 0, state |-> "waiting"]]
      /\ subscription' = [s \in Subs |-> Renewed(s)]
      /\ requestId' = requestId /\ timer /\ ~timer'
  BY DEF Reconnect
<1> HIDE DEF known
<1>5. /\ subscription' \in [Subs -> Subscription]
      /\ \A s \in Subs : subscription'[s].known = subscription[s].known
      /\ \A s \in Subs : subscription[s].known => subscription'[s].id = Null
      /\ \A s \in Subs : ~subscription[s].known => subscription'[s] = subscription[s]
  BY <1>1, <1>4 DEF Renewed, Subscription, Null
<1>6. \A s \in Subs : /\ subscription'[s].id = Null
                      /\ subscription'[s].subscribed => subscription'[s].known
  BY <1>1, <1>5 DEF SocketsAreShared
<1>7. CASE known = <<>>
  <2>1. ToRenew = {}
    BY <1>2, <1>7 DEF ToSet
  <2>2. \A s \in Subs : ~subscription'[s].known /\ ~subscription'[s].subscribed
    BY <1>5, <1>6, <2>1 DEF ToRenew
  <2>3. connecting' = FALSE /\ UNCHANGED <<socket, connection, server, requests>>
    BY <1>4, <1>7
  <2>4. connecting' \in BOOLEAN
    BY <2>3
  <2>5. SocketTyped'
    BY <1>1, <1>4, <1>5, <2>3, <2>4 DEF SocketTyped
  <2>6. SocketsAreShared'
    BY <1>1, <1>4, <2>2, <1>6, <2>3 DEF SocketsAreShared
  <2>7. socket' = "closed"
    BY <1>1, <1>4, <2>3 DEF SocketsAreShared
  <2> QED
    BY <2>5, <2>6, <2>7 DEF SocketInv, NumbersAreOfServer, NumbersAreAskedFor
<1>8. CASE known # <<>>
  <2>1. /\ connecting' = TRUE /\ connection' = connection + 1
        /\ socket' = "connecting" /\ server' = <<>>
    BY <1>4, <1>8
  <2> DEFINE new == [i \in DOMAIN known |->
                       [kind |-> "subscribe", of |-> known[i], arg |-> Null,
                        conn |-> connection + 1, id |-> 0, state |-> "waiting"]]
  <2>2. requests' = requests \o new /\ DOMAIN new = DOMAIN known
        /\ new = [i \in DOMAIN known |-> new[i]]
    BY <1>4, <1>8
  <2>3. ASSUME NEW i \in DOMAIN known
        PROVE  /\ new[i] \in SocketRequest
               /\ new[i].kind = "subscribe" /\ new[i].of = known[i] /\ new[i].arg = Null
               /\ new[i].conn = connection' /\ new[i].state # "done"
    BY <1>1, <1>3, <2>1 DEF SocketRequest, RequestStates, Null
  <2> HIDE DEF new
  <2>4. Requested("subscribe", known, Null)
    BY <1>1, <1>3, <2>2, <2>3, AddingRequests
  <2>5. connecting' \in BOOLEAN /\ <<>> \in Seq(Subs \union {Null})
    BY <2>1
  <2>6. SocketTyped'
    BY <1>1, <1>4, <1>5, <2>1, <2>4, <2>5 DEF SocketTyped, Requested
  <2>7. ASSUME NEW r \in DOMAIN requests'
        PROVE  \/ requests'[r].conn \in Nat /\ requests'[r].conn <= connection
               \/ requests'[r].conn = connection' /\ requests'[r].kind = "subscribe"
    BY <1>1, <2>4 DEF Requested
  <2>8. SocketsAreShared'
    <3>1. \A s \in Subs : subscription'[s].subscribed \/ subscription'[s].id # Null =>
                           subscription'[s].known
      BY <1>6
    <3>2. ~timer' /\ connecting'
      BY <1>4, <2>1
    <3>3. ASSUME NEW r \in DOMAIN requests' PROVE requests'[r].conn <= connection'
      BY <1>1, <2>1, <2>7
    <3> QED
      BY <3>1, <3>2, <3>3 DEF SocketsAreShared
  <2>9. NumbersAreOfServer'
    BY <1>1, <1>6, <2>1, <2>7 DEF NumbersAreOfServer
  <2>10. NumbersAreAskedFor'
    <3> SUFFICES ASSUME NEW u \in Subs, subscription'[u].subscribed
                 PROVE  \E r \in DOMAIN requests' :
                          /\ requests'[r].kind = "subscribe" /\ requests'[r].of = u
                          /\ requests'[r].conn = connection' /\ requests'[r].state # "done"
      BY DEF NumbersAreAskedFor
    <3>1. u \in ToSet(known)
      BY <1>2, <1>5, <1>6 DEF ToRenew
    <3>2. PICK r \in DOMAIN requests' \ DOMAIN requests : requests'[r].of = u
      BY <2>4, <3>1 DEF Requested
    <3> QED
      BY <2>4, <3>2 DEF Requested
  <2> QED
    BY <2>6, <2>8, <2>9, <2>10 DEF SocketInv
<1> QED
  BY <1>7, <1>8

\* The calls stay the same ones on the same connections; how they stand may change.
Kept ==
  /\ requests' \in Seq(SocketRequest) /\ DOMAIN requests' = DOMAIN requests
  /\ \A r \in DOMAIN requests :
       /\ requests'[r].kind = requests[r].kind /\ requests'[r].of = requests[r].of
       /\ requests'[r].arg = requests[r].arg /\ requests'[r].conn = requests[r].conn

\* In `f' the requests differ in their ids and states at most.
Resettled(f) ==
  /\ f = [r \in DOMAIN requests |-> f[r]]
  /\ \A r \in DOMAIN requests : \E i \in Nat, t \in RequestStates :
       f[r] = [requests[r] EXCEPT !.id = i, !.state = t]

\* A handler that sets only ids and states of requests keeps what they ask for.
LEMMA SettlingKeepsCalls ==
  ASSUME SocketTyped, NEW f, requests' = f, Resettled(f)
  PROVE  Kept
<1> DEFINE n == Len(requests)
<1>1. /\ DOMAIN requests = 1..n /\ n \in Nat
      /\ \A r \in DOMAIN requests : requests[r] \in SocketRequest
  BY RequestsAre
<1> HIDE DEF n
<1>2. ASSUME NEW r \in DOMAIN requests
      PROVE  /\ f[r] \in SocketRequest
             /\ f[r].kind = requests[r].kind /\ f[r].of = requests[r].of
             /\ f[r].arg = requests[r].arg /\ f[r].conn = requests[r].conn
  <2>1. PICK i \in Nat, t \in RequestStates :
          f[r] = [requests[r] EXCEPT !.id = i, !.state = t]
    BY DEF Resettled
  <2> QED
    BY <1>1, <2>1 DEF SocketRequest
<1>3. f \in [1..n -> SocketRequest]
  BY <1>1, <1>2 DEF Resettled
<1>4. f \in Seq(SocketRequest)
  BY <1>1, <1>3, AsLong
<1>5. requests' = f /\ DOMAIN f = DOMAIN requests
  BY <1>1, <1>3
<1> QED
  BY <1>2, <1>4, <1>5 DEF Kept

\* What is sent when a connection opens was asked for while it was connecting.
LEMMA OpeningKeeps == ASSUME SocketInv, Open PROVE SocketInv'
<1>1. /\ SocketTyped /\ SocketsAreShared /\ requestId \in Nat /\ socket = "connecting"
      /\ Len(requests) \in Nat
  BY RequestsAre DEF SocketInv, SocketTyped, Open
<1> DEFINE Waits(r) == requests[r].conn = connection
           Id(r) == requestId + Cardinality({q \in 1 .. r : Waits(q)})
           f == [r \in DOMAIN requests |->
                   IF Waits(r) THEN [requests[r] EXCEPT !.state = "sent", !.id = Id(r)]
                               ELSE requests[r]]
<1>2. /\ socket' = "open" /\ requests' = f /\ requestId' = Id(Len(requests))
      /\ UNCHANGED <<connection, connecting, timer, subscription, server>>
  BY DEF Open
<1>3. ASSUME NEW r \in Nat PROVE Id(r) \in Nat
  <2>1. {q \in 1 .. r : Waits(q)} \subseteq 1 .. r /\ IsFiniteSet(1 .. r)
    BY FS_Interval
  <2>2. Cardinality({q \in 1 .. r : Waits(q)}) \in Nat
    BY <2>1, FS_Subset, FS_CardinalityType
  <2> QED
    BY <1>1, <2>2
<1> HIDE DEF Id
<1>4. ASSUME NEW r \in DOMAIN requests
      PROVE  \E i \in Nat, t \in RequestStates :
               f[r] = [requests[r] EXCEPT !.id = i, !.state = t]
  <2>1. requests[r] \in SocketRequest /\ r \in Nat
    BY <1>1, RequestsAre
  <2>2. requests[r] = [requests[r] EXCEPT !.id = requests[r].id, !.state = requests[r].state]
        /\ requests[r].id \in Nat /\ requests[r].state \in RequestStates
    BY <2>1 DEF SocketRequest
  <2>3. CASE Waits(r)
    <3>1. f[r] = [requests[r] EXCEPT !.id = Id(r), !.state = "sent"]
      BY <2>1, <2>3 DEF SocketRequest
    <3>2. Id(r) \in Nat /\ "sent" \in RequestStates
      BY <1>3, <2>1 DEF RequestStates
    <3> QED
      BY <3>1, <3>2
  <2>4. CASE ~Waits(r)
    BY <2>2, <2>4
  <2> QED
    BY <2>3, <2>4
<1>5. f = [r \in DOMAIN requests |-> f[r]]
  OBVIOUS
<1>6. \A r \in DOMAIN requests : f[r].conn = connection => f[r].state = "sent"
  <2> SUFFICES ASSUME NEW r \in DOMAIN requests, f[r].conn = connection
               PROVE  f[r].state = "sent"
    OBVIOUS
  <2>1. requests[r] \in SocketRequest
    BY <1>1, RequestsAre
  <2> QED
    BY <2>1 DEF SocketRequest
<1> HIDE DEF f
<1>7. Kept
  <2>1. PICK g : g = f
    OBVIOUS
  <2>2. SocketTyped /\ requests' = g
    BY <1>1, <1>2, <2>1
  <2>3. Resettled(g)
    BY <1>4, <1>5, <2>1 DEF Resettled
  <2> QED
    BY <2>2, <2>3, SettlingKeepsCalls
<1>8. requestId' \in Nat
  BY <1>1, <1>2, <1>3
<1>9. SocketTyped'
  BY <1>1, <1>2, <1>7, <1>8 DEF SocketTyped, Kept
<1>10. SocketsAreShared'
  BY <1>1, <1>2, <1>7 DEF SocketsAreShared, Kept
<1>11. NumbersAreOfServer'
  BY <1>1, <1>2, <1>7 DEF SocketInv, NumbersAreOfServer, Kept
<1>12. \A r \in DOMAIN requests' : requests'[r].conn = connection' =>
                                   requests'[r].state # "done"
  BY <1>2, <1>6, <1>7 DEF Kept
<1>13. NumbersAreAskedFor'
  BY <1>1, <1>2, <1>7, <1>12 DEF SocketInv, NumbersAreAskedFor, Kept
<1> QED
  BY <1>9, <1>10, <1>11, <1>13 DEF SocketInv

\* A closed socket promises nothing; its promise stays until it is replaced.
LEMMA ClosingKeeps == ASSUME SocketInv, Close PROVE SocketInv'
<1>1. /\ SocketTyped /\ SocketsAreShared /\ socket \in {"connecting", "open"}
  BY DEF SocketInv, Close
<1>2. /\ socket' = "closed" /\ server' = <<>>
      /\ UNCHANGED <<connection, connecting, requestId, subscription>>
  BY DEF Close
<1> DEFINE f == [r \in DOMAIN requests |->
                   [requests[r] EXCEPT !.state = IF @ = "late" THEN "failed" ELSE @]]
<1>3. requests' = f /\ f = [r \in DOMAIN requests |-> f[r]]
  BY DEF Close
<1>4. ASSUME NEW r \in DOMAIN requests
      PROVE  \E i \in Nat, t \in RequestStates :
               f[r] = [requests[r] EXCEPT !.id = i, !.state = t]
  <2>1. requests[r] \in SocketRequest
    BY <1>1, RequestsAre
  <2> DEFINE t == IF requests[r].state = "late" THEN "failed" ELSE requests[r].state
  <2>2. t \in RequestStates /\ requests[r].id \in Nat
        /\ f[r] = [requests[r] EXCEPT !.id = requests[r].id, !.state = t]
    BY <2>1 DEF SocketRequest, RequestStates
  <2> QED
    BY <2>2
<1> HIDE DEF f
<1>5. Kept
  <2>1. PICK g : g = f
    OBVIOUS
  <2>2. SocketTyped /\ requests' = g
    BY <1>1, <1>3, <2>1
  <2>3. Resettled(g)
    BY <1>3, <1>4, <2>1 DEF Resettled
  <2> QED
    BY <2>2, <2>3, SettlingKeepsCalls
<1>6. <<>> \in Seq(Subs \union {Null})
  OBVIOUS
<1>7. SocketTyped'
  BY <1>1, <1>2, <1>5, <1>6 DEF SocketTyped, Kept
<1>8. connecting /\ SocketsAreShared'
  BY <1>1, <1>2, <1>5 DEF SocketsAreShared, Kept
<1> QED
  BY <1>2, <1>7, <1>8 DEF SocketInv, NumbersAreOfServer, NumbersAreAskedFor

\* A request that leaves the list of pending ones is settled or was dropped; nobody
\* counts as answered for whom no answer was found.
Settles(r, done) ==
  /\ Kept /\ UNCHANGED <<socket, connection, connecting, timer, requestId>>
  /\ \A q \in DOMAIN requests \ {r} : requests'[q] = requests[q]
  /\ requests'[r].state = "done" => done \/ requests[r].state = "done"

\* An answer, whatever it says, concerns its own request only.
LEMMA ConcludingSettles ==
  ASSUME SocketTyped, NEW r \in DOMAIN requests, Arrives(r),
         NEW found \in {"done", "failed"}, Concluded(r, found)
  PROVE  Settles(r, Found(r) /\ found = "done")
<1> DEFINE t == CASE requests[r].state = "late" -> "failed"
                  [] Found(r)                   -> found
                  [] OTHER                      -> "dropped"
           f == [requests EXCEPT ![r].state = t]
<1>1. requests' = f /\ UNCHANGED <<socket, connection, connecting, timer, requestId>>
  BY DEF Concluded, Arrives
<1>2. \A q \in DOMAIN requests : requests[q] \in SocketRequest
  BY RequestsAre
<1>3. t \in RequestStates /\ (t = "done" => Found(r) /\ found = "done")
  BY DEF RequestStates
<1> HIDE DEF t
<1>4. /\ f = [q \in DOMAIN requests |-> f[q]]
      /\ \A q \in DOMAIN requests \ {r} : f[q] = requests[q]
      /\ f[r].state = t /\ f[r] = [requests[r] EXCEPT !.id = requests[r].id, !.state = t]
  <2>1. requests = [q \in DOMAIN requests |-> requests[q]]
    BY RequestsAre DEF SocketTyped
  <2> QED
    BY <1>2, <2>1 DEF SocketRequest
<1>5. ASSUME NEW q \in DOMAIN requests
      PROVE  \E i \in Nat, u \in RequestStates :
               f[q] = [requests[q] EXCEPT !.id = i, !.state = u]
  <2>1. /\ requests[q] = [requests[q] EXCEPT !.id = requests[q].id,
                                            !.state = requests[q].state]
        /\ requests[q].id \in Nat /\ requests[q].state \in RequestStates
    BY <1>2 DEF SocketRequest
  <2> QED
    BY <1>3, <1>4, <2>1
<1> HIDE DEF f
<1>6. Kept
  <2>1. PICK g : g = f
    OBVIOUS
  <2> QED
    BY <1>1, <1>4, <1>5, <2>1, SettlingKeepsCalls DEF Resettled
<1> QED
  BY <1>1, <1>3, <1>4, <1>6 DEF Settles

\* While nothing else changes, a request may fail.
LEMMA FailingKeeps ==
  ASSUME SocketInv, NEW r \in DOMAIN requests, Settles(r, FALSE),
         UNCHANGED <<subscription, server>>
  PROVE  SocketInv'
<1>1. SocketTyped' /\ SocketsAreShared'
  BY DEF SocketInv, SocketTyped, SocketsAreShared, Settles, Kept
<1>2. NumbersAreOfServer'
  BY DEF SocketInv, NumbersAreOfServer, Settles, Kept
<1>3. \A q \in DOMAIN requests : requests'[q].state = "done" => requests[q].state = "done"
  BY DEF Settles
<1>4. NumbersAreAskedFor'
  BY <1>3 DEF SocketInv, NumbersAreAskedFor, Settles, Kept
<1> QED
  BY <1>1, <1>2, <1>4 DEF SocketInv

\* A subscription the server refuses has no number; its request tells.
LEMMA RefusingKeeps ==
  ASSUME SocketInv, NEW r \in DOMAIN requests, Refuse(r)
  PROVE  SocketInv'
<1>1. Settles(r, FALSE)
  <2>1. Settles(r, Found(r) /\ "failed" = "done")
    BY ConcludingSettles DEF SocketInv, Refuse
  <2> QED
    BY <2>1 DEF Settles
<1> QED
  BY <1>1, FailingKeeps DEF Refuse

\* A timer, or a signal, rejects its own request, whichever entry it deletes.
LEMMA RejectingKeeps ==
  ASSUME SocketInv, NEW r \in DOMAIN requests, DeleteAndReject(r)
  PROVE  SocketInv'
<1> DEFINE t == CASE requests[r].state = "sent" -> Overdue(r)
                  [] requests[r].state = "dropped" -> "failed"
                  [] OTHER -> requests[r].state
           f == [requests EXCEPT ![r].state = t]
<1>1. /\ requests' = f
      /\ UNCHANGED <<socket, connection, connecting, timer, requestId, subscription, server>>
  BY DEF DeleteAndReject, TimedOut
<1>2. \A q \in DOMAIN requests : requests[q] \in SocketRequest
  BY RequestsAre DEF SocketInv
<1>3. t \in RequestStates /\ (t = "done" => requests[r].state = "done")
  BY <1>2 DEF RequestStates, SocketRequest, Overdue
<1> HIDE DEF t
<1>4. /\ f = [q \in DOMAIN requests |-> f[q]]
      /\ \A q \in DOMAIN requests \ {r} : f[q] = requests[q]
      /\ f[r].state = t /\ f[r] = [requests[r] EXCEPT !.id = requests[r].id, !.state = t]
  <2>1. requests = [q \in DOMAIN requests |-> requests[q]]
    BY RequestsAre DEF SocketInv, SocketTyped
  <2> QED
    BY <1>2, <2>1 DEF SocketRequest
<1>5. ASSUME NEW q \in DOMAIN requests
      PROVE  \E i \in Nat, u \in RequestStates :
               f[q] = [requests[q] EXCEPT !.id = i, !.state = u]
  <2>1. /\ requests[q] = [requests[q] EXCEPT !.id = requests[q].id,
                                            !.state = requests[q].state]
        /\ requests[q].id \in Nat /\ requests[q].state \in RequestStates
    BY <1>2 DEF SocketRequest
  <2> QED
    BY <1>3, <1>4, <2>1
<1> HIDE DEF f
<1>6. Kept
  <2>1. PICK g : g = f
    OBVIOUS
  <2> QED
    BY <1>1, <1>4, <1>5, <2>1, SettlingKeepsCalls DEF Resettled, SocketInv
<1>7. Settles(r, FALSE)
  BY <1>1, <1>3, <1>4, <1>6 DEF Settles
<1> QED
  BY <1>1, <1>7, FailingKeeps

\* An answer gives the next number to the subscriber who waits for it, or takes one from
\* the server that nobody holds any more.
LEMMA AnsweringKeeps ==
  ASSUME SocketInv, NEW r \in DOMAIN requests, Answer(r)
  PROVE  SocketInv'
<1> DEFINE s == requests[r].of
           n == Len(server)
<1>1. /\ SocketTyped /\ SocketsAreShared /\ subscription \in [Subs -> Subscription]
      /\ server \in Seq(Subs \union {Null}) /\ requests[r] \in SocketRequest
      /\ n \in Nat /\ DOMAIN server = 1..n
  BY RequestsAre, LenProperties DEF SocketInv, SocketTyped
<1>2. Settles(r, Found(r) /\ "done" = "done")
  BY <1>1, ConcludingSettles DEF Answer
<1>3. /\ s \in Subs /\ requests[r].arg \in Nat /\ socket = "open"
      /\ requests[r].conn = connection /\ requests[r].kind \in {"subscribe", "unsubscribe"}
  BY <1>1 DEF SocketRequest, Answer, Arrives
<1>4. CASE requests[r].kind = "subscribe"
  <2>1. /\ server' = Append(server, s)
        /\ IF Found(r) /\ subscription[s].subscribed
           THEN subscription' = [subscription EXCEPT ![s].id = Len(server')]
           ELSE UNCHANGED subscription
    BY <1>4 DEF Answer
  <2>2. /\ server' \in Seq(Subs \union {Null}) /\ Len(server') = n + 1
        /\ DOMAIN server' = 1..(n + 1) /\ server'[n + 1] = s
        /\ \A i \in 1..n : server'[i] = server[i]
    BY <1>1, <1>3, <2>1, AppendProperties, LenProperties
  <2> HIDE DEF s, n
  <2>3. /\ subscription' \in [Subs -> Subscription]
        /\ \A u \in Subs : /\ subscription'[u].known = subscription[u].known
                             /\ subscription'[u].subscribed = subscription[u].subscribed
        /\ \A u \in Subs : \/ subscription'[u].id = subscription[u].id
                             \/ /\ u = s /\ subscription[s].subscribed
                                /\ subscription'[u].id = n + 1
        /\ Found(r) /\ subscription[s].subscribed => subscription'[s].id = n + 1
    BY <1>1, <1>3, <2>1, <2>2, SMTT(30) DEF Subscription, s
  <2>4. SocketTyped'
    BY <1>1, <1>2, <2>2, <2>3 DEF SocketTyped, Settles, Kept
  <2>5. SocketsAreShared'
    BY <1>1, <1>2, <2>3 DEF SocketsAreShared, Settles, Kept
  <2>6. \A u \in Subs : subscription[u].id # Null =>
          subscription[u].id \in 1..n /\ server[subscription[u].id] = u
    BY <1>1, <1>3 DEF SocketInv, NumbersAreOfServer, n
  <2>7. \A u \in Subs : subscription'[u].id # Null =>
          subscription'[u].id \in DOMAIN server' /\ server'[subscription'[u].id] = u
    BY <1>1, <2>2, <2>3, <2>6 DEF n
  <2>8. ASSUME NEW q \in DOMAIN requests, requests[q].conn = connection,
               requests[q].kind = "unsubscribe"
        PROVE  /\ requests[q].arg \in 1..n
               /\ \A u \in Subs : subscription[u].id # requests[q].arg
    BY <1>1, <1>3, <2>8 DEF SocketInv, NumbersAreOfServer, n
  <2>9. ASSUME NEW q \in DOMAIN requests, requests[q].conn = connection,
               requests[q].kind = "unsubscribe"
        PROVE  /\ requests[q].arg \in DOMAIN server'
               /\ \A u \in Subs : subscription'[u].id # requests[q].arg
    BY <1>1, <2>2, <2>3, <2>8, <2>9 DEF n
  <2>10. NumbersAreOfServer'
    BY <1>2, <1>3, <2>7, <2>9 DEF NumbersAreOfServer, Settles, Kept
  <2>11. NumbersAreAskedFor'
    <3> SUFFICES ASSUME NEW u \in Subs, subscription'[u].subscribed,
                        subscription'[u].id = Null
                 PROVE  \E q \in DOMAIN requests' :
                          /\ requests'[q].kind = "subscribe" /\ requests'[q].of = u
                          /\ requests'[q].conn = connection' /\ requests'[q].state # "done"
      BY DEF NumbersAreAskedFor
    <3>1. subscription[u].subscribed /\ subscription[u].id = Null
          /\ ~(u = s /\ Found(r))
      BY <1>1, <2>3 DEF Null, n
    <3>2. PICK q \in DOMAIN requests :
            /\ requests[q].kind = "subscribe" /\ requests[q].of = u
            /\ requests[q].conn = connection /\ requests[q].state # "done"
      BY <1>3, <3>1 DEF SocketInv, NumbersAreAskedFor
    <3>3. requests'[q].state # "done"
      BY <1>2, <3>1, <3>2 DEF Settles, s
    <3> QED
      BY <1>2, <3>2, <3>3 DEF Settles, Kept
  <2> QED
    BY <2>4, <2>5, <2>10, <2>11 DEF SocketInv
<1>5. CASE requests[r].kind = "unsubscribe"
  <2> DEFINE a == requests[r].arg
  <2>1. server' = [server EXCEPT ![a] = Null] /\ UNCHANGED subscription
    BY <1>5 DEF Answer
  <2>2. a \in DOMAIN server /\ \A u \in Subs : subscription[u].id # a
    BY <1>3, <1>5 DEF SocketInv, NumbersAreOfServer
  <2> HIDE DEF s, n, a
  <2>3. /\ server' \in Seq(Subs \union {Null}) /\ DOMAIN server' = DOMAIN server
        /\ \A i \in DOMAIN server \ {a} : server'[i] = server[i]
    BY <1>1, <2>1, <2>2, ExceptSeq
  <2>4. SocketTyped' /\ SocketsAreShared'
    BY <1>1, <1>2, <2>1, <2>3 DEF SocketTyped, SocketsAreShared, Settles, Kept
  <2>5. NumbersAreOfServer'
    BY <1>2, <1>3, <2>1, <2>2, <2>3 DEF SocketInv, NumbersAreOfServer, Settles, Kept
  <2>6. ASSUME NEW q \in DOMAIN requests, requests[q].kind = "subscribe"
        PROVE  requests'[q] = requests[q]
    BY <1>2, <1>5, <2>6 DEF Settles
  <2>7. NumbersAreAskedFor'
    BY <1>2, <1>3, <2>1, <2>6 DEF SocketInv, NumbersAreAskedFor, Settles, Kept
  <2> QED
    BY <2>4, <2>5, <2>7 DEF SocketInv
<1> QED
  BY <1>3, <1>4, <1>5

\* Every handler, and nothing at all, keeps what is known about the numbers.
LEMMA SocketKept == ASSUME SocketInv, [WebsocketNext]_websocket PROVE SocketInv'
<1>1. CASE UNCHANGED websocket
  BY <1>1 DEF SocketInv, SocketTyped, SocketsAreShared, NumbersAreOfServer,
              NumbersAreAskedFor, websocket
<1>2. ASSUME NEW r \in DOMAIN requests, Answer(r) \/ Refuse(r) \/ Timeout(r) \/ Abort(r)
      PROVE  SocketInv'
  BY <1>2, AnsweringKeeps, RefusingKeeps, RejectingKeeps DEF Timeout, Abort
<1>3. ASSUME NEW s \in Subs, Subscribe(s) \/ Unsubscribe(s)
      PROVE  SocketInv'
  BY <1>3, SubscribingKeeps, UnsubscribingKeeps
<1>4. CASE Open \/ Close \/ Reconnect
  BY <1>4, OpeningKeeps, ClosingKeeps, ReconnectingKeeps
<1> QED
  BY <1>1, <1>2, <1>3, <1>4 DEF WebsocketNext

\* The invariant of the socket holds in every behaviour.
LEMMA SocketHolds == WebsocketSpec => []SocketInv
BY SocketBegins, SocketKept, PTL DEF WebsocketSpec

\* A notification carries the number the server gave: whoever holds that number in
\* #subscriptions (rpc-websocket-client.ts) is the one the server took on under it on this
\* connection, for any number of subscriptions, timeouts, late answers and reconnections.
THEOREM NotificationsReachSubscribers == WebsocketSpec => []RightSubscriber
<1>1. SocketInv => RightSubscriber
  BY DEF SocketInv, NumbersAreOfServer, RightSubscriber
<1> QED
  BY <1>1, SocketHolds, PTL

\* The reconnection of rpc-websocket-client.ts leaves nobody behind: a subscriber without
\* a number on an open connection has asked for one there and was not yet given any.
THEOREM EverySubscriberAsks == WebsocketSpec => []NobodyIsForgotten
<1>1. SocketInv => NobodyIsForgotten
  BY DEF SocketInv, NumbersAreAskedFor, NobodyIsForgotten
<1> QED
  BY <1>1, SocketHolds, PTL

-----------------------------------------------------------------------------
(* Key servers of different weight.                                         *)

\* The weight of a set of servers is the sum of theirs.
LEMMA WeightsAreSums ==
  ASSUME NEW S, IsFiniteSet(S)
  PROVE  WeightOf(S) = SumOver(Weight, S)
<1>. DEFINE g == CHOOSE h : h = [T \in SUBSET S |->
                    IF T = {} THEN 0
                    ELSE LET x == CHOOSE x \in T : TRUE IN Weight[x] + h[T \ {x}]]
<1>1. WeightOf(S) = g[S]
  BY DEF WeightOf, MapThenSumSet, MapThenFoldSet
<1>2. g = CHOOSE h : Sums(Weight, h, S)
  BY DEF Sums, SumStep
<1>. QED BY <1>1, <1>2 DEF SumOver

\* Weights of servers add up, one by one and part by part.
LEMMA WeightsAdd ==
  ASSUME NEW S \in SUBSET Servers
  PROVE  /\ IsFiniteSet(S) /\ WeightOf(S) \in Nat
         /\ \A s \in S : /\ Weight[s] \in Nat
                         /\ WeightOf(S) = Weight[s] + WeightOf(S \ {s})
         /\ \A P \in SUBSET S : /\ WeightOf(P) \in Nat /\ WeightOf(P) <= WeightOf(S)
                                /\ WeightOf(S) = WeightOf(P) + WeightOf(S \ P)
<1>1. \A T \in SUBSET Servers : IsFiniteSet(T) /\ WeightOf(T) = SumOver(Weight, T)
  <2>. TAKE T \in SUBSET Servers
  <2>1. IsFiniteSet(T)
    BY FetchAssumption, FS_Subset
  <2>. QED BY <2>1, WeightsAreSums
<1>2. \A T \in SUBSET Servers : \A s \in T : Weight[s] \in Nat
  BY FetchAssumption
<1>3. IsFiniteSet(S) /\ \A s \in S : Weight[s] \in Nat /\ Weight[s] \in Int
  BY <1>1, <1>2
<1>4. \A s \in S : SumOver(Weight, S) = Weight[s] + SumOver(Weight, S \ {s})
  BY <1>3, SumOverRemove
<1>5. \A P \in SUBSET S : /\ SumOver(Weight, P) \in Nat
                          /\ SumOver(Weight, P) <= SumOver(Weight, S)
                          /\ SumOver(Weight, S) = SumOver(Weight, P) + SumOver(Weight, S \ P)
  BY <1>3, SumOverPart, SumOverUnion
<1>6. \A P \in SUBSET S : S \ P \in SUBSET Servers /\ P \in SUBSET Servers
  OBVIOUS
<1>7. \A s \in S : S \ {s} \in SUBSET Servers
  OBVIOUS
<1>8. S \in SUBSET S
  OBVIOUS
<1>9. WeightOf(S) = SumOver(Weight, S) /\ WeightOf(S) \in Nat
  BY <1>1, <1>5, <1>8
<1>10. \A s \in S : WeightOf(S \ {s}) = SumOver(Weight, S \ {s})
  BY <1>1, <1>7, Zenon
<1>11. \A P \in SUBSET S : /\ WeightOf(P) = SumOver(Weight, P)
                           /\ WeightOf(S \ P) = SumOver(Weight, S \ P)
  BY <1>1, <1>6, Zenon
<1>. QED BY <1>3, <1>4, <1>5, <1>9, <1>10, <1>11, Zenon

-----------------------------------------------------------------------------
Outcomes == {"none", "sent", "cached", "ok", "bad", "stopped"}
With(c, outcomes) == {s \in Servers : fetch[c][s] \in outcomes}

FetchTypeOK ==
  /\ phase \in [Fetches -> {"new", "loading", "signing", "fetching", "done", "failed"}]
  /\ fetch \in [Fetches -> [Servers -> Outcomes]]
  /\ completedWeight \in [Fetches -> Int] /\ remainingWeight \in [Fetches -> Int]
  /\ aborted \in [Fetches -> BOOLEAN]

\* The weights of a call are those of the servers it has the keys of, and of those that
\* have not answered.
Weighed(c) ==
  /\ completedWeight[c] = WeightOf(With(c, {"cached", "ok"}))
  /\ phase[c] \in {"signing", "fetching"} =>
       remainingWeight[c] = WeightOf(With(c, {"none", "sent"}))

\* Which requests a call has at each await.
InPhase(c) ==
  /\ phase[c] \in {"new", "loading"} => With(c, Outcomes \ {"none"}) = {}
  /\ phase[c] = "signing" => With(c, Outcomes \ {"none", "cached"}) = {}
  /\ phase[c] = "fetching" => With(c, {"none"}) = {}
  /\ phase[c] # "fetching" => With(c, {"sent"}) = {}
  /\ phase[c] \in {"new", "loading", "signing"} => ~ aborted[c]

\* Requests are stopped once it is clear how the call ends.
Decided(c) ==
  /\ With(c, {"stopped"}) # {} => aborted[c]
  /\ aborted[c] => \/ completedWeight[c] >= Threshold[c]
                   \/ WeightOf(With(c, Outcomes \ {"bad"})) < Threshold[c]
  /\ phase[c] = "done" => completedWeight[c] >= Threshold[c]
  /\ (Asked(c) /\ phase[c] = "failed" /\ completedWeight[c] < Threshold[c]) =>
       WeightOf(With(c, Outcomes \ {"bad"})) < Threshold[c]

HasKeys(c) == With(c, {"cached", "ok"}) \subseteq Complete(c, cachedKeys)

CallInv(c) == Weighed(c) /\ InPhase(c) /\ Decided(c) /\ HasKeys(c)

FetchInv == FetchTypeOK /\ \A c \in Fetches : CallInv(c)

\* Whoever has an answer from a server has its keys, and whoever gave up had reason to.
LEMMA FetchInvIsEnough == FetchInv => VerdictIsJustified
<1>. SUFFICES ASSUME FetchInv, NEW c \in Fetches
              PROVE  SuccessMeansKeys(c) /\ GiveUpIsJustified(c)
  BY DEF VerdictIsJustified
<1>1. Weighed(c) /\ InPhase(c) /\ Decided(c) /\ HasKeys(c) /\ FetchTypeOK
  BY DEF FetchInv, CallInv
<1>2. Threshold[c] \in Int /\ completedWeight[c] \in Int
  BY <1>1, FetchAssumption DEF FetchTypeOK
<1>3. SuccessMeansKeys(c)
  <2>1. Complete(c, cachedKeys) \in SUBSET Servers
    BY DEF Complete
  <2>2. WeightOf(With(c, {"cached", "ok"})) <= WeightOf(Complete(c, cachedKeys))
    BY <1>1, <2>1, WeightsAdd DEF HasKeys
  <2>3. WeightOf(Complete(c, cachedKeys)) \in Nat
    BY <2>1, WeightsAdd
  <2>. QED BY <1>1, <1>2, <2>2, <2>3 DEF SuccessMeansKeys, Weighed, Decided
<1>4. GiveUpIsJustified(c)
  <2>1. {s \in Servers : fetch[c][s] # "bad"} = With(c, Outcomes \ {"bad"})
    BY <1>1 DEF FetchTypeOK, With
  <2>. QED BY <1>1, <1>2, <2>1 DEF GiveUpIsJustified, Decided
<1>. QED BY <1>3, <1>4

\* What stays of a call when another has its turn, which may add keys to the cache.
LEMMA OtherCallsKeep ==
  ASSUME FetchTypeOK, FetchTypeOK', NEW c \in Fetches, CallInv(c),
         phase'[c] = phase[c], fetch'[c] = fetch[c], aborted'[c] = aborted[c],
         completedWeight'[c] = completedWeight[c], remainingWeight'[c] = remainingWeight[c],
         cachedKeys \subseteq cachedKeys'
  PROVE  CallInv(c)'
<1>1. \A O : With(c, O)' = With(c, O)
  BY DEF With
<1>3. Asked(c)' = Asked(c)
  BY DEF Asked
<1>4. Weighed(c)'
  BY <1>1 DEF CallInv, Weighed
<1>5. InPhase(c)'
  BY <1>1 DEF CallInv, InPhase
<1>6. Decided(c)'
  BY <1>1, <1>3 DEF CallInv, Decided
<1>7. HasKeys(c)'
  BY <1>1 DEF CallInv, HasKeys, Complete
<1>. QED BY <1>4, <1>5, <1>6, <1>7 DEF CallInv

\* The types of all variables after a step of a call.
LEMMA FetchTypesKeep ==
  ASSUME FetchTypeOK, FetchNext
  PROVE  FetchTypeOK'
<1>. USE DEF FetchTypeOK, Outcomes
<1>1. CASE ServersLoaded \/ LoadFails
  BY <1>1 DEF ServersLoaded, LoadFails
<1>2. ASSUME NEW c \in Fetches, Begin(c) \/ SignFails(c) \/ Finish(c)
      PROVE  FetchTypeOK'
  BY <1>2 DEF Begin, SignFails, Finish
<1>3. ASSUME NEW c \in Fetches, Signed(c)
      PROVE  FetchTypeOK'
  BY <1>3 DEF Signed
<1>4. ASSUME NEW c \in Fetches, Count(c)
      PROVE  FetchTypeOK'
  <2>1. WeightOf(Complete(c, cachedKeys)) \in Int
        /\ WeightOf(Servers \ Complete(c, cachedKeys)) \in Int
    BY WeightsAdd DEF Complete
  <2>. QED BY <1>4, <2>1 DEF Count
<1>5. ASSUME NEW c \in Fetches, NEW s \in Servers, NEW result \in Outcomes,
             NEW completed \in Int, Ended(c, s, result, completed)
      PROVE  FetchTypeOK'
  <2>1. Weight[s] \in Int /\ Threshold[c] \in Int
    BY FetchAssumption
  <2>. QED BY <1>5, <2>1 DEF Ended, Hopeless
<1>6. ASSUME NEW c \in Fetches, NEW s \in Servers, Deliver(c, s) \/ Refused(c, s) \/ Stop(c, s)
      PROVE  FetchTypeOK'
  <2>1. completedWeight[c] \in Int /\ completedWeight[c] + Weight[s] \in Int
    BY FetchAssumption
  <2>. HIDE DEF FetchTypeOK
  <2>2. {"ok", "bad", "stopped"} \subseteq Outcomes
    OBVIOUS
  <2>. QED BY <1>5, <1>6, <2>1, <2>2 DEF Deliver, Refused, Stop
<1>. QED BY <1>1, <1>2, <1>3, <1>4, <1>6 DEF FetchNext, Loading, FetchStep


\* A call that has sent nothing is not asked for a reason when it fails.
LEMMA FailsEarly ==
  ASSUME FetchTypeOK, FetchTypeOK', NEW c \in Fetches, CallInv(c),
         phase[c] \in {"new", "loading", "signing"}, phase'[c] \in {"loading", "failed"},
         phase[c] = "signing" => phase'[c] = "failed",
         UNCHANGED <<cachedKeys, completedWeight, remainingWeight, fetch, aborted>>
  PROVE  CallInv(c)'
<1>1. \A O : With(c, O)' = With(c, O)
  BY DEF With
<1>2. ~ Asked(c)'
  BY DEF CallInv, InPhase, With, Asked, FetchTypeOK, Outcomes
<1>3. Weighed(c)'
  BY <1>1 DEF CallInv, Weighed
<1>4. InPhase(c)'
  <2>1. With(c, {"sent"}) = {}
    BY DEF CallInv, InPhase
  <2>. QED BY <1>1, <2>1 DEF CallInv, InPhase
<1>5. Decided(c)'
  BY <1>1, <1>2 DEF CallInv, InPhase, Decided
<1>6. HasKeys(c)'
  BY <1>1 DEF CallInv, HasKeys, Complete
<1>. QED BY <1>3, <1>4, <1>5, <1>6 DEF CallInv

\* The keys in the cache are counted before any server is asked.
LEMMA CountKeeps ==
  ASSUME FetchTypeOK, FetchTypeOK', NEW c \in Fetches, CallInv(c), Count(c)
  PROVE  CallInv(c)'
<1>. DEFINE complete == Complete(c, cachedKeys)
<1>1. /\ phase[c] = "loading" /\ complete \in SUBSET Servers
      /\ completedWeight'[c] = WeightOf(complete)
      /\ remainingWeight'[c] = WeightOf(Servers \ complete)
      /\ fetch'[c] = [s \in Servers |-> IF s \in complete THEN "cached" ELSE "none"]
      /\ phase'[c] = IF completedWeight'[c] >= Threshold[c] THEN "done" ELSE "signing"
      /\ aborted' = aborted /\ cachedKeys' = cachedKeys
  BY DEF Count, FetchTypeOK, Complete
<1>. HIDE DEF complete
<1>2. /\ With(c, {"cached", "ok"})' = complete
      /\ With(c, {"none", "sent"})' = Servers \ complete
      /\ With(c, {"sent"})' = {} /\ With(c, {"stopped"})' = {}
      /\ With(c, Outcomes \ {"none", "cached"})' = {}
  BY <1>1 DEF With, Outcomes
<1>3. ~ Asked(c)' /\ ~ aborted'[c]
  BY <1>1 DEF Asked, CallInv, InPhase
<1>4. Weighed(c)'
  BY <1>1, <1>2 DEF Weighed
<1>5. InPhase(c)'
  BY <1>1, <1>2, <1>3 DEF InPhase
<1>6. Decided(c)'
  BY <1>1, <1>2, <1>3 DEF Decided
<1>7. HasKeys(c)'
  <2>1. complete = Complete(c, cachedKeys)'
    BY <1>1 DEF complete, Complete
  <2>. QED BY <1>2, <2>1 DEF HasKeys
<1>. QED BY <1>4, <1>5, <1>6, <1>7 DEF CallInv

\* Every server of which keys are missing is asked at once.
LEMMA SignedKeeps ==
  ASSUME FetchTypeOK, FetchTypeOK', NEW c \in Fetches, CallInv(c), Signed(c)
  PROVE  CallInv(c)'
<1>1. /\ phase[c] = "signing" /\ phase'[c] = "fetching" /\ ~ aborted[c]
      /\ fetch'[c] = [s \in Servers |-> IF fetch[c][s] = "none" THEN "sent" ELSE fetch[c][s]]
      /\ UNCHANGED <<cachedKeys, completedWeight, remainingWeight, aborted>>
  BY DEF Signed, FetchTypeOK, CallInv, InPhase
<1>2. \A s \in Servers : fetch[c][s] \in {"none", "cached"}
  BY <1>1 DEF CallInv, InPhase, With, FetchTypeOK, Outcomes
<1>3. /\ With(c, {"cached", "ok"})' = With(c, {"cached", "ok"})
      /\ With(c, {"none", "sent"})' = With(c, {"none", "sent"})
      /\ With(c, {"none"})' = {} /\ With(c, {"stopped"})' = {}
  BY <1>1, <1>2 DEF With
<1>4. Weighed(c)'
  BY <1>1, <1>3 DEF CallInv, Weighed
<1>5. InPhase(c)'
  BY <1>1, <1>3 DEF InPhase
<1>6. Decided(c)'
  BY <1>1, <1>3 DEF Decided
<1>7. HasKeys(c)'
  BY <1>1, <1>3 DEF CallInv, HasKeys, Complete
<1>. QED BY <1>4, <1>5, <1>6, <1>7 DEF CallInv

\* With every request ended, the call fails only if what it got is too little, and it is then
\* too little even with what was stopped.
LEMMA FinishKeeps ==
  ASSUME FetchTypeOK, FetchTypeOK', NEW c \in Fetches, CallInv(c), Finish(c)
  PROVE  CallInv(c)'
<1>1. /\ phase[c] = "fetching" /\ With(c, {"sent"}) = {} /\ With(c, {"none"}) = {}
      /\ phase'[c] = IF completedWeight[c] < Threshold[c] THEN "failed" ELSE "done"
      /\ UNCHANGED <<cachedKeys, completedWeight, remainingWeight, fetch, aborted>>
  BY DEF Finish, FetchTypeOK, CallInv, InPhase, With
<1>2. \A O : With(c, O)' = With(c, O)
  BY <1>1 DEF With
<1>3. completedWeight[c] \in Int /\ Threshold[c] \in Int
  BY FetchAssumption DEF FetchTypeOK
<1>4. Weighed(c)'
  BY <1>1, <1>2 DEF CallInv, Weighed
<1>5. InPhase(c)'
  BY <1>1, <1>2 DEF InPhase
<1>6. completedWeight[c] < Threshold[c] => WeightOf(With(c, Outcomes \ {"bad"})) < Threshold[c]
  <2>1. CASE With(c, {"stopped"}) # {}
    BY <1>3, <2>1 DEF CallInv, Decided
  <2>2. CASE With(c, {"stopped"}) = {}
    <3>1. With(c, Outcomes \ {"bad"}) = With(c, {"cached", "ok"})
      BY <1>1, <2>2 DEF With, Outcomes
    <3>. QED BY <3>1 DEF CallInv, Weighed
  <2>. QED BY <2>1, <2>2
<1>7. Decided(c)'
  BY <1>1, <1>2, <1>3, <1>6 DEF CallInv, Decided
<1>8. HasKeys(c)'
  BY <1>1, <1>2 DEF CallInv, HasKeys, Complete
<1>. QED BY <1>4, <1>5, <1>7, <1>8 DEF CallInv

\* A request ends with keys, without them, or stopped because the end of the call is clear:
\* its weight goes from what is left to what there is, or is lost.
LEMMA EndedKeeps ==
  ASSUME FetchTypeOK, FetchTypeOK', NEW c \in Fetches, CallInv(c), NEW s \in Servers,
         NEW result \in {"ok", "bad", "stopped"},
         Ended(c, s, result, IF result = "ok" THEN completedWeight[c] + Weight[s]
                              ELSE completedWeight[c]),
         result = "stopped" => aborted[c],
         result = "ok" => s \in Complete(c, cachedKeys'), cachedKeys \subseteq cachedKeys'
  PROVE  CallInv(c)'
<1>. DEFINE completed == IF result = "ok" THEN completedWeight[c] + Weight[s]
                         ELSE completedWeight[c]
            remaining == remainingWeight[c] - Weight[s]
<1>1. /\ fetch[c][s] = "sent" /\ phase' = phase
      /\ fetch'[c] = [fetch[c] EXCEPT ![s] = result]
      /\ completedWeight'[c] = completed /\ remainingWeight'[c] = remaining
      /\ aborted'[c] <=> (aborted[c] \/ completed >= Threshold[c]
                                     \/ remaining < Threshold[c] - completed)
  BY DEF Ended, FetchTypeOK, Hopeless
<1>. HIDE DEF completed, remaining
<1>2. phase[c] = "fetching" /\ With(c, {"none"}) = {}
  BY <1>1 DEF CallInv, InPhase, With
<1>3. /\ Weight[s] \in Nat /\ Threshold[c] \in Int /\ completedWeight[c] \in Int
      /\ remainingWeight[c] \in Int /\ completed \in Int /\ remaining \in Int
  BY FetchAssumption DEF FetchTypeOK, completed, remaining
<1>4. \A O : With(c, O) \in SUBSET Servers
  BY DEF With
<1>5. \A O : With(c, O)' = IF result \in O THEN With(c, O) \cup {s} ELSE With(c, O) \ {s}
  BY <1>1 DEF With, FetchTypeOK
<1>6. completed = WeightOf(With(c, {"cached", "ok"})')
  <2>. DEFINE A == With(c, {"cached", "ok"})
  <2>0. A \in SUBSET Servers /\ s \notin A /\ completedWeight[c] = WeightOf(A)
    BY <1>1, <1>4 DEF CallInv, Weighed, With
  <2>1. CASE result = "ok"
    <3>1. With(c, {"cached", "ok"})' = A \cup {s}
      BY <1>5, <2>1
    <3>2. A \cup {s} \in SUBSET Servers /\ s \in A \cup {s} /\ (A \cup {s}) \ {s} = A
      BY <2>0
    <3>3. WeightOf(A \cup {s}) = Weight[s] + WeightOf(A) /\ WeightOf(A) \in Nat
      <4>. HIDE DEF A
      <4>1. PICK B : B = A \cup {s}
        OBVIOUS
      <4>2. WeightOf(B) = Weight[s] + WeightOf(B \ {s})
        BY <3>2, <4>1, WeightsAdd
      <4>. QED BY <2>0, <3>2, <4>1, <4>2, WeightsAdd
    <3>4. WeightOf(With(c, {"cached", "ok"})') = WeightOf(A \cup {s})
      BY <3>1, Zenon
    <3>5. completed = WeightOf(A) + Weight[s]
      BY <2>0, <2>1 DEF completed
    <3>. HIDE DEF A
    <3>. QED BY <1>3, <3>3, <3>4, <3>5
  <2>2. CASE result # "ok"
    <3>1. With(c, {"cached", "ok"})' = A
      BY <1>5, <2>0, <2>2
    <3>. QED BY <2>0, <2>2, <3>1 DEF completed
  <2>. QED BY <2>1, <2>2
<1>7. remaining = WeightOf(With(c, {"none", "sent"})')
  <2>1. PICK A : A = With(c, {"none", "sent"})
    OBVIOUS
  <2>2. A \in SUBSET Servers /\ s \in A /\ remainingWeight[c] = WeightOf(A)
    BY <1>1, <1>2, <1>4, <2>1 DEF CallInv, Weighed, With
  <2>3. With(c, {"none", "sent"})' = A \ {s}
    BY <1>5, <2>1
  <2>4. WeightOf(A) = Weight[s] + WeightOf(A \ {s})
    BY <2>2, WeightsAdd
  <2>5. A \ {s} \in SUBSET Servers
    BY <2>2
  <2>6. WeightOf(A \ {s}) \in Nat
    BY <2>5, WeightsAdd
  <2>7. WeightOf(With(c, {"none", "sent"})') = WeightOf(A \ {s})
    BY <2>3, Zenon
  <2>8. remaining = WeightOf(A) - Weight[s]
    BY <2>2 DEF remaining
  <2>. QED BY <1>3, <2>4, <2>6, <2>7, <2>8
<1>8. Weighed(c)'
  BY <1>1, <1>6, <1>7 DEF Weighed
<1>9. InPhase(c)'
  <2>1. With(c, {"none"})' = {}
    BY <1>2, <1>5
  <2>. QED BY <1>1, <1>2, <2>1 DEF InPhase
<1>10. HasKeys(c)'
  <2>1. With(c, {"cached", "ok"})' = IF result = "ok" THEN With(c, {"cached", "ok"}) \cup {s}
                                     ELSE With(c, {"cached", "ok"}) \ {s}
    BY <1>5
  <2>2. Complete(c, cachedKeys) \subseteq Complete(c, cachedKeys')
    BY DEF Complete
  <2>3. With(c, {"cached", "ok"}) \subseteq Complete(c, cachedKeys)
    BY DEF CallInv, HasKeys
  <2>4. With(c, {"cached", "ok"})' \subseteq Complete(c, cachedKeys')
    BY <2>1, <2>2, <2>3
  <2>. QED BY <2>4 DEF HasKeys
<1>11. With(c, {"stopped"})' # {} => aborted[c]
  BY <1>5 DEF CallInv, Decided
<1>12. aborted'[c] => \/ completed >= Threshold[c]
                      \/ WeightOf(With(c, Outcomes \ {"bad"})') < Threshold[c]
  <2>1. PICK G : G = With(c, Outcomes \ {"bad"})
    OBVIOUS
  <2>2. PICK H : H = With(c, Outcomes \ {"bad"})'
    OBVIOUS
  <2>3. H \in SUBSET G /\ G \in SUBSET Servers
    BY <1>1, <1>4, <1>5, <2>1, <2>2 DEF With, Outcomes
  <2>4. WeightOf(H) <= WeightOf(G) /\ WeightOf(H) \in Nat /\ WeightOf(G) \in Nat
    BY <2>3, WeightsAdd
  <2>5. CASE aborted[c]
    <3>1. completedWeight[c] >= Threshold[c] \/ WeightOf(G) < Threshold[c]
      BY <2>1, <2>5 DEF CallInv, Decided
    <3>2. completed >= completedWeight[c]
      BY <1>3 DEF completed
    <3>. QED BY <1>3, <2>2, <2>4, <3>1, <3>2
  <2>6. CASE ~ aborted[c]
    <3>1. PICK A : A = With(c, {"cached", "ok"})'
      OBVIOUS
    <3>2. With(c, {"stopped"})' = {}
      BY <1>11, <2>6
    <3>3. With(c, {"none"})' = {}
      BY <1>2, <1>5
    <3>4. A \in SUBSET H /\ H \ A = With(c, {"none", "sent"})'
      BY <2>2, <3>1, <3>2, <3>3 DEF With, Outcomes
    <3>5. H \in SUBSET Servers
      BY <2>3
    <3>6. WeightOf(H) = WeightOf(A) + WeightOf(H \ A)
      BY <3>4, <3>5, WeightsAdd
    <3>7. WeightOf(H) = completed + remaining
      BY <1>6, <1>7, <3>1, <3>4, <3>6, Zenon
    <3>. QED BY <1>1, <1>3, <2>2, <2>6, <3>7
  <2>. QED BY <2>5, <2>6
<1>13. Decided(c)'
  BY <1>1, <1>2, <1>11, <1>12 DEF Decided
<1>. QED BY <1>8, <1>9, <1>10, <1>13 DEF CallInv


\* No call has done anything when the client is made.
LEMMA FetchBegins == FetchInit => FetchInv
<1>. SUFFICES ASSUME FetchInit PROVE FetchInv
  OBVIOUS
<1>1. FetchTypeOK
  BY DEF FetchInit, FetchTypeOK, Outcomes
<1>2. ASSUME NEW c \in Fetches
      PROVE  CallInv(c)
  <2>1. \A O : "none" \notin O => With(c, O) = {}
    BY <1>2 DEF FetchInit, With
  <2>2. /\ With(c, {"cached", "ok"}) = {} /\ With(c, Outcomes \ {"none"}) = {}
        /\ With(c, {"sent"}) = {} /\ With(c, {"stopped"}) = {}
    BY <2>1
  <2>3. WeightOf({}) = 0
    <3>1. {} \in SUBSET Servers /\ {} \in SUBSET {} /\ {} \ {} = {}
      OBVIOUS
    <3>2. PICK w : w = WeightOf({})
      OBVIOUS
    <3>3. w \in Nat /\ w = w + WeightOf({} \ {})
      BY <3>1, <3>2, WeightsAdd
    <3>4. w = w + w
      BY <3>1, <3>2, <3>3, Zenon
    <3>5. w = 0
      BY <3>3, <3>4
    <3>. QED BY <3>2, <3>5
  <2>. QED BY <1>2, <2>2, <2>3
           DEF FetchInit, CallInv, Weighed, InPhase, Decided, HasKeys
<1>. QED BY <1>1, <1>2 DEF FetchInv

\* Every step keeps the account of every call.
LEMMA FetchStepKeeps == FetchInv /\ [FetchNext]_keyfetch => FetchInv'
<1>. SUFFICES ASSUME FetchInv, [FetchNext]_keyfetch PROVE FetchInv'
  OBVIOUS
<1>0. FetchTypeOK /\ \A c \in Fetches : CallInv(c)
  BY DEF FetchInv
<1>1. FetchTypeOK'
  <2>1. CASE UNCHANGED keyfetch
    BY <1>0, <2>1 DEF keyfetch, FetchTypeOK
  <2>. QED BY <1>0, <2>1, FetchTypesKeep
<1>2. ASSUME NEW d \in Fetches
      PROVE  CallInv(d)'
  <2>0. CallInv(d)
    BY <1>0
  <2>1. CASE UNCHANGED keyfetch
    BY <1>0, <1>1, <2>0, <2>1, OtherCallsKeep DEF keyfetch
  <2>2. CASE ServersLoaded
    BY <1>0, <1>1, <2>0, <2>2, OtherCallsKeep DEF ServersLoaded
  <2>3. CASE LoadFails
    <3>1. CASE phase[d] = "loading"
      BY <1>0, <1>1, <2>0, <2>3, <3>1, FailsEarly DEF LoadFails
    <3>2. CASE phase[d] # "loading"
      BY <1>0, <1>1, <2>0, <2>3, <3>2, OtherCallsKeep DEF LoadFails
    <3>. QED BY <3>1, <3>2
  <2>4. ASSUME NEW c \in Fetches, Begin(c)
        PROVE  CallInv(d)'
    <3>1. CASE c = d
      BY <1>0, <1>1, <2>0, <2>4, <3>1, FailsEarly DEF Begin, FetchTypeOK
    <3>2. CASE c # d
      BY <1>0, <1>1, <2>0, <2>4, <3>2, OtherCallsKeep DEF Begin, FetchTypeOK
    <3>. QED BY <3>1, <3>2
  <2>5. ASSUME NEW c \in Fetches, SignFails(c)
        PROVE  CallInv(d)'
    <3>1. CASE c = d
      BY <1>0, <1>1, <2>0, <2>5, <3>1, FailsEarly DEF SignFails, FetchTypeOK
    <3>2. CASE c # d
      BY <1>0, <1>1, <2>0, <2>5, <3>2, OtherCallsKeep DEF SignFails, FetchTypeOK
    <3>. QED BY <3>1, <3>2
  <2>6. ASSUME NEW c \in Fetches, Count(c)
        PROVE  CallInv(d)'
    <3>1. CASE c = d
      BY <1>0, <1>1, <2>0, <2>6, <3>1, CountKeeps
    <3>2. CASE c # d
      BY <1>0, <1>1, <2>0, <2>6, <3>2, OtherCallsKeep DEF Count, FetchTypeOK
    <3>. QED BY <3>1, <3>2
  <2>7. ASSUME NEW c \in Fetches, Signed(c)
        PROVE  CallInv(d)'
    <3>1. CASE c = d
      BY <1>0, <1>1, <2>0, <2>7, <3>1, SignedKeeps
    <3>2. CASE c # d
      BY <1>0, <1>1, <2>0, <2>7, <3>2, OtherCallsKeep DEF Signed, FetchTypeOK
    <3>. QED BY <3>1, <3>2
  <2>8. ASSUME NEW c \in Fetches, Finish(c)
        PROVE  CallInv(d)'
    <3>1. CASE c = d
      BY <1>0, <1>1, <2>0, <2>8, <3>1, FinishKeeps
    <3>2. CASE c # d
      BY <1>0, <1>1, <2>0, <2>8, <3>2, OtherCallsKeep DEF Finish, FetchTypeOK
    <3>. QED BY <3>1, <3>2
  <2>9. ASSUME NEW c \in Fetches, NEW s \in Servers, NEW result \in {"ok", "bad", "stopped"},
               Ended(c, s, result, IF result = "ok" THEN completedWeight[c] + Weight[s]
                                    ELSE completedWeight[c]),
               result = "stopped" => aborted[c],
               result = "ok" => s \in Complete(c, cachedKeys'), cachedKeys \subseteq cachedKeys'
        PROVE  CallInv(d)'
    <3>1. CASE c = d
      BY <1>0, <1>1, <2>0, <2>9, <3>1, EndedKeeps
    <3>2. CASE c # d
      BY <1>0, <1>1, <2>0, <2>9, <3>2, OtherCallsKeep DEF Ended, FetchTypeOK
    <3>. QED BY <3>1, <3>2
  <2>10. ASSUME NEW c \in Fetches, NEW s \in Servers, Deliver(c, s) \/ Refused(c, s) \/ Stop(c, s)
         PROVE  CallInv(d)'
    <3>1. CASE Refused(c, s)
      BY <2>9, <3>1 DEF Refused
    <3>2. CASE Stop(c, s)
      BY <2>9, <3>2 DEF Stop
    <3>3. CASE Deliver(c, s)
      <4>1. cachedKeys \subseteq cachedKeys'
        BY <3>3 DEF Deliver
      <4>2. CASE Delivered(c, s, cachedKeys')
        BY <2>9, <3>3, <4>1, <4>2 DEF Deliver, Delivered
      <4>3. CASE ~ Delivered(c, s, cachedKeys')
        BY <2>9, <3>3, <4>1, <4>3 DEF Deliver
      <4>. QED BY <4>2, <4>3
    <3>. QED BY <2>10, <3>1, <3>2, <3>3
  <2>. QED BY <2>1, <2>2, <2>3, <2>4, <2>5, <2>6, <2>7, <2>8, <2>10
           DEF FetchNext, Loading, FetchStep
<1>. QED BY <1>1, <1>2 DEF FetchInv

\* fetchKeys, for any servers, weights, thresholds and calls that share a cache: a call that
\* succeeds has keys of enough weight, and one is given up only if the servers that did not
\* fail it of themselves weigh too little.
THEOREM FetchesEndAsDeserved == FetchSpec => []VerdictIsJustified
BY FetchBegins, FetchStepKeeps, FetchInvIsEnough, PTL DEF FetchSpec

-----------------------------------------------------------------------------
(* Committees across epochs.                                                *)

Stages == {"staking", "pools", "done", "failed"}
StakingState == [epoch : Int, moving : BOOLEAN]
CommitteeValue == [of : Int, seen : Int, late : BOOLEAN]
PoolLoad == [stage : Stages, value : CommitteeValue \union {NoValue}, late : BOOLEAN]
StorageCall == [does : {"read", "write", NoValue}, stage : {"new", "waiting", "asking", "ended"},
                tries : Nat, load : Nat, since : Int, asks : CommitteeValue \union {NoValue}]

CommitteesTyped ==
  /\ epoch \in Int /\ lastReset \in Int /\ lastReset <= epoch /\ moving \in BOOLEAN
  /\ memo # NoValue => memo \in StakingState /\ memo.epoch >= lastReset
  /\ poolLoads \in Seq(PoolLoad) /\ entry \in 0..Len(poolLoads)
  /\ readCommittee.value \in CommitteeValue \union {NoValue}
  /\ readCommittee.stage = "status" => readCommittee.state \in StakingState
  /\ readCommittee = [stage |-> readCommittee.stage, state |-> readCommittee.state,
                      load |-> readCommittee.load, value |-> readCommittee.value]
  /\ readCommittee.stage \in {"status", "active"} => readCommittee.load \in DOMAIN poolLoads
  /\ storageCalls \in [StorageCalls -> StorageCall]
  /\ \A c \in StorageCalls : storageCalls[c].stage # "new" =>
                               storageCalls[c].does \in {"read", "write"}

\* A load has not read the staking state, has read it in epoch e or later, or was overtaken.
Serves(i, e) ==
  /\ i \in DOMAIN poolLoads
  /\ poolLoads[i].stage # "staking" => poolLoads[i].value \in CommitteeValue
  /\ poolLoads[i].stage = "pools" => poolLoads[i].late \/ poolLoads[i].value.seen >= e
  /\ poolLoads[i].stage \in {"done", "failed"} =>
        poolLoads[i].value.late \/ poolLoads[i].value.seen >= e

LoadsServe ==
  /\ entry # 0 => Serves(entry, lastReset)
  /\ \A i \in DOMAIN poolLoads : ~Settled(i) => Serves(i, lastReset)

CallsAreServed ==
  \A c \in StorageCalls : storageCalls[c].does = "write" =>
    /\ storageCalls[c].since <= lastReset
    /\ storageCalls[c].stage = "waiting" =>
         storageCalls[c].asks = NoValue /\ Serves(storageCalls[c].load, storageCalls[c].since)

CommitteeInv == CommitteesTyped /\ LoadsServe /\ CallsAreServed /\ WritesAreFresh

\* Nothing is loaded before the first call.
LEMMA CommitteesBegin == CommitteeInit => CommitteeInv
<1> SUFFICES ASSUME CommitteeInit PROVE CommitteeInv
  OBVIOUS
<1>1. poolLoads \in Seq(PoolLoad) /\ DOMAIN poolLoads = {} /\ Len(poolLoads) = 0
  BY DEF CommitteeInit
<1>2. CommitteesTyped
  <2>1. /\ storageCalls \in [StorageCalls -> StorageCall]
        /\ \A c \in StorageCalls : storageCalls[c].stage = "new"
    BY DEF CommitteeInit, StorageCall
  <2>2. readCommittee = [stage |-> "none", state |-> NoValue, load |-> 0, value |-> NoValue]
    BY DEF CommitteeInit, NoRead
  <2>3. /\ readCommittee.stage = "none" /\ readCommittee.value = NoValue
        /\ readCommittee = [stage |-> readCommittee.stage, state |-> readCommittee.state,
                            load |-> readCommittee.load, value |-> readCommittee.value]
    BY <2>2
  <2>4. /\ epoch \in Int /\ lastReset \in Int /\ lastReset <= epoch
        /\ memo = NoValue /\ entry \in 0..Len(poolLoads)
    BY <1>1 DEF CommitteeInit
  <2>5. moving \in BOOLEAN
    BY DEF CommitteeInit
  <2> QED
    BY <1>1, <2>1, <2>3, <2>4, <2>5 DEF CommitteesTyped
<1>3. LoadsServe
  BY <1>1 DEF CommitteeInit, LoadsServe
<1>4. CallsAreServed /\ WritesAreFresh
  BY DEF CommitteeInit, CallsAreServed, WritesAreFresh, Fresh
<1> QED
  BY <1>2, <1>3, <1>4 DEF CommitteeInv

\* What is read of the staking state now is not from before the last reset.
LEMMA StakingIsRecent ==
  ASSUME CommitteesTyped
  PROVE  Staking \in StakingState /\ Staking.epoch >= lastReset
BY DEF CommitteesTyped, Staking, StakingState

\* The loads, each a record.
LEMMA LoadsAre ==
  ASSUME CommitteesTyped
  PROVE  /\ DOMAIN poolLoads = 1..Len(poolLoads) /\ Len(poolLoads) \in Nat
         /\ \A i \in DOMAIN poolLoads : poolLoads[i] \in PoolLoad
BY LenProperties, ElementOfSeq DEF CommitteesTyped

\* Steps that touch neither loads nor calls.
LEMMA ElsewhereServes ==
  ASSUME CommitteeInv, CommitteesTyped', UNCHANGED <<poolLoads, entry, storageCalls, lastReset>>
  PROVE  CommitteeInv'
<1>1. LoadsServe'
  BY DEF CommitteeInv, LoadsServe, Serves, Settled
<1>2. CallsAreServed' /\ WritesAreFresh'
  BY DEF CommitteeInv, CallsAreServed, Serves, WritesAreFresh, Fresh
<1> QED
  BY <1>1, <1>2 DEF CommitteeInv

\* Epochs only grow, so a committee that was fresh stays fresh for its call.
LEMMA ChainServes == ASSUME CommitteeInv, EpochChanges \/ ShardsMoved PROVE CommitteeInv'
<1>1. /\ epoch \in Int /\ epoch' \in {epoch, epoch + 1} /\ moving' \in BOOLEAN
      /\ UNCHANGED <<memo, poolLoads, entry, readCommittee, storageCalls, lastReset>>
  <2>1. epoch \in Int
    BY DEF CommitteeInv, CommitteesTyped
  <2> QED
    BY <2>1 DEF EpochChanges, ShardsMoved, cache, resetVars
<1>2. lastReset' <= epoch'
  BY <1>1 DEF CommitteeInv, CommitteesTyped
<1>3. CommitteesTyped'
  BY <1>1, <1>2 DEF CommitteeInv, CommitteesTyped
<1> QED
  BY <1>1, <1>3, ElsewhereServes

\* A load goes on, as far as the entry of the cache is concerned too.
LEMMA LoadGoesOn ==
  ASSUME CommitteeInv, NEW i \in DOMAIN poolLoads,
         StakingRead(i) \/ CommitteeLoaded(i) \/ CommitteeFails(i)
  PROVE  CommitteeInv'
<1>1. /\ DOMAIN poolLoads = 1..Len(poolLoads) /\ Len(poolLoads) \in Nat
      /\ poolLoads \in Seq(PoolLoad) /\ poolLoads[i] \in PoolLoad
      /\ epoch \in Int /\ lastReset \in Int /\ lastReset <= epoch
  BY LoadsAre DEF CommitteeInv, CommitteesTyped
<1>2. Staking \in StakingState /\ Staking.epoch >= lastReset
  BY StakingIsRecent DEF CommitteeInv
<1>3. PICK x \in PoolLoad :
        /\ poolLoads' = [poolLoads EXCEPT ![i] = x]
        /\ x.value \in CommitteeValue /\ x.late = poolLoads[i].late /\ x.stage # "staking"
        /\ x.stage = "pools" => x.value.seen >= lastReset
        /\ x.stage \in {"done", "failed"} => x.value.late \/ x.value.seen >= lastReset
        /\ entry' \in {entry, 0, i}
  <2>1. CASE StakingRead(i)
    <3> DEFINE x == [poolLoads[i] EXCEPT !.stage = "pools",
                                         !.value = Committee(Staking.epoch, Staking)]
    <3>1. Committee(Staking.epoch, Staking) \in CommitteeValue
      BY <1>2 DEF Committee, CommitteeValue, StakingState
    <3>2. x \in PoolLoad
      BY <1>1, <3>1 DEF PoolLoad, Stages
    <3>3. poolLoads' = [poolLoads EXCEPT ![i] = x] /\ entry' = entry
      BY <2>1 DEF StakingRead
    <3>4. /\ x.value = Committee(Staking.epoch, Staking) /\ x.late = poolLoads[i].late
          /\ x.stage = "pools"
      BY <1>1 DEF PoolLoad
    <3>5. x.value.seen >= lastReset
      BY <1>2, <3>4 DEF Committee
    <3> HIDE DEF x
    <3> QED
      BY <3>1, <3>2, <3>3, <3>4, <3>5
  <2>2. CASE CommitteeLoaded(i)
    <3> DEFINE v == [poolLoads[i].value EXCEPT !.late = poolLoads[i].late]
               x == [poolLoads[i] EXCEPT !.stage = "done", !.value = v]
    <3>1. /\ poolLoads[i].stage = "pools" /\ ~Settled(i)
          /\ poolLoads' = [poolLoads EXCEPT ![i].stage = "done",
                                            ![i].value.late = poolLoads[i].late]
          /\ entry' = i
      BY <2>2 DEF CommitteeLoaded, Settled
    <3>2. /\ poolLoads[i].value \in CommitteeValue
          /\ poolLoads[i].late \/ poolLoads[i].value.seen >= lastReset
      BY <3>1 DEF CommitteeInv, LoadsServe, Serves
    <3>3. poolLoads' = [poolLoads EXCEPT ![i] = x]
      BY <1>1, <3>1 DEF PoolLoad
    <3>4. /\ v \in CommitteeValue /\ v.seen = poolLoads[i].value.seen
          /\ v.late = poolLoads[i].late
      BY <1>1, <3>2 DEF CommitteeValue, PoolLoad
    <3> HIDE DEF v
    <3>5. x \in PoolLoad /\ x.value = v /\ x.late = poolLoads[i].late /\ x.stage = "done"
      BY <1>1, <3>4 DEF PoolLoad, Stages
    <3> HIDE DEF x
    <3> QED
      BY <3>1, <3>2, <3>3, <3>4, <3>5
  <2>3. CASE CommitteeFails(i)
    <3> DEFINE x == [poolLoads[i] EXCEPT !.stage = "failed", !.value = Error(FALSE)]
    <3>1. Error(FALSE) \in CommitteeValue /\ Error(FALSE).seen >= lastReset
      BY <1>1 DEF Error, CommitteeValue
    <3>2. poolLoads' = [poolLoads EXCEPT ![i] = x] /\ entry' = 0
      BY <2>3 DEF CommitteeFails
    <3>3. x \in PoolLoad /\ x.value = Error(FALSE) /\ x.late = poolLoads[i].late
          /\ x.stage = "failed"
      BY <1>1, <3>1 DEF PoolLoad, Stages
    <3> HIDE DEF x
    <3> QED
      BY <3>1, <3>2, <3>3
  <2> QED
    BY <2>1, <2>2, <2>3
<1>4. /\ UNCHANGED <<chain, readCommittee, storageCalls, resetVars>> /\ memo' \in {memo, Staking}
  BY DEF StakingRead, CommitteeLoaded, CommitteeFails
<1>5. /\ poolLoads' \in Seq(PoolLoad) /\ Len(poolLoads') = Len(poolLoads)
      /\ DOMAIN poolLoads' = DOMAIN poolLoads
      /\ \A j \in DOMAIN poolLoads : poolLoads'[j] = IF j = i THEN x ELSE poolLoads[j]
  BY <1>1, <1>3, ExceptSeq
<1>6. CommitteesTyped'
  BY <1>1, <1>2, <1>3, <1>4, <1>5 DEF CommitteeInv, CommitteesTyped, chain, resetVars
<1>7. \A j, e : e \in Int /\ e <= lastReset /\ Serves(j, e) => Serves(j, e)'
  BY <1>1, <1>3, <1>5 DEF Serves, CommitteeValue
<1>8. Serves(i, lastReset)'
  BY <1>3, <1>4, <1>5 DEF Serves, resetVars
<1>9. LoadsServe'
  BY <1>1, <1>3, <1>4, <1>5, <1>7, <1>8 DEF CommitteeInv, LoadsServe, Serves, Settled, resetVars
<1>10. CallsAreServed'
  BY <1>1, <1>4, <1>7
     DEF CommitteeInv, CallsAreServed, CommitteesTyped, StorageCall, Serves, resetVars
<1>11. WritesAreFresh'
  BY <1>4 DEF CommitteeInv, WritesAreFresh, Fresh
<1> QED
  BY <1>6, <1>9, <1>10, <1>11 DEF CommitteeInv

\* Reading the cache: the load to wait for serves whoever asks now.
LEMMA Reading ==
  ASSUME CommitteeInv, Read
  PROVE  /\ poolLoads' \in Seq(PoolLoad) /\ entry' = LoadOf /\ entry' \in DOMAIN poolLoads'
         /\ entry' \in 1..Len(poolLoads')
         /\ DOMAIN poolLoads \subseteq DOMAIN poolLoads'
         /\ \A i \in DOMAIN poolLoads : poolLoads'[i] = poolLoads[i]
         /\ \A i \in DOMAIN poolLoads' \ DOMAIN poolLoads :
              i = entry' /\ poolLoads'[i].stage = "staking"
         /\ entry' \in DOMAIN poolLoads => entry' = entry
<1>1. /\ poolLoads \in Seq(PoolLoad) /\ DOMAIN poolLoads = 1..Len(poolLoads)
      /\ Len(poolLoads) \in Nat /\ entry \in 0..Len(poolLoads)
  BY LoadsAre DEF CommitteeInv, CommitteesTyped
<1>2. CASE entry # 0
  BY <1>1, <1>2 DEF Read, LoadOf
<1>3. CASE entry = 0
  <2>1. entry' = Len(poolLoads) + 1 /\ poolLoads' = Append(poolLoads, NewLoad)
        /\ LoadOf = Len(poolLoads) + 1
    BY <1>3 DEF Read, LoadOf
  <2>2. NewLoad \in PoolLoad /\ NewLoad.stage = "staking"
    BY DEF NewLoad, PoolLoad, Stages
  <2>3. /\ poolLoads' \in Seq(PoolLoad) /\ Len(poolLoads') = Len(poolLoads) + 1
        /\ \A i \in 1..Len(poolLoads) : poolLoads'[i] = poolLoads[i]
        /\ poolLoads'[Len(poolLoads) + 1] = NewLoad
    BY <1>1, <2>1, <2>2, AppendProperties
  <2>4. DOMAIN poolLoads' = 1..Len(poolLoads')
    BY <2>3, LenProperties
  <2> QED
    BY <1>1, <2>1, <2>2, <2>3, <2>4
<1> QED
  BY <1>2, <1>3

\* What a read of the cache, or none, leaves for the calls there are.
LEMMA ReadingServes ==
  ASSUME CommitteeInv, Read \/ UNCHANGED <<poolLoads, entry>>, UNCHANGED resetVars
  PROVE  /\ LoadsServe'
         /\ Read => Serves(entry, lastReset)' /\ entry' = LoadOf
         /\ \A i, e : Serves(i, e) => Serves(i, e)'
         /\ poolLoads' \in Seq(PoolLoad) /\ entry' \in 0..Len(poolLoads')
         /\ DOMAIN poolLoads \subseteq DOMAIN poolLoads'
         /\ Read => LoadOf \in DOMAIN poolLoads'
<1>1. CASE Read
  <2>1. /\ poolLoads' \in Seq(PoolLoad) /\ entry' = LoadOf /\ entry' \in DOMAIN poolLoads'
        /\ entry' \in 1..Len(poolLoads')
        /\ DOMAIN poolLoads \subseteq DOMAIN poolLoads'
        /\ \A i \in DOMAIN poolLoads : poolLoads'[i] = poolLoads[i]
        /\ \A i \in DOMAIN poolLoads' \ DOMAIN poolLoads :
              i = entry' /\ poolLoads'[i].stage = "staking"
        /\ entry' \in DOMAIN poolLoads => entry' = entry
    BY <1>1, Reading
  <2>2. \A i, e : Serves(i, e) => Serves(i, e)'
    BY <2>1 DEF Serves
  <2>3. lastReset' = lastReset /\ poolLoads \in Seq(PoolLoad) /\ entry \in 0..Len(poolLoads)
    BY DEF resetVars, CommitteeInv, CommitteesTyped
  <2>4. entry' \in DOMAIN poolLoads => entry # 0
    BY <2>1, <2>3, LenProperties
  <2>5. Serves(entry, lastReset)'
    <3>1. CASE entry' \in DOMAIN poolLoads
      BY <3>1, <2>1, <2>2, <2>3, <2>4 DEF CommitteeInv, LoadsServe, Serves
    <3>2. CASE entry' \notin DOMAIN poolLoads
      BY <3>2, <2>1 DEF Serves
    <3> QED
      BY <3>1, <3>2
  <2>6. LoadsServe'
    BY <2>1, <2>3, <2>5 DEF CommitteeInv, LoadsServe, Serves, Settled
  <2> QED
    BY <1>1, <2>1, <2>2, <2>5, <2>6
<1>2. CASE ~Read
  <2>1. UNCHANGED <<poolLoads, entry, lastReset>>
    BY <1>2 DEF resetVars
  <2> QED
    BY <1>2, <2>1 DEF CommitteeInv, CommitteesTyped, LoadsServe, Serves, Settled
<1> QED
  BY <1>1, <1>2

\* Steps of #readCommittee; calls that wait go on waiting.
LEMMA ResolvingKeeps ==
  ASSUME CommitteeInv, ReadStaking \/ StakingFails \/ BlobStatusArrives \/ ActiveArrives
  PROVE  CommitteeInv'
<1>1. /\ Read \/ UNCHANGED <<poolLoads, entry>>
      /\ UNCHANGED <<chain, storageCalls, resetVars>>
      /\ memo' \in {memo, Staking}
  BY DEF ReadStaking, StakingFails, BlobStatusArrives, ActiveArrives, cache
<1>2. /\ Staking \in StakingState /\ Staking.epoch >= lastReset
      /\ epoch \in Int /\ \A b \in BOOLEAN : Error(b) \in CommitteeValue
  BY StakingIsRecent DEF CommitteeInv, CommitteesTyped, Error, CommitteeValue
<1>3. /\ readCommittee.value \in CommitteeValue \union {NoValue}
      /\ readCommittee.stage = "status" => readCommittee.state \in StakingState
      /\ readCommittee = [stage |-> readCommittee.stage, state |-> readCommittee.state,
                          load |-> readCommittee.load, value |-> readCommittee.value]
      /\ readCommittee.stage \in {"status", "active"} => readCommittee.load \in DOMAIN poolLoads
  BY DEF CommitteeInv, CommitteesTyped
<1>4. /\ LoadsServe' /\ \A i, e : Serves(i, e) => Serves(i, e)'
      /\ poolLoads' \in Seq(PoolLoad) /\ entry' \in 0..Len(poolLoads')
      /\ DOMAIN poolLoads \subseteq DOMAIN poolLoads'
      /\ Read => LoadOf \in DOMAIN poolLoads'
  BY <1>1, ReadingServes
<1>5. PICK g, st, l, v :
        /\ readCommittee' = [stage |-> g, state |-> st, load |-> l, value |-> v]
        /\ v \in CommitteeValue \union {NoValue}
        /\ g = "status" => st \in StakingState
        /\ g \in {"status", "active"} => l \in DOMAIN poolLoads'
  <2>1. CASE ReadStaking
    <3>1. Read /\ readCommittee' = [readCommittee EXCEPT !.state = Staking, !.load = LoadOf,
                           !.stage = IF Staking.moving THEN "status" ELSE "active"]
      BY <2>1 DEF ReadStaking
    <3> DEFINE g == IF Staking.moving THEN "status" ELSE "active"
    <3>2. readCommittee' = [stage |-> g, state |-> Staking, load |-> LoadOf,
                            value |-> readCommittee.value]
      BY <1>3, <3>1
    <3> HIDE DEF g
    <3> QED
      BY <1>2, <1>3, <1>4, <3>1, <3>2
  <2>2. CASE \E v \in CommitteeValue \union {NoValue} : ResolveTo(v)
    <3>1. PICK v \in CommitteeValue \union {NoValue} :
            readCommittee' = [readCommittee EXCEPT !.stage = "settled", !.value = v]
      BY <2>2 DEF ResolveTo
    <3>2. readCommittee' = [stage |-> "settled", state |-> readCommittee.state,
                            load |-> readCommittee.load, value |-> v]
      BY <1>3, <3>1
    <3> QED
      BY <3>1, <3>2
  <2>3. CASE /\ BlobStatusArrives /\ Read
             /\ readCommittee' = [readCommittee EXCEPT !.stage = "active", !.load = LoadOf]
    <3>1. readCommittee' = [stage |-> "active", state |-> readCommittee.state,
                            load |-> LoadOf, value |-> readCommittee.value]
      BY <1>3, <2>3
    <3> QED
      BY <1>3, <1>4, <2>3, <3>1
  <2>4. CASE StakingFails
    BY <2>2, <2>4, <1>2 DEF StakingFails
  <2>5. CASE BlobStatusArrives
    <3>1. readCommittee.stage = "status"
      BY <2>5 DEF BlobStatusArrives, Resolving
    <3>2. Committee(readCommittee.state.epoch - 1, readCommittee.state) \in CommitteeValue
      BY <1>3, <3>1 DEF Committee, CommitteeValue, StakingState
    <3> QED
      BY <2>2, <2>3, <2>5, <1>2, <3>2 DEF BlobStatusArrives
  <2>6. CASE ActiveArrives
    <3>1. readCommittee.load \in DOMAIN poolLoads
      BY <2>6, <1>3 DEF ActiveArrives, Resolving
    <3>2. poolLoads[readCommittee.load].value \in CommitteeValue \union {NoValue}
      BY <3>1, LoadsAre DEF CommitteeInv, PoolLoad
    <3> QED
      BY <2>2, <2>6, <3>2 DEF ActiveArrives
  <2> QED
    BY <2>1, <2>4, <2>5, <2>6
<1>6. /\ readCommittee'.value \in CommitteeValue \union {NoValue}
      /\ readCommittee'.stage = "status" => readCommittee'.state \in StakingState
      /\ readCommittee' = [stage |-> readCommittee'.stage, state |-> readCommittee'.state,
                           load |-> readCommittee'.load, value |-> readCommittee'.value]
      /\ readCommittee'.stage \in {"status", "active"} =>
           readCommittee'.load \in DOMAIN poolLoads'
  BY <1>5
<1>7. CommitteesTyped'
  BY <1>1, <1>2, <1>4, <1>6 DEF CommitteeInv, CommitteesTyped, chain, resetVars
<1>8. CallsAreServed'
  BY <1>1, <1>4 DEF CommitteeInv, CallsAreServed, Serves, resetVars
<1>9. WritesAreFresh'
  BY <1>1 DEF CommitteeInv, WritesAreFresh, Fresh
<1> QED
  BY <1>4, <1>7, <1>8, <1>9 DEF CommitteeInv

\* A reset: loads that it overtakes are late, and nothing else is kept.
LEMMA Resetting ==
  ASSUME CommitteeInv, ResetClient, UNCHANGED chain
  PROVE  /\ LoadsServe' /\ \A i, e : Serves(i, e) => Serves(i, e)'
         /\ poolLoads' \in Seq(PoolLoad) /\ DOMAIN poolLoads' = DOMAIN poolLoads
         /\ entry' = 0 /\ memo' = NoValue
         /\ lastReset' = epoch /\ epoch' = epoch /\ lastReset <= lastReset' /\ epoch \in Int
         /\ moving' \in BOOLEAN
<1>1. /\ poolLoads \in Seq(PoolLoad) /\ DOMAIN poolLoads = 1..Len(poolLoads)
      /\ Len(poolLoads) \in Nat /\ \A i \in DOMAIN poolLoads : poolLoads[i] \in PoolLoad
      /\ epoch \in Int /\ lastReset \in Int /\ lastReset <= epoch /\ moving \in BOOLEAN
  BY LoadsAre DEF CommitteeInv, CommitteesTyped
<1>2. /\ entry' = 0 /\ memo' = NoValue /\ lastReset' = epoch
      /\ poolLoads' = [i \in DOMAIN poolLoads |->
                        [poolLoads[i] EXCEPT !.late = @ \/ ~ Settled(i)]]
  BY DEF ResetClient, ClearBoth
<1>3. \A i \in DOMAIN poolLoads :
        /\ poolLoads'[i] \in PoolLoad
        /\ poolLoads'[i].stage = poolLoads[i].stage /\ poolLoads'[i].value = poolLoads[i].value
        /\ poolLoads'[i].late <=> (poolLoads[i].late \/ ~ Settled(i))
  BY <1>1, <1>2 DEF PoolLoad
<1>4. poolLoads' \in Seq(PoolLoad) /\ DOMAIN poolLoads' = DOMAIN poolLoads
  <2>1. poolLoads' \in [1..Len(poolLoads) -> PoolLoad]
    BY <1>1, <1>2, <1>3
  <2> QED
    BY <1>1, <1>2, <2>1, AsLong
<1>5. \A i, e : Serves(i, e) => Serves(i, e)'
  BY <1>3, <1>4 DEF Serves
<1>6. LoadsServe'
  <2>1. ASSUME NEW i \in DOMAIN poolLoads, ~Settled(i)
        PROVE  Serves(i, lastReset)'
    <3>1. Serves(i, lastReset)
      BY <2>1 DEF CommitteeInv, LoadsServe
    <3> QED
      BY <1>3, <1>4, <2>1, <3>1 DEF Serves, Settled
  <2>2. \A i \in DOMAIN poolLoads : Settled(i)' <=> Settled(i)
    BY <1>3 DEF Settled
  <2> QED
    BY <1>2, <1>4, <2>1, <2>2 DEF LoadsServe
<1> QED
  BY <1>1, <1>2, <1>4, <1>5, <1>6 DEF chain

\* A call goes on, without the loads or while they are read or reset.
LEMMA CallGoesOn ==
  ASSUME CommitteeInv, NEW c \in StorageCalls, NEW x \in StorageCall,
         storageCalls' = [storageCalls EXCEPT ![c] = x],
         LoadsServe', \A i, e : Serves(i, e) => Serves(i, e)',
         lastReset <= lastReset', lastReset' \in Int,
         CommitteesTyped',
         x.does = "write" =>
           /\ x.since <= lastReset'
           /\ x.stage = "waiting" => x.asks = NoValue /\ Serves(x.load, x.since)'
           /\ x.asks # NoValue => x.asks.seen >= x.since \/ x.asks.late
  PROVE  CommitteeInv'
<1>1. /\ storageCalls \in [StorageCalls -> StorageCall] /\ lastReset \in Int
      /\ storageCalls'[c] = x /\ \A d \in StorageCalls \ {c} : storageCalls'[d] = storageCalls[d]
  BY DEF CommitteeInv, CommitteesTyped
<1>2. CallsAreServed'
  <2>1. ASSUME NEW d \in StorageCalls, storageCalls'[d].does = "write"
        PROVE  /\ storageCalls'[d].since <= lastReset'
               /\ storageCalls'[d].stage = "waiting" =>
                    /\ storageCalls'[d].asks = NoValue
                    /\ Serves(storageCalls[d].load, storageCalls[d].since)'
    <3>1. CASE d = c
      BY <1>1, <2>1, <3>1 DEF Serves
    <3>2. CASE d # c
      BY <1>1, <2>1, <3>2 DEF CommitteeInv, CallsAreServed, StorageCall, Serves
    <3> QED
      BY <3>1, <3>2
  <2> QED
    BY <2>1 DEF CallsAreServed
<1>3. WritesAreFresh'
  BY <1>1 DEF CommitteeInv, WritesAreFresh, Fresh
<1> QED
  BY <1>2, <1>3 DEF CommitteeInv

\* Only calls and #readCommittee are written, the latter by TryRead alone.
LEMMA StillTyped ==
  ASSUME CommitteeInv, NEW c \in StorageCalls, NEW x \in StorageCall,
         storageCalls' = [storageCalls EXCEPT ![c] = x],
         epoch' = epoch, moving' = moving,
         lastReset' \in Int, lastReset' <= epoch,
         memo' # NoValue => memo' = memo /\ lastReset' = lastReset,
         poolLoads' \in Seq(PoolLoad), entry' \in 0..Len(poolLoads'),
         DOMAIN poolLoads \subseteq DOMAIN poolLoads',
         \/ readCommittee' = readCommittee
         \/ readCommittee' = [readCommittee EXCEPT !.stage = "staking"],
         x.does \in {"read", "write"}
  PROVE  CommitteesTyped'
<1>1. /\ storageCalls' \in [StorageCalls -> StorageCall]
      /\ \A d \in StorageCalls : storageCalls'[d].stage # "new" =>
                                   storageCalls'[d].does \in {"read", "write"}
  BY DEF CommitteeInv, CommitteesTyped
<1>2. /\ epoch' \in Int /\ lastReset' <= epoch' /\ moving' \in BOOLEAN
      /\ memo' # NoValue => memo' \in StakingState /\ memo'.epoch >= lastReset'
  BY DEF CommitteeInv, CommitteesTyped
<1>3. /\ readCommittee'.value \in CommitteeValue \union {NoValue}
      /\ readCommittee'.stage = "status" => readCommittee'.state \in StakingState
      /\ readCommittee' = [stage |-> readCommittee'.stage, state |-> readCommittee'.state,
                           load |-> readCommittee'.load, value |-> readCommittee'.value]
      /\ readCommittee'.stage \in {"status", "active"} =>
           readCommittee'.load \in DOMAIN poolLoads'
  <2>1. /\ readCommittee.value \in CommitteeValue \union {NoValue}
        /\ readCommittee.stage = "status" => readCommittee.state \in StakingState
        /\ readCommittee = [stage |-> readCommittee.stage, state |-> readCommittee.state,
                            load |-> readCommittee.load, value |-> readCommittee.value]
        /\ readCommittee.stage \in {"status", "active"} => readCommittee.load \in DOMAIN poolLoads
    BY DEF CommitteeInv, CommitteesTyped
  <2>2. CASE readCommittee' = readCommittee
    BY <2>1, <2>2
  <2>3. CASE readCommittee' = [readCommittee EXCEPT !.stage = "staking"]
    <3>1. readCommittee' = [stage |-> "staking", state |-> readCommittee.state,
                            load |-> readCommittee.load, value |-> readCommittee.value]
      BY <2>1, <2>3
    <3> QED
      BY <2>1, <3>1
  <2> QED
    BY <2>2, <2>3
<1> QED
  BY <1>1, <1>2, <1>3 DEF CommitteesTyped

\* A call begins, asks and ends.
LEMMA BeginningKeeps ==
  ASSUME CommitteeInv, NEW c \in StorageCalls, BeginRead(c) \/ BeginWrite(c)
  PROVE  CommitteeInv'
<1>1. /\ lastReset \in Int /\ lastReset <= epoch
      /\ poolLoads \in Seq(PoolLoad) /\ entry \in 0..Len(poolLoads)
  BY DEF CommitteeInv, CommitteesTyped
<1>2. CASE BeginRead(c)
  <2> PICK x : x = [does |-> "read", stage |-> "waiting", tries |-> 1, load |-> 0,
                    since |-> lastReset', asks |-> NoValue]
    OBVIOUS
  <2>1. /\ storageCalls' = [storageCalls EXCEPT ![c] = x]
        /\ UNCHANGED <<epoch, moving, memo, poolLoads, entry, lastReset, resets>>
        /\ \/ readCommittee' = readCommittee
           \/ readCommittee' = [readCommittee EXCEPT !.stage = "staking"]
    BY <1>2 DEF BeginRead, TryRead, chain, cache
  <2>2. x \in StorageCall /\ x.does = "read"
    BY <1>1, <2>1 DEF StorageCall
  <2>3. LoadsServe' /\ \A i, e : Serves(i, e) => Serves(i, e)'
    BY <2>1, ReadingServes DEF resetVars
  <2>4. CommitteesTyped'
    BY <1>1, <2>1, <2>2, StillTyped
  <2>5. lastReset <= lastReset' /\ lastReset' \in Int /\ x.does # "write"
    BY <1>1, <2>1, <2>2
  <2> QED
    BY <2>1, <2>2, <2>3, <2>4, <2>5, CallGoesOn
<1>3. CASE BeginWrite(c)
  <2> PICK x : x = [does |-> "write", stage |-> "waiting", tries |-> 1, load |-> LoadOf,
                    since |-> lastReset, asks |-> NoValue]
    OBVIOUS
  <2>1. /\ storageCalls' = [storageCalls EXCEPT ![c] = x]
        /\ Read /\ UNCHANGED resetVars
        /\ UNCHANGED <<epoch, moving, memo, lastReset, readCommittee>>
    BY <1>3 DEF BeginWrite, chain, resetVars
  <2>2. /\ LoadsServe' /\ \A i, e : Serves(i, e) => Serves(i, e)'
        /\ Serves(entry, lastReset)' /\ entry' = LoadOf
        /\ poolLoads' \in Seq(PoolLoad) /\ entry' \in 0..Len(poolLoads')
        /\ DOMAIN poolLoads \subseteq DOMAIN poolLoads'
    BY <2>1, ReadingServes
  <2>3. /\ x \in StorageCall /\ x.load = LoadOf /\ x.since = lastReset
        /\ x.asks = NoValue /\ x.does = "write"
    <3>1. LoadOf \in Nat
      BY <1>1, <2>2, LenProperties
    <3> QED
      BY <1>1, <3>1 DEF StorageCall
  <2>4. Serves(x.load, x.since)'
    BY <2>1, <2>2, <2>3 DEF Serves
  <2>5. CommitteesTyped'
    BY <1>1, <2>1, <2>2, <2>3, StillTyped
  <2>6. lastReset <= lastReset' /\ lastReset' \in Int /\ x.since <= lastReset'
    BY <1>1, <2>1, <2>3
  <2> QED
    BY <2>1, <2>2, <2>3, <2>4, <2>5, <2>6, CallGoesOn
<1> QED
  BY <1>2, <1>3

\* A call asks the nodes of the committee it waited for, and ends.
LEMMA AskingKeeps ==
  ASSUME CommitteeInv, NEW c \in StorageCalls, AskNodes(c) \/ EndCall(c)
  PROVE  CommitteeInv'
<1>1. /\ lastReset \in Int /\ lastReset <= epoch
      /\ poolLoads \in Seq(PoolLoad) /\ entry \in 0..Len(poolLoads)
      /\ storageCalls[c] \in StorageCall
      /\ storageCalls[c].stage # "new" => storageCalls[c].does \in {"read", "write"}
      /\ readCommittee.value \in CommitteeValue \union {NoValue}
  BY DEF CommitteeInv, CommitteesTyped
<1>2. /\ UNCHANGED <<epoch, moving, memo, poolLoads, entry, lastReset, readCommittee, resetVars>>
  BY DEF AskNodes, EndCall, chain, cache, resetVars
<1>3. LoadsServe' /\ \A i, e : Serves(i, e) => Serves(i, e)'
  BY <1>2, ReadingServes
<1>4. lastReset <= lastReset' /\ lastReset' \in Int
  BY <1>1, <1>2
<1>5. CASE AskNodes(c)
  <2> DEFINE load == storageCalls[c].load
             v == IF storageCalls[c].does = "read" THEN readCommittee.value
                  ELSE poolLoads[load].value
  <2> PICK x : x = [storageCalls[c] EXCEPT !.stage = "asking", !.asks = v]
    OBVIOUS
  <2>1. /\ storageCalls[c].stage = "waiting"
        /\ storageCalls[c].does # "read" => Settled(load)
        /\ storageCalls' = [storageCalls EXCEPT ![c].stage = "asking", ![c].asks = v]
    BY <1>5 DEF AskNodes
  <2>2. storageCalls' = [storageCalls EXCEPT ![c] = x]
    BY <1>1, <2>1 DEF StorageCall
  <2>3. storageCalls[c].does = "write" =>
          /\ Serves(load, storageCalls[c].since)
          /\ storageCalls[c].since <= lastReset
    BY <2>1 DEF CommitteeInv, CallsAreServed
  <2>4. /\ v \in CommitteeValue \union {NoValue}
        /\ storageCalls[c].does = "write" => v.late \/ v.seen >= storageCalls[c].since
    <3>1. CASE storageCalls[c].does = "read"
      BY <1>1, <3>1
    <3>2. CASE storageCalls[c].does = "write"
      BY <2>1, <2>3, <3>2 DEF Serves, Settled
    <3> QED
      BY <1>1, <2>1, <3>1, <3>2
  <2> HIDE DEF v
  <2>5. /\ x \in StorageCall /\ x.stage = "asking" /\ x.asks = v
        /\ x.does = storageCalls[c].does /\ x.since = storageCalls[c].since
    BY <1>1, <2>4 DEF StorageCall
  <2>6. x.does \in {"read", "write"}
    BY <1>1, <2>1, <2>5
  <2>7. CommitteesTyped'
    BY <1>1, <1>2, <2>2, <2>5, <2>6, StillTyped
  <2>8. x.does = "write" => /\ x.since <= lastReset'
                            /\ x.asks # NoValue => x.asks.seen >= x.since \/ x.asks.late
    BY <1>2, <2>3, <2>4, <2>5
  <2>9. x.stage # "waiting"
    BY <2>5
  <2> QED
    BY <1>3, <1>4, <2>2, <2>5, <2>7, <2>8, <2>9, CallGoesOn
<1>6. CASE EndCall(c)
  <2> PICK x : x = [storageCalls[c] EXCEPT !.stage = "ended"]
    OBVIOUS
  <2>1. storageCalls' = [storageCalls EXCEPT ![c] = x] /\ storageCalls[c].stage = "asking"
    BY <1>6 DEF EndCall
  <2>2. /\ x \in StorageCall /\ x.stage = "ended" /\ x.asks = storageCalls[c].asks
        /\ x.does = storageCalls[c].does /\ x.since = storageCalls[c].since
    BY <1>1 DEF StorageCall
  <2>3. x.does \in {"read", "write"} /\ CommitteesTyped'
    BY <1>1, <1>2, <2>1, <2>2, StillTyped
  <2>4. x.does = "write" => /\ x.since <= lastReset'
                            /\ x.asks # NoValue => x.asks.seen >= x.since \/ x.asks.late
    BY <1>2, <2>2 DEF CommitteeInv, CallsAreServed, WritesAreFresh, Fresh
  <2>5. x.stage # "waiting"
    BY <2>2
  <2> QED
    BY <1>3, <1>4, <2>1, <2>2, <2>3, <2>4, <2>5, CallGoesOn
<1> QED
  BY <1>5, <1>6

\* A reset of the application, or of a read that is tried again.
LEMMA ResetsKeep ==
  ASSUME CommitteeInv, AppResets \/ \E c \in StorageCalls : Retry(c) PROVE CommitteeInv'
<1>1. ResetClient /\ UNCHANGED chain
  BY DEF AppResets, Retry
<1>2. /\ LoadsServe' /\ \A i, e : Serves(i, e) => Serves(i, e)'
      /\ poolLoads' \in Seq(PoolLoad) /\ DOMAIN poolLoads' = DOMAIN poolLoads
      /\ entry' = 0 /\ memo' = NoValue
      /\ lastReset' = epoch /\ epoch' = epoch /\ lastReset <= lastReset' /\ epoch \in Int
      /\ moving' \in BOOLEAN /\ moving' = moving
  BY <1>1, Resetting DEF chain
<1>3. entry' \in 0..Len(poolLoads') /\ lastReset \in Int
  BY <1>2, LenProperties DEF CommitteeInv, CommitteesTyped
<1>4. CASE AppResets
  <2>1. UNCHANGED <<readCommittee, storageCalls>>
    BY <1>4 DEF AppResets
  <2>2. CommitteesTyped'
    BY <1>2, <1>3, <2>1 DEF CommitteeInv, CommitteesTyped
  <2>3. CallsAreServed'
    <3>1. \A c \in StorageCalls : storageCalls[c] \in StorageCall
      BY DEF CommitteeInv, CommitteesTyped
    <3>2. ASSUME NEW c \in StorageCalls, storageCalls[c].does = "write"
          PROVE  /\ storageCalls[c].since <= lastReset'
                 /\ storageCalls[c].stage = "waiting" =>
                      /\ storageCalls[c].asks = NoValue
                      /\ Serves(storageCalls[c].load, storageCalls[c].since)
      BY <1>2, <1>3, <3>1, <3>2 DEF CommitteeInv, CallsAreServed, StorageCall
    <3>3. \A i, e : Serves(i, e) => Serves(i, e)'
      BY <1>2
    <3> QED
      BY <2>1, <3>2, <3>3 DEF CallsAreServed, Serves
  <2>4. WritesAreFresh'
    BY <2>1 DEF CommitteeInv, WritesAreFresh, Fresh
  <2> QED
    BY <1>2, <2>2, <2>3, <2>4 DEF CommitteeInv
<1>5. CASE \E c \in StorageCalls : Retry(c)
  <2>1. PICK c \in StorageCalls : Retry(c)
    BY <1>5
  <2> PICK x : x = [does |-> "read", stage |-> "waiting", tries |-> 2, load |-> 0,
                    since |-> lastReset', asks |-> NoValue]
    OBVIOUS
  <2>2. /\ storageCalls' = [storageCalls EXCEPT ![c] = x]
        /\ \/ readCommittee' = readCommittee
           \/ readCommittee' = [readCommittee EXCEPT !.stage = "staking"]
    BY <2>1 DEF Retry, TryRead
  <2>3. x \in StorageCall /\ x.does = "read"
    BY <1>2 DEF StorageCall
  <2>4. lastReset' \in Int /\ lastReset' <= epoch /\ x.does \in {"read", "write"}
    BY <1>2, <2>3
  <2>5. CommitteesTyped'
    BY <1>2, <1>3, <2>2, <2>3, <2>4, StillTyped
  <2> QED
    BY <1>2, <1>3, <2>2, <2>3, <2>4, <2>5, CallGoesOn
<1> QED
  BY <1>4, <1>5

\* No step of the chain, the cache or a call disturbs the committees.
LEMMA CommitteesKept == CommitteeInv /\ [CommitteeNext]_committees => CommitteeInv'
<1> SUFFICES ASSUME CommitteeInv, [CommitteeNext]_committees PROVE CommitteeInv'
  OBVIOUS
<1>1. CASE UNCHANGED committees
  <2>1. /\ UNCHANGED <<poolLoads, entry, storageCalls, lastReset>>
        /\ UNCHANGED <<epoch, moving, memo, readCommittee>>
    BY <1>1 DEF committees, chain, cache, resetVars
  <2>2. CommitteesTyped'
    BY <2>1 DEF CommitteeInv, CommitteesTyped
  <2> QED
    BY <2>1, <2>2, ElsewhereServes
<1>2. CASE EpochChanges \/ ShardsMoved
  BY <1>2, ChainServes
<1>3. CASE AppResets \/ \E c \in StorageCalls : Retry(c)
  BY <1>3, ResetsKeep
<1>4. CASE ReadStaking \/ StakingFails \/ BlobStatusArrives \/ ActiveArrives
  BY <1>4, ResolvingKeeps
<1>5. CASE \E i \in DOMAIN poolLoads : StakingRead(i) \/ CommitteeLoaded(i) \/ CommitteeFails(i)
  BY <1>5, LoadGoesOn
<1>6. CASE \E c \in StorageCalls : BeginRead(c) \/ BeginWrite(c) \/ AskNodes(c) \/ EndCall(c)
  BY <1>6, BeginningKeeps, AskingKeeps
<1> QED
  BY <1>1, <1>2, <1>3, <1>4, <1>5, <1>6 DEF CommitteeNext

\* A write asks a committee that was read after the last reset before it began, or one whose
\* load a reset overtook, however loads, failures, resets and epochs interleave
\* (file-storage client.ts, #getActiveCommittee over the ClientCache).
THEOREM WritesAskFreshCommittees == CommitteeSpec => []WritesAreFresh
<1>1. CommitteeInv => WritesAreFresh
  BY DEF CommitteeInv
<1> QED
  BY <1>1, CommitteesBegin, CommitteesKept, PTL DEF CommitteeSpec

-----------------------------------------------------------------------------
(* One call to the nodes of a committee.                                    *)

Kinds == {"metadata", "slivers", "status", "write"}
Tellings == {"ok", "lie", "notFound", "blocked"}

\* What lanes ask for, and the shards of it.
ItemsOf(k) == IF k = "slivers" THEN DOMAIN Holder ELSE Nodes
ShardsBehind(k, X) == IF k = "slivers" THEN X ELSE Held(X)

\* Lanes ask for different things, and catch blocks are due in lanes that asked.
Laid(k, ln, ca) ==
  /\ ln \in Seq(Seq(ItemsOf(k)))
  /\ \A i \in DOMAIN ln : IsInjective(ln[i])
  /\ \A i, j \in DOMAIN ln : i # j => ToSet(ln[i]) \cap ToSet(ln[j]) = {}
  /\ ca \subseteq DOMAIN ln /\ \A i \in ca : ln[i] # <<>>
  /\ ca # {} => k = "metadata"
  /\ k \in {"status", "write"} => \A i \in DOMAIN ln : Len(ln[i]) <= 1

\* What a lane has still to hear of, and the shards that were heard of.
LeftOf(ln, ca, i) == IF i \in ca THEN ToSet(Tail(ln[i])) ELSE ToSet(ln[i])
Left(ln, ca) == UNION {LeftOf(ln, ca, i) : i \in DOMAIN ln}
Heard(k, ln, ca) == DOMAIN Holder \ ShardsBehind(k, Left(ln, ca))

\* Only faulty nodes say what is not so.
Honest(to, H) == \A a \in Tellings : a # truth => to[a] <= Cardinality(H \cap Held(faulty))

\* What is counted is so.
Counts(k, to, er, fd, H, L) ==
  /\ k # "slivers" => fd \cap L = {}
  /\ k = "metadata" => er <= Cardinality(fd)
  /\ k = "slivers" => er <= Cardinality(H \cap Held(fd))
  /\ k = "status" =>
       /\ Cardinality(H \ Held(fd)) <= to["ok"] + to["lie"]
       /\ \E m \in Nodes : Cardinality(H \ Held(fd \cup {m})) <= 2 * MaxFaulty
  /\ k = "write" => er = ShardsOf(fd) /\ er <= MaxFaulty

QuorumTyped ==
  /\ kind \in Kinds /\ truth \in {"ok", "notFound", "blocked"} /\ limit \in Limits
  /\ faulty \subseteq Nodes /\ ShardsOf(faulty) <= MaxFaulty
  /\ told \in [Tellings -> Nat] /\ errors \in Nat /\ failed \subseteq Nodes

Accounts(ln, ca, to, er, fd) ==
  /\ Laid(kind, ln, ca)
  /\ Honest(to, Heard(kind, ln, ca))
  /\ Counts(kind, to, er, fd, Heard(kind, ln, ca), Left(ln, ca))

QuorumInv ==
  /\ QuorumTyped
  /\ outcome = "none" => Accounts(lanes, caught, told, errors, failed)
  /\ VerdictIsDeserved

\* The thresholds: more than three times as many shards as may be faulty.
LEMMA Thresholds ==
  /\ NShards \in Nat /\ MaxFaulty \in Nat /\ 3 * MaxFaulty < NShards
  /\ MinSymbols = NShards - 2 * MaxFaulty
<1>1. PICK n : n = NShards
  OBVIOUS
<1>2. n \in Nat
  BY <1>1, QuorumsAssumption, FS_CardinalityType DEF NShards
<1>3. n # 0
  BY <1>1, QuorumsAssumption, FS_EmptySet DEF NShards
<1>4. MaxFaulty = (n - 1) \div 3
  BY <1>1 DEF MaxFaulty
<1>5. MaxFaulty \in Nat /\ 3 * MaxFaulty < n
  BY <1>2, <1>3, <1>4
<1>. QED BY <1>1, <1>2, <1>5 DEF MinSymbols

\* A part of the shards is finite, and not more than the whole it is part of.
LEMMA PartsOfShards ==
  ASSUME NEW A \in SUBSET DOMAIN Holder, NEW B \in SUBSET A
  PROVE  /\ IsFiniteSet(A) /\ IsFiniteSet(B)
         /\ Cardinality(A) \in Nat /\ Cardinality(B) \in Nat
         /\ Cardinality(B) <= Cardinality(A)
<1>1. IsFiniteSet(A)
  BY QuorumsAssumption, FS_Subset
<1>2. IsFiniteSet(B) /\ Cardinality(B) <= Cardinality(A)
  BY <1>1, FS_Subset
<1>. QED BY <1>1, <1>2, FS_CardinalityType

\* Shards that are apart add up.
LEMMA ShardsAdd ==
  ASSUME NEW A \in SUBSET DOMAIN Holder, NEW B \in SUBSET DOMAIN Holder, A \cap B = {}
  PROVE  Cardinality(A \cup B) = Cardinality(A) + Cardinality(B)
BY PartsOfShards, GrowsBy

\* What nodes hold.
LEMMA HeldIsPart ==
  ASSUME NEW S
  PROVE  /\ Held(S) \in SUBSET DOMAIN Holder
         /\ ShardsOf(S) \in Nat /\ ShardsOf(S) = Cardinality(Held(S))
<1>1. Held(S) \in SUBSET DOMAIN Holder
  BY DEF Held
<1>. QED BY <1>1, PartsOfShards DEF ShardsOf

\* No shard of another item is behind an item.
LEMMA BehindItems ==
  ASSUME NEW k, NEW X \in SUBSET ItemsOf(k), NEW Y \in SUBSET ItemsOf(k)
  PROVE  /\ ShardsBehind(k, X) \in SUBSET DOMAIN Holder
         /\ ShardsBehind(k, X \cup Y) = ShardsBehind(k, X) \cup ShardsBehind(k, Y)
         /\ X \subseteq Y => ShardsBehind(k, X) \subseteq ShardsBehind(k, Y)
         /\ X \cap Y = {} => ShardsBehind(k, X) \cap ShardsBehind(k, Y) = {}
BY DEF ShardsBehind, Held, ItemsOf

\* What an answer adds to its count is right if only faulty nodes say what is not so.
LEMMA HonestTally ==
  ASSUME QuorumTyped, NEW H \in SUBSET DOMAIN Holder, Honest(told, H),
         NEW W \in SUBSET DOMAIN Holder, W \cap H = {},
         NEW a, a \in Tellings \ {truth} => W \subseteq Held(faulty),
         NEW to, to = IF a \in DOMAIN told THEN [told EXCEPT ![a] = @ + Cardinality(W)] ELSE told
  PROVE  to \in [Tellings -> Nat] /\ Honest(to, H \cup W)
<1>1. PICK w \in Nat : w = Cardinality(W)
  BY PartsOfShards
<1>2. told \in [Tellings -> Nat]
  BY DEF QuorumTyped
<1>3. to = IF a \in Tellings THEN [told EXCEPT ![a] = @ + w] ELSE told
  BY <1>1, <1>2
<1>4. to \in [Tellings -> Nat]
  BY <1>1, <1>2, <1>3
<1>5. ASSUME NEW b \in Tellings, b # truth
      PROVE  to[b] <= Cardinality((H \cup W) \cap Held(faulty))
  <2>1. PICK F : F = Held(faulty)
    OBVIOUS
  <2>2. F \in SUBSET DOMAIN Holder
    BY <2>1, HeldIsPart
  <2>3. PICK h \in Nat : h = Cardinality(H \cap F)
    BY <2>2, PartsOfShards
  <2>4. told[b] <= h /\ told[b] \in Nat
    BY <1>2, <1>5, <2>1, <2>3 DEF Honest
  <2>5. CASE b = a
    <3>1. W \subseteq F /\ (H \cap F) \cap W = {}
      BY <1>5, <2>1, <2>5
    <3>2. (H \cup W) \cap F = (H \cap F) \cup W
      BY <3>1
    <3>3. PICK G : G = H \cap F
      OBVIOUS
    <3>4. Cardinality(G \cup W) = h + w
      BY <1>1, <2>3, <3>1, <3>3, ShardsAdd
    <3>5. Cardinality((H \cup W) \cap F) = h + w
      BY <3>2, <3>3, <3>4
    <3>6. to[b] = told[b] + w
      BY <1>2, <1>3, <1>5, <2>5
    <3>7. to[b] <= h + w
      BY <1>1, <2>3, <2>4, <3>6
    <3>. QED BY <2>1, <3>5, <3>7
  <2>6. CASE b # a
    <3>1. to[b] = told[b]
      BY <1>2, <1>3, <1>5, <2>6
    <3>2. PICK G : G = (H \cup W) \cap F
      OBVIOUS
    <3>3. G \in SUBSET DOMAIN Holder /\ H \cap F \in SUBSET G
      BY <2>2, <3>2
    <3>4. h <= Cardinality(G) /\ Cardinality(G) \in Nat
      BY <2>3, <3>3, PartsOfShards
    <3>5. told[b] <= Cardinality(G)
      BY <2>3, <2>4, <3>4
    <3>. QED BY <2>1, <3>1, <3>2, <3>5
  <2>. QED BY <2>5, <2>6
<1>. QED BY <1>4, <1>5 DEF Honest

\* It stays right as more is heard.
LEMMA HonestGrows ==
  ASSUME NEW to \in [Tellings -> Nat], NEW G \in SUBSET DOMAIN Holder, NEW H \in SUBSET G,
         Honest(to, H)
  PROVE  Honest(to, G)
<1>1. ASSUME NEW b \in Tellings, b # truth
      PROVE  to[b] <= Cardinality(G \cap Held(faulty))
  <2>1. PICK A, B : A = G \cap Held(faulty) /\ B = H \cap Held(faulty)
    OBVIOUS
  <2>2. Cardinality(B) <= Cardinality(A) /\ Cardinality(A) \in Nat /\ Cardinality(B) \in Nat
    BY <2>1, PartsOfShards
  <2>3. to[b] <= Cardinality(B) /\ to[b] \in Nat
    BY <1>1, <2>1 DEF Honest
  <2>4. to[b] <= Cardinality(A)
    BY <2>2, <2>3
  <2>. QED BY <2>1, <2>4
<1>. QED BY <1>1 DEF Honest

\* What is not so is said of no more shards than may be faulty.
LEMMA FewLies ==
  ASSUME QuorumTyped, NEW H \in SUBSET DOMAIN Holder,
         NEW to \in [Tellings -> Nat], Honest(to, H), NEW a \in Tellings, a # truth
  PROVE  to[a] <= MaxFaulty
<1>1. PICK B : B = H \cap Held(faulty)
  OBVIOUS
<1>2. Cardinality(B) <= ShardsOf(faulty) /\ Cardinality(B) \in Nat /\ ShardsOf(faulty) \in Nat
  BY <1>1, HeldIsPart, PartsOfShards
<1>3. to[a] <= Cardinality(B) /\ to[a] \in Nat
  BY <1>1 DEF Honest
<1>4. ShardsOf(faulty) <= MaxFaulty /\ MaxFaulty \in Nat
  BY Thresholds DEF QuorumTyped
<1>. QED BY <1>2, <1>3, <1>4

\* A blob is denied only as the correct nodes deny it.
LEMMA DenialIsTrue ==
  ASSUME QuorumTyped, NEW H \in SUBSET DOMAIN Holder,
         NEW to \in [Tellings -> Nat], Honest(to, H), Denied(to)
  PROVE  /\ Denial(to) \in {"notCertified", "blocked"}
         /\ Denial(to) = "notCertified" => truth = "notFound"
         /\ Denial(to) = "blocked" => truth = "blocked"
<1>1. PICK n \in Nat, b \in Nat, m \in Nat :
         n = to["notFound"] /\ b = to["blocked"] /\ m = MaxFaulty
  BY Thresholds DEF Tellings
<1>2. n + b > 2 * m
  BY <1>1 DEF Denied, IsQuorum
<1>3. truth # "notFound" => n <= m
  BY <1>1, FewLies DEF Tellings
<1>4. truth # "blocked" => b <= m
  BY <1>1, FewLies DEF Tellings
<1>5. Denial(to) = IF n > b THEN "notCertified" ELSE "blocked"
  BY <1>1 DEF Denial
<1>6. CASE n > b
  <2>1. truth = "notFound"
    BY <1>1, <1>2, <1>3, <1>6
  <2>. QED BY <1>5, <1>6, <2>1
<1>7. CASE ~ n > b
  <2>1. truth = "blocked"
    BY <1>1, <1>2, <1>4, <1>7
  <2>. QED BY <1>5, <1>7, <2>1
<1>. QED BY <1>6, <1>7

-----------------------------------------------------------------------------
(* Lanes.                                                                   *)

\* What is left of lanes, and that lanes have it apart.
LEMMA LanesApart ==
  ASSUME NEW k, NEW ln, NEW ca, Laid(k, ln, ca)
  PROVE  /\ \A i \in DOMAIN ln : LeftOf(ln, ca, i) \subseteq ToSet(ln[i])
         /\ \A i \in ca : LeftOf(ln, ca, i) = ToSet(ln[i]) \ {Head(ln[i])}
         /\ \A i \in DOMAIN ln : ToSet(ln[i]) \subseteq ItemsOf(k)
         /\ Left(ln, ca) \subseteq ItemsOf(k)
         /\ \A i, j \in DOMAIN ln : i # j => LeftOf(ln, ca, i) \cap ToSet(ln[j]) = {}
<1>1. ASSUME NEW i \in DOMAIN ln PROVE ln[i] \in Seq(ItemsOf(k)) /\ IsInjective(ln[i])
  BY <1>1, ElementOfSeq, LenProperties DEF Laid
<1>2. ASSUME NEW i \in ca
      PROVE  i \in DOMAIN ln /\ LeftOf(ln, ca, i) = ToSet(ln[i]) \ {Head(ln[i])}
  <2>1. i \in DOMAIN ln /\ ln[i] # <<>>
    BY <1>2 DEF Laid
  <2>2. PICK q : q = ln[i]
    OBVIOUS
  <2>3. ToSet(Tail(q)) = ToSet(q) \ {Head(q)}
    BY <1>1, <2>1, <2>2, ServeHead
  <2>. QED BY <1>2, <2>1, <2>2, <2>3 DEF LeftOf
<1>3. ASSUME NEW i \in DOMAIN ln PROVE LeftOf(ln, ca, i) \subseteq ToSet(ln[i])
  BY <1>2, <1>3 DEF LeftOf
<1>4. ASSUME NEW i \in DOMAIN ln PROVE ToSet(ln[i]) \subseteq ItemsOf(k)
  <2>1. PICK q \in Seq(ItemsOf(k)) : q = ln[i]
    BY <1>1, <1>4
  <2>. QED BY <2>1, ElementsByIndex
<1>5. Left(ln, ca) \subseteq ItemsOf(k)
  BY <1>3, <1>4 DEF Left
<1>6. ASSUME NEW i \in DOMAIN ln, NEW j \in DOMAIN ln, i # j
      PROVE  LeftOf(ln, ca, i) \cap ToSet(ln[j]) = {}
  <2>1. ToSet(ln[i]) \cap ToSet(ln[j]) = {}
    BY <1>6 DEF Laid
  <2>. QED BY <1>3, <1>6, <2>1
<1>. QED BY <1>2, <1>3, <1>4, <1>5, <1>6

\* A lane that asks has what it asks for before it.
LEMMA LaneAsks ==
  ASSUME NEW k, NEW ln, NEW ca, Laid(k, ln, ca), NEW i \in DOMAIN ln \ ca, ln[i] # <<>>
  PROVE  /\ ln[i] \in Seq(ItemsOf(k)) /\ IsInjective(ln[i])
         /\ Head(ln[i]) \in ToSet(ln[i]) /\ Head(ln[i]) \in ItemsOf(k)
         /\ Head(ln[i]) \in Left(ln, ca)
         /\ ToSet(ln[i]) \subseteq Left(ln, ca)
         /\ ToSet(Tail(ln[i])) = ToSet(ln[i]) \ {Head(ln[i])}
         /\ Tail(ln[i]) \in Seq(ItemsOf(k)) /\ IsInjective(Tail(ln[i]))
<1>1. ln[i] \in Seq(ItemsOf(k)) /\ IsInjective(ln[i])
  BY ElementOfSeq, LenProperties DEF Laid
<1>2. PICK q : q = ln[i]
  OBVIOUS
<1>3. /\ Head(q) \in ToSet(q) /\ ToSet(Tail(q)) = ToSet(q) \ {Head(q)}
      /\ Tail(q) \in Seq(ItemsOf(k)) /\ IsInjective(Tail(q))
  BY <1>1, <1>2, ServeHead
<1>4. LeftOf(ln, ca, i) = ToSet(ln[i])
  BY DEF LeftOf
<1>5. ToSet(ln[i]) \subseteq Left(ln, ca)
  BY <1>4 DEF Left
<1>6. Left(ln, ca) \subseteq ItemsOf(k)
  BY LanesApart
<1>. QED BY <1>1, <1>2, <1>3, <1>5, <1>6

\* Lanes of which one is changed.
LaneIs(ln, i, t, new) == new = [ln EXCEPT ![i] = t]

\* A lane goes on with a part of what it had.
LEMMA LaneGoesOn ==
  ASSUME NEW k, NEW ln, NEW ca, Laid(k, ln, ca), NEW i \in DOMAIN ln \ ca,
         NEW t \in Seq(ItemsOf(k)), IsInjective(t), ToSet(t) \subseteq ToSet(ln[i]),
         k \in {"status", "write"} => Len(t) <= 1,
         NEW new, LaneIs(ln, i, t, new)
  PROVE  /\ Laid(k, new, ca)
         /\ Left(new, ca) = Left(ln, ca) \ (ToSet(ln[i]) \ ToSet(t))
         /\ Left(new, ca) \subseteq Left(ln, ca)
<1>1. ln \in Seq(Seq(ItemsOf(k)))
  BY DEF Laid
<1>2. PICK n \in Nat : DOMAIN ln = 1 .. n
  BY <1>1, LenProperties
<1>3. /\ DOMAIN new = DOMAIN ln /\ new[i] = t
      /\ \A j \in DOMAIN ln : j # i => new[j] = ln[j]
  BY <1>1, <1>2 DEF LaneIs
<1>4. new \in Seq(Seq(ItemsOf(k)))
  BY <1>1, <1>2 DEF LaneIs
<1>5. \A j \in DOMAIN new : IsInjective(new[j])
  BY <1>3 DEF Laid
<1>6. \A j, m \in DOMAIN new : j # m => ToSet(new[j]) \cap ToSet(new[m]) = {}
  <2>1. \A j \in DOMAIN ln : ToSet(new[j]) \subseteq ToSet(ln[j])
    BY <1>3
  <2>. QED BY <1>3, <2>1 DEF Laid
<1>7. ca \subseteq DOMAIN new /\ \A j \in ca : new[j] # <<>>
  BY <1>3 DEF Laid
<1>8. k \in {"status", "write"} => \A j \in DOMAIN new : Len(new[j]) <= 1
  BY <1>3 DEF Laid
<1>9. Laid(k, new, ca)
  BY <1>4, <1>5, <1>6, <1>7, <1>8 DEF Laid
<1>10. \A j \in DOMAIN ln : j # i => LeftOf(new, ca, j) = LeftOf(ln, ca, j)
  BY <1>3 DEF LeftOf
<1>11. LeftOf(new, ca, i) = ToSet(t) /\ LeftOf(ln, ca, i) = ToSet(ln[i])
  BY <1>3 DEF LeftOf
<1>12. \A j \in DOMAIN ln : j # i => LeftOf(ln, ca, j) \cap ToSet(ln[i]) = {}
  BY LanesApart
<1>13. Left(new, ca) = Left(ln, ca) \ (ToSet(ln[i]) \ ToSet(t))
  <2>1. ASSUME NEW x \in Left(new, ca) PROVE x \in Left(ln, ca) /\ x \notin ToSet(ln[i]) \ ToSet(t)
    <3>1. PICK j \in DOMAIN ln : x \in LeftOf(new, ca, j)
      BY <1>3, <2>1 DEF Left
    <3>2. x \in LeftOf(ln, ca, j)
      BY <1>10, <1>11, <3>1
    <3>3. x \in Left(ln, ca)
      BY <3>2 DEF Left
    <3>. QED BY <1>10, <1>11, <1>12, <3>1, <3>2, <3>3
  <2>2. ASSUME NEW x \in Left(ln, ca), x \notin ToSet(ln[i]) \ ToSet(t) PROVE x \in Left(new, ca)
    <3>1. PICK j \in DOMAIN ln : x \in LeftOf(ln, ca, j)
      BY <2>2 DEF Left
    <3>2. x \in LeftOf(new, ca, j)
      BY <1>10, <1>11, <2>2, <3>1
    <3>. QED BY <1>3, <3>2 DEF Left
  <2>. QED BY <2>1, <2>2
<1>. QED BY <1>9, <1>13

\* A request for metadata has failed; its lane does not know of it.
LEMMA LaneIsCaught ==
  ASSUME NEW ln, NEW ca, Laid("metadata", ln, ca), NEW i \in DOMAIN ln \ ca, ln[i] # <<>>
  PROVE  /\ Laid("metadata", ln, ca \cup {i})
         /\ Left(ln, ca \cup {i}) = Left(ln, ca) \ {Head(ln[i])}
<1>. DEFINE new == ca \cup {i}
<1>1. Laid("metadata", ln, new)
  BY DEF Laid
<1>2. \A j \in DOMAIN ln : j # i => LeftOf(ln, new, j) = LeftOf(ln, ca, j)
  BY DEF LeftOf
<1>3. /\ LeftOf(ln, ca, i) = ToSet(ln[i])
      /\ LeftOf(ln, new, i) = ToSet(ln[i]) \ {Head(ln[i])}
      /\ Head(ln[i]) \in ToSet(ln[i])
  BY LaneAsks DEF LeftOf
<1>4. \A j \in DOMAIN ln : j # i => LeftOf(ln, ca, j) \cap ToSet(ln[i]) = {}
  BY LanesApart
<1>. HIDE DEF new
<1>5. ASSUME NEW x \in Left(ln, new) PROVE x \in Left(ln, ca) \ {Head(ln[i])}
  <2>1. PICK j \in DOMAIN ln : x \in LeftOf(ln, new, j)
    BY <1>5 DEF Left
  <2>2. x \in LeftOf(ln, ca, j) /\ x # Head(ln[i])
    BY <1>2, <1>3, <1>4, <2>1
  <2>. QED BY <2>2 DEF Left
<1>6. ASSUME NEW x \in Left(ln, ca), x # Head(ln[i]) PROVE x \in Left(ln, new)
  <2>1. PICK j \in DOMAIN ln : x \in LeftOf(ln, ca, j)
    BY <1>6 DEF Left
  <2>2. x \in LeftOf(ln, new, j)
    BY <1>2, <1>3, <1>6, <2>1
  <2>. QED BY <2>2 DEF Left
<1>7. Left(ln, new) = Left(ln, ca) \ {Head(ln[i])}
  BY <1>5, <1>6
<1>. QED BY <1>1, <1>7 DEF new

\* The catch block of a lane goes on behind what has failed.
LEMMA LaneResumes ==
  ASSUME NEW ln, NEW ca, Laid("metadata", ln, ca), NEW i \in ca,
         NEW new, new = [ln EXCEPT ![i] = Tail(@)]
  PROVE  Laid("metadata", new, ca \ {i}) /\ Left(new, ca \ {i}) = Left(ln, ca)
<1>1. ln \in Seq(Seq(Nodes)) /\ i \in DOMAIN ln /\ ln[i] # <<>>
  BY DEF Laid, ItemsOf
<1>2. PICK n \in Nat : DOMAIN ln = 1 .. n
  BY <1>1, LenProperties
<1>3. /\ DOMAIN new = DOMAIN ln /\ new[i] = Tail(ln[i])
      /\ \A j \in DOMAIN ln : j # i => new[j] = ln[j]
  BY <1>1, <1>2
<1>4. PICK q : q = ln[i]
  OBVIOUS
<1>5. q \in Seq(Nodes) /\ IsInjective(q)
  BY <1>1, <1>4, ElementOfSeq, LenProperties DEF Laid
<1>6. Tail(q) \in Seq(Nodes) /\ IsInjective(Tail(q)) /\ ToSet(Tail(q)) = ToSet(q) \ {Head(q)}
  BY <1>1, <1>4, <1>5, ServeHead
<1>7. new \in Seq(Seq(Nodes))
  BY <1>1, <1>2, <1>4, <1>6
<1>8. \A j \in DOMAIN new : IsInjective(new[j])
  BY <1>3, <1>4, <1>6 DEF Laid
<1>9. \A j, m \in DOMAIN new : j # m => ToSet(new[j]) \cap ToSet(new[m]) = {}
  <2>1. \A j \in DOMAIN ln : ToSet(new[j]) \subseteq ToSet(ln[j])
    BY <1>3, <1>4, <1>6
  <2>. QED BY <1>3, <2>1 DEF Laid
<1>10. Laid("metadata", new, ca \ {i})
  BY <1>3, <1>7, <1>8, <1>9 DEF Laid, ItemsOf
<1>11. \A j \in DOMAIN ln : LeftOf(new, ca \ {i}, j) = LeftOf(ln, ca, j)
  BY <1>3 DEF LeftOf
<1>12. Left(new, ca \ {i}) = Left(ln, ca)
  <2>1. \A x : x \in Left(new, ca \ {i}) <=> \E j \in DOMAIN new : x \in LeftOf(new, ca \ {i}, j)
    BY DEF Left
  <2>2. \A x : x \in Left(ln, ca) <=> \E j \in DOMAIN ln : x \in LeftOf(ln, ca, j)
    BY DEF Left
  <2>3. \A x : x \in Left(new, ca \ {i}) <=> x \in Left(ln, ca)
    BY <1>3, <1>11, <2>1, <2>2
  <2>. QED BY <2>3
<1>. QED BY <1>10, <1>12

\* What a verdict says, of how the call was settled, who failed it and what was left to ask.
Verdict(o, fd, ln) ==
  /\ o = "notCertified" => truth = "notFound"
  /\ o = "blocked" => truth = "blocked"
  /\ o = "ok" /\ kind \in {"slivers", "status"} => truth = "ok"
  /\ o \notin {"lie", "unverified"}
  /\ o = "ok" /\ kind = "write" => IsAboveValidity(ShardsOf(Nodes \ (fd \cup faulty)))
  /\ o = "tooFew" =>
       \/ ~ Enough(Nodes \ fd)
       \/ kind = "metadata" /\ \E m \in Nodes : Nodes \ fd = {m}
       \/ /\ kind = "status" /\ \A j \in DOMAIN ln : ln[j] = <<>>
          /\ \E m \in Nodes \ fd : ~ Enough(Nodes \ (fd \cup {m}))

\* A step that keeps the accounts, or settles the call as it deserves, keeps the invariant.
LEMMA TurnKeeps ==
  ASSUME QuorumInv, UNCHANGED call,
         told' \in [Tellings -> Nat], errors' \in Nat, failed' \subseteq Nodes,
         outcome' = "none" => Accounts(lanes', caught', told', errors', failed'),
         outcome' # "none" => Verdict(outcome', failed', lanes')
  PROVE  QuorumInv'
<1>1. kind' = kind /\ limit' = limit /\ truth' = truth /\ faulty' = faulty
  BY DEF call
<1>2. QuorumTyped'
  BY <1>1 DEF QuorumInv, QuorumTyped
<1>3. (outcome = "none" => Accounts(lanes, caught, told, errors, failed))'
  BY <1>1 DEF Accounts, Honest, Counts
<1>4. VerdictIsDeserved'
  BY <1>1 DEF Verdict, VerdictIsDeserved, DeniedRightly, FoundRightly, GivesUpRightly,
              LastNotCounted, OneNotAsked, Enough
<1>. QED BY <1>2, <1>3, <1>4 DEF QuorumInv

\* A lane asks for something that has not been heard of yet.
AskedFor(i, x, H, W) ==
  /\ Accounts(lanes, caught, told, errors, failed)
  /\ i \in DOMAIN lanes \ caught /\ lanes[i] # <<>>
  /\ x \in Left(lanes, caught) /\ x \in ToSet(lanes[i]) /\ x \in ItemsOf(kind)
  /\ H \in SUBSET DOMAIN Holder /\ W \in SUBSET DOMAIN Holder /\ W \cap H = {}
  /\ WeightAsked(i) = Cardinality(W) /\ Cardinality(W) \in Nat
  /\ Node(x) \in Nodes /\ W \subseteq Held({Node(x)})
  /\ kind = "slivers" => WeightAsked(i) = 1 /\ W = {x}
  /\ kind # "slivers" => Node(x) = x /\ W = Held({x}) /\ x \notin failed

\* So does every lane that has something to ask for.
LEMMA Asking ==
  ASSUME QuorumInv, NEW i, Asks(i),
         NEW x, x = Head(lanes[i]),
         NEW H, H = Heard(kind, lanes, caught), NEW W, W = ShardsBehind(kind, {x})
  PROVE  AskedFor(i, x, H, W)
<1>1. /\ Accounts(lanes, caught, told, errors, failed)
      /\ i \in DOMAIN lanes \ caught /\ lanes[i] # <<>>
  BY DEF Asks, QuorumInv
<1>2. x \in Left(lanes, caught) /\ x \in ItemsOf(kind) /\ x \in ToSet(lanes[i])
  BY <1>1, LaneAsks DEF Accounts
<1>3. W \in SUBSET DOMAIN Holder
  BY <1>2, BehindItems
<1>4. H \in SUBSET DOMAIN Holder
  BY DEF Heard
<1>5. W \cap H = {}
  BY <1>2 DEF Heard, ShardsBehind, Held
<1>6. Cardinality(W) \in Nat
  BY <1>3, PartsOfShards
<1>7. CASE kind = "slivers"
  <2>1. W = {x} /\ x \in DOMAIN Holder
    BY <1>2, <1>7 DEF ShardsBehind, ItemsOf
  <2>2. Cardinality({x}) = 1
    BY FS_Singleton
  <2>3. Node(x) = Holder[x] /\ Holder[x] \in Nodes
    BY <1>7, <2>1, QuorumsAssumption DEF Node
  <2>4. W \subseteq Held({Node(x)})
    BY <2>1, <2>3 DEF Held
  <2>5. WeightAsked(i) = 1
    BY <1>7 DEF WeightAsked
  <2>. QED BY <1>1, <1>2, <1>3, <1>4, <1>5, <1>6, <1>7, <2>1, <2>2, <2>3, <2>4, <2>5 DEF AskedFor
<1>8. CASE kind # "slivers"
  <2>1. W = Held({x}) /\ x \in Nodes /\ Node(x) = x
    BY <1>2, <1>8 DEF ShardsBehind, ItemsOf, Node
  <2>2. WeightAsked(i) = Cardinality(W)
    BY <1>8, <2>1 DEF WeightAsked, ShardsOf
  <2>3. x \notin failed
    BY <1>1, <1>2, <1>8 DEF Accounts, Counts
  <2>. QED BY <1>1, <1>2, <1>3, <1>4, <1>5, <1>6, <1>8, <2>1, <2>2, <2>3 DEF AskedFor
<1>. QED BY <1>7, <1>8

\* The answer is counted rightly.
LEMMA Answering ==
  ASSUME QuorumInv, NEW i, Asks(i), NEW a \in MayAnswer(i) \cup {"error"}, Tally(i, a),
         NEW H, H = Heard(kind, lanes, caught),
         NEW W, W = ShardsBehind(kind, {Head(lanes[i])})
  PROVE  told' \in [Tellings -> Nat] /\ Honest(told', H \cup W)
<1>1. PICK x : x = Head(lanes[i])
  OBVIOUS
<1>2. /\ H \in SUBSET DOMAIN Holder /\ W \in SUBSET DOMAIN Holder /\ W \cap H = {}
      /\ WeightAsked(i) = Cardinality(W) /\ W \subseteq Held({Node(x)})
      /\ Accounts(lanes, caught, told, errors, failed)
  <2>1. W = ShardsBehind(kind, {x})
    BY <1>1
  <2>2. AskedFor(i, x, H, W)
    BY <1>1, <2>1, Asking
  <2>. QED BY <2>2 DEF AskedFor
<1>3. QuorumTyped /\ Honest(told, H)
  BY <1>2 DEF QuorumInv, Accounts
<1>4. a \in Tellings \ {truth} => W \subseteq Held(faulty)
  <2>1. SUFFICES ASSUME a \in Tellings, a # truth PROVE W \subseteq Held(faulty)
    OBVIOUS
  <2>2. a \in MayAnswer(i)
    BY <2>1 DEF Tellings
  <2>3. Node(x) \in faulty
    BY <1>1, <2>1, <2>2 DEF MayAnswer
  <2>. QED BY <1>2, <2>3 DEF Held
<1>5. PICK w : w = Cardinality(W)
  OBVIOUS
<1>6. told' = IF a \in DOMAIN told THEN [told EXCEPT ![a] = @ + w] ELSE told
  BY <1>2, <1>5 DEF Tally
<1>7. PICK to : to = told'
  OBVIOUS
<1>8. to \in [Tellings -> Nat] /\ Honest(to, H \cup W)
  BY <1>2, <1>3, <1>4, <1>5, <1>6, <1>7, HonestTally
<1>. QED BY <1>7, <1>8

\* What is heard of, once it is not left.
LEMMA MoreIsHeard ==
  ASSUME NEW ln, NEW ca, NEW lnew, NEW cnew, Left(ln, ca) \subseteq ItemsOf(kind),
         NEW X \in SUBSET Left(ln, ca), Left(lnew, cnew) \subseteq Left(ln, ca) \ X
  PROVE  /\ Heard(kind, ln, ca) \cup ShardsBehind(kind, X) \subseteq Heard(kind, lnew, cnew)
         /\ Heard(kind, lnew, cnew) \in SUBSET DOMAIN Holder
         /\ Left(lnew, cnew) = Left(ln, ca) \ X =>
              Heard(kind, lnew, cnew) = Heard(kind, ln, ca) \cup ShardsBehind(kind, X)
BY DEF Heard, ShardsBehind, Held, ItemsOf

\* Sums of nodes are finite.
LEMMA FailedGrows ==
  ASSUME NEW fd \in SUBSET Nodes, NEW x \in Nodes
  PROVE  /\ Cardinality(fd) \in Nat /\ Cardinality(fd) <= Cardinality(fd \cup {x})
         /\ Cardinality(fd \cup {x}) \in Nat
         /\ x \notin fd => Cardinality(fd \cup {x}) = Cardinality(fd) + 1
<1>1. IsFiniteSet(fd) /\ IsFiniteSet(fd \cup {x})
  BY QuorumsAssumption, FS_Subset
<1>2. Cardinality(fd) <= Cardinality(fd \cup {x})
  BY <1>1, FS_Subset
<1>3. x \notin fd => Cardinality(fd \cup {x}) = Cardinality(fd) + 1
  BY <1>1, FS_AddElement
<1>. QED BY <1>1, <1>2, <1>3, FS_CardinalityType

-----------------------------------------------------------------------------
(* Metadata.                                                                *)

\* Metadata has come.
LEMMA MetadataArrivesKeeps ==
  ASSUME QuorumInv, NEW i, MetadataArrives(i) PROVE QuorumInv'
<1>1. Verdict(outcome', failed', lanes')
  BY DEF MetadataArrives, Verdict
<1>2. QuorumTyped
  BY DEF QuorumInv
<1>. QED BY <1>1, <1>2, TurnKeeps DEF MetadataArrives, QuorumTyped

\* An executor has failed: a node more has failed, and one error more is counted.
LEMMA MetadataFailsKeeps ==
  ASSUME QuorumInv, NEW i, MetadataFails(i) PROVE QuorumInv'
<1>. PICK x, H, W, L : /\ x = Head(lanes[i]) /\ H = Heard(kind, lanes, caught)
                       /\ W = ShardsBehind(kind, {x}) /\ L = Left(lanes, caught)
  OBVIOUS
<1>1. /\ kind = "metadata" /\ Asks(i) /\ errors' = errors + 1 /\ caught' = caught \cup {i}
      /\ UNCHANGED <<call, lanes, outcome>>
  BY DEF MetadataFails
<1>2. PICK a \in {"notFound", "blocked", "error"} : Fails(i, a) /\ Tally(i, a)
  BY DEF MetadataFails
<1>3. a \in MayAnswer(i) \cup {"error"} /\ failed' = failed \cup {Node(x)}
  BY <1>2 DEF Fails
<1>4. /\ Accounts(lanes, caught, told, errors, failed)
      /\ i \in DOMAIN lanes \ caught /\ lanes[i] # <<>>
      /\ x \in L /\ Node(x) \in Nodes /\ Node(x) = x /\ x \notin failed
  <2>1. kind # "slivers"
    BY <1>1
  <2>2. Asks(i)
    BY <1>1
  <2>3. AskedFor(i, x, H, W)
    BY <2>2, Asking
  <2>. QED BY <2>1, <2>3 DEF AskedFor
<1>5. told' \in [Tellings -> Nat] /\ Honest(told', H \cup W)
  BY <1>1, <1>2, <1>3, Answering
<1>6. /\ Laid(kind, lanes, caught) /\ failed \cap L = {} /\ errors <= Cardinality(failed)
  BY <1>1, <1>4 DEF Accounts, Counts
<1>7. Laid(kind, lanes, caught') /\ Left(lanes, caught') = L \ {x}
  BY <1>1, <1>4, <1>6, LaneIsCaught
<1>8. L \subseteq ItemsOf(kind)
  BY <1>6, LanesApart
<1>9. /\ H \cup W \subseteq Heard(kind, lanes, caught')
      /\ Heard(kind, lanes, caught') \in SUBSET DOMAIN Holder
  <2>1. PICK cnew : cnew = caught'
    OBVIOUS
  <2>2. Left(lanes, cnew) \subseteq L \ {x}
    BY <1>7, <2>1
  <2>. QED BY <1>4, <1>8, <2>1, <2>2, MoreIsHeard
<1>10. Honest(told', Heard(kind, lanes, caught'))
  <2>1. PICK to, G : to = told' /\ G = Heard(kind, lanes, caught')
    OBVIOUS
  <2>. QED BY <1>5, <1>9, <2>1, HonestGrows
<1>11. errors \in Nat /\ failed \in SUBSET Nodes /\ failed' \in SUBSET Nodes
  BY <1>3, <1>4 DEF QuorumInv, QuorumTyped
<1>12. failed' = failed \cup {x}
  BY <1>3, <1>4
<1>13. errors' <= Cardinality(failed')
  <2>1. PICK c : c = Cardinality(failed)
    OBVIOUS
  <2>2. Cardinality(failed') = c + 1 /\ c \in Nat
    BY <1>4, <1>11, <1>12, <2>1, FailedGrows
  <2>. QED BY <1>1, <1>6, <1>11, <2>1, <2>2
<1>14. failed' \cap Left(lanes, caught') = {}
  BY <1>6, <1>7, <1>12
<1>15. Counts(kind, told', errors', failed', Heard(kind, lanes, caught'), Left(lanes, caught'))
  BY <1>1, <1>13, <1>14 DEF Counts
<1>16. Accounts(lanes', caught', told', errors', failed')
  BY <1>1, <1>7, <1>10, <1>15 DEF Accounts
<1>17. outcome' = "none"
  BY <1>1 DEF Asks
<1>. QED BY <1>1, <1>5, <1>11, <1>16, <1>17, TurnKeeps

\* If nearly all nodes have failed, there is none left, or one.
LEMMA NobodyIsEnough ==
  ASSUME NEW fd \in SUBSET Nodes, ExecutorsLeft <= Cardinality(fd), kind = "metadata"
  PROVE  ~ Enough(Nodes \ fd) \/ \E m \in Nodes : Nodes \ fd = {m}
<1>1. PICK c, n, d : c = Cardinality(fd) /\ n = Cardinality(Nodes) /\ d = Cardinality(Nodes \ fd)
  OBVIOUS
<1>2. IsFiniteSet(fd) /\ IsFiniteSet(Nodes \ fd)
  BY QuorumsAssumption, FS_Subset
<1>3. c \in Nat /\ n \in Nat /\ d \in Nat
  BY <1>1, <1>2, QuorumsAssumption, FS_CardinalityType
<1>4. n = c + d
  <2>1. fd \cup (Nodes \ fd) = Nodes /\ fd \cap (Nodes \ fd) = {}
    OBVIOUS
  <2>2. PICK R : R = Nodes \ fd
    OBVIOUS
  <2>3. Cardinality(fd \cup R) = Cardinality(fd) + Cardinality(R)
    BY <1>2, <2>1, <2>2, GrowsBy
  <2>. QED BY <1>1, <2>1, <2>2, <2>3
<1>5. d <= 1
  BY <1>1, <1>3, <1>4 DEF ExecutorsLeft
<1>6. CASE Nodes \ fd = {}
  BY <1>6 DEF Enough
<1>7. CASE Nodes \ fd # {}
  <2>1. PICK m : m \in Nodes \ fd
    BY <1>7
  <2>2. PICK R : R = Nodes \ fd
    OBVIOUS
  <2>3. PICK e : e = Cardinality(R \ {m})
    OBVIOUS
  <2>4. IsFiniteSet(R \ {m}) /\ e = d - 1
    BY <1>1, <1>2, <2>1, <2>2, <2>3, FS_RemoveElement
  <2>5. e \in Nat
    BY <2>3, <2>4, FS_CardinalityType
  <2>6. e = 0
    BY <1>3, <1>5, <2>4, <2>5
  <2>7. R \ {m} = {}
    BY <2>3, <2>4, <2>6, FS_EmptySet
  <2>8. R = {m}
    BY <2>1, <2>2, <2>7
  <2>. QED BY <2>1, <2>2, <2>8
<1>. QED BY <1>6, <1>7

\* The catch block of a lane gives up if the blob is denied or nobody is left.
LEMMA LaneCatchesKeeps ==
  ASSUME QuorumInv, NEW i, LaneCatches(i) PROVE QuorumInv'
<1>1. /\ kind = "metadata" /\ outcome = "none" /\ i \in caught /\ caught' = caught \ {i}
      /\ lanes' = [lanes EXCEPT ![i] = Tail(@)] /\ UNCHANGED <<call, told, errors, failed>>
  BY DEF LaneCatches
<1>2. Accounts(lanes, caught, told, errors, failed) /\ QuorumTyped
  BY <1>1 DEF QuorumInv
<1>3. Laid("metadata", lanes, caught)
  BY <1>1, <1>2 DEF Accounts
<1>4. PICK lnew, cnew : lnew = lanes' /\ cnew = caught'
  OBVIOUS
<1>5. Laid("metadata", lnew, cnew) /\ Left(lnew, cnew) = Left(lanes, caught)
  BY <1>1, <1>3, <1>4, LaneResumes
<1>6. Heard(kind, lnew, cnew) = Heard(kind, lanes, caught)
  BY <1>5 DEF Heard
<1>7. Accounts(lanes', caught', told', errors', failed')
  BY <1>1, <1>2, <1>4, <1>5, <1>6 DEF Accounts
<1>8. outcome' # "none" => Verdict(outcome', failed', lanes')
  <2>1. PICK H : H = Heard(kind, lanes, caught)
    OBVIOUS
  <2>2. H \in SUBSET DOMAIN Holder /\ Honest(told, H) /\ told \in [Tellings -> Nat]
    BY <1>2, <2>1 DEF Accounts, Heard, QuorumTyped
  <2>3. CASE Denied(told)
    <3>1. outcome' = Denial(told)
      BY <2>3 DEF LaneCatches
    <3>. QED BY <1>1, <1>2, <2>2, <2>3, <3>1, DenialIsTrue DEF Verdict
  <2>4. CASE ~ Denied(told) /\ AllFailed
    <3>1. outcome' = "tooFew"
      BY <2>4 DEF LaneCatches
    <3>2. failed \in SUBSET Nodes /\ ExecutorsLeft <= Cardinality(failed)
      <4>1. errors <= Cardinality(failed)
        BY <1>1, <1>2 DEF Accounts, Counts
      <4>. QED BY <1>2, <2>4, <4>1 DEF AllFailed, QuorumTyped
    <3>3. ~ Enough(Nodes \ failed) \/ \E m \in Nodes : Nodes \ failed = {m}
      BY <1>1, <3>2, NobodyIsEnough
    <3>. QED BY <1>1, <3>1, <3>3 DEF Verdict
  <2>5. CASE ~ Denied(told) /\ ~ AllFailed
    <3>1. outcome' = "none"
      BY <2>5 DEF LaneCatches
    <3>. QED BY <3>1
  <2>. QED BY <2>3, <2>4, <2>5
<1>. QED BY <1>1, <1>2, <1>7, <1>8, TurnKeeps DEF QuorumTyped

-----------------------------------------------------------------------------
(* Slivers.                                                                 *)

\* The shards of some nodes and of the others are all there are.
LEMMA ShardsOfOthers ==
  ASSUME NEW S \in SUBSET Nodes
  PROVE  ShardsOf(Nodes \ S) = NShards - ShardsOf(S)
<1>1. PICK A, B : A = Held(S) /\ B = Held(Nodes \ S)
  OBVIOUS
<1>2. A \cap B = {} /\ A \cup B = DOMAIN Holder
  BY <1>1, QuorumsAssumption DEF Held
<1>3. Cardinality(A \cup B) = Cardinality(A) + Cardinality(B)
  BY <1>2, ShardsAdd
<1>4. Cardinality(A) \in Nat /\ Cardinality(B) \in Nat
  BY <1>1, HeldIsPart, PartsOfShards
<1>5. NShards = Cardinality(A) + Cardinality(B)
  BY <1>2, <1>3 DEF NShards
<1>. QED BY <1>1, <1>4, <1>5 DEF ShardsOf

\* More nodes do not have fewer shards.
LEMMA MoreNodes ==
  ASSUME NEW S, NEW T, S \subseteq T
  PROVE  ShardsOf(S) <= ShardsOf(T) /\ ShardsOf(S) \in Nat /\ ShardsOf(T) \in Nat
<1>1. PICK A, B : A = Held(S) /\ B = Held(T)
  OBVIOUS
<1>2. A \subseteq B /\ B \in SUBSET DOMAIN Holder
  BY <1>1 DEF Held
<1>3. Cardinality(A) <= Cardinality(B) /\ Cardinality(A) \in Nat /\ Cardinality(B) \in Nat
  BY <1>2, PartsOfShards
<1>. QED BY <1>1, <1>3 DEF ShardsOf

\* The shards a lane passes over are those of nodes that have failed.
LEMMA PassedHaveFailed ==
  ASSUME NEW u \in Seq(DOMAIN Holder), NEW nodes
  PROVE  /\ Passed(u, nodes) \in 0 .. Len(u)
         /\ \A p \in 1 .. Passed(u, nodes) : Holder[u[p]] \in nodes
<1>1. PICK n \in Nat : n = Len(u) /\ DOMAIN u = 1 .. n
  BY LenProperties
<1>. DEFINE left == {p \in DOMAIN u : Holder[u[p]] \notin nodes}
<1>2. Passed(u, nodes) = IF left = {} THEN n ELSE Min(left) - 1
  BY <1>1 DEF Passed
<1>3. CASE left = {}
  BY <1>1, <1>2, <1>3
<1>4. CASE left # {}
  <2>1. left \in SUBSET Nat
    BY <1>1
  <2>2. PICK m : m = Min(left)
    OBVIOUS
  <2>3. m \in left /\ \A q \in left : m <= q
    <3>1. \E k \in left : \A q \in left : k <= q
      <4>. HIDE DEF left
      <4>. QED BY <1>4, <2>1, LeastNumber
    <3>2. m = CHOOSE k \in left : \A q \in left : k <= q
      <4>. HIDE DEF left
      <4>. QED BY <2>2 DEF Min
    <3>3. PICK l : l = left
      OBVIOUS
    <3>4. m \in l /\ \A q \in l : m <= q
      BY <3>1, <3>2, <3>3
    <3>. QED BY <3>3, <3>4
  <2>4. m \in 1 .. n /\ Passed(u, nodes) = m - 1
    BY <1>1, <1>2, <1>4, <2>2, <2>3
  <2>5. ASSUME NEW p \in 1 .. (m - 1) PROVE Holder[u[p]] \in nodes
    <3>1. p \in DOMAIN u /\ ~ m <= p
      BY <1>1, <2>4
    <3>2. p \notin left
      BY <2>3, <3>1
    <3>. QED BY <3>1, <3>2
  <2>. QED BY <1>1, <2>4, <2>5
<1>. QED BY <1>3, <1>4

\* If more shards have failed than may, the others are too few.
LEMMA SliversTooFew ==
  ASSUME NEW fd \in SUBSET Nodes, NEW er \in Nat, er <= ShardsOf(fd), kind = "slivers",
         NShards - er < MinSymbols
  PROVE  ~ Enough(Nodes \ fd)
<1>2. PICK n \in Nat, f \in Nat, b \in Int : n = NShards /\ f = ShardsOf(fd) /\ b = MinSymbols
  BY Thresholds, HeldIsPart
<1>3. PICK r : r = ShardsOf(Nodes \ fd)
  OBVIOUS
<1>4. r \in Nat /\ r = n - f
  BY <1>2, <1>3, ShardsOfOthers, HeldIsPart
<1>5. ~ r >= b
  BY <1>2, <1>4
<1>. QED BY <1>2, <1>3, <1>5 DEF Enough

\* The first of a lane, and the others.
SplitAt(s, k, h, t) == h = {s[i] : i \in 1 .. k} /\ t = SubSeq(s, k + 1, Len(s))

\* They are parts of it.
LEMMA SplitLane ==
  ASSUME NEW S, NEW s \in Seq(S), IsInjective(s), NEW k \in 0 .. Len(s),
         NEW h, NEW t, SplitAt(s, k, h, t)
  PROVE  /\ IsFiniteSet(h) /\ Cardinality(h) = k /\ h \subseteq ToSet(s)
         /\ t \in Seq(S) /\ IsInjective(t) /\ ToSet(t) = ToSet(s) \ h
<1>1. /\ IsFiniteSet({s[i] : i \in 1 .. k})
      /\ Cardinality({s[i] : i \in 1 .. k}) = k
      /\ {s[i] : i \in 1 .. k} \subseteq ToSet(s)
      /\ SubSeq(s, k + 1, Len(s)) \in Seq(S)
      /\ IsInjective(SubSeq(s, k + 1, Len(s)))
      /\ ToSet(SubSeq(s, k + 1, Len(s))) = ToSet(s) \ {s[i] : i \in 1 .. k}
      /\ Len(SubSeq(s, k + 1, Len(s))) = Len(s) - k
  BY SplitBatch
<1>2. h = {s[i] : i \in 1 .. k} /\ t = SubSeq(s, k + 1, Len(s))
  BY DEF SplitAt
<1>. QED BY <1>1, <1>2

\* A lane of slivers goes on behind what it passes over.
LEMMA SliversGoOn ==
  ASSUME QuorumInv, kind = "slivers", NEW i, Asks(i), NEW ended \in {0, 1},
         NEW H, H = Heard(kind, lanes, caught), NEW W, W = ShardsBehind(kind, {Head(lanes[i])}),
         told' \in [Tellings -> Nat], Honest(told', H \cup W),
         failed' \in SUBSET Nodes, failed \subseteq failed',
         ended = 1 => Node(Head(lanes[i])) \in failed',
         GoOn(i, ended), UNCHANGED <<call, caught>>
  PROVE  QuorumInv'
<1>. PICK x, s, L, D : /\ x = Head(lanes[i]) /\ s = lanes[i] /\ L = Left(lanes, caught)
                       /\ D = DOMAIN Holder
  OBVIOUS
<1>1. AskedFor(i, x, H, W)
  BY Asking
<1>2. /\ Accounts(lanes, caught, told, errors, failed)
      /\ i \in DOMAIN lanes \ caught /\ s # <<>> /\ x \in ToSet(s) /\ W = {x}
      /\ x \in D /\ Node(x) = Holder[x]
  BY <1>1 DEF AskedFor, ItemsOf, Node
<1>3. Laid(kind, lanes, caught) /\ errors <= Cardinality(H \cap Held(failed)) /\ errors \in Nat
  BY <1>2 DEF Accounts, Counts, QuorumInv, QuorumTyped
<1>4. /\ s \in Seq(D) /\ IsInjective(s) /\ ToSet(s) \subseteq L
      /\ Tail(s) \in Seq(D)
  <2>1. ItemsOf(kind) = D
    BY DEF ItemsOf
  <2>. QED BY <1>2, <1>3, <2>1, LaneAsks
<1>5. PICK n \in Nat : n = Len(s) /\ DOMAIN s = 1 .. n /\ n # 0
  BY <1>2, <1>4, LenProperties, EmptySeq
<1>6. PICK u : u = Tail(s)
  OBVIOUS
<1>7. Len(u) = n - 1 /\ \A p \in 1 .. (n - 1) : u[p] = s[p + 1]
  BY <1>2, <1>4, <1>5, <1>6, HeadTailProperties
<1>8. x = s[1]
  BY <1>2, <1>4, HeadTailProperties
<1>9. PICK passed, fd : passed = Passed(u, failed') /\ fd = failed'
  OBVIOUS
<1>10. passed \in 0 .. (n - 1) /\ \A p \in 1 .. passed : Holder[u[p]] \in fd
  BY <1>4, <1>6, <1>7, <1>9, PassedHaveFailed
<1>11. PICK k : k = passed + 1
  OBVIOUS
<1>12. k \in 1 .. n
  BY <1>5, <1>10, <1>11
<1>13. PICK t : t = SubSeq(s, k + 1, n)
  OBVIOUS
<1>14. /\ lanes' = [lanes EXCEPT ![i] = t]
       /\ errors' = errors + ended + passed
       /\ outcome' = IF NShards - errors' < MinSymbols THEN "tooFew" ELSE "none"
  <2>1. 2 + passed = k + 1
    BY <1>10, <1>11
  <2>. QED BY <1>5, <1>6, <1>9, <1>13, <2>1 DEF GoOn
<1>. DEFINE heads == {s[j] : j \in 1 .. k}
<1>15. /\ IsFiniteSet(heads) /\ Cardinality(heads) = k /\ heads \subseteq ToSet(s)
       /\ t \in Seq(D) /\ IsInjective(t) /\ ToSet(t) = ToSet(s) \ heads
  <2>1. k \in 0 .. Len(s)
    BY <1>5, <1>12
  <2>2. t = SubSeq(s, k + 1, Len(s)) /\ s \in Seq(D) /\ IsInjective(s)
    BY <1>4, <1>5, <1>13
  <2>3. PICK h : h = heads
    OBVIOUS
  <2>4. SplitAt(s, k, h, t)
    BY <2>2, <2>3 DEF SplitAt
  <2>5. /\ IsFiniteSet(h) /\ Cardinality(h) = k /\ h \subseteq ToSet(s)
        /\ t \in Seq(D) /\ IsInjective(t) /\ ToSet(t) = ToSet(s) \ h
    BY <2>1, <2>2, <2>4, SplitLane
  <2>. QED BY <2>3, <2>5
<1>16. x \in heads
  BY <1>8, <1>12
<1>17. ASSUME NEW d \in heads, d # x \/ ended = 1
       PROVE  d \in Held(fd)
  <2>1. PICK j \in 1 .. k : d = s[j]
    BY <1>17
  <2>2. d \in D
    BY <1>4, <1>5, <1>12, <2>1, ElementOfSeq
  <2>3. CASE j = 1
    BY <1>2, <1>8, <1>9, <1>17, <2>1, <2>2, <2>3 DEF Held
  <2>4. CASE j # 1
    <3>1. PICK p : p = j - 1
      OBVIOUS
    <3>2. p \in 1 .. passed /\ p \in 1 .. (n - 1) /\ p + 1 = j
      BY <1>5, <1>10, <1>11, <2>1, <2>4, <3>1
    <3>3. u[p] = d
      BY <1>7, <2>1, <3>2
    <3>. QED BY <1>10, <2>2, <3>2, <3>3 DEF Held
  <2>. QED BY <2>3, <2>4
<1>. HIDE DEF heads
<1>18. PICK lnew : lnew = lanes'
  OBVIOUS
<1>19. /\ Laid(kind, lnew, caught)
       /\ Left(lnew, caught) = L \ (ToSet(s) \ ToSet(t))
  <2>1. ItemsOf(kind) = D /\ ToSet(t) \subseteq ToSet(lanes[i])
    BY <1>15 DEF ItemsOf
  <2>2. t \in Seq(ItemsOf(kind)) /\ i \in DOMAIN lanes \ caught
        /\ ~ kind \in {"status", "write"} /\ lnew = [lanes EXCEPT ![i] = t]
    BY <1>2, <1>14, <1>15, <1>18, <2>1
  <2>3. PICK k0, ln, ca : k0 = kind /\ ln = lanes /\ ca = caught
    OBVIOUS
  <2>4. /\ Laid(k0, ln, ca) /\ i \in DOMAIN ln \ ca /\ t \in Seq(ItemsOf(k0))
        /\ IsInjective(t) /\ ToSet(t) \subseteq ToSet(ln[i])
        /\ k0 \in {"status", "write"} => Len(t) <= 1
        /\ LaneIs(ln, i, t, lnew)
    BY <1>3, <1>15, <2>1, <2>2, <2>3 DEF LaneIs
  <2>5. /\ Laid(k0, lnew, ca)
        /\ Left(lnew, ca) = Left(ln, ca) \ (ToSet(ln[i]) \ ToSet(t))
    BY <2>4, LaneGoesOn
  <2>. QED BY <2>3, <2>5
<1>20. Left(lnew, caught) = L \ heads /\ heads \subseteq L
  BY <1>4, <1>15, <1>19
<1>21. L \subseteq D
  <2>1. L \subseteq ItemsOf(kind)
    BY <1>3, LanesApart
  <2>. QED BY <2>1 DEF ItemsOf
<1>22. PICK G : G = Heard(kind, lnew, caught)
  OBVIOUS
<1>23. G = H \cup heads /\ H \cap heads = {} /\ H \in SUBSET D /\ G \in SUBSET D
  BY <1>20, <1>21, <1>22 DEF Heard, ShardsBehind
<1>24. Honest(told', G)
  <2>1. PICK to, V : to = told' /\ V = H \cup W
    OBVIOUS
  <2>2. V \in SUBSET G
    BY <1>2, <1>16, <1>23, <2>1
  <2>. QED BY <1>23, <2>1, <2>2, HonestGrows
<1>25. PICK P : P = IF ended = 1 THEN heads ELSE heads \ {x}
  OBVIOUS
<1>26. Cardinality(P) = ended + passed
  <2>1. CASE ended = 1
    BY <1>10, <1>11, <1>15, <1>25, <2>1
  <2>2. CASE ended = 0
    <3>1. Cardinality(heads \ {x}) = k - 1
      BY <1>15, <1>16, FS_RemoveElement
    <3>. QED BY <1>10, <1>11, <1>25, <2>2, <3>1
  <2>. QED BY <2>1, <2>2
<1>27. P \subseteq Held(fd) /\ P \subseteq heads
  BY <1>17, <1>25
<1>28. PICK A, B : A = H \cap Held(failed) /\ B = G \cap Held(fd)
  OBVIOUS
<1>29. A \cup P \subseteq B /\ A \cap P = {} /\ B \in SUBSET D /\ B \subseteq Held(fd)
  <2>1. Held(failed) \subseteq Held(fd)
    BY <1>9 DEF Held
  <2>. QED BY <1>23, <1>27, <1>28, <2>1
<1>30. /\ Cardinality(A) \in Nat /\ Cardinality(P) \in Nat /\ Cardinality(B) \in Nat
       /\ Cardinality(A \cup P) <= Cardinality(B)
       /\ Cardinality(A \cup P) = Cardinality(A) + Cardinality(P)
  <2>1. A \in SUBSET D /\ P \in SUBSET D
    BY <1>29
  <2>. QED BY <1>29, <2>1, PartsOfShards, ShardsAdd
<1>31. errors' \in Nat
  BY <1>3, <1>10, <1>14
<1>32. errors' <= Cardinality(B)
  <2>1. PICK a, p, b : a = Cardinality(A) /\ p = Cardinality(P) /\ b = Cardinality(B)
    OBVIOUS
  <2>2. errors <= a /\ a + p <= b /\ a \in Nat /\ b \in Nat /\ p = ended + passed
    BY <1>3, <1>26, <1>28, <1>30, <2>1
  <2>3. errors' <= b
    BY <1>3, <1>10, <1>14, <2>2
  <2>. QED BY <2>1, <2>3
<1>33. Counts(kind, told', errors', failed', G, Left(lnew, caught))
  BY <1>9, <1>28, <1>32 DEF Counts
<1>34. Accounts(lanes', caught', told', errors', failed')
  BY <1>18, <1>19, <1>22, <1>24, <1>33 DEF Accounts
<1>35. outcome' # "none" => Verdict(outcome', failed', lanes')
  <2>1. SUFFICES ASSUME outcome' # "none" PROVE Verdict(outcome', failed', lanes')
    OBVIOUS
  <2>2. NShards - errors' < MinSymbols /\ outcome' = "tooFew"
    BY <1>14, <2>1
  <2>3. Cardinality(B) <= ShardsOf(fd) /\ ShardsOf(fd) \in Nat
    BY <1>29, HeldIsPart, PartsOfShards
  <2>4. PICK er : er = errors'
    OBVIOUS
  <2>5. er \in Nat /\ er <= ShardsOf(fd)
    BY <1>30, <1>31, <1>32, <2>3, <2>4
  <2>6. ~ Enough(Nodes \ fd)
    BY <1>9, <2>2, <2>4, <2>5, SliversTooFew
  <2>. QED BY <1>9, <2>2, <2>6 DEF Verdict
<1>36. failed' \subseteq Nodes
  OBVIOUS
<1>37. UNCHANGED call
  OBVIOUS
<1>. QED BY <1>31, <1>34, <1>35, <1>36, <1>37, TurnKeeps

\* A sliver has come.
LEMMA SliverArrivesKeeps ==
  ASSUME QuorumInv, NEW i, SliverArrives(i) PROVE QuorumInv'
<1>. PICK x, H, W : /\ x = Head(lanes[i]) /\ H = Heard(kind, lanes, caught)
                    /\ W = ShardsBehind(kind, {x})
  OBVIOUS
<1>1. /\ kind = "slivers" /\ Asks(i) /\ "ok" \in MayAnswer(i) /\ UNCHANGED <<call, caught>>
  BY DEF SliverArrives
<1>2. AskedFor(i, x, H, W)
  BY <1>1, Asking
<1>3. /\ Accounts(lanes, caught, told, errors, failed) /\ H \in SUBSET DOMAIN Holder
      /\ QuorumTyped
  BY <1>2 DEF AskedFor, QuorumInv
<1>4. CASE told["ok"] = MinSymbols
  <2>1. outcome' = "ok" /\ UNCHANGED <<lanes, told, errors, failed>>
    BY <1>4 DEF SliverArrives
  <2>2. Honest(told, H) /\ told \in [Tellings -> Nat] /\ errors \in Nat /\ failed \subseteq Nodes
    BY <1>3 DEF Accounts, QuorumTyped
  <2>3. truth # "ok" => told["ok"] <= MaxFaulty
    BY <1>3, <2>2, FewLies DEF Tellings
  <2>4. PICK n \in Nat, f \in Nat, b \in Int : n = NShards /\ f = MaxFaulty /\ b = MinSymbols
    BY Thresholds
  <2>5. b = n - 2 * f /\ 3 * f < n
    BY <2>4, Thresholds
  <2>6. truth = "ok"
    BY <1>4, <2>3, <2>4, <2>5
  <2>7. Verdict(outcome', failed', lanes')
    BY <1>1, <2>1, <2>6 DEF Verdict
  <2>8. outcome' # "none"
    BY <2>1
  <2>. QED BY <1>1, <2>1, <2>2, <2>7, <2>8, TurnKeeps
<1>5. CASE told["ok"] # MinSymbols
  <2>1. Tally(i, "ok") /\ failed' = failed /\ GoOn(i, 0)
    BY <1>5 DEF SliverArrives
  <2>2. told' \in [Tellings -> Nat] /\ Honest(told', H \cup W)
    BY <1>1, <2>1, Answering
  <2>3. failed' \in SUBSET Nodes /\ failed \subseteq failed'
    BY <1>3, <2>1 DEF QuorumTyped
  <2>. QED BY <1>1, <2>1, <2>2, <2>3, SliversGoOn
<1>. QED BY <1>4, <1>5

\* A sliver has not come.
LEMMA SliverFailsKeeps ==
  ASSUME QuorumInv, NEW i, SliverFails(i) PROVE QuorumInv'
<1>. PICK x, H, W : /\ x = Head(lanes[i]) /\ H = Heard(kind, lanes, caught)
                    /\ W = ShardsBehind(kind, {x})
  OBVIOUS
<1>1. /\ kind = "slivers" /\ Asks(i) /\ UNCHANGED <<call, caught>>
  BY DEF SliverFails
<1>2. PICK a \in {"notFound", "blocked", "error"} : Fails(i, a) /\ Tally(i, a)
  BY DEF SliverFails
<1>3. a \in MayAnswer(i) \cup {"error"} /\ failed' = failed \cup {Node(x)}
  BY <1>2 DEF Fails
<1>4. AskedFor(i, x, H, W)
  BY <1>1, Asking
<1>5. /\ H \in SUBSET DOMAIN Holder /\ W \in SUBSET DOMAIN Holder /\ Node(x) \in Nodes
      /\ QuorumTyped /\ failed \in SUBSET Nodes /\ errors \in Nat
  BY <1>4 DEF AskedFor, QuorumInv, QuorumTyped
<1>6. told' \in [Tellings -> Nat] /\ Honest(told', H \cup W)
  BY <1>1, <1>2, <1>3, Answering
<1>7. failed' \in SUBSET Nodes /\ failed \subseteq failed' /\ Node(x) \in failed'
  BY <1>3, <1>5
<1>8. CASE Denied(told')
  <2>1. outcome' = Denial(told') /\ UNCHANGED <<lanes, errors>>
    BY <1>8 DEF SliverFails
  <2>2. PICK to, G : to = told' /\ G = H \cup W
    OBVIOUS
  <2>3. /\ Denial(to) \in {"notCertified", "blocked"}
        /\ Denial(to) = "notCertified" => truth = "notFound"
        /\ Denial(to) = "blocked" => truth = "blocked"
    BY <1>5, <1>6, <1>8, <2>2, DenialIsTrue
  <2>4. outcome' # "none" /\ Verdict(outcome', failed', lanes')
    BY <2>1, <2>2, <2>3 DEF Verdict
  <2>. QED BY <1>1, <1>5, <1>6, <1>7, <2>1, <2>4, TurnKeeps
<1>9. CASE ~ Denied(told')
  <2>1. GoOn(i, 1)
    BY <1>9 DEF SliverFails
  <2>. QED BY <1>1, <1>6, <1>7, <2>1, SliversGoOn
<1>. QED BY <1>8, <1>9

-----------------------------------------------------------------------------
(* The status of a blob.                                                    *)

\* The end of the only request of a lane.
LEMMA LaneEnds ==
  ASSUME QuorumInv, kind \in {"status", "write"}, NEW i, Asks(i), NEW end, LastOf(i, end),
         NEW x, x = Head(lanes[i]),
         NEW H, H = Heard(kind, lanes, caught), NEW W, W = ShardsBehind(kind, {x}),
         NEW L, L = Left(lanes, caught)
  PROVE  /\ Laid(kind, lanes', caught)
         /\ Left(lanes', caught) = L \ {x}
         /\ Heard(kind, lanes', caught) = H \cup W
         /\ outcome' # "none" => /\ outcome' = end /\ L = {x}
                                 /\ \A j \in DOMAIN lanes' : lanes'[j] = <<>>
<1>1. AskedFor(i, x, H, W)
  BY Asking
<1>2. /\ Laid(kind, lanes, caught) /\ i \in DOMAIN lanes \ caught /\ lanes[i] # <<>>
      /\ x \in ToSet(lanes[i]) /\ x \in L
  BY <1>1 DEF AskedFor, Accounts
<1>3. caught = {} /\ Len(lanes[i]) <= 1 /\ lanes[i] \in Seq(ItemsOf(kind))
  BY <1>2, LaneAsks DEF Laid
<1>4. ToSet(lanes[i]) = {x}
  <2>1. PICK s \in Seq(ItemsOf(kind)) : s = lanes[i]
    BY <1>3
  <2>2. PICK n \in Nat : n = Len(s)
    BY LenProperties
  <2>3. ToSet(s) = {s[j] : j \in 1 .. n}
    BY <2>2, ElementsByIndex
  <2>4. n <= 1
    BY <1>3, <2>1, <2>2
  <2>5. \A y \in ToSet(s) : y = s[1]
    BY <2>3, <2>4
  <2>. QED BY <1>2, <2>1, <2>5
<1>5. PICK lnew, k, ln : lnew = lanes' /\ k = kind /\ ln = lanes
  OBVIOUS
<1>6. PICK t, ca : t = <<>> /\ ca = {}
  OBVIOUS
<1>7. t \in Seq(ItemsOf(k)) /\ IsInjective(t) /\ ToSet(t) = {} /\ Len(t) = 0
  BY <1>6, EmptyQueue
<1>8. /\ Laid(k, ln, ca) /\ i \in DOMAIN ln \ ca /\ t \in Seq(ItemsOf(k))
      /\ IsInjective(t) /\ ToSet(t) \subseteq ToSet(ln[i])
      /\ k \in {"status", "write"} => Len(t) <= 1
      /\ LaneIs(ln, i, t, lnew)
  BY <1>2, <1>3, <1>5, <1>6, <1>7 DEF LastOf, LaneIs
<1>9. /\ Laid(k, lnew, ca)
      /\ Left(lnew, ca) = Left(ln, ca) \ (ToSet(ln[i]) \ ToSet(t))
  BY <1>8, LaneGoesOn
<1>10. /\ Laid(kind, lanes', caught)
       /\ Left(lanes', caught) = L \ {x}
  BY <1>3, <1>4, <1>5, <1>6, <1>7, <1>9
<1>11. Heard(kind, lanes', caught) = H \cup W
  <2>1. L \subseteq ItemsOf(kind)
    BY <1>2, LanesApart
  <2>2. PICK none : none = caught
    OBVIOUS
  <2>3. Heard(kind, lnew, none) = Heard(kind, lanes, caught) \cup ShardsBehind(kind, {x})
    BY <1>2, <1>5, <1>10, <2>1, <2>2, MoreIsHeard
  <2>. QED BY <1>5, <2>2, <2>3
<1>12. ASSUME outcome' # "none"
       PROVE  outcome' = end /\ L = {x} /\ \A j \in DOMAIN lanes' : lanes'[j] = <<>>
  <2>1. outcome' = end /\ \A j \in DOMAIN lanes \ {i} : lanes[j] = <<>>
    BY <1>12 DEF LastOf
  <2>2. \A j \in DOMAIN lanes \ {i} : LeftOf(lanes, caught, j) = {}
    BY <1>3, <1>6, <1>7, <2>1 DEF LeftOf
  <2>3. LeftOf(lanes, caught, i) = {x}
    BY <1>3, <1>4 DEF LeftOf
  <2>4. \A y \in L : y = x
    BY <2>2, <2>3 DEF Left
  <2>5. PICK n \in Nat : DOMAIN ln = 1 .. n
    BY <1>2, <1>5, LenProperties DEF Laid
  <2>6. lnew = [ln EXCEPT ![i] = <<>>]
    BY <1>5 DEF LastOf
  <2>7. \A j \in DOMAIN lnew : lnew[j] = <<>>
    BY <1>5, <2>1, <2>6
  <2>. QED BY <1>2, <1>5, <2>1, <2>4, <2>7
<1>. QED BY <1>10, <1>11, <1>12

\* A status has come.
LEMMA StatusArrivesKeeps ==
  ASSUME QuorumInv, NEW i, StatusArrives(i) PROVE QuorumInv'
<1>. PICK x, H, W, L, f, F : /\ x = Head(lanes[i]) /\ H = Heard(kind, lanes, caught)
                             /\ W = ShardsBehind(kind, {x}) /\ L = Left(lanes, caught)
                             /\ f = 2 * MaxFaulty /\ F = Held(failed)
  OBVIOUS
<1>1. kind = "status" /\ Asks(i) /\ UNCHANGED <<call, caught, errors, failed>>
  BY DEF StatusArrives
<1>2. PICK a \in MayAnswer(i) \cap {"ok", "lie"} :
         IF IsQuorum(told["ok"] + told["lie"])
         THEN outcome' \in Verified /\ UNCHANGED <<lanes, told>>
         ELSE Tally(i, a) /\ LastOf(i, "tooFew")
  BY DEF StatusArrives
<1>3. AskedFor(i, x, H, W)
  BY <1>1, Asking
<1>4. /\ Accounts(lanes, caught, told, errors, failed) /\ QuorumTyped
      /\ H \in SUBSET DOMAIN Holder /\ W \in SUBSET DOMAIN Holder /\ W \cap H = {}
      /\ WeightAsked(i) = Cardinality(W) /\ Cardinality(W) \in Nat
      /\ x \in Nodes /\ W = Held({x}) /\ x \notin failed
  BY <1>1, <1>3 DEF AskedFor, QuorumInv
<1>5. /\ Honest(told, H) /\ told \in [Tellings -> Nat] /\ errors' \in Nat
      /\ failed \in SUBSET Nodes /\ failed' = failed
      /\ failed \cap L = {} /\ Cardinality(H \ F) <= told["ok"] + told["lie"]
  BY <1>1, <1>4 DEF Accounts, Counts, QuorumTyped
<1>6. PICK o \in Nat, l \in Nat, m \in Nat : o = told["ok"] /\ l = told["lie"] /\ m = MaxFaulty
  BY <1>5, Thresholds DEF Tellings
<1>7. f = 2 * m
  BY <1>6
<1>8. l <= m /\ (truth # "ok" => o <= m)
  <2>1. truth # "lie"
    BY <1>4 DEF QuorumTyped
  <2>2. told["lie"] <= MaxFaulty
    BY <1>4, <1>5, <2>1, FewLies DEF Tellings
  <2>3. truth # "ok" => told["ok"] <= MaxFaulty
    BY <1>4, <1>5, FewLies DEF Tellings
  <2>. QED BY <1>6, <2>2, <2>3
<1>9. CASE IsQuorum(told["ok"] + told["lie"])
  <2>1. outcome' \in Verified /\ UNCHANGED <<lanes, told>>
    BY <1>2, <1>9
  <2>2. o + l > f
    BY <1>6, <1>7, <1>9 DEF IsQuorum
  <2>3. o > m /\ truth = "ok"
    BY <1>7, <1>8, <2>2
  <2>4. Verified = {"ok"}
    <3>1. IsAboveValidity(told["ok"]) /\ ~ IsAboveValidity(told["lie"])
      BY <1>6, <1>8, <2>3 DEF IsAboveValidity
    <3>. QED BY <3>1 DEF Verified
  <2>5. outcome' # "none" /\ Verdict(outcome', failed', lanes')
    BY <1>1, <2>1, <2>3, <2>4 DEF Verdict
  <2>. QED BY <1>1, <1>5, <2>1, <2>5, TurnKeeps
<1>10. CASE ~ IsQuorum(told["ok"] + told["lie"])
  <2>1. Tally(i, a) /\ LastOf(i, "tooFew")
    BY <1>2, <1>10
  <2>2. told' \in [Tellings -> Nat] /\ Honest(told', H \cup W)
    BY <1>1, <2>1, Answering
  <2>3. o + l <= f
    BY <1>6, <1>7, <1>10 DEF IsQuorum
  <2>4. PICK lnew, G : lnew = lanes' /\ G = H \cup W
    OBVIOUS
  <2>5. /\ Laid(kind, lnew, caught) /\ Left(lnew, caught) = L \ {x}
        /\ Heard(kind, lnew, caught) = G
        /\ outcome' # "none" => /\ outcome' = "tooFew" /\ L = {x}
                                /\ \A j \in DOMAIN lanes' : lanes'[j] = <<>>
    BY <1>1, <2>1, <2>4, LaneEnds
  <2>6. PICK w \in Nat : w = Cardinality(W)
    BY <1>4
  <2>7. told'["ok"] + told'["lie"] = o + l + w
    <3>1. told' = [told EXCEPT ![a] = @ + w] /\ a \in {"ok", "lie"}
      BY <1>2, <1>4, <1>5, <2>1, <2>6 DEF Tally, Tellings
    <3>2. CASE a = "ok"
      <4>1. told'["ok"] = o + w /\ told'["lie"] = l
        BY <1>5, <1>6, <3>1, <3>2 DEF Tellings
      <4>. QED BY <4>1
    <3>3. CASE a = "lie"
      <4>1. told'["ok"] = o /\ told'["lie"] = l + w
        BY <1>5, <1>6, <3>1, <3>3 DEF Tellings
      <4>. QED BY <4>1
    <3>. QED BY <3>1, <3>2, <3>3
  <2>8. PICK A, B, C : A = H \ F /\ B = G \ F /\ C = A \cup W
    OBVIOUS
  <2>9. Cardinality(A) <= o + l /\ Cardinality(A) \in Nat
    BY <1>4, <1>5, <1>6, <2>8, PartsOfShards
  <2>10. Cardinality(B) <= o + l + w
    <3>1. B \subseteq C /\ C \in SUBSET DOMAIN Holder /\ A \in SUBSET DOMAIN Holder /\ A \cap W = {}
      BY <1>4, <2>4, <2>8
    <3>2. /\ Cardinality(B) <= Cardinality(C)
          /\ Cardinality(B) \in Nat
      BY <3>1, PartsOfShards
    <3>3. Cardinality(C) = Cardinality(A) + w
      BY <1>4, <2>6, <2>8, <3>1, ShardsAdd
    <3>. QED BY <2>9, <3>2, <3>3
  <2>11. \A S : S \subseteq A => Cardinality(S) <= f /\ Cardinality(S) \in Nat
    <3>1. SUFFICES ASSUME NEW S, S \subseteq A PROVE Cardinality(S) <= f /\ Cardinality(S) \in Nat
      OBVIOUS
    <3>2. A \in SUBSET DOMAIN Holder
      BY <1>4, <2>8
    <3>3. Cardinality(S) <= Cardinality(A) /\ Cardinality(S) \in Nat
      BY <3>1, <3>2, PartsOfShards
    <3>. QED BY <1>7, <2>3, <2>9, <3>3
  <2>12. \E n \in Nodes : Cardinality(G \ Held(failed \cup {n})) <= f
    <3>1. G \ Held(failed \cup {x}) \subseteq A
      BY <1>4, <2>4, <2>8 DEF Held
    <3>. QED BY <1>4, <2>11, <3>1
  <2>13. Counts(kind, told', errors', failed', G, Left(lnew, caught))
    <3>1. failed \cap Left(lnew, caught) = {}
      BY <1>5, <2>5
    <3>2. Cardinality(G \ Held(failed)) <= told'["ok"] + told'["lie"]
      BY <2>7, <2>8, <2>10
    <3>. QED BY <1>1, <1>5, <2>12, <3>1, <3>2 DEF Counts
  <2>14. Accounts(lanes', caught', told', errors', failed')
    BY <1>1, <2>2, <2>4, <2>5, <2>13 DEF Accounts
  <2>15. outcome' # "none" => Verdict(outcome', failed', lanes')
    <3>1. SUFFICES ASSUME L = {x}, outcome' = "tooFew", \A j \in DOMAIN lanes' : lanes'[j] = <<>>
                   PROVE  Verdict(outcome', failed', lanes')
      BY <2>5
    <3>2. Held(Nodes \ (failed \cup {x})) \subseteq A
      BY <1>1, <2>8, <3>1 DEF Heard, ShardsBehind, Held
    <3>3. ~ IsQuorum(ShardsOf(Nodes \ (failed \cup {x})))
      <4>1. PICK c : c = ShardsOf(Nodes \ (failed \cup {x}))
        OBVIOUS
      <4>2. c \in Nat /\ c <= f
        BY <2>11, <3>2, <4>1 DEF ShardsOf
      <4>. QED BY <1>6, <1>7, <4>1, <4>2 DEF IsQuorum
    <3>4. x \in Nodes \ failed' /\ ~ Enough(Nodes \ (failed' \cup {x}))
      BY <1>1, <1>4, <1>5, <3>3 DEF Enough
    <3>. QED BY <1>1, <3>1, <3>4 DEF Verdict
  <2>. QED BY <1>1, <1>5, <2>2, <2>14, <2>15, TurnKeeps
<1>. QED BY <1>9, <1>10

\* A node does not know of a status, or does not answer.
LEMMA StatusFailsKeeps ==
  ASSUME QuorumInv, NEW i, StatusFails(i) PROVE QuorumInv'
<1>. PICK x, H, W, L, f, F : /\ x = Head(lanes[i]) /\ H = Heard(kind, lanes, caught)
                             /\ W = ShardsBehind(kind, {x}) /\ L = Left(lanes, caught)
                             /\ f = 2 * MaxFaulty /\ F = Held(failed)
  OBVIOUS
<1>1. kind = "status" /\ Asks(i) /\ UNCHANGED <<call, caught, errors>>
  BY DEF StatusFails
<1>2. PICK a \in {"notFound", "error"} : Fails(i, a) /\ Tally(i, a)
  BY DEF StatusFails
<1>3. a \in MayAnswer(i) \cup {"error"} /\ failed' = failed \cup {Node(x)}
  BY <1>2 DEF Fails
<1>4. AskedFor(i, x, H, W)
  BY <1>1, Asking
<1>5. /\ Accounts(lanes, caught, told, errors, failed) /\ QuorumTyped
      /\ H \in SUBSET DOMAIN Holder /\ W \in SUBSET DOMAIN Holder
      /\ x \in Nodes /\ W = Held({x}) /\ x \notin failed /\ Node(x) = x
  BY <1>1, <1>4 DEF AskedFor, QuorumInv
<1>6. /\ told \in [Tellings -> Nat] /\ errors' \in Nat
      /\ failed \in SUBSET Nodes /\ failed' = failed \cup {x} /\ failed' \in SUBSET Nodes
      /\ failed \cap L = {} /\ Cardinality(H \ F) <= told["ok"] + told["lie"]
      /\ \E m \in Nodes : Cardinality(H \ Held(failed \cup {m})) <= f
  BY <1>1, <1>3, <1>5 DEF Accounts, Counts, QuorumTyped
<1>7. told' \in [Tellings -> Nat] /\ Honest(told', H \cup W)
  BY <1>1, <1>2, <1>3, Answering
<1>8. CASE IsQuorum(told'["notFound"])
  <2>1. outcome' = "notCertified" /\ lanes' = lanes
    BY <1>8 DEF StatusFails
  <2>2. PICK to, G : to = told' /\ G = H \cup W
    OBVIOUS
  <2>3. truth # "notFound" => to["notFound"] <= MaxFaulty
    BY <1>5, <1>7, <2>2, FewLies DEF Tellings
  <2>4. PICK c \in Nat, m \in Nat : c = to["notFound"] /\ m = MaxFaulty
    BY <1>7, <2>2, Thresholds DEF Tellings
  <2>5. c > 2 * m
    BY <1>8, <2>2, <2>4 DEF IsQuorum
  <2>6. truth = "notFound"
    BY <2>3, <2>4, <2>5
  <2>7. outcome' # "none" /\ Verdict(outcome', failed', lanes')
    BY <1>1, <2>1, <2>6 DEF Verdict
  <2>. QED BY <1>1, <1>6, <1>7, <2>1, <2>7, TurnKeeps
<1>9. CASE ~ IsQuorum(told'["notFound"])
  <2>1. LastOf(i, "tooFew")
    BY <1>9 DEF StatusFails
  <2>2. PICK lnew, G, fd : lnew = lanes' /\ G = H \cup W /\ fd = failed'
    OBVIOUS
  <2>3. /\ Laid(kind, lnew, caught) /\ Left(lnew, caught) = L \ {x}
        /\ Heard(kind, lnew, caught) = G
        /\ outcome' # "none" => /\ outcome' = "tooFew" /\ L = {x}
                                /\ \A j \in DOMAIN lanes' : lanes'[j] = <<>>
    BY <1>1, <2>1, <2>2, LaneEnds
  <2>4. told'["ok"] = told["ok"] /\ told'["lie"] = told["lie"]
    BY <1>2, <1>6 DEF Tally, Tellings
  <2>5. PICK m \in Nodes : Cardinality(H \ Held(failed \cup {m})) <= f
    BY <1>6
  <2>6. PICK A, B, C : A = H \ F /\ B = G \ Held(fd) /\ C = H \ Held(failed \cup {m})
    OBVIOUS
  <2>7. B \subseteq A /\ A \in SUBSET DOMAIN Holder /\ C \in SUBSET DOMAIN Holder
    BY <1>5, <1>6, <2>2, <2>6 DEF Held
  <2>8. PICK o \in Nat, l \in Nat : o = told["ok"] /\ l = told["lie"]
    BY <1>6 DEF Tellings
  <2>9. Cardinality(B) <= o + l
    <3>1. /\ Cardinality(B) <= Cardinality(A)
          /\ Cardinality(B) \in Nat /\ Cardinality(A) \in Nat
      BY <2>7, PartsOfShards
    <3>2. Cardinality(A) <= o + l
      BY <1>6, <2>6, <2>8
    <3>. QED BY <3>1, <3>2
  <2>10. \A S : S \subseteq C => Cardinality(S) <= f /\ Cardinality(S) \in Nat
    <3>1. SUFFICES ASSUME NEW S, S \subseteq C PROVE Cardinality(S) <= f /\ Cardinality(S) \in Nat
      OBVIOUS
    <3>2. /\ Cardinality(S) <= Cardinality(C) /\ Cardinality(S) \in Nat
          /\ Cardinality(C) \in Nat
      BY <2>7, <3>1, PartsOfShards
    <3>3. Cardinality(C) <= f /\ f \in Nat
      BY <2>5, <2>6, Thresholds
    <3>. QED BY <3>2, <3>3
  <2>11. \E n \in Nodes : Cardinality(G \ Held(fd \cup {n})) <= f
    <3>1. G \ Held(fd \cup {m}) \subseteq C
      BY <1>5, <1>6, <2>2, <2>6 DEF Held
    <3>. QED BY <2>10, <3>1
  <2>12. Counts(kind, told', errors', failed', G, Left(lnew, caught))
    <3>1. failed' \cap Left(lnew, caught) = {}
      BY <1>6, <2>3
    <3>2. Cardinality(G \ Held(fd)) <= told'["ok"] + told'["lie"]
      BY <2>4, <2>6, <2>8, <2>9
    <3>. QED BY <1>1, <2>2, <2>11, <3>1, <3>2 DEF Counts
  <2>13. Accounts(lanes', caught', told', errors', failed')
    BY <1>1, <1>7, <2>2, <2>3, <2>12 DEF Accounts
  <2>14. outcome' # "none" => Verdict(outcome', failed', lanes')
    <3>1. SUFFICES ASSUME L = {x}, outcome' = "tooFew", \A j \in DOMAIN lanes' : lanes'[j] = <<>>
                   PROVE  Verdict(outcome', failed', lanes')
      BY <2>3
    <3>2. Held(Nodes \ (fd \cup {m})) \subseteq C
      BY <1>1, <1>6, <2>2, <2>6, <3>1 DEF Heard, ShardsBehind, Held
    <3>4. ~ IsQuorum(ShardsOf(Nodes \ (fd \cup {m})))
      <4>1. PICK c : c = ShardsOf(Nodes \ (fd \cup {m}))
        OBVIOUS
      <4>2. c \in Nat /\ c <= f
        BY <2>10, <3>2, <4>1 DEF ShardsOf
      <4>. QED BY <4>1, <4>2, Thresholds DEF IsQuorum
    <3>5. ~ Enough(Nodes \ (fd \cup {m}))
      BY <1>1, <3>4 DEF Enough
    <3>6. CASE m \in fd
      <4>1. Nodes \ (fd \cup {m}) = Nodes \ fd
        BY <3>6
      <4>2. ~ Enough(Nodes \ failed')
        BY <2>2, <3>5, <4>1
      <4>. QED BY <3>1, <4>2 DEF Verdict
    <3>7. CASE m \notin fd
      <4>1. m \in Nodes \ failed' /\ ~ Enough(Nodes \ (failed' \cup {m}))
        BY <2>2, <3>5, <3>7
      <4>. QED BY <1>1, <3>1, <4>1 DEF Verdict
    <3>. QED BY <3>6, <3>7
  <2>. QED BY <1>1, <1>6, <1>7, <2>13, <2>14, TurnKeeps
<1>. QED BY <1>8, <1>9

-----------------------------------------------------------------------------
(* Writes.                                                                  *)

\* Without nodes that failed and nodes that lie, more is left than may be faulty.
LEMMA StoredByEnough ==
  ASSUME QuorumTyped, NEW fd \in SUBSET Nodes, ShardsOf(fd) <= MaxFaulty
  PROVE  IsAboveValidity(ShardsOf(Nodes \ (fd \cup faulty)))
<1>1. PICK A, B, S : A = Held(fd) /\ B = Held(faulty) \ A /\ S = fd \cup faulty
  OBVIOUS
<1>2. A \cap B = {} /\ Held(S) = A \cup B /\ A \in SUBSET DOMAIN Holder /\ B \in SUBSET Held(faulty)
  BY <1>1 DEF Held
<1>3. Held(faulty) \in SUBSET DOMAIN Holder /\ ShardsOf(faulty) = Cardinality(Held(faulty))
  BY HeldIsPart
<1>4. /\ Cardinality(A \cup B) = Cardinality(A) + Cardinality(B)
      /\ Cardinality(B) <= ShardsOf(faulty) /\ Cardinality(B) \in Nat /\ ShardsOf(faulty) \in Nat
      /\ Cardinality(A) = ShardsOf(fd) /\ Cardinality(A) \in Nat
  <2>1. B \in SUBSET DOMAIN Holder
    BY <1>2, <1>3
  <2>2. Cardinality(A \cup B) = Cardinality(A) + Cardinality(B)
    BY <1>2, <2>1, ShardsAdd
  <2>3. /\ Cardinality(B) <= Cardinality(Held(faulty)) /\ Cardinality(B) \in Nat
        /\ Cardinality(Held(faulty)) \in Nat
    BY <1>2, <1>3, PartsOfShards
  <2>4. Cardinality(A) = ShardsOf(fd) /\ ShardsOf(fd) \in Nat
    BY <1>1, HeldIsPart
  <2>. QED BY <1>3, <2>2, <2>3, <2>4
<1>5. PICK a \in Nat, b \in Nat, g \in Nat, m \in Nat, n \in Nat :
         /\ a = Cardinality(A) /\ b = Cardinality(B) /\ g = ShardsOf(faulty)
         /\ m = MaxFaulty /\ n = NShards
  BY <1>4, Thresholds
<1>6. a <= m /\ b <= g /\ g <= m /\ 3 * m < n
  BY <1>4, <1>5, Thresholds DEF QuorumTyped
<1>7. S \in SUBSET Nodes /\ ShardsOf(S) = a + b
  BY <1>1, <1>2, <1>4, <1>5 DEF ShardsOf, QuorumTyped
<1>8. PICK r : r = ShardsOf(Nodes \ S)
  OBVIOUS
<1>9. r = n - (a + b)
  BY <1>5, <1>7, <1>8, ShardsOfOthers
<1>10. r > m
  BY <1>6, <1>9
<1>. QED BY <1>1, <1>5, <1>8, <1>10 DEF IsAboveValidity

\* A node has stored its part.
LEMMA StoredKeeps ==
  ASSUME QuorumInv, NEW i, Stored(i) PROVE QuorumInv'
<1>. PICK x, H, W, L : /\ x = Head(lanes[i]) /\ H = Heard(kind, lanes, caught)
                       /\ W = ShardsBehind(kind, {x}) /\ L = Left(lanes, caught)
  OBVIOUS
<1>1. /\ kind = "write" /\ Asks(i) /\ LastOf(i, "ok")
      /\ UNCHANGED <<call, caught, told, errors, failed>>
  BY DEF Stored
<1>2. AskedFor(i, x, H, W)
  BY <1>1, Asking
<1>3. /\ Accounts(lanes, caught, told, errors, failed) /\ QuorumTyped
      /\ H \in SUBSET DOMAIN Holder /\ W \in SUBSET DOMAIN Holder
  BY <1>2 DEF AskedFor, QuorumInv
<1>4. /\ Honest(told, H) /\ told \in [Tellings -> Nat] /\ errors \in Nat /\ failed \in SUBSET Nodes
      /\ failed \cap L = {} /\ errors = ShardsOf(failed) /\ errors <= MaxFaulty
  BY <1>1, <1>3 DEF Accounts, Counts, QuorumTyped
<1>5. PICK lnew, G : lnew = lanes' /\ G = H \cup W
  OBVIOUS
<1>6. /\ Laid(kind, lnew, caught) /\ Left(lnew, caught) = L \ {x}
      /\ Heard(kind, lnew, caught) = G
      /\ outcome' # "none" => outcome' = "ok" /\ L = {x}
  BY <1>1, <1>5, LaneEnds
<1>7. Honest(told, G)
  <2>1. G \in SUBSET DOMAIN Holder /\ H \in SUBSET G
    BY <1>3, <1>5
  <2>. QED BY <1>4, <2>1, HonestGrows
<1>8. Counts(kind, told, errors, failed, G, Left(lnew, caught))
  <2>1. failed \cap Left(lnew, caught) = {}
    BY <1>4, <1>6
  <2>. QED BY <1>1, <1>4, <2>1 DEF Counts
<1>9. Accounts(lanes', caught', told', errors', failed')
  BY <1>1, <1>5, <1>6, <1>7, <1>8 DEF Accounts
<1>10. outcome' # "none" => Verdict(outcome', failed', lanes')
  <2>1. SUFFICES ASSUME outcome' = "ok" PROVE Verdict(outcome', failed', lanes')
    BY <1>6
  <2>2. IsAboveValidity(ShardsOf(Nodes \ (failed \cup faulty)))
    BY <1>3, <1>4, StoredByEnough
  <2>. QED BY <1>1, <2>1, <2>2 DEF Verdict
<1>. QED BY <1>1, <1>4, <1>9, <1>10, TurnKeeps

\* A node has not.
LEMMA StoreFailsKeeps ==
  ASSUME QuorumInv, NEW i, StoreFails(i) PROVE QuorumInv'
<1>. PICK x, H, W, L : /\ x = Head(lanes[i]) /\ H = Heard(kind, lanes, caught)
                       /\ W = ShardsBehind(kind, {x}) /\ L = Left(lanes, caught)
  OBVIOUS
<1>1. /\ kind = "write" /\ Asks(i) /\ failed' = failed \cup {Node(x)}
      /\ errors' = errors + WeightAsked(i)
      /\ UNCHANGED <<call, caught, told>>
  BY DEF StoreFails, Fails
<1>2. AskedFor(i, x, H, W)
  BY <1>1, Asking
<1>3. /\ Accounts(lanes, caught, told, errors, failed) /\ QuorumTyped
      /\ H \in SUBSET DOMAIN Holder /\ W \in SUBSET DOMAIN Holder
      /\ WeightAsked(i) = Cardinality(W) /\ Cardinality(W) \in Nat
      /\ x \in Nodes /\ Node(x) = x /\ W = Held({x}) /\ x \notin failed
  BY <1>1, <1>2 DEF AskedFor, QuorumInv
<1>4. /\ Honest(told, H) /\ told \in [Tellings -> Nat] /\ errors \in Nat /\ failed \in SUBSET Nodes
      /\ failed \cap L = {} /\ errors = ShardsOf(failed) /\ errors <= MaxFaulty
  BY <1>1, <1>3 DEF Accounts, Counts, QuorumTyped
<1>5. PICK lnew, G, fd, er : lnew = lanes' /\ G = H \cup W /\ fd = failed' /\ er = errors'
  OBVIOUS
<1>6. fd = failed \cup {x} /\ fd \in SUBSET Nodes
  BY <1>1, <1>3, <1>4, <1>5
<1>7. er = ShardsOf(fd) /\ er \in Nat
  <2>1. PICK A : A = Held(failed)
    OBVIOUS
  <2>2. A \in SUBSET DOMAIN Holder /\ errors = Cardinality(A)
    BY <1>4, <2>1, HeldIsPart
  <2>3. A \cap W = {} /\ Held(fd) = A \cup W
    BY <1>3, <1>6, <2>1 DEF Held
  <2>4. Cardinality(A \cup W) = Cardinality(A) + Cardinality(W)
    BY <1>3, <2>2, <2>3, ShardsAdd
  <2>5. er = Cardinality(Held(fd))
    BY <1>1, <1>3, <1>5, <2>2, <2>3, <2>4
  <2>. QED BY <2>5, HeldIsPart
<1>8. CASE IsAboveValidity(errors')
  <2>1. outcome' = "tooFew" /\ lanes' = lanes
    BY <1>8 DEF StoreFails
  <2>2. PICK r : r = ShardsOf(Nodes \ fd)
    OBVIOUS
  <2>3. PICK n \in Nat, f \in Nat : n = NShards /\ f = MaxFaulty
    BY Thresholds
  <2>4. r \in Nat /\ r = n - er
    BY <1>6, <1>7, <2>2, <2>3, ShardsOfOthers, HeldIsPart
  <2>5. er > f
    BY <1>5, <1>8, <2>3 DEF IsAboveValidity
  <2>6. ~ r >= n - f
    BY <1>7, <2>3, <2>4, <2>5
  <2>7. ~ Enough(Nodes \ fd)
    BY <1>1, <2>2, <2>3, <2>6 DEF Enough
  <2>8. outcome' # "none" /\ Verdict(outcome', failed', lanes')
    BY <1>5, <2>1, <2>7 DEF Verdict
  <2>. QED BY <1>1, <1>4, <1>5, <1>6, <1>7, <2>1, <2>8, TurnKeeps
<1>9. CASE ~ IsAboveValidity(errors')
  <2>1. LastOf(i, "ok")
    BY <1>9 DEF StoreFails
  <2>2. /\ Laid(kind, lnew, caught) /\ Left(lnew, caught) = L \ {x}
        /\ Heard(kind, lnew, caught) = G
        /\ outcome' # "none" => outcome' = "ok" /\ L = {x}
    BY <1>1, <1>5, <2>1, LaneEnds
  <2>3. Honest(told, G)
    <3>1. G \in SUBSET DOMAIN Holder /\ H \in SUBSET G
      BY <1>3, <1>5
    <3>. QED BY <1>4, <3>1, HonestGrows
  <2>4. er <= MaxFaulty
    <3>1. PICK f \in Nat : f = MaxFaulty
      BY Thresholds
    <3>2. ~ er > f
      BY <1>5, <1>9, <3>1 DEF IsAboveValidity
    <3>3. er <= f
      BY <1>7, <3>2
    <3>. QED BY <3>1, <3>3
  <2>5. Counts(kind, told, er, fd, G, Left(lnew, caught))
    <3>1. fd \cap Left(lnew, caught) = {}
      BY <1>4, <1>6, <2>2
    <3>. QED BY <1>1, <1>7, <2>4, <3>1 DEF Counts
  <2>6. Accounts(lanes', caught', told', errors', failed')
    BY <1>1, <1>5, <2>2, <2>3, <2>5 DEF Accounts
  <2>7. outcome' # "none" => Verdict(outcome', failed', lanes')
    <3>1. SUFFICES ASSUME outcome' = "ok" PROVE Verdict(outcome', failed', lanes')
      BY <2>2
    <3>2. ShardsOf(fd) <= MaxFaulty
      BY <1>7, <2>4
    <3>3. IsAboveValidity(ShardsOf(Nodes \ (fd \cup faulty)))
      BY <1>3, <1>6, <3>2, StoredByEnough
    <3>. QED BY <1>1, <1>5, <3>1, <3>3 DEF Verdict
  <2>. QED BY <1>1, <1>4, <1>5, <1>6, <1>7, <2>6, <2>7, TurnKeeps
<1>. QED BY <1>8, <1>9

-----------------------------------------------------------------------------
(* The lanes a call starts with.                                            *)

\* A place in rows of some length is that of one row and one column.
LEMMA PlacesInRows ==
  ASSUME NEW size \in Nat, NEW a \in 1 .. size, NEW b \in 1 .. size, NEW k \in Nat, NEW l \in Nat,
         a + k * size = b + l * size
  PROVE  a = b /\ k = l
<1>1. ASSUME NEW u \in 1 .. size, NEW v \in 1 .. size, NEW m \in Nat, NEW n \in Nat, m < n
      PROVE  u + m * size # v + n * size
  <2>1. PICK d \in Nat : n = m + 1 + d
    <3>1. n - m - 1 \in Nat /\ n = m + 1 + (n - m - 1)
      BY <1>1
    <3>. QED BY <3>1
  <2>2. n * size = m * size + size + d * size
    BY <2>1
  <2>3. m * size \in Nat /\ d * size \in Nat
    OBVIOUS
  <2>4. PICK p \in Nat, q \in Nat : p = m * size /\ q = d * size
    BY <2>3
  <2>5. u + p # v + (p + size + q)
    BY <1>1
  <2>. QED BY <2>2, <2>4, <2>5
<1>2. k = l
  <2>1. ~ k < l
    BY <1>1
  <2>2. ~ l < k
    BY <1>1
  <2>. QED BY <2>1, <2>2
<1>3. k * size \in Nat
  OBVIOUS
<1>. QED BY <1>2, <1>3

\* How many rows there are.
LEMMA RowsOf ==
  ASSUME NEW n \in Nat, NEW size \in Nat \ {0}
  PROVE  /\ Ceil(n, size) \in Nat
         /\ \A r \in 1 .. Ceil(n, size) : (r - 1) * size < n /\ (r - 1) * size \in Nat
         /\ size = 1 => Ceil(n, size) = n
<1>1. PICK q : q = (n + size - 1) \div size
  OBVIOUS
<1>2. q \in Int /\ q * size <= n + size - 1 /\ n + size - 1 < (q + 1) * size
  BY <1>1
<1>3. q \in Nat
  BY <1>2
<1>4. Ceil(n, size) = q
  BY <1>1 DEF Ceil
<1>5. ASSUME NEW r \in 1 .. q PROVE (r - 1) * size < n /\ (r - 1) * size \in Nat
  <2>1. r * size <= q * size
    BY <1>3, <1>5
  <2>2. (r - 1) * size = r * size - size
    BY <1>5
  <2>3. r - 1 \in Nat
    BY <1>5
  <2>4. (r - 1) * size \in Nat
    BY <2>3
  <2>. QED BY <1>2, <1>3, <2>1, <2>2, <2>4
<1>6. size = 1 => q = n
  BY <1>2
<1>. QED BY <1>3, <1>4, <1>5, <1>6

\* Lanes cut from a sequence of different things: element p of lane i is one of them, at a
\* place that is no other element's.
CutFrom(s, P, ln) ==
  /\ DOMAIN ln = 1 .. Len(ln) /\ Len(ln) \in Nat
  /\ \A i \in 1 .. Len(ln) : \A p \in DOMAIN ln[i] :
        P[i][p] \in 1 .. Len(s) /\ ln[i][p] = s[P[i][p]]
  /\ \A i, j \in 1 .. Len(ln) : \A p \in DOMAIN ln[i], q \in DOMAIN ln[j] :
        P[i][p] = P[j][q] => i = j /\ p = q

\* Such lanes ask for different things.
LEMMA CutLanes ==
  ASSUME NEW S, NEW s \in Seq(S), IsInjective(s), NEW P, NEW ln \in Seq(Seq(S)),
         CutFrom(s, P, ln)
  PROVE  /\ \A i \in DOMAIN ln : IsInjective(ln[i]) /\ ToSet(ln[i]) \subseteq ToSet(s)
         /\ \A i, j \in DOMAIN ln : i # j => ToSet(ln[i]) \cap ToSet(ln[j]) = {}
<1>1. \A a, b \in 1 .. Len(s) : s[a] = s[b] => a = b
  BY DEF IsInjective
<1>2. ASSUME NEW i \in DOMAIN ln, NEW j \in DOMAIN ln,
             NEW p \in DOMAIN ln[i], NEW q \in DOMAIN ln[j], ln[i][p] = ln[j][q]
      PROVE  i = j /\ p = q
  <2>1. i \in 1 .. Len(ln) /\ j \in 1 .. Len(ln)
    BY DEF CutFrom
  <2>2. /\ P[i][p] \in 1 .. Len(s) /\ ln[i][p] = s[P[i][p]]
        /\ P[j][q] \in 1 .. Len(s) /\ ln[j][q] = s[P[j][q]]
    BY <2>1 DEF CutFrom
  <2>3. P[i][p] = P[j][q]
    BY <1>1, <1>2, <2>2
  <2>. QED BY <2>1, <2>3 DEF CutFrom
<1>3. ASSUME NEW i \in DOMAIN ln
      PROVE  IsInjective(ln[i]) /\ ToSet(ln[i]) \subseteq ToSet(s)
  <2>1. IsInjective(ln[i])
    BY <1>2 DEF IsInjective
  <2>2. DOMAIN s = 1 .. Len(s)
    BY ElementsByIndex
  <2>3. ToSet(ln[i]) \subseteq ToSet(s)
    BY <2>2 DEF CutFrom, ToSet
  <2>. QED BY <2>1, <2>3
<1>4. ASSUME NEW i \in DOMAIN ln, NEW j \in DOMAIN ln, i # j
      PROVE  ToSet(ln[i]) \cap ToSet(ln[j]) = {}
  BY <1>2, <1>4 DEF ToSet
<1>. QED BY <1>3, <1>4

\* A chunk of a sequence: the places of its elements.
ChunkAt(s, size, i, c) ==
  /\ c \in Seq(ToSet(s))
  /\ Len(c) <= size
  /\ \A p \in 1 .. Len(c) : /\ (i - 1) * size + p \in 1 .. Len(s)
                            /\ c[p] = s[(i - 1) * size + p]
  /\ size = 1 => Len(c) = 1 /\ c[1] = s[i]

\* Every chunk is one.
LEMMA ChunkIs ==
  ASSUME NEW S, NEW s \in Seq(S), NEW size \in Nat \ {0}, NEW i \in 1 .. Ceil(Len(s), size)
  PROVE  ChunkAt(s, size, i, SubSeq(s, (i - 1) * size + 1, Min({i * size, Len(s)})))
<1>1. PICK n \in Nat : n = Len(s)
  OBVIOUS
<1>2. PICK a \in Nat : a = (i - 1) * size /\ a < n
  BY <1>1, RowsOf
<1>3. i * size = a + size
  BY <1>2, <1>1, RowsOf
<1>4. PICK m : m = Min({i * size, Len(s)})
  OBVIOUS
<1>5. m \in Nat /\ m <= n /\ m <= a + size /\ m > a /\ (size = 1 => m = a + 1)
  <2>1. PICK b \in Nat : b = a + size /\ b = i * size
    BY <1>2, <1>3
  <2>2. PICK T : T = {b, n}
    OBVIOUS
  <2>3. \E t \in T : \A u \in T : t <= u
    <3>1. CASE b <= n
      BY <2>2, <3>1, <1>1, <2>1
    <3>2. CASE n < b
      BY <2>2, <3>2, <1>1, <2>1
    <3>. QED BY <3>1, <3>2, <1>1, <2>1
  <2>4. m \in T /\ \A u \in T : m <= u
    BY <1>1, <1>4, <2>1, <2>2, <2>3 DEF Min
  <2>. QED BY <1>1, <1>2, <2>1, <2>2, <2>4
<1>6. PICK c : c = SubSeq(s, a + 1, m)
  OBVIOUS
<1>7. PICK R : R = ToSet(s)
  OBVIOUS
<1>8. s \in Seq(R)
  BY <1>7, ElementsByIndex
<1>9. /\ c \in Seq(R) /\ Len(c) = m - a
      /\ \A p \in 1 .. (m - a) : c[p] = s[a + p]
  <2>1. \A p \in (a + 1) .. m : s[p] \in R
    BY <1>1, <1>2, <1>5, <1>8
  <2>2. /\ SubSeq(s, a + 1, m) \in Seq(R)
        /\ Len(SubSeq(s, a + 1, m)) = IF a + 1 <= m THEN m - (a + 1) + 1 ELSE 0
        /\ \A p \in 1 .. (m - (a + 1) + 1) : SubSeq(s, a + 1, m)[p] = s[(a + 1) + p - 1]
    BY <1>2, <1>5, <1>8, <2>1, SubSeqProperties
  <2>. QED BY <1>2, <1>5, <1>6, <2>2
<1>10. size = 1 => a + 1 = i
  BY <1>2, RowsOf
<1>11. Len(c) <= size
  BY <1>2, <1>5, <1>9
<1>12. \A p \in 1 .. Len(c) : a + p \in 1 .. n /\ c[p] = s[a + p]
  BY <1>1, <1>2, <1>5, <1>9
<1>13. ASSUME size = 1 PROVE Len(c) = 1 /\ c[1] = s[i]
  <2>1. m - a = 1
    BY <1>2, <1>5, <1>13
  <2>2. Len(c) = 1 /\ c[1] = s[a + 1]
    BY <1>9, <2>1
  <2>. QED BY <1>10, <1>13, <2>2
<1>14. ChunkAt(s, size, i, c)
  BY <1>1, <1>2, <1>7, <1>9, <1>11, <1>12, <1>13 DEF ChunkAt
<1>. QED BY <1>1, <1>2, <1>4, <1>6, <1>14

\* Chunks of a sequence of different things ask for them, each in one place.
LEMMA Chunks ==
  ASSUME NEW S, NEW s \in Seq(S), IsInjective(s), NEW size \in Nat \ {0}
  PROVE  /\ Chunk(s, size) \in Seq(Seq(S))
         /\ \A i \in DOMAIN Chunk(s, size) :
               IsInjective(Chunk(s, size)[i]) /\ ToSet(Chunk(s, size)[i]) \subseteq ToSet(s)
         /\ \A i, j \in DOMAIN Chunk(s, size) :
               i # j => ToSet(Chunk(s, size)[i]) \cap ToSet(Chunk(s, size)[j]) = {}
         /\ size = 1 =>
              /\ \A i \in DOMAIN Chunk(s, size) : Len(Chunk(s, size)[i]) <= 1
              /\ \A x \in ToSet(s) : \E i \in DOMAIN Chunk(s, size) : x \in ToSet(Chunk(s, size)[i])
<1>1. PICK ln, n, m : ln = Chunk(s, size) /\ n = Ceil(Len(s), size) /\ m = Len(s)
  OBVIOUS
<1>2. n \in Nat /\ m \in Nat /\ (size = 1 => n = m)
  BY <1>1, RowsOf
<1>3. \A i \in 1 .. n : ChunkAt(s, size, i, ln[i])
  <2>. SUFFICES ASSUME NEW i \in 1 .. n PROVE ChunkAt(s, size, i, ln[i])
    OBVIOUS
  <2>1. ln[i] = SubSeq(s, (i - 1) * size + 1, Min({i * size, Len(s)}))
    BY <1>1 DEF Chunk
  <2>2. ChunkAt(s, size, i, SubSeq(s, (i - 1) * size + 1, Min({i * size, Len(s)})))
    BY <1>1, ChunkIs
  <2>. QED BY <2>1, <2>2
<1>4. ToSet(s) \subseteq S
  BY ElementsByIndex
<1>5. ln \in Seq(Seq(S)) /\ Len(ln) = n /\ DOMAIN ln = 1 .. n
  <2>1. DOMAIN ln = 1 .. n /\ ln = [i \in 1 .. n |-> ln[i]]
    BY <1>1 DEF Chunk
  <2>2. \A i \in 1 .. n : ln[i] \in Seq(S)
    BY <1>3, <1>4 DEF ChunkAt
  <2>3. ln \in [1 .. n -> Seq(S)]
    BY <2>1, <2>2
  <2>. QED BY <1>2, <2>1, <2>3
<1>. DEFINE P == [i \in 1 .. n |-> [p \in DOMAIN ln[i] |-> (i - 1) * size + p]]
<1>6. \A i \in 1 .. n : /\ DOMAIN ln[i] = 1 .. Len(ln[i]) /\ Len(ln[i]) \in Nat
                        /\ Len(ln[i]) <= size
  BY <1>3 DEF ChunkAt
<1>7. \A i \in 1 .. n : \A p \in DOMAIN ln[i] :
          /\ P[i][p] = (i - 1) * size + p /\ P[i][p] \in 1 .. m
          /\ ln[i][p] = s[P[i][p]] /\ p \in 1 .. size
  BY <1>1, <1>3, <1>6 DEF ChunkAt
<1>. DEFINE At(r, a) == (r - 1) * size + a
<1>8a. ASSUME NEW r \in 1 .. n, NEW t \in 1 .. n, NEW a \in 1 .. size, NEW b \in 1 .. size,
             At(r, a) = At(t, b)
      PROVE  r = t /\ a = b
  <2>1. PICK k \in Nat, l \in Nat : k = r - 1 /\ l = t - 1
    BY <1>2
  <2>2. size \in Nat
    OBVIOUS
  <2>3. a + k * size = b + l * size
    <3>1. k * size + a = l * size + b
      BY <1>8a, <2>1
    <3>2. PICK u \in Nat, v \in Nat : u = k * size /\ v = l * size
      BY <2>1, <2>2
    <3>. QED BY <3>1, <3>2
  <2>4. a = b /\ k = l
    BY <2>2, <2>3, PlacesInRows
  <2>. QED BY <1>2, <2>1, <2>4
<1>8b. \A i \in 1 .. n : \A p \in DOMAIN ln[i] : P[i][p] = At(i, p) /\ p \in 1 .. size
  BY <1>7
<1>. HIDE DEF P, At
<1>8. ASSUME NEW i \in 1 .. n, NEW j \in 1 .. n, NEW p \in DOMAIN ln[i], NEW q \in DOMAIN ln[j],
             P[i][p] = P[j][q]
      PROVE  i = j /\ p = q
  BY <1>8a, <1>8b, <1>8
<1>9. CutFrom(s, P, ln)
  <2>1. Len(ln) = n /\ n \in Nat /\ DOMAIN ln = 1 .. n /\ Len(s) = m
    BY <1>1, <1>2, <1>5
  <2>2. \A i \in 1 .. n : \A p \in DOMAIN ln[i] : P[i][p] \in 1 .. m /\ ln[i][p] = s[P[i][p]]
    BY <1>7
  <2>3. \A i, j \in 1 .. n : \A p \in DOMAIN ln[i], q \in DOMAIN ln[j] :
            P[i][p] = P[j][q] => i = j /\ p = q
    BY <1>8
  <2>. QED BY <2>1, <2>2, <2>3 DEF CutFrom
<1>10. /\ \A i \in DOMAIN ln : IsInjective(ln[i]) /\ ToSet(ln[i]) \subseteq ToSet(s)
       /\ \A i, j \in DOMAIN ln : i # j => ToSet(ln[i]) \cap ToSet(ln[j]) = {}
  BY <1>5, <1>9, CutLanes
<1>11. ASSUME size = 1
       PROVE  /\ \A i \in DOMAIN ln : Len(ln[i]) <= 1
              /\ \A x \in ToSet(s) : \E i \in DOMAIN ln : x \in ToSet(ln[i])
  <2>1. \A i \in 1 .. n : Len(ln[i]) = 1 /\ ln[i][1] = s[i] /\ 1 \in DOMAIN ln[i]
    BY <1>3, <1>6, <1>11 DEF ChunkAt
  <2>2. \A i \in DOMAIN ln : Len(ln[i]) <= 1
    <3>1. \A i \in 1 .. n : Len(ln[i]) <= 1
      BY <1>6, <1>11
    <3>. QED BY <1>5, <3>1
  <2>3. ASSUME NEW x \in ToSet(s) PROVE \E i \in DOMAIN ln : x \in ToSet(ln[i])
    <3>1. PICK i \in 1 .. n : x = s[i]
      BY <1>1, <1>2, <1>11, ElementsByIndex
    <3>2. x \in ToSet(ln[i])
      BY <2>1, <3>1 DEF ToSet
    <3>. QED BY <1>5, <3>2
  <2>. QED BY <2>2, <2>3
<1>. QED BY <1>1, <1>5, <1>10, <1>11

\* The first node has failed: the others are asked in lanes.
LEMMA StartLanesKeeps ==
  ASSUME QuorumInv, StartLanes PROVE QuorumInv'
<1>1. /\ kind = "metadata" /\ outcome = "none" /\ caught # {} /\ FirstAttempt
      /\ caught' = {} /\ UNCHANGED <<call, told, errors, failed>>
  BY DEF StartLanes
<1>2. /\ Accounts(lanes, caught, told, errors, failed) /\ QuorumTyped
      /\ told \in [Tellings -> Nat] /\ errors \in Nat /\ failed \in SUBSET Nodes
      /\ limit \in Nat \ {0}
  BY <1>1, QuorumsAssumption DEF QuorumInv, QuorumTyped
<1>3. /\ lanes \in Seq(Seq(Nodes)) /\ caught \subseteq DOMAIN lanes
      /\ \A i \in caught : lanes[i] # <<>>
      /\ \A i \in DOMAIN lanes : IsInjective(lanes[i])
      /\ Honest(told, Heard("metadata", lanes, caught))
      /\ failed \cap Left(lanes, caught) = {} /\ errors <= Cardinality(failed)
  BY <1>1, <1>2 DEF Accounts, Laid, Counts, ItemsOf
<1>4. DOMAIN lanes = {1} /\ caught = {1}
  BY <1>1, <1>3 DEF FirstAttempt
<1>5. PICK t : t = Tail(lanes[1])
  OBVIOUS
<1>6. t \in Seq(Nodes) /\ IsInjective(t)
  <2>1. lanes[1] \in Seq(Nodes) /\ lanes[1] # <<>> /\ IsInjective(lanes[1])
    BY <1>3, <1>4
  <2>. QED BY <1>5, <2>1, ServeHead
<1>7. Left(lanes, caught) = ToSet(t)
  BY <1>4, <1>5 DEF Left, LeftOf
<1>8. PICK size : size = ExecutorsLeft \div limit
  OBVIOUS
<1>9. size \in Nat
  <2>1. PICK c \in Nat : c = Cardinality(Nodes)
    BY QuorumsAssumption, FS_CardinalityType
  <2>2. c # 0
    BY <2>1, QuorumsAssumption, FS_EmptySet
  <2>3. PICK e \in Nat : e = ExecutorsLeft
    BY <2>1, <2>2 DEF ExecutorsLeft
  <2>. QED BY <1>2, <1>8, <2>3
<1>10. CASE size = 0
  <2>1. outcome' = "rangeError"
    BY <1>8, <1>10 DEF StartLanes
  <2>2. outcome' # "none" /\ Verdict(outcome', failed', lanes')
    BY <2>1 DEF Verdict
  <2>. QED BY <1>1, <1>2, <2>2, TurnKeeps
<1>11. CASE size # 0
  <2>1. PICK ln, none : ln = Chunk(t, size) /\ none = caught'
    OBVIOUS
  <2>2. lanes' = ln /\ outcome' = "none" /\ none = {}
    BY <1>1, <1>5, <1>8, <1>11, <2>1 DEF StartLanes
  <2>3. /\ ln \in Seq(Seq(Nodes))
        /\ \A i \in DOMAIN ln : IsInjective(ln[i]) /\ ToSet(ln[i]) \subseteq ToSet(t)
        /\ \A i, j \in DOMAIN ln : i # j => ToSet(ln[i]) \cap ToSet(ln[j]) = {}
    <3>1. size \in Nat \ {0}
      BY <1>9, <1>11
    <3>. QED BY <1>6, <2>1, <3>1, Chunks
  <2>4. Laid(kind, ln, none)
    BY <1>1, <2>2, <2>3 DEF Laid, ItemsOf
  <2>5. Left(ln, none) \subseteq Left(lanes, caught)
    BY <1>7, <2>2, <2>3 DEF Left, LeftOf
  <2>6. PICK G, H : G = Heard(kind, ln, none) /\ H = Heard(kind, lanes, caught)
    OBVIOUS
  <2>7. G \in SUBSET DOMAIN Holder /\ H \in SUBSET G
    BY <1>1, <2>5, <2>6 DEF Heard, ShardsBehind, Held
  <2>8. Honest(told, G)
    BY <1>1, <1>2, <1>3, <2>6, <2>7, HonestGrows
  <2>9. Counts(kind, told, errors, failed, G, Left(ln, none))
    BY <1>1, <1>3, <2>5 DEF Counts
  <2>10. Accounts(ln, none, told, errors, failed)
    BY <2>4, <2>6, <2>8, <2>9 DEF Accounts
  <2>11. Accounts(lanes', caught', told', errors', failed')
    BY <1>1, <2>1, <2>2, <2>10
  <2>. QED BY <1>1, <1>2, <2>2, <2>11, TurnKeeps
<1>. QED BY <1>10, <1>11

\* There is a sequence of the shards of a set.
LEMMA SomeOrder ==
  ASSUME NEW S, IsFiniteSet(S)
  PROVE  SetToSeq(S) \in Seq(S) /\ IsInjective(SetToSeq(S)) /\ ToSet(SetToSeq(S)) = S
<1>1. PICK n \in Nat : n = Cardinality(S)
  BY FS_CardinalityType
<1>2. PICK f : f \in Bijection(1 .. n, S)
  BY <1>1, FS_CardinalityType DEF ExistsBijection
<1>3. f \in [1 .. n -> S] /\ IsInjective(f)
  BY <1>2, Zenon DEF Bijection, Injection, Surjection, IsInjective
<1>4. \E g \in [1 .. Cardinality(S) -> S] : IsInjective(g)
  BY <1>1, <1>3
<1>5. PICK g : g = SetToSeq(S)
  OBVIOUS
<1>6. g \in [1 .. Cardinality(S) -> S] /\ IsInjective(g)
  BY <1>4, <1>5 DEF SetToSeq
<1>7. g \in SetToSeqs(S)
  BY <1>6 DEF SetToSeqs, IsInjective
<1>. QED BY <1>5, <1>7, SequencesOfSet

\* The shards of nodes in the order of the nodes, and after so many of them.
ShardsInOrder(order) == FoldLeft(LAMBDA s, m : s \o SetToSeq(Held({m})), <<>>, order)
InOrder(order, n, P) ==
  /\ P \in [0 .. n -> Seq(DOMAIN Holder)]
  /\ P[0] = <<>>
  /\ \A k \in 1 .. n : P[k] = P[k - 1] \o SetToSeq(Held({order[k]}))
  /\ ShardsInOrder(order) = P[n]

\* Nodes are taken from the first to the last.
LEMMA NodesInOrder ==
  ASSUME NEW order, NEW n \in Nat, DOMAIN order = 1 .. n
  PROVE  \E P : InOrder(order, n, P)
<1>. DEFINE A == Seq(DOMAIN Holder)
            S == 1 .. n
            More(a, i) == a \o SetToSeq(Held({order[i]}))
            step == [a \in A |-> [i \in S |-> More(a, i)]]
            pick == [T \in SUBSET S |-> Max(T)]
            Is(h) == h = [T \in SUBSET S |->
                            IF T = {} THEN <<>> ELSE LET i == Max(T) IN More(h[T \ {i}], i)]
<1>1. ShardsInOrder(order) = (CHOOSE h : Is(h))[S]
  BY DEF ShardsInOrder, FoldLeft, MapThenFoldSet
<1>2. ASSUME NEW a \in A, NEW i \in S PROVE More(a, i) \in A
  <2>1. PICK q : q = SetToSeq(Held({order[i]}))
    OBVIOUS
  <2>2. Held({order[i]}) \in SUBSET DOMAIN Holder
    BY HeldIsPart
  <2>3. IsFiniteSet(Held({order[i]}))
    BY <2>2, PartsOfShards
  <2>4. q \in Seq(Held({order[i]}))
    BY <2>1, <2>3, SomeOrder
  <2>5. q \in Seq(DOMAIN Holder)
    BY <2>2, <2>4
  <2>. QED BY <2>1, <2>5
<1>. HIDE DEF More
<1>3. <<>> \in A
  OBVIOUS
<1>4. step \in [A -> [S -> A]]
  BY <1>2
<1>5. Picks(pick, S)
  BY MaxIsGreatest DEF Picks
<1>6. IsFiniteSet(S)
  BY FS_Interval
<1>7. PICK g1 : Folds(step, pick, <<>>, g1, S, A)
  <2>. HIDE DEF S, A, step, pick
  <2>. QED BY <1>3, <1>4, <1>5, <1>6, FoldsExist
<1>8. ASSUME NEW T \in SUBSET S
      PROVE  FoldStep(step, pick, <<>>, g1, T) =
               IF T = {} THEN <<>> ELSE LET i == Max(T) IN More(g1[T \ {i}], i)
  <2>1. CASE T = {}
    BY <2>1 DEF FoldStep
  <2>2. CASE T # {}
    <3>1. Max(T) \in T /\ Max(T) \in S /\ pick[T] = Max(T)
      BY <2>2, MaxIsGreatest
    <3>2. g1[T \ {Max(T)}] \in A
      BY <1>7, <3>1 DEF Folds
    <3>3. step[g1[T \ {Max(T)}]][Max(T)] = More(g1[T \ {Max(T)}], Max(T))
      BY <3>1, <3>2
    <3>. HIDE DEF A, S, step, pick
    <3>. QED BY <2>2, <3>1, <3>3 DEF FoldStep
  <2>. QED BY <2>1, <2>2
<1>9. Is(g1)
  <2>. HIDE DEF A, step, pick, S
  <2>. QED BY <1>7, <1>8 DEF Folds
<1>10. PICK h : h = CHOOSE k : Is(k)
  OBVIOUS
<1>11. Is(h)
  <2>. HIDE DEF Is
  <2>. QED BY <1>9, <1>10
<1>. DEFINE H(T) == IF T = {} THEN <<>> ELSE LET i == Max(T) IN More(h[T \ {i}], i)
<1>12. \A T \in SUBSET S : h[T] = H(T)
  <2>. HIDE DEF S
  <2>. QED BY <1>11
<1>13. \A T \in SUBSET S : h[T] \in A
  <2>. DEFINE Bad == {T \in SUBSET S : h[T] \notin A}
  <2>. SUFFICES ASSUME Bad # {} PROVE FALSE
    OBVIOUS
  <2>1. PICK T \in Bad : \A V \in Bad : V \subseteq T => V = T
    <3>1. Bad \in SUBSET SUBSET S
      OBVIOUS
    <3>. HIDE DEF Bad, S
    <3>. QED BY <1>6, <3>1, MinimalSubset
  <2>2. T \in SUBSET S /\ h[T] \notin A /\ h[T] = H(T)
    BY <1>12
  <2>3. T # {}
    BY <2>2, <1>3
  <2>4. Max(T) \in T /\ Max(T) \in S
    BY <2>2, <2>3, MaxIsGreatest
  <2>5. h[T \ {Max(T)}] \in A
    <3>. HIDE DEF A
    <3>. QED BY <2>1, <2>2, <2>4
  <2>6. More(h[T \ {Max(T)}], Max(T)) \in A
    <3>. HIDE DEF S
    <3>. QED BY <1>2, <2>4, <2>5
  <2>. HIDE DEF A, S
  <2>. QED BY <2>2, <2>3, <2>6
<1>. DEFINE P == [k \in 0 .. n |-> h[1 .. k]]
<1>14. \A k \in 0 .. n : 1 .. k \in SUBSET S
  OBVIOUS
<1>15. P \in [0 .. n -> A]
  BY <1>13, <1>14
<1>16. P[0] = <<>>
  <2>1. 1 .. 0 = {} /\ 0 \in 0 .. n
    OBVIOUS
  <2>2. P[0] = h[{}]
    BY <2>1
  <2>3. h[{}] = <<>>
    BY <1>12
  <2>. QED BY <2>2, <2>3
<1>17. ASSUME NEW k \in 1 .. n
       PROVE  P[k] = P[k - 1] \o SetToSeq(Held({order[k]}))
  <2>1. /\ 1 .. k \in SUBSET S /\ 1 .. k # {}
        /\ Max(1 .. k) = k /\ (1 .. k) \ {k} = 1 .. (k - 1)
    BY MaxOfInterval
  <2>2. h[1 .. k] = H(1 .. k)
    <3>. HIDE DEF H
    <3>. QED BY <1>12, <2>1
  <2>3. H(1 .. k) = More(h[1 .. (k - 1)], k)
    BY <2>1
  <2>4. k \in 0 .. n /\ k - 1 \in 0 .. n
    OBVIOUS
  <2>5. P[k] = h[1 .. k] /\ P[k - 1] = h[1 .. (k - 1)]
    BY <2>4
  <2>. QED BY <2>2, <2>3, <2>5 DEF More
<1>18. P[n] = ShardsInOrder(order)
  <2>1. n \in 0 .. n
    OBVIOUS
  <2>. HIDE DEF Is
  <2>. QED BY <1>1, <1>10, <2>1
<1>. HIDE DEF P
<1>. QED BY <1>15, <1>16, <1>17, <1>18 DEF InOrder

\* Every shard is in the order, once.
LEMMA AllShardsInOrder ==
  ASSUME NEW order \in SetToSeqs(Nodes)
  PROVE  /\ ShardsInOrder(order) \in Seq(DOMAIN Holder) /\ IsInjective(ShardsInOrder(order))
         /\ Len(ShardsInOrder(order)) = NShards
<1>1. order \in Seq(Nodes) /\ IsInjective(order) /\ ToSet(order) = Nodes
  BY QuorumsAssumption, SequencesOfSet
<1>2. PICK n \in Nat : n = Len(order) /\ DOMAIN order = 1 .. n
  BY <1>1
<1>3. PICK P : InOrder(order, n, P)
  BY <1>2, NodesInOrder
<1>. DEFINE First(k) == {order[i] : i \in 1 .. k}
            Good(k) == /\ P[k] \in Seq(DOMAIN Holder) /\ IsInjective(P[k])
                       /\ ToSet(P[k]) = Held(First(k))
            Bad == {k \in Nat : k \in 0 .. n /\ ~ Good(k)}
<1>4. Good(0)
  <2>1. P[0] = <<>>
    BY <1>3, Zenon DEF InOrder
  <2>2. Held(First(0)) = {}
    BY DEF Held
  <2>. QED BY <2>1, <2>2, EmptyQueue
<1>5. ASSUME NEW k \in 1 .. n, Good(k - 1)
      PROVE  Good(k)
  <2>1. PICK q, m, p, F : /\ m = order[k] /\ q = SetToSeq(Held({m})) /\ p = P[k - 1]
                          /\ F = First(k - 1)
    OBVIOUS
  <2>2. P[k] = p \o q
    BY <1>3, <2>1, Zenon DEF InOrder
  <2>3. m \in Nodes /\ m \notin F /\ First(k) = F \cup {m}
    <3>1. \A i, j \in 1 .. n : order[i] = order[j] => i = j
      BY <1>1, <1>2 DEF IsInjective
    <3>2. m \in Nodes
      BY <1>1, <1>2, <2>1
    <3>3. m \notin F
      BY <2>1, <3>1
    <3>4. 1 .. k = (1 .. (k - 1)) \cup {k}
      OBVIOUS
    <3>5. First(k) = F \cup {m}
      BY <2>1, <3>4
    <3>. QED BY <3>2, <3>3, <3>5
  <2>4. q \in Seq(Held({m})) /\ IsInjective(q) /\ ToSet(q) = Held({m})
    <3>1. Held({m}) \in SUBSET DOMAIN Holder
      BY HeldIsPart
    <3>2. IsFiniteSet(Held({m}))
      BY <3>1, PartsOfShards
    <3>. QED BY <2>1, <3>2, SomeOrder
  <2>5. q \in Seq(DOMAIN Holder)
    <3>1. PICK R : R = Held({m})
      OBVIOUS
    <3>2. R \in SUBSET DOMAIN Holder
      BY <3>1, HeldIsPart
    <3>3. q \in Seq(R)
      BY <2>4, <3>1
    <3>. QED BY <3>2, <3>3
  <2>6. p \in Seq(DOMAIN Holder) /\ IsInjective(p) /\ ToSet(p) = Held(F)
    BY <1>5, <2>1
  <2>7. Held(F) \cap Held({m}) = {} /\ Held(F \cup {m}) = Held(F) \cup Held({m})
    BY <2>3 DEF Held
  <2>8. /\ p \o q \in Seq(DOMAIN Holder) /\ IsInjective(p \o q)
        /\ ToSet(p \o q) = ToSet(p) \cup ToSet(q)
    <3>1. ToSet(p) \cap ToSet(q) = {}
      BY <2>4, <2>6, <2>7
    <3>2. PICK D : D = DOMAIN Holder
      OBVIOUS
    <3>3. p \in Seq(D) /\ q \in Seq(D) /\ IsInjective(p) /\ IsInjective(q)
      BY <2>4, <2>5, <2>6, <3>2
    <3>4. /\ p \o q \in Seq(D) /\ IsInjective(p \o q)
          /\ ToSet(p \o q) = ToSet(p) \cup ToSet(q)
      BY <3>1, <3>3, JoinQueues
    <3>. QED BY <3>2, <3>4
  <2>. HIDE DEF First
  <2>. QED BY <2>2, <2>3, <2>4, <2>6, <2>7, <2>8
<1>6. Bad = {}
  <2>. SUFFICES ASSUME Bad # {} PROVE FALSE
    OBVIOUS
  <2>1. PICK k \in Bad : \A l \in Bad : k <= l
    BY LeastNumber
  <2>. HIDE DEF Good
  <2>2. k \in 1 .. n /\ ~ Good(k)
    BY <2>1, <1>4
  <2>3. k - 1 \in Nat /\ k - 1 \in 0 .. n /\ ~ k <= k - 1
    BY <2>2
  <2>4. Good(k - 1)
    BY <2>1, <2>3
  <2>. QED BY <1>5, <2>2, <2>4
<1>7. Good(n)
  <2>1. n \in 0 .. n
    OBVIOUS
  <2>. HIDE DEF Good
  <2>. QED BY <1>6, <2>1
<1>8. First(n) = Nodes
  BY <1>1, <1>2 DEF ToSet
<1>9. Held(Nodes) = DOMAIN Holder
  BY QuorumsAssumption DEF Held
<1>10. PICK s : s = ShardsInOrder(order)
  OBVIOUS
<1>11. s = P[n]
  BY <1>3, <1>10, Zenon DEF InOrder
<1>12. s \in Seq(DOMAIN Holder) /\ IsInjective(s) /\ ToSet(s) = DOMAIN Holder
  <2>. HIDE DEF First
  <2>. QED BY <1>7, <1>8, <1>9, <1>11
<1>13. Len(s) = NShards
  <2>1. PICK c \in Nat : c = Len(s) /\ DOMAIN s = 1 .. c
    BY <1>12
  <2>2. s \in [1 .. c -> DOMAIN Holder]
    BY <1>12, <2>1
  <2>3. s \in Bijection(1 .. c, DOMAIN Holder)
    <3>1. \A t \in DOMAIN Holder : \E i \in 1 .. c : s[i] = t
      BY <1>12, <2>1 DEF ToSet
    <3>. QED BY <1>12, <2>2, <3>1 DEF Bijection, Injection, Surjection, IsInjective
  <2>4. Cardinality(DOMAIN Holder) = c
    BY <2>3, FS_CountingElements DEF ExistsBijection
  <2>. QED BY <2>1, <2>4 DEF NShards
<1>. QED BY <1>10, <1>12, <1>13

\* A lane for each column of the rows of shards.
LEMMA ColumnLanes ==
  ASSUME NEW order \in SetToSeqs(Nodes)
  PROVE  /\ Columns(order) \in Seq(Seq(DOMAIN Holder))
         /\ \A i \in DOMAIN Columns(order) : IsInjective(Columns(order)[i])
         /\ \A i, j \in DOMAIN Columns(order) :
               i # j => ToSet(Columns(order)[i]) \cap ToSet(Columns(order)[j]) = {}
<1>1. PICK s, n, m : s = ShardsInOrder(order) /\ n = NShards /\ m = MinSymbols
  OBVIOUS
<1>2. s \in Seq(DOMAIN Holder) /\ IsInjective(s) /\ Len(s) = n
  BY <1>1, AllShardsInOrder
<1>3. n \in Nat /\ m \in Nat \ {0} /\ m <= n
  <2>1. PICK f \in Nat : f = MaxFaulty
    BY Thresholds
  <2>. QED BY <1>1, <2>1, Thresholds
<1>. DEFINE rows == [c \in 1 .. m |-> Ceil(n - c + 1, m)]
            At(c, r) == c + (r - 1) * m
<1>4. ASSUME NEW c \in 1 .. m
      PROVE  rows[c] \in Nat /\ \A r \in 1 .. rows[c] : At(c, r) \in 1 .. n /\ (r - 1) * m \in Nat
  <2>1. PICK k \in Nat : k = n - c + 1
    BY <1>3
  <2>2. /\ Ceil(k, m) \in Nat
        /\ \A r \in 1 .. Ceil(k, m) : (r - 1) * m < k /\ (r - 1) * m \in Nat
    BY <1>3, RowsOf
  <2>3. rows[c] = Ceil(k, m)
    BY <2>1
  <2>4. ASSUME NEW r \in 1 .. rows[c] PROVE At(c, r) \in 1 .. n /\ (r - 1) * m \in Nat
    <3>1. PICK p \in Nat : p = (r - 1) * m /\ p < k
      BY <2>2, <2>3
    <3>. QED BY <1>3, <2>1, <3>1
  <2>. QED BY <2>2, <2>3, <2>4
<1>5. PICK ln : ln = Columns(order)
  OBVIOUS
<1>6. ln = [c \in 1 .. m |-> [r \in 1 .. rows[c] |-> s[At(c, r)]]]
  BY <1>1, <1>5 DEF Columns, ShardsInOrder
<1>. HIDE DEF rows
<1>7. \A c \in 1 .. m : DOMAIN ln[c] = 1 .. rows[c]
  BY <1>6
<1>8. \A c \in 1 .. m : \A r \in 1 .. rows[c] : ln[c][r] = s[At(c, r)]
  BY <1>6
<1>9. \A c \in 1 .. m : ln[c] \in Seq(DOMAIN Holder)
  <2>. TAKE c \in 1 .. m
  <2>1. \A r \in 1 .. rows[c] : s[At(c, r)] \in DOMAIN Holder
    BY <1>2, <1>4
  <2>2. ln[c] = [r \in 1 .. rows[c] |-> s[At(c, r)]]
    BY <1>6
  <2>3. PICK k \in Nat : k = rows[c]
    BY <1>4
  <2>4. ln[c] \in [1 .. k -> DOMAIN Holder]
    BY <2>1, <2>2, <2>3
  <2>. QED BY <2>4
<1>10. ln \in Seq(Seq(DOMAIN Holder)) /\ Len(ln) = m /\ DOMAIN ln = 1 .. m
  <2>1. ln \in [1 .. m -> Seq(DOMAIN Holder)]
    BY <1>6, <1>9
  <2>. QED BY <1>3, <2>1
<1>. DEFINE P == [c \in 1 .. m |-> [r \in 1 .. rows[c] |-> At(c, r)]]
<1>11. \A c \in 1 .. m : \A r \in DOMAIN ln[c] :
           P[c][r] = At(c, r) /\ P[c][r] \in 1 .. n /\ ln[c][r] = s[P[c][r]]
  BY <1>4, <1>7, <1>8
<1>12. ASSUME NEW c \in 1 .. m, NEW d \in 1 .. m, NEW r \in DOMAIN ln[c], NEW q \in DOMAIN ln[d],
              P[c][r] = P[d][q]
       PROVE  c = d /\ r = q
  <2>1. r \in 1 .. rows[c] /\ q \in 1 .. rows[d] /\ rows[c] \in Nat /\ rows[d] \in Nat
    BY <1>4, <1>7
  <2>2. PICK k \in Nat, l \in Nat : k = r - 1 /\ l = q - 1
    BY <2>1
  <2>3. c + k * m = d + l * m
    BY <1>11, <1>12, <2>2
  <2>4. c = d /\ k = l
    BY <1>3, <2>3, PlacesInRows
  <2>. QED BY <2>1, <2>2, <2>4
<1>. HIDE DEF P
<1>13. CutFrom(s, P, ln)
  <2>1. Len(ln) = m /\ m \in Nat /\ DOMAIN ln = 1 .. m /\ Len(s) = n
    BY <1>2, <1>3, <1>10
  <2>2. \A i \in 1 .. m : \A p \in DOMAIN ln[i] : P[i][p] \in 1 .. n /\ ln[i][p] = s[P[i][p]]
    BY <1>11
  <2>3. \A i, j \in 1 .. m : \A p \in DOMAIN ln[i], q \in DOMAIN ln[j] :
            P[i][p] = P[j][q] => i = j /\ p = q
    BY <1>12
  <2>. QED BY <2>1, <2>2, <2>3 DEF CutFrom
<1>14. /\ \A i \in DOMAIN ln : IsInjective(ln[i]) /\ ToSet(ln[i]) \subseteq ToSet(s)
       /\ \A i, j \in DOMAIN ln : i # j => ToSet(ln[i]) \cap ToSet(ln[j]) = {}
  BY <1>2, <1>10, <1>13, CutLanes
<1>. QED BY <1>5, <1>10, <1>14

\* The lanes a call starts with.
LEMMA FirstLanes ==
  ASSUME NEW order \in SetToSeqs(Nodes), NEW k \in Kinds, NEW ln, ln = Lanes(k, order)
  PROVE  /\ Laid(k, ln, {})
         /\ k = "status" => Heard(k, ln, {}) = {}
<1>1. order \in Seq(Nodes) /\ IsInjective(order) /\ ToSet(order) = Nodes
  BY QuorumsAssumption, SequencesOfSet
<1>2. CASE k = "metadata"
  <2>1. ln = <<order>>
    BY <1>2 DEF Lanes
  <2>2. ln \in Seq(Seq(Nodes)) /\ DOMAIN ln = {1} /\ ln[1] = order
    BY <1>1, <2>1
  <2>. QED BY <1>1, <1>2, <2>2 DEF Laid, ItemsOf
<1>3. CASE k = "slivers"
  <2>1. ln = Columns(order)
    BY <1>3 DEF Lanes
  <2>2. /\ ln \in Seq(Seq(DOMAIN Holder)) /\ \A i \in DOMAIN ln : IsInjective(ln[i])
        /\ \A i, j \in DOMAIN ln : i # j => ToSet(ln[i]) \cap ToSet(ln[j]) = {}
    BY <2>1, ColumnLanes
  <2>. QED BY <1>3, <2>2 DEF Laid, ItemsOf
<1>4. CASE k \in {"status", "write"}
  <2>1. ln = Chunk(order, 1)
    BY <1>4 DEF Lanes
  <2>2. /\ ln \in Seq(Seq(Nodes)) /\ \A i \in DOMAIN ln : IsInjective(ln[i])
        /\ \A i, j \in DOMAIN ln : i # j => ToSet(ln[i]) \cap ToSet(ln[j]) = {}
        /\ \A i \in DOMAIN ln : Len(ln[i]) <= 1
        /\ \A x \in Nodes : \E i \in DOMAIN ln : x \in ToSet(ln[i])
    <3>1. PICK one : one = 1
      OBVIOUS
    <3>2. one \in Nat \ {0} /\ ln = Chunk(order, one)
      BY <2>1, <3>1
    <3>. QED BY <1>1, <3>1, <3>2, Chunks
  <2>3. Laid(k, ln, {})
    BY <1>4, <2>2 DEF Laid, ItemsOf
  <2>4. Nodes \subseteq Left(ln, {})
    BY <2>2 DEF Left, LeftOf
  <2>5. Heard(k, ln, {}) = {}
    BY <1>4, <2>4, QuorumsAssumption DEF Heard, ShardsBehind, Held
  <2>. QED BY <2>3, <2>5
<1>. QED BY <1>2, <1>3, <1>4 DEF Kinds

\* A call starts with nothing to account for.
LEMMA QuorumStarts ==
  ASSUME QuorumsInit PROVE QuorumInv
<1>1. PICK order \in SetToSeqs(Nodes) : lanes = Lanes(kind, order)
  BY DEF QuorumsInit
<1>2. /\ kind \in Kinds /\ caught = {} /\ failed = {} /\ errors = 0 /\ outcome = "none"
      /\ truth \in {"ok", "notFound", "blocked"} /\ limit \in Limits
      /\ faulty \subseteq Nodes /\ ShardsOf(faulty) <= MaxFaulty
      /\ told = [a \in Tellings |-> 0]
  BY DEF QuorumsInit, Kinds, Tellings
<1>3. told \in [Tellings -> Nat]
  BY <1>2
<1>4. QuorumTyped
  BY <1>2, <1>3 DEF QuorumTyped
<1>5. PICK ln, ca, H : ln = lanes /\ ca = caught /\ H = Heard(kind, ln, ca)
  OBVIOUS
<1>6. Laid(kind, ln, ca) /\ (kind = "status" => H = {})
  BY <1>1, <1>2, <1>5, FirstLanes
<1>7. H \in SUBSET DOMAIN Holder
  BY <1>5 DEF Heard
<1>8. \A S : Cardinality(H \cap S) \in Nat
  <2>1. \A S : H \cap S \in SUBSET DOMAIN Holder
    BY <1>7
  <2>. QED BY <2>1, PartsOfShards
<1>9. Honest(told, H)
  BY <1>2, <1>8 DEF Honest
<1>10. Counts(kind, told, errors, failed, H, Left(ln, ca))
  <2>1. PICK f \in Nat : f = MaxFaulty
    BY Thresholds
  <2>2. Held({}) = {} /\ Cardinality({}) = 0
    BY FS_EmptySet DEF Held
  <2>3. kind = "status" =>
          /\ Cardinality(H \ Held(failed)) = 0
          /\ told["ok"] + told["lie"] = 0
          /\ \E m \in Nodes : Cardinality(H \ Held(failed \cup {m})) <= 2 * MaxFaulty
    <3>1. SUFFICES ASSUME H = {}
          PROVE  /\ Cardinality(H \ Held(failed)) = 0
                 /\ told["ok"] + told["lie"] = 0
                 /\ \E m \in Nodes : Cardinality(H \ Held(failed \cup {m})) <= 2 * MaxFaulty
      BY <1>6
    <3>2. \A S : Cardinality(H \ S) = 0
      BY <2>2, <3>1
    <3>3. told["ok"] + told["lie"] = 0
      BY <1>2 DEF Tellings
    <3>4. PICK m : m \in Nodes
      BY QuorumsAssumption
    <3>5. Cardinality(H \ Held(failed \cup {m})) = 0
      BY <3>2
    <3>6. 0 <= 2 * f
      BY <2>1
    <3>7. Cardinality(H \ Held(failed \cup {m})) <= 2 * MaxFaulty
      BY <2>1, <3>5, <3>6
    <3>. QED BY <3>2, <3>3, <3>4, <3>7
  <2>4. ShardsOf(failed) = 0
    BY <1>2, <2>2 DEF ShardsOf
  <2>5. Cardinality(H \cap Held(failed)) \in Nat /\ Cardinality(failed) = 0
    BY <1>2, <1>8, <2>2
  <2>6. kind # "slivers" => failed \cap Left(ln, ca) = {}
    BY <1>2
  <2>7. kind = "metadata" => errors <= Cardinality(failed)
    BY <1>2, <2>5
  <2>8. kind = "slivers" => errors <= Cardinality(H \cap Held(failed))
    BY <1>2, <2>5
  <2>9. kind = "status" => Cardinality(H \ Held(failed)) <= told["ok"] + told["lie"]
    BY <2>3
  <2>10. kind = "write" => errors = ShardsOf(failed) /\ errors <= MaxFaulty
    BY <1>2, <2>1, <2>4
  <2>. QED BY <2>3, <2>6, <2>7, <2>8, <2>9, <2>10, Zenon DEF Counts
<1>11. Accounts(lanes, caught, told, errors, failed)
  BY <1>5, <1>6, <1>9, <1>10 DEF Accounts
<1>12. VerdictIsDeserved
  BY <1>2 DEF VerdictIsDeserved, DeniedRightly, FoundRightly, GivesUpRightly
<1>. QED BY <1>4, <1>11, <1>12 DEF QuorumInv

\* What lanes ask for is different, the counts are those of what was heard, and the verdict is
\* deserved: at every step.
LEMMA QuorumKeeps ==
  ASSUME QuorumInv, [QuorumsNext]_quorums PROVE QuorumInv'
<1>1. CASE StartLanes
  BY <1>1, StartLanesKeeps
<1>2. ASSUME NEW i \in DOMAIN lanes, LaneStep(i)
      PROVE  QuorumInv'
  <2>1. CASE MetadataArrives(i)
    BY <2>1, MetadataArrivesKeeps
  <2>2. CASE MetadataFails(i)
    BY <2>2, MetadataFailsKeeps
  <2>3. CASE LaneCatches(i)
    BY <2>3, LaneCatchesKeeps
  <2>4. CASE SliverArrives(i)
    BY <2>4, SliverArrivesKeeps
  <2>5. CASE SliverFails(i)
    BY <2>5, SliverFailsKeeps
  <2>6. CASE StatusArrives(i)
    BY <2>6, StatusArrivesKeeps
  <2>7. CASE StatusFails(i)
    BY <2>7, StatusFailsKeeps
  <2>8. CASE Stored(i)
    BY <2>8, StoredKeeps
  <2>9. CASE StoreFails(i)
    BY <2>9, StoreFailsKeeps
  <2>. QED BY <1>2, <2>1, <2>2, <2>3, <2>4, <2>5, <2>6, <2>7, <2>8, <2>9 DEF LaneStep
<1>3. CASE UNCHANGED quorums
  BY <1>3 DEF quorums, QuorumInv, QuorumTyped, Accounts, Honest, Counts, VerdictIsDeserved,
              DeniedRightly, FoundRightly, GivesUpRightly, LastNotCounted, OneNotAsked, Enough
<1>. QED BY <1>1, <1>2, <1>3 DEF QuorumsNext

\* For every committee, every division of its shards, every limit and every set of faulty nodes
\* the code tolerates: getBlobMetadata, getSlivers, getVerifiedBlobStatus and
\* writeEncodedBlobToNodes settle as the nodes deserve, in whatever order they answer.
THEOREM VerdictsAreDeserved == QuorumsSpec => []VerdictIsDeserved
<1>1. QuorumsInit => QuorumInv
  BY QuorumStarts
<1>2. QuorumInv /\ [QuorumsNext]_quorums => QuorumInv'
  BY QuorumKeeps
<1>3. QuorumInv => VerdictIsDeserved
  BY DEF QuorumInv
<1>. QED BY <1>1, <1>2, <1>3, PTL DEF QuorumsSpec
=============================================================================
