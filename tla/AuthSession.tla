---------------------------- MODULE AuthSession ----------------------------
(***************************************************************************)
(* The session of one auth client (packages/mysocial-auth/src/auth.ts) and *)
(* the rotation of its refresh token: getSession, refresh, the timer of    *)
(* proactiveRefresh and the return of the tab all load the session, which  *)
(* asks the server for a new one when it is about to expire.               *)
(* Sessions are numbered as the server issues them and stand for their     *)
(* refresh tokens.  saveSession and the removals set storage and           *)
(* cachedSession together, so one variable stands for both.                *)
(***************************************************************************)
EXTENDS Integers, Sequences, FiniteSets

CONSTANTS MaxSessions,   \* bound: sessions issued
          MaxRefreshes   \* bound: requests for a refresh
ASSUME AuthAssumption == MaxSessions \in Nat /\ MaxRefreshes \in Nat

VARIABLES session,         \* cachedSession and the entry of the storage, 0 for none
          refreshPromise,  \* the refresh it is the promise of, 0 for null
          refreshes,       \* calls of doRefresh, in order
          signOuts,        \* calls of signOut that wait for the server
          issued,          \* sessions issued so far
          due,             \* has the session expired, or will it within the buffer?
          bare,            \* sessions that have no refresh token
          live             \* sessions whose refresh token the server accepts

auth == <<session, refreshPromise, refreshes, signOuts, issued, due, bare, live>>

AuthInit ==
    /\ session = 0 /\ refreshPromise = 0 /\ refreshes = <<>> /\ signOuts = 0
    /\ issued = 0 /\ due = FALSE /\ bare = {} /\ live = {}

\* A refresh that has ended was "kept", its answer is the session, or is "over".
UnderWay == {r \in DOMAIN refreshes : refreshes[r].state \notin {"kept", "over"}}

\* A sign-out sets refreshPromise to null while a refresh is under way; when that refresh
\* ends it sets it to null again, which may be the promise of a newer one.
Astray(rs, ending) ==
    [r \in DOMAIN rs |-> [rs[r] EXCEPT !.stray = @ \/ r \in UnderWay \ {ending}]]

\* Popup or redirect: the server has issued a session, saveSession keeps it.
SignIn ==
    /\ issued < MaxSessions
    /\ issued' = issued + 1
    /\ session' = issued'
    /\ \/ live' = live \cup {issued'} /\ UNCHANGED bare
       \/ bare' = bare \cup {issued'} /\ UNCHANGED live
    /\ due' = FALSE
    /\ UNCHANGED <<refreshPromise, refreshes, signOuts>>

\* expiresWithinBuffer.  A session that expires before its answer arrives does so right after that.
Expire ==
    /\ session # 0 /\ ~ due
    /\ due' = TRUE
    /\ UNCHANGED <<session, refreshPromise, refreshes, signOuts, issued, bare, live>>

\* doRefresh, up to its request.  again: a call of refresh() goes on when it ends.
WithRequest(s, again) ==
    Append(refreshes, [of |-> s, state |-> "sent", new |-> 0, again |-> again, stray |-> FALSE])

\* Mutant: refreshPromise is not looked at.
JoinedNever == FALSE
Joined == refreshPromise # 0

\* getSession (cached and stored sessions are the same), the timer, visibilitychange
\* (forced = FALSE) and refresh() (forced = TRUE), whose second part follows at once
\* unless its loadSession waits for a refresh.
LoadSession(forced) ==
    /\ session # 0
    /\ UNCHANGED <<signOuts, issued, bare, live>>
    /\ \/ /\ due /\ session \in bare
          /\ session' = 0 /\ due' = FALSE
          /\ UNCHANGED <<refreshPromise, refreshes>>
       \/ /\ session \notin bare /\ (due \/ forced)
          /\ UNCHANGED <<session, due>>
          /\ LET waits == forced /\ due
             IN IF Joined
                THEN /\ refreshes' = [refreshes EXCEPT ![refreshPromise].again = @ \/ waits]
                     /\ UNCHANGED refreshPromise
                ELSE /\ Len(refreshes) < MaxRefreshes
                     /\ refreshes' = WithRequest(session, waits)
                     /\ refreshPromise' = Len(refreshes')

\* /auth/refresh: the token is exchanged, unless it is not accepted (401) or the
\* server is busy (429, 500).
Serve(r) ==
    /\ refreshes[r].state = "sent"
    /\ \/ /\ refreshes[r].of \in live /\ issued < MaxSessions
          /\ issued' = issued + 1
          /\ live' = (live \ {refreshes[r].of}) \cup {issued'}
          /\ refreshes' = [refreshes EXCEPT ![r].state = "granted", ![r].new = issued']
       \/ /\ refreshes[r].of \notin live
          /\ refreshes' = [refreshes EXCEPT ![r].state = "revoked"]
          /\ UNCHANGED <<issued, live>>
       \/ /\ refreshes' = [refreshes EXCEPT ![r].state = "failed"]
          /\ UNCHANGED <<issued, live>>
    /\ UNCHANGED <<session, refreshPromise, signOuts, due, bare>>

\* Mutant: mergeRefreshedSession keeps the refresh token of the existing session.
MergedKeepingToken(r) == refreshes[r].of
\* mergeRefreshedSession: tokens and expiration are those of the answer.
Merged(r) == refreshes[r].new

\* The rest of doRefresh.  finally sets refreshPromise to null, whichever refresh it is
\* the promise of by now; a waiting refresh() then asks once more.
EndRefresh(r) ==
    /\ refreshes[r].state \in {"granted", "revoked", "failed"}
    /\ session' = CASE refreshes[r].state = "granted" -> Merged(r)
                    [] refreshes[r].state = "revoked" -> 0
                    [] refreshes[r].state = "failed"  -> session
    /\ due' = (due /\ refreshes[r].state = "failed")
    /\ LET ended == [refreshes EXCEPT ![r].state = IF @ = "granted" THEN "kept" ELSE "over"]
           over == IF refreshes[r].stray THEN Astray(ended, r) ELSE ended
       IN IF refreshes[r].state = "granted" /\ refreshes[r].again
          THEN /\ Len(refreshes) < MaxRefreshes
               /\ refreshes' = Append(over, [of |-> session', state |-> "sent", new |-> 0,
                                             again |-> FALSE, stray |-> FALSE])
               /\ refreshPromise' = Len(refreshes')
          ELSE refreshes' = over /\ refreshPromise' = 0
    /\ UNCHANGED <<signOuts, issued, bare, live>>

\* The answer to a refresh is lost after the server has exchanged the token.
Lose(r) ==
    /\ refreshes[r].state = "granted"
    /\ refreshes' = [refreshes EXCEPT ![r].state = "failed"]
    /\ UNCHANGED <<session, refreshPromise, signOuts, issued, due, bare, live>>

\* signOut, one at a time: the server is told the refresh token there is, and may obey or not;
\* then the session is cleared, regardless.
SignOut ==
    /\ signOuts' = signOuts + 1 /\ signOuts = 0
    /\ live' \in {live, live \ {session}}
    /\ UNCHANGED <<session, refreshPromise, refreshes, issued, due, bare>>
SignedOut ==
    /\ signOuts > 0
    /\ signOuts' = signOuts - 1
    /\ session' = 0 /\ due' = FALSE /\ refreshPromise' = 0
    /\ refreshes' = Astray(refreshes, 0)
    /\ UNCHANGED <<issued, bare, live>>

AuthNext ==
    \/ SignIn \/ Expire \/ SignOut \/ SignedOut
    \/ \E forced \in BOOLEAN : LoadSession(forced)
    \/ \E r \in DOMAIN refreshes : Serve(r) \/ EndRefresh(r) \/ Lose(r)

AuthSpec == AuthInit /\ [][AuthNext]_auth

-----------------------------------------------------------------------------
\* A refresh token is good for one request: no two requests that present the same one
\* are under way together, whoever asks for the session at whatever moment.  The server
\* would reject the second, and the client take the session for revoked.  Except after a
\* sign-out during a refresh, which lets go of that one and, when it ends, of others.
OneRequestPerToken ==
    \A q, r \in UnderWay :
        refreshes[q].of = refreshes[r].of => q = r \/ refreshes[q].stray \/ refreshes[r].stray

\* The client holds the token the server accepts: the session it keeps can be refreshed
\* unless its token was exchanged in a request that is not over or whose answer was
\* lost, or the server was told of a sign-out.
TokenIsCurrent ==
    session # 0 =>
        \/ session \in live \cup bare \/ signOuts > 0
        \/ \E r \in DOMAIN refreshes :
              refreshes[r].of = session /\ refreshes[r].new # 0 /\ refreshes[r].state # "kept"
=============================================================================
