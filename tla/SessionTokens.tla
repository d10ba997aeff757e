--------------------------- MODULE SessionTokens ---------------------------
(* The token pair behind a session (auth.ts, lib/auth, lib/api/token-source, *)
(* lib/api/fetcher.ts).  The pair lives in the session cookie; whoever reads  *)
(* the session - the proxy, a render on the server, getSession() in the       *)
(* browser - refreshes an expired access token first, and all but a render    *)
(* write the new pair back.  The browser keeps the last access token in a     *)
(* memo.  Readings overlap, and the backend may be down.                      *)
EXTENDS Naturals, FiniteSets

CONSTANTS
    AccessTTL, RefreshTTL,  \* lifetimes of the two tokens
    EXPIRY_SKEW,            \* refresh this far ahead of the real expiry
    MaxDelay,               \* how long one exchange over the network takes at most
    Readings,               \* bound: readings of the session that overlap
    MaxTime, MaxPairs       \* bound: the clock, and the pairs issued

\* the skew covers reading the session and then the request
ASSUME SessionAssumption ==
    /\ {AccessTTL, RefreshTTL, EXPIRY_SKEW, MaxDelay, MaxTime} \subseteq Nat
    /\ MaxPairs \in Nat \ {0}
    /\ 2 * MaxDelay <= EXPIRY_SKEW /\ EXPIRY_SKEW < AccessTTL

VARIABLES
    now,        \* the clock
    cookie,     \* the session cookie: the pair and the error
    memo,       \* token-source.client.ts: the cached access token
    readings,   \* the sessions being read, and the request each is for
    pairs,      \* backend: pairs issued so far
    unreachable,\* history: a refresh failed though the token was good
    rejected    \* history: a request reached the API with an expired token

sessionVars == <<now, cookie, memo, readings, pairs, unreachable, rejected>>

NoToken == [id |-> 0, expires |-> 0]
NoSession == [access |-> NoToken, refresh |-> NoToken, error |-> "none"]
NoReading == [kind |-> "none", stage |-> "idle", state |-> NoSession,
              bearer |-> NoToken, since |-> 0]

NewPair == [access  |-> [id |-> pairs + 1, expires |-> now + AccessTTL],
            refresh |-> [id |-> pairs + 1, expires |-> now + RefreshTTL],
            error   |-> "none"]
SessionInit ==
    /\ now = 0 /\ pairs = 1
    /\ cookie = [access |-> [id |-> 1, expires |-> AccessTTL],
                 refresh |-> [id |-> 1, expires |-> RefreshTTL], error |-> "none"]
    /\ memo = NoToken
    /\ readings = [r \in Readings |-> NoReading]
    /\ unreachable = FALSE /\ rejected = FALSE

\* tokens.ts
IsPastExpiry(token) == token = NoToken \/ token.expires <= now
IsAccessTokenExpired(token) == token = NoToken \/ token.expires <= now + EXPIRY_SKEW

\* one exchange is over before it takes more than MaxDelay
Tick ==
    /\ now < MaxTime
    /\ \A r \in Readings : readings[r] # NoReading => now - readings[r].since < MaxDelay
    /\ now' = now + 1
    /\ UNCHANGED <<cookie, memo, readings, pairs, unreachable, rejected>>

----------------------------------------------------------------------------
\* resolve-token.ts: nothing to refresh with, still valid, or expired
ReadSession(r, kind) ==
    /\ readings[r] = NoReading
    /\ kind = "client" => IsAccessTokenExpired(memo)
    /\ readings' = [readings EXCEPT ![r] =
          [NoReading EXCEPT !.kind = kind, !.state = cookie, !.since = now,
              !.stage = IF cookie.refresh = NoToken \/ ~IsAccessTokenExpired(cookie.access)
                        THEN "resolved" ELSE "refreshing"]]
    /\ UNCHANGED <<now, cookie, memo, pairs, unreachable, rejected>>

\* allauth.ts over backend tokens.py: a good refresh token gives a new pair and
\* stays good until it expires
AcceptedOnce(token) == token.expires > now /\ token.id = pairs
RefreshAccepted(token) == token.expires > now

RefreshTokenPair(r) ==
    LET Failed == [NoSession EXCEPT !.error = "RefreshTokenError"] IN
    /\ readings[r].stage = "refreshing"
    /\ \/ /\ RefreshAccepted(readings[r].state.refresh) /\ pairs < MaxPairs
          /\ readings' = [readings EXCEPT ![r].state = NewPair, ![r].stage = "resolved"]
          /\ pairs' = pairs + 1 /\ UNCHANGED unreachable
       \/ /\ readings' = [readings EXCEPT ![r].state = Failed, ![r].stage = "resolved"]
          /\ unreachable' = (unreachable \/ RefreshAccepted(readings[r].state.refresh))
          /\ UNCHANGED pairs
    /\ UNCHANGED <<now, cookie, memo, rejected>>

\* the answer: the cookie is written except by a render, and the browser
\* memoizes the token; then the request goes out with it
SessionRead(r) ==
    LET reading == readings[r]
        token == IF reading.state.error = "none" THEN reading.state.access ELSE NoToken IN
    /\ reading.stage = "resolved"
    /\ cookie' = IF reading.kind = "render" THEN cookie ELSE reading.state
    /\ memo' = IF reading.kind = "client" THEN token ELSE memo
    /\ readings' = [readings EXCEPT ![r] =
          IF reading.kind = "proxy" THEN NoReading
          ELSE [NoReading EXCEPT !.stage = "requesting", !.bearer = token, !.since = now]]
    /\ UNCHANGED <<now, pairs, unreachable, rejected>>

\* a request whose token the memo still has
RequestFromMemo(r) ==
    /\ readings[r] = NoReading /\ ~IsAccessTokenExpired(memo)
    /\ readings' = [readings EXCEPT ![r] =
          [NoReading EXCEPT !.stage = "requesting", !.bearer = memo, !.since = now]]
    /\ UNCHANGED <<now, cookie, memo, pairs, unreachable, rejected>>

RequestArrives(r) ==
    /\ readings[r].stage = "requesting"
    /\ rejected' = (rejected \/ (readings[r].bearer # NoToken
                                 /\ readings[r].bearer.expires <= now))
    /\ readings' = [readings EXCEPT ![r] = NoReading]
    /\ UNCHANGED <<now, cookie, memo, pairs, unreachable>>

\* a sign-in by Google or by email brings a pair, or with Google may fail to
\* trade its token for one
SignInAgain ==
    /\ cookie.refresh = NoToken /\ pairs < MaxPairs
    /\ \/ cookie' = NewPair /\ pairs' = pairs + 1
       \/ /\ cookie.error # "TokenExchangeError"
          /\ cookie' = [cookie EXCEPT !.error = "TokenExchangeError"] /\ UNCHANGED pairs
    /\ UNCHANGED <<now, memo, readings, unreachable, rejected>>

SessionNext ==
    \/ Tick \/ SignInAgain
    \/ \E r \in Readings :
          \/ \E kind \in {"proxy", "render", "client"} : ReadSession(r, kind)
          \/ RefreshTokenPair(r) \/ SessionRead(r) \/ RequestFromMemo(r) \/ RequestArrives(r)
SessionSpec == SessionInit /\ [][SessionNext]_sessionVars

----------------------------------------------------------------------------
Token == [id : 0..MaxPairs, expires : Nat]
SessionTypeOK ==
    /\ now \in 0..MaxTime /\ pairs \in 0..MaxPairs
    /\ cookie \in [access : Token, refresh : Token,
                   error : {"none", "TokenExchangeError", "RefreshTokenError"}]
    /\ memo \in Token
    /\ \A r \in Readings : readings[r].bearer \in Token /\ readings[r].since <= now

\* "an in-flight request cannot 401" (tokens.ts:8): whichever of the overlapping
\* readings, memos and refreshes its token came through, a request that carries
\* one arrives before the token expires.
NoRequestExpires == ~rejected

\* Two readings that refresh the same session at once do not sign the reader
\* out: a session whose refresh token was good and whose backend answered never
\* ends in an error, whatever the order in which the new pairs are written back.
RefreshRaceKeepsSession ==
    cookie.error = "RefreshTokenError" => unreachable \/ now >= RefreshTTL
=============================================================================
