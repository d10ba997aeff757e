-------------------------- MODULE FrontendPages_proofs --------------------------
(* Proofs about single pages of the front end, each a module of its own that  *)
(* Frontend composes: session tokens, the newsletter, code forms, approval    *)
(* pages, the calculator.  Every part gives its invariant, that it holds at first and that    *)
(* every step keeps it; Frontend_proofs carries them over to a visit.         *)
EXTENDS SessionTokens, Newsletter, CodeForms, ConsentPages, DocumentCost,
        FiniteSetTheorems, SequenceTheorems, WellFoundedInduction, TLAPS

----------------------------------------------------------------------------
(* Proofs about SessionTokens, for every lifetime, skew and delay that        *)
(* satisfies SessionAssumption, and any set of overlapping readings.          *)
(*                                                                            *)
(* NoRequestExpires needs a strengthening: how much life a token must have    *)
(* left depends on how far its request has come.  A session that was resolved *)
(* holds a token with the skew ahead of the moment its reading began, a       *)
(* request one with MaxDelay ahead of the moment it left, and neither takes   *)
(* longer than MaxDelay.  RefreshRaceKeepsSession needs to know that whatever *)
(* refresh token is in use lives until RefreshTTL at the least, so that one   *)
(* that is refused early was good.                                            *)

ReadingStages == {"idle", "refreshing", "resolved", "requesting"}
ReadingKinds == {"none", "proxy", "render", "client"}
SessionErrors == {"none", "TokenExchangeError", "RefreshTokenError"}
SessionRecord == [access : Token, refresh : Token, error : SessionErrors]
Reading == [kind : ReadingKinds, stage : ReadingStages, state : SessionRecord,
   bearer : Token, since : Nat]

SessionShape ==
    /\ now \in 0..MaxTime /\ pairs \in 1..MaxPairs
    /\ cookie \in SessionRecord /\ memo \in Token
    /\ readings \in [Readings -> Reading]
    /\ unreachable \in BOOLEAN /\ rejected \in BOOLEAN

\* a session holds both tokens of a pair or none, and a refresh token was good
\* for RefreshTTL when the clock started, or is younger
WholePair(s) ==
    /\ s.refresh = NoToken => s.access = NoToken
    /\ s.refresh # NoToken => s.refresh.expires >= RefreshTTL
\* an error has a cause
Excused(s) == s.error = "RefreshTokenError" => unreachable \/ now >= RefreshTTL

Sessions ==
    /\ WholePair(cookie) /\ Excused(cookie)
    /\ \A r \in Readings :
          /\ WholePair(readings[r].state) /\ Excused(readings[r].state)
          /\ readings[r].stage = "refreshing" => readings[r].state.refresh # NoToken

\* a token that is still good d after t
LivesPast(token, t, d) == token = NoToken \/ token.expires > t + d

\* a reading is over in MaxDelay, and the token it has outlives that
ReadingInTime(r) ==
    /\ readings[r].since <= now
    /\ readings[r].stage # "idle" => now <= readings[r].since + MaxDelay
    /\ readings[r].stage = "resolved" /\ readings[r].state.error = "none" =>
          LivesPast(readings[r].state.access, readings[r].since, EXPIRY_SKEW)
    /\ readings[r].stage = "requesting" =>
          LivesPast(readings[r].bearer, readings[r].since, MaxDelay)
TokensInTime == ~rejected /\ \A r \in Readings : ReadingInTime(r)

SessionInv == SessionShape /\ Sessions /\ TokensInTime

----------------------------------------------------------------------------
\* what the constants are, in a form the arithmetic can use
LEMMA SessionConstants ==
    /\ AccessTTL \in Nat /\ RefreshTTL \in Nat /\ EXPIRY_SKEW \in Nat /\ MaxDelay \in Nat
    /\ MaxTime \in Nat /\ MaxPairs \in Nat /\ MaxPairs >= 1
    /\ 2 * MaxDelay <= EXPIRY_SKEW /\ EXPIRY_SKEW < AccessTTL
  BY SessionAssumption DEF SessionAssumption

\* the values that are no token, no session and no reading have the shape of one
LEMMA NoSessionShape == NoToken \in Token /\ NoSession \in SessionRecord /\ NoReading \in Reading
  BY SessionConstants DEF NoToken, NoSession, NoReading, Token, SessionRecord, Reading,
     SessionErrors, ReadingKinds, ReadingStages

\* a pair just issued is whole, free of errors and good for the skew
LEMMA PairIsGood ==
    ASSUME SessionShape, pairs < MaxPairs
    PROVE  /\ NewPair \in SessionRecord /\ WholePair(NewPair) /\ Excused(NewPair)
           /\ NewPair.access.expires = now + AccessTTL
  BY SessionConstants DEF SessionShape, NewPair, SessionRecord, Token, SessionErrors,
     WholePair, Excused, NoToken

\* how a step that rewrites one reading keeps what is known of all of them
LEMMA OneReading ==
    ASSUME SessionShape, NEW r \in Readings, NEW new \in Reading,
           readings' = [readings EXCEPT ![r] = new]
    PROVE  /\ readings' \in [Readings -> Reading]
           /\ readings'[r] = new
           /\ \A q \in Readings \ {r} : readings'[q] = readings[q]
  BY DEF SessionShape

----------------------------------------------------------------------------
LEMMA SessionInitInv == SessionInit => SessionInv
  <1> SUFFICES ASSUME SessionInit PROVE SessionInv
    OBVIOUS
  <1>1. SessionShape
    <2>1. now \in 0..MaxTime /\ pairs \in 1..MaxPairs /\ memo \in Token
      BY SessionConstants, NoSessionShape DEF SessionInit
    <2>2. cookie \in SessionRecord
      BY SessionConstants DEF SessionInit, SessionRecord, Token, SessionErrors
    <2>3. readings \in [Readings -> Reading]
      BY NoSessionShape DEF SessionInit
    <2> QED BY <2>1, <2>2, <2>3 DEF SessionInit, SessionShape
  <1>2. Sessions
    BY SessionConstants DEF SessionInit, Sessions, WholePair, Excused, NoReading,
       NoSession, NoToken
  <1>3. TokensInTime
    BY SessionConstants DEF SessionInit, TokensInTime, ReadingInTime, NoReading,
       NoSession, NoToken
  <1> QED BY <1>1, <1>2, <1>3 DEF SessionInv

\* the clock moves only while every exchange under way has time left
LEMMA TickKeeps == SessionInv /\ Tick => SessionInv'
  <1> SUFFICES ASSUME SessionInv, Tick PROVE SessionInv'
    OBVIOUS
  <1> USE SessionConstants DEF SessionInv, Tick
  <1>1. SessionShape'
    BY DEF SessionShape
  <1>2. Sessions'
    BY DEF SessionShape, Sessions, WholePair, Excused
  <1>3. TokensInTime'
    <2> SUFFICES ASSUME NEW r \in Readings PROVE ReadingInTime(r)'
      BY DEF TokensInTime
    <2>1. readings[r] \in Reading /\ ReadingInTime(r) /\ readings'[r] = readings[r]
      BY DEF SessionShape, TokensInTime
    <2>2. readings[r].since \in Nat /\ now \in Nat /\ now' = now + 1
      BY <2>1 DEF SessionShape, Reading
    <2>3. ASSUME readings[r].stage # "idle" PROVE now + 1 <= readings[r].since + MaxDelay
      <3>1. readings[r] # NoReading
        BY <2>3 DEF NoReading
      <3>2. now - readings[r].since < MaxDelay
        BY <3>1
      <3> QED BY <3>2, <2>2
    <2> QED BY <2>1, <2>2, <2>3 DEF ReadingInTime
  <1> QED BY <1>1, <1>2, <1>3

\* a session is read: a token that stays as it is has the skew ahead
LEMMA ReadSessionKeeps ==
    ASSUME SessionInv, NEW r \in Readings, NEW kind \in {"proxy", "render", "client"},
           ReadSession(r, kind)
    PROVE  SessionInv'
  <1> DEFINE stage == IF cookie.refresh = NoToken \/ ~IsAccessTokenExpired(cookie.access)
                      THEN "resolved" ELSE "refreshing"
             new == [NoReading EXCEPT !.kind = kind, !.state = cookie, !.since = now,
                                      !.stage = stage]
  <1> USE SessionConstants DEF SessionInv
  <1>1. /\ new \in Reading /\ new.state = cookie /\ new.since = now /\ new.stage = stage
        /\ new.bearer = NoToken
    <2>1. /\ cookie \in SessionRecord /\ now \in Nat
          /\ kind \in ReadingKinds /\ stage \in ReadingStages
          /\ NoToken \in Token
      BY NoSessionShape DEF SessionShape, ReadingKinds, ReadingStages
    <2> QED BY <2>1 DEF Reading, NoReading
  <1>2. readings' = [readings EXCEPT ![r] = new]
    BY DEF ReadSession
  <1> HIDE DEF new
  <1>3. /\ readings' \in [Readings -> Reading] /\ readings'[r] = new
        /\ \A q \in Readings \ {r} : readings'[q] = readings[q]
    BY <1>1, <1>2, OneReading
  <1>4. SessionShape'
    BY <1>3 DEF SessionShape, ReadSession
  <1>5. Sessions'
    BY <1>1, <1>3 DEF Sessions, WholePair, Excused, ReadSession
  <1>6. TokensInTime'
    <2>1. ReadingInTime(r)'
      BY <1>1, <1>3 DEF ReadingInTime, LivesPast, Sessions, WholePair, IsAccessTokenExpired,
         SessionShape, SessionRecord, Token, ReadSession
    <2> QED BY <1>3, <2>1 DEF TokensInTime, ReadingInTime, ReadSession
  <1> QED BY <1>4, <1>5, <1>6

\* a refresh: a new pair outlives the reading, and a refusal has its cause
LEMMA RefreshKeeps ==
    ASSUME SessionInv, NEW r \in Readings, RefreshTokenPair(r)
    PROVE  SessionInv'
  <1> USE SessionConstants DEF SessionInv
  <1> DEFINE failed == [NoSession EXCEPT !.error = "RefreshTokenError"]
             new(s) == [readings[r] EXCEPT !.state = s, !.stage = "resolved"]
  <1>1. readings[r] \in Reading
    BY DEF SessionShape
  <1>2. \A s \in SessionRecord : /\ new(s) \in Reading /\ new(s).state = s
                         /\ new(s).stage = "resolved" /\ new(s).since = readings[r].since
    BY <1>1 DEF Reading, ReadingStages
  <1>3. /\ failed \in SessionRecord /\ WholePair(failed) /\ failed.error = "RefreshTokenError"
    BY NoSessionShape DEF NoSession, SessionRecord, SessionErrors, WholePair
  <1>4. CASE /\ RefreshAccepted(readings[r].state.refresh) /\ pairs < MaxPairs
             /\ readings' = [readings EXCEPT ![r] = new(NewPair)]
             /\ pairs' = pairs + 1 /\ UNCHANGED unreachable
    <2>1. /\ NewPair \in SessionRecord /\ WholePair(NewPair) /\ Excused(NewPair)
          /\ NewPair.access.expires = now + AccessTTL
      BY <1>4, PairIsGood
    <2>2. /\ readings' \in [Readings -> Reading] /\ readings'[r] = new(NewPair)
          /\ \A q \in Readings \ {r} : readings'[q] = readings[q]
      BY <1>2, <1>4, <2>1, OneReading
    <2>3. readings'[r].state = NewPair /\ readings'[r].stage = "resolved"
          /\ readings'[r].since = readings[r].since
      BY <1>2, <2>1, <2>2, ZenonT(30)
    <2> HIDE DEF new, failed
    <2>4. SessionShape'
      BY <1>4, <2>2 DEF SessionShape, RefreshTokenPair
    <2>5. Sessions'
      BY <1>4, <2>1, <2>2, <2>3 DEF Sessions, WholePair, Excused, RefreshTokenPair
    <2>6. ReadingInTime(r)'
      BY <1>1, <2>1, <2>3 DEF ReadingInTime, TokensInTime, LivesPast, SessionShape,
         Reading, RefreshTokenPair
    <2>7. TokensInTime'
      BY <2>2, <2>6 DEF TokensInTime, ReadingInTime, RefreshTokenPair
    <2> QED BY <2>4, <2>5, <2>7
  <1>5. CASE /\ readings' = [readings EXCEPT ![r] = new(failed)]
             /\ unreachable' = (unreachable \/ RefreshAccepted(readings[r].state.refresh))
             /\ UNCHANGED pairs
    <2>1. /\ readings' \in [Readings -> Reading] /\ readings'[r] = new(failed)
          /\ \A q \in Readings \ {r} : readings'[q] = readings[q]
      BY <1>2, <1>3, <1>5, OneReading
    <2> HIDE DEF new, failed
    <2>2. readings'[r].state = failed /\ readings'[r].stage = "resolved"
          /\ readings'[r].since = readings[r].since
      BY <1>2, <1>3, <2>1
    <2>3. SessionShape'
      BY <1>5, <2>1 DEF SessionShape, RefreshTokenPair
    <2>4. unreachable' \/ now >= RefreshTTL
      <3>1. /\ readings[r].state.refresh # NoToken
            /\ readings[r].state.refresh.expires >= RefreshTTL
        BY DEF Sessions, WholePair, RefreshTokenPair
      <3>2. readings[r].state.refresh.expires \in Nat /\ now \in Nat
        BY <1>1 DEF SessionShape, Reading, SessionRecord, Token
      <3>3. CASE RefreshAccepted(readings[r].state.refresh)
        BY <1>5, <3>3, Zenon
      <3>4. CASE ~RefreshAccepted(readings[r].state.refresh)
        BY <3>1, <3>2, <3>4 DEF RefreshAccepted
      <3> QED BY <3>3, <3>4
    <2>5. Sessions'
      BY <1>3, <1>5, <2>1, <2>2, <2>4 DEF Sessions, WholePair, Excused, RefreshTokenPair
    <2>6. TokensInTime'
      BY <1>3, <2>1, <2>2 DEF TokensInTime, ReadingInTime, RefreshTokenPair
    <2> QED BY <2>3, <2>5, <2>6
  <1> QED BY <1>4, <1>5 DEF RefreshTokenPair

\* the answer of a reading: half the skew has gone by, the other half is the
\* request's
LEMMA SessionReadKeeps ==
    ASSUME SessionInv, NEW r \in Readings, SessionRead(r)
    PROVE  SessionInv'
  <1> USE SessionConstants DEF SessionInv
  <1> DEFINE token == IF readings[r].state.error = "none" THEN readings[r].state.access
                                                          ELSE NoToken
             out == [NoReading EXCEPT !.stage = "requesting", !.bearer = token,
                !.since = now]
             new == IF readings[r].kind = "proxy" THEN NoReading ELSE out
  <1>1. /\ readings[r] \in Reading /\ readings[r].state \in SessionRecord
        /\ readings[r].stage = "resolved"
    BY DEF SessionShape, Reading, SessionRead
  <1>2. token \in Token
    BY <1>1, NoSessionShape DEF SessionRecord
  <1>3. LivesPast(token, now, MaxDelay)
    BY <1>1, <1>2 DEF TokensInTime, ReadingInTime, LivesPast, Reading, SessionRecord,
       Token, SessionShape
  <1> HIDE DEF token
  <1>4. /\ out \in Reading /\ out.stage = "requesting" /\ out.bearer = token
        /\ out.since = now /\ out.state = NoSession
    <2>1. /\ NoSession \in SessionRecord /\ now \in Nat
          /\ "none" \in ReadingKinds /\ "requesting" \in ReadingStages
      BY NoSessionShape DEF SessionShape, ReadingKinds, ReadingStages
    <2> QED BY <1>2, <2>1 DEF Reading, NoReading
  <1>5. NoReading.stage = "idle" /\ NoReading.since = 0 /\ NoReading.state = NoSession
    BY DEF NoReading
  <1>6. readings' = [readings EXCEPT ![r] = new]
    BY DEF SessionRead, token
  <1>7. /\ cookie' \in {cookie, readings[r].state} /\ memo' \in {memo, token}
        /\ UNCHANGED <<now, pairs, unreachable, rejected>>
    BY DEF SessionRead, token
  <1> HIDE DEF out
  <1>8. /\ new \in Reading /\ new.stage \in {"idle", "requesting"} /\ new.since <= now
        /\ new.state = NoSession
        /\ new.stage = "requesting" => new.since = now /\ new.bearer = token
    BY <1>4, <1>5, NoSessionShape DEF SessionShape
  <1> HIDE DEF new
  <1>9. /\ readings' \in [Readings -> Reading] /\ readings'[r] = new
        /\ \A q \in Readings \ {r} : readings'[q] = readings[q]
    BY <1>6, <1>8, OneReading
  <1>10. SessionShape'
    BY <1>1, <1>2, <1>7, <1>9 DEF SessionShape
  <1>11. WholePair(NoSession) /\ Excused(NoSession)
    BY DEF WholePair, Excused, NoSession
  <1>12. Sessions'
    BY <1>7, <1>8, <1>9, <1>11 DEF Sessions, WholePair, Excused
  <1>13. ReadingInTime(r)'
    BY <1>3, <1>7, <1>8, <1>9 DEF ReadingInTime, SessionShape
  <1>14. TokensInTime'
    BY <1>7, <1>9, <1>13 DEF TokensInTime, ReadingInTime
  <1> QED BY <1>10, <1>12, <1>14

\* a request with the memo's token, which has the skew ahead
LEMMA FromMemoKeeps ==
    ASSUME SessionInv, NEW r \in Readings, RequestFromMemo(r)
    PROVE  SessionInv'
  <1> USE SessionConstants DEF SessionInv
  <1> DEFINE new == [NoReading EXCEPT !.stage = "requesting", !.bearer = memo,
     !.since = now]
  <1>1. /\ new \in Reading /\ new.stage = "requesting" /\ new.bearer = memo
        /\ new.since = now /\ new.state = NoSession
    <2>1. /\ NoSession \in SessionRecord /\ now \in Nat /\ memo \in Token
          /\ "none" \in ReadingKinds /\ "requesting" \in ReadingStages
      BY NoSessionShape DEF SessionShape, ReadingKinds, ReadingStages
    <2> QED BY <2>1 DEF Reading, NoReading
  <1>2. readings' = [readings EXCEPT ![r] = new]
    BY DEF RequestFromMemo
  <1> HIDE DEF new
  <1>3. /\ readings' \in [Readings -> Reading] /\ readings'[r] = new
        /\ \A q \in Readings \ {r} : readings'[q] = readings[q]
    BY <1>1, <1>2, OneReading
  <1>4. SessionShape'
    BY <1>3 DEF SessionShape, RequestFromMemo
  <1>5. WholePair(NoSession) /\ Excused(NoSession)
    BY DEF WholePair, Excused, NoSession
  <1>6. Sessions'
    BY <1>1, <1>3, <1>5 DEF Sessions, WholePair, Excused, RequestFromMemo
  <1>7. LivesPast(memo, now, MaxDelay)
    BY DEF LivesPast, RequestFromMemo, IsAccessTokenExpired, SessionShape, Token
  <1>8. ReadingInTime(r)'
    BY <1>1, <1>3, <1>7 DEF ReadingInTime, RequestFromMemo, SessionShape
  <1>9. TokensInTime'
    BY <1>3, <1>8 DEF TokensInTime, ReadingInTime, RequestFromMemo
  <1> QED BY <1>4, <1>6, <1>9

\* a request arrives within MaxDelay, so before its token expires
LEMMA ArrivesKeeps ==
    ASSUME SessionInv, NEW r \in Readings, RequestArrives(r)
    PROVE  SessionInv'
  <1> USE SessionConstants DEF SessionInv
  <1>1. readings' = [readings EXCEPT ![r] = NoReading]
    BY DEF RequestArrives
  <1>2. /\ readings' \in [Readings -> Reading] /\ readings'[r] = NoReading
        /\ \A q \in Readings \ {r} : readings'[q] = readings[q]
    BY <1>1, NoSessionShape, OneReading
  <1>3. ~rejected'
    BY DEF RequestArrives, TokensInTime, ReadingInTime, LivesPast, SessionShape, Reading,
       Token
  <1>4. SessionShape'
    BY <1>2, <1>3 DEF SessionShape, RequestArrives
  <1>5. Sessions'
    BY <1>2 DEF Sessions, WholePair, Excused, NoReading, NoSession, RequestArrives
  <1>6. TokensInTime'
    BY <1>2, <1>3 DEF TokensInTime, ReadingInTime, NoReading, RequestArrives, SessionShape
  <1> QED BY <1>4, <1>5, <1>6

\* a sign-in writes a new pair, or an error of its own
LEMMA SignInAgainKeeps == SessionInv /\ SignInAgain => SessionInv'
  <1> SUFFICES ASSUME SessionInv, SignInAgain PROVE SessionInv'
    OBVIOUS
  <1> USE SessionConstants DEF SessionInv
  <1>1. /\ NewPair \in SessionRecord /\ WholePair(NewPair) /\ Excused(NewPair)
    BY PairIsGood DEF SignInAgain
  <1>2. cookie' \in SessionRecord /\ WholePair(cookie') /\ Excused(cookie')
    <2>1. CASE cookie' = NewPair
      BY <1>1, <2>1
    <2>2. CASE cookie' = [cookie EXCEPT !.error = "TokenExchangeError"]
      BY <2>2 DEF SessionShape, Sessions, SessionRecord, SessionErrors, WholePair, Excused
    <2> QED BY <2>1, <2>2 DEF SignInAgain
  <1>3. SessionShape'
    BY <1>2 DEF SessionShape, SignInAgain
  <1>4. Sessions'
    BY <1>2 DEF Sessions, WholePair, Excused, SignInAgain
  <1>5. TokensInTime'
    BY DEF TokensInTime, ReadingInTime, SignInAgain
  <1> QED BY <1>3, <1>4, <1>5

LEMMA SessionNextInv == SessionInv /\ [SessionNext]_sessionVars => SessionInv'
  <1> SUFFICES ASSUME SessionInv, [SessionNext]_sessionVars PROVE SessionInv'
    OBVIOUS
  <1>1. CASE UNCHANGED sessionVars
    BY <1>1 DEF sessionVars, SessionInv, SessionShape, Sessions, WholePair, Excused,
       TokensInTime,
       ReadingInTime
  <1>2. CASE SessionNext
    BY <1>2, TickKeeps, SignInAgainKeeps, ReadSessionKeeps, RefreshKeeps,
       SessionReadKeeps, FromMemoKeeps, ArrivesKeeps
       DEF SessionNext
  <1> QED BY <1>1, <1>2

\* What is known of the tokens holds of every behaviour: the invariant that the
\* theorems below are read off.
THEOREM SessionInvariant == SessionSpec => []SessionInv
  BY SessionInitInv, SessionNextInv, PTL DEF SessionSpec

\* Every variable keeps its type: clock and pairs stay in their bounds, and a
\* request carries a token of a pair that was issued.
THEOREM SessionTypeCorrect == SessionSpec => []SessionTypeOK
  <1>1. SessionInv => SessionTypeOK
    BY DEF SessionInv, SessionShape, Reading, SessionRecord, SessionErrors, TokensInTime,
       ReadingInTime, SessionTypeOK
  <1> QED BY <1>1, SessionInvariant, PTL

\* tokens.ts: no request in flight meets a 401, for any skew that covers two
\* exchanges, however readings, refreshes and the memo interleave.
THEOREM RequestsArriveInTime == SessionSpec => []NoRequestExpires
  <1>1. SessionInv => NoRequestExpires
    BY DEF SessionInv, TokensInTime, NoRequestExpires
  <1> QED BY <1>1, SessionInvariant, PTL

\* resolve-token.ts: refreshing one session several times at once never ends it.
THEOREM RefreshesKeepTheSession == SessionSpec => []RefreshRaceKeepsSession
  <1>1. SessionInv => RefreshRaceKeepsSession
    BY DEF SessionInv, Sessions, Excused, RefreshRaceKeepsSession
  <1> QED BY <1>1, SessionInvariant, PTL

----------------------------------------------------------------------------
(* Proofs about Newsletter, for any set of topics and any finite number of    *)
(* mails, for every number of pages and visits.                               *)
(*                                                                            *)
(* ConfirmedByItsOwner is not inductive by itself: the button of a page is    *)
(* pressed in one step and its link is served in another, so the invariant    *)
(* says that a call on its way belongs to a link that was mailed and pressed. *)
(* UnsubscribedStays needs in addition that the call asks for what its link   *)
(* is for, because "a confirmation is under way" is read off the call.        *)

NewsRow == [pk : Nat, status : {"none", "pending", "active", "unsubscribed"},
            topics : SUBSET TOPICS]
NewsLink == [kind : {"none", "confirm", "unsubscribe"}, pk : Nat, topics : SUBSET TOPICS,
         expired : BOOLEAN, pressed : BOOLEAN]
NewsTask == [kind : {"confirm", "welcome"}, pk : Nat, topics : SUBSET TOPICS]
NewsAsks == {NoRequest} \cup {SubscribeNewsletter(picked) : picked \in SUBSET TOPICS}
NewsPresses == {NoRequest} \cup {ConfirmNewsletter(l) : l \in LinkIds}
                       \cup {UnsubscribeNewsletter(l) : l \in LinkIds}
NewsCall(requests) ==
    [stage : {"idle", "sent", "answered"}, req : requests, ok : BOOLEAN, data : {0}]
NewsTab == [link : LinkIds \cup {0}, call : NewsCall(NewsPresses), done : BOOLEAN]

NewsShape ==
    /\ asked \in BOOLEAN /\ mayReturn \in BOOLEAN
    /\ subscribing \in NewsCall(NewsAsks)
    /\ subscribing.stage = "sent" => subscribing.req.body \subseteq TOPICS
    /\ subscriber \in NewsRow
    /\ newsTasks \in SUBSET NewsTask
    /\ links \in [LinkIds -> NewsLink]
    /\ newsTabs \in [NewsTabs -> NewsTab]

\* a page is of a mailed link, and its call on the way is of a pressed one and
\* asks for what the link is for
TabMatchesLink(t) ==
    LET l == newsTabs[t].link IN
    /\ l # 0 => links[l].kind # "none"
    /\ newsTabs[t].call.stage = "sent" =>
          /\ l # 0 /\ links[l].pressed
          /\ newsTabs[t].call.req.op = "ConfirmNewsletter" <=> links[l].kind = "confirm"
TabsMatchLinks == \A t \in NewsTabs : TabMatchesLink(t)

\* with no confirmation pressed since, none is on its way either
NoReturnUnderWay == mayReturn \/ (subscriber.status # "active" /\ ~ConfirmUnderWay)

NewsInv == NewsShape /\ TabsMatchLinks /\ ConfirmedByItsOwner /\ NoReturnUnderWay

----------------------------------------------------------------------------
LEMMA NoNewsShape == /\ NoRow \in NewsRow /\ NoLink \in NewsLink /\ ClosedTab \in NewsTab
                 /\ NoCall \in NewsCall(NewsAsks) /\ NoCall \in NewsCall(NewsPresses)
  <1>1. NoCall \in NewsCall(NewsAsks) /\ NoCall \in NewsCall(NewsPresses)
    BY DEF NoCall, NewsCall, NewsAsks, NewsPresses
  <1> QED BY <1>1, NewsAssumption DEF NoRow, NoLink, ClosedTab, NewsRow, NewsLink, NewsTab,
                NewsAssumption

\* sending and answering keep a call a call
LEMMA NewsCalls ==
    ASSUME NEW Requests, NEW call \in NewsCall(Requests), NEW req \in Requests
    PROVE  /\ NoRequest \in Requests => /\ Sent(req) \in NewsCall(Requests)
                                        /\ Sent(req).stage = "sent" /\ Sent(req).req = req
           /\ Succeeds(call, 0) \in NewsCall(Requests)
           /\ Succeeds(call, 0).stage = "answered"
           /\ Fails(call) \in NewsCall(Requests) /\ Fails(call).stage = "answered"
  BY DEF NewsCall, Sent, Succeeds, Fails, NoCall

\* a step that rewrites one page, its link apart
LEMMA OneNewsTab ==
    ASSUME NewsShape, NEW t \in NewsTabs, NEW call \in NewsCall(NewsPresses),
           NEW done \in BOOLEAN,
           newsTabs' = [newsTabs EXCEPT ![t].call = call, ![t].done = done]
    PROVE  /\ newsTabs' \in [NewsTabs -> NewsTab]
           /\ newsTabs'[t].link = newsTabs[t].link /\ newsTabs'[t].call = call
           /\ \A u \in NewsTabs \ {t} : newsTabs'[u] = newsTabs[u]
  BY DEF NewsShape, NewsTab

LEMMA OneNewsCall ==
    ASSUME NewsShape, NEW t \in NewsTabs, NEW call \in NewsCall(NewsPresses),
           newsTabs' = [newsTabs EXCEPT ![t].call = call]
    PROVE  /\ newsTabs' \in [NewsTabs -> NewsTab]
           /\ newsTabs'[t].link = newsTabs[t].link /\ newsTabs'[t].call = call
           /\ \A u \in NewsTabs \ {t} : newsTabs'[u] = newsTabs[u]
  BY DEF NewsShape, NewsTab

----------------------------------------------------------------------------
LEMMA NewsInitInv == NewsInit => NewsInv
  <1> SUFFICES ASSUME NewsInit PROVE NewsInv
    OBVIOUS
  <1>1. NewsShape
    BY NoNewsShape DEF NewsInit, NewsShape, NoCall
  <1>2. TabsMatchLinks
    BY DEF NewsInit, TabsMatchLinks, TabMatchesLink, ClosedTab, NoCall
  <1>3. ConfirmedByItsOwner /\ NoReturnUnderWay
    BY DEF NewsInit, ConfirmedByItsOwner, NoReturnUnderWay, NoRow
  <1> QED BY <1>1, <1>2, <1>3 DEF NewsInv

\* a request for a link leaves an active row as it is, and makes none active
LEMMA SubscribedKeeps ==
    ASSUME NewsShape, NEW topics \in SUBSET TOPICS, Subscribed(topics)
    PROVE  /\ subscriber' \in NewsRow /\ newsTasks' \in SUBSET NewsTask
           /\ subscriber'.status = "active" => UNCHANGED subscriber
  <1> DEFINE row == IF subscriber.pk = 0
               THEN [pk |-> 1 + Cardinality({l \in LinkIds : links[l].kind # "none"}),
                     status |-> "pending", topics |-> topics]
               ELSE subscriber
  <1>1. row \in NewsRow
    <2>1. Cardinality({l \in LinkIds : links[l].kind # "none"}) \in Nat
      <3>1. IsFiniteSet({l \in LinkIds : links[l].kind # "none"})
        BY NewsAssumption, FS_Subset DEF NewsAssumption
      <3> QED BY <3>1, FS_CardinalityType
    <2> QED BY <2>1 DEF NewsShape, NewsRow
  <1>2. row.status = "active" => row = subscriber
    OBVIOUS
  <1>3. /\ subscriber' = RowAfter(row, topics)
        /\ newsTasks' = newsTasks \cup {[kind |-> "confirm", pk |-> row.pk,
           topics |-> topics]}
    BY DEF Subscribed
  <1> HIDE DEF row
  <1>4. subscriber' \in NewsRow
    BY <1>1, <1>3 DEF RowAfter, NewsRow
  <1>5. newsTasks' \in SUBSET NewsTask
    BY <1>1, <1>3 DEF NewsShape, NewsRow, NewsTask
  <1>6. subscriber'.status = "active" => UNCHANGED subscriber
    BY <1>1, <1>2, <1>3 DEF RowAfter, NewsRow
  <1> QED BY <1>4, <1>5, <1>6

\* steps that leave the links and the pages alone, and activate nothing
LEMMA RowStepKeeps ==
    ASSUME NewsInv, NewsShape', UNCHANGED <<links, newsTabs, mayReturn>>,
           subscriber'.status = "active" => UNCHANGED subscriber
    PROVE  NewsInv'
  <1>1. TabsMatchLinks'
    BY DEF NewsInv, TabsMatchLinks, TabMatchesLink
  <1>2. ConfirmedByItsOwner'
    BY DEF NewsInv, ConfirmedByItsOwner
  <1>3. NoReturnUnderWay'
    BY DEF NewsInv, NoReturnUnderWay, ConfirmUnderWay
  <1> QED BY <1>1, <1>2, <1>3 DEF NewsInv

LEMMA SignupKeeps ==
    ASSUME NewsInv, AskForLink \/ SignupSteps \/ StrangerSubscribes \/ StaffDeleteRow
    PROVE  NewsInv'
  <1> USE DEF NewsInv
  <1>1. CASE AskForLink
    <2>1. PICK picked \in SUBSET TOPICS : subscribing' = Sent(SubscribeNewsletter(picked))
      BY <1>1 DEF AskForLink
    <2>2. /\ subscribing' \in NewsCall(NewsAsks)
          /\ subscribing'.stage = "sent" => subscribing'.req.body \subseteq TOPICS
      <3>1. SubscribeNewsletter(picked) \in NewsAsks /\ NoRequest \in NewsAsks
        BY DEF NewsAsks
      <3>2. Sent(SubscribeNewsletter(picked)) \in NewsCall(NewsAsks)
            /\ Sent(SubscribeNewsletter(picked)).req = SubscribeNewsletter(picked)
        BY <3>1, NoNewsShape, NewsCalls
      <3>3. SubscribeNewsletter(picked).body = picked
        BY DEF SubscribeNewsletter, Request
      <3> QED BY <2>1, <3>2, <3>3
    <2>3. NewsShape'
      BY <1>1, <2>2 DEF NewsShape, AskForLink
    <2> QED BY <1>1, <2>3, RowStepKeeps DEF AskForLink
  <1>2. CASE ServeSubscribe
    <2>1. /\ subscribing' \in {Succeeds(subscribing, 0), Fails(subscribing)}
          /\ UNCHANGED <<asked, links, newsTabs, mayReturn>>
      BY <1>2 DEF ServeSubscribe
    <2>2. subscribing' \in NewsCall(NewsAsks) /\ subscribing'.stage = "answered"
      BY <2>1, NewsCalls DEF NewsShape, NewsAsks
    <2>3. /\ subscriber' \in NewsRow /\ newsTasks' \in SUBSET NewsTask
          /\ subscriber'.status = "active" => UNCHANGED subscriber
      BY <1>2, SubscribedKeeps DEF ServeSubscribe, NewsShape
    <2>4. NewsShape'
      BY <2>1, <2>2, <2>3 DEF NewsShape
    <2> QED BY <2>1, <2>3, <2>4, RowStepKeeps
  <1>3. CASE SubscribeAnswered
    <2>1. NewsShape'
      BY <1>3, NoNewsShape DEF NewsShape, SubscribeAnswered, NoCall
    <2> QED BY <1>3, <2>1, RowStepKeeps DEF SubscribeAnswered
  <1>4. CASE StrangerSubscribes
    <2>1. /\ subscriber' \in NewsRow /\ newsTasks' \in SUBSET NewsTask
          /\ subscriber'.status = "active" => UNCHANGED subscriber
      BY <1>4, SubscribedKeeps DEF StrangerSubscribes
    <2>2. NewsShape'
      BY <1>4, <2>1 DEF NewsShape, StrangerSubscribes
    <2> QED BY <1>4, <2>1, <2>2, RowStepKeeps DEF StrangerSubscribes
  <1>5. CASE StaffDeleteRow
    <2>1. subscriber' = NoRow /\ NoRow.status = "none"
      BY <1>5 DEF StaffDeleteRow, NoRow
    <2>2. NewsShape'
      BY <1>5, <2>1, NoNewsShape DEF NewsShape, StaffDeleteRow
    <2> QED BY <1>5, <2>1, <2>2, RowStepKeeps DEF StaffDeleteRow
  <1> QED BY <1>1, <1>2, <1>3, <1>4, <1>5 DEF SignupSteps

\* a mail takes a link that was none; whatever is known of the others stays
LEMMA MailKeeps == NewsInv /\ SendNewsMail => NewsInv'
  <1> SUFFICES ASSUME NewsInv, SendNewsMail PROVE NewsInv'
    OBVIOUS
  <1> USE DEF NewsInv
  <1>1. PICK task \in newsTasks, l \in LinkIds :
            /\ links[l].kind = "none" /\ newsTasks' = newsTasks \ {task}
            /\ links' = IF task.pk # subscriber.pk THEN links
                        ELSE [links EXCEPT ![l] =
                                 [NoLink EXCEPT !.pk = task.pk, !.topics = task.topics,
                                     !.kind = IF task.kind = "confirm" THEN "confirm"
                                                                       ELSE "unsubscribe"]]
            /\ UNCHANGED <<newsVisit, subscribing, asked, subscriber, newsTabs, mayReturn>>
    BY DEF SendNewsMail
  <1>2. links' \in [LinkIds -> NewsLink] /\ \A k \in LinkIds \ {l} : links'[k] = links[k]
    <2> DEFINE new == [NoLink EXCEPT !.pk = task.pk, !.topics = task.topics,
                          !.kind = IF task.kind = "confirm" THEN "confirm" ELSE "unsubscribe"]
    <2>1. new \in NewsLink
      BY NoNewsShape DEF NewsShape, NewsTask, NewsLink
    <2> HIDE DEF new
    <2>2. links' = links \/ links' = [links EXCEPT ![l] = new]
      BY <1>1 DEF new
    <2> QED BY <2>1, <2>2 DEF NewsShape
  <1>3. NewsShape'
    BY <1>1, <1>2 DEF NewsShape
  <1>4. \A t \in NewsTabs : newsTabs[t].link \in (LinkIds \cup {0}) \ {l}
    BY <1>1, NewsAssumption DEF NewsShape, NewsTab, TabsMatchLinks, TabMatchesLink,
       NewsAssumption
  <1>5. TabsMatchLinks'
    BY <1>1, <1>2, <1>4 DEF TabsMatchLinks, TabMatchesLink
  <1>6. ConfirmedByItsOwner'
    BY <1>1, <1>2 DEF ConfirmedByItsOwner
  <1>7. NoReturnUnderWay'
    BY <1>1 DEF NoReturnUnderWay, ConfirmUnderWay
  <1> QED BY <1>3, <1>5, <1>6, <1>7

LEMMA ExpireKeeps == ASSUME NewsInv, NEW l \in LinkIds, ExpireLink(l) PROVE NewsInv'
  <1> USE DEF NewsInv
  <1>1. /\ links' \in [LinkIds -> NewsLink]
        /\ \A k \in LinkIds : /\ links'[k].kind = links[k].kind /\ links'[k].pk = links[k].pk
                              /\ links'[k].topics = links[k].topics
                              /\ links'[k].pressed = links[k].pressed
    BY DEF ExpireLink, NewsShape, NewsLink
  <1>2. NewsShape'
    BY <1>1 DEF ExpireLink, NewsShape
  <1>3. TabsMatchLinks'
    BY <1>1, NewsAssumption DEF ExpireLink, TabsMatchLinks, TabMatchesLink, NewsShape,
       NewsTab, NewsAssumption
  <1>4. ConfirmedByItsOwner' /\ NoReturnUnderWay'
    BY <1>1 DEF ExpireLink, ConfirmedByItsOwner, NoReturnUnderWay, ConfirmUnderWay
  <1> QED BY <1>2, <1>3, <1>4

LEMMA OpenLinkKeeps ==
    ASSUME NewsInv, NEW t \in NewsTabs, NEW l \in LinkIds, OpenLink(t, l) PROVE NewsInv'
  <1> USE DEF NewsInv
  <1>1. /\ newsTabs' \in [NewsTabs -> NewsTab]
        /\ newsTabs'[t].link = l /\ newsTabs'[t].call = NoCall
        /\ \A u \in NewsTabs \ {t} : newsTabs'[u] = newsTabs[u]
    <2>1. newsTabs[t] = ClosedTab /\ newsTabs' = [newsTabs EXCEPT ![t].link = l]
      BY DEF OpenLink
    <2>2. newsTabs[t] \in NewsTab /\ newsTabs[t].call = NoCall
      BY <2>1, NoNewsShape DEF ClosedTab
    <2> QED BY <2>1, <2>2 DEF NewsShape, NewsTab
  <1>2. NewsShape'
    BY <1>1 DEF OpenLink, NewsShape
  <1>3. TabsMatchLinks'
    BY <1>1 DEF OpenLink, TabsMatchLinks, TabMatchesLink, NoCall
  <1>4. ConfirmedByItsOwner' /\ NoReturnUnderWay'
    BY <1>1 DEF OpenLink, ConfirmedByItsOwner, NoReturnUnderWay, ConfirmUnderWay, NoCall
  <1> QED BY <1>2, <1>3, <1>4

\* the button: the link counts as pressed before its call leaves
LEMMA PressLinkKeeps == ASSUME NewsInv, NEW t \in NewsTabs, PressLink(t) PROVE NewsInv'
  <1> DEFINE l == newsTabs[t].link
             req == IF links[l].kind = "confirm" THEN ConfirmNewsletter(l)
                                                 ELSE UnsubscribeNewsletter(l)
  <1> USE DEF NewsInv
  <1>1. l \in LinkIds /\ links[l] \in NewsLink
    BY DEF PressLink, NewsShape, NewsTab
  <1>2. /\ req \in NewsPresses
        /\ req.op = "ConfirmNewsletter" <=> links[l].kind = "confirm"
    BY <1>1 DEF NewsPresses, ConfirmNewsletter, UnsubscribeNewsletter, Request
  <1>3. /\ newsTabs' = [newsTabs EXCEPT ![t].call = Sent(req)]
        /\ links' = [links EXCEPT ![l].pressed = TRUE]
        /\ mayReturn' = (mayReturn \/ links[l].kind = "confirm")
        /\ UNCHANGED <<newsVisit, subscribing, asked, subscriber, newsTasks>>
    BY DEF PressLink
  <1> HIDE DEF l, req
  <1>4. Sent(req) \in NewsCall(NewsPresses) /\ Sent(req).stage = "sent" /\ Sent(req).req = req
    <2>1. NoRequest \in NewsPresses
      BY DEF NewsPresses
    <2>2. NoCall \in NewsCall(NewsPresses)
      BY NoNewsShape
    <2> QED BY <1>2, <2>1, <2>2, NewsCalls
  <1>5. /\ newsTabs' \in [NewsTabs -> NewsTab]
        /\ newsTabs'[t].link = l /\ newsTabs'[t].call = Sent(req)
        /\ \A u \in NewsTabs \ {t} : newsTabs'[u] = newsTabs[u]
    BY <1>3, <1>4, OneNewsCall DEF l
  <1>6. /\ links' \in [LinkIds -> NewsLink] /\ links'[l].pressed
        /\ \A k \in LinkIds : /\ links'[k].kind = links[k].kind /\ links'[k].pk = links[k].pk
                              /\ links'[k].topics = links[k].topics
                              /\ links[k].pressed => links'[k].pressed
    BY <1>1, <1>3 DEF NewsShape, NewsLink
  <1>7. mayReturn' \in BOOLEAN
    BY <1>3 DEF NewsShape
  <1>8. NewsShape'
    BY <1>3, <1>5, <1>6, <1>7 DEF NewsShape
  <1>9. TabsMatchLinks'
    <2>1. TabMatchesLink(t)'
      BY <1>1, <1>2, <1>4, <1>5, <1>6, NewsAssumption, ZenonT(30) DEF TabsMatchLinks, TabMatchesLink, l,
         NewsAssumption
    <2>2. ASSUME NEW u \in NewsTabs \ {t} PROVE TabMatchesLink(u)'
      BY <1>5, <1>6 DEF TabsMatchLinks, TabMatchesLink, NewsShape, NewsTab
    <2> QED BY <2>1, <2>2 DEF TabsMatchLinks
  <1>10. ConfirmedByItsOwner'
    BY <1>3, <1>6 DEF ConfirmedByItsOwner
  <1>11. NoReturnUnderWay'
    <2>1. CASE links[l].kind = "confirm"
      BY <1>3, <2>1 DEF NoReturnUnderWay
    <2>2. CASE links[l].kind # "confirm"
      BY <1>2, <1>3, <1>4, <1>5, <2>2 DEF NoReturnUnderWay, ConfirmUnderWay, NewsShape
    <2> QED BY <2>1, <2>2
  <1> QED BY <1>8, <1>9, <1>10, <1>11

\* the server: a confirmation makes the row what its link says, and was pressed;
\* an unsubscription with no confirmation under way leaves none under way
LEMMA ServeLinkKeeps == ASSUME NewsInv, NEW t \in NewsTabs, ServeLink(t) PROVE NewsInv'
  <1> DEFINE l == newsTabs[t].link
             call == newsTabs[t].call
  <1> USE DEF NewsInv
  <1>1. /\ call \in NewsCall(NewsPresses) /\ call.stage = "sent"
        /\ UNCHANGED <<newsVisit, subscribing, asked, links>>
    BY DEF ServeLink, NewsShape, NewsTab
  <1>2. /\ l \in LinkIds /\ links[l] \in NewsLink /\ links[l].pressed
        /\ call.req.op = "ConfirmNewsletter" <=> links[l].kind = "confirm"
    BY <1>1 DEF TabsMatchLinks, TabMatchesLink, NewsShape, NewsTab
  <1>3. PICK after \in {Succeeds(call, 0), Fails(call)} :
            newsTabs' = [newsTabs EXCEPT ![t].call = after]
    BY DEF ServeLink
  <1>4. after \in NewsCall(NewsPresses) /\ after.stage = "answered"
    BY <1>1, <1>3, NewsCalls DEF NewsPresses
  <1>5. /\ newsTabs' \in [NewsTabs -> NewsTab]
        /\ newsTabs'[t].link = l /\ newsTabs'[t].call = after
        /\ \A u \in NewsTabs \ {t} : newsTabs'[u] = newsTabs[u]
    BY <1>3, <1>4, OneNewsCall
  <1>6. ConfirmUnderWay' => ConfirmUnderWay
    BY <1>4, <1>5 DEF ConfirmUnderWay
  <1>7. TabsMatchLinks'
    BY <1>1, <1>4, <1>5 DEF TabsMatchLinks, TabMatchesLink
  <1>8. CASE UNCHANGED <<subscriber, newsTasks, mayReturn>>
    <2>1. NewsShape'
      BY <1>1, <1>5, <1>8 DEF NewsShape
    <2> QED BY <1>1, <1>6, <1>7, <1>8, <2>1 DEF ConfirmedByItsOwner, NoReturnUnderWay
  <1>9. CASE links[l].kind = "confirm" /\ links[l].pk = subscriber.pk /\ Confirmed(links[l])
    <2>1. /\ subscriber' \in NewsRow /\ subscriber'.status = "active"
          /\ subscriber'.pk = links[l].pk /\ subscriber'.topics = links[l].topics
      BY <1>2, <1>9 DEF Confirmed, NewsShape, NewsRow, NewsLink
    <2>2. newsTasks' \in SUBSET NewsTask
      BY <1>2, <1>9 DEF Confirmed, NewsShape, NewsTask, NewsLink
    <2>3. NewsShape'
      BY <1>1, <1>5, <1>9, <2>1, <2>2 DEF NewsShape, Confirmed
    <2>4. ConfirmedByItsOwner'
      BY <1>1, <1>2, <1>9, <2>1 DEF ConfirmedByItsOwner
    <2>5. mayReturn /\ mayReturn' = mayReturn
      BY <1>1, <1>2, <1>9 DEF NoReturnUnderWay, ConfirmUnderWay, Confirmed
    <2> QED BY <1>7, <2>3, <2>4, <2>5 DEF NoReturnUnderWay
  <1>10. CASE Unsubscribed
    <2>1. subscriber' \in NewsRow /\ subscriber'.status = "unsubscribed"
      BY <1>10 DEF Unsubscribed, NewsShape, NewsRow
    <2>2. mayReturn' \in BOOLEAN /\ (mayReturn' \/ ~ConfirmUnderWay)
      BY <1>10 DEF Unsubscribed, ConfirmUnderWay
    <2>3. NewsShape'
      BY <1>1, <1>5, <1>10, <2>1, <2>2 DEF NewsShape, Unsubscribed
    <2> QED BY <1>6, <1>7, <2>1, <2>2, <2>3 DEF ConfirmedByItsOwner, NoReturnUnderWay
  <1> QED BY <1>8, <1>9, <1>10 DEF ServeLink

LEMMA LinkAnsweredKeeps ==
    ASSUME NewsInv, NEW t \in NewsTabs, LinkAnswered(t)
    PROVE  NewsInv'
  <1> USE DEF NewsInv
  <1>1. newsTabs[t].call.ok \in BOOLEAN
    BY DEF NewsShape, NewsTab, NewsCall
  <1>2. /\ newsTabs' \in [NewsTabs -> NewsTab]
        /\ newsTabs'[t].link = newsTabs[t].link /\ newsTabs'[t].call = NoCall
        /\ \A u \in NewsTabs \ {t} : newsTabs'[u] = newsTabs[u]
    BY <1>1, NoNewsShape, OneNewsTab DEF LinkAnswered
  <1>3. NewsShape'
    BY <1>2 DEF NewsShape, LinkAnswered
  <1>4. TabsMatchLinks'
    BY <1>2 DEF TabsMatchLinks, TabMatchesLink, NoCall, LinkAnswered
  <1>5. ConfirmedByItsOwner' /\ NoReturnUnderWay'
    BY <1>2 DEF ConfirmedByItsOwner, NoReturnUnderWay, ConfirmUnderWay, NoCall, LinkAnswered
  <1> QED BY <1>3, <1>4, <1>5

LEMMA NewsNextInv == NewsInv /\ [NewsNext]_newsVars => NewsInv'
  <1> SUFFICES ASSUME NewsInv, [NewsNext]_newsVars PROVE NewsInv'
    OBVIOUS
  <1>1. CASE UNCHANGED newsVars
    BY <1>1 DEF newsVars, NewsInv, NewsShape, TabsMatchLinks, TabMatchesLink,
       ConfirmedByItsOwner, NoReturnUnderWay, ConfirmUnderWay
  <1>2. CASE NewsNext
    BY <1>2, SignupKeeps, MailKeeps, ExpireKeeps, OpenLinkKeeps, PressLinkKeeps,
       ServeLinkKeeps, LinkAnsweredKeeps DEF NewsNext, NewsReader, NewsTabSteps
  <1> QED BY <1>1, <1>2

\* The rows, links and pages fit together in every behaviour: the invariant that
\* the theorems below are read off.
THEOREM NewsInvariant == NewsSpec => []NewsInv
  BY NewsInitInv, NewsNextInv, PTL DEF NewsSpec

\* The row, the links and the pages keep their types: a link's topics are topics,
\* and a page is of one of the links.
THEOREM NewsTypeCorrect == NewsSpec => []NewsTypeOK
  <1>1. NewsInv => NewsTypeOK
    BY DEF NewsInv, NewsShape, NewsRow, NewsLink, NewsTab, NewsTypeOK
  <1> QED BY <1>1, NewsInvariant, PTL

\* services.py: double opt-in, for any strangers, late mails and lost answers.
THEOREM DoubleOptIn == NewsSpec => []ConfirmedByItsOwner
  <1>1. NewsInv => ConfirmedByItsOwner
    BY DEF NewsInv
  <1> QED BY <1>1, NewsInvariant, PTL

\* services.py: an unsubscription stands until a confirmation is pressed after it.
THEOREM UnsubscriptionStands == NewsSpec => []UnsubscribedStays
  <1>1. NewsInv => UnsubscribedStays
    BY DEF NewsInv, NoReturnUnderWay, UnsubscribedStays
  <1> QED BY <1>1, NewsInvariant, PTL

----------------------------------------------------------------------------
(* Proofs about CodeForms, for any set of addresses and any number of mails   *)
(* and typed codes.                                                           *)
(*                                                                            *)
(* What the second step and an entry rest on is true of the server long       *)
(* before the page shows it: an answer of the API that is still on its way    *)
(* already names an address a code was mailed to, or a code already used.     *)
(* The invariant says so of the two hooks, and that on a claim's page a code  *)
(* is only checked once the second step is shown.                             *)

MailedCode == [to : Addresses, used : BOOLEAN]
CodeClaims == [email : Addresses \cup {"", "earlier"}, verified : BOOLEAN]
AskRequests == {RequestEmailLogin(to) : to \in Addresses}
                   \cup {ClaimTool("tool", to) : to \in Addresses}
CheckRequests == {ConfirmEmailLogin(to, code) : to \in Addresses, code \in Nat}
                     \cup {VerifyToolClaim("claim", code) : code \in Nat}
CodeCalls(requests) ==
    [stage : {"idle", "sent", "answered", "thrown"}, req : {NoRequest} \cup requests,
     ok : BOOLEAN, data : Addresses \cup {"", "earlier", 0}]

CodeShape ==
    /\ codeForm \in {"signin", "claim"}
    /\ email \in Addresses \cup {""} /\ sentTo \in Addresses \cup {""}
    /\ codes \in Seq(MailedCode) /\ myClaim \in CodeClaims
    /\ wrongCode \in BOOLEAN
    /\ asking \in CodeCalls(AskRequests) /\ checking \in CodeCalls(CheckRequests)

\* each hook sends what its form sends; a claim's code is typed on the second step
HooksMatchForm ==
    /\ asking.stage # "idle" =>
          /\ asking.req.body \in Addresses
          /\ asking.req.op = "RequestEmailLogin" <=> codeForm = "signin"
    /\ checking.stage # "idle" =>
          /\ codeForm = "claim" => sentTo # ""
          /\ checking.req.op = "ConfirmEmailLogin" <=> codeForm = "signin"

\* what the second step says of an address, and what an entry says of it
Reached(to) == IF codeForm = "signin" THEN to \in Deactivated \/ Newest(to) # {}
                                      ELSE myClaim.email = to
Theirs(to) ==
    /\ \E i \in DOMAIN codes : codes[i].to = to /\ codes[i].used
    /\ codeForm = "claim" => myClaim.verified /\ to = myClaim.email /\ sentTo # ""

AnswersAreSo ==
    /\ asking.stage = "answered" /\ asking.ok => Reached(asking.req.body)
    /\ sentTo # "" => Reached(sentTo)
    /\ checking.stage = "answered" /\ checking.ok => Theirs(checking.data)
    /\ entered # "" => Theirs(entered)

CodeInv == CodeShape /\ HooksMatchForm /\ AnswersAreSo

----------------------------------------------------------------------------
LEMMA CodeConstants == "" \notin Addresses /\ Deactivated \subseteq Addresses
  BY CodeFormsAssumption DEF CodeFormsAssumption

\* what the requests say
LEMMA AskRequestsSay ==
    ASSUME NEW to \in Addresses
    PROVE  /\ RequestEmailLogin(to) \in AskRequests /\ ClaimTool("tool", to) \in AskRequests
           /\ RequestEmailLogin(to).op = "RequestEmailLogin" /\ RequestEmailLogin(to).body = to
           /\ ClaimTool("tool", to).op = "ClaimTool" /\ ClaimTool("tool", to).body = to
  BY DEF AskRequests, RequestEmailLogin, ClaimTool, Request

LEMMA CheckRequestsSay ==
    ASSUME NEW to \in Addresses, NEW code \in Nat
    PROVE  /\ ConfirmEmailLogin(to, code) \in CheckRequests
           /\ VerifyToolClaim("claim", code) \in CheckRequests
           /\ ConfirmEmailLogin(to, code).op = "ConfirmEmailLogin"
           /\ VerifyToolClaim("claim", code).op = "VerifyToolClaim"
  BY DEF CheckRequests, ConfirmEmailLogin, VerifyToolClaim, Request

\* sending and answering keep a call a call
LEMMA CodeCallSent ==
    ASSUME NEW Requests, NEW req \in Requests
    PROVE  /\ NoCall \in CodeCalls(Requests) /\ NoCall.stage = "idle"
           /\ Sent(req) \in CodeCalls(Requests) /\ Sent(req).stage = "sent"
           /\ Sent(req).req = req
  BY DEF CodeCalls, Sent, NoCall

LEMMA CodeCallAnswered ==
    ASSUME NEW Requests, NEW call \in CodeCalls(Requests),
           NEW data \in Addresses \cup {"", "earlier", 0}
    PROVE  /\ Succeeds(call, data) \in CodeCalls(Requests)
           /\ Succeeds(call, data).stage = "answered" /\ Succeeds(call, data).ok
           /\ Succeeds(call, data).data = data /\ Succeeds(call, data).req = call.req
           /\ Fails(call) \in CodeCalls(Requests) /\ Fails(call).stage = "answered"
           /\ Fails(call).req = call.req /\ ~Fails(call).ok
  BY DEF CodeCalls, Succeeds, Fails

LEMMA NoCodeCall ==
    ASSUME NEW Requests
    PROVE  NoCall \in CodeCalls(Requests) /\ NoCall.stage = "idle"
  BY DEF CodeCalls, NoCall

\* a mail more reaches its address and takes nothing from the others
LEMMA MailedReaches ==
    ASSUME CodeShape, NEW to \in Addresses, codes' = Mailed(to)
    PROVE  /\ codes' \in Seq(MailedCode) /\ Newest(to)' # {}
           /\ \A a : Newest(a) # {} => Newest(a)' # {}
           /\ \A i \in DOMAIN codes : i \in DOMAIN codes' /\ codes'[i] = codes[i]
  <1> DEFINE mail == [to |-> to, used |-> FALSE]
  <1>1. mail \in MailedCode /\ mail.to = to
    BY DEF MailedCode
  <1> HIDE DEF mail
  <1>2. /\ codes' \in Seq(MailedCode) /\ Len(codes) \in Nat
        /\ DOMAIN codes = 1 .. Len(codes) /\ DOMAIN codes' = 1 .. Len(codes) + 1
        /\ codes'[Len(codes) + 1] = mail
        /\ \A i \in DOMAIN codes : codes'[i] = codes[i]
    <2>1. codes \in Seq(MailedCode)
      BY DEF CodeShape
    <2>2. codes' = Append(codes, mail)
      BY DEF Mailed, mail
    <2> QED BY <1>1, <2>1, <2>2, AppendProperties, LenProperties
  <1>3. Len(codes) + 1 \in Newest(to)'
    BY <1>1, <1>2 DEF Newest
  <1>4. ASSUME NEW a, Newest(a) # {}, a # to PROVE Newest(a)' # {}
    <2>1. PICK i \in Newest(a) : TRUE
      BY <1>4
    <2>2. i \in Newest(a)'
      BY <2>1, <1>1, <1>2, <1>4 DEF Newest
    <2> QED BY <2>2
  <1> QED BY <1>2, <1>3, <1>4

\* a code used is the newest of its address still
LEMMA UsedReaches ==
    ASSUME CodeShape, NEW to, NEW code, RightCode(to, code),
           codes' = [codes EXCEPT ![code].used = TRUE]
    PROVE  /\ codes' \in Seq(MailedCode) /\ to \in Addresses
           /\ \A a : Newest(a) # {} => Newest(a)' # {}
           /\ DOMAIN codes' = DOMAIN codes
           /\ \A i \in DOMAIN codes : /\ codes'[i].to = codes[i].to
                                      /\ codes[i].used => codes'[i].used
           /\ code \in DOMAIN codes /\ codes'[code].to = to /\ codes'[code].used
  <1>1. code \in DOMAIN codes /\ codes[code].to = to
    BY DEF RightCode, Newest
  <1>2. codes \in Seq(MailedCode) /\ DOMAIN codes = 1 .. Len(codes) /\ Len(codes) \in Nat
        /\ \A i \in DOMAIN codes : codes[i] \in MailedCode
    BY LenProperties, ElementOfSeq DEF CodeShape
  <1>3. [codes[code] EXCEPT !.used = TRUE] \in MailedCode
    BY <1>1, <1>2 DEF MailedCode
  <1>4. codes' = [codes EXCEPT ![code] = [codes[code] EXCEPT !.used = TRUE]]
    OBVIOUS
  <1>5. codes' \in Seq(MailedCode)
    BY <1>1, <1>2, <1>3, <1>4, ExceptSeq
  <1>6. /\ DOMAIN codes' = DOMAIN codes
        /\ \A i \in DOMAIN codes : /\ codes'[i].to = codes[i].to
                                   /\ codes[i].used => codes'[i].used
        /\ codes'[code].to = to /\ codes'[code].used
    BY <1>1, <1>2, <1>3 DEF MailedCode
  <1>7. \A a : Newest(a)' = Newest(a)
    BY <1>6 DEF Newest
  <1> QED BY <1>1, <1>2, <1>5, <1>6, <1>7 DEF MailedCode

----------------------------------------------------------------------------
LEMMA CodeInitHolds == CodeInit => CodeInv
  <1> SUFFICES ASSUME CodeInit PROVE CodeInv
    OBVIOUS
  <1>1. myClaim \in CodeClaims
    <2>1. NoClaimYet \in CodeClaims /\ [NoClaimYet EXCEPT !.email = "earlier"] \in CodeClaims
      BY DEF NoClaimYet, CodeClaims
    <2> QED BY <2>1 DEF CodeInit
  <1>2. codes \in Seq(MailedCode)
    BY EmptySeq DEF CodeInit
  <1>3. CodeShape
    BY <1>1, <1>2, NoCodeCall DEF CodeInit, CodeShape
  <1> QED BY <1>3, NoCodeCall DEF CodeInit, CodeInv, HooksMatchForm, AnswersAreSo

\* typing, and the reader's own listings being read
LEMMA TypingKeeps == CodeInv /\ (ListingsRead \/ TypeEmail) => CodeInv'
  <1> SUFFICES ASSUME CodeInv, ListingsRead \/ TypeEmail PROVE CodeInv'
    OBVIOUS
  <1>1. /\ email' \in Addresses \cup {""}
        /\ UNCHANGED <<codeForm, asking, sentTo, checking, wrongCode, entered, codes, myClaim>>
    BY DEF ListingsRead, TypeEmail, CodeInv, CodeShape
  <1> QED BY <1>1 DEF CodeInv, CodeShape, HooksMatchForm, AnswersAreSo, Reached, Theirs, Newest

LEMMA AskKeeps == CodeInv /\ AskForCode => CodeInv'
  <1> SUFFICES ASSUME CodeInv, AskForCode PROVE CodeInv'
    OBVIOUS
  <1> DEFINE req == IF codeForm = "signin" THEN RequestEmailLogin(email)
                                           ELSE ClaimTool("tool", email)
  <1> USE DEF CodeInv
  <1>1. email \in Addresses
    BY DEF AskForCode, CodeShape
  <1>2. /\ req \in AskRequests /\ req.body \in Addresses
        /\ req.op = "RequestEmailLogin" <=> codeForm = "signin"
    BY <1>1, AskRequestsSay DEF CodeShape
  <1>3. /\ asking' = Sent(req)
        /\ UNCHANGED <<codeForm, email, sentTo, checking, wrongCode, entered, codes, myClaim>>
    BY DEF AskForCode
  <1> HIDE DEF req
  <1>4. asking' \in CodeCalls(AskRequests) /\ asking'.stage = "sent" /\ asking'.req = req
    BY <1>2, <1>3, CodeCallSent DEF CodeShape
  <1>5. CodeShape'
    BY <1>3, <1>4 DEF CodeShape
  <1>6. HooksMatchForm'
    BY <1>2, <1>3, <1>4 DEF HooksMatchForm
  <1>7. AnswersAreSo'
    BY <1>3, <1>4 DEF AnswersAreSo, Reached, Theirs, Newest
  <1> QED BY <1>5, <1>6, <1>7

LEMMA CodeAskedKeeps == CodeInv /\ CodeAsked => CodeInv'
  <1> SUFFICES ASSUME CodeInv, CodeAsked PROVE CodeInv'
    OBVIOUS
  <1> USE DEF CodeInv
  <1>1. /\ asking.stage = "answered" /\ asking.req.body \in Addresses /\ asking' = NoCall
        /\ sentTo' = IF asking.ok THEN asking.req.body ELSE sentTo
        /\ UNCHANGED <<codeForm, email, checking, wrongCode, entered, codes, myClaim>>
    BY DEF CodeAsked, AddressAsked, HooksMatchForm
  <1>2. CodeShape' /\ HooksMatchForm'
    BY <1>1, CodeConstants, NoCodeCall DEF CodeShape, HooksMatchForm
  <1>3. AnswersAreSo'
    <2>1. \A a : /\ Reached(a)' <=> Reached(a)
                 /\ Theirs(a) => Theirs(a)'
      BY <1>1, CodeConstants DEF Reached, Theirs, Newest
    <2> QED BY <1>1, <2>1, NoCodeCall DEF AnswersAreSo
  <1> QED BY <1>2, <1>3

LEMMA BackKeeps == CodeInv /\ UseDifferentEmail => CodeInv'
  <1> SUFFICES ASSUME CodeInv, UseDifferentEmail PROVE CodeInv'
    OBVIOUS
  <1> USE DEF CodeInv
  <1>1. /\ codeForm = "signin" /\ sentTo' = "" /\ wrongCode' = FALSE
        /\ UNCHANGED <<codeForm, email, asking, checking, entered, codes, myClaim>>
    BY DEF UseDifferentEmail
  <1>2. CodeShape' /\ HooksMatchForm'
    BY <1>1 DEF CodeShape, HooksMatchForm
  <1>3. AnswersAreSo'
    BY <1>1 DEF AnswersAreSo, Reached, Theirs, Newest
  <1> QED BY <1>2, <1>3

LEMMA SubmitKeeps == CodeInv /\ SubmitCode => CodeInv'
  <1> SUFFICES ASSUME CodeInv, SubmitCode PROVE CodeInv'
    OBVIOUS
  <1> USE DEF CodeInv
  <1>1. /\ sentTo \in Addresses /\ wrongCode' = FALSE
        /\ UNCHANGED <<codeForm, email, asking, sentTo, entered, codes, myClaim>>
    BY DEF SubmitCode, CodeShape
  <1>2. PICK code \in {0} \cup DOMAIN codes :
           checking' = Sent(IF codeForm = "signin" THEN ConfirmEmailLogin(sentTo, code)
                                                   ELSE VerifyToolClaim("claim", code))
    BY DEF SubmitCode
  <1> DEFINE req == IF codeForm = "signin" THEN ConfirmEmailLogin(sentTo, code)
                                           ELSE VerifyToolClaim("claim", code)
  <1>3. code \in Nat
    <2>1. codes \in Seq(MailedCode)
      BY DEF CodeShape
    <2>2. DOMAIN codes = 1 .. Len(codes) /\ Len(codes) \in Nat
      BY <2>1, LenProperties
    <2> QED BY <1>2, <2>2
  <1>4. /\ req \in CheckRequests
        /\ req.op = "ConfirmEmailLogin" <=> codeForm = "signin"
    BY <1>1, <1>3, CheckRequestsSay DEF CodeShape
  <1>5. checking' = Sent(req)
    BY <1>2
  <1> HIDE DEF req
  <1>6. checking' \in CodeCalls(CheckRequests) /\ checking'.stage = "sent" /\ checking'.req = req
    BY <1>4, <1>5, CodeCallSent DEF CodeShape
  <1>7. CodeShape'
    BY <1>1, <1>6 DEF CodeShape
  <1>8. HooksMatchForm'
    BY <1>1, <1>4, <1>6, CodeConstants DEF HooksMatchForm
  <1>9. AnswersAreSo'
    BY <1>1, <1>6 DEF AnswersAreSo, Reached, Theirs, Newest
  <1> QED BY <1>7, <1>8, <1>9

\* the server on a request for a code
LEMMA ServeCodeKeeps == CodeInv /\ ServeCode => CodeInv'
  <1> SUFFICES ASSUME CodeInv, ServeCode PROVE CodeInv'
    OBVIOUS
  <1> USE DEF CodeInv
  <1>1. PICK to \in Addresses : to = asking.req.body
    BY DEF ServeCode, HooksMatchForm
  <1>2. /\ asking.stage = "sent" /\ asking \in CodeCalls(AskRequests)
        /\ UNCHANGED <<codeForm, email, sentTo, checking, wrongCode, entered>>
    BY DEF ServeCode, CodeShape
  <1>3. /\ asking' \in CodeCalls(AskRequests) /\ asking'.stage = "answered"
        /\ asking'.req = asking.req
    <2>1. asking' \in {Succeeds(asking, to), Fails(asking)}
      BY <1>1 DEF ServeCode
    <2>2. to \in Addresses \cup {"", "earlier", 0}
      OBVIOUS
    <2>3. /\ Succeeds(asking, to) \in CodeCalls(AskRequests)
          /\ Succeeds(asking, to).stage = "answered" /\ Succeeds(asking, to).req = asking.req
          /\ Fails(asking) \in CodeCalls(AskRequests)
          /\ Fails(asking).stage = "answered" /\ Fails(asking).req = asking.req
      BY <1>2, <2>2 DEF CodeCalls, Succeeds, Fails
    <2> QED BY <2>1, <2>3
  <1>4. HooksMatchForm'
    BY <1>2, <1>3 DEF HooksMatchForm
  <1> SUFFICES /\ codes' \in Seq(MailedCode) /\ myClaim' \in CodeClaims
               /\ asking'.ok => Reached(to)'
               /\ sentTo # "" => Reached(sentTo)'
               /\ \A a : Theirs(a) => Theirs(a)'
    <2>1. CodeShape'
      BY <1>2, <1>3 DEF CodeShape
    <2>2. AnswersAreSo'
      BY <1>1, <1>2, <1>3 DEF AnswersAreSo
    <2> QED BY <1>4, <2>1, <2>2
  <1> USE DEF CodeShape
  <1>5. CASE asking.req.op = "RequestEmailLogin" /\ codes' = Mailed(to) /\ UNCHANGED myClaim
    <2>1. codeForm = "signin"
      BY <1>2, <1>5 DEF HooksMatchForm
    <2>2. /\ codes' \in Seq(MailedCode) /\ Newest(to)' # {}
          /\ \A a : Newest(a) # {} => Newest(a)' # {}
          /\ \A i \in DOMAIN codes : i \in DOMAIN codes' /\ codes'[i] = codes[i]
      BY <1>5, MailedReaches
    <2>3. sentTo # "" => Reached(sentTo)'
      BY <1>2, <2>1, <2>2 DEF AnswersAreSo, Reached
    <2>4. \A a : Theirs(a) => Theirs(a)'
      BY <1>2, <2>1, <2>2 DEF Theirs
    <2> QED BY <1>2, <1>5, <2>1, <2>2, <2>3, <2>4 DEF Reached
  <1>6. CASE /\ asking.req.op = "RequestEmailLogin" /\ UNCHANGED <<codes, myClaim>>
             /\ to \in Deactivated \/ Newest(to) # {}
    <2>1. codeForm = "signin"
      BY <1>2, <1>6 DEF HooksMatchForm
    <2> QED BY <1>2, <1>6, <2>1 DEF AnswersAreSo, Reached, Theirs, Newest
  <1>7. CASE /\ asking.req.op = "ClaimTool" /\ myClaim = NoClaimYet
             /\ codes' \in {codes, Mailed(to)}
             /\ myClaim' = [email |-> to, verified |-> FALSE]
    <2>1. codeForm = "claim"
      BY <1>2, <1>7 DEF HooksMatchForm
    <2>2. sentTo = ""
      BY <1>7, <2>1 DEF NoClaimYet, AnswersAreSo, Reached
    <2>3. codes' \in Seq(MailedCode)
      BY <1>7, MailedReaches
    <2>4. myClaim' \in CodeClaims /\ myClaim'.email = to
      BY <1>7 DEF CodeClaims
    <2> QED BY <1>2, <2>1, <2>2, <2>3, <2>4 DEF Reached, Theirs
  <1>8. CASE asking' = Fails(asking) /\ UNCHANGED <<codes, myClaim>>
    <2>1. ~asking'.ok
      BY <1>2, <1>8, CodeCallAnswered
    <2> QED BY <1>2, <1>8, <2>1 DEF AnswersAreSo, Reached, Theirs, Newest
  <1> QED BY <1>1, <1>5, <1>6, <1>7, <1>8 DEF ServeCode

\* the server on a typed code
LEMMA ServeCheckKeeps == CodeInv /\ ServeCheck => CodeInv'
  <1> SUFFICES ASSUME CodeInv, ServeCheck PROVE CodeInv'
    OBVIOUS
  <1> USE DEF CodeInv
  <1>1. /\ checking.stage = "sent" /\ checking \in CodeCalls(CheckRequests)
        /\ checking.req.op = "ConfirmEmailLogin" <=> codeForm = "signin"
        /\ codeForm = "claim" => sentTo # ""
        /\ UNCHANGED <<codeForm, email, asking, sentTo, wrongCode, entered>>
    BY DEF ServeCheck, HooksMatchForm, CodeShape
  <1>2. CASE checking' = Fails(checking) /\ UNCHANGED <<codes, myClaim>>
    <2>1. /\ checking' \in CodeCalls(CheckRequests) /\ checking'.stage = "answered"
          /\ checking'.req = checking.req /\ ~checking'.ok
      BY <1>1, <1>2, CodeCallAnswered
    <2>2. CodeShape' /\ HooksMatchForm'
      BY <1>1, <1>2, <2>1 DEF CodeShape, HooksMatchForm
    <2>3. AnswersAreSo'
      BY <1>1, <1>2, <2>1 DEF AnswersAreSo, Reached, Theirs, Newest
    <2> QED BY <2>2, <2>3
  <1>3. ASSUME NEW to, NEW code, RightCode(to, code),
               to = IF codeForm = "signin" THEN checking.req.path[1] ELSE myClaim.email,
               codes' = [codes EXCEPT ![code].used = TRUE],
               myClaim' = IF codeForm = "signin" THEN myClaim
                          ELSE [myClaim EXCEPT !.verified = TRUE],
               checking' \in {Succeeds(checking, to), Fails(checking)}
        PROVE  CodeInv'
    <2>1. /\ codes' \in Seq(MailedCode) /\ to \in Addresses
          /\ \A a : Newest(a) # {} => Newest(a)' # {}
          /\ DOMAIN codes' = DOMAIN codes
          /\ \A i \in DOMAIN codes : /\ codes'[i].to = codes[i].to
                                     /\ codes[i].used => codes'[i].used
          /\ code \in DOMAIN codes /\ codes'[code].to = to /\ codes'[code].used
      BY <1>3, UsedReaches
    <2>2. /\ checking' \in CodeCalls(CheckRequests) /\ checking'.stage = "answered"
          /\ checking'.req = checking.req
          /\ checking'.ok => checking'.data = to
      <3>1. to \in Addresses \cup {"", "earlier", 0}
        BY <2>1
      <3>2. /\ Succeeds(checking, to) \in CodeCalls(CheckRequests)
            /\ Succeeds(checking, to).stage = "answered"
            /\ Succeeds(checking, to).req = checking.req
            /\ Succeeds(checking, to).data = to
            /\ Fails(checking) \in CodeCalls(CheckRequests) /\ ~Fails(checking).ok
            /\ Fails(checking).stage = "answered" /\ Fails(checking).req = checking.req
        BY <1>1, <3>1 DEF CodeCalls, Succeeds, Fails
      <3> QED BY <1>3, <3>2
    <2>3. /\ myClaim' \in CodeClaims /\ myClaim'.email = myClaim.email
          /\ myClaim.verified => myClaim'.verified
          /\ codeForm = "claim" => myClaim'.verified
      BY <1>3 DEF CodeShape, CodeClaims
    <2>4. CodeShape' /\ HooksMatchForm'
      BY <1>1, <2>1, <2>2, <2>3 DEF CodeShape, HooksMatchForm
    <2>5. \A a : Reached(a) => Reached(a)'
      BY <1>1, <2>1, <2>3 DEF Reached
    <2>6. \A a : Theirs(a) => Theirs(a)'
      BY <1>1, <2>1, <2>3 DEF Theirs
    <2>7. Theirs(to)'
      BY <1>1, <1>3, <2>1, <2>3 DEF Theirs
    <2>8. AnswersAreSo'
      BY <1>1, <2>2, <2>5, <2>6, <2>7 DEF AnswersAreSo
    <2> QED BY <2>4, <2>8
  <1> QED BY <1>1, <1>2, <1>3 DEF ServeCheck

LEMMA CodeCheckedKeeps == CodeInv /\ CodeChecked => CodeInv'
  <1> SUFFICES ASSUME CodeInv, CodeChecked PROVE CodeInv'
    OBVIOUS
  <1> USE DEF CodeInv
  <1>1. /\ checking.stage = "answered"
        /\ UNCHANGED <<codeForm, email, asking, sentTo, codes, myClaim>>
    BY DEF CodeChecked
  <1>2. \A a : (Reached(a)' <=> Reached(a)) /\ (Theirs(a)' <=> Theirs(a))
    BY <1>1 DEF Reached, Theirs, Newest
  <1>3. CASE /\ checking' = NoCall /\ wrongCode' = ~checking.ok
             /\ entered' = IF checking.ok THEN checking.data ELSE entered
    <2>1. CodeShape' /\ HooksMatchForm'
      BY <1>1, <1>3, NoCodeCall DEF CodeShape, HooksMatchForm
    <2>2. AnswersAreSo'
      BY <1>1, <1>2, <1>3, NoCodeCall DEF AnswersAreSo
    <2> QED BY <2>1, <2>2
  <1>4. CASE /\ checking' = [checking EXCEPT !.stage = "thrown"]
             /\ UNCHANGED <<entered, wrongCode>>
    <2>1. /\ checking' \in CodeCalls(CheckRequests) /\ checking'.stage = "thrown"
          /\ checking'.req = checking.req
      BY <1>4 DEF CodeShape, CodeCalls
    <2>2. CodeShape' /\ HooksMatchForm'
      BY <1>1, <1>4, <2>1 DEF CodeShape, HooksMatchForm
    <2>3. AnswersAreSo'
      BY <1>1, <1>2, <1>4, <2>1 DEF AnswersAreSo
    <2> QED BY <2>2, <2>3
  <1> QED BY <1>3, <1>4 DEF CodeChecked

LEMMA CodeStepKeeps == CodeInv /\ [CodeNext]_codeVars => CodeInv'
  <1> SUFFICES ASSUME CodeInv, [CodeNext]_codeVars PROVE CodeInv'
    OBVIOUS
  <1>1. CASE UNCHANGED codeVars
    BY <1>1 DEF codeVars, CodeInv, CodeShape, HooksMatchForm, AnswersAreSo, Reached, Theirs,
       Newest
  <1>2. CASE CodeNext
    BY <1>2, TypingKeeps, AskKeeps, CodeAskedKeeps, BackKeeps, SubmitKeeps, ServeCodeKeeps,
       ServeCheckKeeps, CodeCheckedKeeps DEF CodeNext, AskSteps, CheckSteps
  <1> QED BY <1>1, <1>2

LEMMA CodeInvImplies == CodeInv => CodeTypeOK /\ SentToWasMailed
  <1> SUFFICES ASSUME CodeInv PROVE CodeTypeOK /\ SentToWasMailed
    OBVIOUS
  <1>1. CodeTypeOK
    BY DEF CodeInv, CodeShape, CodeClaims, MailedCode, CodeTypeOK
  <1>2. SentToWasMailed
    BY DEF CodeInv, CodeShape, AnswersAreSo, Reached, Theirs, SentToWasMailed
  <1> QED BY <1>1, <1>2

----------------------------------------------------------------------------
\* Whatever order codes are asked for, typed and answered in, both hooks and
\* both steps of the form rest on what the server did.
THEOREM CodeInvariant == CodeSpec => []CodeInv
  BY CodeInitHolds, CodeStepKeeps, PTL DEF CodeSpec

\* The address the second step names is the one asked for, and an entry was made
\* with a code of the mail box it names (email-sign-in.tsx, claim-listing.tsx).
THEOREM AddressNamedIsSo == CodeSpec => [](CodeTypeOK /\ SentToWasMailed)
  BY CodeInvariant, CodeInvImplies, PTL

----------------------------------------------------------------------------
(* Proofs about ConsentPages, for any finite number of tabs and any number of *)
(* presses.                                                                   *)
(*                                                                            *)
(* What a page shows is older than the request's state: it was read, or said  *)
(* by the server, and may have been overtaken.  The invariant therefore says  *)
(* of everything that was read or answered - shown already or still on its    *)
(* way - what is true of the request for good (Stays, Told), and how far a    *)
(* tab of a connector's request can get (Sound).  Codes are counted against   *)
(* the tabs that were told "allow" from the moment the server says it.        *)

AskRow == [status : AskStatus, by : {"nobody", "reader", "other"}, codes : Nat]
ConsentReads == {NoRequest} \cup {Request("read", key, "none") :
                    key \in {GetCliLogin(Code), GetMcpAuthorization(Code), GetClaimInvite(Code)}}
ConsentAnswers == {ApproveCliLogin(Code), DenyCliLogin(Code), DecideMcpAuthorization("allow"),
                   DecideMcpAuthorization("deny"), RedeemToolClaimInvite(Code)}
ConsentSaid == AskStatus \cup {"allow", "deny"}
ConsentCalls(requests) == [stage : {"idle", "sent", "answered"}, req : requests,
                           ok : BOOLEAN, data : ConsentSaid \cup {0}]
ConsentTab == [load : ConsentCalls(ConsentReads), read : AskStatus \cup {"none", "error"},
               decided : ConsentSaid \cup {"none"},
               call : ConsentCalls({NoRequest} \cup ConsentAnswers), redirects : Nat]

ConsentShape ==
    /\ consentKind \in ConsentKinds /\ ask \in AskRow
    /\ askTabs \in [ConsentTabs -> ConsentTab]
    /\ ask.by = "reader" => ask.status # "open"

\* what was read, and what was said, remains true of the request
Stays(v) ==
    /\ v \in {"approved", "consumed"} => ask.status \in {"approved", "consumed"}
    /\ v = "denied" => ask.status = "denied"
Told(v) == Stays(v) /\ (v = "redeemed" => ask.by = "reader")

Sound(tab) ==
    /\ Stays(tab.read) /\ Told(tab.decided)
    /\ tab.load.stage = "answered" /\ tab.load.ok =>
          tab.load.data \in AskStatus /\ Stays(tab.load.data)
    /\ tab.call.stage = "answered" /\ tab.call.ok =>
          tab.call.data \in ConsentSaid /\ Told(tab.call.data)
    /\ tab.call.stage = "sent" => tab.call.req \in ConsentAnswers
    /\ tab.load.stage # "idle" =>
          tab.read = "none" /\ tab.decided = "none" /\ tab.call.stage = "idle"
    /\ consentKind = "mcp" /\ tab.call.stage # "idle" =>
          tab.read = "open" /\ tab.decided = "none"
    /\ consentKind = "mcp" /\ tab.decided # "none" => tab.read = "open"
    /\ tab.redirects = (IF tab.read = "bad" THEN 1 ELSE 0)
                          + (IF consentKind = "mcp" /\ tab.decided # "none" THEN 1 ELSE 0)

\* the tabs that were told a code was made out, and as many codes
ToldAllow(tab) == \/ tab.decided = "allow"
                  \/ tab.call.stage = "answered" /\ tab.call.ok /\ tab.call.data = "allow"
AllowTabs == {t \in ConsentTabs : ToldAllow(askTabs[t])}
CodesMadeOut == Cardinality(AllowTabs) <= ask.codes

ConsentInv ==
    /\ ConsentShape
    /\ \A t \in ConsentTabs : Sound(askTabs[t])
    /\ CodesMadeOut

\* how the request may go on: nothing that stays true is undone
AskGoesOn ==
    /\ ask' \in AskRow /\ ask.codes <= ask'.codes
    /\ ask.status \in {"approved", "consumed"} => ask'.status \in {"approved", "consumed"}
    /\ ask.status = "denied" => ask'.status = "denied"
    /\ ask.by = "reader" => ask'.by = "reader"
    /\ ask'.by = "reader" => ask'.status # "open"

----------------------------------------------------------------------------
LEMMA ConsentConstants == ConsentTabs \subseteq Nat /\ IsFiniteSet(ConsentTabs)
  BY ConsentAssumption DEF ConsentAssumption

LEMMA NoConsentShape ==
    /\ NoCall \in ConsentCalls(ConsentReads)
    /\ NoCall \in ConsentCalls({NoRequest} \cup ConsentAnswers)
    /\ NoCall.stage = "idle" /\ UnopenedAsk \in ConsentTab
  <1>1. /\ NoCall \in ConsentCalls(ConsentReads) /\ NoCall.stage = "idle"
        /\ NoCall \in ConsentCalls({NoRequest} \cup ConsentAnswers)
    BY DEF NoCall, ConsentCalls, ConsentReads
  <1> QED BY <1>1 DEF UnopenedAsk, ConsentTab

\* the operations of the answers
LEMMA ConsentAnswersSay ==
    ASSUME NEW req \in ConsentAnswers
    PROVE  /\ req.op \in {"ApproveCliLogin", "DenyCliLogin", "DecideMcpAuthorization",
                          "RedeemToolClaimInvite"}
           /\ req.op = "DecideMcpAuthorization" => req.body \in {"allow", "deny"}
  BY DEF ConsentAnswers, ApproveCliLogin, DenyCliLogin, DecideMcpAuthorization,
     RedeemToolClaimInvite, Request

\* the server decides an open request, or repeats what it decided; only "allow"
\* makes out a code
LEMMA DecideGoesOn ==
    ASSUME ConsentShape, NEW req \in ConsentAnswers, NEW d \in Decide(req),
           ask.status = d.was, ask' = d.leaves
    PROVE  /\ AskGoesOn /\ d.says \in ConsentSaid /\ Told(d.says)'
           /\ ask'.codes = IF d.says = "allow" THEN ask.codes + 1 ELSE ask.codes
  <1> USE DEF ConsentShape
  <1>1. CASE req.op = "ApproveCliLogin"
    <2>1. /\ d.was = "open" /\ d.says = "approved"
          /\ ask' = [ask EXCEPT !.status = "approved", !.by = "reader"]
      BY <1>1 DEF Decide
    <2>2. /\ ask' \in AskRow /\ ask'.status = "approved" /\ ask'.by = "reader"
          /\ ask'.codes = ask.codes /\ ask.codes \in Nat
      BY <2>1 DEF AskRow, AskStatus
    <2> QED BY <2>1, <2>2 DEF AskGoesOn, ConsentSaid, AskStatus, Told, Stays
  <1>2. CASE req.op = "DenyCliLogin"
    <2>1. /\ d.was = "open" /\ d.says = "denied"
          /\ ask' = [ask EXCEPT !.status = "denied", !.by = "reader"]
      BY <1>2 DEF Decide
    <2>2. /\ ask' \in AskRow /\ ask'.status = "denied" /\ ask'.by = "reader"
          /\ ask'.codes = ask.codes /\ ask.codes \in Nat
      BY <2>1 DEF AskRow, AskStatus
    <2> QED BY <2>1, <2>2 DEF AskGoesOn, ConsentSaid, AskStatus, Told, Stays
  <1>3. CASE req.op = "RedeemToolClaimInvite"
    <2>1. CASE /\ d.was = "open" /\ d.says = "redeemed"
               /\ ask' = [ask EXCEPT !.status = "redeemed", !.by = "reader"]
      <3>1. /\ ask' \in AskRow /\ ask'.status = "redeemed" /\ ask'.by = "reader"
            /\ ask'.codes = ask.codes /\ ask.codes \in Nat
        BY <2>1 DEF AskRow, AskStatus
      <3> QED BY <2>1, <3>1 DEF AskGoesOn, ConsentSaid, AskStatus, Told, Stays
    <2>2. CASE d.was = "redeemed" /\ d.says = "redeemed" /\ ask' = ask /\ ask.by = "reader"
      BY <2>2 DEF AskRow, AskStatus, AskGoesOn, ConsentSaid, Told, Stays
    <2> QED BY <1>3, <2>1, <2>2 DEF Decide
  <1>4. CASE req.op = "DecideMcpAuthorization"
    <2>1. req.body \in {"allow", "deny"}
      BY <1>4, ConsentAnswersSay
    <2>2. CASE /\ d.was = "open" /\ d.says = req.body
               /\ ask' = [ask EXCEPT !.codes = IF req.body = "allow" THEN @ + 1 ELSE @]
      <3>1. /\ ask' \in AskRow /\ ask'.status = ask.status /\ ask'.by = ask.by
            /\ ask'.codes = IF d.says = "allow" THEN ask.codes + 1 ELSE ask.codes
            /\ ask.codes \in Nat
        BY <2>2 DEF AskRow
      <3> QED BY <2>1, <2>2, <3>1 DEF AskGoesOn, ConsentSaid, Told, Stays
    <2>3. CASE d.was = "bad" /\ d.says = "bad" /\ ask' = ask
      BY <2>3 DEF AskRow, AskStatus, AskGoesOn, ConsentSaid, Told, Stays
    <2> QED BY <1>4, <2>2, <2>3 DEF Decide
  <1> QED BY <1>1, <1>2, <1>3, <1>4, ConsentAnswersSay

\* a tab stays sound when the request goes on
LEMMA SoundStays ==
    ASSUME AskGoesOn, UNCHANGED consentKind, NEW tab, Sound(tab)
    PROVE  Sound(tab)'
  <1>1. \A v : (Stays(v) => Stays(v)') /\ (Told(v) => Told(v)')
    BY DEF AskGoesOn, Stays, Told
  <1> QED BY <1>1 DEF Sound

\* a step that rewrites one tab keeps the invariant if it leaves that tab sound,
\* and makes out a code when it tells a tab so
LEMMA OneTabKeeps ==
    ASSUME ConsentInv, NEW t \in ConsentTabs, NEW tab \in ConsentTab,
           askTabs' = [askTabs EXCEPT ![t] = tab],
           AskGoesOn, UNCHANGED consentKind, Sound(tab)',
           ToldAllow(tab) => ToldAllow(askTabs[t]) \/ ask'.codes = ask.codes + 1
    PROVE  ConsentInv'
  <1>1. /\ askTabs' \in [ConsentTabs -> ConsentTab] /\ askTabs'[t] = tab
        /\ \A u \in ConsentTabs \ {t} : askTabs'[u] = askTabs[u]
    BY DEF ConsentInv, ConsentShape
  <1>2. ConsentShape'
    BY <1>1 DEF ConsentInv, ConsentShape, AskGoesOn
  <1>3. \A u \in ConsentTabs : Sound(askTabs[u])'
    <2>1. ASSUME NEW u \in ConsentTabs \ {t} PROVE Sound(askTabs[u])'
      <3>1. PICK other : other = askTabs[u]
        OBVIOUS
      <3>2. Sound(other)'
        BY <3>1, SoundStays DEF ConsentInv
      <3>3. askTabs'[u] = other
        BY <1>1, <3>1
      <3> QED BY <3>2, <3>3 DEF Sound
    <2>2. Sound(askTabs[t])'
      BY <1>1 DEF Sound
    <2> QED BY <2>1, <2>2
  <1>4. CodesMadeOut'
    <2>1. IsFiniteSet(AllowTabs) /\ Cardinality(AllowTabs) \in Nat
      BY ConsentConstants, FS_Subset, FS_CardinalityType DEF AllowTabs
    <2>2. ask.codes \in Nat /\ ask'.codes \in Nat /\ ask.codes <= ask'.codes
          /\ Cardinality(AllowTabs) <= ask.codes
      BY DEF ConsentInv, ConsentShape, AskRow, AskGoesOn, CodesMadeOut
    <2>3. CASE AllowTabs' \subseteq AllowTabs
      <3>1. Cardinality(AllowTabs') <= Cardinality(AllowTabs) /\ Cardinality(AllowTabs') \in Nat
        BY <2>1, <2>3, FS_Subset, FS_CardinalityType
      <3> QED BY <2>1, <2>2, <3>1 DEF CodesMadeOut
    <2>4. CASE ~(AllowTabs' \subseteq AllowTabs)
      <3>1. AllowTabs' \subseteq AllowTabs \cup {t}
        BY <1>1 DEF AllowTabs, ToldAllow
      <3>2. ask'.codes = ask.codes + 1
        BY <1>1, <2>4, <3>1 DEF AllowTabs, ToldAllow
      <3>3. /\ IsFiniteSet(AllowTabs \cup {t})
            /\ Cardinality(AllowTabs \cup {t}) <= Cardinality(AllowTabs) + 1
            /\ Cardinality(AllowTabs \cup {t}) \in Nat
        <4>1. /\ IsFiniteSet(AllowTabs \cup {t})
              /\ Cardinality(AllowTabs \cup {t}) =
                    IF t \in AllowTabs THEN Cardinality(AllowTabs)
                    ELSE Cardinality(AllowTabs) + 1
          BY <2>1, FS_AddElement
        <4> QED BY <2>1, <4>1
      <3>4. /\ Cardinality(AllowTabs') <= Cardinality(AllowTabs \cup {t})
            /\ Cardinality(AllowTabs') \in Nat
        BY <3>1, <3>3, FS_Subset, FS_CardinalityType
      <3> QED BY <2>1, <2>2, <3>2, <3>3, <3>4 DEF CodesMadeOut
    <2> QED BY <2>3, <2>4
  <1> QED BY <1>2, <1>3, <1>4 DEF ConsentInv

\* a request that stands still goes on
LEMMA AskStill == ConsentInv /\ UNCHANGED ask => AskGoesOn
  BY DEF ConsentInv, ConsentShape, AskGoesOn, AskRow

----------------------------------------------------------------------------
LEMMA ConsentInitHolds == ConsentInit => ConsentInv
  <1> SUFFICES ASSUME ConsentInit PROVE ConsentInv
    OBVIOUS
  <1>1. ConsentShape
    BY NoConsentShape DEF ConsentInit, ConsentShape, AskRow, AskStatus
  <1>2. Sound(UnopenedAsk)
    BY DEF Sound, UnopenedAsk, NoCall, Stays, Told
  <1>3. ~ToldAllow(UnopenedAsk)
    BY DEF UnopenedAsk, NoCall, ToldAllow
  <1>4. \A t \in ConsentTabs : askTabs[t] = UnopenedAsk
    BY DEF ConsentInit
  <1>5. AllowTabs = {}
    BY <1>3, <1>4 DEF AllowTabs
  <1>6. CodesMadeOut
    BY <1>1, <1>5, FS_EmptySet DEF CodesMadeOut, ConsentShape, AskRow
  <1> QED BY <1>1, <1>2, <1>4, <1>6 DEF ConsentInv

LEMMA OpenAskKeeps == ASSUME ConsentInv, NEW t \in ConsentTabs, OpenAsk(t) PROVE ConsentInv'
  <1>1. ReadKey \in {GetCliLogin(Code), GetMcpAuthorization(Code), GetClaimInvite(Code)}
    BY DEF ReadKey, ConsentInv, ConsentShape, ConsentKinds
  <1>2. PICK load : load = Fetch(ReadKey)
    OBVIOUS
  <1>3. load \in ConsentCalls(ConsentReads) /\ load.stage = "sent"
    BY <1>1, <1>2 DEF Fetch, Sent, NoCall, ConsentCalls, ConsentReads
  <1>4. PICK tab : tab = [UnopenedAsk EXCEPT !.load = load]
    OBVIOUS
  <1>5. askTabs' = [askTabs EXCEPT ![t] = tab] /\ UNCHANGED <<consentKind, ask>>
    BY <1>2, <1>4 DEF OpenAsk
  <1>6. tab \in ConsentTab
    BY <1>3, <1>4, NoConsentShape DEF UnopenedAsk, ConsentTab
  <1>7. Sound(tab)' /\ ~ToldAllow(tab)
    BY <1>3, <1>4 DEF Sound, UnopenedAsk, NoCall, Stays, Told, ToldAllow
  <1> QED BY <1>5, <1>6, <1>7, AskStill, OneTabKeeps

LEMMA ServeAskKeeps == ASSUME ConsentInv, NEW t \in ConsentTabs, ServeAsk(t) PROVE ConsentInv'
  <1>1. /\ askTabs[t] \in ConsentTab /\ Sound(askTabs[t]) /\ askTabs[t].load.stage = "sent"
        /\ ask.status \in AskStatus
    BY DEF ConsentInv, ConsentShape, AskRow, ServeAsk
  <1>2. PICK load \in {Succeeds(askTabs[t].load, ask.status), Fails(askTabs[t].load)} :
           askTabs' = [askTabs EXCEPT ![t].load = load] /\ UNCHANGED <<consentKind, ask>>
    BY DEF ServeAsk
  <1>3. /\ load \in ConsentCalls(ConsentReads) /\ load.stage = "answered"
        /\ load.ok => load.data = ask.status
    BY <1>1, <1>2 DEF ConsentTab, ConsentCalls, ConsentSaid, Succeeds, Fails
  <1>4. PICK tab : tab = [askTabs[t] EXCEPT !.load = load]
    OBVIOUS
  <1>5. askTabs' = [askTabs EXCEPT ![t] = tab]
    BY <1>2, <1>4
  <1>6. /\ tab \in ConsentTab /\ tab.load = load
        /\ tab.read = askTabs[t].read /\ tab.decided = askTabs[t].decided
        /\ tab.call = askTabs[t].call /\ tab.redirects = askTabs[t].redirects
    BY <1>1, <1>3, <1>4 DEF ConsentTab
  <1>7. ToldAllow(tab) => ToldAllow(askTabs[t])
    BY <1>6 DEF ToldAllow
  <1>8. Sound(tab)
    BY <1>1, <1>3, <1>6 DEF Sound, Stays
  <1> QED BY <1>2, <1>5, <1>6, <1>7, <1>8, SoundStays, AskStill, OneTabKeeps

LEMMA AskReadKeeps == ASSUME ConsentInv, NEW t \in ConsentTabs, AskRead(t) PROVE ConsentInv'
  <1> DEFINE load == askTabs[t].load
  <1>1. /\ askTabs[t] \in ConsentTab /\ Sound(askTabs[t]) /\ load.stage = "answered"
    BY DEF ConsentInv, ConsentShape, AskRead
  <1>2. /\ load.ok => load.data \in AskStatus /\ Stays(load.data)
        /\ askTabs[t].read = "none" /\ askTabs[t].decided = "none"
        /\ askTabs[t].call.stage = "idle" /\ askTabs[t].redirects = 0
    BY <1>1 DEF Sound
  <1>3. PICK read, redirects : /\ read = IF load.ok THEN load.data ELSE "error"
                               /\ redirects = IF load.ok /\ load.data = "bad" THEN 1 ELSE 0
    OBVIOUS
  <1>4. PICK tab : tab = [askTabs[t] EXCEPT !.load = NoCall, !.read = read,
                                            !.redirects = redirects]
    OBVIOUS
  <1>5. askTabs' = [askTabs EXCEPT ![t] = tab] /\ UNCHANGED <<consentKind, ask>>
    <2>1. /\ askTabs' = [askTabs EXCEPT
                ![t].load = NoCall,
                ![t].read = IF load.ok THEN load.data ELSE "error",
                ![t].redirects = IF load.ok /\ load.data = "bad" THEN @ + 1 ELSE @]
          /\ UNCHANGED <<consentKind, ask>>
      BY DEF AskRead
    <2>2. redirects = IF load.ok /\ load.data = "bad" THEN askTabs[t].redirects + 1
                                                      ELSE askTabs[t].redirects
      BY <1>2, <1>3
    <2> HIDE DEF load
    <2> QED BY <1>3, <1>4, <2>1, <2>2
  <1>6. /\ tab \in ConsentTab /\ tab.load = NoCall /\ tab.read = read
        /\ tab.redirects = redirects
        /\ tab.decided = askTabs[t].decided /\ tab.call = askTabs[t].call
    BY <1>1, <1>2, <1>3, <1>4, NoConsentShape DEF ConsentTab
  <1>7. ~ToldAllow(tab)
    BY <1>2, <1>6 DEF ToldAllow
  <1>8. Stays(read) /\ read # "none" /\ redirects = IF read = "bad" THEN 1 ELSE 0
    BY <1>2, <1>3 DEF Stays, AskStatus
  <1>9. Sound(tab)
    BY <1>1, <1>2, <1>6, <1>8, NoConsentShape DEF Sound
  <1> QED BY <1>5, <1>6, <1>7, <1>9, SoundStays, AskStill, OneTabKeeps

LEMMA PressAnswerKeeps ==
    ASSUME ConsentInv, NEW t \in ConsentTabs, PressAnswer(t)
    PROVE  ConsentInv'
  <1>1. /\ askTabs[t] \in ConsentTab /\ Sound(askTabs[t])
        /\ ShownAs(t) = "open" /\ ~Busy(t) /\ UNCHANGED <<consentKind, ask>>
    BY DEF ConsentInv, ConsentShape, PressAnswer
  <1>2. PICK req \in ConsentAnswers : askTabs' = [askTabs EXCEPT ![t].call = Sent(req)]
    <2>1. Answers \subseteq ConsentAnswers
      BY DEF Answers, ConsentAnswers, ConsentInv, ConsentShape, ConsentKinds
    <2> QED BY <2>1 DEF PressAnswer
  <1>3. PICK call : call = Sent(req)
    OBVIOUS
  <1>4. /\ call \in ConsentCalls({NoRequest} \cup ConsentAnswers)
        /\ call.stage = "sent" /\ call.req = req
    BY <1>2, <1>3 DEF ConsentCalls, Sent, NoCall
  <1>5. PICK tab : tab = [askTabs[t] EXCEPT !.call = call]
    OBVIOUS
  <1>6. askTabs' = [askTabs EXCEPT ![t] = tab]
    BY <1>2, <1>3, <1>5
  <1>7. /\ tab \in ConsentTab /\ tab.call = call /\ tab.load = askTabs[t].load
        /\ tab.read = askTabs[t].read /\ tab.decided = askTabs[t].decided
        /\ tab.redirects = askTabs[t].redirects
    BY <1>1, <1>4, <1>5 DEF ConsentTab
  <1>8. ToldAllow(tab) => ToldAllow(askTabs[t])
    BY <1>4, <1>7 DEF ToldAllow
  <1>9. /\ askTabs[t].load.stage = "idle"
        /\ consentKind = "mcp" => askTabs[t].read = "open" /\ askTabs[t].decided = "none"
    BY <1>1 DEF ShownAs, Busy, Sound
  <1>10. Sound(tab)
    BY <1>1, <1>4, <1>7, <1>9 DEF Sound
  <1> QED BY <1>1, <1>6, <1>7, <1>8, <1>10, SoundStays, AskStill, OneTabKeeps

LEMMA ServeAnswerKeeps ==
    ASSUME ConsentInv, NEW t \in ConsentTabs, ServeAnswer(t)
    PROVE  ConsentInv'
  <1>1. /\ askTabs[t] \in ConsentTab /\ Sound(askTabs[t]) /\ UNCHANGED consentKind
        /\ askTabs[t].call.stage = "sent" /\ askTabs[t].call.req \in ConsentAnswers
    BY DEF ConsentInv, ConsentShape, ServeAnswer, Sound
  <1>2. ASSUME NEW call \in ConsentCalls({NoRequest} \cup ConsentAnswers),
               call.stage = "answered", AskGoesOn,
               call.ok => call.data \in ConsentSaid /\ Told(call.data)',
               call.ok /\ call.data = "allow" => ask'.codes = ask.codes + 1,
               askTabs' = [askTabs EXCEPT ![t].call = call]
        PROVE  ConsentInv'
    <2>1. PICK tab : tab = [askTabs[t] EXCEPT !.call = call]
      OBVIOUS
    <2>2. askTabs' = [askTabs EXCEPT ![t] = tab]
      BY <1>2, <2>1
    <2>3. /\ tab \in ConsentTab /\ tab.call = call /\ tab.load = askTabs[t].load
          /\ tab.read = askTabs[t].read /\ tab.decided = askTabs[t].decided
          /\ tab.redirects = askTabs[t].redirects
      BY <1>1, <1>2, <2>1 DEF ConsentTab
    <2>4. ToldAllow(tab) => ToldAllow(askTabs[t]) \/ ask'.codes = ask.codes + 1
      BY <1>2, <2>3 DEF ToldAllow
    <2>5. PICK old : old = askTabs[t]
      OBVIOUS
    <2>6. Sound(old)'
      BY <1>1, <1>2, <2>5, SoundStays
    <2>7. Sound(tab)'
      BY <1>1, <1>2, <2>3, <2>5, <2>6 DEF Sound
    <2> QED BY <1>1, <1>2, <2>2, <2>3, <2>4, <2>7, OneTabKeeps
  <1>3. CASE askTabs' = [askTabs EXCEPT ![t].call = Fails(askTabs[t].call)] /\ UNCHANGED ask
    <2>1. PICK call : call = Fails(askTabs[t].call)
      OBVIOUS
    <2>2. call \in ConsentCalls({NoRequest} \cup ConsentAnswers)
          /\ call.stage = "answered" /\ ~call.ok
      BY <1>1, <2>1 DEF ConsentTab, ConsentCalls, Fails
    <2> QED BY <1>2, <1>3, <2>1, <2>2, AskStill
  <1>4. ASSUME NEW d \in Decide(askTabs[t].call.req), ask.status = d.was, ask' = d.leaves,
               NEW call \in {Succeeds(askTabs[t].call, d.says), Fails(askTabs[t].call)},
               askTabs' = [askTabs EXCEPT ![t].call = call]
        PROVE  ConsentInv'
    <2>1. /\ AskGoesOn /\ d.says \in ConsentSaid /\ Told(d.says)'
          /\ d.says = "allow" => ask'.codes = ask.codes + 1
      BY <1>1, <1>4, DecideGoesOn DEF ConsentInv
    <2>2. /\ call \in ConsentCalls({NoRequest} \cup ConsentAnswers)
          /\ call.stage = "answered" /\ (call.ok => call.data = d.says)
      BY <1>1, <1>4, <2>1 DEF ConsentTab, ConsentCalls, Succeeds, Fails
    <2> QED BY <1>2, <1>4, <2>1, <2>2
  <1> QED BY <1>3, <1>4 DEF ServeAnswer

LEMMA AnswerArrivedKeeps ==
    ASSUME ConsentInv, NEW t \in ConsentTabs, AnswerArrived(t)
    PROVE  ConsentInv'
  <1> DEFINE call == askTabs[t].call
  <1>1. /\ askTabs[t] \in ConsentTab /\ Sound(askTabs[t]) /\ call.stage = "answered"
    BY DEF ConsentInv, ConsentShape, AnswerArrived
  <1>2. PICK decided, redirects :
           /\ decided = IF call.ok THEN call.data ELSE askTabs[t].decided
           /\ redirects = IF call.ok /\ consentKind = "mcp" THEN askTabs[t].redirects + 1
                                                           ELSE askTabs[t].redirects
    OBVIOUS
  <1>3. PICK tab : tab = [askTabs[t] EXCEPT !.call = NoCall, !.decided = decided,
                                            !.redirects = redirects]
    OBVIOUS
  <1>4. askTabs' = [askTabs EXCEPT ![t] = tab] /\ UNCHANGED <<consentKind, ask>>
    BY <1>2, <1>3 DEF AnswerArrived
  <1>5. /\ decided \in ConsentSaid \cup {"none"} /\ Told(decided)
        /\ call.ok => decided \in ConsentSaid
        /\ redirects \in Nat
    BY <1>1, <1>2 DEF Sound, ConsentTab
  <1>6. /\ tab \in ConsentTab /\ tab.call = NoCall /\ tab.load = askTabs[t].load
        /\ tab.read = askTabs[t].read /\ tab.decided = decided /\ tab.redirects = redirects
    BY <1>1, <1>3, <1>5, NoConsentShape DEF ConsentTab
  <1>7. ToldAllow(tab) => ToldAllow(askTabs[t])
    BY <1>1, <1>2, <1>6, NoConsentShape DEF ToldAllow
  <1>8. "none" \notin ConsentSaid
    BY DEF ConsentSaid, AskStatus
  <1>9. askTabs[t].redirects \in Nat /\ askTabs[t].load.stage = "idle"
    BY <1>1 DEF Sound, ConsentTab
  <1>10. Sound(tab)
    BY <1>1, <1>2, <1>5, <1>6, <1>8, <1>9, NoConsentShape DEF Sound
  <1> QED BY <1>4, <1>6, <1>7, <1>10, SoundStays, AskStill, OneTabKeeps

LEMMA AskMovesOnKeeps == ConsentInv /\ AskMovesOn => ConsentInv'
  <1> SUFFICES ASSUME ConsentInv, AskMovesOn PROVE ConsentInv'
    OBVIOUS
  <1>1. AskGoesOn /\ ask'.codes = ask.codes /\ UNCHANGED <<consentKind, askTabs>>
    <2>1. ask \in AskRow /\ ask.codes \in Nat /\ (ask.by = "reader" => ask.status # "open")
      BY DEF ConsentInv, ConsentShape, AskRow
    <2>2. UNCHANGED <<consentKind, askTabs>>
      BY DEF AskMovesOn
    <2>3. CASE ask.status = "open" /\ ask' = [ask EXCEPT !.status = "expired"]
      BY <2>1, <2>2, <2>3 DEF AskGoesOn, AskRow, AskStatus
    <2>4. CASE ask.status = "approved" /\ ask' = [ask EXCEPT !.status = "consumed"]
      BY <2>1, <2>2, <2>4 DEF AskGoesOn, AskRow, AskStatus
    <2>5. CASE ask.status = "open" /\ ask' = [ask EXCEPT !.status = "revoked"]
      BY <2>1, <2>2, <2>5 DEF AskGoesOn, AskRow, AskStatus
    <2>6. CASE ask.status = "open" /\ ask' = [ask EXCEPT !.status = "redeemed", !.by = "other"]
      <3>1. /\ ask' \in AskRow /\ ask'.status = "redeemed" /\ ask'.by = "other"
            /\ ask'.codes = ask.codes
        BY <2>1, <2>6 DEF AskRow, AskStatus
      <3> QED BY <2>1, <2>2, <2>6, <3>1 DEF AskGoesOn
    <2> QED BY <2>3, <2>4, <2>5, <2>6 DEF AskMovesOn
  <1>2. ConsentShape'
    BY <1>1 DEF ConsentInv, ConsentShape, AskGoesOn
  <1>3. ASSUME NEW t \in ConsentTabs PROVE Sound(askTabs[t])'
    <2>1. PICK tab : tab = askTabs[t]
      OBVIOUS
    <2>2. Sound(tab)'
      BY <1>1, <2>1, SoundStays DEF ConsentInv
    <2> QED BY <1>1, <2>1, <2>2 DEF Sound
  <1>4. CodesMadeOut'
    BY <1>1 DEF ConsentInv, CodesMadeOut, AllowTabs
  <1> QED BY <1>2, <1>3, <1>4 DEF ConsentInv

LEMMA ConsentStepKeeps == ConsentInv /\ [ConsentNext]_consentVars => ConsentInv'
  <1> SUFFICES ASSUME ConsentInv, [ConsentNext]_consentVars PROVE ConsentInv'
    OBVIOUS
  <1>1. CASE UNCHANGED consentVars
    BY <1>1 DEF consentVars, ConsentInv, ConsentShape, Sound, Stays, Told, CodesMadeOut,
       AllowTabs
  <1>2. CASE ConsentNext
    BY <1>2, AskMovesOnKeeps, OpenAskKeeps, PressAnswerKeeps, ServeAskKeeps, AskReadKeeps,
       ServeAnswerKeeps, AnswerArrivedKeeps DEF ConsentNext, ConsentSteps
  <1> QED BY <1>1, <1>2

LEMMA ConsentInvImplies == ConsentInv => ConsentTypeOK /\ DecisionShownWasMade
  <1> SUFFICES ASSUME ConsentInv PROVE ConsentTypeOK /\ DecisionShownWasMade
    OBVIOUS
  <1>1. ConsentTypeOK
    BY DEF ConsentInv, ConsentShape, AskRow, ConsentTab, ConsentSaid, ConsentTypeOK
  <1>2. ASSUME NEW t \in ConsentTabs
        PROVE  /\ ShownAs(t) \in {"approved", "consumed"} => ask.status \in {"approved", "consumed"}
               /\ ShownAs(t) = "denied" => ask.status = "denied"
               /\ consentKind = "invite" /\ askTabs[t].decided = "redeemed" => ask.by = "reader"
               /\ askTabs[t].redirects <= 1
    <2>1. Sound(askTabs[t])
      BY DEF ConsentInv
    <2> QED BY <2>1 DEF Sound, Stays, Told, ShownAs
  <1>3. Cardinality({u \in ConsentTabs : askTabs[u].decided = "allow"}) <= ask.codes
    <2> DEFINE SaidAllowed == {u \in ConsentTabs : askTabs[u].decided = "allow"}
    <2>1. IsFiniteSet(AllowTabs) /\ Cardinality(AllowTabs) \in Nat
      BY ConsentConstants, FS_Subset, FS_CardinalityType DEF AllowTabs
    <2>2. SaidAllowed \subseteq AllowTabs
      BY DEF AllowTabs, ToldAllow
    <2>3. Cardinality(SaidAllowed) <= Cardinality(AllowTabs) /\ Cardinality(SaidAllowed) \in Nat
      BY <2>1, <2>2, FS_Subset, FS_CardinalityType
    <2> QED BY <2>1, <2>3 DEF ConsentInv, ConsentShape, AskRow, CodesMadeOut
  <1> QED BY <1>1, <1>2, <1>3 DEF DecisionShownWasMade

----------------------------------------------------------------------------
\* Whatever two tabs read, press and are told, all of it remains true of the
\* request, and a code was made out for every tab that was told so.
THEOREM ConsentInvariant == ConsentSpec => []ConsentInv
  BY ConsentInitHolds, ConsentStepKeeps, PTL DEF ConsentSpec

\* What an approval page says was decided is what the server holds, and a
\* connector is sent one answer by a page and no code that was not made out
\* (cli-login-approval.tsx, mcp-consent.tsx, claim-invite.tsx).
THEOREM DecisionsShownWereMade == ConsentSpec => [](ConsentTypeOK /\ DecisionShownWasMade)
  BY ConsentInvariant, ConsentInvImplies, PTL

----------------------------------------------------------------------------
(* Proofs about DocumentCost, for every catalog, set of rates and sequence of *)
(* clicks and reads that satisfies CatalogAssumption.  Costs are compared     *)
(* function by function, from the caps to the rounding of a conversion; what  *)
(* the state adds is CalcInv: a URL that was cut to a comparison stays one,   *)
(* and only a listed tool has a detail to show.                               *)

\* a set of numbers has a least one, and a bounded one a greatest
LEMMA LeastExists ==
    ASSUME NEW S, S \subseteq Nat, S # {}
    PROVE  \E x \in S : \A y \in S : x <= y
  <1> DEFINE less == OpToRel(<, Nat)
  <1>1. IsWellFoundedOn(less, Nat)
    BY NatLessThanWellFounded
  <1>2. \A x, y \in Nat : <<y, x>> \in less <=> y < x
    BY DEF OpToRel
  <1> HIDE DEF less
  <1>3. PICK x \in S : \A y \in S : ~(<<y, x>> \in less)
    BY <1>1, WFMin
  <1>4. \A y \in S : ~(y < x)
    BY <1>2, <1>3
  <1>5. \A y \in S : x <= y
    BY <1>4
  <1> QED BY <1>5

LEMMA DivGrows ==
    ASSUME NEW a \in Nat, NEW b \in Nat, NEW k \in Nat \ {0}, a <= b
    PROVE  a \div k <= b \div k
  OBVIOUS

LEMMA DivNat == ASSUME NEW a \in Nat, NEW k \in Nat \ {0} PROVE a \div k \in Nat
  OBVIOUS

LEMMA ProductGrows ==
    ASSUME NEW a \in Nat, NEW b \in Nat, NEW c \in Nat, NEW d \in Nat, a <= c, b <= d
    PROVE  a * b <= c * d
  OBVIOUS

LEMMA RoundedGrows ==
    ASSUME NEW n \in Nat, NEW m \in Nat, NEW d \in Nat \ {0}, n <= m
    PROVE  Rounded(n, d) <= Rounded(m, d)
  <1>1. 2 * n + d \in Nat /\ 2 * m + d \in Nat /\ 2 * d \in Nat \ {0} /\ 2 * n + d <= 2 * m + d
    OBVIOUS
  <1> QED BY <1>1, DivGrows DEF Rounded

LEMMA GreatestExists ==
    ASSUME NEW n \in Nat, NEW S, S \subseteq 1..n, S # {}
    PROVE  \E x \in S : \A y \in S : y <= x
  <1> DEFINE below == {k \in Nat : \E x \in S : k = n - x}
  <1>1. below \subseteq Nat /\ below # {}
    <2>1. PICK x \in S : TRUE
      OBVIOUS
    <2>2. n - x \in Nat
      OBVIOUS
    <2> QED BY <2>1, <2>2
  <1>2. PICK k \in below : \A l \in below : k <= l
    BY <1>1, LeastExists
  <1>3. PICK x \in S : k = n - x
    BY <1>2
  <1>4. ASSUME NEW y \in S PROVE y <= x
    <2>1. n - y \in below
      OBVIOUS
    <2> QED BY <1>2, <1>3, <2>1
  <1> QED BY <1>4

LEMMA PositionsFinite ==
    ASSUME NEW n \in Nat, NEW S, S \subseteq 1..n
    PROVE  IsFiniteSet(S) /\ Cardinality(S) \in Nat
  <1>1. IsFiniteSet(1..n)
    BY FS_Interval
  <1> QED BY <1>1, FS_Subset, FS_CardinalityType

LEMMA NextRank ==
    ASSUME NEW n \in Nat, NEW S, S \subseteq 1..n, NEW p \in S
    PROVE  /\ {q \in S : q < p} \subseteq 1..n
           /\ Cardinality({q \in S : q < p}) \in Nat
           /\ Cardinality({q \in S : q <= p}) = Cardinality({q \in S : q < p}) + 1
  <1> DEFINE before == {q \in S : q < p}
             upTo == {q \in S : q <= p}
  <1>1. before \subseteq 1..n /\ p \notin before
    <2>1. \A x \in before : x \in S
      OBVIOUS
    <2>2. p \in Nat
      OBVIOUS
    <2>3. p \notin before
      BY <2>2
    <2> HIDE DEF before
    <2> QED BY <2>1, <2>3
  <1>2. IsFiniteSet(before) /\ Cardinality(before) \in Nat
    BY <1>1, PositionsFinite
  <1>3. ASSUME NEW x PROVE x \in upTo <=> x \in before \/ x = p
    <2>1. p \in Nat
      OBVIOUS
    <2>2. x \in S => x \in Nat
      OBVIOUS
    <2>3. x \in S => (x <= p <=> x < p \/ x = p)
      BY <2>1, <2>2
    <2> QED BY <2>3
  <1>4. upTo = before \cup {p}
    <2> HIDE DEF upTo, before
    <2> QED BY <1>3
  <1> HIDE DEF upTo, before
  <1>5. Cardinality(upTo) = Cardinality(before) + 1
    BY <1>1, <1>2, <1>4, FS_AddElement
  <1> QED BY <1>1, <1>2, <1>5 DEF upTo, before

\* each place up to the number of positions is held by one of them
LEMMA PlaceIsHeld ==
    ASSUME NEW n \in Nat, NEW S, S \subseteq 1..n, NEW i \in 1..Cardinality(S)
    PROVE  \E p \in S : Cardinality({q \in S : q <= p}) = i
  <1> DEFINE Rank(p) == Cardinality({q \in S : q <= p})
             Early(p) == Cardinality({q \in S : q < p})
             late == {p \in S : Rank(p) >= i}
  <1>1. IsFiniteSet(S) /\ Cardinality(S) \in Nat
    BY PositionsFinite
  <1>2. \A p \in S : Rank(p) = Early(p) + 1 /\ Early(p) \in Nat
    BY NextRank
  <1>3. \E m \in S : Rank(m) = Cardinality(S)
    <2>1. S # {}
      <3>1. S = {} => Cardinality(S) = 0
        BY FS_EmptySet
      <3> QED BY <1>1, <3>1
    <2>2. PICK m \in S : \A y \in S : y <= m
      BY <2>1, GreatestExists
    <2>3. {q \in S : q <= m} = S
      BY <2>2
    <2> QED BY <2>3
  <1>4. \A p \in S : Early(p) = 0 \/ \E r \in S : r < p /\ Rank(r) = Early(p)
    <2> SUFFICES ASSUME NEW p \in S, Early(p) # 0
                 PROVE  \E r \in S : r < p /\ Rank(r) = Early(p)
      OBVIOUS
    <2> DEFINE before == {q \in S : q < p}
    <2>1. before # {} /\ before \subseteq 1..n
      <3>1. before = {} => Cardinality(before) = 0
        BY FS_EmptySet
      <3> QED BY <3>1
    <2>2. PICK r \in before : \A y \in before : y <= r
      BY <2>1, GreatestExists
    <2>3. r \in S /\ r < p
      BY <2>2
    <2>4. ASSUME NEW x PROVE x \in {q \in S : q <= r} <=> x \in before
      <3>1. x \in before => x \in S /\ x <= r
        BY <2>2
      <3>2. x \in S /\ x <= r => x < p
        BY <2>3
      <3> QED BY <3>1, <3>2
    <2>5. {q \in S : q <= r} = before
      <3> DEFINE upTo == {q \in S : q <= r}
      <3>1. \A x : x \in upTo <=> x \in before
        BY <2>4
      <3> HIDE DEF upTo, before
      <3>2. upTo = before
        BY <3>1
      <3> QED BY <3>2 DEF upTo
    <2> QED BY <2>3, <2>5
  <1> HIDE DEF Rank, Early
  <1>5. late \subseteq Nat /\ late # {}
    <2>1. \A x \in S : x \in Nat
      OBVIOUS
    <2>2. late \subseteq Nat
      BY <2>1
    <2>3. PICK m \in S : Rank(m) = Cardinality(S)
      BY <1>3
    <2>4. Cardinality(S) >= i
      BY <1>1
    <2>5. m \in late
      BY <2>3, <2>4
    <2> QED BY <2>2, <2>5
  <1>6. PICK p \in late : \A y \in late : p <= y
    BY <1>5, LeastExists
  <1>7. p \in S /\ p \in Nat /\ Rank(p) >= i /\ i \in Nat \ {0} /\ S \subseteq Nat
    BY <1>1, <1>6
  <1>8. Early(p) < i
    <2>1. CASE Early(p) = 0
      BY <1>7, <2>1
    <2>2. CASE \E r \in S : r < p /\ Rank(r) = Early(p)
      <3>1. PICK r \in S : r < p /\ Rank(r) = Early(p)
        BY <2>2
      <3>2. r \notin late
        BY <1>6, <1>7, <3>1
      <3>3. ~(Rank(r) >= i)
        BY <3>2
      <3>4. Early(p) \in Nat
        BY <1>2, <1>7
      <3> QED BY <1>7, <3>1, <3>3, <3>4
    <2> QED BY <1>4, <1>7, <2>1, <2>2
  <1>9. Rank(p) = i
    BY <1>2, <1>7, <1>8
  <1> QED BY <1>7, <1>9 DEF Rank

LEMMA PickedIs ==
    ASSUME NEW T, NEW seq \in Seq(T), NEW S, S \subseteq DOMAIN seq
    PROVE  /\ Picked(seq, S) \in Seq(T) /\ Cardinality(S) \in Nat
           /\ Len(Picked(seq, S)) = Cardinality(S)
           /\ \A i, j \in 1..Cardinality(S) :
                 \E p, q \in S : /\ Picked(seq, S)[i] = seq[p] /\ Picked(seq, S)[j] = seq[q]
                                /\ (p = q => i = j)
  <1> DEFINE At(i) == CHOOSE p \in S : Cardinality({q \in S : q <= p}) = i
             n == Cardinality(S)
             picked == [i \in 1..n |-> seq[At(i)]]
  <1>1. n \in Nat /\ Len(seq) \in Nat /\ S \subseteq 1..Len(seq)
    BY PositionsFinite
  <1>2. ASSUME NEW i \in 1..n
        PROVE  At(i) \in S /\ Cardinality({q \in S : q <= At(i)}) = i
    <2>1. \E p \in S : Cardinality({q \in S : q <= p}) = i
      <3> HIDE DEF At
      <3>1. i \in 1..Cardinality(S)
        OBVIOUS
      <3> HIDE DEF n
      <3> QED BY <1>1, <3>1, PlaceIsHeld
    <2> QED BY <2>1
  <1>3. Picked(seq, S) = picked
    BY DEF Picked
  <1>4. \A i, j \in 1..n : At(i) = At(j) => i = j
    BY <1>2
  <1>5. \A i \in 1..n : At(i) \in S
    BY <1>2
  <1> HIDE DEF At, n
  <1>6. picked \in Seq(T) /\ Len(picked) = n
    <2>1. \A i \in 1..n : seq[At(i)] \in T
      BY <1>5
    <2> QED BY <1>1, <2>1
  <1>7. \A i, j \in 1..n :
           \E p, q \in S : /\ picked[i] = seq[p] /\ picked[j] = seq[q] /\ (p = q => i = j)
    BY <1>4, <1>5
  <1> QED BY <1>1, <1>3, <1>6, <1>7 DEF n


\* the comparison a URL means names each tool once, and at most MAX_TOOLS
LEMMA ToolSlugsIs ==
    ASSUME NEW T, NEW url \in Seq(T)
    PROVE  /\ ToolSlugs(url) \in Seq(T) /\ IsInjective(ToolSlugs(url))
           /\ Len(ToolSlugs(url)) <= MAX_TOOLS
  <1>a. PICK first : first = {i \in DOMAIN url : \A j \in 1..i - 1 : url[j] # url[i]}
    OBVIOUS
  <1>b. PICK kept : kept = {i \in first : Cardinality({j \in first : j < i}) < MAX_TOOLS}
    OBVIOUS
  <1>c. PICK n \in Nat : n = Len(url)
    OBVIOUS
  <1>1. n \in Nat /\ DOMAIN url = 1..n /\ first \subseteq 1..n /\ kept \subseteq first
    <2>1. DOMAIN url = 1..n
      BY <1>c
    <2>2. first \subseteq 1..n
      BY <1>a, <2>1
    <2>3. kept \subseteq first
      BY <1>b
    <2> QED BY <2>1, <2>2, <2>3
  <1>2. \A p, q \in first : url[p] = url[q] => p = q
    <2> SUFFICES ASSUME NEW p \in first, NEW q \in first, url[p] = url[q], p < q PROVE FALSE
      <3>1. \A p, q \in first : p \in Nat /\ q \in Nat /\ (p = q \/ p < q \/ q < p)
        BY <1>1
      <3> QED BY <3>1
    <2>1. p \in 1..q - 1
      BY <1>1
    <2>2. \A j \in 1..q - 1 : url[j] # url[q]
      BY <1>a
    <2> QED BY <2>1, <2>2
  <1>3. ToolSlugs(url) = Picked(url, kept)
    BY <1>a, <1>b DEF ToolSlugs
  <1>4. kept \subseteq DOMAIN url /\ kept \subseteq 1..n
    BY <1>1
  <1>5. Cardinality(kept) \in Nat /\ MAX_TOOLS \in Nat
    BY <1>1, <1>4, PositionsFinite, CatalogAssumption
  <1>6. Cardinality(kept) <= MAX_TOOLS
    <2> SUFFICES ASSUME Cardinality(kept) > MAX_TOOLS PROVE FALSE
      BY <1>5
    <2>1. MAX_TOOLS + 1 \in 1..Cardinality(kept)
      BY <1>5
    <2>2. PICK p \in kept : Cardinality({q \in kept : q <= p}) = MAX_TOOLS + 1
      <3>1. \A i \in 1..Cardinality(kept) :
               \E p \in kept : Cardinality({q \in kept : q <= p}) = i
        BY <1>4, PlaceIsHeld
      <3> QED BY <2>1, <3>1
    <2>3. /\ Cardinality({q \in kept : q < p}) \in Nat
          /\ Cardinality({q \in kept : q <= p}) = Cardinality({q \in kept : q < p}) + 1
      BY <1>4, NextRank
    <2>4. p \in first /\ Cardinality({j \in first : j < p}) < MAX_TOOLS
      BY <1>b
    <2>5. {q \in kept : q < p} \subseteq {j \in first : j < p}
      BY <1>1
    <2>6. {j \in first : j < p} \subseteq 1..n
      BY <1>1
    <2>7. IsFiniteSet({j \in first : j < p}) /\ Cardinality({j \in first : j < p}) \in Nat
      BY <1>1, <2>6, PositionsFinite
    <2>8. Cardinality({q \in kept : q < p}) <= Cardinality({j \in first : j < p})
      BY <2>5, <2>7, FS_Subset
    <2> QED BY <1>5, <2>2, <2>3, <2>4, <2>7, <2>8
  <1>7. /\ Picked(url, kept) \in Seq(T)
        /\ Len(Picked(url, kept)) = Cardinality(kept)
        /\ \A i, j \in 1..Cardinality(kept) :
              \E p, q \in kept : /\ Picked(url, kept)[i] = url[p] /\ Picked(url, kept)[j] = url[q]
                                 /\ (p = q => i = j)
    <2>1. \A S : S \subseteq DOMAIN url =>
           /\ Picked(url, S) \in Seq(T)
           /\ Len(Picked(url, S)) = Cardinality(S)
           /\ \A i, j \in 1..Cardinality(S) :
              \E p, q \in S : /\ Picked(url, S)[i] = url[p] /\ Picked(url, S)[j] = url[q]
                                 /\ (p = q => i = j)
       BY PickedIs
    <2> QED BY <1>4, <2>1
  <1>8. ASSUME NEW i \in DOMAIN Picked(url, kept), NEW j \in DOMAIN Picked(url, kept),
               Picked(url, kept)[i] = Picked(url, kept)[j]
        PROVE  i = j
    <2>1. i \in 1..Cardinality(kept) /\ j \in 1..Cardinality(kept)
      BY <1>7
    <2>2. PICK p \in kept, q \in kept :
             /\ Picked(url, kept)[i] = url[p] /\ Picked(url, kept)[j] = url[q] /\ (p = q => i = j)
      BY <1>7, <2>1
    <2>3. url[p] = url[q]
      BY <1>8, <2>2
    <2>4. p = q
      BY <1>1, <1>2, <2>3
    <2> QED BY <2>2, <2>4
  <1> QED BY <1>3, <1>5, <1>6, <1>7, <1>8 DEF IsInjective


\* Part of the calculator: what a plan costs, as the work grows
Work == [documents : Nat, pagesPerDocument : Nat]
NoMore(less, more) ==
    /\ less.documents <= more.documents /\ less.pagesPerDocument <= more.pagesPerDocument

LEMMA MinIs ==
    ASSUME NEW S, S \subseteq Nat, S # {}
    PROVE  Min(S) \in S /\ Min(S) \in Nat /\ \A y \in S : Min(S) <= y
  <1>1. \E x \in S : \A y \in S : x <= y
    BY LeastExists
  <1> QED BY <1>1 DEF Min

LEMMA FirstPrice ==
    ASSUME NEW plan \in Plan, NEW overage, Published(plan, overage) # {}
    PROVE  plan.prices[Min(Published(plan, overage))] \in Price
  <1>1. plan.prices \in Seq(Price)
    BY DEF Plan
  <1>2. Published(plan, overage) \subseteq DOMAIN plan.prices
    BY DEF Published
  <1>3. DOMAIN plan.prices \subseteq Nat
    BY <1>1
  <1>4. Min(Published(plan, overage)) \in DOMAIN plan.prices
    BY <1>2, <1>3, MinIs
  <1> QED BY <1>1, <1>4

LEMMA PricesAreNumbers ==
    ASSUME NEW plan \in Plan
    PROVE  /\ HasBase(plan) => BasePrice(plan).amount \in Nat
           /\ \A unit \in Units : MetersBy(plan, unit) => OverageAmount(plan) \in Nat
           /\ \A kind : Caps(plan, kind) \subseteq Nat
  <1>1. HasBase(plan) => BasePrice(plan).amount \in Nat
    BY FirstPrice DEF HasBase, BasePrice, Price
  <1>2. ASSUME NEW unit \in Units, MetersBy(plan, unit) PROVE OverageAmount(plan) \in Nat
    BY <1>2, FirstPrice DEF MetersBy, OverageAmount, Price
  <1>3. ASSUME NEW kind PROVE Caps(plan, kind) \subseteq Nat
    <2>1. \A l \in plan.limits : l.value \in Nat
      BY DEF Plan, Limit
    <2> QED BY <2>1 DEF Caps
  <1> QED BY <1>1, <1>2, <1>3

LEMMA ExcessGrows ==
    ASSUME NEW caps, caps \subseteq Nat, NEW a \in Nat, NEW b \in Nat, a <= b
    PROVE  /\ Excess(a, caps) \in Nat /\ Excess(b, caps) \in Nat
           /\ Excess(a, caps) <= Excess(b, caps)
  <1>1. CASE caps = {}
    BY <1>1 DEF Excess
  <1>2. CASE caps # {}
    <2>1. Min(caps) \in Nat
      BY <1>2, MinIs
    <2> QED BY <1>2, <2>1 DEF Excess
  <1> QED BY <1>1, <1>2

LEMMA UsedGrows ==
    ASSUME NEW less \in Work, NEW more \in Work, NoMore(less, more)
    PROVE  \A unit : /\ Used(less, unit) \in Nat /\ Used(more, unit) \in Nat
                     /\ Used(less, unit) <= Used(more, unit)
  <1>1. /\ less.documents \in Nat /\ more.documents \in Nat
        /\ less.pagesPerDocument \in Nat /\ more.pagesPerDocument \in Nat
    BY DEF Work
  <1>2. Pages(less) \in Nat /\ Pages(more) \in Nat /\ Pages(less) <= Pages(more)
    BY <1>1, ProductGrows DEF Pages, NoMore
  <1> QED BY <1>1, <1>2 DEF Used, NoMore

LEMMA OverGrows ==
    ASSUME NEW plan \in Plan, NEW less \in Work, NEW more \in Work, NoMore(less, more)
    PROVE  \A unit : /\ Over(plan, less, unit) \in Nat /\ Over(plan, more, unit) \in Nat
                     /\ Over(plan, less, unit) <= Over(plan, more, unit)
  <1> SUFFICES ASSUME NEW unit
               PROVE  /\ Over(plan, less, unit) \in Nat /\ Over(plan, more, unit) \in Nat
                      /\ Over(plan, less, unit) <= Over(plan, more, unit)
    OBVIOUS
  <1>1. Monthly(plan, unit) \subseteq Nat
    BY PricesAreNumbers DEF Monthly
  <1>2. /\ Used(less, unit) \in Nat /\ Used(more, unit) \in Nat
        /\ Used(less, unit) <= Used(more, unit)
    BY UsedGrows
  <1> QED BY <1>1, <1>2, ExcessGrows DEF Over

LEMMA LimitStaysOver ==
    ASSUME NEW plan \in Plan, NEW less \in Work, NEW more \in Work, NoMore(less, more),
           OverLimit(plan, less)
    PROVE  OverLimit(plan, more)
  <1>1. CASE TooLong(plan, less)
    <2>1. Caps(plan, "pages_per_document") \subseteq Nat
      BY PricesAreNumbers
    <2>2. /\ less.pagesPerDocument \in Nat /\ more.pagesPerDocument \in Nat
          /\ less.pagesPerDocument <= more.pagesPerDocument
      BY DEF Work, NoMore
    <2>3. /\ Excess(less.pagesPerDocument, Caps(plan, "pages_per_document")) \in Nat
          /\ Excess(more.pagesPerDocument, Caps(plan, "pages_per_document")) \in Nat
          /\ Excess(less.pagesPerDocument, Caps(plan, "pages_per_document"))
                <= Excess(more.pagesPerDocument, Caps(plan, "pages_per_document"))
      BY <2>1, <2>2, ExcessGrows
    <2>4. TooLong(plan, more)
      BY <1>1, <2>3 DEF TooLong
    <2> QED BY <2>4 DEF OverLimit
  <1>2. CASE \E unit \in {"document", "page"} : Unpriced(plan, less, unit)
    <2>1. PICK unit \in {"document", "page"} : Unpriced(plan, less, unit)
      BY <1>2
    <2>2. /\ Over(plan, less, unit) \in Nat /\ Over(plan, more, unit) \in Nat
          /\ Over(plan, less, unit) <= Over(plan, more, unit)
      BY OverGrows
    <2>3. Unpriced(plan, more, unit)
      BY <2>1, <2>2 DEF Unpriced
    <2> QED BY <2>3 DEF OverLimit
  <1> QED BY <1>1, <1>2 DEF OverLimit

LEMMA MeteredGrows ==
    ASSUME NEW plan \in Plan, NEW less \in Work, NEW more \in Work, NoMore(less, more),
           ~OverLimit(plan, more)
    PROVE  /\ Metered(plan, less) \in Nat /\ Metered(plan, more) \in Nat
           /\ Metered(plan, less) <= Metered(plan, more)
  <1> DEFINE Was(unit) == Over(plan, less, unit)
             Is(unit) == Over(plan, more, unit)
             rate == OverageAmount(plan)
  <1>1. \A unit : Was(unit) \in Nat /\ Is(unit) \in Nat /\ Was(unit) <= Is(unit)
    BY OverGrows
  <1>2. \A unit \in {"document", "page"} : Is(unit) > 0 => MetersBy(plan, unit)
    BY DEF OverLimit, Unpriced
  <1>3. MetersBy(plan, "document") => ~MetersBy(plan, "page")
    BY DEF MetersBy
  <1>4. \A unit \in {"document", "page"} : Is(unit) > 0 => rate \in Nat
    BY <1>2, PricesAreNumbers DEF Units
  <1>5. /\ Metered(plan, less) = IF Was("document") > 0 THEN Was("document") * rate
                                 ELSE IF Was("page") > 0 THEN Was("page") * rate ELSE 0
        /\ Metered(plan, more) = IF Is("document") > 0 THEN Is("document") * rate
                                 ELSE IF Is("page") > 0 THEN Is("page") * rate ELSE 0
    BY DEF Metered
  <1> HIDE DEF Was, Is, rate
  <1>6. CASE Is("document") > 0
    <2>1. rate \in Nat /\ ~(Is("page") > 0)
      BY <1>2, <1>3, <1>4, <1>6
    <2>2. ~(Was("page") > 0)
      BY <1>1, <2>1
    <2>3. /\ Was("document") * rate \in Nat /\ Is("document") * rate \in Nat
          /\ Was("document") * rate <= Is("document") * rate
      BY <1>1, <2>1, ProductGrows
    <2> QED BY <1>5, <1>6, <2>2, <2>3
  <1>7. CASE ~(Is("document") > 0) /\ Is("page") > 0
    <2>1. rate \in Nat
      BY <1>4, <1>7
    <2>2. ~(Was("document") > 0)
      BY <1>1, <1>7
    <2>3. /\ Was("page") * rate \in Nat /\ Is("page") * rate \in Nat
          /\ Was("page") * rate <= Is("page") * rate
      BY <1>1, <2>1, ProductGrows
    <2> QED BY <1>5, <1>7, <2>2, <2>3
  <1>8. CASE ~(Is("document") > 0) /\ ~(Is("page") > 0)
    <2>1. ~(Was("document") > 0) /\ ~(Was("page") > 0)
      BY <1>1, <1>8
    <2> QED BY <1>5, <1>8, <2>1
  <1> QED BY <1>6, <1>7, <1>8

\* a plan's answer for a month: over its limit it stays over, and the amount
\* it states is never lower for more work
LEMMA CostGrows ==
    ASSUME NEW plan \in Plan, NEW less \in Work, NEW more \in Work, NoMore(less, more)
    PROVE  /\ CostOf(plan, less).kind = "over-limit" => CostOf(plan, more).kind = "over-limit"
           /\ CostOf(plan, more).kind = "amount" =>
                /\ CostOf(plan, less).kind = "amount"
                /\ CostOf(plan, less).currency = CostOf(plan, more).currency
                /\ CostOf(plan, less).total \in Nat /\ CostOf(plan, more).total \in Nat
                /\ CostOf(plan, less).total <= CostOf(plan, more).total
  <1>1. CASE ~HasBase(plan)
    BY <1>1 DEF CostOf, Unstated
  <1>2. CASE HasBase(plan) /\ OverLimit(plan, more)
    BY <1>2 DEF CostOf, Unstated
  <1>3. CASE HasBase(plan) /\ ~OverLimit(plan, more)
    <2>1. ~OverLimit(plan, less)
      BY <1>3, LimitStaysOver
    <2>2. BasePrice(plan).amount \in Nat
      BY <1>3, PricesAreNumbers
    <2>3. CASE BasePrice(plan).unit \in SUBSCRIPTION
      <3>1. /\ Metered(plan, less) \in Nat /\ Metered(plan, more) \in Nat
            /\ Metered(plan, less) <= Metered(plan, more)
        BY <1>3, MeteredGrows
      <3>2. /\ FeeAndOverage(plan, less) \in Nat /\ FeeAndOverage(plan, more) \in Nat
            /\ FeeAndOverage(plan, less) <= FeeAndOverage(plan, more)
        BY <2>2, <3>1 DEF FeeAndOverage
      <3>3. CASE Monthly(plan, "document") \cup Monthly(plan, "page") = {}
        BY <1>3, <2>1, <2>3, <3>3 DEF CostOf, Unstated
      <3>4. CASE Monthly(plan, "document") \cup Monthly(plan, "page") # {}
        <4>1. /\ CostOf(plan, less) = Amount(plan, FeeAndOverage(plan, less))
              /\ CostOf(plan, more) = Amount(plan, FeeAndOverage(plan, more))
          BY <1>3, <2>1, <2>3, <3>4 DEF CostOf
        <4> QED BY <3>2, <4>1 DEF Amount
      <3> QED BY <3>3, <3>4
    <2>4. CASE /\ BasePrice(plan).unit \notin SUBSCRIPTION
               /\ BasePrice(plan).unit \in {"page", "document"}
      <3>1. PICK unit : unit = BasePrice(plan).unit
        OBVIOUS
      <3>2. /\ Used(less, unit) \in Nat /\ Used(more, unit) \in Nat
            /\ Used(less, unit) <= Used(more, unit)
        BY UsedGrows
      <3>3. PICK fee \in Nat : fee = BasePrice(plan).amount
        BY <2>2
      <3>4. /\ fee * Used(less, unit) \in Nat /\ fee * Used(more, unit) \in Nat
            /\ fee * Used(less, unit) <= fee * Used(more, unit)
        BY <3>2, ProductGrows
      <3>5. /\ CostOf(plan, less) = Amount(plan, fee * Used(less, unit))
            /\ CostOf(plan, more) = Amount(plan, fee * Used(more, unit))
        BY <1>3, <2>1, <2>4, <3>1, <3>3 DEF CostOf
      <3> QED BY <3>4, <3>5 DEF Amount
    <2>5. CASE /\ BasePrice(plan).unit \notin SUBSCRIPTION
               /\ BasePrice(plan).unit \notin {"page", "document"}
      BY <1>3, <2>1, <2>5 DEF CostOf, Unstated
    <2> QED BY <2>3, <2>4, <2>5
  <1> QED BY <1>1, <1>2, <1>3

\* what an amount comes to in another currency, and which one that is
Changes(from, to, rates) == from # to /\ {from, to} \subseteq DOMAIN rates
NewTotal(total, from, to, rates) ==
    IF Changes(from, to, rates) THEN Rounded(total * rates[to], rates[from]) ELSE total
NewCurrency(from, to, rates) == IF Changes(from, to, rates) THEN to ELSE from

LEMMA CostConverted ==
    ASSUME NEW rates, NEW to, NEW kind, NEW total, NEW from
    PROVE  Convert([kind |-> kind, total |-> total, currency |-> from], to, rates)
             = [kind |-> kind, total |-> NewTotal(total, from, to, rates),
                currency |-> NewCurrency(from, to, rates)]
  BY DEF Convert, NewTotal, NewCurrency, Changes

LEMMA CandidateConverted ==
    ASSUME NEW rates, NEW to, NEW key, NEW total, NEW from
    PROVE  Convert([key |-> key, currency |-> from, total |-> total], to, rates)
             = [key |-> key, currency |-> NewCurrency(from, to, rates),
                total |-> NewTotal(total, from, to, rates)]
  BY DEF Convert, NewTotal, NewCurrency, Changes

\* published rates are never zero
GoodRates(rates) == \A c \in DOMAIN rates : rates[c] \in Nat \ {0}

LEMMA RatesAreGood == GoodRates(Rates) /\ GoodRates(<<>>)
  BY CatalogAssumption DEF GoodRates, Rates

LEMMA NewTotalGrows ==
    ASSUME NEW rates, GoodRates(rates), NEW a \in Nat, NEW b \in Nat, a <= b, NEW from, NEW to
    PROVE  /\ NewTotal(a, from, to, rates) <= NewTotal(b, from, to, rates)
           /\ NewTotal(a, from, to, rates) \in Nat /\ NewTotal(b, from, to, rates) \in Nat
  <1>1. CASE Changes(from, to, rates)
    <2>1. PICK m, d : m = rates[to] /\ d = rates[from]
      OBVIOUS
    <2>2. m \in Nat /\ d \in Nat \ {0}
      BY <1>1, <2>1 DEF GoodRates, Changes
    <2>3. a * m \in Nat /\ b * m \in Nat /\ a * m <= b * m
      BY <2>2, ProductGrows
    <2>4. Rounded(a * m, d) <= Rounded(b * m, d)
      BY <2>2, <2>3, RoundedGrows
    <2>5. Rounded(a * m, d) \in Nat /\ Rounded(b * m, d) \in Nat
      <3>1. 2 * (a * m) + d \in Nat /\ 2 * (b * m) + d \in Nat /\ 2 * d \in Nat \ {0}
        BY <2>2, <2>3
      <3> QED BY <3>1, DivNat DEF Rounded
    <2> QED BY <1>1, <2>1, <2>4, <2>5 DEF NewTotal
  <1>2. CASE ~Changes(from, to, rates)
    BY <1>2 DEF NewTotal
  <1> QED BY <1>1, <1>2

\* an amount is the fee's currency, and a number
LEMMA CostIs ==
    ASSUME NEW plan \in Plan, NEW in \in Work, CostOf(plan, in).kind = "amount"
    PROVE  /\ HasBase(plan)
           /\ CostOf(plan, in).total \in Nat
           /\ CostOf(plan, in) = [kind |-> "amount", total |-> CostOf(plan, in).total,
                                  currency |-> BasePrice(plan).currency]
  <1>1. HasBase(plan)
    BY DEF CostOf, Unstated
  <1>2. ~OverLimit(plan, in)
    BY DEF CostOf, Unstated
  <1>3. NoMore(in, in)
    BY DEF NoMore, Work
  <1>4. CostOf(plan, in).total \in Nat
    BY <1>3, CostGrows
  <1>5. \E t : CostOf(plan, in) = Amount(plan, t)
    BY <1>1, <1>2 DEF CostOf, Unstated
  <1> QED BY <1>1, <1>4, <1>5 DEF Amount

LEMMA ShownIs ==
    ASSUME NEW row, row.plan \in Plan, NEW v, VolumeInput(v) \in Work, NEW currency
    PROVE  LET cost == CostOf(row.plan, VolumeInput(v))
               shown == Shown(row, v, currency) IN
           /\ shown.kind = cost.kind
           /\ cost.kind = "amount" =>
                /\ shown.total = NewTotal(cost.total, cost.currency, currency, Rates)
                /\ shown.currency = NewCurrency(cost.currency, currency, Rates)
  <1> DEFINE cost == CostOf(row.plan, VolumeInput(v))
  <1>1. CASE cost.kind = "amount"
    <2>1. cost = [kind |-> "amount", total |-> cost.total, currency |-> cost.currency]
      <3>1. PICK t, c : cost = [kind |-> "amount", total |-> t, currency |-> c]
        BY <1>1, CostIs
      <3> QED BY <3>1
    <2>2. Shown(row, v, currency) = Convert(cost, currency, Rates)
      BY <1>1 DEF Shown
    <2>3. PICK t, c : t = cost.total /\ c = cost.currency
      OBVIOUS
    <2> HIDE DEF cost
    <2>4. Convert(cost, currency, Rates)
             = [kind |-> "amount", total |-> NewTotal(t, c, currency, Rates),
                currency |-> NewCurrency(c, currency, Rates)]
      <3>1. cost = [kind |-> "amount", total |-> t, currency |-> c]
        BY <2>1, <2>3
      <3>2. Convert([kind |-> "amount", total |-> t, currency |-> c], currency, Rates)
               = [kind |-> "amount", total |-> NewTotal(t, c, currency, Rates),
                  currency |-> NewCurrency(c, currency, Rates)]
        BY CostConverted
      <3> QED BY <3>1, <3>2
    <2> QED BY <1>1, <2>2, <2>3, <2>4 DEF cost
  <1>2. CASE cost.kind # "amount"
    BY <1>2 DEF Shown
  <1> QED BY <1>1, <1>2


\* Part of the calculator: its state
LEMMA PathOfOne == ASSUME NEW op, NEW x PROVE Key(op, <<x>>) = << <<op, x>> >>
  <1> DEFINE S == {op, x}
             joined == <<op>> \o <<x>>
  <1>1. <<op>> \in Seq(S) /\ <<x>> \in Seq(S)
    OBVIOUS
  <1>2. /\ joined \in Seq(S) /\ Len(joined) = Len(<<op>>) + Len(<<x>>)
        /\ \A i \in 1..(Len(<<op>>) + Len(<<x>>)) :
              joined[i] = IF i <= Len(<<op>>) THEN <<op>>[i] ELSE <<x>>[i - Len(<<op>>)]
    BY <1>1, ConcatProperties
  <1>3. joined = <<op, x>>
    <2> HIDE DEF joined
    <2>1. Len(joined) = 2 /\ joined[1] = op /\ joined[2] = x
      BY <1>2
    <2> QED BY <1>2, <2>1
  <1> QED BY <1>3 DEF Key

LEMMA EmptyPath == ASSUME NEW op PROVE Key(op, <<>>) = << <<op>> >>
  <1>1. <<op>> \in Seq({op})
    OBVIOUS
  <1>2. <<op>> \o <<>> = <<op>>
    BY <1>1, ConcatEmptySeq
  <1> QED BY <1>2 DEF Key

LEMMA CalcKeysDiffer ==
    /\ \A s, t : GetTool(s) = GetTool(t) => s = t
    /\ \A s : GetTool(s) # ListTools /\ GetTool(s) # ListExchangeRates
  <1>1. \A s : GetTool(s) = << <<"GetTool", s>> >>
    BY PathOfOne DEF GetTool
  <1>2. ListExchangeRates = << <<"ListExchangeRates">> >>
    BY EmptyPath DEF ListExchangeRates
  <1>3. ListTools = << <<"ListTools">> >> \o <<"page_size">>
    BY EmptyPath DEF ListTools, KeyWith
  <1>4. Len(ListTools) = 2
    <2>1. << <<"ListTools">> >> \in Seq({<<"ListTools">>, "page_size"})
      OBVIOUS
    <2>2. <<"page_size">> \in Seq({<<"ListTools">>, "page_size"})
      OBVIOUS
    <2>3. Len(<< <<"ListTools">> >>) = 1 /\ Len(<<"page_size">>) = 1
      OBVIOUS
    <2>4. Len(<< <<"ListTools">> >> \o <<"page_size">>) = 1 + 1
      BY <2>1, <2>2, <2>3, ConcatProperties
    <2> QED BY <1>3, <2>4
  <1>5. \A s, t : << <<"GetTool", s>> >> = << <<"GetTool", t>> >> => s = t
    OBVIOUS
  <1>6. \A s : << <<"GetTool", s>> >> # << <<"ListExchangeRates">> >>
    <2> SUFFICES ASSUME NEW s, << <<"GetTool", s>> >> = << <<"ListExchangeRates">> >> PROVE FALSE
      OBVIOUS
    <2>1. << <<"GetTool", s>> >>[1][1] = << <<"ListExchangeRates">> >>[1][1]
      OBVIOUS
    <2> QED BY <2>1
  <1>7. \A s : Len(<< <<"GetTool", s>> >>) = 1
    OBVIOUS
  <1>8. \A s : GetTool(s) # ListTools
    BY <1>1, <1>4, <1>7
  <1> QED BY <1>1, <1>2, <1>5, <1>6, <1>8

Volumes == [documents : {<<>>} \cup {<<n>> : n \in 1..MAX},
            pages : {<<>>} \cup {<<n>> : n \in 1..MAX}]

\* what a URL names is a comparison, and a tool with a detail is a listed one
CalcInv ==
    /\ slugs \in Seq(CalcSlugs) /\ IsInjective(slugs) /\ Len(slugs) <= MAX_TOOLS
    /\ navigating = <<>> \/ \E s \in Seq(CalcSlugs) : navigating = <<s>>
    /\ volume \in Volumes
    /\ chosen \in {"default"} \cup DOMAIN Ecb
    /\ queries \in [CalcKeys -> {"pending", "here", "failed"}]
    /\ \A s \in CalcSlugs : queries[GetTool(s)] = "here" => s \in Tools

LEMMA CalcInvImplies == CalcInv => CalcTypeOK
  <1> SUFFICES ASSUME CalcInv PROVE CalcTypeOK
    OBVIOUS
  <1>1. ASSUME NEW f \in {"documents", "pages"}
        PROVE  volume[f] = <<>> \/ Head(volume[f]) \in 1..MAX
    <2>1. volume[f] = <<>> \/ \E n \in 1..MAX : volume[f] = <<n>>
      BY DEF CalcInv, Volumes
    <2> QED BY <2>1
  <1> QED BY <1>1 DEF CalcInv, CalcTypeOK

LEMMA UrlsTyped == Urls \subseteq Seq(CalcSlugs)
  <1> SUFFICES ASSUME NEW url \in Urls PROVE url \in Seq(CalcSlugs)
    OBVIOUS
  <1>1. url \in Seq(STRING)
    BY CatalogAssumption
  <1>2. Range(url) \subseteq CalcSlugs
    <2>1. PICK named : named = Range(url)
      OBVIOUS
    <2>2. named \in {Range(u) : u \in Urls}
      BY <2>1
    <2>3. named \subseteq CalcSlugs
      <3> SUFFICES ASSUME NEW x \in named PROVE x \in CalcSlugs
        OBVIOUS
      <3>1. x \in UNION {Range(u) : u \in Urls}
        BY <2>2, Zenon
      <3> QED BY <3>1 DEF CalcSlugs
    <2> QED BY <2>1, <2>3
  <1>3. \A i \in DOMAIN url : url[i] \in CalcSlugs
    BY <1>2 DEF Range
  <1>4. url \in [1..Len(url) -> CalcSlugs] /\ Len(url) \in Nat
    BY <1>1, <1>3
  <1> QED BY <1>4

LEMMA CalcInitInv == CalcInit => CalcInv
  <1> SUFFICES ASSUME CalcInit PROVE CalcInv
    OBVIOUS
  <1>1. /\ slugs \in Seq(CalcSlugs) /\ IsInjective(slugs) /\ Len(slugs) <= MAX_TOOLS
    <2>1. PICK url \in Urls : slugs = ToolSlugs(url)
      BY DEF CalcInit
    <2> QED BY <2>1, UrlsTyped, ToolSlugsIs
  <1>2. volume \in Volumes
    BY CatalogAssumption DEF CalcInit, Volumes
  <1>3. \A s \in CalcSlugs : GetTool(s) \in CalcKeys
    BY DEF CalcKeys
  <1> QED BY <1>1, <1>2, <1>3 DEF CalcInit, CalcInv

LEMMA ClampTyped ==
    ASSUME NEW value \in Seq(Int)
    PROVE  Clamp(value) \in {<<>>} \cup {<<n>> : n \in 1..MAX}
  <1>1. CASE value = <<>>
    BY <1>1 DEF Clamp
  <1>2. CASE value # <<>>
    <2>1. Head(value) \in Int
      BY <1>2
    <2>2. MAX \in Nat \ {0}
      BY CatalogAssumption
    <2> DEFINE n == IF Head(value) < 1 THEN 1 ELSE IF Head(value) > MAX THEN MAX ELSE Head(value)
    <2>3. n \in 1..MAX
      BY <2>1, <2>2
    <2>4. Clamp(value) = <<n>>
      BY <1>2 DEF Clamp
    <2> HIDE DEF n
    <2> QED BY <2>3, <2>4
  <1> QED BY <1>1, <1>2

LEMMA TypeVolumeTyped == CalcInv /\ TypeVolume => volume' \in Volumes
  <1> SUFFICES ASSUME CalcInv, TypeVolume PROVE volume' \in Volumes
    OBVIOUS
  <1>1. PICK value \in Typed : \/ volume' = [volume EXCEPT !.documents = Clamp(value)]
                               \/ volume' = [volume EXCEPT !.pages = Clamp(value)]
    BY DEF TypeVolume
  <1>2. Clamp(value) \in {<<>>} \cup {<<n>> : n \in 1..MAX}
    BY CatalogAssumption, ClampTyped
  <1>3. volume \in Volumes
    BY DEF CalcInv
  <1> QED BY <1>1, <1>2, <1>3 DEF Volumes

LEMMA CalcNextInv == CalcInv /\ [CalcNext]_calcVars => CalcInv'
  <1> SUFFICES ASSUME CalcInv, [CalcNext]_calcVars PROVE CalcInv'
    OBVIOUS
  <1>1. CASE UNCHANGED calcVars
    BY <1>1 DEF calcVars, CalcInv
  <1>2. CASE TypeVolume
    <2>1. volume' \in Volumes
      BY <1>2, TypeVolumeTyped
    <2>2. UNCHANGED <<slugs, navigating, chosen, queries>>
      BY <1>2 DEF TypeVolume
    <2> QED BY <2>1, <2>2 DEF CalcInv
  <1>3. CASE Navigate
    <2>1. PICK s \in Seq(CalcSlugs) : navigating = <<s>>
      BY <1>3 DEF Navigate, CalcInv
    <2>2. slugs' = ToolSlugs(s) /\ navigating' = <<>> /\ UNCHANGED <<volume, chosen, queries>>
      BY <1>3, <2>1 DEF Navigate
    <2>3. /\ slugs' \in Seq(CalcSlugs) /\ IsInjective(slugs') /\ Len(slugs') <= MAX_TOOLS
      BY <2>2, ToolSlugsIs
    <2> QED BY <2>2, <2>3 DEF CalcInv
  <1>4. CASE PickCurrency
    <2>1. PICK c \in Options : chosen' = c
      BY <1>4 DEF PickCurrency
    <2>2. c \in DOMAIN Ecb
      <3>1. c \in DOMAIN Rates
        BY DEF Options
      <3> QED BY <3>1 DEF Rates
    <2>3. UNCHANGED <<slugs, navigating, volume, queries>>
      BY <1>4 DEF PickCurrency
    <2> QED BY <2>1, <2>2, <2>3 DEF CalcInv
  <1>5. ASSUME NEW slug \in Tools, PickTool(slug) PROVE CalcInv'
    <2>1. slug \in CalcSlugs
      BY DEF CalcSlugs
    <2>2. slugs \in Seq(CalcSlugs)
      BY DEF CalcInv
    <2>3. PICK s : s = Append(slugs, slug)
      OBVIOUS
    <2>4. s \in Seq(CalcSlugs)
      BY <2>1, <2>2, <2>3
    <2>5. navigating' = <<s>> /\ UNCHANGED <<slugs, volume, chosen, queries>>
      BY <1>5, <2>3 DEF PickTool
    <2> QED BY <2>4, <2>5 DEF CalcInv
  <1>6. ASSUME NEW slug \in Tools, RemoveTool(slug) PROVE CalcInv'
    <2>1. slugs \in Seq(CalcSlugs)
      BY DEF CalcInv
    <2>2. PICK s : s = Picked(slugs, {i \in DOMAIN slugs : slugs[i] # slug})
      OBVIOUS
    <2>3. PICK kept : kept = {i \in DOMAIN slugs : slugs[i] # slug}
      OBVIOUS
    <2>4. kept \subseteq DOMAIN slugs
      BY <2>3
    <2>5. s \in Seq(CalcSlugs)
      BY <2>1, <2>2, <2>3, <2>4, PickedIs
    <2>6. navigating' = <<s>> /\ UNCHANGED <<slugs, volume, chosen, queries>>
      BY <1>6, <2>2 DEF RemoveTool
    <2> QED BY <2>5, <2>6 DEF CalcInv
  <1>7. ASSUME NEW key \in CalcKeys, ReadArrives(key) PROVE CalcInv'
    <2>1. UNCHANGED <<slugs, navigating, volume, chosen>>
      BY <1>7 DEF ReadArrives
    <2>2. queries' \in [CalcKeys -> {"pending", "here", "failed"}]
      BY <1>7 DEF ReadArrives, CalcInv
    <2>3. ASSUME NEW s \in CalcSlugs, queries'[GetTool(s)] = "here" PROVE s \in Tools
      <3>1. queries[GetTool(s)] = "here" => s \in Tools
        BY DEF CalcInv
      <3>2. GetTool(s) \in CalcKeys
        BY DEF CalcKeys
      <3>3. queries \in [CalcKeys -> {"pending", "here", "failed"}]
        BY DEF CalcInv
      <3>4. \/ /\ key \in {ListTools, ListExchangeRates} \cup {GetTool(t) : t \in Tools}
               /\ queries' = [queries EXCEPT ![key] = "here"]
            \/ queries' = [queries EXCEPT ![key] = "failed"]
        BY <1>7 DEF ReadArrives
      <3>5. CASE queries' = [queries EXCEPT ![key] = "failed"]
        BY <2>3, <3>1, <3>2, <3>3, <3>5
      <3>6. CASE /\ key \in {ListTools, ListExchangeRates} \cup {GetTool(t) : t \in Tools}
                 /\ queries' = [queries EXCEPT ![key] = "here"]
        <4>1. CASE GetTool(s) # key
          BY <2>3, <3>1, <3>2, <3>3, <3>6, <4>1
        <4>2. CASE GetTool(s) = key
          <5>1. PICK t \in Tools : GetTool(s) = GetTool(t)
            BY <3>6, <4>2, CalcKeysDiffer
          <5> QED BY <5>1, CalcKeysDiffer
        <4> QED BY <4>1, <4>2
      <3> QED BY <3>4, <3>5, <3>6
    <2> QED BY <2>1, <2>2, <2>3 DEF CalcInv
  <1> QED BY <1>1, <1>2, <1>3, <1>4, <1>5, <1>6, <1>7 DEF CalcNext


LEMMA FieldIs == \A f \in {<<>>} \cup {<<n>> : n \in 1..MAX} :
                     (IF f = <<>> THEN 1 ELSE Head(f)) \in Nat
  <1> SUFFICES ASSUME NEW f \in {<<>>} \cup {<<n>> : n \in 1..MAX}, f # <<>>
               PROVE  Head(f) \in Nat
    OBVIOUS
  <1>1. PICK n \in 1..MAX : f = <<n>>
    OBVIOUS
  <1>2. n \in Nat
    BY CatalogAssumption
  <1> QED BY <1>1, <1>2

LEMMA WorkTyped == ASSUME NEW v \in Volumes PROVE VolumeInput(v) \in Work
  <1>1. /\ v.documents \in {<<>>} \cup {<<n>> : n \in 1..MAX}
        /\ v.pages \in {<<>>} \cup {<<n>> : n \in 1..MAX}
    BY DEF Volumes
  <1>2. /\ (IF v.documents = <<>> THEN 1 ELSE Head(v.documents)) \in Nat
        /\ (IF v.pages = <<>> THEN 1 ELSE Head(v.pages)) \in Nat
    BY <1>1, FieldIs
  <1> QED BY <1>2 DEF VolumeInput, Work

LEMMA PlanRowIs ==
    ASSUME NEW s \in Tools, NEW row \in PlanRows(s)
    PROVE  \E i \in DOMAIN Catalog[s] :
              /\ row = [key |-> <<s, Catalog[s][i].code>>, plan |-> Catalog[s][i]]
              /\ Catalog[s][i] \in Plan
  <1>1. PICK plan \in Range(Catalog[s]) : row = [key |-> <<s, plan.code>>, plan |-> plan]
    BY DEF PlanRows
  <1>2. PICK i \in DOMAIN Catalog[s] : plan = Catalog[s][i]
    BY DEF Range
  <1>3. Catalog[s] \in Seq(Plan)
    BY CatalogAssumption DEF Tools
  <1>4. Catalog[s][i] \in Plan
    BY <1>3
  <1> QED BY <1>1, <1>2, <1>4

LEMMA ComparedIsListed == CalcInv => Compared \subseteq Tools
  <1> SUFFICES ASSUME CalcInv, NEW s \in Compared PROVE s \in Tools
    OBVIOUS
  <1>1. s \in Range(slugs) /\ queries[GetTool(s)] = "here"
    BY DEF Compared
  <1>2. s \in CalcSlugs
    <2>1. PICK i \in DOMAIN slugs : s = slugs[i]
      BY <1>1 DEF Range
    <2> QED BY <2>1 DEF CalcInv
  <1> QED BY <1>1, <1>2 DEF CalcInv

\* a row is a plan of a listed tool, and its key says which
LEMMA RowIs ==
    ASSUME CalcInv, NEW row \in Rows
    PROVE  \E s \in Tools, i \in Nat :
              /\ i \in DOMAIN Catalog[s]
              /\ row = [key |-> <<s, Catalog[s][i].code>>, plan |-> Catalog[s][i]]
              /\ Catalog[s][i] \in Plan
  <1>1. PICK s \in Compared : row \in PlanRows(s)
    BY DEF Rows
  <1>2. s \in Tools
    BY ComparedIsListed
  <1>3. PICK i \in DOMAIN Catalog[s] :
              /\ row = [key |-> <<s, Catalog[s][i].code>>, plan |-> Catalog[s][i]]
              /\ Catalog[s][i] \in Plan
    BY <1>1, <1>2, PlanRowIs
  <1>4. i \in Nat
    BY <1>2, CatalogAssumption DEF Tools
  <1> QED BY <1>2, <1>3, <1>4

LEMMA RowsHavePlans == CalcInv => \A row \in Rows : row.plan \in Plan
  <1> SUFFICES ASSUME CalcInv, NEW row \in Rows PROVE row.plan \in Plan
    OBVIOUS
  <1>1. PICK s \in Tools, i \in Nat :
              /\ row = [key |-> <<s, Catalog[s][i].code>>, plan |-> Catalog[s][i]]
              /\ Catalog[s][i] \in Plan
    BY RowIs
  <1> QED BY <1>1

LEMMA KeyNamesTheRow ==
    CalcInv => \A r, t \in Rows : r.key = t.key => r = t
  <1> SUFFICES ASSUME CalcInv, NEW r \in Rows, NEW t \in Rows, r.key = t.key PROVE r = t
    OBVIOUS
  <1>1. PICK s \in Tools, i \in Nat :
           /\ i \in DOMAIN Catalog[s]
           /\ r = [key |-> <<s, Catalog[s][i].code>>, plan |-> Catalog[s][i]]
    BY RowIs
  <1>2. PICK u \in Tools, j \in Nat :
           /\ j \in DOMAIN Catalog[u]
           /\ t = [key |-> <<u, Catalog[u][j].code>>, plan |-> Catalog[u][j]]
    BY RowIs
  <1>3. s = u /\ Catalog[s][i].code = Catalog[u][j].code
    BY <1>1, <1>2
  <1>4. i = j
    <2>1. \A k, l \in DOMAIN Catalog[s] : Catalog[s][k].code = Catalog[s][l].code => k = l
      BY CatalogAssumption, Zenon DEF Tools
    <2> QED BY <1>1, <1>2, <1>3, <2>1
  <1> QED BY <1>1, <1>2, <1>3, <1>4

\* More work never costs less, in the plan's currency and in the one shown.
LEMMA RowGrows ==
    ASSUME NEW row, row.plan \in Plan, NEW v \in Volumes, NEW w \in Volumes,
           NoMore(VolumeInput(v), VolumeInput(w)), NEW currency
    PROVE  LET was == Shown(row, v, currency)
               is == Shown(row, w, currency) IN
           /\ was.kind = "over-limit" => is.kind = "over-limit"
           /\ is.kind = "amount" => was.kind = "amount" /\ was.total <= is.total
  <1>1. PICK less, more : less = VolumeInput(v) /\ more = VolumeInput(w)
    OBVIOUS
  <1>2. less \in Work /\ more \in Work /\ NoMore(less, more)
    BY <1>1, WorkTyped
  <1>3. PICK was, is : was = CostOf(row.plan, less) /\ is = CostOf(row.plan, more)
    OBVIOUS
  <1>4. /\ was.kind = "over-limit" => is.kind = "over-limit"
        /\ is.kind = "amount" =>
             /\ was.kind = "amount" /\ was.currency = is.currency
             /\ was.total \in Nat /\ is.total \in Nat /\ was.total <= is.total
    BY <1>2, <1>3, CostGrows
  <1>5. /\ Shown(row, v, currency).kind = was.kind
        /\ was.kind = "amount" =>
             Shown(row, v, currency).total
                = NewTotal(was.total, was.currency, currency, Rates)
    BY <1>1, <1>2, <1>3, ShownIs
  <1>6. /\ Shown(row, w, currency).kind = is.kind
        /\ is.kind = "amount" =>
             Shown(row, w, currency).total = NewTotal(is.total, is.currency, currency, Rates)
    BY <1>1, <1>2, <1>3, ShownIs
  <1>7. is.kind = "amount" =>
          NewTotal(was.total, was.currency, currency, Rates)
             <= NewTotal(is.total, is.currency, currency, Rates)
    BY <1>4, RatesAreGood, NewTotalGrows
  <1> QED BY <1>4, <1>5, <1>6, <1>7

LEMMA MoreWorkStep ==
    CalcInv /\ CalcInv' =>
       LET less == VolumeInput(volume)
           more == VolumeInput(volume')
           currency == Currency IN
       /\ volume' # volume
       /\ less.documents <= more.documents /\ less.pagesPerDocument <= more.pagesPerDocument
       => \A row \in Rows :
             LET was == Shown(row, volume, currency)
                 is == Shown(row, volume', currency) IN
             /\ was.kind = "over-limit" => is.kind = "over-limit"
             /\ is.kind = "amount" => was.kind = "amount" /\ was.total <= is.total
  <1> SUFFICES ASSUME CalcInv, CalcInv',
                      VolumeInput(volume).documents <= VolumeInput(volume').documents,
                      VolumeInput(volume).pagesPerDocument
                         <= VolumeInput(volume').pagesPerDocument,
                      NEW row \in Rows
               PROVE  LET was == Shown(row, volume, Currency)
                          is == Shown(row, volume', Currency) IN
                      /\ was.kind = "over-limit" => is.kind = "over-limit"
                      /\ is.kind = "amount" => was.kind = "amount" /\ was.total <= is.total
    OBVIOUS
  <1>1. volume \in Volumes /\ volume' \in Volumes
    BY DEF CalcInv
  <1>2. NoMore(VolumeInput(volume), VolumeInput(volume'))
    BY DEF NoMore
  <1>3. row.plan \in Plan
    BY RowsHavePlans
  <1> QED BY <1>1, <1>2, <1>3, RowGrows


\* Part of the calculator: the badges
Counts(row, in) == \/ CostOf(row.plan, in).kind = "amount"
                   \/ /\ CostOf(row.plan, in).kind = "included"
                      /\ BasePrice(row.plan).unit = "month"
Figure(row, in) == IF CostOf(row.plan, in).kind = "amount" THEN CostOf(row.plan, in).total
                                                           ELSE BasePrice(row.plan).amount
BaseCurrency(row) == BasePrice(row.plan).currency
Candidate(row, in, to, rates) ==
    [key |-> row.key, currency |-> NewCurrency(BaseCurrency(row), to, rates),
     total |-> NewTotal(Figure(row, in), BaseCurrency(row), to, rates)]

LEMMA CandidateOf ==
    ASSUME NEW row, NEW in, NEW to, NEW rates
    PROVE  Convert([key |-> row.key, currency |-> BasePrice(row.plan).currency,
                    total |-> IF CostOf(row.plan, in).kind = "amount"
                              THEN CostOf(row.plan, in).total ELSE BasePrice(row.plan).amount],
                   to, rates)
             = Candidate(row, in, to, rates)
  BY CandidateConverted DEF Candidate, Figure, BaseCurrency

LEMMA CandidatesAre ==
    ASSUME NEW rows, NEW in, NEW to, NEW rates
    PROVE  /\ \A row \in rows : Counts(row, in) =>
                 Candidate(row, in, to, rates) \in Candidates(rows, in, to, rates)
           /\ \A c \in Candidates(rows, in, to, rates) :
                 \E row \in rows : Counts(row, in) /\ c = Candidate(row, in, to, rates)
  <1>1. ASSUME NEW row \in rows, Counts(row, in)
        PROVE  Candidate(row, in, to, rates) \in Candidates(rows, in, to, rates)
    BY <1>1, CandidateOf, Zenon DEF Candidates, Counts
  <1>2. ASSUME NEW c \in Candidates(rows, in, to, rates)
        PROVE  \E row \in rows : Counts(row, in) /\ c = Candidate(row, in, to, rates)
    BY CandidateOf, ZenonT(30) DEF Candidates, Counts
  <1> QED BY <1>1, <1>2

LEMMA FigureIs ==
    ASSUME NEW row, row.plan \in Plan, NEW in \in Work, Counts(row, in)
    PROVE  Figure(row, in) \in Nat
  <1>1. CASE CostOf(row.plan, in).kind = "amount"
    BY <1>1, CostIs DEF Figure
  <1>2. CASE CostOf(row.plan, in).kind # "amount"
    <2>1. CostOf(row.plan, in).kind = "included"
      BY <1>2 DEF Counts
    <2>2. HasBase(row.plan)
      BY <2>1 DEF CostOf, Unstated
    <2> QED BY <1>2, <2>2, PricesAreNumbers DEF Figure
  <1> QED BY <1>1, <1>2

LEMMA ImageFinite ==
    ASSUME NEW S, IsFiniteSet(S), NEW f, f = [x \in S |-> f[x]]
    PROVE  IsFiniteSet({f[x] : x \in S})
  <1> DEFINE T == {f[x] : x \in S}
  <1>1. f \in Surjection(S, T)
    BY DEF Surjection
  <1> QED BY <1>1, FS_Surjection

LEMMA RangeFinite ==
    ASSUME NEW T, NEW s \in Seq(T)
    PROVE  IsFiniteSet(Range(s))
  <1>1. IsFiniteSet(DOMAIN s) 
    <2>1. DOMAIN s = 1..Len(s) /\ Len(s) \in Nat
      OBVIOUS
    <2> QED BY <2>1, FS_Interval
  <1>2. s = [i \in DOMAIN s |-> s[i]]
    OBVIOUS
  <1> QED BY <1>1, <1>2, ImageFinite DEF Range

LEMMA PlanRowsFinite == \A s \in Tools : IsFiniteSet(PlanRows(s))
  <1> SUFFICES ASSUME NEW s \in Tools PROVE IsFiniteSet(PlanRows(s))
    OBVIOUS
  <1>1. IsFiniteSet(Range(Catalog[s]))
    BY CatalogAssumption, RangeFinite DEF Tools
  <1> DEFINE f == [plan \in Range(Catalog[s]) |-> [key |-> <<s, plan.code>>, plan |-> plan]]
  <1>2. IsFiniteSet({f[plan] : plan \in Range(Catalog[s])})
    <2>1. f = [plan \in Range(Catalog[s]) |-> f[plan]]
      BY Zenon
    <2> HIDE DEF f
    <2> QED BY <1>1, <2>1, ImageFinite
  <1>3. {f[plan] : plan \in Range(Catalog[s])} = PlanRows(s)
    BY DEF PlanRows
  <1> QED BY <1>2, <1>3

LEMMA RowsFinite == CalcInv => IsFiniteSet(Rows)
  <1> SUFFICES ASSUME CalcInv PROVE IsFiniteSet(Rows)
    OBVIOUS
  <1>1. IsFiniteSet(Compared)
    <2>1. IsFiniteSet(Range(slugs))
      BY RangeFinite DEF CalcInv
    <2>2. Compared \subseteq Range(slugs)
      BY DEF Compared
    <2> QED BY <2>1, <2>2, FS_Subset
  <1> DEFINE f == [s \in Compared |-> PlanRows(s)]
             all == {f[s] : s \in Compared}
  <1>2. IsFiniteSet(all)
    <2>1. f = [s \in Compared |-> f[s]]
      BY Zenon
    <2> HIDE DEF f
    <2> QED BY <1>1, <2>1, ImageFinite
  <1>3. \A T \in all : IsFiniteSet(T)
    BY ComparedIsListed, PlanRowsFinite
  <1>4. Rows = UNION all
    BY DEF Rows
  <1> HIDE DEF all
  <1> QED BY <1>2, <1>3, <1>4, FS_UNION

LEMMA CurrenciesFinite ==
    ASSUME NEW rows, IsFiniteSet(rows), NEW in, NEW to, NEW rates
    PROVE  IsFiniteSet({c.currency : c \in Candidates(rows, in, to, rates)})
  <1> DEFINE f == [row \in rows |-> NewCurrency(BaseCurrency(row), to, rates)]
             image == {f[row] : row \in rows}
  <1>1. IsFiniteSet(image)
    <2>1. f = [row \in rows |-> f[row]]
      BY Zenon
    <2> HIDE DEF f
    <2> QED BY <2>1, ImageFinite
  <1>2. ASSUME NEW c \in Candidates(rows, in, to, rates) PROVE c.currency \in image
    <2>1. PICK row \in rows : c = Candidate(row, in, to, rates)
      BY CandidatesAre
    <2>2. c.currency = f[row]
      BY <2>1 DEF Candidate
    <2> QED BY <2>2
  <1>3. {c.currency : c \in Candidates(rows, in, to, rates)} \subseteq image
    <2> HIDE DEF image
    <2> QED BY <1>2
  <1> HIDE DEF image
  <1> QED BY <1>1, <1>3, FS_Subset

LEMMA OneIsSame ==
    ASSUME NEW S, IsFiniteSet(S), Cardinality(S) <= 1, NEW a \in S, NEW b \in S
    PROVE  a = b
  <1> SUFFICES ASSUME a # b PROVE FALSE
    OBVIOUS
  <1>1. IsFiniteSet({a}) /\ Cardinality({a}) = 1
    BY FS_Singleton
  <1>2. IsFiniteSet({a} \cup {b}) /\ Cardinality({a} \cup {b}) = 2
    <2>1. PICK A : A = {a}
      OBVIOUS
    <2>2. b \notin A
      BY <2>1
    <2>3. IsFiniteSet(A) /\ Cardinality(A) = 1
      BY <1>1, <2>1
    <2>4. IsFiniteSet(A \cup {b}) /\ Cardinality(A \cup {b}) = 2
      BY <2>2, <2>3, FS_AddElement
    <2> QED BY <2>1, <2>4
  <1>3. {a} \cup {b} \in SUBSET S
    OBVIOUS
  <1>4. Cardinality({a} \cup {b}) <= Cardinality(S)
    BY <1>3, FS_Subset
  <1>5. Cardinality(S) \in Nat
    BY FS_CardinalityType
  <1> QED BY <1>2, <1>4, <1>5

LEMMA SameIsOne ==
    ASSUME NEW S, \A a, b \in S : a = b
    PROVE  Cardinality(S) <= 1
  <1>1. CASE S = {}
    BY <1>1, FS_EmptySet
  <1>2. CASE S # {}
    <2>1. PICK a \in S : TRUE
      BY <1>2
    <2>2. S = {a}
      BY <2>1
    <2> QED BY <2>2, FS_Singleton
  <1> QED BY <1>1, <1>2

\* A badge means: the row counts, every other that counts is in the same
\* currency and none is lower.
LEMMA BadgeMeans ==
    ASSUME NEW rows, IsFiniteSet(rows), NEW in, NEW to, NEW rates, NEW key,
           key \in CheapestRows(rows, in, to, rates)
    PROVE  \E row \in rows :
              /\ row.key = key /\ Counts(row, in)
              /\ \A its \in rows : Counts(its, in) =>
                    /\ Candidate(row, in, to, rates).currency
                          = Candidate(its, in, to, rates).currency
                    /\ Candidate(row, in, to, rates).total
                          <= Candidate(its, in, to, rates).total
  <1> DEFINE priced == Candidates(rows, in, to, rates)
  <1>1. PICK d \in priced : /\ key = d.key /\ OneCurrency(priced)
                            /\ \A e \in priced : d.total <= e.total
    BY Zenon DEF CheapestRows
  <1>2. PICK row \in rows : Counts(row, in) /\ d = Candidate(row, in, to, rates)
    BY <1>1, CandidatesAre
  <1>3. row.key = key
    BY <1>1, <1>2 DEF Candidate
  <1>4. ASSUME NEW its \in rows, Counts(its, in)
        PROVE  /\ d.currency = Candidate(its, in, to, rates).currency
               /\ d.total <= Candidate(its, in, to, rates).total
    <2>1. PICK e : e = Candidate(its, in, to, rates)
      OBVIOUS
    <2>2. e \in priced
      BY <1>4, <2>1, CandidatesAre
    <2>3. d.total <= e.total
      BY <1>1, <2>2
    <2>4. d.currency = e.currency
      <3> DEFINE S == {c.currency : c \in priced}
      <3>1. IsFiniteSet(S) /\ Cardinality(S) <= 1
        BY <1>1, CurrenciesFinite DEF OneCurrency
      <3>2. d.currency \in S /\ e.currency \in S
        BY <1>1, <2>2
      <3> HIDE DEF S
      <3> QED BY <3>1, <3>2, OneIsSame
    <2> QED BY <2>1, <2>3, <2>4
  <1> QED BY <1>2, <1>3, <1>4

LEMMA BadgeGiven ==
    ASSUME NEW rows, NEW in, NEW to, NEW rates, NEW row \in rows, Counts(row, in),
           \A its \in rows : Counts(its, in) =>
              /\ Candidate(row, in, to, rates).currency = Candidate(its, in, to, rates).currency
              /\ Candidate(row, in, to, rates).total <= Candidate(its, in, to, rates).total
    PROVE  row.key \in CheapestRows(rows, in, to, rates)
  <1> DEFINE priced == Candidates(rows, in, to, rates)
             S == {c.currency : c \in priced}
  <1>1. PICK d : d = Candidate(row, in, to, rates)
    OBVIOUS
  <1>2. d \in priced /\ d.key = row.key
    BY <1>1, CandidatesAre DEF Candidate
  <1>3. \A e \in priced : d.total <= e.total /\ e.currency = d.currency
    BY <1>1, CandidatesAre
  <1>4. \A a, b \in S : a = b
    BY <1>3
  <1>5. OneCurrency(priced)
    <2>1. Cardinality(S) <= 1
      <3> HIDE DEF S
      <3> QED BY <1>4, SameIsOne
    <2> QED BY <2>1 DEF OneCurrency
  <1> QED BY <1>2, <1>3, <1>5, Zenon DEF CheapestRows

LEMMA NoRates ==
    ASSUME NEW row, NEW in
    PROVE  Candidate(row, in, "published", <<>>)
             = [key |-> row.key, currency |-> BaseCurrency(row), total |-> Figure(row, in)]
  <1>1. ~Changes(BaseCurrency(row), "published", <<>>)
    BY DEF Changes
  <1> QED BY <1>1 DEF Candidate, NewCurrency, NewTotal


LEMMA TotalsRanked ==
    CalcInv => LET totals == {[key |-> row.key, cost |-> Shown(row, volume, Currency)] :
                                 row \in Rows} IN
               \A mine, its \in {t \in totals : t.cost.kind = "amount"} :
                  mine.key \in Badged => /\ mine.cost.currency = its.cost.currency
                                         /\ mine.cost.total <= its.cost.total
  <1> DEFINE totals == {[key |-> row.key, cost |-> Shown(row, volume, Currency)] : row \in Rows}
  <1> SUFFICES ASSUME CalcInv, NEW mine \in totals, mine.cost.kind = "amount",
                      NEW its \in totals, its.cost.kind = "amount", mine.key \in Badged
               PROVE  /\ mine.cost.currency = its.cost.currency
                      /\ mine.cost.total <= its.cost.total
    OBVIOUS
  <1>1. PICK r \in Rows : mine = [key |-> r.key, cost |-> Shown(r, volume, Currency)]
    OBVIOUS
  <1>2. PICK t \in Rows : its = [key |-> t.key, cost |-> Shown(t, volume, Currency)]
    OBVIOUS
  <1> HIDE DEF totals
  <1>3. PICK in, to : in = VolumeInput(volume) /\ to = Currency
    OBVIOUS
  <1>4. VolumeInput(volume) \in Work /\ r.plan \in Plan /\ t.plan \in Plan
    BY WorkTyped, RowsHavePlans DEF CalcInv
  <1>5. ASSUME NEW row, row.plan \in Plan, Shown(row, volume, Currency).kind = "amount"
        PROVE  /\ Counts(row, in)
               /\ Shown(row, volume, Currency).currency = Candidate(row, in, to, Rates).currency
               /\ Shown(row, volume, Currency).total = Candidate(row, in, to, Rates).total
    <2>1. PICK cost : cost = CostOf(row.plan, in)
      OBVIOUS
    <2>2. /\ Shown(row, volume, Currency).kind = cost.kind
          /\ cost.kind = "amount" =>
               /\ Shown(row, volume, Currency).total
                     = NewTotal(cost.total, cost.currency, to, Rates)
               /\ Shown(row, volume, Currency).currency
                     = NewCurrency(cost.currency, to, Rates)
      BY <1>3, <1>4, <1>5, <2>1, ShownIs
    <2>3. cost.kind = "amount"
      BY <1>5, <2>2
    <2>4. cost.currency = BaseCurrency(row)
      <3>1. cost = [kind |-> "amount", total |-> cost.total,
                    currency |-> BasePrice(row.plan).currency]
        BY <1>3, <1>4, <1>5, <2>1, <2>3, CostIs
      <3> QED BY <3>1 DEF BaseCurrency
    <2>5. Figure(row, in) = cost.total
      BY <2>1, <2>3 DEF Figure
    <2>6. Counts(row, in)
      BY <2>1, <2>3 DEF Counts
    <2> QED BY <2>2, <2>3, <2>4, <2>5, <2>6 DEF Candidate
  <1>6. /\ Counts(r, in) /\ Counts(t, in)
        /\ mine.cost.currency = Candidate(r, in, to, Rates).currency
        /\ its.cost.currency = Candidate(t, in, to, Rates).currency
        /\ mine.cost.total = Candidate(r, in, to, Rates).total
        /\ its.cost.total = Candidate(t, in, to, Rates).total
    BY <1>1, <1>2, <1>4, <1>5
  <1>7. r.key \in CheapestRows(Rows, in, to, Rates)
    BY <1>1, <1>3 DEF Badged
  <1>8. PICK row \in Rows :
           /\ row.key = r.key /\ Counts(row, in)
           /\ \A other \in Rows : Counts(other, in) =>
                 /\ Candidate(row, in, to, Rates).currency
                       = Candidate(other, in, to, Rates).currency
                 /\ Candidate(row, in, to, Rates).total
                       <= Candidate(other, in, to, Rates).total
    BY <1>7, RowsFinite, BadgeMeans
  <1>9. row = r
    BY <1>8, KeyNamesTheRow
  <1> QED BY <1>6, <1>8, <1>9

LEMMA HubAgrees ==
    ASSUME CalcInv, Len(slugs) = 1, NEW slug \in Compared, NEW in \in Work,
           NEW code \in CheapestCost(slug, in), NEW to
    PROVE  <<slug, code>> \in CheapestRows(Rows, in, to, Rates)
  <1>1. Rows = PlanRows(slug)
    <2>1. slugs \in Seq(CalcSlugs) /\ DOMAIN slugs = 1..1
      BY DEF CalcInv
    <2>2. Range(slugs) = {slugs[1]}
      BY <2>1 DEF Range
    <2>3. Compared = {slug}
      BY <2>2 DEF Compared
    <2>4. {PlanRows(s) : s \in Compared} = {PlanRows(slug)}
      BY <2>3
    <2>5. UNION {PlanRows(slug)} = PlanRows(slug)
      OBVIOUS
    <2> QED BY <2>4, <2>5 DEF Rows
  <1>2. <<slug, code>> \in CheapestRows(Rows, in, "published", <<>>)
    <2> DEFINE best == {i \in DOMAIN Catalog[slug] :
                          <<slug, Catalog[slug][i].code>>
                             \in CheapestRows(Rows, in, "published", <<>>)}
    <2>1. CheapestCost(slug, in) = IF best = {} THEN {} ELSE {Catalog[slug][Min(best)].code}
      BY <1>1 DEF CheapestCost
    <2>2. best # {} /\ code = Catalog[slug][Min(best)].code
      <3> HIDE DEF best
      <3> QED BY <2>1
    <2>3. best \subseteq Nat
      <3>1. Catalog[slug] \in Seq(Plan)
        BY ComparedIsListed, CatalogAssumption DEF Tools
      <3> QED BY <3>1
    <2>4. Min(best) \in best
      <3> HIDE DEF best
      <3> QED BY <2>2, <2>3, MinIs
    <2> QED BY <2>2, <2>4
  <1>3. PICK r \in Rows :
           /\ r.key = <<slug, code>> /\ Counts(r, in)
           /\ \A its \in Rows : Counts(its, in) =>
                 /\ Candidate(r, in, "published", <<>>).currency
                       = Candidate(its, in, "published", <<>>).currency
                 /\ Candidate(r, in, "published", <<>>).total
                       <= Candidate(its, in, "published", <<>>).total
    BY <1>2, RowsFinite, BadgeMeans
  <1>4. ASSUME NEW its \in Rows, Counts(its, in)
        PROVE  /\ Candidate(r, in, to, Rates).currency = Candidate(its, in, to, Rates).currency
               /\ Candidate(r, in, to, Rates).total <= Candidate(its, in, to, Rates).total
    <2>1. BaseCurrency(r) = BaseCurrency(its) /\ Figure(r, in) <= Figure(its, in)
      BY <1>3, <1>4, NoRates
    <2>2. Figure(r, in) \in Nat /\ Figure(its, in) \in Nat
      BY <1>3, <1>4, RowsHavePlans, FigureIs
    <2>3. NewTotal(Figure(r, in), BaseCurrency(r), to, Rates)
             <= NewTotal(Figure(its, in), BaseCurrency(r), to, Rates)
      BY <2>1, <2>2, RatesAreGood, NewTotalGrows
    <2> QED BY <2>1, <2>3 DEF Candidate
  <1>5. r.key \in CheapestRows(Rows, in, to, Rates)
    BY <1>3, <1>4, BadgeGiven
  <1> QED BY <1>3, <1>5

LEMMA CheapestRanked == CalcInv => CheapestIsRanked
  <1> SUFFICES ASSUME CalcInv PROVE CheapestIsRanked
    OBVIOUS
  <1>1. VolumeInput(volume) \in Work
    BY WorkTyped DEF CalcInv
  <1>2. Len(slugs) = 1 =>
           \A slug \in Compared : \A code \in CheapestCost(slug, VolumeInput(volume)) :
              <<slug, code>> \in Badged
    BY <1>1, HubAgrees DEF Badged
  <1> QED BY <1>2, TotalsRanked DEF CheapestIsRanked

----------------------------------------------------------------------------
\* Every URL, saved or clicked, comes out as a comparison of tools the page can
\* show, and each field holds a volume the calculator takes.
THEOREM CalcInvariant == CalcSpec => []CalcInv
  BY CalcInitInv, CalcNextInv, PTL DEF CalcSpec

\* A comparison is a set of at most MAX_TOOLS tools, however the clicks overtake
\* the navigation.
THEOREM CalcTypeCorrect == CalcSpec => []CalcTypeOK
  BY CalcInvariant, CalcInvImplies, PTL

\* The row the table badges is the answer, and a tool's row in the hub names no
\* plan the table would not badge (cheapestRows, cheapestCost).
THEOREM BadgeIsTheAnswer == CalcSpec => []CheapestIsRanked
  BY CalcInvariant, CheapestRanked, PTL

\* More work never costs less, across allowances, overage rates, caps and the
\* rounding of a converted total (documentCost).
THEOREM MoreWorkCostsMore == CalcSpec => MoreWorkNeverCostsLess
  BY CalcInvariant, MoreWorkStep, PTL DEF CalcSpec, MoreWorkNeverCostsLess
=============================================================================
