---------------------------- MODULE ConsentPages ----------------------------
(* The pages where a signed-in reader answers a request that came from        *)
(* somewhere else: a pdfredeval sign-in (cli-login-approval.tsx), an MCP       *)
(* connector (mcp-consent.tsx) and a claim link staff mailed                   *)
(* (claim-invite.tsx).  The page reads the request, shows buttons and passes   *)
(* the answer on.  The reader may have it open twice, what it read goes stale, *)
(* the request expires, is revoked or is taken by somebody else, and answers   *)
(* are lost and given again.                                                   *)
EXTENDS ApiClient, FiniteSets

CONSTANTS
    ConsentTabs,   \* the tabs the request is open in
    MaxAnswers     \* bound: buttons pressed

ASSUME ConsentAssumption ==
    MaxAnswers \in Nat \ {0} /\ ConsentTabs \subseteq Nat /\ IsFiniteSet(ConsentTabs)

VARIABLES
    consentKind,   \* which request this is
    ask,           \* server: how it stands, who was granted it, codes made out
    askTabs,       \* the pages it is open in
    answersGiven   \* presses so far

consentVars == <<consentKind, ask, askTabs, answersGiven>>

ConsentKinds == {"cli", "mcp", "invite"}
Code == "code"
UnopenedAsk == [load |-> NoCall, read |-> "none", decided |-> "none", call |-> NoCall,
                redirects |-> 0]

\* an MCP request may be one the server will not ask about at all
ConsentInit ==
    /\ consentKind \in ConsentKinds
    /\ \E status \in {"open"} \cup (IF consentKind = "mcp" THEN {"bad"} ELSE {}) :
          ask = [status |-> status, by |-> "nobody", codes |-> 0]
    /\ askTabs = [t \in ConsentTabs |-> UnopenedAsk]
    /\ answersGiven = 0

ReadKey == CASE consentKind = "cli"    -> GetCliLogin(Code)
             [] consentKind = "mcp"    -> GetMcpAuthorization(Code)
             [] consentKind = "invite" -> GetClaimInvite(Code)

----------------------------------------------------------------------------
\* opening the page reads the request and nothing more; a revoked invite reads
\* as unknown, an MCP request the server refuses bounces to the client
OpenAsk(t) ==
    /\ askTabs[t] = UnopenedAsk /\ \A u \in ConsentTabs : u < t => askTabs[u] # UnopenedAsk
    /\ askTabs' = [askTabs EXCEPT ![t].load = Fetch(ReadKey)]
    /\ UNCHANGED <<consentKind, ask, answersGiven>>

ServeAsk(t) ==
    LET load == askTabs[t].load IN
    /\ load.stage = "sent"
    /\ \/ /\ ask.status # "revoked"
          /\ askTabs' = [askTabs EXCEPT ![t].load = Succeeds(load, ask.status)]
       \/ askTabs' = [askTabs EXCEPT ![t].load = Fails(load)]
    /\ UNCHANGED <<consentKind, ask, answersGiven>>

AskRead(t) ==
    LET load == askTabs[t].load IN
    /\ load.stage = "answered"
    /\ askTabs' = [askTabs EXCEPT
          ![t].load = NoCall,
          ![t].read = IF load.ok THEN load.data ELSE "error",
          ![t].redirects = IF load.ok /\ load.data = "bad" THEN @ + 1 ELSE @]
    /\ UNCHANGED <<consentKind, ask, answersGiven>>

\* decided ?? data; the MCP page keeps its buttons, busy, until the browser has
\* left
ShownAs(t) ==
    IF askTabs[t].decided # "none" /\ consentKind # "mcp" THEN askTabs[t].decided
                                                          ELSE askTabs[t].read
Busy(t) == \/ Pending(askTabs[t].call)
           \/ consentKind = "mcp" /\ askTabs[t].decided # "none"

Answers == CASE consentKind = "cli"    -> {ApproveCliLogin(Code), DenyCliLogin(Code)}
             [] consentKind = "mcp"    -> {DecideMcpAuthorization("allow"),
                                           DecideMcpAuthorization("deny")}
             [] consentKind = "invite" -> {RedeemToolClaimInvite(Code)}

PressAnswer(t) ==
    /\ ShownAs(t) = "open" /\ ~Busy(t) /\ answersGiven < MaxAnswers
    /\ answersGiven' = answersGiven + 1
    /\ \E req \in Answers : askTabs' = [askTabs EXCEPT ![t].call = Sent(req)]
    /\ UNCHANGED <<consentKind, ask>>

----------------------------------------------------------------------------
\* the server's side of an answer, under the row's lock: what it leaves behind
\* and says.  A login is decided while it is pending; a link is redeemed once,
\* and its redeemer may ask again; an MCP answer makes out a code or none.
Decide(req) ==
    CASE req.op = "ApproveCliLogin" ->
            {[was |-> "open", leaves |-> [ask EXCEPT !.status = "approved", !.by = "reader"],
              says |-> "approved"]}
      [] req.op = "DenyCliLogin" ->
            {[was |-> "open", leaves |-> [ask EXCEPT !.status = "denied", !.by = "reader"],
              says |-> "denied"]}
      [] req.op = "RedeemToolClaimInvite" ->
            {[was |-> "open", leaves |-> [ask EXCEPT !.status = "redeemed", !.by = "reader"],
              says |-> "redeemed"]} \cup
            (IF ask.by = "reader" THEN {[was |-> "redeemed", leaves |-> ask, says |-> "redeemed"]}
                                  ELSE {})
      [] req.op = "DecideMcpAuthorization" ->
            {[was |-> "open", says |-> req.body,
              leaves |-> [ask EXCEPT !.codes = IF req.body = "allow" THEN @ + 1 ELSE @]],
             [was |-> "bad", leaves |-> ask, says |-> "bad"]}

ServeAnswer(t) ==
    LET call == askTabs[t].call IN
    /\ call.stage = "sent"
    /\ \/ \E d \in Decide(call.req), arrives \in BOOLEAN :
             /\ ask.status = d.was
             /\ ask' = d.leaves
             /\ askTabs' = [askTabs EXCEPT ![t].call =
                               IF arrives THEN Succeeds(call, d.says) ELSE Fails(call)]
       \/ askTabs' = [askTabs EXCEPT ![t].call = Fails(call)] /\ UNCHANGED ask
    /\ UNCHANGED <<consentKind, answersGiven>>

\* a refusal or a lost answer leaves the buttons and says it failed; an MCP
\* answer sends the browser on
AnswerArrived(t) ==
    LET call == askTabs[t].call IN
    /\ call.stage = "answered"
    /\ askTabs' = [askTabs EXCEPT
          ![t].call = NoCall,
          ![t].decided = IF call.ok THEN call.data ELSE @,
          ![t].redirects = IF call.ok /\ consentKind = "mcp" THEN @ + 1 ELSE @]
    /\ UNCHANGED <<consentKind, ask, answersGiven>>

\* meanwhile: the login runs out, or the terminal takes its key; staff revoke
\* the link, or somebody it was forwarded to takes it
AskMovesOn ==
    /\ \/ consentKind = "cli" /\ ask.status = "open" /\ ask' = [ask EXCEPT !.status = "expired"]
       \/ consentKind = "cli" /\ ask.status = "approved"
             /\ ask' = [ask EXCEPT !.status = "consumed"]
       \/ consentKind = "invite" /\ ask.status = "open"
             /\ ask' = [ask EXCEPT !.status = "revoked"]
       \/ consentKind = "invite" /\ ask.status = "open"
             /\ ask' = [ask EXCEPT !.status = "redeemed", !.by = "other"]
    /\ UNCHANGED <<consentKind, askTabs, answersGiven>>

ConsentSteps(t) == ServeAsk(t) \/ AskRead(t) \/ ServeAnswer(t) \/ AnswerArrived(t)
ConsentNext ==
    \/ AskMovesOn
    \/ \E t \in ConsentTabs : OpenAsk(t) \/ PressAnswer(t) \/ ConsentSteps(t)
ConsentFairness == \A t \in ConsentTabs : WF_consentVars(ConsentSteps(t))
ConsentSpec == ConsentInit /\ [][ConsentNext]_consentVars /\ ConsentFairness

----------------------------------------------------------------------------
AskStatus == {"open", "bad", "approved", "denied", "expired", "consumed", "redeemed", "revoked"}
ConsentTypeOK ==
    /\ ask.status \in AskStatus /\ ask.by \in {"nobody", "reader", "other"} /\ ask.codes \in Nat
    /\ \A t \in ConsentTabs :
          /\ askTabs[t].read \in AskStatus \cup {"none", "error"}
          /\ askTabs[t].decided \in AskStatus \cup {"none", "allow", "deny"}

\* What a page says was decided is what the server holds, whichever of two tabs
\* it was answered in, before or after it ran out, was taken or the answer of a
\* first press was lost: "Signed in" stands for an approved login, "denied" for a
\* denied one, "You maintain" for a link this reader redeemed.  And a connector
\* is sent at most one answer by a page, and by no tab a code that was not made
\* out.
DecisionShownWasMade ==
    \A t \in ConsentTabs :
        /\ ShownAs(t) \in {"approved", "consumed"} => ask.status \in {"approved", "consumed"}
        /\ ShownAs(t) = "denied" => ask.status = "denied"
        /\ consentKind = "invite" /\ askTabs[t].decided = "redeemed" => ask.by = "reader"
        /\ askTabs[t].redirects <= 1
        /\ Cardinality({u \in ConsentTabs : askTabs[u].decided = "allow"}) <= ask.codes

\* no button is waiting for its answer
ConsentSettled == \A t \in ConsentTabs : ~Pending(askTabs[t].call)
=============================================================================
