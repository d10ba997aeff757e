---------------------------- MODULE MyBenchmarks ----------------------------
(* The account's own benchmark pages (features/benchmarks: my-submissions,   *)
(* add-run-screenshots, api-keys-panel).  The list of submissions is polled   *)
(* while one of them is shown as scoring; a draft is sent, a submission       *)
(* withdrawn, screenshots added, each re-reading the list on success only.    *)
(* A new key's secret is shown once.  The server scores and decides on its    *)
(* own; any answer or re-read may be lost.                                    *)
EXTENDS ApiClient, FiniteSets

CONSTANTS
    Submissions,   \* the account's submissions
    KeyIds,        \* ids of API keys, handed out in order
    AccountVisits  \* bound: how often the reader sends, withdraws or adds pictures
                   \* (acts), makes or revokes keys (keys), and editors decide or
                   \* rescore (staff)

ASSUME AccountAssumption ==
    /\ Submissions # {} /\ KeyIds \subseteq Nat \ {0}
    /\ \A v \in AccountVisits : {v.acts, v.keys, v.staff} \subseteq Nat

VARIABLES
    accountVisit,  \* what is left of the visit's bounds
    subs,          \* server: the status of each submission
    pictured,      \* server: the submissions whose run has screenshots
    mySubs,        \* the query cache: the statuses as last listed
    subsRead,      \* the list being read again
    subCalls,      \* the withdraw, send and add hooks
    keys,          \* server: each key: none, live, revoked
    myKeys,        \* the query cache: the keys as last listed
    keysRead,      \* the list being read again
    keyCalls,      \* the create and revoke hooks
    createdKey,    \* useState: the key whose secret is on the screen, 0 for none
    keysUnsettled  \* history: an answer or a re-read about keys was lost

accountVars == <<accountVisit, subs, pictured, mySubs, subsRead, subCalls, keys, myKeys,
                 keysRead, keyCalls, createdKey, keysUnsettled>>
subVars == <<subs, pictured, mySubs, subsRead, subCalls>>
keyVars == <<keys, myKeys, keysRead, keyCalls, createdKey, keysUnsettled>>

SubHooks == {"withdraw", "send", "add"}
KeyHooks == {"create", "revoke"}
SubStatus == {"draft", "scoring", "scoring_failed", "pending_review", "approved",
              "rejected", "withdrawn"}

\* my-submissions.tsx
WITHDRAWABLE == {"draft", "scoring", "scoring_failed", "pending_review"}
CLOSED == {"withdrawn", "rejected"}

AccountInit ==
    /\ accountVisit \in AccountVisits
    /\ subs = [s \in Submissions |-> "draft"] /\ pictured = {}
    /\ mySubs = subs /\ subsRead = NoCall /\ subCalls = [h \in SubHooks |-> NoCall]
    /\ keys = [k \in KeyIds |-> "none"] /\ myKeys = keys
    /\ keysRead = NoCall /\ keyCalls = [h \in KeyHooks |-> NoCall]
    /\ createdKey = 0 /\ keysUnsettled = FALSE

SpendAccount(kind) ==
    /\ accountVisit[kind] > 0
    /\ accountVisit' = [accountVisit EXCEPT ![kind] = @ - 1]

Ask(calls, hook, req) == [calls EXCEPT ![hook] = Sent(req)]

----------------------------------------------------------------------------
\* the buttons, by the status the list shows
SendDraft(s) ==
    /\ mySubs[s] = "draft" /\ ~Pending(subCalls["send"]) /\ SpendAccount("acts")
    /\ subCalls' = Ask(subCalls, "send", FinalizeBenchmarkSubmission(s))
    /\ UNCHANGED <<subs, pictured, mySubs, subsRead, keyVars>>

WithdrawSubmission(s) ==
    /\ mySubs[s] \in WITHDRAWABLE /\ ~Pending(subCalls["withdraw"]) /\ SpendAccount("acts")
    /\ subCalls' = Ask(subCalls, "withdraw", WithdrawBenchmarkSubmission(s))
    /\ UNCHANGED <<subs, pictured, mySubs, subsRead, keyVars>>

AddPictures(s) ==
    /\ mySubs[s] \notin CLOSED /\ ~Pending(subCalls["add"]) /\ SpendAccount("acts")
    /\ subCalls' = Ask(subCalls, "add", AddBenchmarkRunScreenshots(s, "shot"))
    /\ UNCHANGED <<subs, pictured, mySubs, subsRead, keyVars>>

\* the server (apps/benchmarks/services.py finalize, withdraw, add_screenshots)
SubWritten(hook, s) ==
    CASE hook = "send" ->
            /\ subs[s] = "draft"
            /\ subs' = [subs EXCEPT ![s] = "scoring"] /\ UNCHANGED pictured
      [] hook = "withdraw" ->
            /\ subs[s] \in WITHDRAWABLE
            /\ subs' = [subs EXCEPT ![s] = "withdrawn"] /\ UNCHANGED pictured
      [] hook = "add" ->
            /\ subs[s] \notin CLOSED
            /\ pictured' = pictured \cup {s} /\ UNCHANGED subs

ServeSubCall(h) ==
    LET call == subCalls[h] IN
    /\ call.stage = "sent"
    /\ \/ /\ SubWritten(h, call.req.path[1])
          /\ \E arrives \in BOOLEAN :
                subCalls' = [subCalls EXCEPT ![h] =
                                IF arrives THEN Succeeds(call, 0) ELSE Fails(call)]
       \/ subCalls' = [subCalls EXCEPT ![h] = Fails(call)] /\ UNCHANGED <<subs, pictured>>
    /\ UNCHANGED <<accountVisit, mySubs, subsRead, keyVars>>

ScoringEnds(s) ==
    /\ subs[s] = "scoring"
    /\ \E status \in {"pending_review", "scoring_failed"} :
          subs' = [subs EXCEPT ![s] = status]
    /\ UNCHANGED <<accountVisit, pictured, mySubs, subsRead, subCalls, keyVars>>

EditorsDecide ==
    /\ SpendAccount("staff")
    /\ \E s \in Submissions :
          \/ /\ subs[s] = "pending_review"
             /\ \E status \in {"approved", "rejected"} : subs' = [subs EXCEPT ![s] = status]
          \/ /\ subs[s] \in {"pending_review", "scoring_failed"}
             /\ subs' = [subs EXCEPT ![s] = "scoring"]
    /\ UNCHANGED <<pictured, mySubs, subsRead, subCalls, keyVars>>

\* a success re-reads the list and the hook stays pending for that; a re-read
\* dropped by another one releases whoever waited for it
ReleaseNone(calls) == calls
Release(calls) ==
    [h \in DOMAIN calls |-> IF calls[h].stage = "relisting" THEN NoCall ELSE calls[h]]

SubAnswered(h) ==
    LET call == subCalls[h] IN
    /\ call.stage = "answered"
    /\ IF call.ok
       THEN /\ subsRead' = Fetch(ListMyBenchmarkSubmissions)
            /\ subCalls' = [Release(subCalls) EXCEPT ![h] = [call EXCEPT !.stage = "relisting"]]
       ELSE subCalls' = [subCalls EXCEPT ![h] = NoCall] /\ UNCHANGED subsRead
    /\ UNCHANGED <<accountVisit, subs, pictured, mySubs, keyVars>>

\* refetchInterval: every five seconds while the list shows one as scoring
PollDrafts ==
    /\ ~Pending(subsRead) /\ \E s \in Submissions : mySubs[s] = "draft"
    /\ subsRead' = Fetch(ListMyBenchmarkSubmissions)
    /\ UNCHANGED <<accountVisit, subs, pictured, mySubs, subCalls, keyVars>>
PollSubs ==
    /\ ~Pending(subsRead) /\ \E s \in Submissions : mySubs[s] = "scoring"
    /\ subsRead' = Fetch(ListMyBenchmarkSubmissions)
    /\ UNCHANGED <<accountVisit, subs, pictured, mySubs, subCalls, keyVars>>

ServeSubList ==
    /\ subsRead.stage = "sent"
    /\ subsRead' = Succeeds(subsRead, subs)
    /\ UNCHANGED <<accountVisit, subs, pictured, mySubs, subCalls, keyVars>>

\* a failed re-read keeps what was listed, and the interval goes on by that
SubsRelisted(arrives) ==
    /\ subsRead.stage = "answered"
    /\ mySubs' = IF arrives THEN subsRead.data ELSE mySubs
    /\ subsRead' = NoCall /\ subCalls' = Release(subCalls)
    /\ UNCHANGED <<accountVisit, subs, pictured, keyVars>>

----------------------------------------------------------------------------
\* api-keys-panel.tsx
CreateKey ==
    /\ ~Pending(keyCalls["create"]) /\ SpendAccount("keys")
    /\ keyCalls' = Ask(keyCalls, "create", CreateApiKey("label"))
    /\ UNCHANGED <<subVars, keys, myKeys, keysRead, createdKey, keysUnsettled>>

RevokeKey(k) ==
    /\ myKeys[k] = "live" /\ ~Pending(keyCalls["revoke"]) /\ SpendAccount("keys")
    /\ keyCalls' = Ask(keyCalls, "revoke", RevokeApiKey(k))
    /\ UNCHANGED <<subVars, keys, myKeys, keysRead, createdKey, keysUnsettled>>

ServeKeyCall(h) ==
    LET call == keyCalls[h]
        Done(arrives, data) ==
            /\ keyCalls' = [keyCalls EXCEPT ![h] =
                               IF arrives THEN Succeeds(call, data) ELSE Fails(call)]
            /\ keysUnsettled' = (keysUnsettled \/ ~arrives) IN
    /\ call.stage = "sent"
    /\ \/ /\ h = "create"
          /\ \E k \in KeyIds, arrives \in BOOLEAN :
                /\ keys[k] = "none" /\ \A j \in KeyIds : j < k => keys[j] # "none"
                /\ keys' = [keys EXCEPT ![k] = "live"] /\ Done(arrives, k)
       \/ /\ h = "revoke"
          /\ keys' = [keys EXCEPT ![call.req.path[1]] = "revoked"]
          /\ \E arrives \in BOOLEAN : Done(arrives, 0)
       \/ /\ keyCalls' = [keyCalls EXCEPT ![h] = Fails(call)]
          /\ UNCHANGED <<keys, keysUnsettled>>
    /\ UNCHANGED <<accountVisit, subVars, myKeys, keysRead, createdKey>>

\* a created key is shown at once and the list is read behind it (void
\* refresh()); a revocation waits for the list
KeyAnswered(h) ==
    LET call == keyCalls[h] IN
    /\ call.stage = "answered"
    /\ keysRead' = IF call.ok THEN Fetch(ListMyApiKeys) ELSE keysRead
    /\ keyCalls' =
         IF call.ok
         THEN [Release(keyCalls) EXCEPT ![h] =
                  IF h = "revoke" THEN [call EXCEPT !.stage = "relisting"] ELSE NoCall]
         ELSE [keyCalls EXCEPT ![h] = NoCall]
    /\ createdKey' = IF call.ok /\ h = "create" THEN call.data ELSE createdKey
    /\ UNCHANGED <<accountVisit, subVars, keys, myKeys, keysUnsettled>>

ServeKeyList ==
    /\ keysRead.stage = "sent"
    /\ keysRead' = Succeeds(keysRead, keys)
    /\ UNCHANGED <<accountVisit, subVars, keys, myKeys, keyCalls, createdKey,
                   keysUnsettled>>

KeysRelisted ==
    /\ keysRead.stage = "answered"
    /\ \/ myKeys' = keysRead.data /\ UNCHANGED keysUnsettled
       \/ keysUnsettled' = TRUE /\ UNCHANGED myKeys
    /\ keysRead' = NoCall /\ keyCalls' = Release(keyCalls)
    /\ UNCHANGED <<accountVisit, subVars, keys, createdKey>>

AccountSteps ==
    \/ \E h \in SubHooks : ServeSubCall(h) \/ SubAnswered(h)
    \/ \E h \in KeyHooks : ServeKeyCall(h) \/ KeyAnswered(h)
    \/ ServeKeyList \/ KeysRelisted
AccountReader ==
    \/ \E s \in Submissions : SendDraft(s) \/ WithdrawSubmission(s) \/ AddPictures(s)
    \/ CreateKey \/ \E k \in KeyIds : RevokeKey(k)
ListingSteps == PollSubs \/ ServeSubList \/ \E arrives \in BOOLEAN : SubsRelisted(arrives)
AccountNext ==
    \/ AccountSteps \/ AccountReader \/ EditorsDecide
    \/ ListingSteps
    \/ \E s \in Submissions : ScoringEnds(s)

\* calls are answered, the interval fires, scoring ends; and a list that is
\* asked for again and again arrives in the end
AccountFairness ==
    /\ WF_accountVars(AccountSteps) /\ WF_accountVars(ListingSteps)
    /\ SF_accountVars(SubsRelisted(TRUE))
    /\ \A s \in Submissions : WF_accountVars(ScoringEnds(s))
AccountSpec == AccountInit /\ [][AccountNext]_accountVars /\ AccountFairness

----------------------------------------------------------------------------
AccountTypeOK ==
    /\ subs \in [Submissions -> SubStatus] /\ mySubs \in [Submissions -> SubStatus]
    /\ pictured \subseteq Submissions
    /\ keys \in [KeyIds -> {"none", "live", "revoked"}]
    /\ myKeys \in [KeyIds -> {"none", "live", "revoked"}]
    /\ createdKey \in KeyIds \cup {0}

\* The page settles without a reload: what is shown as scoring is shown as
\* something else once it is decided, though polls fail and a send or a
\* withdrawal drops the poll under way (my-submissions.tsx refetchInterval).
ScoringShownSettles ==
    \A s \in Submissions : []<>(mySubs[s] # "scoring")

\* no button is waiting for its answer
AccountSettled ==
    /\ \A h \in SubHooks : subCalls[h] = NoCall
    /\ \A h \in KeyHooks : keyCalls[h] = NoCall

\* When nothing is in flight and nothing was lost the panel lists the keys as
\* they are: a revoked key is never left looking live by the re-read of a key
\* created meanwhile (api-keys-panel.tsx refresh).
KeysListIsCurrent ==
    AccountSettled /\ keysRead = NoCall /\ ~keysUnsettled => myKeys = keys
=============================================================================
